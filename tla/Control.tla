------------------------------- MODULE Control -------------------------------
(***************************************************************************)
(* What the data plane can observe of the engine's control plane: whether  *)
(* a session runs, whether messages for a given connection can be routed,  *)
(* whether the live Lua script is user code, and whether a repeating batch *)
(* produces messages.                                                      *)
(*                                                                         *)
(* Module Engine implements this specification; module Routing builds on   *)
(* it, so that what holds there does not depend on how sessions, scripts   *)
(* and batches are kept.                                                   *)
(***************************************************************************)

VARIABLES
  running,    \* a session runs
  draining,   \* Stop waits for the connection tasks
  connected,  \* the engine has a sender for the connection
  hooks,      \* the live script is user code
  ticking     \* a repeating batch sends

controlVars == <<running, draining, connected, hooks, ticking>>

TypeOK ==
  /\ running \in BOOLEAN /\ draining \in BOOLEAN /\ connected \in BOOLEAN
  /\ hooks \in BOOLEAN /\ ticking \in BOOLEAN

Init ==
  /\ running = FALSE /\ draining = FALSE /\ connected = FALSE
  /\ hooks = FALSE /\ ticking = FALSE

(* Start: the manifest may or may not have the connection, and user code.  *)
Open ==
  /\ ~running /\ ~draining
  /\ running' = TRUE
  /\ connected' \in BOOLEAN
  /\ hooks' \in BOOLEAN
  /\ UNCHANGED <<draining, ticking>>

(* Stop, before and after it waits for the connection tasks. *)
Shut ==
  /\ ~draining /\ draining' = TRUE
  /\ running' = FALSE /\ hooks' = FALSE /\ ticking' = FALSE
  /\ UNCHANGED connected

Drained ==
  /\ draining /\ draining' = FALSE
  /\ connected' = FALSE
  /\ UNCHANGED <<running, hooks, ticking>>

(* Batches start only in a session and may end at any time. *)
BatchStarts ==
  /\ running /\ ~draining /\ ticking' = TRUE
  /\ UNCHANGED <<running, draining, connected, hooks>>

BatchesEnd ==
  /\ ticking' = FALSE
  /\ UNCHANGED <<running, draining, connected, hooks>>

(* set_lua exchanges the script, whether or not a session runs. *)
Rescript ==
  /\ ~draining
  /\ hooks' \in BOOLEAN
  /\ UNCHANGED <<running, draining, connected, ticking>>

Next == Open \/ Shut \/ Drained \/ BatchStarts \/ BatchesEnd \/ Rescript

Spec == Init /\ [][Next]_controlVars
=============================================================================
