----------------------------- MODULE MCRouting -----------------------------
(***************************************************************************)
(* Model-checking instance of Routing: with two slots in the lane and one  *)
(* in each other channel, three messages and the other entries of the lane *)
(* fill every place at the same time.  A message scheduled for time 2 is   *)
(* sent at once from time 1 on.                                            *)
(***************************************************************************)
EXTENDS Routing
=============================================================================
