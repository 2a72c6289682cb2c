---------------------------- MODULE EngineProofs ----------------------------
(***************************************************************************)
(* Theorems about the control plane, for every set of callers and every    *)
(* number of connections, sessions, scripts and batches.                   *)
(***************************************************************************)
EXTENDS Engine, FiniteSetTheorems, TLAPS

(* What the safety properties add up to, and what makes them inductive:    *)
(* the engine can route to exactly the tasks it can await, all of the last *)
(* session and, in a drain, all cancelled; and no script is newer than the *)
(* number of scripts made.                                                 *)
SessionInv ==
  /\ senders = handlers
  /\ \A t \in senders : t[1] = session
  /\ TasksBelongToSession
  /\ pc = "drain" => ~running /\ \A t \in senders : t[1] \in cancelled

ScriptInv ==
  /\ made \in Nat /\ script \in 0 .. made
  /\ stopped \subseteq 1 .. made
  /\ StoppedScriptIsReplaced

-----------------------------------------------------------------------------
(* Batches.                                                                *)
LEMMA BatchStep == NoOrphanBatch /\ [Next]_vars => NoOrphanBatch'
<1> SUFFICES ASSUME NoOrphanBatch, [Next]_vars PROVE NoOrphanBatch'
  OBVIOUS
<1> USE DEF NoOrphanBatch
<1>1. ASSUME NEW c \in Callers, Serve(c) PROVE NoOrphanBatch'
  <2>1. CASE GetState(c)
    BY <2>1 DEF GetState, engine_vars, session_vars, batch_vars
  <2>2. ASSUME NEW m, SetManifest(c, m) PROVE NoOrphanBatch'
    BY <2>2 DEF SetManifest, session_vars, batch_vars
  <2>3. ASSUME NEW m, StartRejected(c, m) PROVE NoOrphanBatch'
    BY <2>3 DEF StartRejected, session_vars, batch_vars
  <2>4. ASSUME NEW m, StartAccepted(c, m) PROVE NoOrphanBatch'
    BY <2>4 DEF StartAccepted, batch_vars
  <2>5. CASE Stop(c)
    BY <2>5 DEF Stop, ClearBatches
  <2>6. CASE SendRepeating(c)
    <3>1. CASE running /\ batches' = batches \cup {nextBatch}
                 /\ repeating' = repeating \cup {nextBatch} /\ running' = running
      BY <3>1
    <3>2. CASE UNCHANGED <<batches, repeating, running>>
      BY <3>2
    <3> QED
      BY <2>6, <3>1, <3>2 DEF SendRepeating, session_vars, batch_vars
  <2>7. ASSUME NEW ids, StopBatches(c, ids) PROVE NoOrphanBatch'
    BY <2>7 DEF StopBatches, ClearBatches, session_vars
  <2>8. ASSUME NEW flag, NEW compiles, NEW reload, SetLua(c, flag, compiles, reload)
        PROVE  NoOrphanBatch'
    BY <2>8 DEF SetLua, session_vars, batch_vars
  <2> QED
    BY <1>1, <2>1, <2>2, <2>3, <2>4, <2>5, <2>6, <2>7, <2>8, Zenon DEF Serve, Start
<1>2. ASSUME NEW c \in Callers, Broadcast(c) PROVE NoOrphanBatch'
  BY <1>2 DEF Broadcast, engine_vars, session_vars, batch_vars
<1>3. CASE FinishStop \/ TaskEnds \/ TaskDropped
  BY <1>3 DEF FinishStop, TaskEnds, TaskDropped, batch_vars
<1>4. CASE BatchEnds
  BY <1>4 DEF BatchEnds, session_vars
<1>5. CASE UNCHANGED vars
  BY <1>5 DEF vars, engine_vars, session_vars, batch_vars
<1> QED
  BY <1>1, <1>2, <1>3, <1>4, <1>5, Zenon DEF Next

(* A batch that still sends can be stopped by its id, and there are        *)
(* batches only while a session runs.                                      *)
THEOREM BatchesAreStoppable == Spec => []NoOrphanBatch
<1>1. Init => NoOrphanBatch
  BY DEF Init, NoOrphanBatch
<1> QED
  BY <1>1, BatchStep, PTL DEF Spec
-----------------------------------------------------------------------------
(* Sessions. *)
LEMMA SessionStep == SessionInv /\ [Next]_vars => SessionInv'
<1> SUFFICES ASSUME SessionInv, [Next]_vars PROVE SessionInv'
  OBVIOUS
<1> USE DEF SessionInv, TasksBelongToSession
<1>0. ASSUME UNCHANGED <<session_vars, pc>> PROVE SessionInv'
  BY <1>0 DEF session_vars
<1>1. ASSUME NEW c \in Callers, Serve(c) PROVE SessionInv'
  <2>1. CASE GetState(c)
    BY <1>0, <2>1, Zenon DEF GetState, engine_vars
  <2>2. ASSUME NEW m, SetManifest(c, m) PROVE SessionInv'
    BY <1>0, <2>2, Zenon DEF SetManifest
  <2>3. ASSUME NEW m, StartRejected(c, m) PROVE SessionInv'
    BY <1>0, <2>3, Zenon DEF StartRejected
  <2>4. ASSUME NEW m, StartAccepted(c, m) PROVE SessionInv'
    <3>1. live = {} /\ pc' = "loop" /\ running'
      BY <2>4 DEF StartAccepted, Serves
    <3>2. /\ live' = handlers' /\ senders' = handlers' /\ session' = session + 1
          /\ handlers' = {session + 1} \X (1 .. m.conns)
          /\ UNCHANGED <<dying, cancelled>>
      BY <2>4, <3>1 DEF StartAccepted, Spawned
    <3>3. \A t \in handlers' : t[1] = session'
      BY <3>2
    <3> QED
      BY <3>1, <3>2, <3>3
  <2>5. CASE Stop(c)
    <3>1. /\ UNCHANGED <<senders, handlers, live, session, dying>>
          /\ ~running' /\ pc' = "drain"
          /\ cancelled' = cancelled \cup {t[1] : t \in senders}
      BY <2>5 DEF Stop
    <3>2. \A t \in live : t[1] \in cancelled'
      BY <3>1
    <3> QED
      BY <3>1, <3>2
  <2>6. CASE SendRepeating(c)
    BY <1>0, <2>6, Zenon DEF SendRepeating
  <2>7. ASSUME NEW ids, StopBatches(c, ids) PROVE SessionInv'
    BY <1>0, <2>7, Zenon DEF StopBatches
  <2>8. ASSUME NEW flag, NEW compiles, NEW reload, SetLua(c, flag, compiles, reload)
        PROVE  SessionInv'
    BY <1>0, <2>8, Zenon DEF SetLua
  <2> QED
    BY <1>1, <2>1, <2>2, <2>3, <2>4, <2>5, <2>6, <2>7, <2>8, Zenon DEF Serve, Start
<1>2. ASSUME NEW c \in Callers, Broadcast(c) PROVE SessionInv'
  BY <1>0, <1>2, Zenon DEF Broadcast, engine_vars
<1>3. CASE FinishStop
  BY <1>3 DEF FinishStop
<1>4. CASE TaskEnds
  BY <1>4 DEF TaskEnds
<1>5. CASE TaskDropped
  BY <1>5 DEF TaskDropped
<1>6. CASE BatchEnds
  BY <1>0, <1>6, Zenon DEF BatchEnds
<1>7. CASE UNCHANGED vars
  BY <1>0, <1>7, Zenon DEF vars, engine_vars
<1> QED
  BY <1>1, <1>2, <1>3, <1>4, <1>5, <1>6, <1>7, Zenon DEF Next

(* No connection task outlives its session: once a Stop is answered none   *)
(* of them runs, and only tasks of the running session are uncancelled.    *)
THEOREM SessionsOwnTasks == Spec => []TasksBelongToSession
<1>1. Init => SessionInv
  BY DEF Init, SessionInv, TasksBelongToSession
<1>2. SessionInv => TasksBelongToSession
  BY DEF SessionInv
<1> QED
  BY <1>1, <1>2, SessionStep, PTL DEF Spec
-----------------------------------------------------------------------------
(* Scripts. *)
LEMMA ScriptStep == ScriptInv /\ [Next]_vars => ScriptInv'
<1> SUFFICES ASSUME ScriptInv, [Next]_vars PROVE ScriptInv'
  OBVIOUS
<1> USE DEF ScriptInv, StoppedScriptIsReplaced
<1>0. ASSUME UNCHANGED script_vars PROVE ScriptInv'
  BY <1>0 DEF script_vars
<1>1. ASSUME NEW flag, NewScript(flag) PROVE made' \in Nat /\ made <= made' /\ script' \in {0, made + 1} /\ script' <= made'
  BY <1>1 DEF NewScript
<1>2. ASSUME NEW c \in Callers, Serve(c) PROVE ScriptInv'
  <2>1. CASE GetState(c)
    BY <1>0, <2>1, Zenon DEF GetState, engine_vars
  <2>2. ASSUME NEW m, SetManifest(c, m) PROVE ScriptInv'
    BY <1>0, <2>2, Zenon DEF SetManifest
  <2>3. ASSUME NEW m, StartRejected(c, m) PROVE ScriptInv'
    BY <1>0, <2>3, Zenon DEF StartRejected
  <2>4. ASSUME NEW m, StartAccepted(c, m) PROVE ScriptInv'
    <3>1. CASE NewScript(enabled) /\ stopped' = stopped
      BY <1>1, <3>1
    <3>2. CASE UNCHANGED <<script, made, stopped, stale>>
      BY <3>2
    <3> QED
      BY <2>4, <3>1, <3>2, Zenon DEF StartAccepted
  <2>5. CASE Stop(c)
    <3>1. script' = 0 /\ made' = made /\ stopped' = stopped \cup ({script} \ {0})
      BY <2>5, Zenon DEF Stop, OnStop
    <3> QED
      BY <3>1
  <2>6. CASE SendRepeating(c)
    BY <1>0, <2>6, Zenon DEF SendRepeating
  <2>7. ASSUME NEW ids, StopBatches(c, ids) PROVE ScriptInv'
    BY <1>0, <2>7, Zenon DEF StopBatches
  <2>8. ASSUME NEW flag, NEW compiles, NEW reload, SetLua(c, flag, compiles, reload)
        PROVE  ScriptInv'
    <3>1. CASE stopped' = stopped \cup ({script} \ {0}) /\ NewScript(flag)
      BY <1>1, <3>1
    <3>2. CASE stopped' = stopped \cup ({script} \ {0}) /\ stale' /\ UNCHANGED <<script, made>>
      BY <3>2
    <3>3. CASE UNCHANGED <<script, made, stopped, stale>>
      BY <3>3
    <3> QED
      BY <2>8, <3>1, <3>2, <3>3, Zenon DEF SetLua, OnStop
  <2> QED
    BY <1>2, <2>1, <2>2, <2>3, <2>4, <2>5, <2>6, <2>7, <2>8, Zenon DEF Serve, Start
<1>3. ASSUME NEW c \in Callers, Broadcast(c) PROVE ScriptInv'
  BY <1>0, <1>3, Zenon DEF Broadcast, engine_vars
<1>4. CASE FinishStop \/ TaskEnds \/ TaskDropped \/ BatchEnds
  BY <1>0, <1>4, Zenon DEF FinishStop, TaskEnds, TaskDropped, BatchEnds
<1>5. CASE UNCHANGED vars
  BY <1>0, <1>5, Zenon DEF vars, engine_vars
<1> QED
  BY <1>2, <1>3, <1>4, <1>5, Zenon DEF Next

(* A script whose on_stop was called stays live only after a rebuild that  *)
(* failed.                                                                 *)
THEOREM StoppedScriptsAreReplaced == Spec => []StoppedScriptIsReplaced
<1>1. Init => ScriptInv
  BY DEF Init, ScriptInv, StoppedScriptIsReplaced
<1>2. ScriptInv => StoppedScriptIsReplaced
  BY DEF ScriptInv
<1> QED
  BY <1>1, <1>2, ScriptStep, PTL DEF Spec

(* No live script is replaced without its on_stop, except by a Start.      *)
THEOREM OnStopComesFirst == Spec => OnStopFirst
<1> DEFINE Replaced == script # 0 /\ script' # script
           Excused  == script \in stopped' \/ (~running /\ running')
<1>1. ASSUME [Next]_vars PROVE Replaced => Excused
  <2>0. ASSUME UNCHANGED script PROVE Replaced => Excused
    BY <2>0, Zenon
  <2>1. ASSUME OnStop PROVE Replaced => Excused
    BY <2>1 DEF OnStop
  <2>2. ASSUME NEW c \in Callers, Serve(c) PROVE Replaced => Excused
    <3>1. ASSUME NEW m, SetManifest(c, m) \/ StartRejected(c, m) PROVE Replaced => Excused
      BY <2>0, <3>1, Zenon DEF SetManifest, StartRejected, script_vars
    <3>2. ASSUME NEW m, StartAccepted(c, m) PROVE Replaced => Excused
      BY <3>2, Zenon DEF StartAccepted
    <3>3. CASE GetState(c) \/ SendRepeating(c)
      BY <2>0, <3>3, Zenon DEF GetState, SendRepeating, engine_vars, script_vars
    <3>4. CASE Stop(c)
      BY <2>1, <3>4, Zenon DEF Stop
    <3>5. ASSUME NEW ids, StopBatches(c, ids) PROVE Replaced => Excused
      BY <2>0, <3>5, Zenon DEF StopBatches, script_vars
    <3>6. ASSUME NEW flag, NEW compiles, NEW reload, SetLua(c, flag, compiles, reload)
          PROVE  Replaced => Excused
      BY <2>0, <2>1, <3>6, Zenon DEF SetLua
    <3> QED
      BY <2>2, <3>1, <3>2, <3>3, <3>4, <3>5, <3>6, Zenon DEF Serve, Start
  <2>3. CASE FinishStop \/ TaskEnds \/ TaskDropped \/ BatchEnds \/ UNCHANGED vars
    BY <2>0, <2>3, Zenon DEF FinishStop, TaskEnds, TaskDropped, BatchEnds, vars, engine_vars,
                             script_vars
  <2>4. ASSUME NEW c \in Callers, Broadcast(c) PROVE Replaced => Excused
    BY <2>0, <2>4, Zenon DEF Broadcast, engine_vars, script_vars
  <2> QED
    BY <1>1, <2>2, <2>3, <2>4, Zenon DEF Next
<1>2. [Next]_vars => [Replaced => Excused]_vars
  BY <1>1
<1> QED
  BY <1>2, PTL DEF Spec, OnStopFirst
-----------------------------------------------------------------------------
(* The data plane sees module Control. *)
LEMMA ControlStep ==
  SessionInv /\ NoOrphanBatch /\ [Next]_vars => [Plane!Next]_(Plane!controlVars)
<1> SUFFICES ASSUME SessionInv, NoOrphanBatch, [Next]_vars
             PROVE  [Plane!Next]_(Plane!controlVars)
  OBVIOUS
<1>0. ASSUME UNCHANGED <<pc, running, senders, script, repeating>>
      PROVE  [Plane!Next]_(Plane!controlVars)
  BY <1>0, Zenon DEF Plane!controlVars
<1>1. ASSUME NEW c \in Callers, Serve(c) PROVE [Plane!Next]_(Plane!controlVars)
  <2>1. CASE GetState(c)
    BY <1>0, <2>1, Zenon DEF GetState, engine_vars, session_vars, batch_vars, script_vars
  <2>2. ASSUME NEW m, SetManifest(c, m) PROVE [Plane!Next]_(Plane!controlVars)
    BY <1>0, <2>2, Zenon DEF SetManifest, session_vars, batch_vars, script_vars
  <2>3. ASSUME NEW m, StartRejected(c, m) PROVE [Plane!Next]_(Plane!controlVars)
    BY <1>0, <2>3, Zenon DEF StartRejected, session_vars, batch_vars, script_vars
  <2>4. ASSUME NEW m, StartAccepted(c, m) PROVE [Plane!Next]_(Plane!controlVars)
    <3>1. /\ pc = "loop" /\ pc' = pc /\ ~running /\ running' = TRUE
          /\ repeating' = repeating
      BY <2>4, Zenon DEF StartAccepted, Serves, batch_vars
    <3>2. pc # "drain"
      BY <3>1
    <3>3. Plane!Open
      BY <3>1, <3>2, Zenon DEF Plane!Open
    <3> QED
      BY <3>3, Zenon DEF Plane!Next
  <2>5. CASE Stop(c)
    <3>1. /\ pc = "loop" /\ pc' = "drain" /\ running' = FALSE /\ script' = 0
          /\ repeating' = {} /\ senders' = senders
      BY <2>5, Zenon DEF Stop, Serves, ClearBatches
    <3>2. pc # "drain"
      BY <3>1
    <3>3. Plane!Shut
      BY <3>1, <3>2, Zenon DEF Plane!Shut
    <3> QED
      BY <3>3, Zenon DEF Plane!Next
  <2>6. CASE SendRepeating(c)
    <3>1. /\ pc = "loop" /\ UNCHANGED <<pc, running, senders, script>>
      BY <2>6, Zenon DEF SendRepeating, Serves, session_vars, script_vars
    <3>2. CASE repeating' = repeating
      BY <1>0, <3>1, <3>2, Zenon
    <3>3. CASE running /\ repeating' = repeating \cup {nextBatch}
      <4>1. repeating' # {} /\ pc # "drain"
        BY <3>1, <3>3
      <4>2. Plane!BatchStarts
        BY <3>1, <3>3, <4>1, Zenon DEF Plane!BatchStarts
      <4> QED
        BY <4>2, Zenon DEF Plane!Next
    <3> QED
      BY <2>6, <3>2, <3>3, Zenon DEF SendRepeating, batch_vars
  <2>7. ASSUME NEW ids, StopBatches(c, ids) PROVE [Plane!Next]_(Plane!controlVars)
    <3>1. UNCHANGED <<pc, running, senders, script>> /\ repeating' \subseteq repeating
      BY <2>7, Zenon DEF StopBatches, ClearBatches, session_vars, script_vars
    <3>2. CASE repeating' = {}
      <4>1. Plane!BatchesEnd
        BY <3>1, <3>2, Zenon DEF Plane!BatchesEnd
      <4> QED
        BY <4>1, Zenon DEF Plane!Next
    <3>3. CASE repeating' # {}
      BY <3>1, <3>3, Zenon DEF Plane!controlVars
    <3> QED
      BY <3>2, <3>3
  <2>8. ASSUME NEW flag, NEW compiles, NEW reload, SetLua(c, flag, compiles, reload)
        PROVE  [Plane!Next]_(Plane!controlVars)
    <3>1. pc = "loop" /\ UNCHANGED <<pc, running, senders, repeating>>
      BY <2>8, Zenon DEF SetLua, Serves, session_vars, batch_vars
    <3>2. pc # "drain"
      BY <3>1
    <3>3. Plane!Rescript
      BY <3>1, <3>2, Zenon DEF Plane!Rescript
    <3> QED
      BY <3>3, Zenon DEF Plane!Next
  <2> QED
    BY <1>1, <2>1, <2>2, <2>3, <2>4, <2>5, <2>6, <2>7, <2>8, Zenon DEF Serve, Start
<1>2. ASSUME NEW c \in Callers, Broadcast(c) PROVE [Plane!Next]_(Plane!controlVars)
  BY <1>0, <1>2, Zenon DEF Broadcast, engine_vars, session_vars, batch_vars, script_vars
<1>3. CASE FinishStop
  <2>1. /\ pc = "drain" /\ pc' = "loop" /\ senders' = {}
        /\ UNCHANGED <<running, script, repeating>>
    BY <1>3, Zenon DEF FinishStop, batch_vars, script_vars
  <2>2. pc' # "drain"
    BY <2>1
  <2>3. Plane!Drained
    BY <2>1, <2>2, Zenon DEF Plane!Drained
  <2> QED
    BY <2>3, Zenon DEF Plane!Next
<1>4. CASE TaskEnds \/ TaskDropped
  BY <1>0, <1>4, Zenon DEF TaskEnds, TaskDropped, batch_vars, script_vars
<1>5. CASE BatchEnds
  <2>1. UNCHANGED <<pc, running, senders, script>> /\ repeating' \subseteq repeating
    BY <1>5, Zenon DEF BatchEnds, session_vars, script_vars
  <2>2. CASE repeating' = {}
    <3>1. Plane!BatchesEnd
      BY <2>1, <2>2, Zenon DEF Plane!BatchesEnd
    <3> QED
      BY <3>1, Zenon DEF Plane!Next
  <2>3. CASE repeating' # {}
    BY <2>1, <2>3, Zenon DEF Plane!controlVars
  <2> QED
    BY <2>2, <2>3
<1>6. CASE UNCHANGED vars
  BY <1>0, <1>6, Zenon DEF vars, engine_vars, session_vars, batch_vars, script_vars
<1> QED
  BY <1>1, <1>2, <1>3, <1>4, <1>5, <1>6, Zenon DEF Next

(* The control plane of the engine implements the one that the data plane  *)
(* is built on, so what module Routing shows holds for the engine.         *)
THEOREM EngineIsControl == Spec => ControlSpec
<1>1. Init => SessionInv /\ NoOrphanBatch
  BY DEF Init, SessionInv, TasksBelongToSession, NoOrphanBatch
<1>2. Init => Plane!Init
  <2> SUFFICES ASSUME Init PROVE Plane!Init
    OBVIOUS
  <2>1. pc # "drain" /\ ~(\E t \in senders : t[2] = 1) /\ ~(script # 0) /\ ~(repeating # {})
    BY DEF Init
  <2>2. running = FALSE
    BY Zenon DEF Init
  <2> QED
    BY <2>1, <2>2, Zenon DEF Plane!Init
<1> QED
  BY <1>1, <1>2, SessionStep, BatchStep, ControlStep, PTL DEF Spec, ControlSpec, Plane!Spec
-----------------------------------------------------------------------------
(* The connection count. *)
LEMMA SpawnedProps ==
  ASSUME NEW s, NEW n \in Nat
  PROVE  IsFiniteSet(Spawned(s, n)) /\ Cardinality(Spawned(s, n)) = n
<1>1. IsFiniteSet({s}) /\ Cardinality({s}) = 1
  BY FS_Singleton
<1>2. IsFiniteSet(1 .. n) /\ Cardinality(1 .. n) = n
  BY FS_Interval
<1>3. /\ IsFiniteSet({s} \X (1 .. n))
      /\ Cardinality({s} \X (1 .. n)) = Cardinality({s}) * Cardinality(1 .. n)
  BY <1>1, <1>2, FS_Product, Zenon
<1>4. 1 * n = n
  OBVIOUS
<1> QED
  BY <1>1, <1>2, <1>3, <1>4, Zenon DEF Spawned

CountInv == count = Cardinality(senders)

LEMMA CountStep == SessionInv /\ CountInv /\ [Next]_vars => CountInv'
<1> SUFFICES ASSUME SessionInv, CountInv, [Next]_vars PROVE CountInv'
  OBVIOUS
<1> USE DEF CountInv
<1>0. ASSUME UNCHANGED <<count, senders>> PROVE CountInv'
  BY <1>0
<1>1. ASSUME NEW c \in Callers, Serve(c) PROVE CountInv'
  <2>1. ASSUME NEW m, StartAccepted(c, m) PROVE CountInv'
    BY <2>1 DEF StartAccepted
  <2>2. ASSUME NEW m, SetManifest(c, m) \/ StartRejected(c, m) PROVE CountInv'
    BY <1>0, <2>2, Zenon DEF SetManifest, StartRejected, session_vars
  <2>3. CASE GetState(c) \/ Stop(c) \/ SendRepeating(c)
    BY <1>0, <2>3, Zenon DEF GetState, Stop, SendRepeating, engine_vars, session_vars
  <2>4. ASSUME NEW ids, StopBatches(c, ids) PROVE CountInv'
    BY <1>0, <2>4, Zenon DEF StopBatches, session_vars
  <2>5. ASSUME NEW flag, NEW compiles, NEW reload, SetLua(c, flag, compiles, reload)
        PROVE  CountInv'
    BY <1>0, <2>5, Zenon DEF SetLua, session_vars
  <2> QED
    BY <1>1, <2>1, <2>2, <2>3, <2>4, <2>5, Zenon DEF Serve, Start
<1>2. CASE FinishStop
  BY <1>2, FS_EmptySet DEF FinishStop
<1>3. CASE TaskEnds \/ TaskDropped \/ BatchEnds \/ UNCHANGED vars
  BY <1>0, <1>3, Zenon DEF TaskEnds, TaskDropped, BatchEnds, vars, engine_vars, session_vars
<1>4. ASSUME NEW c \in Callers, Broadcast(c) PROVE CountInv'
  BY <1>0, <1>4, Zenon DEF Broadcast, engine_vars, session_vars
<1> QED
  BY <1>1, <1>2, <1>3, <1>4, Zenon DEF Next

(* connection_count tells the connections of the running session.          *)
THEOREM CountOfSession == Spec => []CountIsOfSession
<1>1. Init => SessionInv /\ CountInv
  BY FS_EmptySet DEF Init, SessionInv, TasksBelongToSession, CountInv
<1>2. SessionInv /\ CountInv => CountIsOfSession
  BY DEF SessionInv, CountInv, CountIsOfSession
<1> QED
  BY <1>1, <1>2, SessionStep, CountStep, PTL DEF Spec
-----------------------------------------------------------------------------
(* Type correctness, in parts. *)
FlagTypes ==
  /\ running \in BOOLEAN /\ enabled \in BOOLEAN /\ stale \in BOOLEAN

ManifestTypes == manifest \in Manifests

PlaceTypes ==
  /\ pc \in {"loop", "drain"}
  /\ session \in 0 .. MaxSessions
  /\ senders \subseteq Tasks /\ handlers \subseteq Tasks
  /\ live \subseteq Tasks /\ dying \subseteq Tasks
  /\ cancelled \subseteq 1 .. MaxSessions

CountTypes == count \in 0 .. MaxConns

BatchTypes ==
  /\ nextBatch \in 1 .. (MaxBatches + 1)
  /\ batches \subseteq Batches /\ repeating \subseteq Batches

ScriptTypes ==
  /\ script \in Scripts /\ made \in Scripts
  /\ stopped \subseteq 1 .. MaxScripts

ReplyTypes == reply \in [Callers -> Replies] /\ shown \in Snapshots

LEMMA TypeParts ==
  TypeOK <=> /\ FlagTypes /\ ManifestTypes /\ PlaceTypes /\ CountTypes
             /\ BatchTypes /\ ScriptTypes /\ ReplyTypes
  BY Zenon DEF TypeOK, FlagTypes, ManifestTypes, PlaceTypes, CountTypes, BatchTypes,
               ScriptTypes, ReplyTypes

LEMMA FlagStep == FlagTypes /\ [Next]_vars => FlagTypes'
<1> SUFFICES ASSUME FlagTypes, [Next]_vars PROVE FlagTypes'
  OBVIOUS
<1> USE DEF FlagTypes
<1>0. ASSUME UNCHANGED <<running, enabled, stale>> PROVE FlagTypes'
  BY <1>0, Zenon
<1>1. ASSUME NEW c \in Callers, Serve(c) PROVE FlagTypes'
  <2>1. ASSUME NEW m, StartAccepted(c, m) PROVE FlagTypes'
    BY <2>1, Zenon DEF StartAccepted
  <2>2. ASSUME NEW m, SetManifest(c, m) \/ StartRejected(c, m) PROVE FlagTypes'
    BY <1>0, <2>2, Zenon DEF SetManifest, StartRejected, session_vars, script_vars
  <2>3. CASE GetState(c) \/ SendRepeating(c)
    BY <1>0, <2>3, Zenon DEF GetState, SendRepeating, engine_vars, session_vars, script_vars
  <2>4. CASE Stop(c)
    BY <2>4, Zenon DEF Stop
  <2>5. ASSUME NEW ids, StopBatches(c, ids) PROVE FlagTypes'
    BY <1>0, <2>5, Zenon DEF StopBatches, session_vars, script_vars
  <2>6. ASSUME NEW flag \in BOOLEAN, NEW compiles, NEW reload, SetLua(c, flag, compiles, reload)
        PROVE  FlagTypes'
    BY <2>6, Zenon DEF SetLua, session_vars
  <2> QED
    BY <1>1, <2>1, <2>2, <2>3, <2>4, <2>5, <2>6, Zenon DEF Serve, Start
<1>2. CASE FinishStop \/ TaskEnds \/ TaskDropped \/ BatchEnds \/ UNCHANGED vars
  BY <1>0, <1>2, Zenon DEF FinishStop, TaskEnds, TaskDropped, BatchEnds, vars, engine_vars,
                           session_vars, script_vars
<1>3. ASSUME NEW c \in Callers, Broadcast(c) PROVE FlagTypes'
  BY <1>0, <1>3, Zenon DEF Broadcast, engine_vars, session_vars, script_vars
<1> QED
  BY <1>1, <1>2, <1>3, Zenon DEF Next

LEMMA ReplyStep == ReplyTypes /\ [Next]_vars => ReplyTypes'
<1> SUFFICES ASSUME ReplyTypes, [Next]_vars PROVE ReplyTypes'
  OBVIOUS
<1> USE DEF ReplyTypes
<1>0. ASSUME UNCHANGED <<reply, shown>> PROVE ReplyTypes'
  BY <1>0
<1>1. ASSUME NEW c \in Callers, NEW on, Answer(c, on) PROVE ReplyTypes'
  BY <1>1 DEF Answer, Snapshot, Replies, Snapshots
<1>2. ASSUME NEW c \in Callers, Serve(c) PROVE ReplyTypes'
  <2>1. ASSUME NEW m, StartAccepted(c, m) \/ SetManifest(c, m) PROVE ReplyTypes'
    BY <1>1, <2>1, Zenon DEF StartAccepted, SetManifest
  <2>2. ASSUME NEW m, StartRejected(c, m) PROVE ReplyTypes'
    BY <1>0, <2>2, Zenon DEF StartRejected, AnswerOnly
  <2>3. CASE GetState(c) \/ SendRepeating(c)
    BY <1>0, <2>3, Zenon DEF GetState, SendRepeating, AnswerOnly
  <2>4. CASE Stop(c)
    BY <2>4 DEF Stop, Replies
  <2>5. ASSUME NEW ids, StopBatches(c, ids) PROVE ReplyTypes'
    BY <1>0, <2>5, Zenon DEF StopBatches, AnswerOnly
  <2>6. ASSUME NEW flag, NEW compiles, NEW reload, SetLua(c, flag, compiles, reload)
        PROVE  ReplyTypes'
    BY <1>0, <1>1, <2>6, Zenon DEF SetLua, AnswerOnly
  <2> QED
    BY <1>2, <2>1, <2>2, <2>3, <2>4, <2>5, <2>6, Zenon DEF Serve, Start
<1>3. CASE FinishStop
  BY <1>3 DEF FinishStop, AnswerStop, Replies, Snapshots
<1>4. CASE TaskEnds \/ TaskDropped \/ BatchEnds \/ UNCHANGED vars
  BY <1>0, <1>4, Zenon DEF TaskEnds, TaskDropped, BatchEnds, vars
<1>5. ASSUME NEW c \in Callers, Broadcast(c) PROVE ReplyTypes'
  BY <1>5 DEF Broadcast, Replies
<1> QED
  BY <1>2, <1>3, <1>4, <1>5, Zenon DEF Next

LEMMA ManifestStep == ManifestTypes /\ [Next]_vars => ManifestTypes'
<1> SUFFICES ASSUME ManifestTypes, [Next]_vars PROVE ManifestTypes'
  OBVIOUS
<1> USE DEF ManifestTypes
<1>1. ASSUME NEW c \in Callers, Serve(c) PROVE ManifestTypes'
  <2>1. ASSUME NEW m \in Manifests, StartAccepted(c, m) \/ SetManifest(c, m) \/ StartRejected(c, m)
        PROVE  ManifestTypes'
    BY <2>1, Zenon DEF StartAccepted, SetManifest, StartRejected
  <2>2. CASE Start(c)
    BY <2>1, <2>2, Zenon DEF Start
  <2>3. CASE GetState(c) \/ SendRepeating(c) \/ Stop(c)
    BY <2>3, Zenon DEF GetState, SendRepeating, Stop, engine_vars
  <2>4. ASSUME NEW ids, StopBatches(c, ids) PROVE ManifestTypes'
    BY <2>4, Zenon DEF StopBatches
  <2>5. ASSUME NEW flag, NEW compiles \in BOOLEAN, NEW reload, SetLua(c, flag, compiles, reload)
        PROVE  ManifestTypes'
    <3>1. manifest' = [manifest EXCEPT !.compiles = compiles]
      BY <2>5, Zenon DEF SetLua
    <3> QED
      BY <3>1, Zenon DEF Manifests
  <2> QED
    BY <1>1, <2>1, <2>2, <2>3, <2>4, <2>5, Zenon DEF Serve
<1>2. CASE FinishStop \/ TaskEnds \/ TaskDropped \/ BatchEnds \/ UNCHANGED vars
  BY <1>2, Zenon DEF FinishStop, TaskEnds, TaskDropped, BatchEnds, vars, engine_vars
<1>3. ASSUME NEW c \in Callers, Broadcast(c) PROVE ManifestTypes'
  BY <1>3, Zenon DEF Broadcast, engine_vars
<1> QED
  BY <1>1, <1>2, <1>3, Zenon DEF Next

LEMMA SpawnedTasks ==
  ASSUME PlaceTypes, session < MaxSessions, NEW n \in 0 .. MaxConns
  PROVE  Spawned(session + 1, n) \subseteq Tasks /\ session + 1 \in 0 .. MaxSessions
<1>1. session + 1 \in 1 .. MaxSessions
  BY EngineAssumption DEF PlaceTypes
<1>2. 1 .. n \subseteq 1 .. MaxConns
  BY EngineAssumption
<1> QED
  BY <1>1, <1>2 DEF Spawned, Tasks

LEMMA PlaceStep == ManifestTypes /\ PlaceTypes /\ [Next]_vars => PlaceTypes'
<1> SUFFICES ASSUME ManifestTypes, PlaceTypes, [Next]_vars PROVE PlaceTypes'
  OBVIOUS
<1>0. ASSUME UNCHANGED <<pc, session, senders, handlers, live, dying, cancelled>> PROVE PlaceTypes'
  BY <1>0, Zenon DEF PlaceTypes
<1>1. ASSUME NEW c \in Callers, Serve(c) PROVE PlaceTypes'
  <2>1. ASSUME NEW m \in Manifests, StartAccepted(c, m) PROVE PlaceTypes'
    <3>1. m.conns \in 0 .. MaxConns
      BY DEF Manifests
    <3>2. session < MaxSessions
      BY <2>1, Zenon DEF StartAccepted
    <3>3. Spawned(session + 1, m.conns) \subseteq Tasks /\ session + 1 \in 0 .. MaxSessions
      BY <3>1, <3>2, SpawnedTasks
    <3>4. /\ session' = session + 1 /\ handlers' = Spawned(session + 1, m.conns)
          /\ senders' = handlers' /\ live' = live \cup handlers'
          /\ UNCHANGED <<pc, dying, cancelled>>
      BY <2>1, Zenon DEF StartAccepted
    <3> QED
      BY <3>3, <3>4 DEF PlaceTypes
  <2>2. ASSUME NEW m, SetManifest(c, m) \/ StartRejected(c, m) PROVE PlaceTypes'
    BY <1>0, <2>2, Zenon DEF SetManifest, StartRejected, session_vars
  <2>3. CASE GetState(c) \/ SendRepeating(c)
    BY <1>0, <2>3, Zenon DEF GetState, SendRepeating, engine_vars, session_vars
  <2>4. CASE Stop(c)
    <3>1. /\ cancelled' = cancelled \cup {t[1] : t \in senders} /\ pc' = "drain"
          /\ UNCHANGED <<session, senders, handlers, live, dying>>
      BY <2>4, Zenon DEF Stop
    <3>2. {t[1] : t \in senders} \subseteq 1 .. MaxSessions
      BY DEF PlaceTypes, Tasks
    <3> QED
      BY <3>1, <3>2 DEF PlaceTypes
  <2>5. ASSUME NEW ids, StopBatches(c, ids) PROVE PlaceTypes'
    BY <1>0, <2>5, Zenon DEF StopBatches, session_vars
  <2>6. ASSUME NEW flag, NEW compiles, NEW reload, SetLua(c, flag, compiles, reload)
        PROVE  PlaceTypes'
    BY <1>0, <2>6, Zenon DEF SetLua, session_vars
  <2>7. CASE Start(c)
    BY <2>1, <2>2, <2>7, Zenon DEF Start, ManifestTypes
  <2> QED
    BY <1>1, <2>2, <2>3, <2>4, <2>5, <2>6, <2>7, Zenon DEF Serve
<1>2. CASE FinishStop
  <2>1. /\ dying' = dying \cup (live \cap handlers) /\ live' = live \ handlers /\ pc' = "loop"
        /\ handlers' = {} /\ senders' = {} /\ UNCHANGED <<session, cancelled>>
    BY <1>2, Zenon DEF FinishStop
  <2> QED
    BY <2>1 DEF PlaceTypes
<1>3. CASE TaskEnds \/ TaskDropped
  <2>1. /\ live' \subseteq live /\ dying' \subseteq dying
        /\ UNCHANGED <<pc, session, senders, handlers, cancelled>>
    BY <1>3, Zenon DEF TaskEnds, TaskDropped
  <2> QED
    BY <2>1, Zenon DEF PlaceTypes
<1>4. CASE BatchEnds \/ UNCHANGED vars
  BY <1>0, <1>4, Zenon DEF BatchEnds, vars, engine_vars, session_vars
<1>5. ASSUME NEW c \in Callers, Broadcast(c) PROVE PlaceTypes'
  BY <1>0, <1>5, Zenon DEF Broadcast, engine_vars, session_vars
<1> QED
  BY <1>1, <1>2, <1>3, <1>4, <1>5, Zenon DEF Next

LEMMA CountTypesStep == ManifestTypes /\ PlaceTypes /\ CountTypes /\ [Next]_vars => CountTypes'
<1> SUFFICES ASSUME ManifestTypes, PlaceTypes, CountTypes, [Next]_vars PROVE CountTypes'
  OBVIOUS
<1>0. ASSUME UNCHANGED count PROVE CountTypes'
  BY <1>0, Zenon DEF CountTypes
<1>1. ASSUME NEW c \in Callers, Serve(c) PROVE CountTypes'
  <2>1. ASSUME NEW m \in Manifests, StartAccepted(c, m) PROVE CountTypes'
    <3>1. m.conns \in 0 .. MaxConns /\ m.conns \in Nat
      BY EngineAssumption DEF Manifests
    <3>2. count' = Cardinality(Spawned(session + 1, m.conns))
      BY <2>1, Zenon DEF StartAccepted
    <3>3. count' = m.conns
      BY <3>1, <3>2, SpawnedProps
    <3> QED
      BY <3>1, <3>3, Zenon DEF CountTypes
  <2>2. ASSUME NEW m, SetManifest(c, m) \/ StartRejected(c, m) PROVE CountTypes'
    BY <1>0, <2>2, Zenon DEF SetManifest, StartRejected, session_vars
  <2>3. CASE GetState(c) \/ SendRepeating(c) \/ Stop(c)
    BY <1>0, <2>3, Zenon DEF GetState, SendRepeating, Stop, engine_vars, session_vars
  <2>4. ASSUME NEW ids, StopBatches(c, ids) PROVE CountTypes'
    BY <1>0, <2>4, Zenon DEF StopBatches, session_vars
  <2>5. ASSUME NEW flag, NEW compiles, NEW reload, SetLua(c, flag, compiles, reload)
        PROVE  CountTypes'
    BY <1>0, <2>5, Zenon DEF SetLua, session_vars
  <2>6. CASE Start(c)
    BY <2>1, <2>2, <2>6, Zenon DEF Start, ManifestTypes
  <2> QED
    BY <1>1, <2>2, <2>3, <2>4, <2>5, <2>6, Zenon DEF Serve
<1>2. CASE FinishStop
  <2>1. count' = 0
    BY <1>2, Zenon DEF FinishStop
  <2> QED
    BY <2>1, EngineAssumption DEF CountTypes
<1>3. CASE TaskEnds \/ TaskDropped \/ BatchEnds \/ UNCHANGED vars
  BY <1>0, <1>3, Zenon DEF TaskEnds, TaskDropped, BatchEnds, vars, engine_vars, session_vars
<1>4. ASSUME NEW c \in Callers, Broadcast(c) PROVE CountTypes'
  BY <1>0, <1>4, Zenon DEF Broadcast, engine_vars, session_vars
<1> QED
  BY <1>1, <1>2, <1>3, <1>4, Zenon DEF Next

LEMMA BatchTypesStep == BatchTypes /\ [Next]_vars => BatchTypes'
<1> SUFFICES ASSUME BatchTypes, [Next]_vars PROVE BatchTypes'
  OBVIOUS
<1>0. ASSUME UNCHANGED batch_vars PROVE BatchTypes'
  BY <1>0, Zenon DEF BatchTypes, batch_vars
<1>1. ASSUME ClearBatches PROVE BatchTypes'
  BY <1>1 DEF BatchTypes, ClearBatches
<1>2. ASSUME NEW c \in Callers, Serve(c) PROVE BatchTypes'
  <2>1. ASSUME NEW m, SetManifest(c, m) \/ StartRejected(c, m) \/ StartAccepted(c, m)
        PROVE  BatchTypes'
    BY <1>0, <2>1, Zenon DEF SetManifest, StartRejected, StartAccepted
  <2>2. CASE GetState(c)
    BY <1>0, <2>2, Zenon DEF GetState, engine_vars
  <2>3. CASE Stop(c)
    BY <1>1, <2>3, Zenon DEF Stop
  <2>4. CASE SendRepeating(c)
    <3>1. ASSUME nextBatch \in Batches, nextBatch' = nextBatch + 1,
                 batches' = batches \cup {nextBatch}, repeating' = repeating \cup {nextBatch}
          PROVE  BatchTypes'
      BY <3>1, EngineAssumption DEF BatchTypes, Batches
    <3> QED
      BY <1>0, <2>4, <3>1, Zenon DEF SendRepeating
  <2>5. ASSUME NEW ids, StopBatches(c, ids) PROVE BatchTypes'
    <3>1. ASSUME batches' = batches \ ids, repeating' = repeating \ (batches \cap ids),
                 UNCHANGED nextBatch
          PROVE  BatchTypes'
      BY <3>1 DEF BatchTypes
    <3> QED
      BY <1>1, <2>5, <3>1, Zenon DEF StopBatches
  <2>6. ASSUME NEW flag, NEW compiles, NEW reload, SetLua(c, flag, compiles, reload)
        PROVE  BatchTypes'
    BY <1>0, <2>6, Zenon DEF SetLua
  <2> QED
    BY <1>2, <2>1, <2>2, <2>3, <2>4, <2>5, <2>6, Zenon DEF Serve, Start
<1>3. CASE BatchEnds
  <2>1. repeating' \subseteq repeating /\ UNCHANGED <<nextBatch, batches>>
    BY <1>3, Zenon DEF BatchEnds
  <2> QED
    BY <2>1, Zenon DEF BatchTypes
<1>4. CASE FinishStop \/ TaskEnds \/ TaskDropped \/ UNCHANGED vars
  BY <1>0, <1>4, Zenon DEF FinishStop, TaskEnds, TaskDropped, vars, engine_vars
<1>5. ASSUME NEW c \in Callers, Broadcast(c) PROVE BatchTypes'
  BY <1>0, <1>5, Zenon DEF Broadcast, engine_vars
<1> QED
  BY <1>2, <1>3, <1>4, <1>5, Zenon DEF Next

LEMMA ScriptTypesStep == ScriptTypes /\ [Next]_vars => ScriptTypes'
<1> SUFFICES ASSUME ScriptTypes, [Next]_vars PROVE ScriptTypes'
  OBVIOUS
<1>0. ASSUME UNCHANGED <<script, made, stopped>> PROVE ScriptTypes'
  BY <1>0, Zenon DEF ScriptTypes
<1>1. ASSUME NEW flag, NewScript(flag) PROVE script' \in Scripts /\ made' \in Scripts
  <2>1. CASE made < MaxScripts /\ made' = made + 1 /\ script' = made + 1
    BY <2>1, EngineAssumption DEF ScriptTypes, Scripts
  <2>2. CASE script' = 0 /\ made' = made
    BY <2>2, EngineAssumption DEF ScriptTypes, Scripts
  <2> QED
    BY <1>1, <2>1, <2>2, Zenon DEF NewScript
<1>2. ASSUME OnStop PROVE stopped' \subseteq 1 .. MaxScripts
  BY <1>2, EngineAssumption DEF OnStop, ScriptTypes, Scripts
<1>3. ASSUME NEW c \in Callers, Serve(c) PROVE ScriptTypes'
  <2>1. ASSUME NEW m, SetManifest(c, m) \/ StartRejected(c, m) PROVE ScriptTypes'
    BY <1>0, <2>1, Zenon DEF SetManifest, StartRejected, script_vars
  <2>2. ASSUME NEW m, StartAccepted(c, m) PROVE ScriptTypes'
    BY <1>1, <2>2, Zenon DEF StartAccepted, ScriptTypes
  <2>3. CASE GetState(c) \/ SendRepeating(c)
    BY <1>0, <2>3, Zenon DEF GetState, SendRepeating, engine_vars, script_vars
  <2>4. CASE Stop(c)
    <3>1. 0 \in Scripts
      BY EngineAssumption DEF Scripts
    <3> QED
      BY <1>2, <2>4, <3>1, Zenon DEF Stop, ScriptTypes
  <2>5. ASSUME NEW ids, StopBatches(c, ids) PROVE ScriptTypes'
    BY <1>0, <2>5, Zenon DEF StopBatches, script_vars
  <2>6. ASSUME NEW flag, NEW compiles, NEW reload, SetLua(c, flag, compiles, reload)
        PROVE  ScriptTypes'
    <3>1. CASE OnStop /\ NewScript(flag)
      BY <1>1, <1>2, <3>1, Zenon DEF ScriptTypes
    <3>2. CASE OnStop /\ UNCHANGED <<script, made>>
      BY <1>2, <3>2, Zenon DEF ScriptTypes
    <3>3. CASE UNCHANGED <<script, made, stopped>>
      BY <1>0, <3>3, Zenon
    <3> QED
      BY <2>6, <3>1, <3>2, <3>3, Zenon DEF SetLua
  <2> QED
    BY <1>3, <2>1, <2>2, <2>3, <2>4, <2>5, <2>6, Zenon DEF Serve, Start
<1>4. CASE FinishStop \/ TaskEnds \/ TaskDropped \/ BatchEnds \/ UNCHANGED vars
  BY <1>0, <1>4, Zenon DEF FinishStop, TaskEnds, TaskDropped, BatchEnds, vars, engine_vars,
                           script_vars
<1>5. ASSUME NEW c \in Callers, Broadcast(c) PROVE ScriptTypes'
  BY <1>0, <1>5, Zenon DEF Broadcast, engine_vars, script_vars
<1> QED
  BY <1>3, <1>4, <1>5, Zenon DEF Next

(* The variables of the engine stay within their types, in particular no   *)
(* task, batch or script is ever counted that the handlers did not create. *)
THEOREM EngineTypeOK == Spec => []TypeOK
<1>1. Init => TypeOK
  <2> SUFFICES ASSUME Init PROVE TypeOK
    OBVIOUS
  <2>1. FlagTypes /\ ManifestTypes
    BY Zenon DEF Init, FlagTypes, ManifestTypes
  <2>2. PlaceTypes /\ CountTypes
    BY EngineAssumption DEF Init, PlaceTypes, CountTypes
  <2>3. BatchTypes /\ ScriptTypes
    BY EngineAssumption DEF Init, BatchTypes, ScriptTypes, Scripts
  <2>4. ReplyTypes
    BY DEF Init, ReplyTypes, Snapshots, Replies
  <2> QED
    BY <2>1, <2>2, <2>3, <2>4, TypeParts, Zenon
<1>2. TypeOK /\ [Next]_vars => TypeOK'
  BY TypeParts, FlagStep, ManifestStep, PlaceStep, CountTypesStep, BatchTypesStep,
     ScriptTypesStep, ReplyStep, PTL
<1> QED
  BY <1>1, <1>2, PTL DEF Spec
=============================================================================
