----------------------------- MODULE Dataplane -----------------------------
(***************************************************************************)
(* The engine task and one connection task joined by their bounded         *)
(* channels (engine_task.rs with connection_task.rs).                      *)
(*                                                                         *)
(* Every action is an action of Connection, restricted by the one thing    *)
(* that its open environment leaves out: the engine is a single task, and  *)
(* while it awaits a channel or a reply it serves neither its timer nor    *)
(* its lanes.                                                              *)
(* Other callers and other connections appear as traffic that fills the    *)
(* message lane.                                                           *)
(***************************************************************************)
EXTENDS Connection

CONSTANTS
  MaxBatch,      \* messages per SendMessages command for this connection
  AutoResponse,  \* TRUE if the codec attaches auto-responses to messages
  HookCalls      \* what the script's hooks call: "command", "after"

ASSUME DataplaneAssumption ==
  /\ MaxBatch \in Nat \ {0}
  /\ AutoResponse \in BOOLEAN
  /\ HookCalls \subseteq {"command", "after"}

VARIABLES
  hand,       \* messages of the current SendMessages still to be forwarded
  replying,   \* the engine is queueing an auto-response into its own lane
  hook,       \* the call that the running Lua hook is about to make, or "none"
  stop,       \* the Stop command: "none", "pending" in the lane, "hooked"
              \* while its on_stop runs, "served"
  tick        \* the 100 ms timer when the engine is back at its select: not
              \* yet due ("no"), "due", or due since on_timer took so long
              \* ("overrun")

engineVars == <<hand, replying, hook, stop, tick>>
dataVars   == <<vars, engineVars>>

DataInit ==
  /\ Init
  /\ hand = 0
  /\ replying = FALSE
  /\ hook = "none"
  /\ stop = "none"
  /\ tick = "due"

(* Stop awaits the connection task before the engine loops again. *)
Draining == stop = "served" /\ pc \notin Ended

(* A hook has returned when its call has. *)
Hooked == hook = "none" /\ ~awaiting

(* The engine is at its select; on_stop is not one of its arms' ends. *)
EngineFree == hand = 0 /\ ~replying /\ Hooked /\ ~Draining /\ stop # "hooked"

(* A script makes at most one call in a hook; after Stop it is empty. *)
RunHook ==
  hook' \in IF stop = "served" THEN {"none"} ELSE {"none"} \cup HookCalls

(* The timer is the first arm of the biased select: the lanes are polled   *)
(* only while it is not due.  It may be due again once an arm has run.     *)
PollLanes == EngineFree /\ tick = "no" /\ tick' \in {"no", "due"}
-----------------------------------------------------------------------------
(* The timer arm, on_timer.  With MissedTickBehavior::Delay the next tick  *)
(* is due 100 ms after this one was taken, and so at once when the hook    *)
(* has taken that long. *)
OnTimer ==
  /\ EngineFree /\ tick # "no"
  /\ RunHook
  /\ tick' \in IF stop = "served" THEN {"no"} ELSE {"no", "overrun"}
  /\ UNCHANGED <<vars, hand, replying, stop>>

(* Time passes while the engine has nothing to do. *)
TimerDue ==
  /\ EngineFree /\ tick = "no" /\ tick' = "due"
  /\ lane = 0 /\ stop # "pending"
  /\ UNCHANGED <<vars, hand, replying, hook, stop>>

(* A caller queues Stop; from here on it is at the head of the control lane. *)
RequestStop ==
  /\ stop = "none" /\ stop' = "pending"
  /\ UNCHANGED <<vars, hand, replying, hook, tick>>

(* Stop: on_stop, then cancel the connection and wait for it.  (Repeating  *)
(* batches and the engine state are in module Engine.)                     *)
BeginStop ==
  /\ PollLanes /\ stop = "pending" /\ stop' = "hooked"
  /\ RunHook
  /\ UNCHANGED <<vars, hand, replying>>

ServeStop ==
  /\ Hooked /\ stop = "hooked" /\ stop' = "served"
  /\ Cancel
  /\ UNCHANGED <<hand, replying, hook, tick>>

ImpatientGrace ==           \* mutant: the grace period covers only the device
  /\ Draining /\ pc \in IOWait
  /\ Abort
  /\ UNCHANGED engineVars

(* The grace period is long against every step of a task that can move: it *)
(* expires only on a task stuck in a full lane or in a call of the device. *)
GraceExpires ==
  /\ Draining
  /\ pc \in IOWait \/ StuckOnLane
  /\ Abort
  /\ UNCHANGED engineVars

ServeCommand ==
  /\ PollLanes /\ stop = "none"
  /\ Issue
  /\ UNCHANGED <<hand, replying, hook, stop>>

TakeEntryFirst ==           \* mutant: the select is not biased to control
  /\ PollLanes
  /\ LaneTake
  /\ RunHook
  /\ \/ UNCHANGED <<hand, replying>>
     \/ AutoResponse /\ replying' = TRUE /\ UNCHANGED hand
     \/ /\ stop # "served"
        /\ \E k \in 1 .. MaxBatch : next + k <= MaxMsgs + 1 /\ hand' = k
        /\ UNCHANGED replying
  /\ UNCHANGED stop

(* The message lane is polled after the control lane is found empty.  An   *)
(* entry is a ReceiveMessage or SendConfirm that is only hooked and        *)
(* broadcast, a ReceiveMessage whose codec attached an auto-response, or a *)
(* SendMessages for this connection, dropped unless the engine is running. *)
TakeEntry ==
  /\ PollLanes /\ stop \in {"none", "served"}
  /\ LaneTake
  /\ RunHook
  /\ \/ UNCHANGED <<hand, replying>>
     \/ AutoResponse /\ replying' = TRUE /\ UNCHANGED hand
     \/ /\ stop = "none"
        /\ \E k \in 1 .. MaxBatch : next + k <= MaxMsgs + 1 /\ hand' = k
        /\ UNCHANGED replying
  /\ UNCHANGED stop

(* send_command from a hook: the engine awaits the connection's response,  *)
(* unless its task has ended and the send or the reply fails.              *)
HookCommand ==
  /\ hook = "command" /\ hook' = "none"
  /\ Issue \/ (pc \in Ended /\ UNCHANGED vars)
  /\ UNCHANGED <<hand, replying, stop, tick>>

(* send_after from a hook: engine.send_message(..).await. *)
HookSendAfter ==
  /\ hook = "after" /\ hook' = "none"
  /\ LaneFill
  /\ UNCHANGED <<hand, replying, stop, tick>>

(* on_send of the next message runs before it is forwarded. *)
NextOnSend == IF hand = 1 THEN UNCHANGED hook ELSE RunHook

(* sender.send(message).await for each message of the command. *)
Forward ==
  /\ hand > 0 /\ Hooked /\ hand' = hand - 1
  /\ Route
  /\ NextOnSend
  /\ UNCHANGED <<replying, stop, tick>>

ForwardToEnded ==
  /\ hand > 0 /\ Hooked /\ hand' = hand - 1
  /\ pc \in Ended
  /\ NextOnSend
  /\ UNCHANGED <<vars, replying, stop, tick>>

(* engine.send_message(auto-response).await, from the engine task itself. *)
QueueReply ==
  /\ replying /\ Hooked /\ replying' = FALSE
  /\ LaneFill
  /\ UNCHANGED <<hand, hook, stop, tick>>

EngineStep ==
  \/ OnTimer \/ BeginStop \/ ServeStop \/ GraceExpires
  \/ TakeEntry \/ HookCommand \/ HookSendAfter
  \/ Forward \/ ForwardToEnded \/ QueueReply

TaskStep == Task /\ UNCHANGED engineVars

DeviceStep == Device /\ UNCHANGED engineVars

OtherTraffic == LaneFill /\ UNCHANGED engineVars

DataNext ==
  \/ EngineStep \/ ServeCommand \/ RequestStop \/ TimerDue
  \/ TaskStep \/ DeviceStep \/ OtherTraffic

DataSpec == DataInit /\ [][DataNext]_dataVars

(* Both tasks are polled while they can move; select! arms are picked at   *)
(* random.  Callers, other connections and the device owe nothing.         *)
FairDataSpec ==
  /\ DataSpec
  /\ WF_dataVars(EngineStep) /\ WF_dataVars(TaskStep)
  /\ SF_dataVars(Cancelled /\ UNCHANGED engineVars)
  /\ SF_dataVars(AnswerCommand /\ UNCHANGED engineVars)
-----------------------------------------------------------------------------
(* The waits that can keep the engine task from its control lane: on a     *)
(* full TX channel, on its own full lane, and on the response of a         *)
(* connection that is down, in a call of the device, or stuck.             *)
TxWait      == hand > 0 /\ Len(txq) = TxCap
SelfWait    == (replying \/ hook = "after") /\ lane = LaneCap
CommandWait == awaiting /\ (~Established \/ pc \in IOWait \/ StuckOnLane)

(* An on_timer that takes its period is due again at the next select, and  *)
(* is polled before both lanes.                                            *)
TimerAlways == []<>(tick = "overrun")

(* A queued Stop is served unless the engine stays forever in one of the   *)
(* three waits on the data plane, or on_timer takes its period again and   *)
(* again.  Nothing else keeps it waiting: no backlog of the message lane,  *)
(* no mix of these waits that end, of hooks and of reconnections.          *)
StopServedUnlessWaiting ==
  \/ (stop = "pending") ~> (stop = "served")
  \/ <>[]TxWait \/ <>[]SelfWait \/ <>[]CommandWait \/ TimerAlways

(* Once Stop is being served it completes: the connection task ends, and   *)
(* if it cannot, because the lane is full and the engine is not draining   *)
(* it, or because a call of the device does not return, the grace period   *)
(* frees it.                                                               *)
StopCompletes == (stop = "served") ~> (pc \in Ended)

(* "A heavy backlog here cannot starve control commands" (command.rs:74):  *)
(* a queued Stop is eventually served, unless a command queued before it   *)
(* has yet to return, or on_timer keeps the engine.                        *)
StopServed ==
  TimerAlways \/ ((stop = "pending" /\ ~awaiting) ~> (stop = "served"))

(* "A restricted, deadlock-safe handle to the engine for use inside the    *)
(* engine task" (engine.rs:355): the engine never waits for itself.        *)
NoSelfDeadlock == ~SelfWait

(* "Connections see the cancel and call transport.close()", the cap on the *)
(* wait being there for "a wedged transport" (engine_task.rs:202-205): an  *)
(* established session that is not in a call of its transport is closed    *)
(* before its task ends.                                                   *)
EstablishedIsClosed ==
  [][Established /\ pc \notin IOWait /\ pc' \in Ended => closed']_dataVars
=============================================================================
