---------------------------- MODULE MCDataplane ----------------------------
(***************************************************************************)
(* Model-checking instance of what runs beside the engine task: a          *)
(* connection task, and the tasks that wait for a timer.  The two          *)
(* specifications share no variable: Init chooses which of them runs, and  *)
(* the other keeps its initial state.                                      *)
(*                                                                         *)
(* Dataplane: with room for one message in the TX channel and one entry in *)
(* the lane, every wait between engine and connection occurs.  TimedTasks: *)
(* two scheduled messages, delays on both sides of the threshold, a wall   *)
(* clock that may be set back, and batches that are empty, without delay,  *)
(* and longer than the threshold.                                          *)
(***************************************************************************)
EXTENDS Dataplane, TimedTasks

MCBatches == {<<>>, <<0>>, <<1, 0>>, <<2>>}

VARIABLE part

MCVars == <<part, dataVars, timedVars>>

D(A) == part = "dataplane" /\ A /\ UNCHANGED <<part, timedVars>>
T(A) == part = "timers" /\ A /\ UNCHANGED <<part, dataVars>>

MCInit ==
  /\ part \in {"dataplane", "timers"} /\ DataInit /\ TimedInit
  /\ part = "dataplane" => platform = "other" /\ client = "queue"

MCNext ==
  \/ part = "dataplane" /\ DataNext /\ UNCHANGED <<part, timedVars>>
  \/ part = "timers" /\ TimedNext /\ UNCHANGED <<part, dataVars>>

(* FairDataSpec and FairTimedSpec, for the one that runs. *)
MCSpec ==
  /\ MCInit /\ [][MCNext]_MCVars
  /\ WF_MCVars(D(EngineStep)) /\ WF_MCVars(D(TaskStep))
  /\ SF_MCVars(D(Cancelled /\ UNCHANGED engineVars))
  /\ SF_MCVars(D(AnswerCommand /\ UNCHANGED engineVars))
  /\ WF_MCVars(T(TimedTimer(Poll))) /\ WF_MCVars(T(TimedTimer(Expire)))
  /\ WF_MCVars(T(TimedTimer(Reactor))) /\ WF_MCVars(T(TimedTimer(Callback)))
  /\ WF_MCVars(T(TimedTimer(Pass)))
  /\ SF_MCVars(T(TakeAny)) /\ WF_MCVars(T(RouteAny))
  /\ WF_MCVars(T(DelayTask)) /\ WF_MCVars(T(BatchTask)) /\ SF_MCVars(T(AbortedAtAwait))
=============================================================================
