----------------------------- MODULE TimedTasks -----------------------------
(***************************************************************************)
(* The two users of a HighResDelay, each with an instance of its own: the  *)
(* delay task, which abandons its delay whenever a message arrives         *)
(* (delay_queue_task.rs), and the task of a repeating batch, which never   *)
(* does (repeating_message_task.rs).                                       *)
(*                                                                         *)
(* A message is scheduled for a time of the wall clock, which may be set   *)
(* forward and back; the delay task waits on the monotonic clock, and the  *)
(* engine task compares with the wall clock again.  The limits of lane and *)
(* channel are in module Routing.                                          *)
(***************************************************************************)
EXTENDS HighResDelay, Sequences

CONSTANTS
  MaxScheduled, \* bound on the messages scheduled
  MaxSetBack,   \* bound on how far the wall clock is set back
  Batches       \* the lists of delays that batches repeat

ASSUME TimedTasksAssumption ==
  /\ MaxScheduled \in Nat /\ MaxSetBack \in Nat
  /\ Batches \subseteq Seq(0 .. MaxNow)

VARIABLES
  client,      \* which of the two tasks this is
  skew,        \* what the wall clock is ahead of the monotonic clock
  where,       \* per message: with whom it is
  wanted,      \* per message: the wall time it is to be sent at
  due,         \* per message: its deadline on the monotonic clock
  batch,       \* the delays of the batch, one for each of its messages
  position,    \* which of them is next
  progress,    \* how far the batch's task has come with it
  cancelled,   \* the batch's token is cancelled
  aborted,     \* the batch's task is told to abort
  late         \* messages the batch sent after its token was cancelled

queueVars == <<skew, where, wanted, due>>
batchVars == <<batch, position, progress, cancelled, aborted, late>>
timedVars == <<timerVars, client, queueVars, batchVars>>

Scheduled == 1 .. MaxScheduled
Wall      == clock + skew

TimedInit ==
  /\ TimerInit
  /\ client \in {"queue", "batch"}
  /\ skew = MaxSetBack
  /\ where  = [m \in Scheduled |-> "new"]
  /\ wanted = [m \in Scheduled |-> 0]
  /\ due    = [m \in Scheduled |-> 0]
  /\ batch \in Batches /\ (client = "queue" => batch = <<>>)
  /\ position = 1 /\ progress = "head"
  /\ cancelled = FALSE /\ aborted = FALSE /\ late = 0

-----------------------------------------------------------------------------
(* The delay task. *)
In(place) == {m \in Scheduled : where[m] = place}
Waits     == stage \in {"wait", "fired", "sleep"}

(* The engine task finds a message early for the first time, and gives it  *)
(* to the delay task.                                                      *)
Schedule(m, t) ==
  /\ client = "queue" /\ t > Wall
  /\ where[m] = "new" /\ \A n \in 1 .. (m - 1) : where[n] # "new"
  /\ where'  = [where EXCEPT ![m] = "channel"]
  /\ wanted' = [wanted EXCEPT ![m] = t]
  /\ UNCHANGED <<timerVars, client, skew, due, batchVars>>

(* ScheduledMessage::from_message: what is left on the wall clock, counted *)
(* on the monotonic one from here.                                         *)
Deadline(t) == IF t > Wall THEN clock + (t - Wall) ELSE clock

(* receiver.recv wins the select: a delay that runs is dropped, disarmed.  *)
TakeIn(m) ==
  /\ client = "queue" /\ where[m] = "channel"
  /\ \/ In("heap") = {} /\ stage = "idle" /\ UNCHANGED timerVars
     \/ In("heap") # {} /\ Waits /\ Abandon
  /\ where' = [where EXCEPT ![m] = "heap"]
  /\ due'   = [due EXCEPT ![m] = Deadline(wanted[m])]
  /\ UNCHANGED <<client, skew, wanted, batchVars>>

(* The top of the loop: the heap's first deadline has passed, or not.  A   *)
(* delay that ended, early or not, comes here again.                       *)
First(m) == m \in In("heap") /\ \A n \in In("heap") : due[m] <= due[n]

WaitForFirst ==
  /\ client = "queue" /\ stage = "idle"
  /\ \E m \in Scheduled : First(m) /\ due[m] > clock /\ Delay(due[m] - clock)
  /\ UNCHANGED <<client, queueVars, batchVars>>

PopFirst(m) ==
  /\ client = "queue" /\ stage = "idle"
  /\ First(m) /\ due[m] <= clock
  /\ where' = [where EXCEPT ![m] = "lane"] /\ due' = [due EXCEPT ![m] = 0]
  /\ UNCHANGED <<timerVars, client, skew, wanted, batchVars>>

RouteOnce(m) ==             \* mutant: a message found early again is dropped
  /\ client = "queue" /\ where[m] = "lane"
  /\ where' = [where EXCEPT ![m] = IF wanted[m] > Wall THEN "dropped" ELSE "out"]
  /\ UNCHANGED <<timerVars, client, skew, wanted, due, batchVars>>

(* The engine task again, which goes by the wall clock. *)
RouteAgain(m) ==
  /\ client = "queue" /\ where[m] = "lane"
  /\ where' = [where EXCEPT ![m] = IF wanted[m] > Wall THEN "channel" ELSE "out"]
  /\ UNCHANGED <<timerVars, client, skew, wanted, due, batchVars>>

(* Somebody sets the wall clock back, or forward again. *)
SetClock ==
  /\ client = "queue"
  /\ skew' \in 0 .. MaxSetBack /\ skew' # skew
  /\ UNCHANGED <<timerVars, client, where, wanted, due, batchVars>>
-----------------------------------------------------------------------------
(* The task of a repeating batch. *)
HeadUnchecked ==            \* mutant: the token is looked at only before a message
  /\ client = "batch" /\ progress = "head"
  /\ progress' = IF batch = <<>> THEN "head" ELSE "next"
  /\ position' = 1
  /\ UNCHANGED <<timerVars, client, queueVars, batch, cancelled, aborted, late>>

HeadOfLoop ==
  /\ client = "batch" /\ progress = "head"
  /\ progress' = IF cancelled THEN "ended" ELSE IF batch = <<>> THEN "head" ELSE "next"
  /\ position' = 1
  /\ UNCHANGED <<timerVars, client, queueVars, batch, cancelled, aborted, late>>

(* The delay before the next message; one of zero is over at once. *)
DelayNext ==
  /\ client = "batch" /\ progress = "next"
  /\ \/ batch[position] = 0 /\ progress' = "check" /\ UNCHANGED timerVars
     \/ batch[position] > 0 /\ progress' = "delay" /\ Delay(batch[position])
  /\ UNCHANGED <<client, queueVars, batch, position, cancelled, aborted, late>>

DelayOver ==
  /\ client = "batch" /\ progress = "delay" /\ stage = "idle"
  /\ progress' = "check"
  /\ UNCHANGED <<timerVars, client, queueVars, batch, position, cancelled, aborted, late>>

CheckNever ==               \* mutant: the token is looked at only between rounds
  /\ client = "batch" /\ progress = "check"
  /\ progress' = "send"
  /\ UNCHANGED <<timerVars, client, queueVars, batch, position, cancelled, aborted, late>>

CheckToken ==
  /\ client = "batch" /\ progress = "check"
  /\ progress' = IF cancelled THEN "head" ELSE "send"
  /\ UNCHANGED <<timerVars, client, queueVars, batch, position, cancelled, aborted, late>>

(* send_message, once the lane has room. *)
SendNext ==
  /\ client = "batch" /\ progress = "send"
  /\ position' = position + 1
  /\ progress' = IF position = Len(batch) THEN "head" ELSE "next"
  /\ late' = IF cancelled THEN late + 1 ELSE late
  /\ UNCHANGED <<timerVars, client, queueVars, batch, cancelled, aborted>>

(* Stop, stop of all batches (both cancel and abort), stop of this one     *)
(* (aborts), end of the program (cancels).                                 *)
StopBatch ==
  /\ client = "batch"
  /\ cancelled' \in {cancelled, TRUE} /\ aborted' \in {aborted, TRUE}
  /\ <<cancelled, aborted>> # <<cancelled, aborted>>'
  /\ UNCHANGED <<timerVars, client, queueVars, batch, position, progress, late>>

(* abort() ends the task where it awaits: in its delay, or for room.       *)
AbortedAtAwait ==
  /\ client = "batch" /\ aborted
  /\ (progress = "delay" /\ Waits) \/ progress = "send"
  /\ progress' = "ended"
  /\ UNCHANGED <<timerVars, client, queueVars, batch, position, cancelled, aborted, late>>
-----------------------------------------------------------------------------
TimedTimer(A) == A /\ UNCHANGED <<client, queueVars, batchVars>>

TakeAny   == \E m \in Scheduled : TakeIn(m)
RouteAny  == \E m \in Scheduled : RouteAgain(m)
DelayTask == WaitForFirst \/ \E m \in Scheduled : PopFirst(m)
BatchTask == HeadOfLoop \/ DelayNext \/ DelayOver \/ CheckToken \/ SendNext

TimedNext ==
  \/ \E m \in Scheduled, t \in 1 .. MaxNow : Schedule(m, t)
  \/ TakeAny \/ RouteAny \/ DelayTask \/ BatchTask \/ SetClock \/ StopBatch \/ AbortedAtAwait
  \/ TimedTimer(Poll \/ WaitFails \/ Expire \/ Reactor \/ Callback \/ Pass)

TimedSpec == TimedInit /\ [][TimedNext]_timedVars

(* The tasks are polled while they can move; timer, reactor and clock go   *)
(* on by themselves.  An aborted task is dropped when it awaits again and  *)
(* again (its awaits use up the scheduler's budget).                       *)
FairTimedSpec ==
  /\ TimedSpec
  /\ WF_timedVars(TimedTimer(Poll)) /\ WF_timedVars(TimedTimer(Expire))
  /\ WF_timedVars(TimedTimer(Reactor)) /\ WF_timedVars(TimedTimer(Callback))
  /\ WF_timedVars(TimedTimer(Pass))
  /\ SF_timedVars(TakeAny) /\ WF_timedVars(RouteAny)
  /\ WF_timedVars(DelayTask) /\ WF_timedVars(BatchTask)
  /\ SF_timedVars(AbortedAtAwait)
-----------------------------------------------------------------------------
(* A scheduled message is sent, although delays of the delay task end      *)
(* early or are abandoned for every message that comes in, and although    *)
(* the wall clock is set: no wake-up of the timer is lost, and a message   *)
(* found early again waits again (delay_queue_task.rs:20-27, 86-104).      *)
ScheduledIsSent ==
  \A m \in Scheduled : where[m] = "channel" ~> where[m] = "out"

(* A batch whose token is cancelled ends; one whose task is only aborted   *)
(* (stop by id) ends too unless its list is empty, for then the loop never *)
(* awaits (repeating_message_task.rs:21-35).  (Delays past the clock's bound *)
(* are left out.)                                                          *)
BatchEnds ==
  client = "batch" /\ (cancelled \/ (aborted /\ batch # <<>>))
    ~> progress = "ended" \/ until > MaxNow

(* At most one message leaves a batch after its token is cancelled: the    *)
(* one that had passed the check already.                                  *)
OneAfterCancel == late <= 1
=============================================================================
