------------------------------ MODULE Routing ------------------------------
(***************************************************************************)
(* How SendMessages commands reach a connection: the engine's bounded      *)
(* message lane, the engine task, and the delay task with its bounded      *)
(* channel and its heap (engine_task.rs, delay_queue_task.rs,              *)
(* repeating_message_task.rs), under the control plane of module Control.  *)
(*                                                                         *)
(* A command carries one message for one connection.  Messages are their   *)
(* numbers in the order in which they were queued.  A scheduled message    *)
(* passes through the lane twice: the engine hands it to the delay task,   *)
(* which queues it again when it is due.                                   *)
(*                                                                         *)
(* The connection task appears as the environment of its TX channel: it    *)
(* takes messages when it likes, or ends (module Connection).  Received    *)
(* messages and confirmations, of any connection, appear as the entries    *)
(* None of the lane; hooks, auto-responses and callers' Commands as the    *)
(* calls that the engine task awaits.  A hook changes neither a message's  *)
(* time nor its connection.                                                *)
(***************************************************************************)
EXTENDS Control, Naturals, Sequences, FiniteSets, SequencesExt

CONSTANTS
  MaxMsgs,   \* bound on the messages queued
  MaxTime,   \* bound on the clock
  Deadlines, \* the times for which messages are scheduled
  Soon,      \* what is due this soon is sent at once (500 us)
  LaneCap,   \* MESSAGE_CHANNEL_CAPACITY         (10 000)
  DelayCap,  \* capacity of the delay channel    (100)
  TxCap      \* capacity of the TX channel       (100)

ASSUME RoutingAssumption ==
  /\ MaxMsgs \in Nat /\ MaxTime \in Nat /\ Soon \in Nat
  /\ Deadlines \subseteq 0 .. MaxTime
  /\ LaneCap \in Nat \ {0} /\ DelayCap \in Nat \ {0} /\ TxCap \in Nat \ {0}

VARIABLES
  now,       \* the clock
  next,      \* number of the next message
  deadline,  \* per message: when to send it, 0 for at once
  lane,      \* the message lane
  call,      \* what the engine task awaits beside routing: "none", "queue"
             \* (its own message's place in the lane) or "command" (the
             \* response of a connection)
  held,      \* the scheduled message the engine has to hand over, if any
  offered,   \* the message the engine has for the connection, if any
  delayq,    \* the channel to the delay task
  heap,      \* messages in the delay task's heap
  firing,    \* the due message the delay task waits to queue again, if any
  tx,        \* number of messages in the TX channel
  gone,      \* the connection task has ended
  out,       \* messages the TX channel accepted, in order
  dropped,   \* messages refused with a warning: no session was running
  discarded  \* messages let go without a trace

taskVars    == <<call, held, offered>>
delayVars   == <<delayq, heap, firing>>
txVars      == <<tx, gone>>
endVars     == <<out, dropped, discarded>>
routingVars == <<now, next, deadline, lane, taskVars, delayVars, txVars, endVars>>
allVars     == <<controlVars, routingVars>>

Msgs  == 1 .. MaxMsgs
None  == 0      \* no message
Calls == {"queue", "command"}

RoutingTypeOK ==
  /\ TypeOK
  /\ now \in 0 .. MaxTime
  /\ next \in 1 .. (MaxMsgs + 1)
  /\ deadline \in [Msgs -> 0 .. MaxTime]
  /\ lane \in Seq(Msgs \cup {None}) /\ Len(lane) <= LaneCap
  /\ call \in {"none"} \cup Calls
  /\ delayq \in Seq(Msgs) /\ Len(delayq) <= DelayCap
  /\ held \in Msgs \cup {None} /\ offered \in Msgs \cup {None}
  /\ firing \in Msgs \cup {None}
  /\ heap \subseteq Msgs /\ dropped \subseteq Msgs /\ discarded \subseteq Msgs
  /\ tx \in 0 .. TxCap /\ gone \in BOOLEAN
  /\ out \in Seq(Msgs)

RoutingInit ==
  /\ Init
  /\ now = 0 /\ next = 1 /\ deadline = [m \in Msgs |-> 0]
  /\ lane = <<>> /\ delayq = <<>> /\ heap = {}
  /\ call = "none" /\ held = None /\ offered = None /\ firing = None
  /\ tx = 0 /\ gone = FALSE
  /\ out = <<>> /\ dropped = {} /\ discarded = {}

WithDelayTask == ToSet(delayq) \cup heap \cup ({firing} \ {None})

Pending == ((ToSet(lane) \cup {held, offered}) \ {None}) \cup WithDelayTask
-----------------------------------------------------------------------------
QueueUnbounded(m) ==        \* mutant: the lane has no limit
  lane' = Append(lane, m)

(* EngineRef::send_message and Engine::send_messages, once there is room. *)
Queue(m) == Len(lane) < LaneCap /\ lane' = Append(lane, m)

New(at) ==
  /\ next <= MaxMsgs /\ next' = next + 1
  /\ Queue(next)
  /\ deadline' = [deadline EXCEPT ![next] = at]

(* A caller queues a message to be sent at once or at a later time; a      *)
(* repeating batch queues one to be sent at once.  Neither looks at the    *)
(* engine's state.                                                         *)
Send(at) ==
  /\ New(at)
  /\ UNCHANGED <<controlVars, now, taskVars, delayVars, txVars, endVars>>

Repeat == ticking /\ Send(0)

(* A connection task queues a received message or a confirmation. *)
OtherEntry ==
  /\ running \/ draining
  /\ Queue(None)
  /\ UNCHANGED <<controlVars, now, next, deadline, taskVars, delayVars, txVars, endVars>>
-----------------------------------------------------------------------------
(* The engine task serves its lanes when it awaits nothing. *)
Idle == call = "none" /\ held = None /\ offered = None

EngineFree == Idle /\ ~draining

(* A hook may make a call of either kind. *)
RunHook == call' \in {"none"} \cup (IF hooks THEN Calls ELSE {})

(* on_timer, on_start or on_stop, or a caller's Command for a connection.  *)
EngineCalls ==
  /\ EngineFree
  /\ \/ hooks /\ call' \in Calls
     \/ running /\ call' = "command"
  /\ UNCHANGED <<controlVars, now, next, deadline, lane, held, offered, delayVars,
                 txVars, endVars>>

(* engine.send_message(..).await on the engine's own lane, for send_after  *)
(* or an auto-response.                                                    *)
QueueOwn(at) ==
  /\ call = "queue" /\ call' = "none"
  /\ New(at)
  /\ UNCHANGED <<controlVars, now, held, offered, delayVars, txVars, endVars>>

(* Past the bound on messages it queues none. *)
QueueOwnBound ==
  /\ call = "queue" /\ call' = "none" /\ next > MaxMsgs
  /\ UNCHANGED <<controlVars, now, next, deadline, lane, held, offered, delayVars,
                 txVars, endVars>>

(* The response of a connection, or its failure. *)
Responded ==
  /\ call = "command" /\ call' = "none"
  /\ UNCHANGED <<controlVars, now, next, deadline, lane, held, offered, delayVars,
                 txVars, endVars>>

(* ReceiveMessage, which may carry an auto-response, or SendConfirm.       *)
ServeOther ==
  /\ EngineFree /\ lane # <<>> /\ Head(lane) = None
  /\ lane' = Tail(lane)
  /\ RunHook \/ call' = "queue"
  /\ UNCHANGED <<controlVars, now, next, deadline, held, offered, delayVars,
                 txVars, endVars>>

Distant(m) == deadline[m] > now + Soon

RouteAnyway(m) ==           \* mutant: the timestamp is not looked at
  offered' = m /\ UNCHANGED held

(* Where a message is to go, by the time taken before on_send runs. *)
Route(m) ==
  \/ Distant(m) /\ held' = m /\ UNCHANGED offered
  \/ ~Distant(m) /\ offered' = m /\ UNCHANGED held

(* SendMessages served: on_send runs, unless no session does. *)
ServeMessage ==
  /\ EngineFree /\ lane # <<>> /\ Head(lane) # None
  /\ lane' = Tail(lane)
  /\ \/ /\ running /\ Route(Head(lane)) /\ RunHook
        /\ UNCHANGED dropped
     \/ /\ ~running /\ dropped' = dropped \cup {Head(lane)}
        /\ UNCHANGED taskVars
  /\ UNCHANGED <<controlVars, now, next, deadline, delayVars, txVars, out, discarded>>

(* delay_sender.send(message).await: the engine task waits for room. *)
HandOver ==
  /\ call = "none" /\ held # None /\ Len(delayq) < DelayCap
  /\ delayq' = Append(delayq, held) /\ held' = None
  /\ UNCHANGED <<controlVars, now, next, deadline, lane, call, offered, heap, firing,
                 txVars, endVars>>

ForwardOrDelay ==           \* mutant: to a full channel it is sent a little later
  /\ call = "none" /\ offered # None /\ connected /\ ~gone
  /\ offered' = None
  /\ \/ tx < TxCap /\ tx' = tx + 1 /\ out' = Append(out, offered) /\ UNCHANGED held
     \/ tx = TxCap /\ held' = offered /\ UNCHANGED <<tx, out>>
  /\ UNCHANGED <<controlVars, now, next, deadline, lane, call, delayVars,
                 gone, dropped, discarded>>

(* sender.send(message).await: the engine task waits for the TX channel. *)
Forward ==
  /\ call = "none" /\ offered # None /\ connected /\ ~gone
  /\ tx < TxCap /\ tx' = tx + 1
  /\ out' = Append(out, offered) /\ offered' = None
  /\ UNCHANGED <<controlVars, now, next, deadline, lane, call, held, delayVars,
                 gone, dropped, discarded>>

DiscardUnknown ==           \* mutant: a closed channel is waited for like a full one
  /\ call = "none" /\ offered # None /\ ~connected
  /\ discarded' = discarded \cup {offered} /\ offered' = None
  /\ UNCHANGED <<controlVars, now, next, deadline, lane, call, held, delayVars,
                 txVars, out, dropped>>

(* No such connection, or one whose task has ended: neither the missing    *)
(* sender nor the error of send is looked at.                              *)
Discard ==
  /\ call = "none" /\ offered # None /\ (~connected \/ gone)
  /\ discarded' = discarded \cup {offered} /\ offered' = None
  /\ UNCHANGED <<controlVars, now, next, deadline, lane, call, held, delayVars,
                 txVars, out, dropped>>
-----------------------------------------------------------------------------
(* The delay task: pops what is due, the earliest deadline first, and only *)
(* when nothing is due takes from its channel.                             *)
Ready == {m \in heap : deadline[m] <= now}

Pop ==
  /\ firing = None
  /\ \E m \in Ready :
       /\ \A n \in heap : deadline[m] <= deadline[n]
       /\ heap' = heap \ {m} /\ firing' = m
  /\ UNCHANGED <<controlVars, now, next, deadline, lane, taskVars, delayq, txVars, endVars>>

Collect ==
  /\ firing = None /\ Ready = {} /\ delayq # <<>>
  /\ heap' = heap \cup {Head(delayq)} /\ delayq' = Tail(delayq)
  /\ UNCHANGED <<controlVars, now, next, deadline, lane, taskVars, firing, txVars, endVars>>

FireAndForget ==            \* mutant: a due message is lost if the lane is full
  /\ firing # None /\ firing' = None
  /\ \/ Queue(firing)
     \/ Len(lane) = LaneCap /\ UNCHANGED lane
  /\ UNCHANGED <<controlVars, now, next, deadline, taskVars, delayq, heap, txVars, endVars>>

(* engine.send_message(message).await of the popped message. *)
Fire ==
  /\ firing # None /\ firing' = None
  /\ Queue(firing)
  /\ UNCHANGED <<controlVars, now, next, deadline, taskVars, delayq, heap, txVars, endVars>>

Tick ==
  /\ now < MaxTime /\ now' = now + 1
  /\ UNCHANGED <<controlVars, next, deadline, lane, taskVars, delayVars, txVars, endVars>>

(* The connection task takes a message, or ends: cancelled, or on an error *)
(* in its configuration.                                                   *)
Take ==
  /\ tx > 0 /\ tx' = tx - 1
  /\ UNCHANGED <<controlVars, now, next, deadline, lane, taskVars, delayVars, gone, endVars>>

TaskEnds ==
  /\ connected /\ ~gone /\ gone' = TRUE
  /\ tx' = 0
  /\ UNCHANGED <<controlVars, now, next, deadline, lane, taskVars, delayVars, endVars>>

(* A step of the control plane, which the engine task takes only when it   *)
(* awaits nothing else.  Stop leaves the lane and the delay task alone;    *)
(* once it has waited for the connection tasks their channels are gone.    *)
ControlStep ==
  /\ \/ Idle /\ Next
     \/ BatchesEnd
  /\ tx' = IF connected' THEN tx ELSE 0
  /\ gone' = (gone /\ connected')
  /\ UNCHANGED <<now, next, deadline, lane, taskVars, delayVars, endVars>>

SendTimes == {0} \cup {t \in Deadlines : t > now}

RoutingNext ==
  \/ \E at \in SendTimes : Send(at) \/ QueueOwn(at)
  \/ Repeat \/ OtherEntry
  \/ EngineCalls \/ QueueOwnBound \/ Responded \/ ServeOther
  \/ ServeMessage \/ HandOver \/ Forward \/ Discard
  \/ Pop \/ Collect \/ Fire \/ Tick \/ Take \/ TaskEnds \/ ControlStep

RoutingSpec == RoutingInit /\ [][RoutingNext]_allVars

(* The engine and the delay task are polled while they can move, time      *)
(* passes and Stop completes.  Control commands are low-rate and on_timer  *)
(* returns within its 100 ms, so the engine's biased select reaches the    *)
(* message lane again and again (on_timer is in module Dataplane), and a   *)
(* waiting sender of a bounded channel is given its turn.  Nothing is      *)
(* assumed of the connection task.                                         *)
FairRoutingSpec ==
  /\ RoutingSpec
  /\ SF_allVars(ServeMessage \/ ServeOther) /\ WF_allVars(HandOver)
  /\ WF_allVars(Forward) /\ WF_allVars(Discard)
  /\ SF_allVars(\E at \in SendTimes : QueueOwn(at)) /\ WF_allVars(QueueOwnBound)
  /\ WF_allVars(Pop) /\ WF_allVars(Collect) /\ SF_allVars(Fire)
  /\ WF_allVars(Tick)
  /\ WF_allVars(Drained /\ ControlStep)
-----------------------------------------------------------------------------
(* Every queued message is in exactly one place: in the lane, with the     *)
(* engine or the delay task, accepted by the connection's TX channel,      *)
(* refused with a warning because no session runs, or let go because there *)
(* is no such connection or its task has ended.  So no other way loses     *)
(* one, and none is sent twice, on both passes through the lane, in every  *)
(* wait of the engine and through any Stop and Start.                      *)
EachInOnePlace ==
  \A m \in Msgs :
    LET Copies(s) == Cardinality({i \in 1 .. Len(s) : s[i] = m})
        Held(S)   == Cardinality(S \cap {m})
    IN  Copies(lane) + Copies(delayq) + Copies(out)
          + Held({held}) + Held({offered}) + Held({firing}) + Held(heap)
          + Held(dropped) + Held(discarded)
        = IF m < next THEN 1 ELSE 0

(* A message to be sent at once is overtaken by none that was queued after *)
(* it, scheduled or not.  (Scheduled ones overtake each other by design.)  *)
ImmediateInOrder ==
  \A i, j \in 1 .. Len(out) : i < j /\ out[i] > out[j] => deadline[out[j]] > 0

(* A scheduled message reaches the connection at most the threshold before *)
(* its time.                                                               *)
NotAheadOfTime == \A m \in ToSet(out) : deadline[m] <= now + Soon

(* The waits of the engine task: for the delay channel, while the delay    *)
(* task waits for the message lane; for the TX channel; for its own lane;  *)
(* and for a connection's response.                                        *)
DelayCycle ==
  /\ held # None /\ Len(delayq) = DelayCap
  /\ firing # None /\ Len(lane) = LaneCap
TxWait      == offered # None /\ tx = TxCap
SelfWait    == call = "queue" /\ Len(lane) = LaneCap
CommandWait == call = "command"

(* When no more messages are queued none stays pending: each has been      *)
(* accepted by the TX channel, refused or let go (EachInOnePlace), through *)
(* any number of Stops and Starts, unless the engine stays forever in one  *)
(* of these waits.                                                         *)
MessagesSettle ==
  <>[](Pending = {}) \/ <>[]DelayCycle \/ <>[]TxWait \/ <>[]SelfWait \/ <>[]CommandWait

(* Stop: "also clear pending messages and batches" (command.rs:27).  What  *)
(* the delay task has while Stop drains was scheduled before that Stop,    *)
(* and is not delivered by a later session.                                *)
StopClearsPending ==
  \A m \in Msgs : [](draining /\ m \in WithDelayTask => [](m \notin ToSet(out)))

(* "A restricted, deadlock-safe handle to the engine" (engine.rs:355) is   *)
(* what the delay task queues due messages with: it and the engine task    *)
(* never wait for each other.                                              *)
NoDelayCycle == ~DelayCycle
=============================================================================
