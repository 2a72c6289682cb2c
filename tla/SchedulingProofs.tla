-------------------------- MODULE SchedulingProofs --------------------------
(***************************************************************************)
(* What is due when: the engine's lane and delay queue (Routing), a batch  *)
(* that repeats itself and the precise delay (TimedTasks, HighResDelay).   *)
(*                                                                         *)
(* Routing, for every capacity, number of messages and length of time:     *)
(* type correctness, that scheduled messages are at most the threshold     *)
(* early, that messages to be sent at once are not overtaken, and that     *)
(* each message is in one place.                                           *)
(*                                                                         *)
(* HighResDelay: no delay ends early unless, on Linux, an earlier one was  *)
(* left with its timer set; for every bound and every threshold, and for   *)
(* every client. The strengthening says what the timer, the reactor and    *)
(* AsyncFd remember at each stage of a delay. It is needed in two forms:   *)
(* off Linux it holds whatever the client does; on Linux as long as no     *)
(* delay was left with its timer set.                                      *)
(*                                                                         *)
(* TimedTasks: both tasks are clients the timer is made for. They set it   *)
(* only while it is idle, and for a delay that is not zero, so their       *)
(* delays are no earlier than those of any client. A repeating batch sends *)
(* at most one message after its token is cancelled, for every list of     *)
(* delays, whatever its timer and aborts do. OneAfterCancel is not         *)
(* inductive: it does not say that the token was not cancelled when the    *)
(* task passed its check, nor where the task can be once a message left    *)
(* late.                                                                   *)
(***************************************************************************)
EXTENDS Routing, TimedTasks, FiniteSetTheorems, FunctionTheorems, SequenceTheorems, TLAPS

(* Message n, queued after m, does not yield to it: only a scheduled m may *)
(* come after n.                                                           *)
After(n, m) == m # None /\ n > m => deadline[m] > 0

(* What is in the lane, offered or accepted was queued before next. *)
Queued ==
  /\ \A i \in 1 .. Len(lane) : lane[i] < next
  /\ \A i \in 1 .. Len(out) : out[i] < next
  /\ offered < next

(* Message m is queued and scheduled. *)
Later(m) == m < next /\ deadline[m] > 0

(* What goes to the delay task or is with it is scheduled. *)
AllLater ==
  /\ \A i \in 1 .. Len(delayq) : Later(delayq[i])
  /\ \A m \in heap : Later(m)
  /\ held # None => Later(held)
  /\ firing # None => Later(firing)

(* The order extends over what the TX channel accepted, the message in the *)
(* engine's hand and the lane behind it.                                   *)
InOrder ==
  /\ \A i, j \in 1 .. Len(lane) : i < j => After(lane[i], lane[j])
  /\ \A i \in 1 .. Len(out), j \in 1 .. Len(lane) : After(out[i], lane[j])
  /\ \A i, j \in 1 .. Len(out) : i < j => After(out[i], out[j])
  /\ \A i \in 1 .. Len(out) : After(out[i], offered)
  /\ \A j \in 1 .. Len(lane) : After(offered, lane[j])

OnTime ==
  /\ \A i \in 1 .. Len(out) : deadline[out[i]] <= now + Soon
  /\ offered # None => deadline[offered] <= now + Soon

RoutingInv == RoutingTypeOK /\ Queued /\ AllLater /\ InOrder /\ OnTime

Entries == Msgs \cup {None}
-----------------------------------------------------------------------------
LEMMA RoutingStart == RoutingInit => RoutingInv
<1> SUFFICES ASSUME RoutingInit PROVE RoutingInv
  OBVIOUS
<1> USE RoutingAssumption DEF RoutingInit
<1>1. RoutingTypeOK
  <2>1. TypeOK
    BY DEF Init, TypeOK
  <2>2. deadline \in [Msgs -> 0 .. MaxTime]
    BY DEF Msgs
  <2>3. /\ lane \in Seq(Msgs \cup {None}) /\ Len(lane) <= LaneCap
        /\ delayq \in Seq(Msgs) /\ Len(delayq) <= DelayCap
        /\ out \in Seq(Msgs)
    OBVIOUS
  <2>4. call \in {"none"} \cup Calls /\ gone \in BOOLEAN
    BY Zenon
  <2>5. tx \in 0 .. TxCap /\ now \in 0 .. MaxTime /\ next \in 1 .. (MaxMsgs + 1)
    OBVIOUS
  <2> QED  BY <2>1, <2>2, <2>3, <2>4, <2>5 DEF RoutingTypeOK
<1>2. Queued /\ AllLater /\ InOrder /\ OnTime
  BY DEF Queued, AllLater, InOrder, OnTime, After, None
<1> QED  BY <1>1, <1>2 DEF RoutingInv

(* The control plane keeps its own types. *)
LEMMA ControlTypes == TypeOK /\ [Next]_controlVars => TypeOK'
  BY DEF TypeOK, Next, Open, Shut, Drained, BatchStarts, BatchesEnd, Rescript, controlVars

(* What queueing entry e behind the lane needs, and gives. *)
LEMMA QueueKeeps ==
  ASSUME RoutingTypeOK, NEW e \in Entries, Queue(e)
  PROVE  /\ lane' \in Seq(Entries) /\ Len(lane') <= LaneCap
         /\ Len(lane') = Len(lane) + 1
         /\ lane'[Len(lane) + 1] = e
         /\ \A i \in 1 .. Len(lane) : lane'[i] = lane[i]
  BY RoutingAssumption DEF RoutingTypeOK, Queue, Entries

(* The elements of a sequence. *)
LEMMA Elements ==
  ASSUME NEW S, NEW q \in Seq(S)
  PROVE  \A i \in 1 .. Len(q) : q[i] \in S
  OBVIOUS

(* Taking the head of a sequence. *)
LEMMA TailKeeps ==
  ASSUME NEW S, NEW q \in Seq(S), q # <<>>
  PROVE  /\ Head(q) \in S /\ Head(q) = q[1] /\ 1 \in 1 .. Len(q)
         /\ Tail(q) \in Seq(S) /\ Len(Tail(q)) = Len(q) - 1
         /\ \A i \in 1 .. Len(Tail(q)) : i + 1 \in 1 .. Len(q) /\ Tail(q)[i] = q[i + 1]
  OBVIOUS

(* Appending to a sequence. *)
LEMMA AppendKeeps ==
  ASSUME NEW S, NEW q \in Seq(S), NEW e \in S
  PROVE  /\ Append(q, e) \in Seq(S) /\ Len(Append(q, e)) = Len(q) + 1
         /\ Append(q, e)[Len(q) + 1] = e
         /\ \A i \in 1 .. Len(q) : Append(q, e)[i] = q[i]
  OBVIOUS

(* Giving out a number. *)
LEMMA NewKeeps ==
  ASSUME RoutingTypeOK, NEW at \in SendTimes, New(at)
  PROVE  /\ next \in Msgs /\ next' = next + 1 /\ next' \in 1 .. (MaxMsgs + 1)
         /\ Queue(next) /\ lane' \in Seq(Entries) /\ Len(lane') <= LaneCap
         /\ deadline' \in [Msgs -> 0 .. MaxTime]
         /\ \A m \in Msgs : m < next => deadline'[m] = deadline[m]
<1> USE RoutingAssumption
<1>1. next \in Msgs /\ next' = next + 1 /\ next' \in 1 .. (MaxMsgs + 1) /\ Queue(next)
  BY DEF New, RoutingTypeOK, Msgs
<1>2. at \in 0 .. MaxTime /\ deadline \in [Msgs -> 0 .. MaxTime]
  BY DEF SendTimes, RoutingTypeOK
<1>3. /\ deadline' \in [Msgs -> 0 .. MaxTime]
      /\ \A m \in Msgs : m < next => deadline'[m] = deadline[m]
  BY <1>1, <1>2 DEF New, Msgs
<1>4. lane' \in Seq(Entries) /\ Len(lane') <= LaneCap
  BY <1>1, QueueKeeps DEF Entries
<1> QED  BY <1>1, <1>3, <1>4

(* The steps that give out a number are those of New.                      *)
LEMMA RepeatIsSend == Repeat => \E at \in SendTimes : Send(at)
  BY DEF Repeat, SendTimes
-----------------------------------------------------------------------------
LEMMA TypesStep == RoutingTypeOK /\ [RoutingNext]_allVars => RoutingTypeOK'
<1> SUFFICES ASSUME RoutingTypeOK, [RoutingNext]_allVars PROVE RoutingTypeOK'
  OBVIOUS
<1> USE RoutingAssumption DEF taskVars, delayVars, txVars, endVars
<1>0. ASSUME UNCHANGED controlVars PROVE TypeOK'
  BY <1>0, ControlTypes DEF controlVars, RoutingTypeOK
<1>n. "none" \in {"none"} \cup Calls /\ Calls \subseteq {"none"} \cup Calls
  BY Zenon
<1>1. ASSUME NEW at \in SendTimes, Send(at) PROVE RoutingTypeOK'
  <2>1. New(at) /\ UNCHANGED <<controlVars, now, taskVars, delayVars, txVars, endVars>>
    BY <1>1 DEF Send
  <2>2. TypeOK'
    BY <2>1, <1>0
  <2>3. UNCHANGED <<now, call, held, offered, delayq, heap, firing, tx, gone, out, dropped, discarded>>
    BY <2>1
  <2> QED  BY <2>1, <2>2, <2>3, NewKeeps DEF RoutingTypeOK, Entries
<1>2. ASSUME NEW at \in SendTimes, QueueOwn(at) PROVE RoutingTypeOK'
  <2>1. New(at) /\ call' = "none"
        /\ UNCHANGED <<controlVars, now, held, offered, delayVars, txVars, endVars>>
    BY <1>2 DEF QueueOwn
  <2>2. TypeOK'
    BY <2>1, <1>0
  <2>3. /\ UNCHANGED <<now, held, offered, delayq, heap, firing, tx, gone, out, dropped, discarded>>
        /\ call' \in {"none"} \cup Calls
    BY <2>1, <1>n
  <2> QED  BY <2>1, <2>2, <2>3, NewKeeps DEF RoutingTypeOK, Entries
<1>3. CASE OtherEntry
  <2>1. lane' \in Seq(Entries) /\ Len(lane') <= LaneCap
    BY <1>3, QueueKeeps DEF OtherEntry, Entries
  <2> QED  BY <1>0, <1>3, <2>1 DEF OtherEntry, RoutingTypeOK, Entries
<1>4. CASE EngineCalls \/ QueueOwnBound \/ Responded
  <2>1. call' \in {"none"} \cup Calls
    BY <1>4 DEF EngineCalls, QueueOwnBound, Responded, Calls
  <2>2. TypeOK'
    BY <1>0, <1>4 DEF EngineCalls, QueueOwnBound, Responded
  <2>3. UNCHANGED <<now, next, deadline, lane, held, offered, delayq, heap, firing, tx, gone,
                    out, dropped, discarded>>
    BY <1>4, Zenon DEF EngineCalls, QueueOwnBound, Responded
  <2> QED  BY <2>1, <2>2, <2>3 DEF RoutingTypeOK
<1>5. CASE ServeOther
  <2>1. call' \in {"none"} \cup Calls
    BY <1>5 DEF ServeOther, RunHook, Calls
  <2>2. lane' \in Seq(Entries) /\ Len(lane') <= LaneCap
    BY <1>5, TailKeeps DEF ServeOther, RoutingTypeOK, Entries
  <2> QED  BY <1>0, <1>5, <2>1, <2>2 DEF ServeOther, RoutingTypeOK, Entries
<1>6. CASE ServeMessage
  <2>1. Head(lane) \in Msgs /\ lane' \in Seq(Entries) /\ Len(lane') <= LaneCap
    BY <1>6, TailKeeps DEF ServeMessage, RoutingTypeOK, Entries
  <2>2. /\ held' = held \/ held' = Head(lane)
        /\ offered' = offered \/ offered' = Head(lane)
        /\ dropped' = dropped \/ dropped' = dropped \cup {Head(lane)}
    BY <1>6 DEF ServeMessage, Route
  <2>3. call' \in {"none"} \cup Calls
    BY <1>6 DEF ServeMessage, RunHook, Calls, RoutingTypeOK
  <2>4. held' \in Msgs \cup {None} /\ offered' \in Msgs \cup {None} /\ dropped' \subseteq Msgs
    BY <2>1, <2>2, Zenon DEF RoutingTypeOK
  <2>5. TypeOK'
    BY <1>0, <1>6 DEF ServeMessage
  <2>6. UNCHANGED <<now, next, deadline, delayq, heap, firing, tx, gone, out, discarded>>
    BY <1>6, Zenon DEF ServeMessage
  <2> QED  BY <2>1, <2>3, <2>4, <2>5, <2>6 DEF RoutingTypeOK, Entries
<1>7. CASE HandOver
  <2>1. delayq' \in Seq(Msgs) /\ Len(delayq') <= DelayCap
    BY <1>7 DEF HandOver, RoutingTypeOK
  <2> QED  BY <1>0, <1>7, <2>1 DEF HandOver, RoutingTypeOK
<1>8. CASE Forward
  <2>1. out' \in Seq(Msgs) /\ tx' \in 0 .. TxCap
    BY <1>8 DEF Forward, RoutingTypeOK
  <2> QED  BY <1>0, <1>8, <2>1 DEF Forward, RoutingTypeOK
<1>9. CASE Discard
  BY <1>0, <1>9 DEF Discard, RoutingTypeOK
<1>10. CASE Pop
  <2>1. heap' \subseteq Msgs /\ firing' \in Msgs
    BY <1>10 DEF Pop, Ready, RoutingTypeOK
  <2> QED  BY <1>0, <1>10, <2>1 DEF Pop, RoutingTypeOK
<1>11. CASE Collect
  <2>1. Head(delayq) \in Msgs /\ delayq' \in Seq(Msgs) /\ Len(delayq') <= DelayCap
    BY <1>11, TailKeeps DEF Collect, RoutingTypeOK
  <2> QED  BY <1>0, <1>11, <2>1 DEF Collect, RoutingTypeOK
<1>12. CASE Fire
  <2>1. lane' \in Seq(Entries) /\ Len(lane') <= LaneCap
    BY <1>12, QueueKeeps DEF Fire, RoutingTypeOK, Entries
  <2> QED  BY <1>0, <1>12, <2>1 DEF Fire, RoutingTypeOK, Entries
<1>13. CASE Tick \/ Take \/ TaskEnds
  <2>0. TypeOK' /\ gone' \in BOOLEAN
    BY <1>0, <1>13, Zenon DEF Tick, Take, TaskEnds, RoutingTypeOK
  <2>1. TypeOK' /\ now' \in 0 .. MaxTime /\ tx' \in 0 .. TxCap /\ gone' \in BOOLEAN
    BY <2>0, <1>13 DEF Tick, Take, TaskEnds, RoutingTypeOK
  <2>2. UNCHANGED <<next, deadline, lane, call, held, offered, delayq, heap, firing,
                    out, dropped, discarded>>
    BY <1>13, Zenon DEF Tick, Take, TaskEnds
  <2> QED  BY <2>1, <2>2 DEF RoutingTypeOK
<1>14. CASE ControlStep
  <2>1. TypeOK'
    BY <1>14, ControlTypes DEF ControlStep, Next, RoutingTypeOK
  <2>2. tx' \in 0 .. TxCap
    BY <1>14 DEF ControlStep, RoutingTypeOK
  <2>3. gone' \in BOOLEAN
    BY <1>14, <2>1 DEF ControlStep, RoutingTypeOK, TypeOK
  <2>4. UNCHANGED <<now, next, deadline, lane, call, held, offered, delayq, heap, firing,
                    out, dropped, discarded>>
    BY <1>14, Zenon DEF ControlStep
  <2> QED  BY <2>1, <2>2, <2>3, <2>4 DEF RoutingTypeOK
<1>15. CASE UNCHANGED allVars
  BY <1>0, <1>15 DEF allVars, routingVars, RoutingTypeOK
<1> QED
  BY <1>1, <1>2, <1>3, <1>4, <1>5, <1>6, <1>7, <1>8, <1>9, <1>10, <1>11, <1>12, <1>13,
     <1>14, <1>15, RepeatIsSend, Zenon DEF RoutingNext

(* What a step does to what is in the lane, in the engine's hand for the   *)
(* connection, and accepted by the TX channel.                             *)
LaneKept    == UNCHANGED <<lane, offered, out>>
NumberAdded == /\ \E at \in SendTimes : New(at)
               /\ UNCHANGED <<offered, out>>
OtherAdded  == Queue(None) /\ UNCHANGED <<offered, out>>
FiredAgain  == firing # None /\ Queue(firing) /\ UNCHANGED <<offered, out>>
Served      == /\ lane # <<>> /\ lane' = Tail(lane) /\ UNCHANGED out
               /\ \/ UNCHANGED offered
                  \/ /\ offered = None /\ offered' = Head(lane)
                     /\ Head(lane) # None /\ ~Distant(Head(lane))
Accepted    == /\ offered # None /\ offered' = None
               /\ out' = Append(out, offered) /\ UNCHANGED lane
LetGo       == offered' = None /\ UNCHANGED <<lane, out>>

LEMMA LaneSteps ==
  ASSUME RoutingTypeOK, [RoutingNext]_allVars
  PROVE  \/ LaneKept \/ NumberAdded \/ OtherAdded \/ FiredAgain
         \/ Served \/ Accepted \/ LetGo
<1> USE DEF taskVars, delayVars, txVars, endVars
<1>1. ASSUME NEW at \in SendTimes, Send(at) \/ QueueOwn(at) PROVE NumberAdded
  BY <1>1, Zenon DEF Send, QueueOwn, NumberAdded
<1>2. OtherEntry => OtherAdded
  BY Zenon DEF OtherEntry, OtherAdded
<1>3. ServeOther => Served
  BY Zenon DEF ServeOther, Served
<1>4. ServeMessage => Served
  BY Zenon DEF ServeMessage, Route, Served, EngineFree, Idle
<1>5. Forward => Accepted
  BY Zenon DEF Forward, Accepted
<1>6. Discard => LetGo
  BY Zenon DEF Discard, LetGo
<1>7. Fire => FiredAgain
  BY Zenon DEF Fire, FiredAgain
<1>8. EngineCalls \/ QueueOwnBound \/ Responded \/ HandOver => LaneKept
  BY Zenon DEF EngineCalls, QueueOwnBound, Responded, HandOver, LaneKept
<1>9. Pop \/ Collect \/ Tick \/ Take \/ TaskEnds \/ ControlStep \/ UNCHANGED allVars => LaneKept
  BY Zenon DEF Pop, Collect, Tick, Take, TaskEnds, ControlStep, allVars, routingVars, LaneKept
<1> QED
  BY <1>1, <1>2, <1>3, <1>4, <1>5, <1>6, <1>7, <1>8, <1>9, RepeatIsSend, Zenon DEF RoutingNext

(* A step gives out at most one number, sets only its deadline, and never  *)
(* puts the clock back.                                                    *)
LEMMA NumbersStep ==
  ASSUME RoutingTypeOK, [RoutingNext]_allVars
  PROVE  /\ next \in Nat /\ next' \in Nat /\ next <= next'
         /\ \A m \in Msgs : m < next => deadline'[m] = deadline[m]
         /\ now \in Nat /\ now' \in Nat /\ now <= now'
<1>0. next \in Nat /\ now \in Nat
  BY RoutingAssumption DEF RoutingTypeOK
<1>1. ASSUME NEW at \in SendTimes, Send(at) \/ QueueOwn(at)
      PROVE  /\ next' = next + 1 /\ now' = now
             /\ \A m \in Msgs : m < next => deadline'[m] = deadline[m]
  <2>1. New(at) /\ now' = now
    BY <1>1 DEF Send, QueueOwn
  <2> QED  BY <2>1, NewKeeps
<1>2. CASE Tick
  BY <1>0, <1>2 DEF Tick
<1>3. ASSUME OtherEntry \/ EngineCalls \/ QueueOwnBound \/ Responded \/ ServeOther
      PROVE  UNCHANGED <<next, deadline, now>>
  BY <1>3, Zenon DEF OtherEntry, EngineCalls, QueueOwnBound, Responded, ServeOther
<1>4. ASSUME ServeMessage \/ HandOver \/ Forward \/ Discard \/ Pop \/ Collect \/ Fire
      PROVE  UNCHANGED <<next, deadline, now>>
  BY <1>4, Zenon DEF ServeMessage, HandOver, Forward, Discard, Pop, Collect, Fire
<1>5. ASSUME Take \/ TaskEnds \/ ControlStep \/ UNCHANGED allVars
      PROVE  UNCHANGED <<next, deadline, now>>
  BY <1>5, Zenon DEF Take, TaskEnds, ControlStep, allVars, routingVars
<1>6. CASE UNCHANGED <<next, deadline, now>>
  BY <1>0, <1>6
<1>7. CASE \E at \in SendTimes : Send(at) \/ QueueOwn(at)
  BY <1>0, <1>1, <1>7
<1> QED
  BY <1>2, <1>3, <1>4, <1>5, <1>6, <1>7, RepeatIsSend, Zenon DEF RoutingNext

LEMMA QueuedStep == RoutingInv /\ [RoutingNext]_allVars => Queued'
<1> SUFFICES ASSUME RoutingInv, [RoutingNext]_allVars PROVE Queued'
  OBVIOUS
<1>a. RoutingTypeOK
  BY DEF RoutingInv
<1>t. next \in Nat /\ next' \in Nat /\ next <= next'
  BY <1>a, NumbersStep
<1>m. /\ lane \in Seq(Entries) /\ out \in Seq(Msgs) /\ Entries \subseteq Nat
      /\ Msgs \subseteq Entries /\ None \in Entries /\ None < next
      /\ \A i \in 1 .. Len(lane) : lane[i] \in Entries /\ lane[i] < next
      /\ \A i \in 1 .. Len(out) : out[i] \in Entries /\ out[i] < next
      /\ offered \in Entries /\ offered < next
  <2>1. lane \in Seq(Entries) /\ out \in Seq(Msgs) /\ offered \in Entries
    BY <1>a DEF RoutingTypeOK, Entries
  <2>2. Entries \subseteq Nat /\ Msgs \subseteq Entries /\ None \in Entries /\ None < next
    BY <1>a, RoutingAssumption DEF Msgs, None, Entries, RoutingTypeOK
  <2>3. /\ \A i \in 1 .. Len(lane) : lane[i] \in Entries
        /\ \A i \in 1 .. Len(out) : out[i] \in Msgs
    BY <2>1, Elements
  <2> QED  BY <2>1, <2>2, <2>3 DEF RoutingInv, Queued
<1>x. /\ \A n \in Entries : n < next => n < next'
      /\ \A i \in 1 .. Len(lane) : lane[i] \in Entries /\ lane[i] < next'
      /\ \A i \in 1 .. Len(out) : out[i] < next'
      /\ offered < next' /\ None < next'
  <2>1. ASSUME NEW n \in Entries, n < next PROVE n < next'
    <3>1. n \in Nat
      BY <1>m
    <3> QED  BY <1>t, <2>1, <3>1
  <2> QED  BY <1>m, <2>1, Zenon
<1>o. CASE UNCHANGED <<offered, out>>
  <2>1. (\A i \in 1 .. Len(out') : out'[i] < next') /\ offered' < next'
    BY <1>o, <1>x
  <2>2. ASSUME NEW e \in Entries, e < next', Queue(e)
        PROVE  \A i \in 1 .. Len(lane') : lane'[i] < next'
    <3>1. /\ Len(lane') = Len(lane) + 1 /\ lane'[Len(lane) + 1] = e
          /\ \A i \in 1 .. Len(lane) : lane'[i] = lane[i]
      BY <1>a, <2>2, QueueKeeps
    <3>2. Len(lane) \in Nat
      BY <1>m
    <3>3. \A i \in 1 .. Len(lane') : i \in 1 .. Len(lane) \/ i = Len(lane) + 1
      BY <3>1, <3>2
    <3> QED  BY <1>x, <2>2, <3>1, <3>3
  <2>3. CASE NumberAdded
    <3>1. Queue(next) /\ next \in Entries /\ next < next'
      BY <1>a, <1>t, <1>m, <2>3, NewKeeps DEF NumberAdded
    <3> QED  BY <2>1, <2>2, <3>1 DEF Queued
  <2>4. CASE OtherAdded
    BY <1>m, <1>x, <2>1, <2>2, <2>4 DEF OtherAdded, Queued
  <2>5. CASE FiredAgain
    <3>1. firing \in Entries /\ firing < next
      BY <1>a, <1>m, <2>5 DEF RoutingInv, AllLater, Later, FiredAgain, RoutingTypeOK
    <3>2. firing < next'
      BY <1>x, <3>1
    <3> QED  BY <2>1, <2>2, <2>5, <3>1, <3>2 DEF FiredAgain, Queued
  <2>6. CASE UNCHANGED lane
    BY <1>x, <2>1, <2>6 DEF Queued
  <2>7. CASE lane # <<>> /\ lane' = Tail(lane)
    <3>1. \A i \in 1 .. Len(lane') : i + 1 \in 1 .. Len(lane) /\ lane'[i] = lane[i + 1]
      BY <2>7, <1>m, TailKeeps
    <3>2. \A i \in 1 .. Len(lane') : lane'[i] < next'
      BY <1>x, <3>1
    <3> QED  BY <2>1, <3>2 DEF Queued
  <2> QED
    BY <1>a, <1>o, <2>3, <2>4, <2>5, <2>6, <2>7, LaneSteps
       DEF LaneKept, Served, Accepted, LetGo
<1>1. CASE Served
  <2>1. /\ Head(lane) \in Entries /\ Head(lane) = lane[1] /\ 1 \in 1 .. Len(lane)
        /\ \A i \in 1 .. Len(lane') : i + 1 \in 1 .. Len(lane) /\ lane'[i] = lane[i + 1]
    BY <1>1, <1>m, TailKeeps DEF Served
  <2>2. \A i \in 1 .. Len(lane') : lane'[i] < next'
    BY <1>x, <2>1
  <2>3. Head(lane) < next'
    BY <1>x, <2>1
  <2>4. offered' < next'
    BY <1>1, <1>x, <2>3 DEF Served
  <2>5. \A i \in 1 .. Len(out') : out'[i] < next'
    BY <1>1, <1>x DEF Served
  <2> QED  BY <2>2, <2>4, <2>5 DEF Queued
<1>2. CASE Accepted
  <2> DEFINE o == Append(out, offered)
  <2>1. offered \in Msgs
    BY <1>2, <1>m DEF Accepted, Entries
  <2>2. /\ Len(o) = Len(out) + 1 /\ o[Len(out) + 1] = offered
        /\ \A i \in 1 .. Len(out) : o[i] = out[i]
    BY <1>m, <2>1, AppendKeeps
  <2>3. \A i \in 1 .. Len(o) : i \in 1 .. Len(out) \/ i = Len(out) + 1
    BY <1>m, <2>2
  <2> HIDE DEF o
  <2>4. \A i \in 1 .. Len(o) : o[i] < next'
    BY <1>x, <2>2, <2>3
  <2>5. out' = o /\ offered' = None /\ lane' = lane
    BY <1>2 DEF Accepted, o
  <2>6. None < next' /\ \A i \in 1 .. Len(lane) : lane[i] < next'
    BY <1>x
  <2> QED  BY <2>4, <2>5, <2>6 DEF Queued
<1>3. CASE LetGo
  BY <1>3, <1>x DEF LetGo, Queued
<1> QED
  BY <1>a, <1>o, <1>1, <1>2, <1>3, LaneSteps
     DEF LaneKept, NumberAdded, OtherAdded, FiredAgain
-----------------------------------------------------------------------------
(* What holds of queued messages is not undone. *)
LEMMA Lasting ==
  ASSUME RoutingTypeOK, [RoutingNext]_allVars, NEW m \in Msgs
  PROVE  /\ Later(m) => Later(m)'
         /\ m < next => deadline'[m] = deadline[m]
<1>1. /\ next \in Nat /\ m \in Nat /\ next' \in Nat /\ next <= next'
      /\ m < next => deadline'[m] = deadline[m]
  <2>1. m \in Nat
    BY RoutingAssumption DEF Msgs
  <2> QED  BY <2>1, NumbersStep
<1> QED  BY <1>1 DEF Later

LEMMA AllLaterStep == RoutingInv /\ [RoutingNext]_allVars => AllLater'
<1> SUFFICES ASSUME RoutingInv, [RoutingNext]_allVars PROVE AllLater'
  OBVIOUS
<1> USE DEF taskVars, delayVars, txVars, endVars
<1>a. RoutingTypeOK /\ Queued /\ AllLater
  BY DEF RoutingInv
<1>b. /\ delayq \in Seq(Msgs) /\ lane \in Seq(Entries) /\ heap \subseteq Msgs
      /\ held \in Msgs \cup {None} /\ firing \in Msgs \cup {None}
  BY <1>a DEF RoutingTypeOK, Entries
<1>c. \A m \in Msgs : Later(m) => Later(m)'
  BY <1>a, Lasting
<1> DEFINE L == {m \in Msgs : Later(m)}
<1>l. /\ \A i \in 1 .. Len(delayq) : delayq[i] \in L
      /\ heap \subseteq L /\ held \in L \cup {None} /\ firing \in L \cup {None}
  <2>1. \A i \in 1 .. Len(delayq) : delayq[i] \in Msgs
    BY <1>b, Elements
  <2> QED  BY <1>a, <1>b, <2>1 DEF AllLater
<1>s. SUFFICES /\ \A i \in 1 .. Len(delayq') : delayq'[i] \in L
               /\ heap' \subseteq L /\ held' \in L \cup {None} /\ firing' \in L \cup {None}
  <2> HIDE DEF L
  <2>1. \A m \in L : Later(m)'
    BY <1>c DEF L
  <2>2. None \notin Msgs
    BY RoutingAssumption DEF Msgs, None
  <2> QED  BY <2>1, <2>2 DEF AllLater, Later
<1> HIDE DEF L
<1>1. CASE ServeMessage
  <2>1. /\ Head(lane) \in Msgs /\ Head(lane) < next
        /\ Head(lane) = lane[1] /\ 1 \in 1 .. Len(lane)
    BY <1>1, <1>a, <1>b, TailKeeps DEF ServeMessage, Queued, Entries
  <2>2. deadline[Head(lane)] \in Nat /\ now \in Nat /\ Soon \in Nat
    BY <1>a, <2>1, RoutingAssumption DEF RoutingTypeOK
  <2>3. Distant(Head(lane)) => Head(lane) \in L
    BY <2>1, <2>2 DEF Distant, Later, L
  <2>4. \/ held' = held
        \/ held' = Head(lane) /\ Distant(Head(lane))
    BY <1>1 DEF ServeMessage, Route
  <2>5. UNCHANGED <<delayq, heap, firing>>
    BY <1>1 DEF ServeMessage
  <2> QED  BY <1>l, <2>3, <2>4, <2>5
<1>2. CASE HandOver
  <2>1. held \in L /\ held \in Msgs
    BY <1>2, <1>l DEF HandOver, L
  <2>2. Len(Append(delayq, held)) = Len(delayq) + 1 /\ Len(delayq) \in Nat
    BY <1>b, <2>1, AppendKeeps
  <2>3. /\ Append(delayq, held)[Len(delayq) + 1] = held
        /\ \A i \in 1 .. Len(delayq) : Append(delayq, held)[i] = delayq[i]
    BY <1>b, <2>1, AppendKeeps
  <2>4. \A i \in 1 .. Len(delayq) + 1 : Append(delayq, held)[i] \in L
    BY <1>l, <2>1, <2>2, <2>3
  <2> QED  BY <1>2, <1>l, <2>2, <2>4 DEF HandOver
<1>3. CASE Pop
  BY <1>3, <1>l DEF Pop, Ready
<1>4. CASE Collect
  <2>1. Head(delayq) \in L
    BY <1>4, <1>b, <1>l, TailKeeps DEF Collect
  <2>2. \A i \in 1 .. Len(Tail(delayq)) : Tail(delayq)[i] \in L
    BY <1>4, <1>b, <1>l, TailKeeps DEF Collect
  <2> QED  BY <1>4, <1>l, <2>1, <2>2 DEF Collect
<1>5. CASE Fire
  BY <1>5, <1>l DEF Fire
<1>6. CASE UNCHANGED <<held, delayq, heap, firing>>
  BY <1>6, <1>l
<1>7. ASSUME NEW at \in SendTimes, Send(at) \/ QueueOwn(at)
      PROVE  UNCHANGED <<held, delayq, heap, firing>>
  BY <1>7, Zenon DEF Send, QueueOwn
<1>8. OtherEntry \/ EngineCalls \/ QueueOwnBound \/ Responded \/ ServeOther
        => UNCHANGED <<held, delayq, heap, firing>>
  BY Zenon DEF OtherEntry, EngineCalls, QueueOwnBound, Responded, ServeOther
<1>9. Forward \/ Discard \/ Tick \/ Take \/ TaskEnds \/ ControlStep \/ UNCHANGED allVars
        => UNCHANGED <<held, delayq, heap, firing>>
  BY Zenon DEF Forward, Discard, Tick, Take, TaskEnds, ControlStep, allVars, routingVars
<1> QED
  BY <1>1, <1>2, <1>3, <1>4, <1>5, <1>6, <1>7, <1>8, <1>9, RepeatIsSend, Zenon DEF RoutingNext

LEMMA InOrderStep == RoutingInv /\ [RoutingNext]_allVars => InOrder'
<1> SUFFICES ASSUME RoutingInv, [RoutingNext]_allVars PROVE InOrder'
  OBVIOUS
<1>a. RoutingTypeOK /\ Queued /\ AllLater /\ InOrder
  BY DEF RoutingInv
<1>b. /\ lane \in Seq(Entries) /\ out \in Seq(Msgs) /\ offered \in Entries
      /\ next \in Nat /\ Entries \subseteq Nat /\ Entries = Msgs \cup {None} /\ None \notin Msgs
      /\ None = 0
  BY <1>a, RoutingAssumption DEF RoutingTypeOK, Msgs, None, Entries
<1>m. /\ \A i \in 1 .. Len(lane) : lane[i] \in Entries /\ lane[i] < next
      /\ \A i \in 1 .. Len(out) : out[i] \in Entries /\ out[i] < next
      /\ offered < next
  <2>1. /\ \A i \in 1 .. Len(lane) : lane[i] \in Entries
        /\ \A i \in 1 .. Len(out) : out[i] \in Msgs
    BY <1>b, Elements
  <2> QED  BY <1>a, <1>b, <2>1 DEF Queued
<1>l. Len(lane) \in Nat /\ Len(out) \in Nat
  BY <1>b
<1> DEFINE P(n, m) == m # None /\ n > m => deadline'[m] > 0
<1>p. ASSUME NEW n \in Entries, NEW m \in Entries, m < next, After(n, m) PROVE P(n, m)
  <2>1. CASE m = None
    BY <2>1
  <2>2. CASE m # None
    <3>1. deadline'[m] = deadline[m]
      BY <1>a, <1>b, <1>p, <2>2, Lasting
    <3> QED  BY <1>p, <3>1 DEF After
  <2> QED  BY <2>1, <2>2
<1>z. /\ \A n \in Entries : P(None, n) /\ P(n, None)
      /\ \A n \in Entries : n < next => P(n, next)
  BY <1>b
<1>o. /\ \A i, j \in 1 .. Len(lane) : i < j => P(lane[i], lane[j])
      /\ \A i \in 1 .. Len(out), j \in 1 .. Len(lane) : P(out[i], lane[j])
      /\ \A i, j \in 1 .. Len(out) : i < j => P(out[i], out[j])
      /\ \A i \in 1 .. Len(out) : P(out[i], offered)
      /\ \A j \in 1 .. Len(lane) : P(offered, lane[j])
  <2> HIDE DEF P
  <2> QED  BY <1>a, <1>b, <1>m, <1>p DEF InOrder
<1>s. SUFFICES
        /\ \A i, j \in 1 .. Len(lane') : i < j => P(lane'[i], lane'[j])
        /\ \A i \in 1 .. Len(out'), j \in 1 .. Len(lane') : P(out'[i], lane'[j])
        /\ \A i, j \in 1 .. Len(out') : i < j => P(out'[i], out'[j])
        /\ \A i \in 1 .. Len(out') : P(out'[i], offered')
        /\ \A j \in 1 .. Len(lane') : P(offered', lane'[j])
  BY DEF InOrder, After
<1> DEFINE Goal ==
        /\ \A i, j \in 1 .. Len(lane') : i < j => P(lane'[i], lane'[j])
        /\ \A i \in 1 .. Len(out'), j \in 1 .. Len(lane') : P(out'[i], lane'[j])
        /\ \A i, j \in 1 .. Len(out') : i < j => P(out'[i], out'[j])
        /\ \A i \in 1 .. Len(out') : P(out'[i], offered')
        /\ \A j \in 1 .. Len(lane') : P(offered', lane'[j])
<1> HIDE DEF P
<1>1. CASE LaneKept
  BY <1>1, <1>o DEF LaneKept
<1>2. ASSUME NEW e \in Entries, Queue(e), UNCHANGED <<offered, out>>,
             \A n \in Entries : n < next => P(n, e)
      PROVE  Goal
  <2>1. /\ Len(lane') = Len(lane) + 1 /\ lane'[Len(lane) + 1] = e
        /\ \A i \in 1 .. Len(lane) : lane'[i] = lane[i]
    BY <1>2, <1>a, QueueKeeps
  <2>2. /\ \A i \in 1 .. Len(lane) : P(lane[i], e)
        /\ \A i \in 1 .. Len(out) : P(out[i], e)
        /\ P(offered, e)
    BY <1>2, <1>b, <1>m
  <2>3. \A j \in 1 .. Len(lane') : j \in 1 .. Len(lane) \/ j = Len(lane) + 1
    BY <1>l, <2>1
  <2>4. \A i, j \in 1 .. Len(lane') : i < j => i \in 1 .. Len(lane)
    BY <1>l, <2>1
  <2>5. \A i, j \in 1 .. Len(lane') : i < j => P(lane'[i], lane'[j])
    BY <1>o, <2>1, <2>2, <2>3, <2>4
  <2>6. \A i \in 1 .. Len(out'), j \in 1 .. Len(lane') : P(out'[i], lane'[j])
    BY <1>2, <1>o, <2>1, <2>2, <2>3
  <2>7. \A j \in 1 .. Len(lane') : P(offered', lane'[j])
    BY <1>2, <1>o, <2>1, <2>2, <2>3
  <2> QED  BY <1>2, <1>o, <2>5, <2>6, <2>7
<1>3. CASE NumberAdded
  <2>1. Queue(next) /\ next \in Entries
    BY <1>3, <1>a, <1>b, NewKeeps DEF NumberAdded
  <2> QED  BY <1>3, <1>2, <1>z, <2>1 DEF NumberAdded
<1>4. CASE OtherAdded
  <2>1. None \in Entries
    BY <1>b
  <2> QED  BY <1>4, <1>2, <1>z, <2>1 DEF OtherAdded
<1>5. CASE FiredAgain
  <2>1. firing \in Msgs /\ Later(firing)
    BY <1>5, <1>a DEF AllLater, FiredAgain, RoutingTypeOK
  <2>2. deadline'[firing] > 0
    BY <1>a, <2>1, Lasting DEF Later
  <2>3. \A n \in Entries : P(n, firing)
    BY <2>2 DEF P
  <2> QED  BY <1>5, <1>2, <1>b, <2>1, <2>3 DEF FiredAgain
<1>6. CASE Served
  <2>1. /\ Head(lane) \in Entries /\ Head(lane) = lane[1] /\ 1 \in 1 .. Len(lane)
        /\ Len(lane') = Len(lane) - 1
        /\ \A i \in 1 .. Len(lane') : i + 1 \in 1 .. Len(lane) /\ lane'[i] = lane[i + 1]
        /\ out' = out
    BY <1>6, <1>b, TailKeeps DEF Served
  <2>2. \A i, j \in 1 .. Len(lane') : i < j => P(lane'[i], lane'[j])
    <3> TAKE i, j \in 1 .. Len(lane')
    <3> HAVE i < j
    <3>1. i + 1 \in 1 .. Len(lane) /\ j + 1 \in 1 .. Len(lane) /\ i + 1 < j + 1
      BY <2>1
    <3> QED  BY <1>o, <2>1, <3>1
  <2>3. \A j \in 1 .. Len(lane') :
          /\ P(lane[1], lane'[j]) /\ P(offered, lane'[j])
          /\ \A i \in 1 .. Len(out) : P(out[i], lane'[j])
    <3> TAKE j \in 1 .. Len(lane')
    <3>1. j + 1 \in 1 .. Len(lane) /\ 1 < j + 1 /\ lane'[j] = lane[j + 1]
      BY <2>1
    <3> QED  BY <1>o, <2>1, <3>1
  <2>4. offered' = offered \/ offered' = lane[1]
    BY <1>6, <2>1 DEF Served
  <2>5. \A i \in 1 .. Len(out) : P(out[i], lane[1]) /\ P(out[i], offered)
    BY <1>o, <2>1
  <2> QED  BY <1>o, <2>1, <2>2, <2>3, <2>4, <2>5
<1>7. CASE Accepted
  <2> DEFINE ot == Append(out, offered)
  <2>1. offered \in Msgs /\ offered' = None /\ lane' = lane
    BY <1>7, <1>b DEF Accepted
  <2>2. /\ Len(ot) = Len(out) + 1 /\ ot[Len(out) + 1] = offered
        /\ \A i \in 1 .. Len(out) : ot[i] = out[i]
    BY <1>b, <2>1, AppendKeeps
  <2>3. out' = ot
    BY <1>7 DEF Accepted
  <2> HIDE DEF ot
  <2>4. \A j \in 1 .. Len(ot) : j \in 1 .. Len(out) \/ j = Len(out) + 1
    BY <1>l, <2>2
  <2>5. \A i, j \in 1 .. Len(ot) : i < j => i \in 1 .. Len(out)
    BY <1>l, <2>2
  <2>6. \A i, j \in 1 .. Len(ot) : i < j => P(ot[i], ot[j])
    BY <1>o, <2>2, <2>4, <2>5
  <2>7. \A i \in 1 .. Len(ot), j \in 1 .. Len(lane) : P(ot[i], lane[j])
    BY <1>o, <2>2, <2>4
  <2>8. \A i \in 1 .. Len(ot) : ot[i] \in Entries
    BY <1>b, <1>m, <2>2, <2>4
  <2>9. /\ \A i \in 1 .. Len(ot) : P(ot[i], None)
        /\ \A j \in 1 .. Len(lane) : P(None, lane[j])
    BY <1>m, <1>z, <2>8
  <2> QED  BY <1>o, <2>1, <2>3, <2>6, <2>7, <2>9
<1>8. CASE LetGo
  <2>1. /\ \A i \in 1 .. Len(out) : P(out[i], None)
        /\ \A j \in 1 .. Len(lane) : P(None, lane[j])
    BY <1>m, <1>z
  <2> QED  BY <1>8, <1>o, <2>1 DEF LetGo
<1> QED
  BY <1>1, <1>3, <1>4, <1>5, <1>6, <1>7, <1>8, <1>a, LaneSteps

LEMMA OnTimeStep == RoutingInv /\ [RoutingNext]_allVars => OnTime'
<1> SUFFICES ASSUME RoutingInv, [RoutingNext]_allVars PROVE OnTime'
  OBVIOUS
<1>a. RoutingTypeOK /\ Queued /\ OnTime
  BY DEF RoutingInv
<1>b. /\ lane \in Seq(Entries) /\ out \in Seq(Msgs) /\ Entries = Msgs \cup {None}
      /\ offered \in Entries /\ next \in Nat /\ Soon \in Nat
      /\ now \in Nat /\ now' \in Nat /\ now <= now'
      /\ \A m \in Msgs : deadline[m] \in Nat
  <2>1. \A m \in Msgs : deadline[m] \in Nat
    BY <1>a, RoutingAssumption DEF RoutingTypeOK
  <2>2. lane \in Seq(Entries) /\ out \in Seq(Msgs) /\ offered \in Entries
        /\ Entries = Msgs \cup {None} /\ Soon \in Nat
    BY <1>a, RoutingAssumption DEF RoutingTypeOK, Entries
  <2> QED  BY <1>a, <2>1, <2>2, NumbersStep
<1>d. ASSUME NEW m \in Msgs, m < next, deadline[m] <= now + Soon
      PROVE  deadline'[m] <= now' + Soon
  <2>1. deadline'[m] = deadline[m]
    BY <1>a, <1>d, NumbersStep
  <2> QED  BY <1>b, <1>d, <2>1
<1>o. \A i \in 1 .. Len(out) : deadline'[out[i]] <= now' + Soon
  <2> TAKE i \in 1 .. Len(out)
  <2>1. out[i] \in Msgs /\ out[i] < next /\ deadline[out[i]] <= now + Soon
    BY <1>a, <1>b, Elements DEF Queued, OnTime
  <2> QED  BY <1>d, <2>1
<1>f. offered # None => deadline'[offered] <= now' + Soon
  BY <1>a, <1>b, <1>d DEF Queued, OnTime
<1>1. CASE UNCHANGED out /\ (UNCHANGED offered \/ offered' = None)
  BY <1>1, <1>o, <1>f DEF OnTime
<1>2. CASE Served
  <2>1. CASE UNCHANGED offered
    BY <1>1, <1>2, <2>1 DEF Served
  <2>2. CASE offered' = Head(lane) /\ Head(lane) # None /\ ~Distant(Head(lane))
    <3>1. Head(lane) \in Entries /\ Head(lane) = lane[1] /\ 1 \in 1 .. Len(lane)
      BY <1>2, <1>b, TailKeeps DEF Served
    <3>2. Head(lane) \in Msgs /\ Head(lane) < next
      BY <1>a, <1>b, <2>2, <3>1 DEF Queued
    <3>3. deadline[Head(lane)] <= now + Soon
      BY <1>b, <2>2, <3>2 DEF Distant
    <3>4. deadline'[offered'] <= now' + Soon
      BY <1>d, <2>2, <3>2, <3>3
    <3> QED  BY <1>2, <1>o, <3>4 DEF Served, OnTime
  <2> QED  BY <1>2, <2>1, <2>2 DEF Served
<1>3. CASE Accepted
  <2> DEFINE ot == Append(out, offered)
  <2>1. offered \in Msgs /\ offered # None
    BY <1>3, <1>b DEF Accepted
  <2>2. /\ Len(ot) = Len(out) + 1 /\ ot[Len(out) + 1] = offered
        /\ \A i \in 1 .. Len(out) : ot[i] = out[i]
    BY <1>b, <2>1, AppendKeeps
  <2>3. \A i \in 1 .. Len(ot) : i \in 1 .. Len(out) \/ i = Len(out) + 1
    BY <1>b, <2>2
  <2>4. \A i \in 1 .. Len(ot) : deadline'[ot[i]] <= now' + Soon
    BY <1>o, <1>f, <2>1, <2>2, <2>3
  <2> HIDE DEF ot
  <2>5. out' = ot /\ offered' = None
    BY <1>3 DEF ot, Accepted
  <2> QED  BY <2>4, <2>5 DEF OnTime
<1> QED
  BY <1>1, <1>2, <1>3, <1>a, LaneSteps DEF LaneKept, NumberAdded, OtherAdded, FiredAgain, LetGo
-----------------------------------------------------------------------------
(* RoutingInv is inductive. *)
LEMMA RoutingStep == RoutingInv /\ [RoutingNext]_allVars => RoutingInv'
  BY TypesStep, QueuedStep, AllLaterStep, InOrderStep, OnTimeStep DEF RoutingInv

LEMMA RoutingInvariant == RoutingSpec => []RoutingInv
  BY RoutingStart, RoutingStep, PTL DEF RoutingSpec

(* Every variable of the routing keeps its type, whatever the capacities:  *)
(* neither the lane nor the delay channel nor the TX channel exceeds its   *)
(* capacity.                                                               *)
THEOREM RoutingTypes == RoutingSpec => []RoutingTypeOK
<1>1. RoutingInv => RoutingTypeOK
  BY DEF RoutingInv
<1> QED  BY <1>1, RoutingInvariant, PTL

(* A scheduled message reaches the connection at most the threshold of     *)
(* 500 us before its time, on whichever of its two passes through the lane *)
(* and however long the engine waits in between (engine_task.rs:425-433,   *)
(* delay_queue_task.rs).                                                   *)
THEOREM NotEarly == RoutingSpec => []NotAheadOfTime
<1>1. RoutingInv => NotAheadOfTime
  <2> SUFFICES ASSUME RoutingInv, NEW m \in ToSet(out) PROVE deadline[m] <= now + Soon
    BY DEF NotAheadOfTime
  <2>1. out \in Seq(Msgs)
    BY DEF RoutingInv, RoutingTypeOK
  <2>2. PICK i \in 1 .. Len(out) : m = out[i]
    BY <2>1 DEF ToSet
  <2> QED  BY <2>2 DEF RoutingInv, OnTime
<1> QED  BY <1>1, RoutingInvariant, PTL

(* A message to be sent at once is overtaken by none that was queued after *)
(* it, in the lane or in any wait of the engine (engine_task.rs:415-435).  *)
THEOREM ImmediateOrder == RoutingSpec => []ImmediateInOrder
<1>1. RoutingInv => ImmediateInOrder
  <2> SUFFICES ASSUME RoutingInv, NEW i \in 1 .. Len(out), NEW j \in 1 .. Len(out),
                      i < j, out[i] > out[j]
               PROVE  deadline[out[j]] > 0
    BY DEF ImmediateInOrder
  <2>1. None \notin Msgs
    BY RoutingAssumption DEF Msgs, None
  <2>2. out \in Seq(Msgs)
    BY DEF RoutingInv, RoutingTypeOK
  <2>3. out[j] \in Msgs
    BY <2>2, Elements
  <2> QED  BY <2>1, <2>3 DEF RoutingInv, InOrder, After
<1> QED  BY <1>1, RoutingInvariant, PTL
-----------------------------------------------------------------------------
(* How often a message is in a sequence, and in a set. *)
Places(s, m) == {i \in 1 .. Len(s) : s[i] = m}
Times(s, m)  == Cardinality(Places(s, m))
Once(S, m)   == Cardinality(S \cap {m})
One(test)    == IF test THEN 1 ELSE 0

LEMMA PlacesFinite ==
  ASSUME NEW S, NEW s \in Seq(S), NEW m
  PROVE  IsFiniteSet(Places(s, m)) /\ Times(s, m) \in Nat
<1>1. Len(s) \in Nat
  OBVIOUS
<1>2. IsFiniteSet(1 .. Len(s))
  BY <1>1, FS_Interval
<1>3. IsFiniteSet(Places(s, m))
  BY <1>2, FS_Subset DEF Places
<1> QED BY <1>3, FS_CardinalityType DEF Times

LEMMA OnceIs ==
  ASSUME NEW S, NEW m
  PROVE  Once(S, m) = One(m \in S)
<1>1. CASE m \in S
  <2>1. S \cap {m} = {m}
    BY <1>1
  <2> QED BY <1>1, <2>1, FS_Singleton DEF Once, One
<1>2. CASE m \notin S
  <2>1. S \cap {m} = {}
    BY <1>2
  <2> QED BY <1>2, <2>1, FS_EmptySet DEF Once, One
<1> QED BY <1>1, <1>2

LEMMA TimesAppended ==
  ASSUME NEW S, NEW s \in Seq(S), NEW e \in S, NEW m
  PROVE  Times(Append(s, e), m) = Times(s, m) + One(e = m)
<1>1. /\ Len(s) \in Nat /\ Len(Append(s, e)) = Len(s) + 1
      /\ Append(s, e)[Len(s) + 1] = e /\ \A i \in 1 .. Len(s) : Append(s, e)[i] = s[i]
  OBVIOUS
<1>2. Places(Append(s, e), m) = Places(s, m) \cup (IF e = m THEN {Len(s) + 1} ELSE {})
  BY <1>1 DEF Places
<1>3. Len(s) + 1 \notin Places(s, m)
  BY <1>1 DEF Places
<1>4. IsFiniteSet(Places(s, m)) /\ Times(s, m) \in Nat
  BY PlacesFinite
<1>5. CASE e = m
  BY <1>2, <1>3, <1>4, <1>5, FS_AddElement DEF Times, One
<1>6. CASE e # m
  BY <1>2, <1>4, <1>6 DEF Times, One
<1> QED BY <1>5, <1>6

LEMMA TimesTail ==
  ASSUME NEW S, NEW s \in Seq(S), s # <<>>, NEW m
  PROVE  Times(s, m) = Times(Tail(s), m) + One(Head(s) = m)
<1>1. /\ Len(s) \in Nat /\ Len(s) > 0 /\ Tail(s) \in Seq(S) /\ Len(Tail(s)) = Len(s) - 1
      /\ Head(s) = s[1] /\ \A i \in 1 .. Len(s) - 1 : Tail(s)[i] = s[i + 1]
  OBVIOUS
<1> DEFINE P == Places(Tail(s), m)
           Q == Places(s, m) \ {1}
           f == [i \in P |-> i + 1]
<1>2. f \in Bijection(P, Q)
  <2>1. f \in [P -> Q]
    BY <1>1 DEF Places
  <2>2. \A i, j \in P : f[i] = f[j] => i = j
    BY <1>1 DEF Places
  <2>3. ASSUME NEW q \in Q PROVE \E i \in P : f[i] = q
    <3>1. q - 1 \in P
      BY <1>1 DEF Places
    <3>2. f[q - 1] = q
      BY <3>1 DEF Places
    <3> QED BY <3>1, <3>2
  <2> HIDE DEF f, P, Q
  <2> QED BY <2>1, <2>2, <2>3, Fun_IsBij
<1>3. IsFiniteSet(P) /\ IsFiniteSet(Places(s, m)) /\ Times(s, m) \in Nat
  BY <1>1, PlacesFinite
<1>4. Cardinality(Q) = Cardinality(P) /\ IsFiniteSet(Q)
  <2> HIDE DEF P, Q, f
  <2> QED BY <1>2, <1>3, FS_Bijection DEF ExistsBijection
<1>5. 1 \in Places(s, m) <=> Head(s) = m
  BY <1>1 DEF Places
<1>6. CASE Head(s) = m
  <2>1. Cardinality(Q) = Cardinality(Places(s, m)) - 1
    BY <1>3, <1>5, <1>6, FS_RemoveElement
  <2>2. One(Head(s) = m) = 1
    BY <1>6 DEF One
  <2> HIDE DEF P, Q
  <2>3. Times(s, m) = Cardinality(Places(s, m)) /\ Times(Tail(s), m) = Cardinality(P)
    BY DEF Times, P
  <2> QED BY <1>3, <1>4, <2>1, <2>2, <2>3
<1>7. CASE Head(s) # m
  <2>1. Q = Places(s, m)
    BY <1>5, <1>7
  <2>2. One(Head(s) = m) = 0
    BY <1>7 DEF One
  <2> HIDE DEF P, Q
  <2>3. Times(s, m) = Cardinality(Places(s, m)) /\ Times(Tail(s), m) = Cardinality(P)
    BY DEF Times, P
  <2> QED BY <1>3, <1>4, <2>1, <2>2, <2>3
<1> QED BY <1>6, <1>7
-----------------------------------------------------------------------------
(* How many copies of a message there are. *)
Copies(m) ==
  Times(lane, m) + Times(delayq, m) + Times(out, m)
    + Once({held}, m) + Once({offered}, m) + Once({firing}, m) + Once(heap, m)
    + Once(dropped, m) + Once(discarded, m)

OneEach == \A m \in Msgs : Copies(m) = One(m < next)

LEMMA OneIsNat == ASSUME NEW test PROVE One(test) \in {0, 1}
  BY DEF One

LEMMA CopiesAre ==
  ASSUME RoutingTypeOK, NEW m \in Msgs
  PROVE  /\ Times(lane, m) \in Nat /\ Times(delayq, m) \in Nat /\ Times(out, m) \in Nat
         /\ Copies(m) = Times(lane, m) + Times(delayq, m) + Times(out, m)
                          + One(held = m) + One(offered = m) + One(firing = m)
                          + One(m \in heap) + One(m \in dropped) + One(m \in discarded)
<1>1. lane \in Seq(Entries) /\ delayq \in Seq(Msgs) /\ out \in Seq(Msgs)
  BY DEF RoutingTypeOK, Entries
<1>2. Times(lane, m) \in Nat /\ Times(delayq, m) \in Nat /\ Times(out, m) \in Nat
  BY <1>1, PlacesFinite
<1>3. /\ Once({held}, m) = One(m \in {held}) /\ Once({offered}, m) = One(m \in {offered})
      /\ Once({firing}, m) = One(m \in {firing}) /\ Once(heap, m) = One(m \in heap)
      /\ Once(dropped, m) = One(m \in dropped) /\ Once(discarded, m) = One(m \in discarded)
  BY OnceIs
<1>4. \A x : One(m \in {x}) = One(x = m)
  BY DEF One
<1> QED  BY <1>2, <1>3, <1>4 DEF Copies

(* The variables that Copies counts in, and next. *)
placeVars == <<next, lane, delayq, out, held, offered, firing, heap, dropped, discarded>>

LEMMA CopiesStep ==
  ASSUME RoutingTypeOK, RoutingTypeOK', [RoutingNext]_allVars, OneEach
  PROVE  OneEach'
<1> SUFFICES ASSUME NEW m \in Msgs PROVE Copies(m)' = One(m < next')
  BY DEF OneEach
<1> USE DEF taskVars, delayVars, txVars, endVars
<1>1. /\ Times(lane, m) \in Nat /\ Times(delayq, m) \in Nat /\ Times(out, m) \in Nat
      /\ Copies(m) = Times(lane, m) + Times(delayq, m) + Times(out, m)
                       + One(held = m) + One(offered = m) + One(firing = m)
                       + One(m \in heap) + One(m \in dropped) + One(m \in discarded)
      /\ Copies(m) = One(m < next)
  BY CopiesAre DEF OneEach
<1>2. /\ Times(lane', m) \in Nat /\ Times(delayq', m) \in Nat /\ Times(out', m) \in Nat
      /\ Copies(m)' = Times(lane', m) + Times(delayq', m) + Times(out', m)
                        + One(held' = m) + One(offered' = m) + One(firing' = m)
                        + One(m \in heap') + One(m \in dropped') + One(m \in discarded')
  <2>1. lane' \in Seq(Entries) /\ delayq' \in Seq(Msgs) /\ out' \in Seq(Msgs)
    BY DEF RoutingTypeOK, Entries
  <2>2. Times(lane', m) \in Nat /\ Times(delayq', m) \in Nat /\ Times(out', m) \in Nat
    BY <2>1, PlacesFinite
  <2>3. /\ Once({held'}, m) = One(m \in {held'}) /\ Once({offered'}, m) = One(m \in {offered'})
        /\ Once({firing'}, m) = One(m \in {firing'}) /\ Once(heap', m) = One(m \in heap')
        /\ Once(dropped', m) = One(m \in dropped')
        /\ Once(discarded', m) = One(m \in discarded')
    BY OnceIs
  <2>4. \A x : One(m \in {x}) = One(x = m)
    BY DEF One
  <2>5. Copies(m)' = Times(lane', m) + Times(delayq', m) + Times(out', m)
                       + Once({held'}, m) + Once({offered'}, m) + Once({firing'}, m)
                       + Once(heap', m) + Once(dropped', m) + Once(discarded', m)
    BY DEF Copies, Times, Places, Once
  <2> QED  BY <2>2, <2>3, <2>4, <2>5
<1>3. /\ lane \in Seq(Entries) /\ delayq \in Seq(Msgs) /\ out \in Seq(Msgs)
      /\ next \in Nat /\ m \in Nat /\ m # None /\ Msgs \subseteq Entries
      /\ None \in Entries
  BY RoutingAssumption DEF RoutingTypeOK, Msgs, None, Entries
<1>n. /\ One(held = m) \in {0, 1} /\ One(offered = m) \in {0, 1} /\ One(firing = m) \in {0, 1}
      /\ One(m \in heap) \in {0, 1} /\ One(m \in dropped) \in {0, 1}
      /\ One(m \in discarded) \in {0, 1}
      /\ One(None = m) = 0 /\ One(m < next) \in {0, 1}
  BY <1>3, OneIsNat DEF One
<1>4. ASSUME NEW e \in Entries, Queue(e) PROVE Times(lane', m) = Times(lane, m) + One(e = m)
  BY <1>3, <1>4, TimesAppended DEF Queue
<1>5. ASSUME NEW at \in SendTimes, Send(at) \/ QueueOwn(at) PROVE Copies(m)' = One(m < next')
  <2>1. New(at) /\ UNCHANGED <<delayq, out, held, offered, firing, heap, dropped, discarded>>
    BY <1>5, Zenon DEF Send, QueueOwn
  <2>2. next \in Entries /\ Queue(next) /\ next' = next + 1
    BY <1>3, <2>1, NewKeeps
  <2>3. Times(lane', m) = Times(lane, m) + One(next = m)
    BY <1>4, <2>2
  <2>4. One(m < next') = One(m < next) + One(next = m)
    BY <1>3, <2>2 DEF One
  <2>5. One(next = m) \in {0, 1}
    BY OneIsNat
  <2>6. Copies(m)' = Copies(m) + One(next = m)
    BY <1>1, <1>2, <1>n, <2>1, <2>3, <2>5
  <2> QED  BY <1>1, <2>4, <2>6
<1>6. CASE OtherEntry
  <2>1. /\ Queue(None)
        /\ UNCHANGED <<next, delayq, out, held, offered, firing, heap, dropped, discarded>>
    BY <1>6, Zenon DEF OtherEntry
  <2>2. Times(lane', m) = Times(lane, m)
    BY <1>1, <1>3, <1>4, <1>n, <2>1
  <2> QED  BY <1>1, <1>2, <2>1, <2>2
<1>7. CASE ServeOther
  <2>1. /\ lane # <<>> /\ Head(lane) = None /\ lane' = Tail(lane)
        /\ UNCHANGED <<next, delayq, out, held, offered, firing, heap, dropped, discarded>>
    BY <1>7, Zenon DEF ServeOther
  <2>2. Times(lane, m) = Times(lane', m) + One(None = m)
    BY <1>3, <2>1, TimesTail
  <2>3. Times(lane', m) = Times(lane, m)
    BY <1>2, <1>n, <2>2
  <2> QED  BY <1>1, <1>2, <2>1, <2>3
<1>8. CASE ServeMessage
  <2> DEFINE h == Head(lane)
  <2>1. /\ lane # <<>> /\ lane' = Tail(lane) /\ held = None /\ offered = None
        /\ UNCHANGED <<next, delayq, out, firing, heap, discarded>>
    BY <1>8, Zenon DEF ServeMessage, EngineFree, Idle
  <2>2. Times(lane, m) = Times(lane', m) + One(h = m)
    BY <1>3, <2>1, TimesTail
  <2>3. \/ held' = h /\ UNCHANGED <<offered, dropped>>
        \/ offered' = h /\ UNCHANGED <<held, dropped>>
        \/ dropped' = dropped \cup {h} /\ UNCHANGED <<held, offered>>
    BY <1>8, Zenon DEF ServeMessage, Route
  <2> HIDE DEF h
  <2>4. One(h = m) \in {0, 1} /\ One(held = m) = 0 /\ One(offered = m) = 0
    BY <1>n, <2>1, OneIsNat
  <2>5. CASE held' = h /\ UNCHANGED <<offered, dropped>>
    BY <1>1, <1>2, <1>n, <2>1, <2>2, <2>4, <2>5
  <2>6. CASE offered' = h /\ UNCHANGED <<held, dropped>>
    BY <1>1, <1>2, <1>n, <2>1, <2>2, <2>4, <2>6
  <2>7. CASE dropped' = dropped \cup {h} /\ UNCHANGED <<held, offered>>
    <3>1. One(h = m) + One(m \in dropped) \in {0, 1}
      BY <1>1, <1>2, <1>n, <2>2, <2>4
    <3>2. One(m \in dropped') = One(m \in dropped) + One(h = m)
      BY <2>7, <3>1 DEF One
    <3> QED  BY <1>1, <1>2, <1>n, <2>1, <2>2, <2>4, <2>7, <3>2
  <2> QED  BY <2>3, <2>5, <2>6, <2>7
<1>9. CASE HandOver
  <2>1. /\ held # None /\ delayq' = Append(delayq, held) /\ held' = None
        /\ UNCHANGED <<next, lane, out, offered, firing, heap, dropped, discarded>>
    BY <1>9, Zenon DEF HandOver
  <2>2. held \in Msgs
    BY <2>1 DEF RoutingTypeOK
  <2>3. Times(delayq', m) = Times(delayq, m) + One(held = m)
    BY <1>3, <2>1, <2>2, TimesAppended
  <2>4. One(held' = m) = 0
    BY <1>n, <2>1
  <2> QED  BY <1>1, <1>2, <1>n, <2>1, <2>3, <2>4
<1>10. CASE Forward
  <2>1. /\ offered # None /\ out' = Append(out, offered) /\ offered' = None
        /\ UNCHANGED <<next, lane, delayq, held, firing, heap, dropped, discarded>>
    BY <1>10, Zenon DEF Forward
  <2>2. offered \in Msgs
    BY <2>1 DEF RoutingTypeOK
  <2>3. Times(out', m) = Times(out, m) + One(offered = m)
    BY <1>3, <2>1, <2>2, TimesAppended
  <2>4. One(offered' = m) = 0
    BY <1>n, <2>1
  <2> QED  BY <1>1, <1>2, <1>n, <2>1, <2>3, <2>4
<1>11. CASE Discard
  <2>1. /\ offered # None /\ discarded' = discarded \cup {offered} /\ offered' = None
        /\ UNCHANGED <<next, lane, delayq, out, held, firing, heap, dropped>>
    BY <1>11, Zenon DEF Discard
  <2>2. One(offered = m) + One(m \in discarded) \in {0, 1}
    BY <1>1, <1>n
  <2>3. One(m \in discarded') = One(m \in discarded) + One(offered = m)
    BY <2>1, <2>2 DEF One
  <2>4. One(offered' = m) = 0
    BY <1>n, <2>1
  <2> QED  BY <1>1, <1>2, <1>n, <2>1, <2>3, <2>4
<1>12. CASE Pop
  <2>1. PICK e \in heap : heap' = heap \ {e} /\ firing' = e
    BY <1>12 DEF Pop, Ready
  <2>2. /\ firing = None
        /\ UNCHANGED <<next, lane, delayq, out, held, offered, dropped, discarded>>
    BY <1>12, Zenon DEF Pop
  <2>3. One(firing = m) = 0
    BY <1>n, <2>2
  <2>4. One(m \in heap) = One(m \in heap') + One(firing' = m)
    BY <2>1 DEF One
  <2>5. One(m \in heap') \in {0, 1} /\ One(firing' = m) \in {0, 1}
    BY OneIsNat
  <2> QED  BY <1>1, <1>2, <1>n, <2>2, <2>3, <2>4, <2>5
<1>13. CASE Collect
  <2> DEFINE h == Head(delayq)
  <2>1. /\ delayq # <<>> /\ delayq' = Tail(delayq) /\ heap' = heap \cup {h}
        /\ UNCHANGED <<next, lane, out, held, offered, firing, dropped, discarded>>
    BY <1>13, Zenon DEF Collect
  <2>2. Times(delayq, m) = Times(delayq', m) + One(h = m)
    BY <1>3, <2>1, TimesTail
  <2> HIDE DEF h
  <2>3. One(h = m) \in {0, 1}
    BY OneIsNat
  <2>4. One(h = m) + One(m \in heap) \in {0, 1}
    BY <1>1, <1>2, <1>n, <2>2, <2>3
  <2>5. One(m \in heap') = One(m \in heap) + One(h = m)
    BY <2>1, <2>4 DEF One
  <2> QED  BY <1>1, <1>2, <1>n, <2>1, <2>2, <2>3, <2>5
<1>14. CASE Fire
  <2>1. /\ firing # None /\ firing' = None /\ Queue(firing)
        /\ UNCHANGED <<next, delayq, out, held, offered, heap, dropped, discarded>>
    BY <1>14, Zenon DEF Fire
  <2>2. firing \in Entries
    BY <1>3, <2>1 DEF RoutingTypeOK
  <2>3. Times(lane', m) = Times(lane, m) + One(firing = m)
    BY <1>4, <2>1, <2>2
  <2>4. One(firing' = m) = 0
    BY <1>n, <2>1
  <2> QED  BY <1>1, <1>2, <1>n, <2>1, <2>3, <2>4
<1>15. CASE UNCHANGED placeVars
  BY <1>1, <1>2, <1>15 DEF placeVars
<1>16. EngineCalls \/ QueueOwnBound \/ Responded => UNCHANGED placeVars
  BY Zenon DEF EngineCalls, QueueOwnBound, Responded, placeVars
<1>17. Tick \/ Take \/ TaskEnds \/ ControlStep \/ UNCHANGED allVars => UNCHANGED placeVars
  BY Zenon DEF Tick, Take, TaskEnds, ControlStep, allVars, routingVars, placeVars
<1> QED
  BY <1>5, <1>6, <1>7, <1>8, <1>9, <1>10, <1>11, <1>12, <1>13, <1>14, <1>15, <1>16, <1>17,
     RepeatIsSend, Zenon DEF RoutingNext

(* Every queued message is in exactly one place, for all capacities and    *)
(* any number of messages, on both passes through the lane, in every wait  *)
(* of the engine and through any Stop and Start: none is sent twice, and   *)
(* one that is not sent was refused with a warning because no session      *)
(* runs, or let go because there is no such connection or its task has     *)
(* ended (engine_task.rs:415-435, delay_queue_task.rs).                    *)
THEOREM EachInOnePlaceHolds == RoutingSpec => []EachInOnePlace
<1>1. RoutingInit => OneEach
  <2> SUFFICES ASSUME RoutingInit, NEW m \in Msgs PROVE Copies(m) = One(m < next)
    BY DEF OneEach
  <2>1. RoutingTypeOK
    BY RoutingStart DEF RoutingInv
  <2>2. Places(<<>>, m) = {}
    BY DEF Places
  <2>3. Times(lane, m) = 0 /\ Times(delayq, m) = 0 /\ Times(out, m) = 0
    BY <2>2, FS_EmptySet DEF Times, RoutingInit
  <2>4. m # None /\ ~(m < 1)
    BY DEF Msgs, None
  <2>5. /\ held = None /\ offered = None /\ firing = None
        /\ heap = {} /\ dropped = {} /\ discarded = {} /\ next = 1
    BY DEF RoutingInit
  <2>6. /\ One(held = m) = 0 /\ One(offered = m) = 0 /\ One(firing = m) = 0
        /\ One(m \in heap) = 0 /\ One(m \in dropped) = 0 /\ One(m \in discarded) = 0
        /\ One(m < next) = 0
    BY <2>4, <2>5 DEF One
  <2> QED  BY <2>1, <2>3, <2>6, CopiesAre
<1>2. OneEach /\ RoutingInv /\ RoutingInv' /\ [RoutingNext]_allVars => OneEach'
  BY CopiesStep DEF RoutingInv
<1>3. OneEach => EachInOnePlace
  BY DEF OneEach, EachInOnePlace, Copies, Times, Places, Once, One
<1> QED  BY <1>1, <1>2, <1>3, RoutingInvariant, PTL DEF RoutingSpec
-----------------------------------------------------------------------------
(* The timer of the delay that waits is either still running, or it has    *)
(* expired at the delay's end and nobody has consumed that.                *)
Running == armed = until /\ ~expired
Expired == armed = 0 /\ expired /\ clock >= until

OffLinux ==
  /\ ~edge /\ ~ready /\ stage \notin {"guard", "clear"}
  /\ stage = "wait" /\ registered => Running \/ Expired
  /\ registered => stage = "wait" /\ platform = "windows"
  /\ stage = "fired" => clock >= until

OnLinux ==
  /\ ~registered /\ stage # "fired"
  /\ stage \in {"idle", "sleep"} => armed = 0 /\ ~expired /\ ~edge /\ ~ready
  /\ stage = "wait" => (Running /\ ~edge /\ ~ready) \/ (Expired /\ (edge <=> ~ready))
  /\ stage = "guard" => Expired /\ ~edge /\ ~fresh
  /\ stage = "clear" => armed = 0 /\ ~expired /\ ~edge /\ ~fresh /\ clock >= until

TimerInv ==
  /\ TimerTypeOK
  /\ platform # "linux" => OffLinux /\ ~early
  /\ platform = "linux" /\ ~left => OnLinux /\ ~early

LEMMA TimerInvInit == TimerInit => TimerInv
<1> SUFFICES ASSUME TimerInit PROVE TimerInv
  OBVIOUS
<1>1. TimerTypeOK
  <2>1. clock \in 0 .. MaxNow /\ armed \in Nat /\ until \in Nat
    BY HighResDelayAssumption DEF HighResDelayAssumption, TimerInit
  <2> QED BY <2>1, Zenon DEF TimerInit, TimerTypeOK
<1>2. OffLinux /\ OnLinux /\ ~early
  BY DEF TimerInit, OffLinux, OnLinux
<1> QED BY <1>1, <1>2 DEF TimerInv

LEMMA TypeStep == TimerTypeOK /\ [TimerNext]_timerVars => TimerTypeOK'
<1> SUFFICES ASSUME TimerTypeOK, [TimerNext]_timerVars PROVE TimerTypeOK'
  OBVIOUS
<1> USE HighResDelayAssumption DEF HighResDelayAssumption, TimerTypeOK
<1>1. ASSUME NEW d \in 1 .. MaxNow, Delay(d) PROVE TimerTypeOK'
  <2>1. CASE SetTimer(d)
    <3>1. registered' \in BOOLEAN
      BY <2>1, Zenon DEF SetTimer
    <3>2. armed' = clock + d /\ expired' = FALSE /\ stage' = "wait"
          /\ UNCHANGED <<edge, ready, fresh>>
      BY <2>1, Zenon DEF SetTimer
    <3>3. UNCHANGED <<platform, clock, left, early>> /\ until' = clock + d
      BY <1>1, Zenon DEF Delay, pastVars
    <3>4. armed' \in Nat /\ until' \in Nat
      BY <3>2, <3>3
    <3> QED BY <3>1, <3>2, <3>3, <3>4, Zenon
  <2>2. CASE stage' = "sleep" /\ UNCHANGED osVars
    BY <1>1, <2>2 DEF Delay, osVars, pastVars
  <2> QED BY <1>1, <2>1, <2>2 DEF Delay
<1>2. CASE Abandon
  <2>1. CASE armed' = 0 /\ expired' = FALSE /\ registered' = FALSE /\ UNCHANGED <<edge, ready, fresh>>
    BY <1>2, <2>1 DEF Abandon
  <2>2. CASE UNCHANGED osVars /\ platform = "other"
    BY <1>2, <2>2 DEF Abandon, osVars
  <2> QED BY <1>2, <2>1, <2>2 DEF Abandon, Disarm
<1>3. CASE WaitFails
  BY <1>3 DEF WaitFails
<1>4. CASE Poll
  BY <1>4 DEF Poll, Readable, Read, ClearReady, Signalled, SleepOver, Return, osVars, pastVars
<1>5. CASE Expire
  BY <1>5 DEF Expire, pastVars
<1>6. CASE Reactor
  BY <1>6 DEF Reactor, pastVars
<1>7. CASE Callback
  BY <1>7 DEF Callback, pastVars
<1>8. CASE Pass
  BY <1>8 DEF Pass, osVars, pastVars
<1>9. CASE UNCHANGED timerVars
  BY <1>9 DEF timerVars, osVars, pastVars
<1> QED BY <1>1, <1>2, <1>3, <1>4, <1>5, <1>6, <1>7, <1>8, <1>9 DEF TimerNext

LEMMA OffLinuxStep ==
  ASSUME TimerInv, [TimerNext]_timerVars, platform' # "linux"
  PROVE  (OffLinux /\ ~early)'
<1> USE HighResDelayAssumption DEF HighResDelayAssumption, TimerInv, TimerTypeOK, OffLinux, Running, Expired
<1>1. ASSUME NEW d \in 1 .. MaxNow, Delay(d) PROVE (OffLinux /\ ~early)'
  <2>1. CASE SetTimer(d)
    BY <1>1, <2>1 DEF Delay, SetTimer, pastVars
  <2>2. CASE stage' = "sleep" /\ UNCHANGED osVars
    BY <1>1, <2>2 DEF Delay, osVars, pastVars
  <2> QED BY <1>1, <2>1, <2>2 DEF Delay
<1>2. CASE Abandon
  <2>1. CASE armed' = 0 /\ expired' = FALSE /\ registered' = FALSE /\ UNCHANGED <<edge, ready, fresh>>
    BY <1>2, <2>1 DEF Abandon
  <2>2. CASE UNCHANGED osVars /\ platform = "other"
    BY <1>2, <2>2 DEF Abandon, osVars
  <2> QED BY <1>2, <2>1, <2>2 DEF Abandon, Disarm
<1>3. CASE WaitFails
  BY <1>3 DEF WaitFails
<1>4. CASE Poll
  BY <1>4 DEF Poll, Readable, Read, ClearReady, Signalled, SleepOver, Return, osVars, pastVars
<1>5. CASE Expire
  BY <1>5 DEF Expire, pastVars
<1>6. CASE Reactor
  BY <1>6 DEF Reactor, pastVars
<1>7. CASE Callback
  BY <1>7 DEF Callback, pastVars
<1>8. CASE Pass
  BY <1>8 DEF Pass, osVars, pastVars
<1>9. CASE UNCHANGED timerVars
  BY <1>9 DEF timerVars, osVars, pastVars
<1> QED BY <1>1, <1>2, <1>3, <1>4, <1>5, <1>6, <1>7, <1>8, <1>9 DEF TimerNext

LEMMA OnLinuxStep ==
  ASSUME TimerInv, [TimerNext]_timerVars, platform' = "linux", ~left'
  PROVE  (OnLinux /\ ~early)'
<1> USE HighResDelayAssumption DEF HighResDelayAssumption, TimerInv, TimerTypeOK, OnLinux, Running, Expired
<1>1. ASSUME NEW d \in 1 .. MaxNow, Delay(d) PROVE (OnLinux /\ ~early)'
  BY <1>1 DEF Delay, SetTimer, osVars, pastVars
<1>2. CASE Abandon
  BY <1>2 DEF Abandon
<1>3. CASE WaitFails
  BY <1>3 DEF WaitFails
<1>4. CASE Poll
  BY <1>4 DEF Poll, Readable, Read, ClearReady, Signalled, SleepOver, Return, osVars, pastVars
<1>5. CASE Expire
  BY <1>5 DEF Expire, pastVars
<1>6. CASE Reactor
  BY <1>6 DEF Reactor, pastVars
<1>7. CASE Callback
  BY <1>7 DEF Callback, pastVars
<1>8. CASE Pass
  BY <1>8 DEF Pass, osVars, pastVars
<1>9. CASE UNCHANGED timerVars
  BY <1>9 DEF timerVars, osVars, pastVars
<1> QED BY <1>1, <1>2, <1>3, <1>4, <1>5, <1>6, <1>7, <1>8, <1>9 DEF TimerNext

LEMMA TimerInvStep == TimerInv /\ [TimerNext]_timerVars => TimerInv'
<1> SUFFICES ASSUME TimerInv, [TimerNext]_timerVars PROVE TimerInv'
  OBVIOUS
<1>1. TimerTypeOK'
  BY TypeStep DEF TimerInv
<1>2. platform' # "linux" => (OffLinux /\ ~early)'
  BY OffLinuxStep
<1>3. platform' = "linux" /\ ~left' => (OnLinux /\ ~early)'
  BY OnLinuxStep
<1> QED BY <1>1, <1>2, <1>3 DEF TimerInv

(* No delay ends early unless, on Linux, a delay was left with its timer   *)
(* set before, whatever the client does with its delays (delay.rs:70-89).  *)
THEOREM EarlyOnlyAfterLeftHolds == TimerSpec => []EarlyOnlyAfterLeft
<1>1. TimerInv => EarlyOnlyAfterLeft
  BY DEF TimerInv, TimerTypeOK, EarlyOnlyAfterLeft
<1> QED BY TimerInvInit, TimerInvStep, <1>1, PTL DEF TimerSpec
-----------------------------------------------------------------------------
(* The batch's next delay is one of its list; a deadline is at most as far *)
(* ahead as a message can be scheduled, also when the wall clock is set.   *)
DelaysInv ==
  /\ clock \in Nat /\ skew \in Nat
  /\ batch \in Seq(0 .. MaxNow) /\ position \in Nat
  /\ progress \in {"next", "delay", "check", "send"} => position \in 1 .. Len(batch)
  /\ wanted \in [Scheduled -> 0 .. MaxNow]
  /\ due \in [Scheduled -> Nat]
  /\ \A m \in Scheduled : due[m] <= clock + MaxNow

LEMMA DelaysInit == TimedInit => DelaysInv
<1> SUFFICES ASSUME TimedInit PROVE DelaysInv
  OBVIOUS
<1>1. clock \in Nat /\ skew \in Nat /\ position \in Nat
  BY TimedTasksAssumption DEF TimedTasksAssumption, TimedInit, TimerInit
<1>2. batch \in Seq(0 .. MaxNow) /\ progress = "head"
  BY TimedTasksAssumption DEF TimedTasksAssumption, TimedInit
<1>3. wanted = [m \in Scheduled |-> 0] /\ due = [m \in Scheduled |-> 0] /\ clock = 0
  BY DEF TimedInit, TimerInit
<1> QED BY <1>1, <1>2, <1>3, HighResDelayAssumption DEF HighResDelayAssumption, DelaysInv

(* Each step of a task is one of a client of the timer, or none of it. *)
LEMMA TimedStepIsTimer == DelaysInv /\ [TimedNext]_timedVars => [TimerNext]_timerVars
<1> SUFFICES ASSUME DelaysInv, [TimedNext]_timedVars PROVE [TimerNext]_timerVars
  OBVIOUS
<1>1. ASSUME NEW m \in Scheduled, NEW t \in 1 .. MaxNow, Schedule(m, t)
      PROVE  [TimerNext]_timerVars
  BY <1>1 DEF Schedule
<1>2. CASE TakeAny
  BY <1>2 DEF TakeAny, TakeIn, TimerNext
<1>3. CASE RouteAny
  BY <1>3 DEF RouteAny, RouteAgain
<1>4. CASE DelayTask
  <2>1. ASSUME WaitForFirst PROVE TimerNext
    <3>1. PICK m \in Scheduled : due[m] > clock /\ Delay(due[m] - clock)
      BY <2>1 DEF WaitForFirst
    <3>2. due[m] - clock \in 1 .. MaxNow
      BY <3>1, HighResDelayAssumption DEF HighResDelayAssumption, DelaysInv
    <3> QED BY <3>1, <3>2 DEF TimerNext
  <2>2. ASSUME NEW m \in Scheduled, PopFirst(m) PROVE UNCHANGED timerVars
    BY <2>2 DEF PopFirst
  <2> QED BY <1>4, <2>1, <2>2 DEF DelayTask
<1>5. CASE BatchTask
  <2>1. ASSUME DelayNext PROVE [TimerNext]_timerVars
    <3>1. batch[position] \in 0 .. MaxNow
      <4>1. batch \in Seq(0 .. MaxNow) /\ position \in 1 .. Len(batch)
        BY <2>1 DEF DelayNext, DelaysInv
      <4> QED BY <4>1, ElementOfSeq
    <3>2. UNCHANGED timerVars \/ (batch[position] \in 1 .. MaxNow /\ Delay(batch[position]))
      BY <2>1, <3>1, HighResDelayAssumption DEF HighResDelayAssumption, DelayNext
    <3> QED BY <3>2 DEF TimerNext
  <2> QED BY <1>5, <2>1 DEF BatchTask, HeadOfLoop, DelayOver, CheckToken, SendNext
<1>6. CASE SetClock
  BY <1>6 DEF SetClock
<1>7. CASE StopBatch
  BY <1>7 DEF StopBatch
<1>8. CASE AbortedAtAwait
  BY <1>8 DEF AbortedAtAwait
<1>9. CASE TimedTimer(Poll \/ WaitFails \/ Expire \/ Reactor \/ Callback \/ Pass)
  BY <1>9 DEF TimedTimer, TimerNext
<1>10. CASE UNCHANGED timedVars
  BY <1>10 DEF timedVars
<1> QED BY <1>1, <1>2, <1>3, <1>4, <1>5, <1>6, <1>7, <1>8, <1>9, <1>10 DEF TimedNext

LEMMA ClockGoesOn ==
  ASSUME [TimerNext]_timerVars, clock \in Nat
  PROVE  clock' \in Nat /\ clock <= clock'
<1>1. clock' = clock \/ clock' = clock + 1
  BY DEF TimerNext, timerVars, Delay, Abandon, WaitFails, Poll, Readable, Read, ClearReady,
         Signalled, SleepOver, Return, Expire, Reactor, Callback, Pass
<1> QED BY <1>1

LEMMA DelaysStep == DelaysInv /\ [TimedNext]_timedVars => DelaysInv'
<1> SUFFICES ASSUME DelaysInv, [TimedNext]_timedVars PROVE DelaysInv'
  OBVIOUS
<1> USE HighResDelayAssumption, TimedTasksAssumption
    DEF HighResDelayAssumption, TimedTasksAssumption, DelaysInv
<1>0. clock' \in Nat /\ clock <= clock'
  BY TimedStepIsTimer, ClockGoesOn
<1>1. ASSUME NEW m \in Scheduled, NEW t \in 1 .. MaxNow, Schedule(m, t) PROVE DelaysInv'
  BY <1>0, <1>1 DEF Schedule, batchVars
<1>2. ASSUME NEW m \in Scheduled, TakeIn(m) PROVE DelaysInv'
  <2>1. Deadline(wanted[m]) \in Nat /\ Deadline(wanted[m]) <= clock + MaxNow
    BY DEF Deadline, Wall
  <2>2. due' = [due EXCEPT ![m] = Deadline(wanted[m])] /\ UNCHANGED <<skew, wanted, batchVars>>
    BY <1>2 DEF TakeIn
  <2> QED BY <1>0, <2>1, <2>2 DEF batchVars
<1>3. CASE RouteAny
  BY <1>0, <1>3 DEF RouteAny, RouteAgain, batchVars
<1>4. CASE DelayTask
  <2>1. CASE WaitForFirst
    BY <1>0, <2>1 DEF WaitForFirst, queueVars, batchVars
  <2>2. ASSUME NEW m \in Scheduled, PopFirst(m) PROVE DelaysInv'
    <3>1. due' = [due EXCEPT ![m] = 0] /\ UNCHANGED <<skew, wanted, batchVars>>
      BY <2>2 DEF PopFirst
    <3> QED BY <1>0, <3>1 DEF batchVars
  <2> QED BY <1>4, <2>1, <2>2 DEF DelayTask
<1>5. CASE BatchTask
  BY <1>0, <1>5 DEF BatchTask, HeadOfLoop, DelayNext, DelayOver, CheckToken, SendNext, queueVars
<1>6. CASE SetClock
  BY <1>0, <1>6 DEF SetClock, batchVars
<1>7. CASE StopBatch
  BY <1>0, <1>7 DEF StopBatch, queueVars
<1>8. CASE AbortedAtAwait
  BY <1>0, <1>8 DEF AbortedAtAwait, queueVars
<1>9. CASE TimedTimer(Poll \/ WaitFails \/ Expire \/ Reactor \/ Callback \/ Pass)
  BY <1>0, <1>9 DEF TimedTimer, queueVars, batchVars
<1>10. CASE UNCHANGED timedVars
  BY <1>0, <1>10 DEF timedVars, queueVars, batchVars
<1> QED BY <1>1, <1>2, <1>3, <1>4, <1>5, <1>6, <1>7, <1>8, <1>9, <1>10 DEF TimedNext, TakeAny

(* The delay task and a repeating batch use their timer as HighResDelay    *)
(* lets any client use it (delay_queue_task.rs:86-104,                     *)
(* repeating_message_task.rs:21-35).                                       *)
THEOREM TimedIsTimer == TimedSpec => TimerSpec
<1>1. TimedInit => TimerInit
  BY DEF TimedInit
<1> QED BY <1>1, DelaysInit, DelaysStep, TimedStepIsTimer, PTL DEF TimedSpec, TimerSpec

(* So neither task's delays end early, unless on Linux after one was left  *)
(* with its timer set (delay.rs:70-89).                                    *)
THEOREM TasksEarlyOnlyAfterLeft == TimedSpec => []EarlyOnlyAfterLeft
BY TimedIsTimer, EarlyOnlyAfterLeftHolds, PTL
-----------------------------------------------------------------------------
(* Once a message left late the task is not between a check and a send: it *)
(* has at most to reach the next one, and the token stays cancelled.       *)
LateInv ==
  /\ late \in {0, 1}
  /\ late = 1 => cancelled /\ progress # "send"

LEMMA LateInvInit == TimedInit => LateInv
<1>1. TimedInit => late = 0
  BY DEF TimedInit
<1>2. late = 0 => LateInv
  BY DEF LateInv
<1> QED BY <1>1, <1>2

(* Steps that leave token, place and count alone. *)
LEMMA LateUnchanged ==
  ASSUME LateInv, cancelled' = cancelled, progress' = progress, late' = late
  PROVE  LateInv'
BY DEF LateInv

LEMMA LateInvStep == LateInv /\ [TimedNext]_timedVars => LateInv'
<1> SUFFICES ASSUME LateInv, [TimedNext]_timedVars PROVE LateInv'
  OBVIOUS
<1>1. ASSUME NEW m \in Scheduled, NEW t \in 1 .. MaxNow, Schedule(m, t) PROVE LateInv'
  BY <1>1, LateUnchanged DEF Schedule, batchVars
<1>2. CASE TakeAny
  BY <1>2, LateUnchanged DEF TakeAny, TakeIn, batchVars
<1>3. CASE RouteAny
  BY <1>3, LateUnchanged DEF RouteAny, RouteAgain, batchVars
<1>4. CASE DelayTask
  BY <1>4, LateUnchanged DEF DelayTask, WaitForFirst, PopFirst, batchVars
<1>5. CASE BatchTask
  <2>1. CASE HeadOfLoop
    BY <2>1 DEF HeadOfLoop, LateInv
  <2>2. CASE DelayNext
    BY <2>2 DEF DelayNext, LateInv
  <2>3. CASE DelayOver
    BY <2>3 DEF DelayOver, LateInv
  <2>4. CASE CheckToken
    BY <2>4 DEF CheckToken, LateInv
  <2>5. CASE SendNext
    <3>1. late = 0
      BY <2>5 DEF SendNext, LateInv
    <3>2. progress' # "send" /\ cancelled' = cancelled
      BY <2>5 DEF SendNext
    <3> QED BY <2>5, <3>1, <3>2 DEF SendNext, LateInv
  <2> QED BY <1>5, <2>1, <2>2, <2>3, <2>4, <2>5 DEF BatchTask
<1>6. CASE SetClock
  BY <1>6, LateUnchanged DEF SetClock, batchVars
<1>7. CASE StopBatch
  <2>1. late' = late /\ progress' = progress
    BY <1>7 DEF StopBatch
  <2>2. cancelled => cancelled'
    BY <1>7, Zenon DEF StopBatch
  <2> QED BY <2>1, <2>2 DEF LateInv
<1>8. CASE AbortedAtAwait
  BY <1>8 DEF AbortedAtAwait, LateInv
<1>9. CASE TimedTimer(Poll \/ WaitFails \/ Expire \/ Reactor \/ Callback \/ Pass)
  BY <1>9, LateUnchanged DEF TimedTimer, batchVars
<1>10. CASE UNCHANGED timedVars
  BY <1>10, LateUnchanged DEF timedVars, batchVars
<1> QED BY <1>1, <1>2, <1>3, <1>4, <1>5, <1>6, <1>7, <1>8, <1>9, <1>10 DEF TimedNext

(* At most one message leaves a batch after its token is cancelled         *)
(* (repeating_message_task.rs:21-35).                                      *)
THEOREM OneAfterCancelHolds == TimedSpec => []OneAfterCancel
<1>1. LateInv => OneAfterCancel
  BY DEF LateInv, OneAfterCancel
<1> QED BY LateInvInit, LateInvStep, <1>1, PTL DEF TimedSpec
=============================================================================
