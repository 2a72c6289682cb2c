-------------------------- MODULE ConnectionProofs --------------------------
(***************************************************************************)
(* Theorems about one connection task in its open environment, for every   *)
(* capacity and every number of messages; and about the data plane, in     *)
(* which the engine task is joined to it.                                  *)
(***************************************************************************)
EXTENDS Dataplane, SequenceTheorems, TLAPS

(* The newest message on the wire is still to be confirmed. *)
Lagging == wire # <<>> /\ confirmed = SubSeq(wire, 1, Len(wire) - 1)

(* The inductive invariant.  ConfirmationsFollowWire alone would allow the *)
(* task to wait in "confirm" with nothing to confirm, and to leave it for  *)
(* "select" with the confirmation missing.                                 *)
Confirming ==
  /\ pc = "confirm" => Lagging
  /\ pc = "aborted" => confirmed = wire \/ Lagging
  /\ pc \notin {"confirm", "aborted"} => confirmed = wire

(* There is a message in hand while one is sent. *)
Sending == pc = "send" => outbox # <<>>

ConnInv == TypeOK /\ OutboxWithinSession /\ Confirming /\ Sending

(* Type correctness in two parts, the flags and the rest. *)
Flags ==
  /\ ctx \in BOOLEAN /\ reconnecting \in BOOLEAN
  /\ awaiting \in BOOLEAN /\ closed \in BOOLEAN

Shape ==
  /\ pc \in Pcs
  /\ backoff \in 1 .. MaxBackoff
  /\ txq \in Seq(Msgs) /\ Len(txq) <= TxCap
  /\ outbox \in Seq(Msgs) /\ Len(outbox) <= MaxOutbox
  /\ next \in 1 .. (MaxMsgs + 1)
  /\ wire \in Seq(Msgs) /\ confirmed \in Seq(Msgs)
  /\ lane \in 0 .. LaneCap

LEMMA TypeParts == TypeOK <=> Flags /\ Shape
  BY Zenon DEF TypeOK, Flags, Shape

LEMMA EnqueueType ==
  ASSUME NEW q \in Seq(Msgs), Len(q) <= MaxOutbox, NEW m \in Msgs
  PROVE  /\ Enqueue(q, m) \in Seq(Msgs)
         /\ Len(Enqueue(q, m)) \in 1 .. MaxOutbox
  BY ConnectionAssumption DEF Enqueue

(* What every outcome of a send has in common.                             *)
LEMMA SendResultEffect ==
  ASSUME Shape, outbox # <<>>, SendResult
  PROVE  /\ pc' \in {"select", "confirm", "top"}
         /\ outbox' \in Seq(Msgs) /\ Len(outbox') <= MaxOutbox
         /\ pc' = "top" => outbox' = <<>>
         /\ wire' \in Seq(Msgs)
         /\ pc' = "confirm" => wire' # <<>> /\ SubSeq(wire', 1, Len(wire') - 1) = wire
         /\ pc' # "confirm" => wire' = wire
<1> USE ConnectionAssumption
<1>0. outbox \in Seq(Msgs) /\ Len(outbox) <= MaxOutbox
  BY DEF Shape
<1>1. /\ Head(outbox) \in Msgs /\ Tail(outbox) \in Seq(Msgs)
      /\ Len(Tail(outbox)) = Len(outbox) - 1
  BY <1>0
<1>2. ASSUME wire' = Append(wire, Head(outbox))
      PROVE  /\ wire' \in Seq(Msgs) /\ wire' # <<>>
             /\ SubSeq(wire', 1, Len(wire') - 1) = wire
  BY <1>1, <1>2 DEF Shape
<1>3. CASE wire' = Append(wire, Head(outbox)) /\ outbox' = Tail(outbox) /\ pc' = "confirm"
  BY <1>0, <1>1, <1>2, <1>3
<1>4. CASE outbox' = outbox /\ pc' = "select" /\ wire' = wire
  BY <1>4 DEF Shape
<1>5. CASE outbox' = Tail(outbox) /\ pc' = "select" /\ wire' = wire
  BY <1>0, <1>1, <1>5 DEF Shape
<1>6. CASE Reconnect
  BY <1>6 DEF Reconnect, Shape
<1> QED
  BY <1>3, <1>4, <1>5, <1>6, Zenon DEF SendResult

(* Type correctness: the outbox never exceeds MAX_OUTBOX_LEN, the channels *)
(* never exceed their capacities, the backoff never its maximum.           *)
LEMMA ShapeStep == Shape /\ Confirming /\ Sending /\ [Next]_vars => Shape'
<1> SUFFICES ASSUME Shape, Confirming, Sending, [Next]_vars PROVE Shape'
  OBVIOUS
<1> USE ConnectionAssumption
<1>0. ASSUME NEW how \in Ended, Exit(how),
             UNCHANGED <<backoff, wire, confirmed, next, lane>>
      PROVE  Shape'
  BY <1>0 DEF Exit, Shape, Pcs, Msgs
<1>1. CASE Task
  <2>1. CASE LeaveAtTop \/ LeaveInBackoff
    BY <1>0, <2>1 DEF LeaveAtTop, LeaveInBackoff, Ended, envVars
  <2>2. CASE BeginAttempt \/ Cancelled \/ AnswerCommand
    BY <2>2 DEF BeginAttempt, Cancelled, AnswerCommand, Shape, Pcs, Session, envVars, chanVars
  <2>3. CASE BackoffElapsed
    BY <2>3 DEF BackoffElapsed, AtMost, Shape, Pcs, envVars, chanVars
  <2>4. CASE Deliver
    BY <2>4 DEF Deliver, DrainOutbox, BeginSend, Shape, Pcs, Session, envVars
  <2>5. CASE SendFresh
    <3>1. <<Head(txq)>> \in Seq(Msgs) /\ Len(<<Head(txq)>>) = 1
      BY <2>5 DEF SendFresh, Shape
    <3> DEFINE q == <<Head(txq)>>
    <3>2. BeginSend(q)
      BY <2>5 DEF SendFresh
    <3>3. q \in Seq(Msgs) /\ Len(q) <= MaxOutbox
      BY <3>1
    <3> HIDE DEF q
    <3> QED
      BY <2>5, <3>2, <3>3 DEF SendFresh, BeginSend, Shape, Pcs, Session, envVars
  <2>6. CASE SendBehindOutbox
    <3>1. Head(txq) \in Msgs
      BY <2>6 DEF SendBehindOutbox, Shape
    <3> DEFINE q == Enqueue(outbox, Head(txq))
    <3>2. q \in Seq(Msgs) /\ Len(q) \in 1 .. MaxOutbox
      BY <3>1, EnqueueType DEF Shape
    <3>3. BeginSend(q)
      BY <2>6 DEF SendBehindOutbox
    <3> HIDE DEF q
    <3> QED
      BY <2>6, <3>2, <3>3 DEF SendBehindOutbox, BeginSend, Shape, Pcs, Session, envVars
  <2>7. CASE RetryTick
    BY <2>7 DEF RetryTick, BeginSend, Shape, Pcs, Session, envVars, chanVars
  <2>8. CASE Confirm
    <3>1. wire # <<>>
      BY <2>8 DEF Confirm, Confirming, Lagging
    <3>2. wire[Len(wire)] \in Msgs
      BY <3>1 DEF Shape
    <3> QED
      BY <2>8, <3>2 DEF Confirm, Shape, Pcs, Session, envVars
  <2> QED
    BY <1>1, <2>1, <2>2, <2>3, <2>4, <2>5, <2>6, <2>7, <2>8, Zenon DEF Task
<1>2. CASE Device
  <2>1. CASE ConfigError \/ Closed
    BY <1>0, <2>1 DEF ConfigError, Closed, Ended, envVars
  <2>2. CASE ConnectRefused \/ Received
    BY <2>2 DEF ConnectRefused, Received, Shape, Pcs, Session, envVars, chanVars
  <2>3. CASE Establish
    BY <2>3 DEF Establish, Shape, Pcs, Session, Msgs, envVars, chanVars
  <2>4. CASE Lost
    BY <2>4 DEF Lost, Reconnect, Shape, Pcs, Msgs, envVars, chanVars
  <2>5. CASE Sent
    BY <2>5, SendResultEffect DEF Sent, Sending, Shape, Pcs, Session, envVars, chanVars
  <2>6. CASE Answered
    BY <2>6 DEF Answered, Shape, Pcs, Session, envVars
  <2> QED
    BY <1>2, <2>1, <2>2, <2>3, <2>4, <2>5, <2>6, Zenon DEF Device
<1>3. CASE Environment
  <2>1. CASE Route
    BY <2>1 DEF Route, Shape, Msgs, taskVars
  <2>2. CASE Abort
    BY <1>0, <2>2 DEF Abort, Ended, envVars
  <2>3. CASE Issue \/ Cancel
    BY <2>3 DEF Issue, Cancel, Shape, taskVars, envVars, chanVars
  <2>4. CASE LaneFill \/ LaneTake
    BY <2>4 DEF LaneFill, LaneTake, Shape, taskVars, envVars
  <2> QED
    BY <1>3, <2>1, <2>2, <2>3, <2>4 DEF Environment
<1>4. CASE UNCHANGED vars
  BY <1>4 DEF vars, taskVars, envVars, chanVars, Shape
<1> QED
  BY <1>1, <1>2, <1>3, <1>4, Zenon DEF Next

LEMMA FlagsStep == Flags /\ [Next]_vars => Flags'
<1> SUFFICES ASSUME Flags, [Next]_vars PROVE Flags'
  OBVIOUS
<1>1. CASE Task
  <2>1. CASE LeaveAtTop \/ LeaveInBackoff \/ BackoffElapsed
    BY <2>1, Zenon DEF LeaveAtTop, LeaveInBackoff, BackoffElapsed, Exit, Flags, envVars, chanVars
  <2>2. CASE BeginAttempt \/ Cancelled \/ AnswerCommand \/ Confirm
    BY <2>2, Zenon DEF BeginAttempt, Cancelled, AnswerCommand, Confirm, Flags, envVars, chanVars
  <2>3. CASE Deliver \/ SendFresh \/ SendBehindOutbox \/ RetryTick
    BY <2>3, Zenon DEF Deliver, DrainOutbox, SendFresh, SendBehindOutbox, RetryTick, BeginSend,
                       Flags, envVars, chanVars
  <2> QED
    BY <1>1, <2>1, <2>2, <2>3, Zenon DEF Task
<1>2. CASE Device
  <2>1. CASE ConnectRefused \/ Establish \/ Received \/ Lost
    BY <2>1, Zenon DEF ConnectRefused, Establish, Received, Lost, Reconnect, Flags, envVars, chanVars
  <2>2. CASE Sent
    BY <2>2, Zenon DEF Sent, SendResult, Reconnect, Flags, envVars, chanVars
  <2>3. CASE ConfigError \/ Answered \/ Closed
    BY <2>3, Zenon DEF ConfigError, Answered, Closed, Exit, Flags, envVars
  <2> QED
    BY <1>2, <2>1, <2>2, <2>3, Zenon DEF Device
<1>3. CASE Environment
  BY <1>3, Zenon DEF Environment, Route, Issue, Cancel, Abort, LaneFill, LaneTake, Exit,
                     Flags, taskVars, envVars, chanVars
<1>4. CASE UNCHANGED vars
  BY <1>4, Zenon DEF vars, taskVars, envVars, chanVars, Flags
<1> QED
  BY <1>1, <1>2, <1>3, <1>4, Zenon DEF Next

(* The confirmations: the task enters "confirm" with one more message on   *)
(* the wire and leaves it with one more confirmation, or is aborted there. *)
LEMMA ConfirmingStep == Shape /\ Confirming /\ Sending /\ [Next]_vars => Confirming'
<1> SUFFICES ASSUME Shape, Confirming, Sending, [Next]_vars PROVE Confirming'
  OBVIOUS
<1> USE ConnectionAssumption
<1>1. CASE Task
  <2>1. CASE LeaveAtTop \/ LeaveInBackoff
    BY <2>1 DEF LeaveAtTop, LeaveInBackoff, Exit, Confirming, Lagging
  <2>2. CASE BeginAttempt \/ Cancelled \/ AnswerCommand \/ BackoffElapsed
    BY <2>2 DEF BeginAttempt, Cancelled, AnswerCommand, BackoffElapsed, Confirming, Lagging
  <2>3. CASE Deliver \/ SendFresh \/ SendBehindOutbox \/ RetryTick
    <3>1. /\ pc' \in {"send", "select"} /\ pc \in {"select", "deliver"}
          /\ UNCHANGED <<wire, confirmed>>
      BY <2>3 DEF Deliver, DrainOutbox, SendFresh, SendBehindOutbox, RetryTick, BeginSend
    <3> QED BY <3>1 DEF Confirming, Lagging
  <2>4. CASE Confirm
    <3>1. Lagging
      BY <2>4 DEF Confirm, Confirming
    <3>2. Append(SubSeq(wire, 1, Len(wire) - 1), wire[Len(wire)]) = wire
      BY <3>1 DEF Lagging, Shape
    <3> QED
      BY <2>4, <3>1, <3>2 DEF Confirm, Confirming, Lagging
  <2> QED
    BY <1>1, <2>1, <2>2, <2>3, <2>4, Zenon DEF Task
<1>2. CASE Device
  <2>1. CASE ConnectRefused \/ Establish \/ Received \/ Lost
    BY <2>1 DEF ConnectRefused, Establish, Received, Lost, Reconnect, Confirming, Lagging
  <2>2. CASE Sent
    BY <2>2, SendResultEffect DEF Sent, Sending, Confirming, Lagging
  <2>3. CASE ConfigError \/ Answered \/ Closed
    BY <2>3 DEF ConfigError, Answered, Closed, Exit, Confirming, Lagging
  <2> QED
    BY <1>2, <2>1, <2>2, <2>3, Zenon DEF Device
<1>3. CASE Environment
  <2>1. CASE Abort
    BY <2>1 DEF Abort, Exit, Ended, Confirming, Lagging
  <2>2. CASE Route \/ Issue \/ Cancel \/ LaneFill \/ LaneTake
    BY <2>2 DEF Route, Issue, Cancel, LaneFill, LaneTake, taskVars, Confirming, Lagging
  <2> QED
    BY <1>3, <2>1, <2>2, Zenon DEF Environment
<1>4. CASE UNCHANGED vars
  BY <1>4 DEF vars, taskVars, Confirming, Lagging
<1> QED
  BY <1>1, <1>2, <1>3, <1>4, Zenon DEF Next

LEMMA OutboxStep ==
  Shape /\ OutboxWithinSession /\ Sending /\ [Next]_vars => OutboxWithinSession' /\ Sending'
<1> SUFFICES ASSUME Shape, OutboxWithinSession, Sending, [Next]_vars
             PROVE  OutboxWithinSession' /\ Sending'
  OBVIOUS
<1> USE ConnectionAssumption DEF OutboxWithinSession, Established, Session, Sending
<1>0. outbox \in Seq(Msgs) /\ txq \in Seq(Msgs)
  BY DEF Shape
<1>1. CASE Task
  <2>1. CASE LeaveAtTop \/ LeaveInBackoff
    BY <2>1 DEF LeaveAtTop, LeaveInBackoff, Exit
  <2>2. CASE BeginAttempt \/ Cancelled \/ AnswerCommand \/ BackoffElapsed \/ Confirm
    BY <2>2 DEF BeginAttempt, Cancelled, AnswerCommand, BackoffElapsed, Confirm
  <2>3. CASE Deliver \/ RetryTick
    BY <2>3 DEF Deliver, DrainOutbox, RetryTick, BeginSend
  <2>4. CASE SendFresh
    BY <2>4 DEF SendFresh, BeginSend
  <2>5. CASE SendBehindOutbox
    <3>0. Head(txq) \in Msgs
      BY <1>0, <2>5 DEF SendBehindOutbox
    <3>1. Len(Enqueue(outbox, Head(txq))) \in 1 .. MaxOutbox
      BY <1>0, <3>0, EnqueueType DEF Shape
    <3>2. outbox' = Enqueue(outbox, Head(txq)) /\ pc' = "send"
      BY <2>5 DEF SendBehindOutbox, BeginSend
    <3> QED BY <3>1, <3>2
  <2> QED
    BY <1>1, <2>1, <2>2, <2>3, <2>4, <2>5, Zenon DEF Task
<1>2. CASE Device
  <2>1. CASE ConnectRefused \/ Establish \/ Received \/ Lost
    BY <2>1 DEF ConnectRefused, Establish, Received, Lost, Reconnect
  <2>2. CASE Sent
    BY <2>2, SendResultEffect DEF Sent
  <2>3. CASE ConfigError \/ Answered \/ Closed
    BY <2>3 DEF ConfigError, Answered, Closed, Exit
  <2> QED
    BY <1>2, <2>1, <2>2, <2>3, Zenon DEF Device
<1>3. CASE Environment
  BY <1>3 DEF Environment, Route, Issue, Cancel, Abort, LaneFill, LaneTake, Exit, taskVars, Ended
<1>4. CASE UNCHANGED vars
  BY <1>4 DEF vars, taskVars
<1> QED
  BY <1>1, <1>2, <1>3, <1>4, Zenon DEF Next

LEMMA ConnInit == Init => ConnInv
<1> SUFFICES ASSUME Init PROVE ConnInv
  OBVIOUS
<1>1. Flags
  BY Zenon DEF Init, Flags
<1>2. Shape
  BY ConnectionAssumption DEF Init, Shape, Pcs, Msgs
<1>3. OutboxWithinSession /\ Confirming /\ Sending
  BY DEF Init, OutboxWithinSession, Confirming, Sending
<1> QED
  BY <1>1, <1>2, <1>3, TypeParts DEF ConnInv

LEMMA ConnStep == ConnInv /\ [Next]_vars => ConnInv'
<1> SUFFICES ASSUME ConnInv, [Next]_vars PROVE ConnInv'
  OBVIOUS
<1>1. Flags /\ Shape /\ OutboxWithinSession /\ Confirming /\ Sending
  BY TypeParts, Zenon DEF ConnInv
<1>2. Flags' /\ Shape' /\ OutboxWithinSession' /\ Confirming' /\ Sending'
  BY <1>1, FlagsStep, ShapeStep, OutboxStep, ConfirmingStep, Zenon
<1>3. TypeOK'
  BY <1>2, Zenon DEF TypeOK, Flags, Shape
<1> QED
  BY <1>2, <1>3 DEF ConnInv

LEMMA ConnAlways == Spec => []ConnInv
  BY ConnInit, ConnStep, PTL DEF Spec

(* Type correctness: the outbox never exceeds MAX_OUTBOX_LEN, the channels *)
(* never exceed their capacities, the backoff never its maximum.           *)
THEOREM ConnectionTypeOK == Spec => []TypeOK
<1>1. ConnInv => TypeOK
  BY DEF ConnInv
<1> QED
  BY ConnAlways, <1>1, PTL

(* No message is deferred outside an established session, so nothing is    *)
(* carried over to the next one.                                           *)
THEOREM OutboxOfSession == Spec => []OutboxWithinSession
<1>1. ConnInv => OutboxWithinSession
  BY DEF ConnInv
<1> QED
  BY ConnAlways, <1>1, PTL

(* Every transmitted message is confirmed once and in order, but for the   *)
(* newest one while the task waits for the lane or was aborted in that     *)
(* wait.                                                                   *)
THEOREM ConfirmationsInOrder == Spec => []ConfirmationsFollowWire
<1>1. ConnInv => ConfirmationsFollowWire
  BY DEF ConnInv, Confirming, Lagging, ConfirmationsFollowWire
<1> QED
  BY ConnAlways, <1>1, PTL
-----------------------------------------------------------------------------
(* The refinement of OrderedPipe.  Every step of the connection takes some *)
(* prefix out of outbox \o txq.                                            *)
Todo == outbox \o txq

(* A sequence is the rest of s after its first d elements.                 *)
LEMMA IsRest ==
  ASSUME NEW S, NEW s \in Seq(S), NEW t \in Seq(S), NEW d \in 0 .. Len(s),
         Len(t) = Len(s) - d, \A i \in 1 .. Len(t) : t[i] = s[i + d]
  PROVE  t = SubSeq(s, d + 1, Len(s))
<1> DEFINE r == SubSeq(s, d + 1, Len(s))
<1>1. \A i \in d + 1 .. Len(s) : s[i] \in S
  OBVIOUS
<1>2. /\ r \in Seq(S)
      /\ Len(r) = IF d + 1 <= Len(s) THEN Len(s) - (d + 1) + 1 ELSE 0
      /\ \A i \in 1 .. Len(s) - (d + 1) + 1 : r[i] = s[d + 1 + i - 1]
  BY <1>1, SubSeqProperties
<1>3. Len(r) = Len(s) - d
  BY <1>2
<1>4. \A i \in 1 .. Len(t) : r[i] = t[i]
  BY <1>2
<1> HIDE DEF r
<1>5. t = r
  BY <1>2, <1>3, <1>4, SeqEqual
<1> QED
  BY <1>5 DEF r

(* Dropping d messages, without a transmission, is a step of the pipe. *)
LEMMA DropIsPipeStep ==
  ASSUME Shape, Shape', UNCHANGED <<next, wire>>, NEW d \in 0 .. Len(Todo),
         Len(Todo') = Len(Todo) - d,
         \A i \in 1 .. Len(Todo') : Todo'[i] = Todo[i + d]
  PROVE  [Pipe!Next]_(Pipe!pipeVars)
<1>1. Todo \in Seq(Msgs) /\ Todo' \in Seq(Msgs)
  BY DEF Todo, Shape
<1>2. Todo' = SubSeq(Todo, d + 1, Len(Todo))
  BY <1>1, IsRest
<1>3. CASE d = 0
  <2>1. Todo' = Todo
    BY <1>1, <1>3, SeqEqual
  <2> QED
    BY <2>1 DEF Pipe!pipeVars, Todo
<1>4. CASE d # 0
  <2>1. d \in 1 .. Len(Todo)
    BY <1>1, <1>4
  <2>2. Pipe!Advance(d)
    BY <1>2 DEF Pipe!Advance, Todo
  <2> QED
    BY <2>1, <2>2 DEF Pipe!Next, Todo
<1> QED
  BY <1>3, <1>4

(* So is transmitting the message behind d dropped ones. *)
LEMMA TransmitIsPipeStep ==
  ASSUME Shape, Shape', UNCHANGED next, NEW d \in 0 .. Len(Todo) - 1,
         wire' = Append(wire, Todo[d + 1]),
         Len(Todo') = Len(Todo) - (d + 1),
         \A i \in 1 .. Len(Todo') : Todo'[i] = Todo[i + (d + 1)]
  PROVE  [Pipe!Next]_(Pipe!pipeVars)
<1>1. Todo \in Seq(Msgs) /\ Todo' \in Seq(Msgs)
  BY DEF Todo, Shape
<1>2. d + 1 \in 1 .. Len(Todo)
  BY <1>1
<1>3. Todo' = SubSeq(Todo, (d + 1) + 1, Len(Todo))
  BY <1>1, <1>2, IsRest
<1>4. Pipe!Advance(d + 1)
  BY <1>3 DEF Pipe!Advance, Todo
<1> QED
  BY <1>2, <1>4 DEF Pipe!Next, Todo

(* Setting out to send q is a step of the pipe, when q and the TX channel  *)
(* are what is to be sent after d dropped messages.                        *)
LEMMA BeginIsPipeStep ==
  ASSUME Shape, Shape', UNCHANGED next, NEW d \in 0 .. 1,
         NEW q \in Seq(Msgs), q # <<>>, BeginSend(q),
         Len(q) + Len(txq') = Len(Todo) - d,
         \A i \in 1 .. Len(q) : q[i] = Todo[i + d],
         \A i \in 1 .. Len(txq') : txq'[i] = Todo[i + (d + Len(q))]
  PROVE  [Pipe!Next]_(Pipe!pipeVars)
<1>1. /\ txq' \in Seq(Msgs) /\ outbox' \in Seq(Msgs) /\ Todo \in Seq(Msgs)
      /\ Len(Todo) \in Nat /\ Len(q) \in Nat \ {0} /\ Len(txq') \in Nat
  BY DEF Shape, Todo
<1>2. /\ Len(Todo') = Len(outbox') + Len(txq')
      /\ \A i \in 1 .. Len(outbox') : Todo'[i] = outbox'[i]
      /\ \A i \in 1 .. Len(txq') : Todo'[Len(outbox') + i] = txq'[i]
  BY <1>1 DEF Todo
<1>3. wire' = wire /\ outbox' = q
  BY Zenon DEF BeginSend
<1>4. Len(Todo') = Len(Todo) - d /\ d \in 0 .. Len(Todo)
  BY <1>1, <1>2, <1>3
<1>5. ASSUME NEW i \in 1 .. Len(Todo') PROVE Todo'[i] = Todo[i + d]
  <2>1. CASE i <= Len(q)
    <3>1. i \in 1 .. Len(outbox')
      BY <1>1, <1>3, <2>1
    <3>2. Todo'[i] = q[i]
      BY <1>2, <1>3, <3>1
    <3> QED
      BY <1>3, <3>1, <3>2
  <2>2. CASE i > Len(q)
    <3> DEFINE j == i - Len(q)
    <3>1. j \in 1 .. Len(txq') /\ Len(q) + j = i /\ j + (d + Len(q)) = i + d
      BY <1>1, <1>2, <1>3, <2>2
    <3> HIDE DEF j
    <3> QED
      BY <1>2, <1>3, <3>1
  <2> QED
    BY <1>1, <1>2, <2>1, <2>2
<1> QED
  BY <1>3, <1>4, <1>5, DropIsPipeStep

(* Every step of the connection is a step of the pipe or changes nothing   *)
(* that the pipe sees.                                                     *)
LEMMA PipeRefinementStep ==
  ConnInv /\ ConnInv' /\ [Next]_vars => [Pipe!Next]_(Pipe!pipeVars)
<1> SUFFICES ASSUME ConnInv, ConnInv', [Next]_vars
             PROVE  [Pipe!Next]_(Pipe!pipeVars)
  OBVIOUS
<1> USE ConnectionAssumption
<1>1. Shape /\ Shape'
  BY Zenon DEF ConnInv, TypeOK, Shape
<1>2. /\ outbox \in Seq(Msgs) /\ txq \in Seq(Msgs) /\ Todo \in Seq(Msgs)
      /\ outbox' \in Seq(Msgs) /\ txq' \in Seq(Msgs)
      /\ Len(outbox) <= MaxOutbox
      /\ Len(Todo) = Len(outbox) + Len(txq)
      /\ \A i \in 1 .. Len(outbox) : Todo[i] = outbox[i]
      /\ \A i \in 1 .. Len(txq) : Todo[i + Len(outbox)] = txq[i]
  BY <1>1 DEF Shape, Todo
<1>3. ASSUME UNCHANGED <<outbox, txq, wire, next>> PROVE [Pipe!Next]_(Pipe!pipeVars)
  BY <1>3 DEF Pipe!pipeVars
<1>4. ASSUME NEW how, Exit(how), UNCHANGED <<wire, next>>
      PROVE  [Pipe!Next]_(Pipe!pipeVars)
  <2>1. Len(Todo') = 0 /\ Len(Todo) \in 0 .. Len(Todo)
    BY <1>2, <1>4 DEF Exit, Todo
  <2> QED
    BY <1>1, <1>4, <2>1, DropIsPipeStep
<1>5. ASSUME Reconnect, UNCHANGED <<next, txq>> PROVE [Pipe!Next]_(Pipe!pipeVars)
  <2>1. Todo' = txq /\ wire' = wire
    BY <1>2, <1>5 DEF Reconnect, Todo
  <2>2. Len(outbox) \in 0 .. Len(Todo) /\ Len(Todo') = Len(Todo) - Len(outbox)
    BY <1>2, <2>1
  <2>3. \A i \in 1 .. Len(Todo') : Todo'[i] = Todo[i + Len(outbox)]
    BY <1>2, <2>1
  <2> QED
    BY <1>1, <1>5, <2>1, <2>2, <2>3, DropIsPipeStep
<1>6. ASSUME outbox # <<>>, BeginSend(outbox), UNCHANGED <<next, txq>>
      PROVE  [Pipe!Next]_(Pipe!pipeVars)
  BY <1>3, <1>6 DEF BeginSend
<1>7. CASE SendFresh
  <2> DEFINE q == <<Head(txq)>>
  <2>1. /\ outbox = <<>> /\ txq # <<>> /\ txq' = Tail(txq) /\ next' = next
        /\ BeginSend(q)
    BY <1>7, Zenon DEF SendFresh, envVars
  <2>2. q \in Seq(Msgs) /\ q # <<>> /\ Len(q) = 1 /\ q[1] = Todo[1]
    BY <1>2, <2>1
  <2>3. Len(txq') = Len(txq) - 1 /\ \A i \in 1 .. Len(txq') : txq'[i] = txq[i + 1]
    BY <1>2, <2>1
  <2>4. Len(outbox) = 0
    BY <2>1
  <2> HIDE DEF q
  <2>5. Len(q) + Len(txq') = Len(Todo) - 0
    BY <1>2, <2>2, <2>3, <2>4
  <2>6. \A i \in 1 .. Len(q) : q[i] = Todo[i + 0]
    BY <2>2
  <2>7. \A i \in 1 .. Len(txq') : txq'[i] = Todo[i + (0 + Len(q))]
    BY <1>2, <2>2, <2>3, <2>4
  <2>8. q \in Seq(Msgs) /\ q # <<>> /\ BeginSend(q) /\ UNCHANGED next /\ 0 \in 0 .. 1
    BY <2>1, <2>2
  <2> QED
    BY <1>1, <2>5, <2>6, <2>7, <2>8, BeginIsPipeStep, Zenon
<1>8. CASE SendBehindOutbox
  <2> DEFINE m == Head(txq)
             q == Enqueue(outbox, m)
             d == IF Len(outbox) >= MaxOutbox THEN 1 ELSE 0
  <2>1. /\ outbox # <<>> /\ txq # <<>> /\ txq' = Tail(txq) /\ next' = next
        /\ BeginSend(q)
    BY <1>8, Zenon DEF SendBehindOutbox, envVars
  <2>2. m \in Msgs /\ m = txq[1]
    BY <1>2, <2>1
  <2>3. Len(txq') = Len(txq) - 1 /\ \A i \in 1 .. Len(txq') : txq'[i] = txq[i + 1]
    BY <1>2, <2>1
  <2>4. q \in Seq(Msgs) /\ Len(q) \in 1 .. MaxOutbox
    BY <1>2, <2>2, EnqueueType
  <2>5. /\ Len(q) = Len(outbox) - d + 1
        /\ \A i \in 1 .. Len(outbox) - d : q[i] = outbox[i + d]
        /\ q[Len(outbox) - d + 1] = m
    <3>1. CASE Len(outbox) >= MaxOutbox
      BY <1>2, <2>1, <2>2, <3>1 DEF Enqueue
    <3>2. CASE ~(Len(outbox) >= MaxOutbox)
      BY <1>2, <2>1, <2>2, <3>2 DEF Enqueue
    <3> QED
      BY <3>1, <3>2
  <2>6. d \in 0 .. 1 /\ d <= Len(outbox) /\ Len(outbox) \in Nat
    BY <1>2
  <2> HIDE DEF m, q, d
  <2>7. Len(q) + Len(txq') = Len(Todo) - d
    BY <1>2, <2>3, <2>5, <2>6
  <2>8. ASSUME NEW i \in 1 .. Len(q) PROVE q[i] = Todo[i + d]
    <3>1. CASE i <= Len(outbox) - d
      <4>1. i \in 1 .. Len(outbox) - d /\ i + d \in 1 .. Len(outbox)
        BY <2>6, <3>1
      <4> QED
        BY <1>2, <2>5, <4>1
    <3>2. CASE i = Len(outbox) - d + 1
      <4>1. i + d = 1 + Len(outbox) /\ 1 \in 1 .. Len(txq)
        BY <1>2, <2>1, <2>6, <3>2
      <4> QED
        BY <1>2, <2>2, <2>5, <3>2, <4>1
    <3> QED
      BY <2>5, <2>6, <3>1, <3>2
  <2>9. ASSUME NEW i \in 1 .. Len(txq') PROVE txq'[i] = Todo[i + (d + Len(q))]
    <3>1. i + 1 \in 1 .. Len(txq) /\ i + (d + Len(q)) = (i + 1) + Len(outbox)
      BY <1>2, <2>3, <2>5, <2>6
    <3> QED
      BY <1>2, <2>3, <3>1
  <2>10. q # <<>>
    BY <2>4
  <2> QED
    BY <1>1, <2>1, <2>4, <2>6, <2>7, <2>8, <2>9, <2>10, BeginIsPipeStep
<1>9. CASE Route
  <2>1. /\ outbox' = outbox /\ txq' = Append(txq, next) /\ wire' = wire
        /\ next <= MaxMsgs /\ next' = next + 1 /\ next \in Msgs
    BY <1>1, <1>9 DEF Route, taskVars, Shape, Msgs
  <2>2. outbox' \o txq' = Append(outbox \o txq, next)
    BY <1>2, <2>1
  <2> QED
    BY <2>1, <2>2 DEF Pipe!Next, Pipe!Accept
<1>10. CASE Sent
  <2>1. outbox # <<>> /\ SendResult /\ UNCHANGED <<next, txq>>
    BY <1>10, Zenon DEF Sent, ConnInv, Sending, envVars, chanVars
  <2>2. ASSUME outbox' = Tail(outbox)
        PROVE  /\ Len(Todo') = Len(Todo) - 1
               /\ \A i \in 1 .. Len(Todo') : Todo'[i] = Todo[i + 1]
               /\ Len(Todo) \in Nat \ {0} /\ Todo[1] = Head(outbox)
    <3>1. Todo' = Tail(Todo)
      BY <1>2, <2>1, <2>2 DEF Todo
    <3>2. Len(Todo) \in Nat \ {0} /\ Todo[1] = Head(outbox)
      BY <1>2, <2>1
    <3>3. ASSUME NEW u, u = Tail(Todo)
          PROVE  Len(u) = Len(Todo) - 1 /\ \A i \in 1 .. Len(u) : u[i] = Todo[i + 1]
      <4>1. Todo # <<>>
        BY <3>2
      <4> QED
        BY <1>2, <3>3, <4>1, HeadTailProperties
    <3> QED
      BY <3>1, <3>2, <3>3, Zenon
  <2>3. CASE wire' = Append(wire, Head(outbox)) /\ outbox' = Tail(outbox)
    <3>1. 0 \in 0 .. Len(Todo) - 1 /\ wire' = Append(wire, Todo[0 + 1])
      BY <2>2, <2>3
    <3>2. /\ Len(Todo') = Len(Todo) - (0 + 1)
          /\ \A i \in 1 .. Len(Todo') : Todo'[i] = Todo[i + (0 + 1)]
      BY <2>2, <2>3
    <3> QED
      BY <1>1, <2>1, <3>1, <3>2, TransmitIsPipeStep
  <2>4. CASE UNCHANGED <<outbox, wire>>
    BY <1>3, <2>1, <2>4
  <2>5. CASE wire' = wire /\ outbox' = Tail(outbox)
    <3>1. 1 \in 0 .. Len(Todo)
      BY <2>2, <2>5
    <3> QED
      BY <1>1, <2>1, <2>2, <2>5, <3>1, DropIsPipeStep
  <2>6. CASE Reconnect
    BY <1>5, <2>1, <2>6
  <2> QED
    BY <2>1, <2>3, <2>4, <2>5, <2>6, Zenon DEF SendResult
<1>11. CASE Task
  <2>1. CASE LeaveAtTop \/ LeaveInBackoff
    BY <1>4, <2>1 DEF LeaveAtTop, LeaveInBackoff, envVars
  <2>2. CASE BeginAttempt \/ BackoffElapsed \/ Cancelled \/ AnswerCommand \/ Confirm
    BY <1>3, <2>2 DEF BeginAttempt, BackoffElapsed, Cancelled, AnswerCommand, Confirm,
                      taskVars, envVars, chanVars
  <2>3. CASE Deliver
    BY <1>3, <1>6, <2>3 DEF Deliver, DrainOutbox, envVars
  <2>4. CASE RetryTick
    BY <1>6, <2>4 DEF RetryTick, envVars, chanVars
  <2> QED
    BY <1>7, <1>8, <1>11, <2>1, <2>2, <2>3, <2>4, Zenon DEF Task
<1>12. CASE Device
  <2>1. CASE ConfigError \/ Closed
    BY <1>4, <2>1 DEF ConfigError, Closed, envVars
  <2>2. CASE Received \/ Answered
    BY <1>3, <2>2 DEF Received, Answered, taskVars, envVars, chanVars
  <2>3. CASE Establish \/ ConnectRefused
    <3>1. outbox = <<>>
      BY <2>3 DEF ConnInv, OutboxWithinSession, Established, Session, Establish, ConnectRefused
    <3> QED
      BY <1>3, <2>3, <3>1 DEF Establish, ConnectRefused, envVars, chanVars
  <2>4. CASE Lost
    BY <1>5, <2>4 DEF Lost, envVars, chanVars
  <2> QED
    BY <1>10, <1>12, <2>1, <2>2, <2>3, <2>4, Zenon DEF Device
<1>13. CASE Environment
  <2>1. CASE Abort
    BY <1>4, <2>1 DEF Abort, envVars
  <2>2. CASE Issue \/ Cancel \/ LaneFill \/ LaneTake
    BY <1>3, <2>2 DEF Issue, Cancel, LaneFill, LaneTake, taskVars, envVars, chanVars
  <2> QED
    BY <1>9, <1>13, <2>1, <2>2, Zenon DEF Environment
<1>14. CASE UNCHANGED vars
  BY <1>3, <1>14 DEF vars, taskVars, envVars, chanVars
<1> QED
  BY <1>11, <1>12, <1>13, <1>14, Zenon DEF Next

(* The connection implements the ordered pipe: for every capacity and      *)
(* every number of messages, whatever is deferred, dropped, reconnected or *)
(* aborted, the wire carries the routed messages in order and at most once.*)
THEOREM ConnectionIsPipe == Spec => PipeSpec
<1>1. Init => Pipe!Init
  BY DEF Init, Pipe!Init
<1> QED
  BY <1>1, ConnAlways, PipeRefinementStep, PTL DEF Spec, PipeSpec, Pipe!Spec

(* The promise of the pipe itself.  WireOrdered is not inductive: PipeInv  *)
(* adds that what is still to be sent is ordered, newer than the wire and  *)
(* older than the next one.  PipeAt is PipeInv of a state <<n, t, w>>.     *)
PipeAt(n, t, w) ==
  /\ n \in 1 .. (MaxMsgs + 1) /\ t \in Seq(1 .. MaxMsgs) /\ w \in Seq(1 .. MaxMsgs)
  /\ Pipe!Increasing(w) /\ Pipe!Increasing(t)
  /\ \A i \in 1 .. Len(w), j \in 1 .. Len(t) : w[i] < t[j]
  /\ \A i \in 1 .. Len(w) : w[i] < n
  /\ \A j \in 1 .. Len(t) : t[j] < n

(* Appending a greater last element keeps a sequence increasing.           *)
LEMMA AppendIncreasing ==
  ASSUME NEW s \in Seq(Nat), NEW e \in Nat,
         Pipe!Increasing(s), \A i \in 1 .. Len(s) : s[i] < e
  PROVE  Pipe!Increasing(Append(s, e))
  BY DEF Pipe!Increasing

(* Accept appends the newest number.                                       *)
LEMMA PipeAccepts ==
  ASSUME NEW n, NEW t, NEW w, PipeAt(n, t, w), n <= MaxMsgs
  PROVE  PipeAt(n + 1, Append(t, n), w)
<1>1. /\ MaxMsgs \in Nat /\ n \in 1 .. MaxMsgs /\ t \in Seq(1 .. MaxMsgs) /\ t \in Seq(Nat)
      /\ n + 1 \in 1 .. (MaxMsgs + 1)
      /\ w \in Seq(1 .. MaxMsgs) /\ Pipe!Increasing(w) /\ Pipe!Increasing(t)
      /\ \A i \in 1 .. Len(w), j \in 1 .. Len(t) : w[i] < t[j]
      /\ \A i \in 1 .. Len(w) : w[i] < n
      /\ \A j \in 1 .. Len(t) : t[j] < n
  BY ConnectionAssumption DEF PipeAt
<1> DEFINE u == Append(t, n)
<1>2. Pipe!Increasing(u)
  BY <1>1, AppendIncreasing
<1>3. /\ u \in Seq(1 .. MaxMsgs) /\ Len(u) = Len(t) + 1 /\ u[Len(t) + 1] = n /\ Len(t) \in Nat
      /\ \A j \in 1 .. Len(t) : u[j] = t[j]
  BY <1>1
<1> HIDE DEF u
<1>4. ASSUME NEW j \in 1 .. Len(u)
      PROVE  u[j] < n + 1 /\ \A i \in 1 .. Len(w) : w[i] < u[j]
  <2>1. CASE j = Len(t) + 1
    BY <1>1, <1>3, <2>1
  <2>2. CASE j # Len(t) + 1
    <3>1. j \in 1 .. Len(t)
      BY <1>3, <2>2
    <3>2. u[j] = t[j] /\ t[j] \in Nat /\ t[j] < n
      BY <1>1, <1>3, <3>1
    <3>3. u[j] < n + 1
      BY <1>1, <3>2
    <3> QED BY <1>1, <3>1, <3>2, <3>3
  <2> QED BY <2>1, <2>2
<1>5. ASSUME NEW i \in 1 .. Len(w) PROVE w[i] < n + 1
  <2>1. w[i] \in Nat /\ w[i] < n
    BY <1>1
  <2> QED BY <1>1, <2>1
<1> QED BY <1>1, <1>2, <1>3, <1>4, <1>5, Zenon DEF PipeAt, u

(* Advance takes a prefix away, whose last element is above the wire and   *)
(* below what remains.                                                     *)
LEMMA PipeAdvances ==
  ASSUME NEW n, NEW t, NEW w, PipeAt(n, t, w), NEW k \in 1 .. Len(t),
         NEW v, v = w \/ v = Append(w, t[k])
  PROVE  PipeAt(n, SubSeq(t, k + 1, Len(t)), v)
<1>1. /\ MaxMsgs \in Nat /\ n \in 1 .. (MaxMsgs + 1) /\ t \in Seq(1 .. MaxMsgs)
      /\ w \in Seq(1 .. MaxMsgs) /\ Pipe!Increasing(w) /\ Pipe!Increasing(t)
      /\ \A i \in 1 .. Len(w), j \in 1 .. Len(t) : w[i] < t[j]
      /\ \A i \in 1 .. Len(w) : w[i] < n
      /\ \A j \in 1 .. Len(t) : t[j] < n
  BY ConnectionAssumption DEF PipeAt
<1> DEFINE rest == SubSeq(t, k + 1, Len(t))
<1>2. /\ rest \in Seq(1 .. MaxMsgs) /\ Len(rest) = Len(t) - k
      /\ \A j \in 1 .. Len(rest) : rest[j] = t[j + k]
  BY <1>1
<1> HIDE DEF rest
<1>3. ASSUME NEW j \in 1 .. Len(rest)
      PROVE  /\ j + k \in 1 .. Len(t) /\ k < j + k /\ rest[j] = t[j + k]
             /\ t[k] < rest[j] /\ rest[j] < n /\ \A i \in 1 .. Len(w) : w[i] < rest[j]
  <2>1. j + k \in 1 .. Len(t) /\ k < j + k /\ rest[j] = t[j + k]
    BY <1>1, <1>2
  <2>2. t[k] < t[j + k]
    BY <1>1, <2>1 DEF Pipe!Increasing
  <2> QED BY <1>1, <2>1, <2>2
<1>4. Pipe!Increasing(rest)
  <2> SUFFICES ASSUME NEW i \in 1 .. Len(rest), NEW j \in 1 .. Len(rest), i < j
               PROVE  rest[i] < rest[j]
    BY DEF Pipe!Increasing
  <2>1. i + k < j + k
    BY <1>1, <1>2
  <2>2. t[i + k] < t[j + k]
    BY <1>1, <1>3, <2>1 DEF Pipe!Increasing
  <2> QED BY <1>3, <2>2
<1>5. PipeAt(n, rest, w)
  BY <1>1, <1>2, <1>3, <1>4, Zenon DEF PipeAt
<1>6. CASE v = Append(w, t[k])
  <2>1. t[k] \in 1 .. MaxMsgs /\ t[k] \in Nat /\ t[k] < n /\ w \in Seq(Nat)
        /\ \A i \in 1 .. Len(w) : w[i] < t[k]
    BY <1>1
  <2>2. /\ Len(v) = Len(w) + 1 /\ v \in Seq(1 .. MaxMsgs)
        /\ \A i \in 1 .. Len(w) : v[i] = w[i]
        /\ v[Len(w) + 1] = t[k]
    BY <1>1, <1>6, <2>1
  <2>3. Pipe!Increasing(v)
    BY <1>1, <1>6, <2>1, AppendIncreasing
  <2>4. ASSUME NEW i \in 1 .. Len(v)
        PROVE  v[i] < n /\ \A j \in 1 .. Len(rest) : v[i] < rest[j]
    <3>1. CASE i = Len(w) + 1
      BY <1>3, <2>1, <2>2, <3>1
    <3>2. CASE i # Len(w) + 1
      <4>1. i \in 1 .. Len(w)
        BY <1>1, <2>2, <3>2
      <4>2. v[i] = w[i]
        BY <2>2, <4>1
      <4> QED BY <1>1, <1>3, <4>1, <4>2, Zenon
    <3> QED BY <3>1, <3>2
  <2> QED BY <1>5, <2>2, <2>3, <2>4, Zenon DEF PipeAt, rest
<1> QED BY <1>5, <1>6 DEF rest

LEMMA PipeKept == Pipe!PipeInv /\ [Pipe!Next]_(Pipe!pipeVars) => Pipe!PipeInv'
<1> DEFINE todo == outbox \o txq
<1>1. Pipe!PipeInv <=> PipeAt(next, todo, wire)
  BY Zenon DEF Pipe!PipeInv, Pipe!TypeOK, Pipe!Msgs, PipeAt
<1>2. Pipe!PipeInv' <=> PipeAt(next', todo', wire')
  BY Zenon DEF Pipe!PipeInv, Pipe!TypeOK, Pipe!Msgs, PipeAt, Pipe!Increasing
<1> SUFFICES ASSUME PipeAt(next, todo, wire), [Pipe!Next]_(Pipe!pipeVars)
             PROVE  PipeAt(next', todo', wire')
  BY <1>1, <1>2
<1>3. CASE Pipe!Accept
  <2>1. next <= MaxMsgs /\ next' = next + 1 /\ todo' = Append(todo, next) /\ wire' = wire
    BY <1>3 DEF Pipe!Accept
  <2> HIDE DEF todo
  <2> QED BY <2>1, PipeAccepts
<1>4. ASSUME NEW k \in 1 .. Len(todo), Pipe!Advance(k) PROVE PipeAt(next', todo', wire')
  <2>1. /\ todo' = SubSeq(todo, k + 1, Len(todo)) /\ next' = next
        /\ wire' = wire \/ wire' = Append(wire, todo[k])
    BY <1>4, Zenon DEF Pipe!Advance
  <2> HIDE DEF todo
  <2> QED BY <2>1, PipeAdvances
<1>5. CASE UNCHANGED Pipe!pipeVars
  <2>1. next' = next /\ todo' = todo /\ wire' = wire
    BY <1>5 DEF Pipe!pipeVars
  <2> HIDE DEF todo
  <2> QED BY <2>1
<1> QED BY <1>3, <1>4, <1>5, Zenon DEF Pipe!Next

(* Messages reach the wire in the order of their acceptance and at most    *)
(* once, for every number of messages (connection_task.rs, "Preserve       *)
(* FIFO").                                                                 *)
THEOREM PipeIsOrdered == PipeSpec => []Pipe!WireOrdered
<1>1. Pipe!Init => Pipe!PipeInv
  BY ConnectionAssumption DEF Pipe!Init, Pipe!PipeInv, Pipe!TypeOK, Pipe!Msgs, Pipe!Increasing
<1>2. Pipe!PipeInv => Pipe!WireOrdered
  BY Zenon DEF Pipe!PipeInv, Pipe!WireOrdered
<1> QED BY PipeKept, <1>1, <1>2, PTL DEF PipeSpec, Pipe!Spec

(* For every capacity and number of messages the wire of a connection is   *)
(* in routing order, without repetition.                                   *)
THEOREM ConnectionWireOrdered == Spec => []Pipe!WireOrdered
<1> QED BY ConnectionIsPipe, PipeIsOrdered, PTL
-----------------------------------------------------------------------------
(* Dataplane: the engine task joined to the connection task is a behaviour *)
(* of the connection in its open environment, so what is shown above holds *)
(* in the composition; and the engine waits for one thing at a time.       *)

LEMMA RouteIsStep == Route => [Next]_vars
BY DEF Next, Environment

LEMMA DataStepIsStep == DataNext => [Next]_vars
<1> SUFFICES ASSUME DataNext PROVE [Next]_vars
  OBVIOUS
<1>1. CASE EngineStep
  <2>1. CASE BeginStop
    BY <2>1 DEF BeginStop
  <2>2. CASE ServeStop
    BY <2>2 DEF ServeStop, Next, Environment
  <2>3. CASE GraceExpires
    BY <2>3 DEF GraceExpires, Next, Environment
  <2>4. CASE TakeEntry
    BY <2>4 DEF TakeEntry, Next, Environment
  <2>5. CASE HookCommand
    BY <2>5 DEF HookCommand, Next, Environment
  <2>6. CASE HookSendAfter
    BY <2>6 DEF HookSendAfter, Next, Environment
  <2>7. CASE Forward
    BY <2>7, RouteIsStep DEF Forward
  <2>8. CASE ForwardToEnded
    BY <2>8 DEF ForwardToEnded
  <2>9. CASE QueueReply
    BY <2>9 DEF QueueReply, Next, Environment
  <2>10. CASE OnTimer
    BY <2>10 DEF OnTimer
  <2> QED
    BY <1>1, <2>1, <2>2, <2>3, <2>4, <2>5, <2>6, <2>7, <2>8, <2>9, <2>10, Zenon DEF EngineStep
<1>2. CASE ServeCommand
  BY <1>2 DEF ServeCommand, Next, Environment
<1>3. CASE RequestStop \/ TimerDue
  BY <1>3 DEF RequestStop, TimerDue
<1>4. CASE TaskStep \/ DeviceStep
  BY <1>4 DEF TaskStep, DeviceStep, Next
<1>5. CASE OtherTraffic
  BY <1>5 DEF OtherTraffic, Next, Environment
<1> QED BY <1>1, <1>2, <1>3, <1>4, <1>5 DEF DataNext

(* By construction the engine only takes steps that the environment of     *)
(* Connection may take.                                                    *)
LEMMA ComposedIsConnection == DataSpec => Spec
<1>1. DataInit => Init
  BY DEF DataInit
<1>2. [DataNext]_dataVars => [Next]_vars
  BY DataStepIsStep DEF dataVars
<1> QED BY <1>1, <1>2, PTL DEF DataSpec, Spec

(* Also beside an engine that waits, runs hooks and stops: confirmations   *)
(* follow the wire, nothing deferred by one session is sent by the next,   *)
(* and messages reach the wire in routing order, at most once.             *)
THEOREM ComposedInOrder ==
  DataSpec => [](ConfirmationsFollowWire /\ OutboxWithinSession /\ Pipe!WireOrdered)
BY ComposedIsConnection, ConfirmationsInOrder, OutboxOfSession, ConnectionWireOrdered, PTL
-----------------------------------------------------------------------------
(* A hook that is about to make a call waits for nothing yet, and what is  *)
(* in the engine's hand is either messages or an auto-response.            *)
OneWait ==
  /\ hand \in Nat
  /\ hand > 0 => ~replying
  /\ hook # "none" => ~awaiting

(* A step of the connection task or its device only ever ends the engine's *)
(* wait.                                                                   *)
LEMMA TaskAnswers == (Task \/ Device) /\ ~awaiting => ~awaiting'
<1> SUFFICES ASSUME Task \/ Device, ~awaiting PROVE ~awaiting'
  OBVIOUS
<1>1. CASE LeaveAtTop \/ LeaveInBackoff \/ ConfigError \/ Closed
  BY <1>1, Zenon DEF LeaveAtTop, LeaveInBackoff, ConfigError, Closed, Exit
<1>2. CASE BeginAttempt \/ BackoffElapsed \/ Establish \/ ConnectRefused \/ Received \/ Lost
  BY <1>2, Zenon DEF BeginAttempt, BackoffElapsed, Establish, ConnectRefused, Received, Lost,
                     Reconnect, chanVars
<1>3. CASE Deliver \/ SendFresh \/ SendBehindOutbox \/ RetryTick
  BY <1>3, Zenon DEF Deliver, SendFresh, SendBehindOutbox, RetryTick, DrainOutbox, chanVars
<1>4. CASE Cancelled \/ AnswerCommand \/ Confirm \/ Sent \/ Answered
  BY <1>4, Zenon DEF Cancelled, AnswerCommand, Confirm, Sent, Answered, chanVars
<1> QED BY <1>1, <1>2, <1>3, <1>4, Zenon DEF Task, Device

LEMMA OneWaitInit == DataInit => OneWait
BY DEF DataInit, Init, OneWait

LEMMA OneWaitStep == OneWait /\ [DataNext]_dataVars => OneWait'
<1> SUFFICES ASSUME OneWait, [DataNext]_dataVars PROVE OneWait'
  OBVIOUS
<1> USE DataplaneAssumption DEF OneWait
<1>1. CASE BeginStop
  BY <1>1 DEF BeginStop, PollLanes, EngineFree, Hooked, vars, chanVars
<1>2. CASE ServeStop
  BY <1>2 DEF ServeStop, Hooked, Cancel, chanVars
<1>3. CASE GraceExpires
  BY <1>3 DEF GraceExpires, Abort, Exit, engineVars
<1>4. CASE TakeEntry
  BY <1>4 DEF TakeEntry, PollLanes, EngineFree, Hooked, LaneTake
<1>5. CASE HookCommand
  BY <1>5 DEF HookCommand, Issue, vars, chanVars
<1>6. CASE HookSendAfter
  BY <1>6 DEF HookSendAfter, LaneFill
<1>7. CASE Forward
  BY <1>7 DEF Forward, Hooked, Route
<1>8. CASE ForwardToEnded
  BY <1>8 DEF ForwardToEnded, Hooked, vars, chanVars
<1>9. CASE QueueReply
  BY <1>9 DEF QueueReply, LaneFill
<1>10. CASE ServeCommand
  BY <1>10 DEF ServeCommand, PollLanes, EngineFree, Hooked, Issue
<1>11. CASE OnTimer
  BY <1>11 DEF OnTimer, EngineFree, Hooked, vars, chanVars
<1>12. CASE TaskStep \/ DeviceStep
  BY <1>12, TaskAnswers DEF TaskStep, DeviceStep, engineVars
<1>13. CASE OtherTraffic
  BY <1>13 DEF OtherTraffic, LaneFill, engineVars
<1>14. CASE RequestStop \/ TimerDue
  BY <1>14 DEF RequestStop, TimerDue, vars, chanVars
<1>15. CASE UNCHANGED dataVars
  BY <1>15 DEF dataVars, vars, chanVars, engineVars
<1> QED BY <1>1, <1>2, <1>3, <1>4, <1>5, <1>6, <1>7, <1>8, <1>9, <1>10, <1>11,
           <1>12, <1>13, <1>14, <1>15, Zenon DEF DataNext, EngineStep

(* The engine task waits for one thing at a time: for the room of a TX     *)
(* channel or of its own lane, or for a response, and then no hook runs    *)
(* (engine_task.rs:370-438).                                               *)
THEOREM EngineWaitsOnce == DataSpec => []OneWait
BY OneWaitInit, OneWaitStep, PTL DEF DataSpec
=============================================================================
