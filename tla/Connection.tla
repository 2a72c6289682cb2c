----------------------------- MODULE Connection -----------------------------
(***************************************************************************)
(* One connection task of the engine (cycbox-engine/tasks/                 *)
(* connection_task.rs with connection.rs): connect with exponential        *)
(* backoff, exchange messages through a codec that may push back, keep the *)
(* deferred messages in an outbox, reconnect, and shut down when its       *)
(* cancellation token fires.                                               *)
(*                                                                         *)
(* The engine task appears only as an open environment: it routes messages *)
(* into the TX channel, issues commands, cancels and aborts at any time,   *)
(* and takes entries out of the bounded message lane.  Module Dataplane    *)
(* replaces that environment by the engine task's own control flow.        *)
(*                                                                         *)
(* Messages are their numbers in routing order; the message lane is        *)
(* represented by its length only.                                         *)
(***************************************************************************)
EXTENDS Naturals, Sequences

CONSTANTS
  MaxMsgs,     \* bound on the messages routed to the connection
  TxCap,       \* capacity of the TX channel         (100 in engine_task.rs)
  MaxOutbox,   \* MAX_OUTBOX_LEN                     (64)
  LaneCap,     \* MESSAGE_CHANNEL_CAPACITY           (10 000)
  MaxBackoff   \* upper bound of the backoff, in seconds (10)

ASSUME ConnectionAssumption ==
  /\ MaxMsgs \in Nat
  /\ TxCap \in Nat \ {0}
  /\ MaxOutbox \in Nat \ {0}
  /\ LaneCap \in Nat \ {0}
  /\ MaxBackoff \in Nat \ {0}

VARIABLES
  pc,            \* where the task is
  ctx,           \* TRUE once the cancellation token is cancelled
  reconnecting,  \* the local flag of the same name
  backoff,       \* the next backoff delay, in seconds
  txq,           \* the TX channel, engine -> connection
  outbox,        \* pending_outbox of the current session
  next,          \* number of the next message the engine routes here
  wire,          \* history: what the transport transmitted
  confirmed,     \* history: the send_confirm entries put into the lane
  lane,          \* entries in the engine's message lane
  awaiting,      \* a command of the engine awaits this task's response
  closed         \* transport.close() was awaited

taskVars == <<pc, reconnecting, backoff, outbox, wire, confirmed, closed>>
envVars  == <<ctx, next>>
chanVars == <<txq, lane, awaiting>>
vars     == <<taskVars, envVars, chanVars>>

Msgs == 1 .. MaxMsgs

(* "top": head of 'outer; "backoff": the cancellable sleep; "connect":     *)
(* creating codec, transport and transformer; "select": the RX/TX select.  *)
(* Inside its arms, "deliver" and "confirm" await room in the message      *)
(* lane, and "send", "answer" and "close" the transport.  "done" and       *)
(* "aborted": the task is over.                                            *)
Ended   == {"done", "aborted"}
Session == {"select", "deliver", "confirm", "send", "answer", "close"}
Pcs     == {"top", "backoff", "connect"} \cup Session \cup Ended

Established == pc \in Session

(* Awaiting the device, without a timeout of the task's own. *)
IOWait == {"connect", "send", "answer", "close"}

StuckOnLane == pc \in {"deliver", "confirm"} /\ lane = LaneCap

TypeOK ==
  /\ pc \in Pcs
  /\ ctx \in BOOLEAN
  /\ reconnecting \in BOOLEAN
  /\ backoff \in 1 .. MaxBackoff
  /\ txq \in Seq(Msgs) /\ Len(txq) <= TxCap
  /\ outbox \in Seq(Msgs) /\ Len(outbox) <= MaxOutbox
  /\ next \in 1 .. (MaxMsgs + 1)
  /\ wire \in Seq(Msgs)
  /\ confirmed \in Seq(Msgs)
  /\ lane \in 0 .. LaneCap
  /\ awaiting \in BOOLEAN
  /\ closed \in BOOLEAN

Init ==
  /\ pc = "top"
  /\ ctx = FALSE
  /\ reconnecting = FALSE
  /\ backoff = 1
  /\ txq = <<>>
  /\ outbox = <<>>
  /\ next = 1
  /\ wire = <<>>
  /\ confirmed = <<>>
  /\ lane = 0
  /\ awaiting = FALSE
  /\ closed = FALSE
-----------------------------------------------------------------------------
(* The task is over: its receivers are dropped, and with them whatever is  *)
(* queued.  A command whose reply channel is dropped fails at its caller.  *)
Exit(how) ==
  /\ pc' = how
  /\ outbox' = <<>>
  /\ txq' = <<>>
  /\ awaiting' = FALSE

BeginAttemptAnyway ==       \* mutant: the cancel check at the loop head is lost
  /\ pc = "top"
  /\ pc' = IF reconnecting THEN "backoff" ELSE "connect"
  /\ UNCHANGED <<reconnecting, backoff, outbox, wire, confirmed, closed,
                 envVars, chanVars>>

(* The head of 'outer: leave if cancelled, else back off or connect. *)
LeaveAtTop ==
  /\ pc = "top" /\ ctx
  /\ Exit("done")
  /\ UNCHANGED <<reconnecting, backoff, wire, confirmed, closed, envVars, lane>>

BeginAttempt ==
  /\ pc = "top" /\ ~ctx
  /\ pc' = IF reconnecting THEN "backoff" ELSE "connect"
  /\ UNCHANGED <<reconnecting, backoff, outbox, wire, confirmed, closed,
                 envVars, chanVars>>

(* The two arms of the backoff select; the sleep may win over a cancel. *)
LeaveInBackoff ==
  /\ pc = "backoff" /\ ctx
  /\ Exit("done")
  /\ UNCHANGED <<reconnecting, backoff, wire, confirmed, closed, envVars, lane>>

AtMost(d) == IF d > MaxBackoff THEN MaxBackoff ELSE d

BackoffElapsed ==
  /\ pc = "backoff"
  /\ pc' = "connect"
  /\ backoff' = AtMost(2 * backoff)
  /\ UNCHANGED <<reconnecting, outbox, wire, confirmed, closed, envVars, chanVars>>

(* create_codec, create_transport and create_transformer: established, an  *)
(* I/O failure that is retried, or a configuration error that is fatal.    *)
Establish ==
  /\ pc = "connect"
  /\ pc' = "select"
  /\ backoff' = 1
  /\ outbox' = <<>>
  /\ UNCHANGED <<reconnecting, wire, confirmed, closed, envVars, chanVars>>

ConnectRefused ==
  /\ pc = "connect"
  /\ pc' = "top"
  /\ reconnecting' = TRUE
  /\ UNCHANGED <<backoff, outbox, wire, confirmed, closed, envVars, chanVars>>

ConfigError ==
  /\ pc = "connect"
  /\ Exit("done")
  /\ UNCHANGED <<reconnecting, backoff, wire, confirmed, closed, envVars, lane>>
-----------------------------------------------------------------------------
(* Leaving the RX/TX loop to reconnect drops what the outbox holds. *)
ReconnectKeepingOutbox ==   \* mutant: the outbox outlives the session
  /\ pc' = "top"
  /\ reconnecting' = TRUE
  /\ UNCHANGED <<outbox, wire>>

Reconnect ==
  /\ pc' = "top"
  /\ reconnecting' = TRUE
  /\ outbox' = <<>>
  /\ UNCHANGED wire

EnqueueInFront(q, m) ==     \* mutant: a new message overtakes deferred ones
  <<m>> \o (IF Len(q) >= MaxOutbox THEN Tail(q) ELSE q)

EnqueueUnbounded(q, m) ==   \* mutant: the outbox has no limit
  Append(q, m)

(* enqueue_outbox: at the limit the oldest entry makes room. *)
Enqueue(q, m) == Append(IF Len(q) >= MaxOutbox THEN Tail(q) ELSE q, m)

(* connection.send(..).await begins for the front of q. *)
BeginSend(q) ==
  /\ outbox' = q /\ pc' = "send"
  /\ UNCHANGED <<wire, reconnecting>>

(* drain_outbox: one attempt, or nothing if the queue is empty. *)
DrainOutbox ==
  \/ outbox # <<>> /\ BeginSend(outbox)
  \/ outbox = <<>> /\ pc' = "select" /\ UNCHANGED <<outbox, wire, reconnecting>>

(* The arms of the select. *)
Cancelled ==
  /\ pc = "select" /\ ctx
  /\ pc' = "close"
  /\ UNCHANGED <<reconnecting, backoff, outbox, wire, confirmed, closed,
                 envVars, chanVars>>

Received ==
  /\ pc = "select"
  /\ pc' = "deliver"
  /\ UNCHANGED <<reconnecting, backoff, outbox, wire, confirmed, closed,
                 envVars, chanVars>>

(* receive_message().await completed, then drain_outbox. *)
Deliver ==
  /\ pc = "deliver" /\ lane < LaneCap
  /\ lane' = lane + 1
  /\ DrainOutbox
  /\ UNCHANGED <<backoff, confirmed, closed, envVars, txq, awaiting>>

(* EOF or a connection error from recv. *)
Lost ==
  /\ pc = "select"
  /\ Reconnect
  /\ UNCHANGED <<backoff, confirmed, closed, envVars, chanVars>>

(* The TX arm: the fast path and the path behind a non-empty outbox.  The  *)
(* message in hand on the fast path stands as the outbox's only entry.     *)
SendFresh ==
  /\ pc = "select" /\ txq # <<>> /\ outbox = <<>>
  /\ txq' = Tail(txq)
  /\ BeginSend(<<Head(txq)>>)
  /\ UNCHANGED <<backoff, confirmed, closed, envVars, lane, awaiting>>

SendBehindOutbox ==
  /\ pc = "select" /\ txq # <<>> /\ outbox # <<>>
  /\ txq' = Tail(txq)
  /\ BeginSend(Enqueue(outbox, Head(txq)))
  /\ UNCHANGED <<backoff, confirmed, closed, envVars, lane, awaiting>>

RetryTick ==
  /\ pc = "select" /\ outbox # <<>>
  /\ BeginSend(outbox)
  /\ UNCHANGED <<backoff, confirmed, closed, envVars, chanVars>>

AnswerWhenDrained ==        \* mutant: commands wait for an empty outbox
  /\ pc = "select" /\ awaiting /\ outbox = <<>>
  /\ pc' = "answer"
  /\ UNCHANGED <<reconnecting, backoff, outbox, wire, confirmed, closed,
                 envVars, chanVars>>

AnswerCommand ==
  /\ pc = "select" /\ awaiting
  /\ pc' = "answer"
  /\ UNCHANGED <<reconnecting, backoff, outbox, wire, confirmed, closed,
                 envVars, chanVars>>

ConfirmOldest ==            \* mutant: confirms the oldest message again
  /\ pc = "confirm" /\ lane < LaneCap
  /\ lane' = lane + 1
  /\ confirmed' = Append(confirmed, wire[1])
  /\ pc' = "select"
  /\ UNCHANGED <<reconnecting, backoff, outbox, wire, closed, envVars, txq, awaiting>>

(* send_confirm().await completed for the message sent last. *)
Confirm ==
  /\ pc = "confirm" /\ lane < LaneCap
  /\ lane' = lane + 1
  /\ confirmed' = Append(confirmed, wire[Len(wire)])
  /\ pc' = "select"
  /\ UNCHANGED <<reconnecting, backoff, outbox, wire, closed, envVars, txq, awaiting>>

(* The transport's answers.  Connection::send for the front of the outbox  *)
(* returns Ok (then await the lane for the confirmation), Pending,         *)
(* Discarded or another error that is only logged, or a connection error.  *)
SendResult ==
  \/ /\ wire' = Append(wire, Head(outbox))
     /\ outbox' = Tail(outbox)
     /\ pc' = "confirm"
     /\ UNCHANGED reconnecting
  \/ /\ pc' = "select"
     /\ UNCHANGED <<outbox, wire, reconnecting>>
  \/ /\ outbox' = Tail(outbox)
     /\ pc' = "select"
     /\ UNCHANGED <<wire, reconnecting>>
  \/ Reconnect

Sent ==
  /\ pc = "send"
  /\ SendResult
  /\ UNCHANGED <<backoff, confirmed, closed, envVars, chanVars>>

(* handle_command(..).await completed; the response reaches the engine. *)
Answered ==
  /\ pc = "answer"
  /\ pc' = "select" /\ awaiting' = FALSE
  /\ UNCHANGED <<reconnecting, backoff, outbox, wire, confirmed, closed, envVars, txq, lane>>

Closed ==
  /\ pc = "close"
  /\ closed' = TRUE
  /\ Exit("done")
  /\ UNCHANGED <<reconnecting, backoff, wire, confirmed, envVars, lane>>

(* What the task does once it is polled, and what it awaits of the device. *)
Task ==
  \/ LeaveAtTop \/ BeginAttempt \/ LeaveInBackoff \/ BackoffElapsed
  \/ Cancelled \/ Deliver \/ Confirm
  \/ SendFresh \/ SendBehindOutbox \/ RetryTick \/ AnswerCommand

Device ==
  \/ Establish \/ ConnectRefused \/ ConfigError
  \/ Received \/ Lost \/ Sent \/ Answered \/ Closed
-----------------------------------------------------------------------------
(* The environment, as open as the channels allow. *)
Route ==
  /\ pc \notin Ended
  /\ next <= MaxMsgs /\ Len(txq) < TxCap
  /\ txq' = Append(txq, next)
  /\ next' = next + 1
  /\ UNCHANGED <<taskVars, ctx, lane, awaiting>>

Issue ==
  /\ pc \notin Ended
  /\ ~awaiting /\ awaiting' = TRUE
  /\ UNCHANGED <<taskVars, envVars, txq, lane>>

Cancel ==
  /\ ~ctx /\ ctx' = TRUE
  /\ UNCHANGED <<taskVars, next, chanVars>>

(* drain_connection_handlers gave up after the grace period. *)
Abort ==
  /\ ctx /\ pc \notin Ended
  /\ Exit("aborted")
  /\ UNCHANGED <<reconnecting, backoff, wire, confirmed, closed, envVars, lane>>

LaneFill ==
  /\ lane < LaneCap /\ lane' = lane + 1
  /\ UNCHANGED <<taskVars, envVars, txq, awaiting>>

LaneTake ==
  /\ lane > 0 /\ lane' = lane - 1
  /\ UNCHANGED <<taskVars, envVars, txq, awaiting>>

Environment == Route \/ Issue \/ Cancel \/ Abort \/ LaneFill \/ LaneTake

Next == Task \/ Device \/ Environment

Spec == Init /\ [][Next]_vars

(* The task is polled while it can move, and tokio::select! picks among    *)
(* its ready arms at random, so an arm that is ready again and again is    *)
(* taken.  Nothing is assumed of the environment, nor of the device: to    *)
(* connect, a write, an answer and close may never return.                 *)
Fairness == WF_vars(Task) /\ SF_vars(Cancelled) /\ SF_vars(AnswerCommand)

FairSpec == Spec /\ Fairness
-----------------------------------------------------------------------------
(* The connection is an ordered pipe whose content is the outbox followed  *)
(* by the TX channel: whatever mix of deferral, overflow, reconnection and *)
(* shutdown happens, messages reach the wire in routing order, at most     *)
(* once, and one dropped with the outbox of a dead session never reappears *)
(* in a later one (connection_task.rs 219-221 and 267-276).                *)
Pipe == INSTANCE OrderedPipe WITH todo <- outbox \o txq

PipeSpec == Pipe!Spec

(* Confirmations follow the wire exactly: one per transmitted message, in  *)
(* order.  Only the newest can be missing, and only while the task waits   *)
(* for room in the lane or when it was aborted in that wait.               *)
ConfirmationsFollowWire ==
  \/ confirmed = wire
  \/ /\ pc \in {"confirm", "aborted"}
     /\ wire # <<>>
     /\ confirmed = SubSeq(wire, 1, Len(wire) - 1)

(* The outbox belongs to one session: it is empty whenever no session is   *)
(* established, so nothing deferred by a dead device is carried over.      *)
OutboxWithinSession == outbox # <<>> => Established

(* A cancelled task ends on its own unless the device keeps it forever in  *)
(* one call, or it is stuck on a full message lane: no loop of retries,    *)
(* traffic and reconnections outruns the cancel.                           *)
CancelEnds ==
  <>[](pc \in IOWait) \/ (ctx ~> (pc \in Ended \/ StuckOnLane))

(* A command is answered, or fails with the task, unless the session is    *)
(* down, the device keeps the task forever in one call, or the task is     *)
(* stuck on a full message lane.                                           *)
CommandServedWhileUp ==
  <>[](pc \in IOWait) \/ (awaiting ~> (~awaiting \/ ~Established \/ StuckOnLane))
=============================================================================
