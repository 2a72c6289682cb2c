---------------------------- MODULE OrderedPipe ----------------------------
(***************************************************************************)
(* What one CycBox connection promises for the messages routed to it: a    *)
(* pipe that may lose messages but never reorders or repeats them.         *)
(*                                                                         *)
(* Messages are numbered in the order in which the engine routes them to   *)
(* the connection.  A step of the pipe removes a prefix of what is still   *)
(* to be sent; at most the last removed message reaches the wire, every    *)
(* other removed message is lost for good.  Module Connection implements   *)
(* this specification.                                                     *)
(***************************************************************************)
EXTENDS Naturals, Sequences

CONSTANT MaxMsgs   \* messages are numbered 1 .. MaxMsgs

VARIABLES
  next,   \* number of the next message to be accepted
  todo,   \* accepted messages that are neither on the wire nor lost
  wire    \* the messages that reached the wire, in order

pipeVars == <<next, todo, wire>>

Msgs == 1 .. MaxMsgs

TypeOK ==
  /\ next \in 1 .. (MaxMsgs + 1)
  /\ todo \in Seq(Msgs)
  /\ wire \in Seq(Msgs)

Init ==
  /\ next = 1
  /\ todo = <<>>
  /\ wire = <<>>

Accept ==
  /\ next <= MaxMsgs
  /\ next' = next + 1
  /\ todo' = Append(todo, next)
  /\ UNCHANGED wire

(* The first k messages leave the pipe; the k-th may reach the wire. *)
Advance(k) ==
  /\ todo' = SubSeq(todo, k + 1, Len(todo))
  /\ \/ wire' = Append(wire, todo[k])
     \/ UNCHANGED wire
  /\ UNCHANGED next

Next == Accept \/ \E k \in 1 .. Len(todo) : Advance(k)

Spec == Init /\ [][Next]_pipeVars
-----------------------------------------------------------------------------
Increasing(s) == \A i, j \in 1 .. Len(s) : i < j => s[i] < s[j]

(* Messages reach the wire in the order in which they were accepted, and   *)
(* none reaches it twice (connection_task.rs, "Preserve FIFO").            *)
WireOrdered == Increasing(wire)

(* The inductive strengthening of WireOrdered: what is still to be sent is *)
(* in order too, newer than the wire and older than the next message.      *)
PipeInv ==
  /\ TypeOK
  /\ Increasing(wire)
  /\ Increasing(todo)
  /\ \A i \in 1 .. Len(wire), j \in 1 .. Len(todo) : wire[i] < todo[j]
  /\ \A i \in 1 .. Len(wire) : wire[i] < next
  /\ \A j \in 1 .. Len(todo) : todo[j] < next
=============================================================================
