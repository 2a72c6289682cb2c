------------------------------ MODULE Framing ------------------------------
(***************************************************************************)
(* Receiving through CodecTransport (cycbox-sdk/transport.rs): bytes read  *)
(* in chunks of any size, the decode buffer, the messages of one read that *)
(* wait for the next recv, the receive timeout, and end of file.           *)
(*                                                                         *)
(* recv is an arm of the connection task's select (connection_task.rs), so *)
(* another arm may drop its future at its only await, the timed read: the  *)
(* retry interval does so periodically, commands and traffic now and then. *)
(* What recv has collected stays in the transport; its timer starts anew.  *)
(*                                                                         *)
(* The peer sends with the same codec over a line that may carry noise.    *)
(* No transport of the repository reports session boundaries, so           *)
(* take_session_boundary is always false.                                  *)
(***************************************************************************)
EXTENDS Codecs

CONSTANTS
  Codecs,      \* the codecs to look at
  Payloads,    \* the payloads the peer may send
  Noise,       \* per codec, the byte sequences a noisy line may insert
  MaxMsgs,     \* bound on the payloads sent
  MaxRead,     \* length of read_buf                (102 400)
  MaxBuffer,   \* MAX_BUFFER_SIZE                   (1 GiB)
  Timeout,     \* the receive timeout              (25 ms)
  Retry,       \* OUTBOX_RETRY_INTERVAL            (100 ms)
  MaxOther     \* bound on the turns of the other arms of the select

ASSUME FramingAssumption ==
  /\ Codecs \subseteq AllCodecs
  /\ Payloads \subseteq Seq(Bytes)
  /\ Noise \in [Codecs -> SUBSET Seq(Bytes)]
  /\ MaxMsgs \in Nat /\ MaxBuffer \in Nat /\ MaxOther \in Nat
  /\ MaxRead \in 1 .. MaxBuffer
  /\ Timeout \in Nat \ {0} /\ Retry \in Nat \ {0}

VARIABLES
  codec,    \* the codec the connection is configured with
  up,       \* FALSE once recv returned None: the task reconnects
  sent,     \* history: the payloads the peer sent
  closed,   \* the peer closed the line
  noise,    \* history: what the line inserted, if anything
  line,     \* bytes on their way
  buffer,   \* CodecTransport::buffer
  pending,  \* CodecTransport::pending_messages
  got,      \* history: the payloads recv returned
  lost,     \* history: bytes were discarded
  idle,     \* time since the timed read of recv started
  age,      \* time since the last tick of the retry interval
  other     \* turns of the other arms

peerVars == <<codec, sent, closed, noise>>
recvVars == <<up, buffer, pending, got, lost>>
timeVars == <<idle, age, other>>
vars     == <<peerVars, line, recvVars, timeVars>>

Init ==
  /\ codec \in Codecs
  /\ up = TRUE /\ lost = FALSE /\ closed = FALSE
  /\ sent = <<>> /\ noise = <<>> /\ line = <<>>
  /\ buffer = <<>> /\ pending = <<>> /\ got = <<>>
  /\ idle = 0 /\ age = 0 /\ other = 0
-----------------------------------------------------------------------------
(* CodecTransport::send at the peer; nothing is written for no bytes. *)
Send(p) ==
  /\ ~closed /\ Len(sent) < MaxMsgs /\ Carries(codec, p)
  /\ sent' = Append(sent, p)
  /\ line' = line \o Encode(codec, p)
  /\ UNCHANGED <<codec, closed, noise, recvVars, timeVars>>

Disturb(n) ==
  /\ ~closed /\ noise = <<>> /\ noise' = n
  /\ line' = line \o n
  /\ UNCHANGED <<codec, sent, closed, recvVars, timeVars>>

HangUp ==
  /\ ~closed /\ closed' = TRUE
  /\ UNCHANGED <<codec, sent, noise, line, recvVars, timeVars>>

DecodeFirst(c, b, due) ==   \* mutant: what follows the first message is discarded
  LET r == DecodeOne(c, b, due)
  IN  [buf |-> IF r.tag = "none" THEN r.rest ELSE <<>>,
       msgs |-> IF r.tag = "some" THEN <<r.payload>> ELSE <<>>,
       bad |-> r.tag = "error"]

(* The decode loop over buffer b: decode until Ok(None), or until an       *)
(* error, which discards the rest of the buffer.                           *)
DecodeLoop(c, b, due) ==
  LET From[x \in Seq(Bytes)] ==
        LET r == DecodeOne(c, x, due)
        IN  CASE r.tag = "some"  -> [From[r.rest] EXCEPT !.msgs = <<r.payload>> \o @]
              [] r.tag = "none"  -> [buf |-> r.rest, msgs |-> <<>>, bad |-> FALSE]
              [] r.tag = "error" -> [buf |-> <<>>, msgs |-> <<>>, bad |-> TRUE]
  IN  From[b]

(* A buffer that n more bytes would overflow is discarded first. *)
MakeRoom(b, n) == IF Len(b) + n > MaxBuffer THEN <<>> ELSE b

(* recv hands out the oldest of the decoded messages ms, the others wait;  *)
(* with none it goes on reading.  Either way the next timed read is new.   *)
HandOut(ms) ==
  /\ idle' = 0
  /\ \/ ms = <<>> /\ UNCHANGED <<got, pending>>
     \/ ms # <<>> /\ got' = Append(got, Head(ms)) /\ pending' = Tail(ms)

(* pending_messages.pop_front() without reading. *)
HandOutPending ==
  /\ up /\ pending # <<>>
  /\ HandOut(pending)
  /\ UNCHANGED <<peerVars, line, up, buffer, lost, age, other>>

(* The read returned n bytes, which kept bytes of the buffer precede. *)
Read(n) ==
  /\ up /\ pending = <<>> /\ n <= Len(line)
  /\ line' = SubSeq(line, n + 1, Len(line))
  /\ \E due \in IF codec = "timeout" THEN BOOLEAN ELSE {TRUE},
        kept \in {MakeRoom(buffer, n)} :
     \E d \in {DecodeLoop(codec, kept \o SubSeq(line, 1, n), due)} :
       /\ buffer' = d.buf
       /\ HandOut(d.msgs)
       /\ lost' = (lost \/ d.bad \/ kept # buffer)
  /\ UNCHANGED <<peerVars, up, age, other>>

TimedOutIdle ==             \* mutant: a timeout does not look at the buffer
  /\ up /\ pending = <<>> /\ idle = Timeout
  /\ idle' = 0
  /\ UNCHANGED <<peerVars, line, recvVars, age, other>>

(* The read timed out: decode_timeout; its error is ignored. *)
TimedOut ==
  /\ up /\ pending = <<>> /\ idle = Timeout
  /\ \E d \in {DecodeTimeout(codec, buffer)} :
       /\ buffer' = d.rest
       /\ HandOut(IF d.tag = "some" THEN <<d.payload>> ELSE <<>>)
       /\ lost' = (lost \/ d.tag = "error")
  /\ UNCHANGED <<peerVars, line, up, age, other>>

EofAtOnce ==                \* mutant: end of file does not look at the buffer
  /\ up /\ closed /\ pending = <<>> /\ line = <<>>
  /\ up' = FALSE
  /\ buffer' = <<>>
  /\ UNCHANGED <<peerVars, line, pending, got, lost, timeVars>>

(* The peer closed the line: decode_eof, and the buffer is discarded; recv *)
(* returns the message it found, or None.                                  *)
Eof ==
  /\ up /\ closed /\ pending = <<>> /\ line = <<>>
  /\ \E d \in {DecodeTimeout(codec, buffer)} :
       /\ HandOut(IF d.tag = "some" THEN <<d.payload>> ELSE <<>>)
       /\ up' = (d.tag = "some")
  /\ buffer' = <<>>
  /\ UNCHANGED <<peerVars, line, lost, age, other>>
-----------------------------------------------------------------------------
(* The select drops the pending recv: the retry interval ticks, or another *)
(* arm has its turn.                                                       *)
RetryTick ==
  /\ up /\ age = Retry
  /\ age' = 0 /\ idle' = 0
  /\ UNCHANGED <<peerVars, line, recvVars, other>>

OtherArm ==
  /\ up /\ other < MaxOther /\ other' = other + 1
  /\ idle' = 0
  /\ UNCHANGED <<peerVars, line, recvVars, age>>

(* Time does not pass over a timer that is due. *)
Tick ==
  /\ up /\ pending = <<>> /\ idle < Timeout /\ age < Retry
  /\ idle' = idle + 1 /\ age' = age + 1
  /\ UNCHANGED <<peerVars, line, recvVars, other>>

Receive ==
  \/ HandOutPending \/ \E n \in 1 .. MaxRead : Read(n)
  \/ TimedOut \/ RetryTick \/ Tick

Next ==
  \/ \E p \in Payloads : Send(p)
  \/ \E n \in Noise[codec] : Disturb(n)
  \/ HangUp \/ Receive \/ Eof \/ OtherArm

Spec == Init /\ [][Next]_vars

(* The runtime polls the task: it reads what has arrived and its timers    *)
(* fire.  When a timer and another arm are ready together the select picks *)
(* at random, so neither is passed over for ever.                          *)
FairSpec ==
  /\ Spec
  /\ WF_vars(HandOutPending) /\ WF_vars(\E n \in 1 .. MaxRead : Read(n))
  /\ SF_vars(TimedOut) /\ WF_vars(RetryTick) /\ WF_vars(Tick)
-----------------------------------------------------------------------------
(* Byte for byte what is behind the k-th payload, with and without a       *)
(* leading END that was consumed as an empty frame.                        *)
Behind(k) ==
  LET s == FlattenSeq([i \in 1 .. Len(sent) - k |-> Encode(codec, sent[k + i])])
  IN  IF codec = "slip_lead" /\ s # <<>> THEN {s, Tail(s)} ELSE {s}

(* With a leading END the decode loop stops behind it; end of file looks   *)
(* for one frame in what the loop left, and discards the others            *)
(* (transport.rs 181).                                                     *)
SlipAtEnd == codec = "slip_lead" /\ closed /\ line = <<>> /\ buffer = <<>>

(* On a line without noise no byte is lost, duplicated or attributed to    *)
(* another message: what was received is what was sent first, and buffer   *)
(* and line hold exactly the frames of the rest, wherever reads split the  *)
(* stream and whenever another arm of the select dropped a recv.  Without  *)
(* frames the bytes are preserved.                                         *)
NothingLost ==
  /\ up /\ noise = <<>> /\ ~lost
  /\ ~SlipAtEnd
  =>
    \/ /\ codec \in Framed
       /\ \E k \in 0 .. Len(sent) : /\ got \o pending = SubSeq(sent, 1, k)
                                    /\ buffer \o line \in Behind(k)
    \/ /\ codec \in Unframed
       /\ FlattenSeq(got \o pending) \o buffer \o line = FlattenSeq(sent)

(* With push_leading_end noise never gets into a payload: whatever is      *)
(* received was sent, or is the noise alone (slip.rs 38-43).  Noise that   *)
(* holds an END is left out: it may be several payloads.                   *)
NoiseIsSeparated ==
  codec = "slip_lead" /\ END \notin ToSet(noise) /\ ~lost =>
    ToSet(got \o pending) \subseteq ToSet(sent) \cup {SlipDecode(noise)}

(* When the peer closes, what it sent has been received to the last byte,  *)
(* also the bytes the timeout codec still collects.  SLIP with a leading   *)
(* END is left out: frames behind an empty one may be discarded.           *)
CompleteAtEof ==
  ~up /\ noise = <<>> /\ ~lost /\ codec # "slip_lead" =>
    FlattenSeq(got) = FlattenSeq(sent)

Disrupted == noise # <<>> \/ lost \/ ~up \/ SlipAtEnd

(* Everything sent is received in the end, even what the decode loop left  *)
(* in the buffer, as long as the receive timeout is shorter than the retry *)
(* interval: otherwise the tick drops each recv before it times out.       *)
AllArrives ==
  sent # <<>> ~> (FlattenSeq(got) = FlattenSeq(sent) \/ Disrupted)

(* "Decode all available messages" (transport.rs 223): after a read no     *)
(* complete message is left in the buffer.                                 *)
DecodesAllAvailable ==
  LET s == DecodeLoop(codec, buffer, FALSE) IN codec \in Framed => s.msgs = <<>>
=============================================================================
