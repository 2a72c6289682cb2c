-------------------------- MODULE TransportProofs ---------------------------
(***************************************************************************)
(* The two transports below a connection, for all sizes of chunks, buffers *)
(* and frames.                                                             *)
(*                                                                         *)
(* SerialStream: the port is a pipe in both directions. SerialLossless is  *)
(* not inductive: a completed request must fit in the buffer of whoever    *)
(* polls next, a failed one must hold no bytes, and there is no request    *)
(* that the stream does not know of unless registering a wait has failed.  *)
(*                                                                         *)
(* Framing: as long as no line of noise has come in and no bytes were      *)
(* discarded, what was received is what was sent, in order, and what was   *)
(* not received is still held, wherever reads cut the stream and whenever  *)
(* a recv was dropped. NothingLost is not inductive: FramingInv says the   *)
(* same once end of file is seen, that every codec but SLIP with a leading *)
(* END leaves no complete frame in its buffer, and what the waiting        *)
(* messages are. On a line with noise and a leading END, SeparatedInv says *)
(* that what is still to be decoded consists of pieces ended by an END,    *)
(* each empty, a payload's escapes or the noise.                           *)
(***************************************************************************)
EXTENDS SerialStream, Framing, CodecProofs

Requests == [pending : BOOLEAN, completed : BOOLEAN, flying : BOOLEAN,
             failed : BOOLEAN, size : Nat, done : Seq(Nat)]

(* A sequence is what is taken from its front, and the rest. *)
LEMMA Split ==
  ASSUME NEW s \in Seq(Nat), NEW n \in 0 .. Len(s)
  PROVE  First(s, n) \in Seq(Nat) /\ From(s, n) \in Seq(Nat) /\ Len(First(s, n)) = n
         /\ First(s, n) \o From(s, n) = s
<1>1. SubSeq(s, 1, Len(s)) = s
  BY SubSeqFull
<1>2. First(s, n) \o From(s, n) = SubSeq(s, 1, Len(s))
  <2>1. Len(s) \in Nat
    BY LenProperties
  <2>2. 1 \in 1 .. Len(s) + 1 /\ n \in 1 - 1 .. Len(s) /\ Len(s) \in n .. Len(s)
    BY <2>1
  <2>3. SubSeq(s, 1, n) \o SubSeq(s, n + 1, Len(s)) = SubSeq(s, 1, Len(s))
    BY <2>2, ConcatAdjacentSubSeq, Zenon
  <2> QED BY <2>3 DEF First, From
<1>3. \A i \in 1 .. n : s[i] \in Nat
  BY ElementOfSeq
<1>4. \A i \in n + 1 .. Len(s) : s[i] \in Nat
  BY ElementOfSeq
<1>5. First(s, n) \in Seq(Nat) /\ Len(First(s, n)) = n
  BY <1>3, SubSeqProperties DEF First
<1>6. From(s, n) \in Seq(Nat)
  BY <1>4, SubSeqProperties DEF From
<1> QED BY <1>1, <1>2, <1>5, <1>6

LEMMA SplitEnds ==
  ASSUME NEW s \in Seq(Nat)
  PROVE  /\ First(s, 0) = <<>> /\ From(s, 0) = s
         /\ First(s, Len(s)) = s /\ From(s, Len(s)) = <<>>
<1>1. First(s, 0) = <<>> /\ From(s, Len(s)) = <<>>
  BY SubSeqEmpty, LenProperties DEF First, From
<1>2. First(s, Len(s)) = s /\ From(s, 0) = s
  BY SubSeqFull DEF First, From
<1> QED BY <1>1, <1>2

LEMMA Associative == \A a, b, c \in Seq(Nat) : Grouped(a, b, c)
BY ConcatAssociative DEF Grouped

LEMMA Closed == \A a, b \in Seq(Nat) : a \o b \in Seq(Nat)
BY ConcatProperties

(* A poll in the middle of a stream: a part is moved, none is changed. *)
Moved(a, b, h, i, held, rest) == ((a \o b) \o held) \o rest = (a \o h) \o i

LEMMA Glue ==
  ASSUME NEW a \in Seq(Nat), NEW b \in Seq(Nat), NEW h \in Seq(Nat), NEW i \in Seq(Nat),
         NEW held \in Seq(Nat), NEW rest \in Seq(Nat), b \o (held \o rest) = h \o i
  PROVE  Moved(a, b, h, i, held, rest)
<1>1. a \o b \in Seq(Nat) /\ held \o rest \in Seq(Nat)
  BY Closed, Zenon
<1>2. Grouped(a \o b, held, rest) /\ Grouped(a, b, held \o rest) /\ Grouped(a, h, i)
  BY <1>1, Associative, Zenon
<1> QED BY <1>2 DEF Grouped, Moved

LEMMA NumbersGrow ==
  ASSUME NEW n \in Nat
  PROVE  Numbers(n) \in Seq(Nat) /\ Len(Numbers(n)) = n
         /\ Numbers(n + 1) = Append(Numbers(n), n + 1)
BY DEF Numbers

LEMMA NumbersExtended ==
  ASSUME NEW n \in Nat, NEW k \in Nat
  PROVE  Numbers(n) \o [i \in 1 .. k |-> n + i] = Numbers(n + k)
<1>1. Numbers(n) \in Seq(Nat) /\ Len(Numbers(n)) = n
      /\ [i \in 1 .. k |-> n + i] \in Seq(Nat) /\ Len([i \in 1 .. k |-> n + i]) = k
      /\ Numbers(n + k) \in Seq(Nat) /\ Len(Numbers(n + k)) = n + k
  BY DEF Numbers
<1>2. Numbers(n) \o [i \in 1 .. k |-> n + i] \in Seq(Nat)
      /\ Len(Numbers(n) \o [i \in 1 .. k |-> n + i]) = n + k
  BY <1>1, ConcatProperties
<1>3. \A j \in 1 .. n + k : (Numbers(n) \o [i \in 1 .. k |-> n + i])[j] = Numbers(n + k)[j]
  BY <1>1, ConcatProperties DEF Numbers
<1> QED BY <1>1, <1>2, <1>3, SeqEqual
-----------------------------------------------------------------------------
(* Reading.  A request fits in the buffer of every poll to come; none is   *)
(* unknown to the stream but one whose wait could not be registered.       *)
Inbound == discarded \o received \o rd.done \o input

ReadInv ==
  ~torn =>
    /\ arrived \in Nat
    /\ discarded \in Seq(Nat) /\ received \in Seq(Nat) /\ input \in Seq(Nat)
    /\ Inbound = Numbers(arrived)
    /\ rd \in Requests
    /\ rd.flying \/ rd.failed => rd.done = <<>>
    /\ rd.completed => rd.pending
    /\ Len(rd.done) <= rd.size /\ rd.size <= RecvBuf
    /\ stage = "warmup" => received = <<>> /\ rd.size <= WarmupBuf
    /\ os # "windows" => rd = NoRequest

(* What a poll copies, what its request holds then, and what is left in    *)
(* the driver is what the request held before and what was in the driver.  *)
GoodOutcome(o, room) ==
  /\ o.bytes \in Seq(Nat) /\ o.input \in Seq(Nat) /\ o.rd \in Requests
  /\ o.bytes \o (o.rd.done \o o.input) = rd.done \o input
  /\ o.rd.flying \/ o.rd.failed => o.rd.done = <<>>
  /\ o.rd.completed => o.rd.pending
  /\ Len(o.rd.done) <= o.rd.size /\ o.rd.size <= room
  /\ os # "windows" => o.rd = NoRequest

LEMMA EmptyFirst == \A s \in Seq(Nat) : <<>> \o s = s /\ s \o <<>> = s
BY ConcatEmptySeq

LEMMA RequestTypes ==
  /\ NoRequest \in Requests /\ NoRequest.done = <<>> /\ NoRequest.size = 0
  /\ ~NoRequest.flying /\ ~NoRequest.failed /\ ~NoRequest.completed /\ ~NoRequest.pending
  /\ \A n \in Nat : /\ Flying(n) \in Requests /\ Flying(n).done = <<>> /\ Flying(n).size = n
                    /\ ~Flying(n).completed /\ Flying(n).pending /\ Flying(n).flying
                    /\ Orphan(n) \in Requests /\ Orphan(n).done = <<>> /\ Orphan(n).size = n
                    /\ ~Orphan(n).completed
<1>1. <<>> \in Seq(Nat)
  OBVIOUS
<1> QED BY <1>1 DEF NoRequest, Flying, Orphan, Requests

LEMMA PollKeepsStream ==
  ASSUME NEW room \in Nat \ {0}, NEW o \in PollRead(room),
         rd \in Requests, input \in Seq(Nat), rd.flying \/ rd.failed => rd.done = <<>>,
         rd.completed => rd.pending, Len(rd.done) <= rd.size, rd.size <= room,
         os # "windows" => rd = NoRequest, rd.pending \/ rd = NoRequest
  PROVE  GoodOutcome(o, room)
<1> USE RequestTypes
<1>1. rd.done \in Seq(Nat) /\ Len(rd.done) \in Nat /\ Len(input) \in Nat
  BY DEF Requests
<1>2. rd.done \o input \in Seq(Nat)
  BY <1>1, Closed
<1>3. ASSUME rd = NoRequest, NEW size \in Nat, size <= room, o \in AtOnce(size)
      PROVE  GoodOutcome(o, room)
  <2>1. PICK n \in 0 .. Len(input) :
          o = ReadOutcome("ready", First(input, n), NoRequest, From(input, n))
    BY <1>1, <1>3 DEF AtOnce, Fewer
  <2>2. First(input, n) \in Seq(Nat) /\ From(input, n) \in Seq(Nat)
        /\ First(input, n) \o From(input, n) = input
    BY <2>1, Split
  <2>3. o.bytes = First(input, n) /\ o.rd = NoRequest /\ o.input = From(input, n)
    BY <2>1 DEF ReadOutcome
  <2>4. <<>> \o From(input, n) = From(input, n) /\ <<>> \o input = input
    BY <2>2, EmptyFirst
  <2> QED BY <1>3, <2>2, <2>3, <2>4 DEF GoodOutcome
<1>4. ASSUME NEW r \in Requests, r.done = <<>>, r.size <= room, ~r.completed, rd.done = <<>>,
             os # "windows" => r = NoRequest,
             o.bytes = <<>>, o.rd = r, o.input = input
      PROVE  GoodOutcome(o, room)
  <2>1. Len(<<>>) = 0 /\ r.size \in Nat /\ <<>> \in Seq(Nat)
    BY DEF Requests
  <2>2. <<>> \o (<<>> \o input) = <<>> \o input
    BY EmptyFirst
  <2> QED BY <1>4, <2>1, <2>2 DEF GoodOutcome
<1>5. CASE os = "windows"
  <2>1. CASE rd.completed
    <3>1. o \in Collect(room)
      BY <1>5, <2>1 DEF PollRead, WindowsRead
    <3>2. CASE rd.failed
      BY <1>4, <3>1, <3>2, <1>5 DEF Collect, Errors, ReadOutcome
    <3>3. CASE ~rd.failed
      <4>1. o.bytes = First(rd.done, Fewer(Len(rd.done), room)) /\ o.rd = NoRequest
            /\ o.input = input
        BY <3>1, <3>3 DEF Collect, ReadOutcome
      <4>2. Fewer(Len(rd.done), room) = Len(rd.done)
        BY <1>1 DEF Fewer, Requests
      <4>3. o.bytes = rd.done
        BY <1>1, <4>1, <4>2, SplitEnds
      <4>4. <<>> \o input = input /\ Len(<<>>) = 0
        BY EmptyFirst
      <4>5. o.bytes \o (o.rd.done \o o.input) = rd.done \o input
        BY <4>1, <4>3, <4>4
      <4>6. /\ o.rd \in Requests /\ o.rd.done = <<>>
            /\ ~o.rd.completed
            /\ Len(o.rd.done) <= o.rd.size /\ o.rd.size <= room
        BY <4>1, <4>4
      <4>7. o.bytes \in Seq(Nat) /\ o.input \in Seq(Nat)
        BY <1>1, <4>1, <4>3
      <4> HIDE RequestTypes
      <4> QED BY <1>5, <4>5, <4>6, <4>7 DEF GoodOutcome
    <3> QED BY <3>2, <3>3
  <2>2. CASE ~rd.completed /\ rd.pending
    <3>1. o.bytes = <<>> /\ o.rd = rd /\ o.input = input
      BY <1>5, <2>2 DEF PollRead, WindowsRead, ReadOutcome
    <3>2. <<>> \o (rd.done \o input) = rd.done \o input
      BY <1>2, EmptyFirst
    <3> QED BY <1>5, <2>2, <3>1, <3>2 DEF GoodOutcome
  <2>3. CASE ~rd.completed /\ ~rd.pending
    <3> DEFINE size == Fewer(room, IF input # <<>> THEN Len(input) ELSE Chunk)
    <3>1. size \in Nat /\ size <= room
      BY <1>1, SerialAssumption DEF SerialAssumption, Fewer
    <3>2. \/ o \in AtOnce(size) \/ o \in Errors(NoRequest) \/ o \in Errors(Orphan(size))
          \/ o = ReadOutcome("pending", <<>>, Flying(size), input)
      BY <1>5, <2>3 DEF PollRead, WindowsRead, StartRead
    <3>3. rd = NoRequest
      BY <2>3
    <3> HIDE DEF size
    <3>4. CASE o \in AtOnce(size)
      BY <1>3, <3>1, <3>3, <3>4
    <3>5. CASE o \in Errors(NoRequest)
      BY <1>4, <1>5, <3>3, <3>5 DEF Errors, ReadOutcome
    <3>6. CASE o \in Errors(Orphan(size))
      BY <1>4, <1>5, <3>1, <3>3, <3>6 DEF Errors, ReadOutcome
    <3>7. CASE o = ReadOutcome("pending", <<>>, Flying(size), input)
      BY <1>4, <1>5, <3>1, <3>3, <3>7 DEF ReadOutcome
    <3> QED BY <3>2, <3>4, <3>5, <3>6, <3>7
  <2> QED BY <2>1, <2>2, <2>3
<1>6. CASE os # "windows"
  <2>1. rd = NoRequest
    BY <1>6
  <2>2. o \in AtOnce(room) \/ o \in Errors(NoRequest)
        \/ o = ReadOutcome("pending", <<>>, rd, input)
    BY <1>6 DEF PollRead, PosixRead
  <2>3. CASE o \in AtOnce(room)
    BY <1>3, <2>1, <2>3
  <2>4. CASE o \in Errors(NoRequest) \/ o = ReadOutcome("pending", <<>>, rd, input)
    BY <1>4, <2>1, <2>4 DEF Errors, ReadOutcome
  <2> QED BY <2>2, <2>3, <2>4
<1> QED BY <1>5, <1>6

LEMMA ReadInvInit == SerialInit => ReadInv
<1> SUFFICES ASSUME SerialInit PROVE ReadInv
  OBVIOUS
<1>1. arrived \in Nat /\ input = Numbers(arrived) /\ rd = NoRequest
      /\ discarded = <<>> /\ received = <<>>
  BY DEF SerialInit
<1>2. input \in Seq(Nat) /\ <<>> \in Seq(Nat)
  BY <1>1, NumbersGrow
<1>3. Inbound = input
  BY <1>1, <1>2, EmptyFirst, RequestTypes DEF Inbound
<1>4. rd.size = 0 /\ Len(rd.done) = 0 /\ rd \in Requests
      /\ ~rd.flying /\ ~rd.failed /\ ~rd.completed
  BY <1>1, RequestTypes
<1>5. WarmupBuf \in Nat /\ RecvBuf \in Nat
  BY SerialAssumption DEF SerialAssumption
<1> QED BY <1>1, <1>2, <1>3, <1>4, <1>5 DEF ReadInv

(* A poll with the buffer of the stage. *)
LEMMA PollStep ==
  ASSUME ReadInv, NEW room \in Nat \ {0}, rd.size <= room, NEW o \in PollRead(room),
         Apply(o), ~torn'
  PROVE  /\ ~torn /\ GoodOutcome(o, room) /\ rd' = o.rd /\ input' = o.input
<1>1. ~torn /\ (os = "windows" => rd.pending \/ rd = NoRequest)
      /\ rd' = o.rd /\ input' = o.input
  BY DEF Apply
<1>2. rd.pending \/ rd = NoRequest
  BY <1>1 DEF ReadInv
<1> QED BY <1>1, <1>2, PollKeepsStream DEF ReadInv

LEMMA ReadInvStep == ReadInv /\ [SerialNext]_serialVars => ReadInv'
<1> SUFFICES ASSUME ReadInv, [SerialNext]_serialVars, ~torn' PROVE ReadInv'
  BY DEF ReadInv
<1>a. WarmupBuf \in Nat \ {0} /\ RecvBuf \in Nat \ {0} /\ WarmupBuf <= RecvBuf
  BY SerialAssumption DEF SerialAssumption
<1>b. ~torn => rd.done \in Seq(Nat) /\ rd.size \in Nat
  BY DEF ReadInv, Requests
<1>1. CASE Arrive
  <2>1. /\ ~torn /\ arrived' = arrived + 1 /\ input' = Append(input, arrived + 1)
        /\ UNCHANGED <<os, stage, rd, torn, discarded, received>>
    BY <1>1 DEF Arrive
  <2> DEFINE before == (discarded \o received) \o rd.done
  <2>2. before \in Seq(Nat) /\ input \in Seq(Nat) /\ <<arrived + 1>> \in Seq(Nat)
    BY <1>b, <2>1, Closed DEF ReadInv
  <2>3. input' = input \o <<arrived + 1>> /\ input' \in Seq(Nat)
    BY <2>1, AppendIsConcat, AppendProperties DEF ReadInv
  <2>4. Inbound' = before \o input'
    BY <2>1 DEF Inbound
  <2>5. Inbound = before \o input
    BY DEF Inbound
  <2> HIDE DEF before
  <2>6. Inbound' = Inbound \o <<arrived + 1>>
    <3>1. Grouped(before, input, <<arrived + 1>>)
      BY <2>2, Associative, Zenon
    <3> QED BY <2>3, <2>4, <2>5, <3>1 DEF Grouped
  <2>7. Inbound' = Numbers(arrived + 1)
    <3>1. Inbound = Numbers(arrived) /\ arrived \in Nat
      BY <2>1 DEF ReadInv
    <3>2. Numbers(arrived) \o <<arrived + 1>> = Numbers(arrived + 1)
      <4>1. Numbers(arrived) \in Seq(Nat) /\ arrived + 1 \in Nat
        BY <3>1, NumbersGrow
      <4>2. Append(Numbers(arrived), arrived + 1) = Numbers(arrived) \o <<arrived + 1>>
        BY <4>1, AppendIsConcat
      <4> QED BY <3>1, <4>2, NumbersGrow
    <3> QED BY <2>6, <3>1, <3>2
  <2> QED BY <2>1, <2>3, <2>7 DEF ReadInv
<1>2. CASE KernelRead
  <2>1. PICK n \in 0 .. Fewer(rd.size, Len(input)), failed \in BOOLEAN :
          /\ failed => n = 0
          /\ rd' = [rd EXCEPT !.flying = FALSE, !.failed = failed, !.done = First(input, n)]
          /\ input' = From(input, n)
    BY <1>2 DEF KernelRead
  <2>2. ~torn /\ rd.flying /\ UNCHANGED <<os, stage, arrived, discarded, received>>
    BY <1>2 DEF KernelRead
  <2>3. rd \in Requests /\ rd.done = <<>> /\ input \in Seq(Nat) /\ Len(input) \in Nat
    BY <2>2 DEF ReadInv
  <2>4. n \in 0 .. Len(input) /\ n <= rd.size
    BY <1>b, <2>1, <2>2, <2>3 DEF Fewer
  <2>5. First(input, n) \in Seq(Nat) /\ From(input, n) \in Seq(Nat)
        /\ Len(First(input, n)) = n /\ First(input, n) \o From(input, n) = input
    BY <2>3, <2>4, Split
  <2>6. /\ rd'.done = First(input, n) /\ rd'.size = rd.size /\ rd'.failed = failed
        /\ rd'.flying = FALSE /\ rd'.pending = rd.pending /\ rd'.completed = rd.completed
        /\ rd' \in Requests
    BY <2>1, <2>3, <2>5 DEF Requests
  <2>7. failed => rd'.done = <<>>
    BY <2>1, <2>3, <2>6, SplitEnds
  <2>8. Inbound' = Inbound
    <3> DEFINE before == discarded \o received
    <3>1. before \in Seq(Nat)
      BY <2>2, Closed DEF ReadInv
    <3>2. Inbound' = (before \o First(input, n)) \o From(input, n)
      BY <2>1, <2>2, <2>6 DEF Inbound
    <3>3. Inbound = (before \o <<>>) \o input
      BY <2>3 DEF Inbound
    <3> HIDE DEF before
    <3>4. before \o <<>> = before
      BY <3>1, EmptyFirst
    <3>5. (before \o First(input, n)) \o From(input, n)
            = before \o (First(input, n) \o From(input, n))
      <4>1. Grouped(before, First(input, n), From(input, n))
        BY <2>5, <3>1, Associative, Zenon
      <4> QED BY <4>1 DEF Grouped
    <3> QED BY <2>5, <3>2, <3>3, <3>4, <3>5
  <2>9. os = "windows"
    <3>1. rd # NoRequest
      BY <2>2, RequestTypes
    <3> QED BY <2>2, <3>1 DEF ReadInv
  <2>10. Len(rd'.done) <= rd'.size
    BY <2>4, <2>5, <2>6
  <2>11. Inbound' = Numbers(arrived) /\ arrived \in Nat /\ rd.size <= RecvBuf
         /\ discarded \in Seq(Nat) /\ received \in Seq(Nat)
         /\ (rd.completed => rd.pending)
         /\ (stage = "warmup" => received = <<>> /\ rd.size <= WarmupBuf)
    BY <2>2, <2>8 DEF ReadInv
  <2> QED BY <2>1, <2>2, <2>5, <2>6, <2>7, <2>9, <2>10, <2>11 DEF ReadInv
<1>3. CASE ReadCompleted
  <2>1. /\ ~torn /\ rd.pending /\ rd' = [rd EXCEPT !.completed = TRUE]
        /\ UNCHANGED <<os, stage, arrived, input, discarded, received>>
    BY <1>3 DEF ReadCompleted
  <2>2. rd' \in Requests /\ rd'.pending /\ rd'.done = rd.done /\ rd'.size = rd.size
        /\ rd'.flying = rd.flying /\ rd'.failed = rd.failed
    BY <2>1 DEF ReadInv, Requests
  <2>3. rd # NoRequest
    BY <2>1, RequestTypes
  <2>4. Inbound' = Inbound
    BY <2>1, <2>2 DEF Inbound
  <2> QED BY <2>1, <2>2, <2>3, <2>4 DEF ReadInv
<1>4. CASE Warmup
  <2>1. PICK o \in PollRead(WarmupBuf) :
          /\ Apply(o) /\ discarded' = discarded \o o.bytes /\ stage' \in {"warmup", "recv"}
    BY <1>4 DEF Warmup
  <2>2. stage = "warmup" /\ UNCHANGED <<os, arrived, received>>
    BY <1>4 DEF Warmup
  <2>3. ~torn
    BY <2>1 DEF Apply
  <2>4. rd.size <= WarmupBuf /\ received = <<>>
    BY <2>2, <2>3 DEF ReadInv
  <2>5. GoodOutcome(o, WarmupBuf) /\ rd' = o.rd /\ input' = o.input
    BY <1>a, <2>1, <2>4, PollStep
  <2>6. /\ discarded \in Seq(Nat) /\ o.bytes \in Seq(Nat) /\ o.rd.done \in Seq(Nat)
        /\ o.input \in Seq(Nat) /\ rd.done \in Seq(Nat) /\ input \in Seq(Nat)
    BY <2>3, <2>5 DEF ReadInv, GoodOutcome, Requests
  <2>7. discarded' \in Seq(Nat)
    BY <2>1, <2>6, Closed
  <2>8. Inbound' = ((discarded \o o.bytes) \o o.rd.done) \o o.input
    <3>1. discarded' \o received' = discarded'
      BY <2>2, <2>4, <2>7, EmptyFirst
    <3> QED BY <2>1, <2>5, <3>1 DEF Inbound
  <2>9. Inbound = (discarded \o rd.done) \o input
    <3>1. discarded \o received = discarded
      BY <2>4, <2>6, EmptyFirst
    <3> QED BY <3>1 DEF Inbound
  <2>10. o.bytes \o (o.rd.done \o o.input) = rd.done \o input
    BY <2>5 DEF GoodOutcome
  <2>11. Inbound' = Inbound
    <3>1. Moved(discarded, o.bytes, rd.done, input, o.rd.done, o.input)
      BY <2>6, <2>10, Glue, Zenon
    <3> QED BY <2>8, <2>9, <3>1 DEF Moved
  <2>12. o.rd \in Requests /\ o.rd.size \in Nat /\ o.rd.size <= WarmupBuf
    BY <2>5 DEF GoodOutcome, Requests
  <2>13. o.rd.size <= RecvBuf
    BY <1>a, <2>12
  <2> QED BY <2>2, <2>3, <2>4, <2>5, <2>6, <2>7, <2>11, <2>12, <2>13 DEF ReadInv, GoodOutcome
<1>5. CASE WarmupTimeout
  <2>1. ~torn /\ stage = "warmup" /\ stage' \in {"warmup", "recv"}
        /\ UNCHANGED <<os, arrived, rd, input, discarded, received>>
    BY <1>5 DEF WarmupTimeout, readVars
  <2> QED BY <2>1 DEF ReadInv, Inbound
<1>6. CASE RecvRead
  <2>1. PICK o \in PollRead(RecvBuf) :
          /\ Apply(o) /\ received' = received \o o.bytes /\ stage' \in {"closed", stage}
    BY <1>6 DEF RecvRead
  <2>2. stage = "recv" /\ UNCHANGED <<os, arrived, discarded>>
    BY <1>6 DEF RecvRead
  <2>3. ~torn
    BY <2>1 DEF Apply
  <2>4. rd.size <= RecvBuf
    BY <2>3 DEF ReadInv
  <2>5. GoodOutcome(o, RecvBuf) /\ rd' = o.rd /\ input' = o.input
    BY <1>a, <2>1, <2>4, PollStep
  <2> DEFINE before == discarded \o received
  <2>6. /\ discarded \in Seq(Nat) /\ received \in Seq(Nat) /\ before \in Seq(Nat)
        /\ o.bytes \in Seq(Nat) /\ o.rd.done \in Seq(Nat)
        /\ o.input \in Seq(Nat) /\ rd.done \in Seq(Nat) /\ input \in Seq(Nat)
    BY <2>3, <2>5, Closed DEF ReadInv, GoodOutcome, Requests
  <2>7. received' \in Seq(Nat) /\ discarded' \o received' = before \o o.bytes
    <3>1. (discarded \o received) \o o.bytes = discarded \o (received \o o.bytes)
      <4>1. Grouped(discarded, received, o.bytes)
        BY <2>6, Associative, Zenon
      <4> QED BY <4>1 DEF Grouped
    <3>2. received \o o.bytes \in Seq(Nat)
      BY <2>6, Closed
    <3> QED BY <2>1, <2>2, <3>1, <3>2
  <2>8. Inbound' = ((before \o o.bytes) \o o.rd.done) \o o.input
    BY <2>5, <2>7 DEF Inbound
  <2>9. Inbound = (before \o rd.done) \o input
    BY DEF Inbound
  <2> HIDE DEF before
  <2>10. o.bytes \o (o.rd.done \o o.input) = rd.done \o input
    BY <2>5 DEF GoodOutcome
  <2>11. Inbound' = Inbound
    <3>1. Moved(before, o.bytes, rd.done, input, o.rd.done, o.input)
      BY <2>6, <2>10, Glue, Zenon
    <3> QED BY <2>8, <2>9, <3>1 DEF Moved
  <2>12. stage' # "warmup"
    BY <2>1, <2>2
  <2> QED BY <2>2, <2>3, <2>5, <2>6, <2>7, <2>11, <2>12 DEF ReadInv, GoodOutcome
<1>7. CASE KernelWrite \/ WriteCompleted \/ PollWrite \/ (\E size \in FrameSizes : WriteAll(size))
           \/ UNCHANGED serialVars
  <2>1. UNCHANGED <<os, arrived, rd, input, torn, discarded, received>> 
    BY <1>7 DEF KernelWrite, WriteCompleted, PollWrite, WriteAll, serialVars, readVars
  <2>2. stage' = stage \/ stage' = "closed"
    BY <1>7 DEF KernelWrite, WriteCompleted, PollWrite, Progress, WriteAll, serialVars
  <2> QED BY <2>1, <2>2 DEF ReadInv, Inbound
<1> QED BY <1>1, <1>2, <1>3, <1>4, <1>5, <1>6, <1>7 DEF SerialNext
-----------------------------------------------------------------------------
(* Writing.  What the kernel was given is all that write_all has left; what *)
(* it has written of that is not told to write_all yet.                    *)
Left == IF wr.flying THEN todo ELSE From(todo, Len(wr.done))

Balance ==
  /\ onWire \o Left = Numbers(handed)
  /\ wr.pending \/ wr = NoRequest
  /\ wr.flying => wr.done = <<>> /\ wr.size = Len(todo) /\ ~wr.completed
  /\ Len(wr.done) <= Len(todo)
  /\ wr # NoRequest => todo # <<>>

WriteInv ==
  /\ handed \in Nat /\ todo \in Seq(Nat) /\ onWire \in Seq(Nat) /\ wr \in Requests
  /\ stage # "closed" => Balance
  /\ IsPrefix(onWire, Numbers(handed))

LEMMA PrefixOfConcat ==
  ASSUME NEW a \in Seq(Nat), NEW b \in Seq(Nat) PROVE IsPrefix(a, a \o b)
<1>1. Len(a) \in Nat /\ Len(b) \in Nat /\ Len(a \o b) = Len(a) + Len(b)
  BY ConcatProperties, LenProperties
<1>2. SubSeq(a \o b, 1, Len(a)) = SubSeq(a, 1, Len(a))
  <2>1. CASE Len(a) = 0
    BY <2>1, SubSeqEmpty
  <2>2. CASE Len(a) # 0
    BY <1>1, <2>2, SubSeqOfConcat1
  <2> QED BY <2>1, <2>2
<1> QED BY <1>1, <1>2 DEF IsPrefix

LEMMA LeftIsSeq ==
  ASSUME todo \in Seq(Nat), wr \in Requests, Len(wr.done) <= Len(todo)
  PROVE  Left \in Seq(Nat)
<1>1. Len(wr.done) \in Nat /\ Len(todo) \in Nat
  BY DEF Requests
<1> QED BY <1>1, Split DEF Left

(* Numbers written in order are a prefix of those handed over. *)
LEMMA BalanceIsPrefix ==
  ASSUME todo \in Seq(Nat), onWire \in Seq(Nat), wr \in Requests, Balance
  PROVE  IsPrefix(onWire, Numbers(handed))
BY LeftIsSeq, PrefixOfConcat DEF Balance

LEMMA WriteInvInit == SerialInit => WriteInv
<1> SUFFICES ASSUME SerialInit PROVE WriteInv
  OBVIOUS
<1>1. handed = 0 /\ todo = <<>> /\ onWire = <<>> /\ wr = NoRequest
  BY DEF SerialInit
<1>2. Numbers(0) = <<>> /\ <<>> \in Seq(Nat) /\ Len(<<>>) = 0
  BY DEF Numbers
<1>3. Left = <<>>
  BY <1>1, <1>2, RequestTypes, SplitEnds DEF Left
<1>4. Balance
  BY <1>1, <1>2, <1>3, RequestTypes DEF Balance
<1> QED BY <1>1, <1>2, <1>4, RequestTypes, BalanceIsPrefix DEF WriteInv

(* A piece more is on the wire. *)
LEMMA PieceWritten ==
  ASSUME NEW n \in 0 .. Len(todo), onWire \in Seq(Nat), todo \in Seq(Nat)
  PROVE  /\ onWire \o First(todo, n) \in Seq(Nat) /\ From(todo, n) \in Seq(Nat)
         /\ (onWire \o First(todo, n)) \o From(todo, n) = onWire \o todo
<1>1. First(todo, n) \in Seq(Nat) /\ From(todo, n) \in Seq(Nat)
      /\ First(todo, n) \o From(todo, n) = todo
  BY Split
<1>2. Grouped(onWire, First(todo, n), From(todo, n))
  BY <1>1, Associative, Zenon
<1>3. onWire \o First(todo, n) \in Seq(Nat)
  BY <1>1, Closed, Zenon
<1> QED BY <1>1, <1>2, <1>3 DEF Grouped

LEMMA WriteInvStep == WriteInv /\ [SerialNext]_serialVars => WriteInv'
<1> SUFFICES ASSUME WriteInv, [SerialNext]_serialVars PROVE WriteInv'
  OBVIOUS
<1> DEFINE Types == handed \in Nat /\ todo \in Seq(Nat) /\ onWire \in Seq(Nat) /\ wr \in Requests
<1>a. Types /\ Len(todo) \in Nat /\ Len(wr.done) \in Nat /\ wr.done \in Seq(Nat)
  BY DEF WriteInv, Requests
(* It suffices to show the balance, or that nothing was written. *)
<1>b. ASSUME Types', stage' # "closed" => Balance',
             stage' = "closed" => UNCHANGED <<onWire, handed>>
      PROVE  WriteInv'
  <2>1. CASE stage' = "closed"
    BY <1>b, <2>1 DEF WriteInv
  <2>2. CASE stage' # "closed"
    <3>1. Left' \in Seq(Nat)
      BY <1>b, <2>2, LeftIsSeq, Split DEF Left, Balance, Requests
    <3>2. onWire' \o Left' = Numbers(handed')
      BY <1>b, <2>2 DEF Balance
    <3>3. IsPrefix(onWire', Numbers(handed'))
      BY <1>b, <3>1, <3>2, PrefixOfConcat
    <3> QED BY <1>b, <2>2, <3>3 DEF WriteInv
  <2> QED BY <2>1, <2>2
<1>1. CASE Arrive \/ KernelRead \/ ReadCompleted \/ Warmup \/ WarmupTimeout \/ RecvRead
           \/ UNCHANGED serialVars
  <2>1. UNCHANGED <<todo, wr, handed, onWire>>
    BY <1>1 DEF Arrive, KernelRead, ReadCompleted, Warmup, WarmupTimeout, RecvRead, serialVars,
                writeVars
  <2>2. stage' # "closed" => stage # "closed"
    BY <1>1 DEF Arrive, KernelRead, ReadCompleted, Warmup, WarmupTimeout, RecvRead, serialVars
  <2> QED BY <2>1, <2>2 DEF WriteInv, Balance, Left
<1>2. CASE KernelWrite
  <2>1. PICK n \in 0 .. wr.size, failed \in BOOLEAN :
          /\ wr' = [wr EXCEPT !.flying = FALSE, !.failed = failed, !.done = First(todo, n)]
          /\ onWire' = onWire \o First(todo, n)
    BY <1>2 DEF KernelWrite
  <2>2. wr.flying /\ stage # "closed" /\ UNCHANGED <<stage, todo, handed>>
    BY <1>2 DEF KernelWrite
  <2>3. Balance /\ n \in 0 .. Len(todo)
    BY <2>1, <2>2 DEF WriteInv, Balance
  <2>4. First(todo, n) \in Seq(Nat) /\ Len(First(todo, n)) = n
    BY <1>a, <2>3, Split
  <2>5. /\ wr' \in Requests /\ ~wr'.flying /\ wr'.done = First(todo, n)
        /\ wr'.pending = wr.pending /\ wr'.completed = wr.completed
    BY <1>a, <2>1, <2>4 DEF Requests
  <2>6. wr # NoRequest
    BY <2>2, RequestTypes
  <2>7. Left = todo /\ Left' = From(todo, n)
    BY <2>2, <2>4, <2>5 DEF Left
  <2>8. onWire' \in Seq(Nat) /\ onWire' \o Left' = onWire \o todo
    BY <1>a, <2>1, <2>3, <2>7, PieceWritten
  <2>9. Balance'
    BY <2>2, <2>3, <2>4, <2>5, <2>6, <2>7, <2>8 DEF Balance
  <2> QED BY <1>a, <1>b, <2>2, <2>5, <2>8, <2>9
<1>3. CASE WriteCompleted
  <2>1. /\ wr.pending /\ ~wr.flying /\ wr' = [wr EXCEPT !.completed = TRUE]
        /\ UNCHANGED <<stage, todo, handed, onWire>>
    BY <1>3 DEF WriteCompleted
  <2>2. /\ wr' \in Requests /\ wr'.done = wr.done /\ wr'.pending = wr.pending
        /\ wr'.flying = wr.flying
    BY <1>a, <2>1 DEF Requests
  <2>3. wr # NoRequest
    BY <2>1, RequestTypes
  <2>4. stage # "closed" => Balance'
    BY <2>1, <2>2, <2>3 DEF WriteInv, Balance, Left
  <2> QED BY <1>a, <1>b, <2>1, <2>2, <2>4
<1>4. ASSUME NEW size \in FrameSizes, WriteAll(size) PROVE WriteInv'
  <2>1. /\ stage = "recv" /\ todo = <<>> /\ todo' = [i \in 1 .. size |-> handed + i]
        /\ handed' = handed + size /\ UNCHANGED <<stage, wr, onWire>>
    BY <1>4 DEF WriteAll
  <2>2. size \in Nat \ {0}
    BY SerialAssumption DEF SerialAssumption
  <2>3. todo' \in Seq(Nat) /\ Len(todo') = size /\ todo' # <<>>
    <3>1. \A i \in 1 .. size : handed + i \in Nat
      BY <1>a, <2>2
    <3>2. todo' \in Seq(Nat)
      BY <2>1, <2>2, <3>1
    <3>3. Len(todo') = size
      BY <2>1, <2>2
    <3> QED BY <2>2, <3>2, <3>3
  <2>4. Balance /\ wr = NoRequest
    BY <2>1 DEF WriteInv, Balance
  <2>5. Left = <<>> /\ Left' = todo' /\ Len(wr.done) = 0
    BY <1>a, <2>1, <2>3, <2>4, RequestTypes, SplitEnds DEF Left
  <2>6. onWire = Numbers(handed)
    BY <1>a, <2>4, <2>5, EmptyFirst DEF Balance
  <2>7. onWire' \o Left' = Numbers(handed')
    BY <1>a, <2>1, <2>2, <2>5, <2>6, NumbersExtended
  <2>8. Balance'
    BY <2>1, <2>2, <2>3, <2>4, <2>5, <2>7, RequestTypes DEF Balance
  <2> QED BY <1>a, <1>b, <2>1, <2>2, <2>3, <2>8
<1>5. CASE PollWrite
  <2>0. stage = "recv" /\ todo # <<>> /\ handed' = handed /\ Balance
    BY <1>5 DEF PollWrite, WriteInv
  <2>1. ASSUME wr.completed, wr' = NoRequest, UNCHANGED onWire,
               Progress(IF wr.failed THEN 0 ELSE Len(wr.done))
        PROVE  WriteInv'
    <3> DEFINE n == IF wr.failed THEN 0 ELSE Len(wr.done)
    <3>1. todo' = From(todo, n) /\ stage' = (IF n = 0 THEN "closed" ELSE stage)
      BY <2>1 DEF Progress
    <3>2. n \in 0 .. Len(todo)
      BY <1>a, <2>0 DEF Balance
    <3>3. todo' \in Seq(Nat) /\ wr' \in Requests
      BY <1>a, <2>1, <3>1, <3>2, Split, RequestTypes
    <3>4. ASSUME n # 0 PROVE Balance'
      <4>1. n = Len(wr.done) /\ ~wr.flying
        BY <2>0, <2>1, <3>4 DEF Balance
      <4>2. Left = todo'
        BY <3>1, <4>1 DEF Left
      <4>3. Left' = todo' /\ Len(wr'.done) = 0 /\ Len(todo') \in Nat
        BY <2>1, <3>3, RequestTypes, SplitEnds DEF Left
      <4> QED BY <2>0, <2>1, <4>2, <4>3, RequestTypes DEF Balance
    <3> QED BY <1>a, <1>b, <2>0, <2>1, <3>1, <3>3, <3>4
  <2>2. ASSUME ~wr.pending, UNCHANGED wr, NEW n \in 0 .. Len(todo),
               onWire' = onWire \o First(todo, n), Progress(n)
        PROVE  WriteInv'
    <3>1. todo' = From(todo, n) /\ stage' = (IF n = 0 THEN "closed" ELSE stage)
      BY <2>2 DEF Progress
    <3>2. todo' \in Seq(Nat) /\ onWire' \in Seq(Nat) /\ onWire' \o todo' = onWire \o todo
      BY <1>a, <2>2, <3>1, PieceWritten
    <3>3. wr = NoRequest
      BY <2>0, <2>2 DEF Balance
    <3>4. Left = todo /\ Left' = todo' /\ Len(wr'.done) = 0 /\ Len(todo') \in Nat
      BY <1>a, <2>2, <3>2, <3>3, RequestTypes, SplitEnds DEF Left
    <3>5. Balance'
      <4>1. onWire \o todo = Numbers(handed)
        BY <2>0, <3>4 DEF Balance
      <4>2. onWire' \o Left' = Numbers(handed')
        BY <2>0, <3>2, <3>4, <4>1
      <4>3. wr' = NoRequest /\ ~wr'.flying
        BY <2>2, <3>3, RequestTypes
      <4> QED BY <3>4, <4>2, <4>3 DEF Balance
    <3>6. n = 0 => onWire' = onWire
      BY <1>a, <2>2, SplitEnds, EmptyFirst
    <3> QED BY <1>a, <1>b, <2>0, <2>2, <3>1, <3>2, <3>5, <3>6
  <2>3. ASSUME ~wr.pending, wr' = Flying(Len(todo)), UNCHANGED <<todo, stage, onWire>>
        PROVE  WriteInv'
    <3>1. wr = NoRequest
      BY <2>0, <2>3 DEF Balance
    <3>2. /\ wr' \in Requests /\ wr'.done = <<>> /\ wr'.size = Len(todo) /\ wr'.flying
          /\ wr'.pending /\ ~wr'.completed
      BY <1>a, <2>3, RequestTypes
    <3>3. Left = todo /\ Left' = todo
      BY <1>a, <2>3, <3>1, <3>2, RequestTypes, SplitEnds DEF Left
    <3>4. Balance'
      BY <1>a, <2>0, <2>3, <3>2, <3>3 DEF Balance
    <3> QED BY <1>a, <1>b, <2>0, <2>3, <3>2, <3>4
  <2>4. ASSUME wr' = Orphan(Len(todo)), stage' = "closed", UNCHANGED <<todo, onWire>>
        PROVE  WriteInv'
    <3>1. wr' \in Requests
      BY <1>a, <2>4, RequestTypes
    <3> QED BY <1>a, <1>b, <2>0, <2>4, <3>1
  <2> QED BY <1>5, <2>1, <2>2, <2>3, <2>4 DEF PollWrite
<1> QED BY <1>1, <1>2, <1>3, <1>4, <1>5 DEF SerialNext

(* The port is a pipe in both directions (windows/tokio_stream.rs:225-487, *)
(* posix/tokio_stream.rs:50-71, serialport-transport/lib.rs:149-183).      *)
THEOREM SerialLosslessHolds == SerialSpec => []SerialLossless
<1>1. ReadInv /\ WriteInv => SerialLossless
  BY DEF ReadInv, WriteInv, Inbound, Balance, Left, SerialLossless
<1> QED BY ReadInvInit, ReadInvStep, WriteInvInit, WriteInvStep, <1>1, PTL DEF SerialSpec
-----------------------------------------------------------------------------
(* What the peer writes for the payloads ps. *)
Frames(c, ps) == [i \in 1 .. Len(ps) |-> Encode(c, ps[i])]
Stream(c, ps) == FlattenSeq(Frames(c, ps))

(* What may lie ahead of the decoder when the payloads ps do. *)
Ahead(c, ps) ==
  IF c = "slip_lead" /\ Stream(c, ps) # <<>> THEN {Stream(c, ps), Tail(Stream(c, ps))}
  ELSE {Stream(c, ps)}

Stands(c, ps, x, y) == x \in Seq(Bytes) /\ y \in Seq(Bytes) /\ x \o y \in Ahead(c, ps)

LEMMA EncodeType ==
  ASSUME NEW c \in AllCodecs, NEW p \in Carried(c)
  PROVE  Encode(c, p) \in Seq(Bytes)
<1>1. p \in Seq(Bytes)
  BY DEF Carried
<1>2. CASE c \in Framed \ {"slip_lead"}
  BY <1>2, EncodeFrame DEF FrameOf, Terminated
<1>3. CASE c = "slip_lead"
  <2>1. Encode("slip", p) \in Seq(Bytes) /\ Encode(c, p) = <<END>> \o Encode("slip", p)
    BY <1>3, LeadFrame DEF FrameOf, Terminated
  <2>2. <<END>> \in Seq(Bytes)
    BY SpecialBytes
  <2> QED BY <2>1, <2>2, ConcatProperties
<1>4. CASE c \in Unframed
  BY <1>1, <1>4 DEF Encode, Unframed
<1> QED BY <1>2, <1>3, <1>4 DEF AllCodecs

LEMMA FramesType ==
  ASSUME NEW c \in AllCodecs, NEW ps \in Seq(Carried(c))
  PROVE  /\ Frames(c, ps) \in Seq(Seq(Bytes)) /\ Len(Frames(c, ps)) = Len(ps)
         /\ Stream(c, ps) \in Seq(Bytes)
<1>1. \A i \in 1 .. Len(ps) : Encode(c, ps[i]) \in Seq(Bytes)
  <2> TAKE i \in 1 .. Len(ps)
  <2>1. ps[i] \in Carried(c)
    OBVIOUS
  <2> QED BY <2>1, EncodeType
<1>2. Frames(c, ps) \in Seq(Seq(Bytes)) /\ Len(Frames(c, ps)) = Len(ps)
  BY <1>1 DEF Frames
<1> QED BY <1>2, FlattenType DEF Stream

LEMMA StreamFirst ==
  ASSUME NEW c \in AllCodecs, NEW ps \in Seq(Carried(c)), ps # <<>>
  PROVE  Stream(c, ps) = Encode(c, ps[1]) \o Stream(c, Tail(ps))
<1>1. /\ Tail(ps) \in Seq(Carried(c)) /\ Len(Tail(ps)) = Len(ps) - 1
      /\ Len(ps) \in Nat \ {0}
      /\ \A i \in 1 .. Len(ps) - 1 : Tail(ps)[i] = ps[i + 1]
  OBVIOUS
<1>2. Tail(Frames(c, ps)) = Frames(c, Tail(ps)) /\ Frames(c, ps)[1] = Encode(c, ps[1])
  <2>1. Frames(c, ps) # <<>> /\ Frames(c, ps)[1] = Encode(c, ps[1])
    BY <1>1 DEF Frames
  <2>2. /\ Tail(Frames(c, ps)) \in Seq(Seq(Bytes)) /\ Frames(c, Tail(ps)) \in Seq(Seq(Bytes))
        /\ Len(Tail(Frames(c, ps))) = Len(ps) - 1 /\ Len(Frames(c, Tail(ps))) = Len(ps) - 1
    <3>1. Frames(c, ps) \in Seq(Seq(Bytes)) /\ Len(Frames(c, ps)) = Len(ps)
      BY FramesType
    <3>2. Frames(c, Tail(ps)) \in Seq(Seq(Bytes)) /\ Len(Frames(c, Tail(ps))) = Len(ps) - 1
      BY <1>1, FramesType
    <3> QED BY <2>1, <3>1, <3>2
  <2>3. \A i \in 1 .. Len(ps) - 1 : Tail(Frames(c, ps))[i] = Frames(c, Tail(ps))[i]
    <3> TAKE i \in 1 .. Len(ps) - 1
    <3>1. Tail(Frames(c, ps))[i] = Frames(c, ps)[i + 1]
      BY <1>1, <2>1, FramesType
    <3>2. PICK k \in 1 .. Len(ps) : k = i + 1
      BY <1>1
    <3>3. Frames(c, ps)[k] = Encode(c, ps[k]) /\ Tail(ps)[i] = ps[k]
      BY <1>1, <3>2 DEF Frames
    <3>4. Frames(c, Tail(ps))[i] = Encode(c, Tail(ps)[i])
      BY <1>1 DEF Frames
    <3> QED BY <3>1, <3>2, <3>3, <3>4
  <2> QED BY <2>1, <2>2, <2>3, SeqEqual
<1>3. Frames(c, ps) # <<>>
  BY <1>1, FramesType
<1> QED BY <1>2, <1>3, FramesType, FlattenFirst DEF Stream

LEMMA StreamMore ==
  ASSUME NEW c \in AllCodecs, NEW ps \in Seq(Carried(c)), NEW p \in Carried(c)
  PROVE  Stream(c, Append(ps, p)) = Stream(c, ps) \o Encode(c, p)
<1>1. /\ Append(ps, p) \in Seq(Carried(c)) /\ Len(Append(ps, p)) = Len(ps) + 1
      /\ \A i \in 1 .. Len(ps) : Append(ps, p)[i] = ps[i]
      /\ Append(ps, p)[Len(ps) + 1] = p
  OBVIOUS
<1>2. Encode(c, p) \in Seq(Bytes) /\ Frames(c, ps) \in Seq(Seq(Bytes)) /\ Len(Frames(c, ps)) = Len(ps)
  BY EncodeType, FramesType
<1>3. Frames(c, Append(ps, p)) = Append(Frames(c, ps), Encode(c, p))
  <2>1. /\ Frames(c, Append(ps, p)) \in Seq(Seq(Bytes))
        /\ Len(Frames(c, Append(ps, p))) = Len(ps) + 1
    BY <1>1, FramesType
  <2>2. /\ Append(Frames(c, ps), Encode(c, p)) \in Seq(Seq(Bytes))
        /\ Len(Append(Frames(c, ps), Encode(c, p))) = Len(ps) + 1
        /\ \A i \in 1 .. Len(ps) : Append(Frames(c, ps), Encode(c, p))[i] = Frames(c, ps)[i]
        /\ Append(Frames(c, ps), Encode(c, p))[Len(ps) + 1] = Encode(c, p)
    BY <1>2
  <2>3. ASSUME NEW i \in 1 .. Len(ps) + 1
        PROVE  Frames(c, Append(ps, p))[i] = Append(Frames(c, ps), Encode(c, p))[i]
    <3>1. Frames(c, Append(ps, p))[i] = Encode(c, Append(ps, p)[i])
      BY <1>1 DEF Frames
    <3>2. CASE i = Len(ps) + 1
      BY <1>1, <2>2, <3>1, <3>2
    <3>3. CASE i # Len(ps) + 1
      <4>1. i \in 1 .. Len(ps)
        BY <3>3
      <4>2. Frames(c, ps)[i] = Encode(c, ps[i])
        BY <4>1 DEF Frames
      <4> QED BY <1>1, <2>2, <3>1, <4>1, <4>2
    <3> QED BY <3>2, <3>3
  <2> QED BY <2>1, <2>2, <2>3, SeqEqual
<1> QED BY <1>2, <1>3, FlattenAppend DEF Stream

LEMMA StreamNone == ASSUME NEW c PROVE Stream(c, <<>>) = <<>>
<1>1. Frames(c, <<>>) = <<>>
  BY DEF Frames
<1> QED BY <1>1 DEF Stream, FlattenSeq
-----------------------------------------------------------------------------
(* Decoding x, in front of y, when frame t of p is ahead and f behind it.  *)
Decodes(c, x, y, p, f) ==
  \/ \E r \in Seq(Bytes) : DecodeFramed(c, x) = Some(p, r) /\ r \o y = f /\ Len(r) < Len(x)
  \/ DecodeFramed(c, x) = Nothing(x)

LEMMA TurnFrame ==
  ASSUME NEW c \in Framed, NEW t, NEW p, FrameOf(c, t, p),
         NEW x \in Seq(Bytes), NEW y \in Seq(Bytes), NEW f \in Seq(Bytes), SameWhole(x, y, t, f)
  PROVE  Decodes(c, x, y, p, f)
<1>1. Terminated(c, t) /\ t \in Seq(Bytes) /\ Len(t) \in Nat /\ 1 <= Len(t)
  BY DEF FrameOf, Terminated, FirstEnd
<1>2. CASE Len(t) <= Len(x)
  <2>0. PICK r \in Seq(Bytes) : Remains(x, y, t, f, r)
    BY <1>1, <1>2, CutBehind, Zenon
  <2>1. x = t \o r /\ r \o y = f /\ Len(r) = Len(x) - Len(t)
    BY <2>0 DEF Remains
  <2>2. DecodeFramed(c, x) = Some(p, r)
    BY <1>1, <2>1, DecodeWhole DEF FrameOf
  <2>3. Len(r) < Len(x)
    BY <1>1, <1>2, <2>1
  <2> QED BY <2>1, <2>2, <2>3 DEF Decodes
<1>3. CASE ~(Len(t) <= Len(x))
  <2>1. x = SubSeq(t, 1, Len(x)) /\ Len(x) < Len(t)
    BY <1>1, <1>3, CutBefore, Zenon
  <2>2. Len(x) \in 0 .. Len(t) - 1
    BY <1>1, <2>1
  <2>3. DecodeFramed(c, SubSeq(t, 1, Len(x))) = Nothing(SubSeq(t, 1, Len(x)))
    BY <1>1, <2>2, DecodePart
  <2> QED BY <2>1, <2>3 DEF Decodes
<1> QED BY <1>2, <1>3

LEMMA TurnEmpty ==
  ASSUME NEW c \in Framed
  PROVE  DecodeFramed(c, <<>>) = Nothing(<<>>)
BY DecodeNone

LEMMA TurnLead ==
  ASSUME NEW x \in Seq(Bytes), x # <<>>, x[1] = END
  PROVE  DecodeFramed("slip_lead", x) = Nothing(Tail(x))
<1> DEFINE c == "slip_lead"
           t == <<END>>
<1>1. c \in Framed /\ Delimiter(c) = <<END>>
  BY DEF Framed, Delimiter
<1>2. t \in Seq(Bytes) /\ Tail(x) \in Seq(Bytes) /\ x = t \o Tail(x)
  BY SpecialBytes
<1>3. Terminated(c, t)
  <2>1. Len(t) = 1 /\ t[1] = END
    OBVIOUS
  <2>2. EndsAt(t, 1, Delimiter(c))
    <3>1. Delimiter(c) = t
      BY <1>1
    <3> HIDE DEF t, c
    <3>2. \A j \in 1 .. Len(t) : 1 - Len(t) + j = j
      BY <2>1
    <3>3. 1 >= Len(t)
      BY <2>1
    <3> QED BY <3>1, <3>2, <3>3 DEF EndsAt
  <2> HIDE DEF t
  <2>3. FirstEnd(c, t, 1)
    BY <2>1, <2>2 DEF FirstEnd
  <2> QED BY <1>2, <2>1, <2>3 DEF Terminated
<1>4. Body(c, t) = <<>>
  <2>1. Body(c, t) = SubSeq(t, 1, 0)
    <3>1. Delimiter(c) = t /\ Len(t) = 1
      BY <1>1
    <3> HIDE DEF t, c
    <3> QED BY <3>1 DEF Body
  <2> QED BY <2>1
<1>5. DecodeFrame(c, <<>>, Tail(x)) = Nothing(Tail(x))
  BY DEF DecodeFrame
<1>6. DecodeFramed(c, t \o Tail(x)) = DecodeFrame(c, Body(c, t), Tail(x))
  <2> HIDE DEF c, t
  <2> QED BY <1>1, <1>2, <1>3, DecodeWhole
<1> QED BY <1>2, <1>4, <1>5, <1>6

(* What one call of decode does when the payloads ps lie ahead. *)
OneTurn(c, ps, x, y, r) ==
  \/ /\ r.tag = "none" /\ Stands(c, ps, r.rest, y)
     /\ c # "slip_lead" => r = Nothing(x)
  \/ /\ r.tag = "some" /\ ps # <<>> /\ r.payload = ps[1]
     /\ Stands(c, Tail(ps), r.rest, y) /\ Len(r.rest) < Len(x)

LEMMA Results ==
  ASSUME NEW p, NEW r
  PROVE  /\ Some(p, r).tag = "some" /\ Some(p, r).payload = p /\ Some(p, r).rest = r
         /\ Nothing(r).tag = "none" /\ Nothing(r).rest = r
BY DEF Some, Nothing

LEMMA Turn ==
  ASSUME NEW c \in Framed, NEW ps \in Seq(Carried(c)), NEW x, NEW y, Stands(c, ps, x, y)
  PROVE  OneTurn(c, ps, x, y, DecodeFramed(c, x))
<1> DEFINE s == Stream(c, ps)
           f == Stream(c, Tail(ps))
<1>1. /\ c \in AllCodecs /\ x \in Seq(Bytes) /\ y \in Seq(Bytes) /\ x \o y \in Ahead(c, ps)
      /\ s \in Seq(Bytes)
  BY FramesType DEF Stands, AllCodecs
<1>2. ps = <<>> => s = <<>>
  BY StreamNone
<1>3. ASSUME ps # <<>>
      PROVE  /\ s = Encode(c, ps[1]) \o f /\ f \in Seq(Bytes)
             /\ ps[1] \in Carried(c) /\ Encode(c, ps[1]) \in Seq(Bytes)
  <2>1. Tail(ps) \in Seq(Carried(c)) /\ ps[1] \in Carried(c)
    BY <1>3
  <2> QED BY <1>1, <1>3, <2>1, StreamFirst, FramesType, EncodeType
<1>4. f \in Ahead(c, Tail(ps))
  BY DEF Ahead
<1>5. CASE ps = <<>>
  <2>1. x = <<>> /\ y = <<>>
    BY <1>1, <1>2, <1>5, EmptyParts, Zenon DEF Ahead, s
  <2> QED BY <2>1, TurnEmpty, Results DEF OneTurn
<1> HIDE DEF s, f
<1>6. ASSUME NEW t, FrameOf(c, t, ps[1]), ps # <<>>, x \o y = t \o f
      PROVE  OneTurn(c, ps, x, y, DecodeFramed(c, x))
  <2>1. Decodes(c, x, y, ps[1], f)
    <3>1. SameWhole(x, y, t, f)
      BY <1>6 DEF SameWhole
    <3> QED BY <1>1, <1>3, <1>6, <3>1, TurnFrame, Zenon
  <2>2. CASE DecodeFramed(c, x) = Nothing(x)
    BY <2>2, Results DEF OneTurn
  <2>3. ASSUME NEW r \in Seq(Bytes), DecodeFramed(c, x) = Some(ps[1], r), r \o y = f, Len(r) < Len(x)
        PROVE  OneTurn(c, ps, x, y, DecodeFramed(c, x))
    <3>1. Stands(c, Tail(ps), r, y)
      BY <1>1, <1>4, <2>3 DEF Stands
    <3> QED BY <1>6, <2>3, <3>1, Results DEF OneTurn
  <2> QED BY <2>1, <2>2, <2>3 DEF Decodes
<1>7. CASE ps # <<>> /\ c # "slip_lead"
  <2>1. FrameOf(c, Encode(c, ps[1]), ps[1])
    BY <1>3, <1>7, EncodeFrame
  <2>2. x \o y = Encode(c, ps[1]) \o f
    BY <1>1, <1>3, <1>7 DEF Ahead, s
  <2> QED BY <1>6, <1>7, <2>1, <2>2
<1>8. CASE ps # <<>> /\ c = "slip_lead"
  <2> DEFINE e == Encode("slip", ps[1])
  <2>1. FrameOf(c, e, ps[1]) /\ Encode(c, ps[1]) = <<END>> \o e
    BY <1>3, <1>8, LeadFrame
  <2>2. e \in Seq(Bytes) /\ <<END>> \in Seq(Bytes)
    BY <2>1, SpecialBytes DEF FrameOf, Terminated
  <2> HIDE DEF e
  <2>3. Grouped(<<END>>, e, f)
    BY <1>3, <1>8, <2>2, Regroup, Zenon
  <2>4. s = <<END>> \o (e \o f) /\ e \o f \in Seq(Bytes)
    <3>1. s = (<<END>> \o e) \o f
      BY <1>3, <1>8, <2>1
    <3>2. e \o f \in Seq(Bytes)
      BY <1>3, <1>8, <2>2, ConcatProperties, Zenon
    <3> QED BY <2>3, <3>1, <3>2, Zenon DEF Grouped
  <2>5. s # <<>> /\ s[1] = END /\ Tail(s) = e \o f
    BY <2>4, SpecialBytes, ConsParts, Zenon
  <2>6. CASE x \o y = Tail(s)
    BY <1>6, <1>8, <2>1, <2>5, <2>6
  <2>7. CASE x \o y = s /\ x = <<>>
    BY <1>1, <2>7, TurnEmpty, Results DEF OneTurn
  <2>8. CASE x \o y = s /\ x # <<>>
    <3>1. x[1] = END /\ Tail(x) \in Seq(Bytes) /\ Tail(x) \o y = Tail(s)
      <4>1. x[1] = s[1] /\ Tail(x) \o y = Tail(x \o y)
        BY <1>1, <2>8, HeadOfConcat, Zenon
      <4> QED BY <1>1, <2>5, <2>8, <4>1
    <3>2. DecodeFramed(c, x) = Nothing(Tail(x))
      BY <1>1, <1>8, <2>8, <3>1, TurnLead
    <3>3. Tail(s) \in Ahead(c, ps)
      BY <1>8, <2>5 DEF Ahead, s
    <3>4. Stands(c, ps, Tail(x), y)
      BY <1>1, <3>1, <3>3 DEF Stands
    <3> QED BY <1>8, <3>2, <3>4, Results DEF OneTurn
  <2>9. x \o y = s \/ x \o y = Tail(s)
    BY <1>1 DEF Ahead, s
  <2> QED BY <2>6, <2>7, <2>8, <2>9
<1> QED BY <1>5, <1>7, <1>8
-----------------------------------------------------------------------------
(* The decode loop is a function over buffers: what it does with x, if f   *)
(* is what it does with shorter ones.                                      *)
LoopAt(f, c, due, x) ==
  LET r == DecodeOne(c, x, due)
  IN  CASE r.tag = "some"  -> [f[r.rest] EXCEPT !.msgs = <<r.payload>> \o @]
        [] r.tag = "none"  -> [buf |-> r.rest, msgs |-> <<>>, bad |-> FALSE]
        [] r.tag = "error" -> [buf |-> <<>>, msgs |-> <<>>, bad |-> TRUE]

Loops(f, c, due, S) == f = [x \in S |-> LoopAt(f, c, due, x)]

Short(n) == {x \in Seq(Bytes) : Len(x) <= n}

(* A message takes bytes away. *)
Shrinks(r, x) ==
  /\ r.tag \in {"some", "none", "error"}
  /\ r.rest \in Seq(Bytes)
  /\ r.tag = "some" => Len(r.rest) < Len(x)

LEMMA FrameRest ==
  ASSUME NEW c \in Framed, NEW b, NEW rest
  PROVE  DecodeFrame(c, b, rest).rest = rest /\ DecodeFrame(c, b, rest).tag \in {"some", "none", "error"}
BY DEF DecodeFrame, Framed, Some, Nothing, Bad

LEMMA FramedShrinks ==
  ASSUME NEW c \in Framed, NEW x \in Seq(Bytes)
  PROVE  Shrinks(DecodeFramed(c, x), x)
<1> DEFINE T == {i \in 1 .. Len(x) : EndsAt(x, i, Delimiter(c))}
<1>1. CASE T = {}
  <2>1. DecodeFramed(c, x) = Nothing(x)
    BY <1>1, DecodeNone
  <2> QED BY <2>1 DEF Shrinks, Nothing
<1>2. CASE T # {}
  <2>1. T \subseteq Nat
    OBVIOUS
  <2>2. PICK e \in T : \A m \in T : e <= m
    <3> HIDE DEF T
    <3> QED BY <1>2, <2>1, LeastNumber, Zenon
  <2>3. FirstEnd(c, x, e)
    <3>1. e \in 1 .. Len(x) /\ EndsAt(x, e, Delimiter(c))
      OBVIOUS
    <3>2. ASSUME NEW j \in 1 .. e - 1 PROVE ~EndsAt(x, j, Delimiter(c))
      <4>1. j \in 1 .. Len(x) /\ ~(e <= j)
        BY <3>1
      <4> QED BY <2>2, <4>1
    <3> QED BY <3>1, <3>2 DEF FirstEnd
  <2> DEFINE rest == SubSeq(x, e + 1, Len(x))
             body == SubSeq(x, 1, e - Len(Delimiter(c)))
  <2>4. rest \in Seq(Bytes) /\ Len(rest) < Len(x)
    BY <2>3 DEF FirstEnd
  <2>5. DecodeFramed(c, x) = DecodeFrame(c, body, rest)
    <3>1. Len(x) \in Nat
      OBVIOUS
    <3> HIDE DEF T
    <3> QED BY <2>3, <3>1, DecodeAt
  <2> HIDE DEF rest, body
  <2> QED BY <2>4, <2>5, FrameRest DEF Shrinks
<1> QED BY <1>1, <1>2

LEMMA OneShrinks ==
  ASSUME NEW c \in AllCodecs, NEW due, NEW x \in Seq(Bytes)
  PROVE  Shrinks(DecodeOne(c, x, due), x)
<1>1. CASE c \in Framed
  <2>1. c \notin Unframed
    BY <1>1 DEF Framed, Unframed
  <2>2. DecodeOne(c, x, due) = DecodeFramed(c, x)
    BY <1>1, <2>1 DEF DecodeOne
  <2> QED BY <1>1, <2>2, FramedShrinks
<1>2. CASE c \in Unframed
  <2>1. x # <<>> => 0 < Len(x)
    OBVIOUS
  <2>2. c \notin Framed /\ <<>> \in Seq(Bytes) /\ Len(<<>>) = 0
    BY <1>2 DEF Framed, Unframed
  <2> QED BY <1>2, <2>1, <2>2 DEF DecodeOne, Shrinks, Some, Nothing
<1> QED BY <1>1, <1>2 DEF AllCodecs

LEMMA SameLoop ==
  ASSUME NEW f, NEW g, NEW c, NEW due, NEW x, Shrinks(DecodeOne(c, x, due), x),
         DecodeOne(c, x, due).tag = "some"
           => f[DecodeOne(c, x, due).rest] = g[DecodeOne(c, x, due).rest]
  PROVE  LoopAt(f, c, due, x) = LoopAt(g, c, due, x)
<1> DEFINE r == DecodeOne(c, x, due)
<1> HIDE DEF r
<1>1. r.tag = "some" => f[r.rest] = g[r.rest]
  BY DEF r
<1>2. CASE r.tag = "some"
  BY <1>1, <1>2 DEF LoopAt, r
<1>3. CASE r.tag = "none"
  BY <1>3 DEF LoopAt, r
<1>4. CASE r.tag = "error"
  BY <1>4 DEF LoopAt, r
<1>5. r.tag \in {"some", "none", "error"}
  BY DEF Shrinks, r
<1> QED BY <1>2, <1>3, <1>4, <1>5

LEMMA LoopValue ==
  ASSUME NEW f, NEW c, NEW due, NEW S, Loops(f, c, due, S), NEW x \in S
  PROVE  f[x] = LoopAt(f, c, due, x)
<1>1. f = [y \in S |-> LoopAt(f, c, due, y)]
  BY DEF Loops
<1>2. [y \in S |-> LoopAt(f, c, due, y)][x] = LoopAt(f, c, due, x)
  OBVIOUS
<1> QED BY <1>1, <1>2, Zenon

Agree(f, g, x) == f[x] = g[x]

LEMMA LoopUnique ==
  ASSUME NEW c \in AllCodecs, NEW due, NEW n \in Nat, NEW m \in Nat, NEW f, NEW g,
         Loops(f, c, due, Short(n)), Loops(g, c, due, Short(m)),
         NEW x \in Seq(Bytes), Len(x) <= n, Len(x) <= m
  PROVE  Agree(f, g, x)
<1> DEFINE T == {k \in Nat : \E y \in Seq(Bytes) : Len(y) = k /\ k <= n /\ k <= m /\ f[y] # g[y]}
<1>1. T = {}
  <2> SUFFICES ASSUME T # {} PROVE FALSE
    OBVIOUS
  <2>1. PICK k \in T : \A l \in T : k <= l
    <3>1. T \subseteq Nat
      OBVIOUS
    <3> HIDE DEF T
    <3> QED BY <3>1, LeastNumber, Zenon
  <2>2. PICK y \in Seq(Bytes) : Len(y) = k /\ k <= n /\ k <= m /\ f[y] # g[y]
    OBVIOUS
  <2> DEFINE r == DecodeOne(c, y, due)
  <2>3. Shrinks(r, y)
    BY OneShrinks
  <2> HIDE DEF r
  <2>4. ASSUME r.tag = "some" PROVE f[r.rest] = g[r.rest]
    <3>1. r.rest \in Seq(Bytes) /\ Len(r.rest) < Len(y) /\ Len(r.rest) \in Nat
      BY <2>3, <2>4 DEF Shrinks
    <3>2. Len(r.rest) <= n /\ Len(r.rest) <= m /\ ~(k <= Len(r.rest))
      BY <2>2, <3>1
    <3>3. Len(r.rest) \notin T
      BY <2>1, <3>2
    <3> QED BY <3>1, <3>2, <3>3
  <2>5. LoopAt(f, c, due, y) = LoopAt(g, c, due, y)
    BY <2>3, <2>4, SameLoop DEF r
  <2>6. y \in Short(n) /\ y \in Short(m)
    BY <2>2 DEF Short
  <2>7. f[y] = LoopAt(f, c, due, y) /\ g[y] = LoopAt(g, c, due, y)
    BY <2>6, LoopValue
  <2> QED BY <2>2, <2>5, <2>7
<1>2. Len(x) \in Nat /\ Len(x) \notin T
  BY <1>1
<1> QED BY <1>2 DEF Agree

LEMMA LoopExists ==
  ASSUME NEW c \in AllCodecs, NEW due, NEW n \in Nat
  PROVE  \E f : Loops(f, c, due, Short(n))
<1> DEFINE T == {k \in Nat : ~\E f : Loops(f, c, due, Short(k))}
<1>1. T = {}
  <2> SUFFICES ASSUME T # {} PROVE FALSE
    OBVIOUS
  <2>1. PICK k \in T : \A l \in T : k <= l
    <3>1. T \subseteq Nat
      OBVIOUS
    <3> HIDE DEF T
    <3> QED BY <3>1, LeastNumber, Zenon
  <2>2. k \in Nat /\ ~\E f : Loops(f, c, due, Short(k))
    OBVIOUS
  <2>3. \E f : k # 0 => Loops(f, c, due, Short(k - 1))
    <3>1. CASE k # 0
      <4>1. k - 1 \in Nat /\ ~(k <= k - 1)
        BY <2>2, <3>1
      <4>2. k - 1 \notin T
        BY <2>1, <4>1
      <4> QED BY <4>1, <4>2
    <3> QED BY <3>1
  <2>4. PICK f : k # 0 => Loops(f, c, due, Short(k - 1))
    BY <2>3
  <2> DEFINE g == [x \in Short(k) |-> LoopAt(f, c, due, x)]
  <2> HIDE DEF T
  <2>5. ASSUME NEW x \in Short(k) PROVE LoopAt(f, c, due, x) = LoopAt(g, c, due, x)
    <3> DEFINE r == DecodeOne(c, x, due)
    <3>1. x \in Seq(Bytes) /\ Len(x) <= k /\ Shrinks(r, x)
      BY OneShrinks DEF Short
    <3> HIDE DEF r
    <3>2. ASSUME r.tag = "some" PROVE f[r.rest] = g[r.rest]
      <4>1. r.rest \in Seq(Bytes) /\ Len(r.rest) < Len(x) /\ Len(r.rest) \in Nat /\ Len(x) \in Nat
        BY <3>1, <3>2 DEF Shrinks
      <4>2. k # 0 /\ Len(r.rest) <= k - 1 /\ Len(r.rest) <= k
        BY <2>2, <3>1, <4>1
      <4>3. r.rest \in Short(k - 1) /\ r.rest \in Short(k)
        BY <4>1, <4>2 DEF Short
      <4>4. f[r.rest] = LoopAt(f, c, due, r.rest)
        BY <2>4, <4>2, <4>3, LoopValue
      <4> QED BY <4>3, <4>4
    <3> HIDE DEF g
    <3> QED BY <3>1, <3>2, SameLoop DEF r
  <2>6. Loops(g, c, due, Short(k))
    <3>1. g = [x \in Short(k) |-> LoopAt(g, c, due, x)]
      BY <2>5
    <3> HIDE DEF g
    <3> QED BY <3>1 DEF Loops
  <2> QED BY <2>2, <2>6
<1> QED BY <1>1

LEMMA LoopForAll ==
  ASSUME NEW c \in AllCodecs, NEW due
  PROVE  \E f : Loops(f, c, due, Seq(Bytes))
<1> DEFINE G(n) == CHOOSE f : Loops(f, c, due, Short(n))
           f == [x \in Seq(Bytes) |-> G(Len(x))[x]]
<1>1. ASSUME NEW n \in Nat PROVE Loops(G(n), c, due, Short(n))
  BY LoopExists
<1> HIDE DEF G
<1>2. ASSUME NEW x \in Seq(Bytes) PROVE G(Len(x))[x] = LoopAt(f, c, due, x)
  <2>1. Len(x) \in Nat /\ x \in Short(Len(x))
    BY DEF Short
  <2>2. G(Len(x))[x] = LoopAt(G(Len(x)), c, due, x)
    BY <1>1, <2>1, LoopValue
  <2> DEFINE r == DecodeOne(c, x, due)
  <2>3. Shrinks(r, x)
    BY OneShrinks
  <2> HIDE DEF r
  <2>4. ASSUME r.tag = "some" PROVE G(Len(x))[r.rest] = f[r.rest]
    <3>1. r.rest \in Seq(Bytes) /\ Len(r.rest) < Len(x) /\ Len(r.rest) \in Nat
      BY <2>3, <2>4 DEF Shrinks
    <3>2. Loops(G(Len(x)), c, due, Short(Len(x))) /\ Loops(G(Len(r.rest)), c, due, Short(Len(r.rest)))
      BY <1>1, <2>1, <3>1
    <3>3. Len(r.rest) <= Len(x) /\ Len(r.rest) <= Len(r.rest)
      BY <2>1, <3>1
    <3>4. G(Len(x))[r.rest] = G(Len(r.rest))[r.rest]
      <4> DEFINE n == Len(x)
                 m == Len(r.rest)
      <4>1. n \in Nat /\ m \in Nat /\ m <= n /\ m <= m
        BY <2>1, <3>1, <3>3
      <4>2. Loops(G(n), c, due, Short(n)) /\ Loops(G(m), c, due, Short(m))
        BY <3>2
      <4>3. r.rest \in Seq(Bytes) /\ Len(r.rest) <= n /\ Len(r.rest) <= m
        BY <3>1, <3>3
      <4> HIDE DEF n, m
      <4>4. Agree(G(n), G(m), r.rest)
        BY <4>1, <4>2, <4>3, LoopUnique, Zenon
      <4> QED BY <4>4 DEF n, m, Agree
    <3> QED BY <3>1, <3>4
  <2> HIDE DEF f
  <2> QED BY <2>2, <2>3, <2>4, SameLoop DEF r
<1>3. Loops(f, c, due, Seq(Bytes))
  <2>1. f = [x \in Seq(Bytes) |-> LoopAt(f, c, due, x)]
    BY <1>2
  <2> HIDE DEF f
  <2> QED BY <2>1 DEF Loops
<1> QED BY <1>3

(* The loop as the code has it: decode, and go on with what is left. *)
LoopTurn(c, due, x, r, l) ==
  /\ r.tag = "some" => l = [DecodeLoop(c, r.rest, due) EXCEPT !.msgs = <<r.payload>> \o @]
  /\ r.tag = "none" => l = [buf |-> r.rest, msgs |-> <<>>, bad |-> FALSE]
  /\ r.tag = "error" => l = [buf |-> <<>>, msgs |-> <<>>, bad |-> TRUE]

LEMMA LoopIs ==
  ASSUME NEW c \in AllCodecs, NEW due, NEW x \in Seq(Bytes)
  PROVE  LoopTurn(c, due, x, DecodeOne(c, x, due), DecodeLoop(c, x, due))
<1> DEFINE f == CHOOSE g : Loops(g, c, due, Seq(Bytes))
<1>1. \A y : DecodeLoop(c, y, due) = f[y]
  BY Zenon DEF DecodeLoop, Loops, LoopAt
<1>2. Loops(f, c, due, Seq(Bytes))
  BY LoopForAll
<1> HIDE DEF f
<1>3. f[x] = LoopAt(f, c, due, x)
  BY <1>2, LoopValue
<1> DEFINE r == DecodeOne(c, x, due)
<1> HIDE DEF r
<1>4. LoopTurn(c, due, x, r, LoopAt(f, c, due, x))
  <2>1. DecodeLoop(c, r.rest, due) = f[r.rest]
    BY <1>1
  <2>2. CASE r.tag = "some"
    BY <2>1, <2>2 DEF LoopTurn, LoopAt, r
  <2>3. CASE r.tag = "none"
    BY <2>3 DEF LoopTurn, LoopAt, r
  <2>4. CASE r.tag \notin {"some", "none"}
    BY <2>4 DEF LoopTurn, LoopAt, r
  <2> QED BY <2>2, <2>3, <2>4
<1>5. DecodeLoop(c, x, due) = f[x]
  BY <1>1
<1> QED BY <1>3, <1>4, <1>5 DEF r
-----------------------------------------------------------------------------
(* The first of ps, and then the first j of the others. *)
Prepended(ps, j) ==
  /\ SubSeq(ps, 1, j + 1) = <<ps[1]>> \o SubSeq(Tail(ps), 1, j)
  /\ SubSeq(ps, (j + 1) + 1, Len(ps)) = SubSeq(Tail(ps), j + 1, Len(Tail(ps)))

LEMMA PrependedParts ==
  ASSUME NEW S, NEW ps \in Seq(S), ps # <<>>, NEW j \in 0 .. Len(ps) - 1
  PROVE  Prepended(ps, j)
<1> DEFINE t == Tail(ps)
           a == SubSeq(t, 1, j)
           b == SubSeq(ps, 1, j + 1)
           d == SubSeq(ps, (j + 1) + 1, Len(ps))
           e == SubSeq(t, j + 1, Len(t))
<1>1. /\ t \in Seq(S) /\ Len(t) = Len(ps) - 1 /\ \A i \in 1 .. Len(t) : t[i] = ps[i + 1]
      /\ Len(ps) \in Nat /\ j \in Nat /\ j <= Len(ps) - 1 /\ ps[1] \in S
  OBVIOUS
<1> HIDE DEF t
<1>2. b \in Seq(S) /\ Len(b) = j + 1 /\ \A i \in 1 .. j + 1 : b[i] = ps[i]
  BY <1>1
<1>3. a \in Seq(S) /\ Len(a) = j /\ \A i \in 1 .. j : a[i] = t[i]
  BY <1>1
<1>4. /\ d \in Seq(S) /\ Len(d) = Len(ps) - 1 - j
      /\ \A i \in 1 .. Len(ps) - 1 - j : d[i] = ps[i + j + 1]
  BY <1>1
<1>5. /\ e \in Seq(S) /\ Len(e) = Len(ps) - 1 - j
      /\ \A i \in 1 .. Len(ps) - 1 - j : e[i] = t[i + j]
  BY <1>1
<1> HIDE DEF a, b, d, e
<1>6. b = <<ps[1]>> \o a
  <2>1. /\ <<ps[1]>> \o a \in Seq(S) /\ Len(<<ps[1]>> \o a) = j + 1
        /\ (<<ps[1]>> \o a)[1] = ps[1] /\ \A i \in 1 .. j : (<<ps[1]>> \o a)[i + 1] = a[i]
    BY <1>1, <1>3
  <2>2. ASSUME NEW i \in 1 .. j + 1 PROVE b[i] = (<<ps[1]>> \o a)[i]
    <3>1. CASE i = 1
      BY <1>1, <1>2, <2>1, <3>1
    <3>2. CASE i # 1
      <4>1. PICK k \in 1 .. j : i = k + 1
        <5>1. i - 1 \in 1 .. j /\ i = (i - 1) + 1
          BY <1>1, <3>2
        <5> QED BY <5>1
      <4>2. k \in 1 .. Len(t) /\ b[i] = ps[k + 1]
        BY <1>1, <1>2, <4>1
      <4>3. (<<ps[1]>> \o a)[i] = ps[k + 1]
        BY <1>1, <1>3, <2>1, <4>1, <4>2
      <4> QED BY <4>2, <4>3
    <3> QED BY <3>1, <3>2
  <2> QED BY <1>2, <2>1, <2>2, SeqEqual
<1>7. d = e
  <2>1. ASSUME NEW i \in 1 .. Len(ps) - 1 - j PROVE d[i] = e[i]
    <3>1. PICK k \in 1 .. Len(t) : k = i + j
      BY <1>1
    <3>2. t[k] = ps[k + 1] /\ d[i] = ps[k + 1] /\ e[i] = t[k]
      BY <1>1, <1>4, <1>5, <3>1
    <3> QED BY <3>2
  <2>2. Len(d) = Len(e) /\ Len(d) = Len(ps) - 1 - j
    BY <1>4, <1>5
  <2> QED BY <1>4, <1>5, <2>1, <2>2, SeqEqual
<1> QED BY <1>6, <1>7 DEF Prepended, t, a, b, d, e

(* What the loop leaves and yields when the payloads ps lie ahead: the     *)
(* first j of them, and after the last no complete frame is in its buffer. *)
LoopYields(c, ps, y, j, l) ==
  /\ l.bad = FALSE /\ l.msgs = SubSeq(ps, 1, j)
  /\ Stands(c, SubSeq(ps, j + 1, Len(ps)), l.buf, y)
  /\ c # "slip_lead" => DecodeFramed(c, l.buf) = Nothing(l.buf)

Answer(l) == l = [buf |-> l.buf, msgs |-> l.msgs, bad |-> l.bad]

LoopGoes(c, ps, y, l) == Answer(l) /\ \E j \in 0 .. Len(ps) : LoopYields(c, ps, y, j, l)

LEMMA LoopFramed ==
  ASSUME NEW c \in Framed, NEW due, NEW qs \in Seq(Carried(c)), NEW z, NEW y, Stands(c, qs, z, y)
  PROVE  LoopGoes(c, qs, y, DecodeLoop(c, z, due))
<1> DEFINE Fails(x) == \E ps \in Seq(Carried(c)) : Stands(c, ps, x, y) /\ ~LoopGoes(c, ps, y, DecodeLoop(c, x, due))
           T == {k \in Nat : \E x \in Seq(Bytes) : Len(x) = k /\ Fails(x)}
<1>1. T = {}
  <2> SUFFICES ASSUME T # {} PROVE FALSE
    OBVIOUS
  <2>1. PICK k \in T : \A l \in T : k <= l
    <3>1. T \subseteq Nat
      OBVIOUS
    <3> HIDE DEF T
    <3> QED BY <3>1, LeastNumber, Zenon
  <2>2. PICK x \in Seq(Bytes) : Len(x) = k /\ Fails(x)
    OBVIOUS
  <2>3. PICK ps \in Seq(Carried(c)) : Stands(c, ps, x, y) /\ ~LoopGoes(c, ps, y, DecodeLoop(c, x, due))
    BY <2>2
  <2> DEFINE r == DecodeFramed(c, x)
             l == DecodeLoop(c, x, due)
  <2>4. c \in AllCodecs /\ DecodeOne(c, x, due) = r
    <3>1. c \notin Unframed
      BY DEF Framed, Unframed
    <3> QED BY <3>1 DEF AllCodecs, DecodeOne
  <2>5. LoopTurn(c, due, x, r, l) /\ OneTurn(c, ps, x, y, r) /\ Shrinks(r, x)
    BY <2>3, <2>4, LoopIs, Turn, FramedShrinks
  <2> HIDE DEF r, l, T
  <2>6. Len(ps) \in Nat
    OBVIOUS
  <2>7. CASE r.tag = "none"
    <3>1. l = [buf |-> r.rest, msgs |-> <<>>, bad |-> FALSE]
      BY <2>5, <2>7 DEF LoopTurn
    <3>2. Answer(l) /\ l.buf = r.rest /\ l.msgs = <<>> /\ l.bad = FALSE
      BY <3>1 DEF Answer
    <3>3. Stands(c, ps, r.rest, y) /\ (c # "slip_lead" => r = Nothing(x))
      BY <2>5, <2>7 DEF OneTurn
    <3>4. SubSeq(ps, 1, 0) = <<>> /\ SubSeq(ps, 0 + 1, Len(ps)) = ps
      BY SubSeqFull, SubSeqEmpty
    <3>5. c # "slip_lead" => DecodeFramed(c, r.rest) = Nothing(r.rest)
      BY <3>3, Results DEF r
    <3>6. LoopYields(c, ps, y, 0, l)
      BY <3>2, <3>3, <3>4, <3>5 DEF LoopYields
    <3>7. LoopGoes(c, ps, y, l)
      BY <2>6, <3>2, <3>6 DEF LoopGoes
    <3> QED BY <2>3, <3>7 DEF l
  <2>8. CASE r.tag = "some"
    <3>1. /\ ps # <<>> /\ r.payload = ps[1] /\ Stands(c, Tail(ps), r.rest, y)
          /\ r.rest \in Seq(Bytes) /\ Len(r.rest) < Len(x) /\ Len(r.rest) \in Nat
      BY <2>5, <2>8 DEF OneTurn, Shrinks
    <3>2. Tail(ps) \in Seq(Carried(c)) /\ Len(Tail(ps)) = Len(ps) - 1
      BY <3>1
    <3> DEFINE m == DecodeLoop(c, r.rest, due)
    <3>3. LoopGoes(c, Tail(ps), y, m)
      <4>1. Len(r.rest) \notin T
        <5>1. ~(k <= Len(r.rest))
          BY <2>2, <3>1
        <5> QED BY <2>1, <5>1
      <4>2. ~Fails(r.rest)
        BY <3>1, <4>1 DEF T
      <4> QED BY <3>1, <3>2, <4>2
    <3>4. l = [m EXCEPT !.msgs = <<r.payload>> \o @]
      BY <2>5, <2>8 DEF LoopTurn
    <3> HIDE DEF m
    <3>5. PICK i \in 0 .. Len(Tail(ps)) : LoopYields(c, Tail(ps), y, i, m)
      BY <3>3 DEF LoopGoes
    <3>6. m = [buf |-> m.buf, msgs |-> m.msgs, bad |-> m.bad]
      BY <3>3, Zenon DEF LoopGoes, Answer
    <3>7. Answer(l) /\ l.buf = m.buf /\ l.msgs = <<ps[1]>> \o m.msgs /\ l.bad = m.bad
      <4>1. PICK u, v, w : m = [buf |-> u, msgs |-> v, bad |-> w]
        BY <3>6
      <4> QED BY <3>1, <3>4, <4>1 DEF Answer
    <3>8. Prepended(ps, i) /\ i + 1 \in 0 .. Len(ps)
      BY <2>6, <3>1, <3>2, PrependedParts
    <3>9. LoopYields(c, ps, y, i + 1, l)
      BY <3>5, <3>7, <3>8 DEF LoopYields, Prepended
    <3>10. LoopGoes(c, ps, y, l)
      BY <3>7, <3>8, <3>9 DEF LoopGoes
    <3> QED BY <2>3, <3>10 DEF l
  <2> QED BY <2>5, <2>7, <2>8 DEF OneTurn
<1>2. z \in Seq(Bytes) /\ Len(z) \in Nat
  BY DEF Stands
<1>3. ~Fails(z)
  BY <1>1, <1>2
<1> QED BY <1>3

(* Without frames: what has arrived is one message, once it is due. *)
LEMMA LoopUnframed ==
  ASSUME NEW c \in Unframed, NEW due \in BOOLEAN, NEW x \in Seq(Bytes)
  PROVE  LET l == DecodeLoop(c, x, due)
         IN  /\ l.bad = FALSE
             /\ \/ l.msgs = <<>> /\ l.buf = x
                \/ l.msgs = <<x>> /\ l.buf = <<>>
<1>1. c \in AllCodecs /\ c \notin Framed /\ <<>> \in Seq(Bytes)
  BY DEF AllCodecs, Framed, Unframed
<1>2. ASSUME NEW z \in Seq(Bytes), ~(z # <<>> /\ (due \/ c = "passthrough"))
      PROVE  DecodeLoop(c, z, due) = [buf |-> z, msgs |-> <<>>, bad |-> FALSE]
  <2>1. DecodeOne(c, z, due) = Nothing(z)
    BY <1>1, <1>2 DEF DecodeOne
  <2>2. LoopTurn(c, due, z, Nothing(z), DecodeLoop(c, z, due))
    BY <1>1, <2>1, LoopIs
  <2> QED BY <2>2, Results DEF LoopTurn
<1>3. CASE ~(x # <<>> /\ (due \/ c = "passthrough"))
  BY <1>2, <1>3
<1>4. CASE x # <<>> /\ (due \/ c = "passthrough")
  <2>1. DecodeOne(c, x, due) = Some(x, <<>>)
    BY <1>1, <1>4 DEF DecodeOne
  <2>2. DecodeLoop(c, <<>>, due) = [buf |-> <<>>, msgs |-> <<>>, bad |-> FALSE]
    BY <1>1, <1>2
  <2>3. DecodeLoop(c, x, due) = [DecodeLoop(c, <<>>, due) EXCEPT !.msgs = <<x>> \o @]
    <3>1. LoopTurn(c, due, x, Some(x, <<>>), DecodeLoop(c, x, due))
      BY <1>1, <2>1, LoopIs
    <3> QED BY <3>1, Results DEF LoopTurn
  <2>4. <<x>> \o <<>> = <<x>>
    OBVIOUS
  <2>5. PICK m, e, l : /\ m = [buf |-> <<>>, msgs |-> <<>>, bad |-> FALSE] /\ e = <<x>>
                       /\ l = [m EXCEPT !.msgs = e \o @] /\ l = DecodeLoop(c, x, due)
    BY <2>2, <2>3
  <2>6. m.msgs = <<>> /\ l.bad = FALSE /\ l.buf = <<>> /\ l.msgs = e \o m.msgs
    BY <2>5
  <2> QED BY <2>4, <2>5, <2>6
<1> QED BY <1>3, <1>4
-----------------------------------------------------------------------------
(* Framed: g holds the first payloads of s, the others lie ahead in b, l.  *)
Held(c, s, g, b, l) ==
  \E k \in 0 .. Len(s) :
    g = SubSeq(s, 1, k) /\ Stands(c, SubSeq(s, k + 1, Len(s)), b, l)

(* Unframed: g, b and l hold the bytes of s. *)
Passed(s, g, b, l) == FlattenSeq(g) \o b \o l = FlattenSeq(s)

(* How the first k elements, and those behind, follow an appended one and  *)
(* j more elements.                                                        *)
LEMMA AppendParts ==
  ASSUME NEW S, NEW s \in Seq(S), NEW p \in S, NEW k \in 0 .. Len(s)
  PROVE  /\ SubSeq(Append(s, p), 1, k) = SubSeq(s, 1, k)
         /\ SubSeq(Append(s, p), k + 1, Len(Append(s, p))) = Append(SubSeq(s, k + 1, Len(s)), p)
<1> DEFINE v == Append(s, p)
<1>1. /\ v \in Seq(S) /\ Len(v) = Len(s) + 1 /\ v[Len(s) + 1] = p
      /\ \A i \in 1 .. Len(s) : v[i] = s[i]
      /\ Len(s) \in Nat /\ k \in Nat /\ k <= Len(s)
  OBVIOUS
<1> HIDE DEF v
<1>2. SubSeq(v, 1, k) = SubSeq(s, 1, k)
  <2>1. /\ SubSeq(v, 1, k) \in Seq(S) /\ Len(SubSeq(v, 1, k)) = k
        /\ SubSeq(s, 1, k) \in Seq(S) /\ Len(SubSeq(s, 1, k)) = k
    BY <1>1
  <2>2. \A i \in 1 .. k : SubSeq(v, 1, k)[i] = SubSeq(s, 1, k)[i]
    BY <1>1
  <2> QED BY <2>1, <2>2, SeqEqual
<1>3. SubSeq(v, k + 1, Len(v)) = Append(SubSeq(s, k + 1, Len(s)), p)
  <2> DEFINE a == SubSeq(s, k + 1, Len(s))
             d == SubSeq(v, k + 1, Len(v))
             e == Append(a, p)
  <2>1. /\ a \in Seq(S) /\ Len(a) = Len(s) - k
        /\ \A i \in 1 .. Len(s) - k : a[i] = s[i + k]
    BY <1>1
  <2>2. /\ d \in Seq(S) /\ Len(d) = Len(s) + 1 - k
        /\ \A i \in 1 .. Len(s) + 1 - k : d[i] = v[i + k]
    BY <1>1
  <2> HIDE DEF a, d
  <2>3. /\ e \in Seq(S) /\ Len(e) = Len(s) + 1 - k /\ e[Len(a) + 1] = p
        /\ \A i \in 1 .. Len(a) : e[i] = a[i]
    BY <1>1, <2>1
  <2>4. ASSUME NEW i \in 1 .. Len(s) + 1 - k PROVE d[i] = e[i]
    <3>1. PICK j \in 1 .. Len(s) + 1 : j = i + k
      BY <1>1
    <3>2. d[i] = v[j]
      BY <2>2, <3>1
    <3>3. CASE j = Len(s) + 1
      <4>1. i = Len(a) + 1
        <5>1. i \in Nat /\ k \in Nat /\ Len(s) \in Nat /\ Len(a) = Len(s) - k
          BY <1>1, <2>1
        <5>2. i + k = Len(s) + 1
          BY <3>1, <3>3
        <5> QED BY ONLY <5>1, <5>2
      <4> QED BY <1>1, <2>3, <3>2, <3>3, <4>1
    <3>4. CASE j # Len(s) + 1
      <4>1. i \in 1 .. Len(a) /\ j \in 1 .. Len(s)
        BY <1>1, <2>1, <3>1, <3>4
      <4>2. e[i] = a[i] /\ a[i] = s[j] /\ v[j] = s[j]
        BY <1>1, <2>1, <2>3, <3>1, <4>1
      <4> QED BY <3>2, <4>2
    <3> QED BY <3>3, <3>4
  <2> HIDE DEF e
  <2> QED BY <2>2, <2>3, <2>4, SeqEqual DEF a, d, e
<1> QED BY <1>2, <1>3 DEF v

LEMMA JoinParts ==
  ASSUME NEW S, NEW s \in Seq(S), NEW k \in 0 .. Len(s), NEW j \in 0 .. Len(s) - k
  PROVE  LET q == SubSeq(s, k + 1, Len(s))
         IN  /\ SubSeq(s, 1, k) \o SubSeq(q, 1, j) = SubSeq(s, 1, k + j)
             /\ SubSeq(q, j + 1, Len(q)) = SubSeq(s, (k + j) + 1, Len(s))
             /\ q \in Seq(S) /\ Len(q) = Len(s) - k
<1> DEFINE q == SubSeq(s, k + 1, Len(s))
<1>1. /\ q \in Seq(S) /\ Len(q) = Len(s) - k /\ \A i \in 1 .. Len(s) - k : q[i] = s[i + k]
      /\ Len(s) \in Nat /\ k \in Nat /\ j \in Nat /\ k + j \in Nat /\ k + j <= Len(s)
  OBVIOUS
<1> HIDE DEF q
<1>2. SubSeq(q, 1, j) \in Seq(S) /\ Len(SubSeq(q, 1, j)) = j /\ \A i \in 1 .. j : SubSeq(q, 1, j)[i] = q[i]
  BY <1>1
<1>3. SubSeq(s, k + 1, k + j) = SubSeq(q, 1, j)
  <2>1. /\ SubSeq(s, k + 1, k + j) \in Seq(S) /\ Len(SubSeq(s, k + 1, k + j)) = j
        /\ \A i \in 1 .. j : SubSeq(s, k + 1, k + j)[i] = s[i + k]
    BY <1>1
  <2>2. \A i \in 1 .. j : SubSeq(s, k + 1, k + j)[i] = SubSeq(q, 1, j)[i]
    BY <1>1, <1>2, <2>1
  <2> QED BY <1>2, <2>1, <2>2, SeqEqual
<1>4. SubSeq(s, 1, k) \o SubSeq(s, k + 1, k + j) = SubSeq(s, 1, k + j)
  <2>1. 1 \in 1 .. Len(s) + 1 /\ k \in 1 - 1 .. Len(s) /\ k + j \in k .. Len(s)
    BY <1>1
  <2> QED BY <2>1, ConcatAdjacentSubSeq, Zenon
<1>5. SubSeq(q, j + 1, Len(q)) = SubSeq(s, (k + j) + 1, Len(s))
  <2> DEFINE d == SubSeq(q, j + 1, Len(q))
             e == SubSeq(s, (k + j) + 1, Len(s))
  <2>1. /\ d \in Seq(S) /\ Len(d) = Len(s) - k - j
        /\ \A i \in 1 .. Len(s) - k - j : d[i] = q[i + j]
    BY <1>1
  <2>2. /\ e \in Seq(S) /\ Len(e) = Len(s) - k - j
        /\ \A i \in 1 .. Len(s) - k - j : e[i] = s[i + (k + j)]
    BY <1>1
  <2> HIDE DEF d, e
  <2>3. ASSUME NEW i \in 1 .. Len(s) - k - j PROVE d[i] = e[i]
    <3>1. PICK m \in 1 .. Len(s) - k : m = i + j
      BY <1>1
    <3>2. d[i] = q[m] /\ q[m] = s[m + k] /\ m + k = i + (k + j)
      BY <1>1, <2>1, <3>1
    <3> QED BY <2>2, <3>2
  <2> QED BY <2>1, <2>2, <2>3, SeqEqual DEF d, e
<1> QED BY <1>1, <1>3, <1>4, <1>5 DEF q

LEMMA CarriedType ==
  ASSUME NEW c, NEW s \in Seq(Carried(c))
  PROVE  s \in Seq(Seq(Bytes))
<1>1. Carried(c) \subseteq Seq(Bytes)
  BY DEF Carried
<1> QED BY <1>1, SeqMonotonic, Zenon

(* The first n of l move from l to b. *)
LEMMA MoveBytes ==
  ASSUME NEW b \in Seq(Bytes), NEW l \in Seq(Bytes), NEW n \in 0 .. Len(l)
  PROVE  /\ SubSeq(l, 1, n) \in Seq(Bytes) /\ SubSeq(l, n + 1, Len(l)) \in Seq(Bytes)
         /\ b \o SubSeq(l, 1, n) \in Seq(Bytes)
         /\ (b \o SubSeq(l, 1, n)) \o SubSeq(l, n + 1, Len(l)) = b \o l
<1> DEFINE u == SubSeq(l, 1, n)
           v == SubSeq(l, n + 1, Len(l))
<1>1. u \in Seq(Bytes) /\ v \in Seq(Bytes) /\ Len(l) \in Nat
  OBVIOUS
<1>2. u \o v = l
  <2>1. 1 \in 1 .. Len(l) + 1 /\ n \in 1 - 1 .. Len(l) /\ Len(l) \in n .. Len(l)
    BY <1>1
  <2>2. u \o v = SubSeq(l, 1, Len(l))
    BY <2>1, ConcatAdjacentSubSeq, Zenon
  <2> QED BY <2>2, SubSeqFull
<1> HIDE DEF u, v
<1>3. Grouped(b, u, v)
  BY <1>1, Regroup, Zenon
<1> QED BY <1>1, <1>2, <1>3, ConcatProperties DEF Grouped, u, v
-----------------------------------------------------------------------------
LEMMA HeldMore ==
  ASSUME NEW c \in Framed, NEW s \in Seq(Carried(c)), NEW g, NEW b, NEW l, Held(c, s, g, b, l),
         NEW p \in Carried(c)
  PROVE  Held(c, Append(s, p), g, b, l \o Encode(c, p))
<1> DEFINE e == Encode(c, p)
<1>1. PICK k \in 0 .. Len(s) : g = SubSeq(s, 1, k) /\ Stands(c, SubSeq(s, k + 1, Len(s)), b, l)
  BY DEF Held
<1> DEFINE q == SubSeq(s, k + 1, Len(s))
<1>2. /\ q \in Seq(Carried(c)) /\ c \in AllCodecs /\ Len(s) \in Nat
      /\ Append(q, p) \in Seq(Carried(c)) /\ Append(s, p) \in Seq(Carried(c))
      /\ Len(Append(s, p)) = Len(s) + 1
  BY DEF AllCodecs
<1>3. e \in Seq(Bytes) /\ Stream(c, q) \in Seq(Bytes)
  BY <1>2, EncodeType, FramesType
<1> HIDE DEF e, q
<1>4. b \in Seq(Bytes) /\ l \in Seq(Bytes) /\ b \o l \in Ahead(c, q)
  BY <1>1 DEF Stands, q
<1>5. Stream(c, Append(q, p)) = Stream(c, q) \o e
  BY <1>2, StreamMore DEF e
<1>6. Grouped(b, l, e)
  BY <1>3, <1>4, Regroup, Zenon
<1>7. Stands(c, Append(q, p), b, l \o e)
  <2>1. l \o e \in Seq(Bytes) /\ b \o (l \o e) = (b \o l) \o e
    BY <1>3, <1>4, <1>6, ConcatProperties DEF Grouped
  <2>2. CASE b \o l = Stream(c, q)
    BY <1>4, <1>5, <2>1, <2>2 DEF Stands, Ahead
  <2>3. CASE b \o l = Tail(Stream(c, q)) /\ c = "slip_lead" /\ Stream(c, q) # <<>>
    <3>1. /\ Tail(Stream(c, q) \o e) = Tail(Stream(c, q)) \o e
          /\ Stream(c, q) \o e # <<>>
      BY <1>3, <2>3, HeadOfConcat, Zenon
    <3> QED BY <1>4, <1>5, <2>1, <2>3, <3>1 DEF Stands, Ahead
  <2> QED BY <1>4, <2>2, <2>3 DEF Ahead
<1>8. /\ SubSeq(Append(s, p), 1, k) = SubSeq(s, 1, k)
      /\ SubSeq(Append(s, p), k + 1, Len(Append(s, p))) = Append(q, p)
  BY AppendParts DEF q
<1>9. k \in 0 .. Len(Append(s, p))
  BY <1>2
<1> QED BY <1>1, <1>7, <1>8, <1>9 DEF Held, e

(* What the decode loop answered, d, while y remains on the line. *)
HeldAfter(c, s, g, y, d) ==
  /\ d.bad = FALSE /\ d.msgs \in Seq(Seq(Bytes))
  /\ Held(c, s, g \o d.msgs, d.buf, y)
  /\ c # "slip_lead" => DecodeFramed(c, d.buf) = Nothing(d.buf)

LEMMA HeldRead ==
  ASSUME NEW c \in Framed, NEW due, NEW s \in Seq(Carried(c)), NEW g, NEW b, NEW l,
         Held(c, s, g, b, l), NEW n \in 0 .. Len(l)
  PROVE  HeldAfter(c, s, g, SubSeq(l, n + 1, Len(l)), DecodeLoop(c, b \o SubSeq(l, 1, n), due))
<1> DEFINE x == b \o SubSeq(l, 1, n)
           y == SubSeq(l, n + 1, Len(l))
           d == DecodeLoop(c, x, due)
<1>1. PICK k \in 0 .. Len(s) : g = SubSeq(s, 1, k) /\ Stands(c, SubSeq(s, k + 1, Len(s)), b, l)
  BY DEF Held
<1> DEFINE q == SubSeq(s, k + 1, Len(s))
<1>2. q \in Seq(Carried(c)) /\ Len(q) = Len(s) - k /\ Len(s) \in Nat /\ k \in Nat
  OBVIOUS
<1>3. x \in Seq(Bytes) /\ y \in Seq(Bytes) /\ x \o y = b \o l
  BY <1>1, MoveBytes DEF Stands
<1> HIDE DEF q, x, y, d
<1>4. Stands(c, q, x, y)
  BY <1>1, <1>3 DEF Stands, q
<1>5. LoopGoes(c, q, y, d)
  BY <1>2, <1>4, LoopFramed DEF d
<1>6. PICK j \in 0 .. Len(q) : LoopYields(c, q, y, j, d)
  BY <1>5 DEF LoopGoes
<1>7. j \in 0 .. Len(s) - k /\ k + j \in 0 .. Len(s)
  BY <1>2, <1>6
<1>8. /\ SubSeq(s, 1, k) \o SubSeq(q, 1, j) = SubSeq(s, 1, k + j)
      /\ SubSeq(q, j + 1, Len(q)) = SubSeq(s, (k + j) + 1, Len(s))
  BY <1>7, JoinParts DEF q
<1>9. g \o d.msgs = SubSeq(s, 1, k + j) /\ Stands(c, SubSeq(s, (k + j) + 1, Len(s)), d.buf, y)
  BY <1>1, <1>6, <1>8 DEF LoopYields
<1>10. Held(c, s, g \o d.msgs, d.buf, y)
  BY <1>7, <1>9 DEF Held
<1>11. SubSeq(q, 1, j) \in Seq(Seq(Bytes))
  <2>1. q \in Seq(Seq(Bytes))
    BY <1>2, CarriedType
  <2> QED BY <1>2, <1>6, <2>1
<1>12. HeldAfter(c, s, g, y, d)
  BY <1>6, <1>10, <1>11 DEF LoopYields, HeldAfter
<1> QED BY <1>12 DEF x, y, d
-----------------------------------------------------------------------------
(* What one call of decode hands out. *)
Handed(r) == IF r.tag = "some" THEN <<r.payload>> ELSE <<>>

LEMMA HeldTurn ==
  ASSUME NEW c \in Framed, NEW s \in Seq(Carried(c)), NEW g, NEW b, NEW l, Held(c, s, g, b, l)
  PROVE  LET r == DecodeFramed(c, b)
         IN  /\ r.tag # "error" /\ Handed(r) \in Seq(Seq(Bytes))
             /\ Held(c, s, g \o Handed(r), r.rest, l)
<1> DEFINE r == DecodeFramed(c, b)
<1>1. PICK k \in 0 .. Len(s) : g = SubSeq(s, 1, k) /\ Stands(c, SubSeq(s, k + 1, Len(s)), b, l)
  BY DEF Held
<1> DEFINE q == SubSeq(s, k + 1, Len(s))
<1>2. q \in Seq(Carried(c)) /\ Len(q) = Len(s) - k /\ Len(s) \in Nat /\ k \in Nat
  OBVIOUS
<1>3. OneTurn(c, q, b, l, r)
  BY <1>1, <1>2, Turn
<1> HIDE DEF q, r
<1>4. g \in Seq(Carried(c))
  BY <1>1, <1>2
<1>5. CASE r.tag = "none"
  <2>1. g \o <<>> = g /\ Handed(r) = <<>>
    BY <1>4, <1>5, ConcatEmptySeq DEF Handed
  <2>2. Stands(c, q, r.rest, l)
    BY <1>3, <1>5 DEF OneTurn
  <2>3. Held(c, s, g, r.rest, l)
    BY <1>1, <2>2 DEF Held, q
  <2> QED BY <1>5, <2>1, <2>3 DEF r
<1>6. CASE r.tag = "some"
  <2>1. q # <<>> /\ r.payload = q[1] /\ Stands(c, Tail(q), r.rest, l) /\ Handed(r) = <<q[1]>>
    BY <1>3, <1>6 DEF OneTurn, Handed
  <2>2. 1 \in 0 .. Len(s) - k /\ k + 1 \in 0 .. Len(s)
    BY <1>2, <2>1
  <2>3. /\ SubSeq(s, 1, k) \o SubSeq(q, 1, 1) = SubSeq(s, 1, k + 1)
        /\ SubSeq(q, 1 + 1, Len(q)) = SubSeq(s, (k + 1) + 1, Len(s))
    BY <2>2, JoinParts DEF q
  <2>4. SubSeq(q, 1, 1) = <<q[1]>> /\ Tail(q) = SubSeq(q, 1 + 1, Len(q))
    <3>1. Tail(q) = SubSeq(q, 2, Len(q)) /\ 1 + 1 = 2
      BY <1>2, <2>1, TailIsSubSeq
    <3>2. 1 \in 1 .. Len(q)
      BY <1>2, <2>1
    <3>3. SubSeq(q, 1, 1) = <<q[1]>>
      <4>1. SubSeq(q, 1, 1) = <<q[1]>> \o SubSeq(q, 1 + 1, 1)
        BY <1>2, <3>2, SubSeqRecursiveFirst
      <4>2. SubSeq(q, 1 + 1, 1) = <<>>
        BY <1>2
      <4>3. <<q[1]>> \in Seq(Carried(c))
        BY <1>2, <2>1
      <4>4. <<q[1]>> \o <<>> = <<q[1]>>
        BY <4>3, ConcatEmptySeq
      <4> QED BY <4>1, <4>2, <4>4
    <3> QED BY <3>1, <3>3
  <2>5. Held(c, s, g \o Handed(r), r.rest, l)
    BY <1>1, <2>1, <2>2, <2>3, <2>4 DEF Held
  <2>6. q[1] \in Seq(Bytes)
    <3>1. q[1] \in Carried(c)
      BY <1>2, <2>1
    <3> QED BY <3>1 DEF Carried
  <2> QED BY <1>6, <2>1, <2>5, <2>6 DEF r
<1> QED BY <1>3, <1>5, <1>6 DEF OneTurn

(* At the end of the line, without a complete frame: nothing is missing. *)
LEMMA HeldDone ==
  ASSUME NEW c \in Framed \ {"slip_lead"}, NEW s \in Seq(Carried(c)), NEW g, NEW b,
         Held(c, s, g, b, <<>>), DecodeFramed(c, b) = Nothing(b)
  PROVE  g = s /\ b = <<>>
<1>1. PICK k \in 0 .. Len(s) : g = SubSeq(s, 1, k) /\ Stands(c, SubSeq(s, k + 1, Len(s)), b, <<>>)
  BY DEF Held
<1> DEFINE q == SubSeq(s, k + 1, Len(s))
<1>2. /\ q \in Seq(Carried(c)) /\ Len(q) = Len(s) - k /\ Len(s) \in Nat /\ k \in Nat
      /\ c \in Framed /\ c \in AllCodecs
  BY DEF AllCodecs
<1> HIDE DEF q
<1>3. b \in Seq(Bytes) /\ b = Stream(c, q)
  <2>1. b \in Seq(Bytes) /\ b \o <<>> = Stream(c, q)
    BY <1>1 DEF Stands, Ahead, q
  <2> QED BY <2>1, ConcatEmptySeq
<1>4. q = <<>>
  <2> SUFFICES ASSUME q # <<>> PROVE FALSE
    OBVIOUS
  <2> DEFINE e == Encode(c, q[1])
             f == Stream(c, Tail(q))
  <2>1. q[1] \in Carried(c) /\ Tail(q) \in Seq(Carried(c))
    BY <1>2
  <2>2. b = e \o f /\ f \in Seq(Bytes) /\ FrameOf(c, e, q[1])
    BY <1>2, <1>3, <2>1, StreamFirst, FramesType, EncodeFrame
  <2> HIDE DEF e, f
  <2>3. DecodeFramed(c, e \o f) = DecodeFrame(c, Body(c, e), f)
    BY <1>2, <2>2, DecodeWhole DEF FrameOf
  <2>4. DecodeFramed(c, b) = Some(q[1], f)
    BY <2>2, <2>3 DEF FrameOf
  <2>5. Some(q[1], f).tag = "some" /\ Nothing(b).tag = "none"
    BY Results
  <2>6. Some(q[1], f) # Nothing(b)
    BY <2>5
  <2> QED BY <2>4, <2>6
<1>5. k = Len(s)
  BY <1>2, <1>4
<1> QED BY <1>1, <1>3, <1>4, <1>5, StreamNone, SubSeqFull

LEMMA HeldEmpty ==
  ASSUME NEW c \in Framed, NEW s \in Seq(Carried(c))
  PROVE  Held(c, s, s, <<>>, <<>>)
<1>1. Len(s) \in 0 .. Len(s) /\ SubSeq(s, 1, Len(s)) = s /\ SubSeq(s, Len(s) + 1, Len(s)) = <<>>
  BY SubSeqFull
<1>2. Stands(c, <<>>, <<>>, <<>>)
  <2>1. Stream(c, <<>>) = <<>>
    BY StreamNone
  <2>2. <<>> \in Seq(Bytes) /\ <<>> \o <<>> = <<>>
    OBVIOUS
  <2> QED BY <2>1, <2>2 DEF Stands, Ahead
<1> QED BY <1>1, <1>2 DEF Held
-----------------------------------------------------------------------------
LEMMA PassedMore ==
  ASSUME NEW s \in Seq(Seq(Bytes)), NEW g \in Seq(Seq(Bytes)), NEW b \in Seq(Bytes), NEW l \in Seq(Bytes),
         Passed(s, g, b, l), NEW p \in Seq(Bytes)
  PROVE  Passed(Append(s, p), g, b, l \o p)
<1> DEFINE f == FlattenSeq(g)
<1>1. f \in Seq(Bytes) /\ FlattenSeq(s) \in Seq(Bytes) /\ f \o b \in Seq(Bytes)
  BY FlattenType, ConcatProperties
<1>2. FlattenSeq(Append(s, p)) = FlattenSeq(s) \o p
  BY FlattenAppend
<1> HIDE DEF f
<1>3. Grouped(f \o b, l, p)
  BY <1>1, Regroup, Zenon
<1> QED BY <1>2, <1>3 DEF Grouped, Passed, f

(* Bytes go from the line to the buffer, and from there to a message. *)
LEMMA PassedRead ==
  ASSUME NEW s \in Seq(Seq(Bytes)), NEW g \in Seq(Seq(Bytes)), NEW b \in Seq(Bytes), NEW l \in Seq(Bytes),
         Passed(s, g, b, l), NEW x \in Seq(Bytes), NEW y \in Seq(Bytes), x \o y = b \o l
  PROVE  Passed(s, g, x, y) /\ Passed(s, Append(g, x), <<>>, y)
<1> DEFINE f == FlattenSeq(g)
<1>1. f \in Seq(Bytes) /\ f \o x \in Seq(Bytes)
  BY FlattenType, ConcatProperties
<1>2. FlattenSeq(Append(g, x)) = f \o x
  BY FlattenAppend
<1> HIDE DEF f
<1>3. Grouped(f, x, y) /\ Grouped(f, b, l)
  BY <1>1, Regroup, Zenon
<1>4. (f \o x) \o <<>> = f \o x
  BY <1>1, ConcatEmptySeq
<1> QED BY <1>2, <1>3, <1>4 DEF Grouped, Passed, f
-----------------------------------------------------------------------------
(* The invariant while the line is clean and nothing was discarded.  A     *)
(* codec other than SLIP with a leading END never leaves a complete frame  *)
(* in the buffer, so at end of file nothing is behind the one it delivers. *)
Holding ==
  /\ sent \in Seq(Carried(codec)) /\ line \in Seq(Bytes) /\ buffer \in Seq(Bytes)
  /\ got \in Seq(Seq(Bytes)) /\ pending \in Seq(Seq(Bytes))
  /\ codec \in Framed /\ ~SlipAtEnd => Held(codec, sent, got \o pending, buffer, line)
  /\ codec \in Framed /\ codec # "slip_lead" => DecodeFramed(codec, buffer) = Nothing(buffer)
  /\ codec \in Unframed => Passed(sent, got \o pending, buffer, line)
  /\ ~up => closed /\ pending = <<>> /\ line = <<>> /\ buffer = <<>>

FramingInv ==
  /\ codec \in AllCodecs /\ up \in BOOLEAN
  /\ noise = <<>> /\ ~lost => Holding

LEMMA FramingStart == Init => FramingInv
<1> SUFFICES ASSUME Init PROVE FramingInv
  OBVIOUS
<1>1. /\ codec \in AllCodecs /\ up = TRUE /\ closed = FALSE /\ sent = <<>> /\ line = <<>>
      /\ buffer = <<>> /\ got = <<>> /\ pending = <<>>
  BY FramingAssumption DEF Init
<1>2. <<>> \o <<>> = <<>> /\ \A S : <<>> \in Seq(S)
  OBVIOUS
<1>3. codec \in Framed => Held(codec, <<>>, <<>>, <<>>, <<>>)
  BY <1>2, HeldEmpty
<1>4. codec \in Framed => DecodeFramed(codec, <<>>) = Nothing(<<>>)
  BY TurnEmpty
<1>5. Passed(<<>>, <<>>, <<>>, <<>>)
  BY <1>2 DEF Passed, FlattenSeq
<1> QED BY <1>1, <1>2, <1>3, <1>4, <1>5 DEF FramingInv, Holding
-----------------------------------------------------------------------------
LEMMA OneCall ==
  ASSUME NEW c, NEW b, NEW due
  PROVE  /\ c \in Framed => DecodeOne(c, b, due) = DecodeFramed(c, b)
         /\ c \in Unframed /\ b = <<>> => DecodeOne(c, b, due) = Nothing(b)
         /\ c \in Unframed /\ b # <<>> /\ due => DecodeOne(c, b, due) = Some(b, <<>>)
<1>1. ~(c \in Framed /\ c \in Unframed)
  BY DEF Framed, Unframed
<1> QED BY <1>1 DEF DecodeOne

(* Whatever recv hands out, the received and the waiting messages are the  *)
(* old ones followed by the new.                                           *)
LEMMA HandsOut ==
  ASSUME NEW ms \in Seq(Seq(Bytes)), got \in Seq(Seq(Bytes)), HandOut(ms),
         pending = <<>> \/ pending = ms
  PROVE  /\ got' \in Seq(Seq(Bytes)) /\ pending' \in Seq(Seq(Bytes))
         /\ got' \o pending' = got \o ms
<1>1. CASE ms = <<>>
  BY <1>1 DEF HandOut
<1>2. CASE ms # <<>>
  <2>1. got' = Append(got, ms[1]) /\ pending' = Tail(ms)
    BY <1>2 DEF HandOut
  <2>2. ms[1] \in Seq(Bytes) /\ Tail(ms) \in Seq(Seq(Bytes)) /\ Append(got, ms[1]) \in Seq(Seq(Bytes))
    BY <1>2
  <2>3. Append(got, ms[1]) = got \o <<ms[1]>> /\ <<ms[1]>> \in Seq(Seq(Bytes))
    BY <2>2
  <2>4. <<ms[1]>> \o Tail(ms) = ms
    <3>1. Tail(ms) = SubSeq(ms, 2, Len(ms))
      BY <1>2, TailIsSubSeq
    <3>2. 1 \in 1 .. Len(ms) /\ Len(ms) \in 1 .. Len(ms) /\ 1 + 1 = 2
      BY <1>2
    <3>3. SubSeq(ms, 1, Len(ms)) = <<ms[1]>> \o SubSeq(ms, 1 + 1, Len(ms))
      BY <3>2, SubSeqRecursiveFirst, Zenon
    <3> QED BY <3>1, <3>2, <3>3, SubSeqFull
  <2>5. Grouped(got, <<ms[1]>>, Tail(ms))
    BY <2>2, <2>3, Regroup, Zenon
  <2> QED BY <2>1, <2>2, <2>3, <2>4, <2>5 DEF Grouped
<1> QED BY <1>1, <1>2

(* One call of decode at the receive timeout and at end of file. *)
Drains(c, s, g, b, l, r) ==
  /\ r.tag # "error" /\ Handed(r) \in Seq(Seq(Bytes)) /\ r.rest \in Seq(Bytes)
  /\ c \in Framed => Held(c, s, g \o Handed(r), r.rest, l)
  /\ c \in Framed /\ c # "slip_lead" => r = Nothing(b) /\ DecodeFramed(c, r.rest) = Nothing(r.rest)
  /\ c \in Unframed => Passed(s, g \o Handed(r), r.rest, l) /\ r.rest = <<>>

LEMMA DrainsAll ==
  ASSUME NEW c \in AllCodecs, NEW s \in Seq(Carried(c)), NEW g \in Seq(Seq(Bytes)),
         NEW b \in Seq(Bytes), NEW l \in Seq(Bytes),
         c \in Framed => Held(c, s, g, b, l),
         c \in Framed /\ c # "slip_lead" => DecodeFramed(c, b) = Nothing(b),
         c \in Unframed => Passed(s, g, b, l)
  PROVE  Drains(c, s, g, b, l, DecodeTimeout(c, b))
<1> DEFINE r == DecodeTimeout(c, b)
<1> SUFFICES Drains(c, s, g, b, l, r)
  OBVIOUS
<1>1. CASE c \in Framed
  <2>1. r = DecodeFramed(c, b) /\ c \notin Unframed
    BY <1>1, OneCall DEF DecodeTimeout, Framed, Unframed
  <2>2. r.tag # "error" /\ Handed(r) \in Seq(Seq(Bytes)) /\ Held(c, s, g \o Handed(r), r.rest, l)
    BY <1>1, <2>1, HeldTurn
  <2> HIDE DEF r
  <2>3. r.rest \in Seq(Bytes)
    BY <2>2 DEF Held, Stands
  <2>4. c # "slip_lead" => r = Nothing(b) /\ r.rest = b
    BY <1>1, <2>1, Results
  <2> QED BY <1>1, <2>1, <2>2, <2>3, <2>4 DEF Drains
<1>2. CASE c \in Unframed /\ b = <<>>
  <2>1. r = Nothing(<<>>) /\ c \notin Framed
    BY <1>2, OneCall DEF DecodeTimeout, Framed, Unframed
  <2>2. Handed(r) = <<>> /\ r.rest = <<>> /\ r.tag = "none"
    BY <2>1, Results DEF Handed
  <2>3. g \o <<>> = g /\ <<>> \in Seq(Seq(Bytes)) /\ <<>> \in Seq(Bytes)
    BY ConcatEmptySeq
  <2> HIDE DEF r
  <2> QED BY <1>2, <2>1, <2>2, <2>3 DEF Drains
<1>3. CASE c \in Unframed /\ b # <<>>
  <2>1. r = Some(b, <<>>) /\ c \notin Framed
    BY <1>3, OneCall DEF DecodeTimeout, Framed, Unframed
  <2>2. Handed(r) = <<b>> /\ r.rest = <<>> /\ r.tag = "some"
    BY <2>1, Results DEF Handed
  <2> HIDE DEF r
  <2>3. g \o <<b>> = Append(g, b) /\ <<b>> \in Seq(Seq(Bytes)) /\ <<>> \in Seq(Bytes)
    OBVIOUS
  <2>4. s \in Seq(Seq(Bytes))
    BY CarriedType
  <2>5. Passed(s, Append(g, b), <<>>, l)
    BY <1>3, <2>4, PassedRead
  <2> QED BY <1>3, <2>1, <2>2, <2>3, <2>5 DEF Drains
<1> QED BY <1>1, <1>2, <1>3 DEF AllCodecs

(* One read, of n bytes, into a buffer that has room. *)
Yields(c, s, g, b, l, n, d) ==
  /\ d.bad = FALSE /\ d.msgs \in Seq(Seq(Bytes)) /\ d.buf \in Seq(Bytes)
  /\ c \in Framed => Held(c, s, g \o d.msgs, d.buf, SubSeq(l, n + 1, Len(l)))
  /\ c \in Framed /\ c # "slip_lead" => DecodeFramed(c, d.buf) = Nothing(d.buf)
  /\ c \in Unframed => Passed(s, g \o d.msgs, d.buf, SubSeq(l, n + 1, Len(l)))

LEMMA YieldsAll ==
  ASSUME NEW c \in AllCodecs, NEW s \in Seq(Carried(c)), NEW g \in Seq(Seq(Bytes)),
         NEW b \in Seq(Bytes), NEW l \in Seq(Bytes), NEW n \in 0 .. Len(l), NEW due \in BOOLEAN,
         c \in Framed => Held(c, s, g, b, l), c \in Unframed => Passed(s, g, b, l)
  PROVE  Yields(c, s, g, b, l, n, DecodeLoop(c, b \o SubSeq(l, 1, n), due))
<1> DEFINE x == b \o SubSeq(l, 1, n)
           y == SubSeq(l, n + 1, Len(l))
           d == DecodeLoop(c, x, due)
<1> SUFFICES Yields(c, s, g, b, l, n, d)
  OBVIOUS
<1>1. CASE c \in Framed
  <2>0. Held(c, s, g, b, l)
    BY <1>1
  <2>1. HeldAfter(c, s, g, y, d)
    BY <1>1, <2>0, HeldRead, Zenon
  <2>2. c \notin Unframed
    BY <1>1 DEF Framed, Unframed
  <2> HIDE DEF d, x, y
  <2>3. d.buf \in Seq(Bytes)
    BY <2>1 DEF HeldAfter, Held, Stands
  <2> QED BY <1>1, <2>1, <2>2, <2>3 DEF Yields, HeldAfter, y
<1>2. CASE c \in Unframed
  <2>0. c \notin Framed
    BY <1>2 DEF Framed, Unframed
  <2>1. x \in Seq(Bytes) /\ y \in Seq(Bytes) /\ x \o y = b \o l
    BY MoveBytes
  <2> HIDE DEF x, y
  <2>2. d.bad = FALSE /\ \/ d.msgs = <<>> /\ d.buf = x
                         \/ d.msgs = <<x>> /\ d.buf = <<>>
    BY <1>2, <2>1, LoopUnframed
  <2>3. s \in Seq(Seq(Bytes))
    BY CarriedType
  <2>4. Passed(s, g, x, y) /\ Passed(s, Append(g, x), <<>>, y)
    BY <1>2, <2>1, <2>3, PassedRead
  <2>5. g \o <<>> = g /\ g \o <<x>> = Append(g, x) /\ <<x>> \in Seq(Seq(Bytes)) /\ <<>> \in Seq(Seq(Bytes)) /\ <<>> \in Seq(Bytes)
    BY <2>1
  <2> HIDE DEF d
  <2>6. CASE d.msgs = <<>> /\ d.buf = x
    BY <2>0, <2>1, <2>2, <2>4, <2>5, <2>6 DEF Yields, y
  <2>7. CASE d.msgs = <<x>> /\ d.buf = <<>>
    BY <2>0, <2>1, <2>2, <2>4, <2>5, <2>7 DEF Yields, y
  <2> QED BY <2>2, <2>6, <2>7
<1> QED BY <1>1, <1>2 DEF AllCodecs
-----------------------------------------------------------------------------
LEMMA FramingStep == FramingInv /\ [Next]_vars => FramingInv'
<1> SUFFICES ASSUME FramingInv, [Next]_vars PROVE FramingInv'
  OBVIOUS
<1>0. codec \in AllCodecs /\ up \in BOOLEAN /\ (noise = <<>> /\ ~lost => Holding)
  BY DEF FramingInv
(* The steps by which noise is inserted or bytes are discarded apart, it   *)
(* is enough that Holding holds.                                           *)
<1>1. ASSUME codec' = codec, up' \in BOOLEAN,
             noise = <<>> /\ ~lost /\ Holding /\ noise' = <<>> /\ ~lost' => Holding',
             noise' = <<>> => noise = <<>>, ~lost' => ~lost
      PROVE  FramingInv'
  BY <1>0, <1>1 DEF FramingInv
<1>2. ASSUME NEW p \in Payloads, Send(p) PROVE FramingInv'
  <2>1. /\ ~closed /\ Carries(codec, p) /\ sent' = Append(sent, p) /\ line' = line \o Encode(codec, p)
        /\ UNCHANGED <<codec, closed, noise, up, buffer, pending, got, lost>>
    BY <1>2 DEF Send, recvVars
  <2>2. ASSUME Holding PROVE Holding'
    <3>1. p \in Carried(codec) /\ p \in Seq(Bytes)
      BY <2>1, FramingAssumption DEF Carried
    <3>2. sent' \in Seq(Carried(codec))
      BY <2>1, <2>2, <3>1 DEF Holding
    <3>3. line' \in Seq(Bytes)
      <4>1. Encode(codec, p) \in Seq(Bytes) /\ line \in Seq(Bytes)
        BY <1>0, <2>2, <3>1, EncodeType DEF Holding
      <4> QED BY <2>1, <4>1
    <3>4. ~SlipAtEnd
      BY <2>1 DEF SlipAtEnd
    <3>5. codec \in Framed => Held(codec, sent', got \o pending, buffer, line')
      BY <2>1, <2>2, <3>1, <3>4, HeldMore DEF Holding
    <3>6. codec \in Unframed => Passed(sent', got \o pending, buffer, line')
      <4> SUFFICES ASSUME codec \in Unframed PROVE Passed(sent', got \o pending, buffer, line')
        OBVIOUS
      <4>1. Encode(codec, p) = p
        BY DEF Encode, Unframed
      <4>2. got \o pending \in Seq(Seq(Bytes)) /\ sent \in Seq(Seq(Bytes))
        BY <2>2, CarriedType, ConcatProperties DEF Holding
      <4> QED BY <2>1, <2>2, <3>1, <4>1, <4>2, PassedMore DEF Holding
    <3>7. up
      BY <2>1, <2>2 DEF Holding
    <3> QED BY <2>1, <2>2, <3>2, <3>3, <3>5, <3>6, <3>7 DEF Holding
  <2> QED BY <1>0, <1>1, <2>1, <2>2
<1>3. ASSUME NEW n \in Noise[codec], Disturb(n) PROVE FramingInv'
  <2>1. /\ ~closed /\ noise = <<>> /\ noise' = n /\ line' = line \o n
        /\ UNCHANGED <<codec, sent, closed, up, buffer, pending, got, lost>>
    BY <1>3 DEF Disturb, recvVars
  <2>2. ASSUME Holding, n = <<>> PROVE Holding'
    <3>1. line' = line
      BY <2>1, <2>2, ConcatEmptySeq DEF Holding
    <3> QED BY <2>1, <2>2, <3>1 DEF Holding, SlipAtEnd
  <2> QED BY <1>0, <1>1, <2>1, <2>2
<1>4. ASSUME HangUp PROVE FramingInv'
  <2>1. ~closed /\ closed' = TRUE /\ UNCHANGED <<codec, sent, noise, line, up, buffer, pending, got, lost>>
    BY <1>4 DEF HangUp, recvVars
  <2>2. ASSUME Holding PROVE Holding'
    <3>1. ~SlipAtEnd /\ up
      BY <2>1, <2>2 DEF Holding, SlipAtEnd
    <3> QED BY <2>1, <2>2, <3>1 DEF Holding
  <2> QED BY <1>0, <1>1, <2>1, <2>2
<1>5. ASSUME HandOutPending PROVE FramingInv'
  <2>1. /\ up /\ pending # <<>> /\ HandOut(pending)
        /\ UNCHANGED <<codec, sent, closed, noise, line, up, buffer, lost>>
    BY <1>5 DEF HandOutPending, peerVars
  <2>2. ASSUME Holding PROVE Holding'
    <3>1. /\ got' \in Seq(Seq(Bytes)) /\ pending' \in Seq(Seq(Bytes))
          /\ got' \o pending' = got \o pending
      BY <2>1, <2>2, HandsOut DEF Holding
    <3>2. SlipAtEnd' = SlipAtEnd
      BY <2>1 DEF SlipAtEnd
    <3> QED BY <2>1, <2>2, <3>1, <3>2 DEF Holding
  <2> QED BY <1>0, <1>1, <2>1, <2>2
<1>6. ASSUME NEW n \in 1 .. MaxRead, Read(n) PROVE FramingInv'
  <2>1. /\ up /\ pending = <<>> /\ n <= Len(line) /\ line' = SubSeq(line, n + 1, Len(line))
        /\ UNCHANGED <<codec, sent, closed, noise, up>>
    BY <1>6 DEF Read, peerVars
  <2>2. PICK due \in BOOLEAN :
          LET kept == MakeRoom(buffer, n)
              d == DecodeLoop(codec, kept \o SubSeq(line, 1, n), due)
          IN  buffer' = d.buf /\ HandOut(d.msgs) /\ lost' = (lost \/ d.bad \/ kept # buffer)
    BY <1>6 DEF Read
  <2> DEFINE d == DecodeLoop(codec, buffer \o SubSeq(line, 1, n), due)
  <2>3. ASSUME Holding, ~lost' PROVE Holding'
    <3>1. buffer' = d.buf /\ HandOut(d.msgs)
      BY <2>2, <2>3
    <3> HIDE DEF d
    <3>2. line \in Seq(Bytes) /\ Len(line) \in Nat /\ n \in Nat /\ n >= 1
      BY <2>3, FramingAssumption DEF Holding
    <3>3. ~SlipAtEnd /\ n \in 0 .. Len(line)
      BY <2>1, <3>2 DEF SlipAtEnd
    <3>4. got \o pending = got
      BY <2>1, <2>3, ConcatEmptySeq DEF Holding
    <3>5. Yields(codec, sent, got, buffer, line, n, d)
      BY <1>0, <2>3, <3>3, <3>4, YieldsAll DEF Holding, d
    <3>6. /\ got' \in Seq(Seq(Bytes)) /\ pending' \in Seq(Seq(Bytes))
          /\ got' \o pending' = got \o d.msgs
      BY <2>1, <2>3, <3>1, <3>5, HandsOut DEF Holding, Yields
    <3>7. line' \in Seq(Bytes)
      BY <2>1, <3>2, <3>3, MoveBytes
    <3> QED BY <2>1, <2>3, <3>1, <3>5, <3>6, <3>7 DEF Holding, Yields
  <2>4. ~lost' => ~lost
    BY <2>2
  <2> QED BY <1>0, <1>1, <2>1, <2>3, <2>4
<1>7. ASSUME TimedOut PROVE FramingInv'
  <2> DEFINE r == DecodeTimeout(codec, buffer)
  <2>1. /\ up /\ pending = <<>> /\ buffer' = r.rest /\ HandOut(Handed(r))
        /\ lost' = (lost \/ r.tag = "error")
        /\ UNCHANGED <<codec, sent, closed, noise, line, up>>
    BY <1>7 DEF TimedOut, peerVars, Handed
  <2> HIDE DEF r
  <2>2. ASSUME Holding, SlipAtEnd PROVE Holding'
    <3>1. codec \in Framed /\ codec = "slip_lead" /\ codec \notin Unframed /\ buffer = <<>> /\ closed /\ line = <<>>
      BY <2>2 DEF SlipAtEnd, Framed, Unframed
    <3>2. r = Nothing(<<>>)
      BY <3>1, TurnEmpty, OneCall DEF r, DecodeTimeout
    <3>3. buffer' = <<>> /\ Handed(r) = <<>>
      BY <2>1, <3>2, Results DEF Handed
    <3>4. SlipAtEnd'
      BY <2>1, <3>1, <3>3 DEF SlipAtEnd
    <3>5. got' = got /\ pending' = pending
      BY <2>1, <3>3 DEF HandOut
    <3> QED BY <2>1, <2>2, <3>1, <3>3, <3>4, <3>5 DEF Holding
  <2>3. ASSUME Holding, ~SlipAtEnd PROVE Holding'
    <3>1. got \o pending = got
      BY <2>1, <2>3, ConcatEmptySeq DEF Holding
    <3>2. Drains(codec, sent, got, buffer, line, r)
      BY <1>0, <2>3, <3>1, DrainsAll DEF Holding, r
    <3>3. /\ got' \in Seq(Seq(Bytes)) /\ pending' \in Seq(Seq(Bytes))
          /\ got' \o pending' = got \o Handed(r)
      BY <2>1, <2>3, <3>2, HandsOut DEF Holding, Drains
    <3> QED BY <2>1, <2>3, <3>2, <3>3 DEF Holding, Drains
  <2> QED BY <1>0, <1>1, <2>1, <2>2, <2>3
<1>8. ASSUME Eof PROVE FramingInv'
  <2> DEFINE r == DecodeTimeout(codec, buffer)
  <2>1. /\ up /\ closed /\ pending = <<>> /\ line = <<>> /\ buffer' = <<>> /\ HandOut(Handed(r))
        /\ up' = (r.tag = "some")
        /\ UNCHANGED <<codec, sent, closed, noise, line, lost>>
    BY <1>8 DEF Eof, peerVars, Handed
  <2> HIDE DEF r
  <2>2. codec = "slip_lead" => SlipAtEnd'
    BY <2>1 DEF SlipAtEnd
  <2>3. ASSUME Holding, SlipAtEnd PROVE Holding'
    <3>1. codec \in Framed /\ codec = "slip_lead" /\ codec \notin Unframed /\ buffer = <<>>
      BY <2>3 DEF SlipAtEnd, Framed, Unframed
    <3>2. r = Nothing(<<>>)
      BY <3>1, TurnEmpty, OneCall DEF r, DecodeTimeout
    <3>3. Handed(r) = <<>>
      BY <3>2, Results DEF Handed
    <3>5. got' = got /\ pending' = pending
      BY <2>1, <3>3 DEF HandOut
    <3>6. <<>> \in Seq(Bytes)
      OBVIOUS
    <3> QED BY <2>1, <2>2, <2>3, <3>1, <3>5, <3>6 DEF Holding
  <2>4. ASSUME Holding, ~SlipAtEnd PROVE Holding'
    <3>1. got \o pending = got /\ <<>> \in Seq(Bytes)
      BY <2>1, <2>4, ConcatEmptySeq DEF Holding
    <3>2. Drains(codec, sent, got, buffer, line, r)
      BY <1>0, <2>4, <3>1, DrainsAll DEF Holding, r
    <3>3. /\ got' \in Seq(Seq(Bytes)) /\ pending' \in Seq(Seq(Bytes))
          /\ got' \o pending' = got \o Handed(r)
      BY <2>1, <2>4, <3>2, HandsOut DEF Holding, Drains
    <3>4. codec \in Framed /\ codec # "slip_lead" => r.rest = <<>>
      <4> SUFFICES ASSUME codec \in Framed, codec # "slip_lead" PROVE r.rest = <<>>
        OBVIOUS
      <4>1. Held(codec, sent, got, buffer, <<>>) /\ DecodeFramed(codec, buffer) = Nothing(buffer)
        BY <2>1, <2>4, <3>1 DEF Holding
      <4>2. buffer = <<>>
        BY <2>4, <4>1, HeldDone DEF Holding
      <4> QED BY <3>2, <4>2, Results DEF Drains
    <3>5. r.tag # "some" => Handed(r) = <<>>
      BY DEF Handed
    <3>6. ~up' => pending' = <<>>
      BY <2>1, <3>5 DEF HandOut
    <3>7. codec \in Unframed => r.rest = <<>>
      BY <3>2 DEF Drains
    <3>8. codec \in Framed => DecodeFramed(codec, <<>>) = Nothing(<<>>)
      BY TurnEmpty
    <3>9. codec \in Framed /\ ~SlipAtEnd' => Held(codec, sent, got' \o pending', buffer', line')
      BY <2>1, <2>2, <3>2, <3>3, <3>4 DEF Drains
    <3>10. codec \in Unframed => Passed(sent, got' \o pending', buffer', line')
      BY <2>1, <3>2, <3>3, <3>7 DEF Drains
    <3> QED BY <2>1, <2>4, <3>1, <3>3, <3>6, <3>8, <3>9, <3>10 DEF Holding
  <2> QED BY <1>0, <1>1, <2>1, <2>3, <2>4
<1>9. ASSUME RetryTick \/ OtherArm \/ Tick \/ UNCHANGED vars PROVE FramingInv'
  <2>1. UNCHANGED <<codec, sent, closed, noise, line, up, buffer, pending, got, lost>>
    BY <1>9 DEF RetryTick, OtherArm, Tick, vars, peerVars, recvVars
  <2> QED BY <1>0, <2>1 DEF FramingInv, Holding, SlipAtEnd
<1> QED BY <1>2, <1>3, <1>4, <1>5, <1>6, <1>7, <1>8, <1>9 DEF Next, Receive

(* The whole transport, codec, buffer and queue of waiting messages, on a  *)
(* clean line (transport.rs 83-256): every byte sent is in one place.      *)
THEOREM FramingInvariant == Spec => []FramingInv
<1> QED BY FramingStart, FramingStep, PTL DEF Spec
-----------------------------------------------------------------------------
(* The frames behind the first k are what lies ahead of the decoder.       *)
LEMMA BehindIs ==
  ASSUME NEW k \in 0 .. Len(sent), sent \in Seq(Carried(codec))
  PROVE  Behind(k) = Ahead(codec, SubSeq(sent, k + 1, Len(sent)))
<1> DEFINE q == SubSeq(sent, k + 1, Len(sent))
           f == [i \in 1 .. Len(sent) - k |-> Encode(codec, sent[k + i])]
<1>1. Len(q) = Len(sent) - k /\ \A i \in 1 .. Len(sent) - k : q[i] = sent[k + i]
  OBVIOUS
<1> HIDE DEF q
<1>2. Frames(codec, q) = f
  BY <1>1 DEF Frames
<1>3. Stream(codec, q) = FlattenSeq(f)
  BY <1>2 DEF Stream
<1> HIDE DEF f
<1> QED BY <1>3 DEF Behind, Ahead, f, q

(* For every codec, payload and read: CodecTransport::recv never loses,    *)
(* repeats or reorders a payload on a clean line, and what it has not      *)
(* handed out is in its buffer or on the line, to the byte (transport.rs). *)
THEOREM NothingLostHolds == Spec => []NothingLost
<1>1. FramingInv => NothingLost
  <2> SUFFICES ASSUME FramingInv, up, noise = <<>>, ~lost, ~SlipAtEnd PROVE NothingLost
    BY DEF NothingLost
  <2>1. Holding /\ codec \in AllCodecs
    BY DEF FramingInv
  <2>2. CASE codec \in Framed
    <3>1. PICK k \in 0 .. Len(sent) :
            got \o pending = SubSeq(sent, 1, k) /\ Stands(codec, SubSeq(sent, k + 1, Len(sent)), buffer, line)
      BY <2>1, <2>2 DEF Holding, Held
    <3>2. buffer \o line \in Behind(k)
      BY <2>1, <3>1, BehindIs DEF Holding, Stands
    <3> QED BY <2>2, <3>1, <3>2 DEF NothingLost
  <2>3. CASE codec \in Unframed
    BY <2>1, <2>3 DEF NothingLost, Holding, Passed
  <2> QED BY <2>1, <2>2, <2>3 DEF AllCodecs
<1> QED BY <1>1, FramingInvariant, PTL

(* For every codec but SLIP with a leading END: when the peer has closed a *)
(* clean line, recv has handed out all that was sent before it answers     *)
(* that the connection is closed (transport.rs 151-188).                   *)
THEOREM CompleteAtEofHolds == Spec => []CompleteAtEof
<1>1. FramingInv => CompleteAtEof
  <2> SUFFICES ASSUME FramingInv, ~up, noise = <<>>, ~lost, codec # "slip_lead"
               PROVE  FlattenSeq(got) = FlattenSeq(sent)
    BY DEF CompleteAtEof
  <2>1. Holding /\ codec \in AllCodecs /\ pending = <<>> /\ line = <<>> /\ buffer = <<>>
    BY DEF FramingInv, Holding
  <2>2. got \o pending = got /\ got \in Seq(Seq(Bytes))
    BY <2>1, ConcatEmptySeq DEF Holding
  <2>3. CASE codec \in Framed
    <3>1. Held(codec, sent, got, buffer, <<>>) /\ DecodeFramed(codec, buffer) = Nothing(buffer)
      BY <2>1, <2>2, <2>3 DEF Holding, SlipAtEnd
    <3>2. got = sent
      BY <2>1, <2>3, <3>1, HeldDone DEF Holding
    <3> QED BY <3>2
  <2>4. CASE codec \in Unframed
    <3>1. FlattenSeq(got) \o <<>> \o <<>> = FlattenSeq(sent)
      BY <2>1, <2>2, <2>4 DEF Holding, Passed
    <3>2. FlattenSeq(got) \in Seq(Bytes)
      BY <2>2, FlattenType
    <3> QED BY <3>1, <3>2, ConcatEmptySeq
  <2> QED BY <2>1, <2>3, <2>4 DEF AllCodecs
<1> QED BY <1>1, FramingInvariant, PTL
-----------------------------------------------------------------------------
(* SLIP with a leading END.  What lies between two ENDs when s was sent    *)
(* and the line inserted n: nothing, the noise, or a payload's escapes.    *)
Pieces(s, n) ==
  {g \in Seq(Bytes \ {END}) : g = <<>> \/ g = n \/ SlipDecode(g) \in ToSet(s)}

Ended(s, n) == {g \o <<END>> : g \in Pieces(s, n)}

(* The bytes x are such pieces, each with the END behind it, and the last  *)
(* noise, if no END follows it yet.                                        *)
Apart(s, n, x) == \E fs \in Seq(Ended(s, n)), t \in {<<>>, n} : x = FlattenSeq(fs) \o t

(* What may be decoded from a piece. *)
Allowed(s, n) == ToSet(s) \cup (IF n = <<>> THEN {} ELSE {SlipDecode(n)})

LEMMA SeqGrows ==
  ASSUME NEW S, NEW T, S \subseteq T, NEW s \in Seq(S)
  PROVE  s \in Seq(T)
<1>1. Len(s) \in Nat /\ s = [i \in 1 .. Len(s) |-> s[i]] /\ \A i \in 1 .. Len(s) : s[i] \in S
  OBVIOUS
<1> QED BY <1>1

LEMMA PiecesType ==
  ASSUME NEW s, NEW n
  PROVE  /\ \A g \in Pieces(s, n) : g \in Seq(Bytes) /\ g \in Seq(Bytes \ {END})
         /\ Ended(s, n) \subseteq Seq(Bytes)
         /\ <<>> \in Pieces(s, n)
<1>1. ASSUME NEW g \in Pieces(s, n) PROVE g \in Seq(Bytes) /\ g \in Seq(Bytes \ {END})
  <2>1. g \in Seq(Bytes \ {END})
    BY DEF Pieces
  <2> QED BY <2>1, SeqGrows
<1>2. ASSUME NEW g \in Pieces(s, n) PROVE g \o <<END>> \in Seq(Bytes)
  <2>1. g \in Seq(Bytes) /\ <<END>> \in Seq(Bytes)
    BY <1>1, SpecialBytes
  <2> QED BY <2>1
<1>3. <<>> \in Pieces(s, n)
  BY DEF Pieces
<1> QED BY <1>1, <1>2, <1>3 DEF Ended

LEMMA AllowedType ==
  ASSUME NEW s \in Seq(Seq(Bytes)), NEW n \in Seq(Bytes)
  PROVE  Allowed(s, n) \subseteq Seq(Bytes)
<1>1. SlipDecode(n) \in Seq(Bytes)
  BY SlipPartsType, FlattenType
<1>2. ToSet(s) \subseteq Seq(Bytes)
  BY DEF ToSet
<1> QED BY <1>1, <1>2 DEF Allowed

(* One call of decode on x, in front of y. *)
Splits(s, n, x, y, r) ==
  /\ r.rest \in Seq(Bytes)
  /\ Apart(s, n, r.rest \o y)
  /\ r.tag \in {"some", "none", "error"}
  /\ r.tag = "some" => r.payload \in Allowed(s, n)

LEMMA ApartTurn ==
  ASSUME NEW s \in Seq(Seq(Bytes)), NEW n \in Seq(Bytes \ {END}),
         NEW x \in Seq(Bytes), NEW y \in Seq(Bytes), Apart(s, n, x \o y)
  PROVE  Splits(s, n, x, y, DecodeFramed("slip_lead", x))
<1> DEFINE c == "slip_lead"
<1>1. c \in Framed /\ Delimiter(c) = <<END>>
  BY DEF Framed, Delimiter
<1>2. PICK fs \in Seq(Ended(s, n)), t \in {<<>>, n} : x \o y = FlattenSeq(fs) \o t
  BY DEF Apart
<1>3. t \in Seq(Bytes) /\ t \in Seq(Bytes \ {END}) /\ fs \in Seq(Seq(Bytes))
  <2>1. n \in Seq(Bytes) /\ <<>> \in Seq(Bytes) /\ <<>> \in Seq(Bytes \ {END})
    BY SeqGrows
  <2> QED BY <2>1, PiecesType, SeqGrows
<1> DEFINE r == DecodeFramed(c, x)
<1>4. ASSUME r = Nothing(x) PROVE Splits(s, n, x, y, r)
  <2>1. r.tag = "none" /\ r.rest = x
    BY <1>4, Results
  <2> HIDE DEF r
  <2> QED BY <2>1 DEF Splits
<1>5. CASE fs = <<>>
  <2>1. x \o y = t
    <3>1. FlattenSeq(fs) = <<>>
      BY <1>5 DEF FlattenSeq
    <3> QED BY <1>2, <1>3, <3>1, ConcatEmptySeq
  <2>2. ASSUME NEW i \in 1 .. Len(x) PROVE ~EndsAt(x, i, <<END>>)
    <3>1. (x \o y)[i] = x[i] /\ i \in 1 .. Len(x \o y) /\ i \in Nat
      OBVIOUS
    <3>2. i \in 1 .. Len(t) /\ t[i] = x[i]
      BY <2>1, <3>1
    <3>3. t[i] # END
      BY <1>3, <3>2
    <3> QED BY <3>1, <3>2, <3>3, EndsInOne
  <2>3. r = Nothing(x)
    BY <1>1, <2>2, DecodeNone
  <2> QED BY <1>4, <2>3
<1>6. CASE fs # <<>>
  <2> DEFINE F == FlattenSeq(Tail(fs)) \o t
  <2>1. Tail(fs) \in Seq(Ended(s, n)) /\ fs[1] \in Ended(s, n)
    BY <1>6
  <2>2. PICK g \in Pieces(s, n) : fs[1] = g \o <<END>>
    BY <2>1 DEF Ended
  <2>3. g \in Seq(Bytes) /\ g \in Seq(Bytes \ {END}) /\ fs[1] \in Seq(Bytes)
    BY <2>1, <2>2, PiecesType
  <2>4. Terminated(c, fs[1]) /\ Body(c, fs[1]) = g
    <3>1. Terminated(c, g \o <<END>>) /\ Body(c, g \o <<END>>) = g
      BY <1>1, <2>3, DelimitedByOne
    <3> QED BY <2>2, <3>1
  <2>5. FlattenSeq(Tail(fs)) \in Seq(Bytes) /\ F \in Seq(Bytes)
    <3>1. Tail(fs) \in Seq(Seq(Bytes))
      BY <1>3, <1>6
    <3>2. FlattenSeq(Tail(fs)) \in Seq(Bytes)
      BY <3>1, FlattenType
    <3> QED BY <1>3, <3>2, ConcatProperties
  <2>6. SameWhole(x, y, fs[1], F)
    <3>1. FlattenSeq(fs) = fs[1] \o FlattenSeq(Tail(fs))
      BY <1>3, <1>6, FlattenFirst
    <3>2. Grouped(fs[1], FlattenSeq(Tail(fs)), t)
      BY <1>3, <2>3, <2>5, Regroup, Zenon
    <3> QED BY <1>2, <3>1, <3>2 DEF SameWhole, Grouped
  <2>7. Apart(s, n, F)
    BY <2>1 DEF Apart
  <2> HIDE DEF F
  <2>8. CASE Len(fs[1]) <= Len(x)
    <3>1. PICK q \in Seq(Bytes) : Remains(x, y, fs[1], F, q)
      BY <2>3, <2>5, <2>6, <2>8, CutBehind, Zenon
    <3>2. x = fs[1] \o q /\ q \o y = F
      BY <3>1 DEF Remains
    <3>3. r = DecodeFrame(c, g, q)
      <4>1. DecodeFramed(c, fs[1] \o q) = DecodeFrame(c, Body(c, fs[1]), q)
        BY <1>1, <2>4, DecodeWhole
      <4> QED BY <2>4, <3>2, <4>1
    <3>4. r.rest = q /\ r.tag \in {"some", "none", "error"}
      BY <1>1, <3>3, FrameRest
    <3>5. ASSUME r.tag = "some" PROVE r.payload \in Allowed(s, n)
      <4>1. g # <<>> /\ r = Some(SlipDecode(g), q)
        BY <3>3, <3>5 DEF DecodeFrame, Nothing, Bad
      <4>2. r.payload = SlipDecode(g)
        BY <4>1, Results
      <4>3. g = n \/ SlipDecode(g) \in ToSet(s)
        BY <4>1 DEF Pieces
      <4> QED BY <4>1, <4>2, <4>3 DEF Allowed
    <3> QED BY <2>7, <3>2, <3>4, <3>5 DEF Splits
  <2>9. CASE ~(Len(fs[1]) <= Len(x))
    <3>1. x = SubSeq(fs[1], 1, Len(x)) /\ Len(x) < Len(fs[1])
      BY <2>3, <2>5, <2>6, <2>9, CutBefore, Zenon
    <3>2. Len(x) \in 0 .. Len(fs[1]) - 1
      BY <2>3, <3>1
    <3>3. DecodeFramed(c, SubSeq(fs[1], 1, Len(x))) = Nothing(SubSeq(fs[1], 1, Len(x)))
      BY <1>1, <2>4, <3>2, DecodePart
    <3> QED BY <1>4, <3>1, <3>3
  <2> QED BY <2>8, <2>9
<1> QED BY <1>5, <1>6

(* What the decode loop leaves and yields, if it meets no error. *)
LoopSplits(s, n, y, l) ==
  /\ Answer(l) /\ l.bad \in BOOLEAN
  /\ l.bad = FALSE => /\ l.buf \in Seq(Bytes) /\ Apart(s, n, l.buf \o y)
                      /\ l.msgs \in Seq(Allowed(s, n))

LEMMA ApartLoop ==
  ASSUME NEW s \in Seq(Seq(Bytes)), NEW n \in Seq(Bytes \ {END}),
         NEW z \in Seq(Bytes), NEW y \in Seq(Bytes), Apart(s, n, z \o y), NEW due
  PROVE  LoopSplits(s, n, y, DecodeLoop("slip_lead", z, due))
<1> DEFINE c == "slip_lead"
           Fails(x) == Apart(s, n, x \o y) /\ ~LoopSplits(s, n, y, DecodeLoop(c, x, due))
           T == {k \in Nat : \E x \in Seq(Bytes) : Len(x) = k /\ Fails(x)}
<1>1. T = {}
  <2> SUFFICES ASSUME T # {} PROVE FALSE
    OBVIOUS
  <2>1. PICK k \in T : \A l \in T : k <= l
    <3>1. T \subseteq Nat
      OBVIOUS
    <3> HIDE DEF T
    <3> QED BY <3>1, LeastNumber, Zenon
  <2>2. PICK x \in Seq(Bytes) : Len(x) = k /\ Fails(x)
    OBVIOUS
  <2> DEFINE r == DecodeFramed(c, x)
             l == DecodeLoop(c, x, due)
  <2>3. c \in Framed /\ c \in AllCodecs /\ DecodeOne(c, x, due) = r
    BY DEF Framed, Unframed, AllCodecs, DecodeOne
  <2>4. LoopTurn(c, due, x, r, l) /\ Splits(s, n, x, y, r) /\ Shrinks(r, x)
    BY <2>2, <2>3, LoopIs, ApartTurn, FramedShrinks
  <2> HIDE DEF r, l, T
  <2>5. CASE r.tag = "none"
    <3>1. l = [buf |-> r.rest, msgs |-> <<>>, bad |-> FALSE]
      BY <2>4, <2>5 DEF LoopTurn
    <3>2. Answer(l) /\ l.buf = r.rest /\ l.msgs = <<>> /\ l.bad \in BOOLEAN
      BY <3>1 DEF Answer
    <3>3. r.rest \in Seq(Bytes) /\ Apart(s, n, r.rest \o y) /\ <<>> \in Seq(Allowed(s, n))
      BY <2>4 DEF Splits
    <3>4. LoopSplits(s, n, y, l)
      BY <3>2, <3>3 DEF LoopSplits
    <3> QED BY <2>2, <3>4 DEF l
  <2>6. CASE r.tag = "error"
    <3>1. l = [buf |-> <<>>, msgs |-> <<>>, bad |-> TRUE]
      BY <2>4, <2>6 DEF LoopTurn
    <3>2. Answer(l) /\ l.bad = TRUE
      BY <3>1 DEF Answer
    <3>3. LoopSplits(s, n, y, l)
      BY <3>2 DEF LoopSplits
    <3> QED BY <2>2, <3>3 DEF l
  <2>7. CASE r.tag = "some"
    <3>1. /\ r.rest \in Seq(Bytes) /\ Apart(s, n, r.rest \o y) /\ r.payload \in Allowed(s, n)
          /\ Len(r.rest) < Len(x) /\ Len(r.rest) \in Nat
      BY <2>4, <2>7 DEF Splits, Shrinks
    <3> DEFINE m == DecodeLoop(c, r.rest, due)
    <3>2. LoopSplits(s, n, y, m)
      <4>1. Len(r.rest) \notin T
        <5>1. ~(k <= Len(r.rest))
          BY <2>2, <3>1
        <5> QED BY <2>1, <5>1
      <4>2. ~Fails(r.rest)
        BY <3>1, <4>1 DEF T
      <4> QED BY <3>1, <4>2
    <3>3. l = [m EXCEPT !.msgs = <<r.payload>> \o @]
      BY <2>4, <2>7 DEF LoopTurn
    <3> HIDE DEF m
    <3>4. m = [buf |-> m.buf, msgs |-> m.msgs, bad |-> m.bad]
      BY <3>2, Zenon DEF LoopSplits, Answer
    <3>5. Answer(l) /\ l.buf = m.buf /\ l.msgs = <<r.payload>> \o m.msgs /\ l.bad = m.bad
      <4>1. PICK u, v, w : m = [buf |-> u, msgs |-> v, bad |-> w]
        BY <3>4
      <4> QED BY <3>3, <4>1 DEF Answer
    <3>6. ASSUME m.msgs \in Seq(Allowed(s, n)) PROVE l.msgs \in Seq(Allowed(s, n))
      <4>1. <<r.payload>> \in Seq(Allowed(s, n))
        BY <3>1
      <4> QED BY <3>5, <3>6, <4>1, ConcatProperties
    <3>7. LoopSplits(s, n, y, l)
      BY <3>2, <3>5, <3>6 DEF LoopSplits
    <3> QED BY <2>2, <3>7 DEF l
  <2> QED BY <2>4, <2>5, <2>6, <2>7 DEF Splits
<1>2. Len(z) \in Nat
  OBVIOUS
<1>3. ~Fails(z)
  BY <1>1, <1>2
<1> QED BY <1>3

(* More noise, or none before, and more payloads leave the pieces pieces.  *)
LEMMA PiecesGrow ==
  ASSUME NEW s, NEW n, NEW s2, NEW n2, ToSet(s) \subseteq ToSet(s2), n = <<>> \/ n2 = n
  PROVE  /\ Ended(s, n) \subseteq Ended(s2, n2) /\ {<<>>, n} \subseteq {<<>>, n2}
         /\ Allowed(s, n) \subseteq Allowed(s2, n2)
<1>1. Pieces(s, n) \subseteq Pieces(s2, n2)
  BY DEF Pieces
<1> QED BY <1>1 DEF Ended, Allowed

LEMMA ApartSend ==
  ASSUME NEW s \in Seq(Seq(Bytes)), NEW n \in Seq(Bytes \ {END}), NEW x \in Seq(Bytes),
         NEW p \in Carried("slip_lead"), Apart(s, n, x)
  PROVE  Apart(Append(s, p), n, x \o Encode("slip_lead", p))
<1> DEFINE q == Append(s, p)
           d == <<END>>
           g == FlattenSeq(Escapes(p, Len(p)))
<1>1. PICK fs \in Seq(Ended(s, n)), t \in {<<>>, n} : x = FlattenSeq(fs) \o t
  BY DEF Apart
<1>2. p \in Seq(Bytes) /\ d \in Seq(Bytes)
  BY SpecialBytes DEF Carried
<1>3. p \in ToSet(q) /\ ToSet(s) \subseteq ToSet(q)
  <2>1. /\ Len(q) = Len(s) + 1 /\ q[Len(s) + 1] = p /\ Len(s) + 1 \in DOMAIN q
        /\ \A i \in DOMAIN s : i \in DOMAIN q /\ q[i] = s[i]
    BY <1>2
  <2> HIDE DEF q
  <2> QED BY <2>1 DEF ToSet
<1> HIDE DEF q
<1>4. g \in Pieces(q, n) /\ g \in Seq(Bytes)
  <2>1. g \in Seq(Bytes \ {END}) /\ SlipDecode(g) = p
    BY <1>2, SlipSaysAll DEF SlipSays
  <2> HIDE DEF g
  <2>2. g \in Pieces(q, n)
    BY <1>3, <2>1 DEF Pieces
  <2> QED BY <2>2, PiecesType
<1>5. Encode("slip_lead", p) = d \o (g \o d)
  <2>1. Encode("slip_lead", p) = <<END>> \o g \o <<END>>
    <3>1. Escapes(p, Len(p)) = [i \in 1 .. Len(p) |-> Escape(p[i])]
      BY DEF Escapes
    <3> QED BY <3>1 DEF Encode, SlipEncode
  <2>2. Grouped(d, g, d)
    BY <1>2, <1>4, Regroup, Zenon
  <2> QED BY <2>1, <2>2 DEF Grouped
<1> HIDE DEF g
<1>6. t \in Pieces(q, n) /\ t \in Seq(Bytes)
  <2>1. t \in Pieces(q, n)
    <3>1. <<>> \in Pieces(q, n)
      BY PiecesType
    <3>2. n \in Pieces(q, n)
      BY DEF Pieces
    <3> QED BY <3>1, <3>2
  <2> QED BY <2>1, PiecesType
<1>7. t \o d \in Ended(q, n) /\ g \o d \in Ended(q, n)
  BY <1>4, <1>6 DEF Ended
<1>8. fs \in Seq(Ended(q, n)) /\ Ended(q, n) \subseteq Seq(Bytes)
  <2>1. Ended(s, n) \subseteq Ended(q, n)
    BY <1>3, PiecesGrow, Zenon
  <2>2. fs \in Seq(Ended(q, n))
    BY <2>1, SeqGrows, Zenon
  <2>3. Ended(q, n) \subseteq Seq(Bytes)
    BY PiecesType, Zenon
  <2> QED BY <2>2, <2>3
<1> DEFINE hs == Append(fs, t \o d)
           ks == Append(hs, g \o d)
<1>9. hs \in Seq(Ended(q, n)) /\ ks \in Seq(Ended(q, n))
  BY <1>7, <1>8
<1>10. /\ t \o d \in Seq(Bytes) /\ g \o d \in Seq(Bytes) /\ fs \in Seq(Seq(Bytes)) /\ hs \in Seq(Seq(Bytes))
       /\ FlattenSeq(fs) \in Seq(Bytes)
  <2>1. fs \in Seq(Seq(Bytes)) /\ hs \in Seq(Seq(Bytes))
    BY <1>8, <1>9, SeqGrows
  <2> QED BY <1>7, <1>8, <2>1, FlattenType
<1>11. FlattenSeq(ks) = (FlattenSeq(fs) \o (t \o d)) \o (g \o d)
  BY <1>10, FlattenAppend
<1> HIDE DEF ks, hs, d
<1>12. Grouped(FlattenSeq(fs), t, d) /\ Grouped(FlattenSeq(fs) \o t, d, g \o d)
  <2>1. FlattenSeq(fs) \o t \in Seq(Bytes)
    BY <1>6, <1>10, ConcatProperties
  <2> QED BY <1>2, <1>6, <1>10, <2>1, Regroup, Zenon
<1>13. x \o Encode("slip_lead", p) = FlattenSeq(ks)
  BY <1>1, <1>5, <1>11, <1>12 DEF Grouped
<1>14. FlattenSeq(ks) \o <<>> = FlattenSeq(ks)
  <2>1. FlattenSeq(ks) \in Seq(Bytes)
    <3>1. ks \in Seq(Seq(Bytes))
      BY <1>8, <1>9, SeqGrows
    <3> QED BY <3>1, FlattenType
  <2> QED BY <2>1, ConcatEmptySeq
<1> QED BY <1>9, <1>13, <1>14 DEF Apart, q

LEMMA ApartDisturb ==
  ASSUME NEW s, NEW n \in Seq(Bytes), NEW x \in Seq(Bytes), Apart(s, <<>>, x)
  PROVE  Apart(s, n, x \o n)
<1>1. PICK fs \in Seq(Ended(s, <<>>)) : x = FlattenSeq(fs) \o <<>>
  BY DEF Apart
<1>2. fs \in Seq(Seq(Bytes)) /\ fs \in Seq(Ended(s, n))
  <2>1. Ended(s, <<>>) \subseteq Ended(s, n) /\ Ended(s, <<>>) \subseteq Seq(Bytes)
    BY PiecesGrow, PiecesType
  <2> QED BY <2>1, SeqGrows
<1>3. x = FlattenSeq(fs)
  BY <1>1, <1>2, FlattenType, ConcatEmptySeq
<1> QED BY <1>2, <1>3 DEF Apart
-----------------------------------------------------------------------------
(* As long as the line inserts no END and nothing was discarded, with a    *)
(* leading END: the messages are pieces, and so are the bytes to come.     *)
Separated ==
  /\ noise \in Seq(Bytes \ {END}) /\ sent \in Seq(Seq(Bytes))
  /\ line \in Seq(Bytes) /\ buffer \in Seq(Bytes)
  /\ got \in Seq(Seq(Bytes)) /\ pending \in Seq(Seq(Bytes))
  /\ got \o pending \in Seq(Allowed(sent, noise))
  /\ Apart(sent, noise, buffer \o line)

SeparatedInv ==
  /\ codec \in Codecs
  /\ codec = "slip_lead" /\ END \notin ToSet(noise) /\ ~lost => Separated

LEMMA ApartNone == ASSUME NEW s, NEW n PROVE Apart(s, n, <<>>)
<1>1. <<>> \in Seq(Ended(s, n)) /\ FlattenSeq(<<>>) = <<>> /\ <<>> \o <<>> = <<>>
  BY DEF FlattenSeq
<1> QED BY <1>1 DEF Apart

LEMMA SeparatedStart == Init => SeparatedInv
<1> SUFFICES ASSUME Init PROVE SeparatedInv
  OBVIOUS
<1>1. /\ codec \in Codecs /\ noise = <<>> /\ sent = <<>> /\ line = <<>>
      /\ buffer = <<>> /\ got = <<>> /\ pending = <<>>
  BY DEF Init
<1>2. <<>> \o <<>> = <<>> /\ \A S : <<>> \in Seq(S)
  OBVIOUS
<1> QED BY <1>1, <1>2, ApartNone DEF SeparatedInv, Separated

(* Messages that may be received follow such messages. *)
LEMMA MoreAllowed ==
  ASSUME NEW ms, Separated, pending = <<>>, ms \in Seq(Allowed(sent, noise)), HandOut(ms),
         UNCHANGED <<sent, noise>>
  PROVE  /\ got' \in Seq(Seq(Bytes)) /\ pending' \in Seq(Seq(Bytes))
         /\ got' \o pending' \in Seq(Allowed(sent', noise'))
<1>1. got \in Seq(Allowed(sent, noise))
  BY ConcatEmptySeq DEF Separated
<1>2. ms \in Seq(Seq(Bytes))
  <2>1. noise \in Seq(Bytes)
    BY SeqGrows DEF Separated
  <2>2. Allowed(sent, noise) \subseteq Seq(Bytes)
    BY <2>1, AllowedType DEF Separated
  <2> QED BY <2>2, SeqGrows, Zenon
<1>3. /\ got' \in Seq(Seq(Bytes)) /\ pending' \in Seq(Seq(Bytes))
      /\ got' \o pending' = got \o ms
  BY <1>2, HandsOut DEF Separated
<1>4. got \o ms \in Seq(Allowed(sent, noise))
  BY <1>1, ConcatProperties
<1> QED BY <1>3, <1>4

LEMMA SeparatedStep == SeparatedInv /\ [Next]_vars => SeparatedInv'
<1> SUFFICES ASSUME SeparatedInv, [Next]_vars PROVE SeparatedInv'
  OBVIOUS
<1>0. codec \in Codecs
  BY DEF SeparatedInv
(* It is enough that the invariant's second part holds.  Noise is never    *)
(* taken back and discarded bytes stay discarded.                          *)
<1>1. ASSUME codec' = codec,
             codec = "slip_lead" /\ Separated /\ END \notin ToSet(noise') /\ ~lost' => Separated',
             END \notin ToSet(noise') => END \notin ToSet(noise), ~lost' => ~lost
      PROVE  SeparatedInv'
  BY <1>1 DEF SeparatedInv
<1>2. ASSUME NEW p \in Payloads, Send(p) PROVE SeparatedInv'
  <2>1. /\ Carries(codec, p) /\ sent' = Append(sent, p) /\ line' = line \o Encode(codec, p)
        /\ UNCHANGED <<codec, noise, buffer, pending, got, lost>>
    BY <1>2 DEF Send, recvVars
  <2>2. ASSUME Separated, codec = "slip_lead" PROVE Separated'
    <3>1. p \in Carried("slip_lead") /\ p \in Seq(Bytes)
      BY <2>1, <2>2, FramingAssumption DEF Carried
    <3>2. sent' \in Seq(Seq(Bytes))
      BY <2>1, <2>2, <3>1 DEF Separated
    <3>3. Encode("slip_lead", p) \in Seq(Bytes)
      <4>1. "slip_lead" \in AllCodecs
        BY DEF AllCodecs, Framed
      <4> QED BY <3>1, <4>1, EncodeType
    <3>4. line' \in Seq(Bytes) /\ buffer \o line' = (buffer \o line) \o Encode("slip_lead", p)
      <4>1. Grouped(buffer, line, Encode("slip_lead", p))
        BY <2>2, <3>3, Regroup, Zenon DEF Separated
      <4>2. line \o Encode("slip_lead", p) \in Seq(Bytes)
        BY <2>2, <3>3, ConcatProperties DEF Separated
      <4> QED BY <2>1, <2>2, <4>1, <4>2 DEF Grouped
    <3>5. Apart(sent', noise, buffer \o line')
      <4>1. buffer \o line \in Seq(Bytes)
        BY <2>2, ConcatProperties DEF Separated
      <4>2. Apart(Append(sent, p), noise, (buffer \o line) \o Encode("slip_lead", p))
        BY <2>2, <3>1, <4>1, ApartSend, Zenon DEF Separated
      <4> QED BY <2>1, <3>4, <4>2
    <3>6. got \o pending \in Seq(Allowed(sent', noise))
      <4>1. ToSet(sent) \subseteq ToSet(sent')
        <5>1. DOMAIN sent \subseteq DOMAIN sent' /\ \A i \in DOMAIN sent : sent'[i] = sent[i]
          BY <2>1, <2>2, <3>1 DEF Separated
        <5> QED BY <5>1 DEF ToSet
      <4>2. Allowed(sent, noise) \subseteq Allowed(sent', noise)
        BY <4>1, PiecesGrow, Zenon
      <4> QED BY <2>2, <4>2, SeqGrows, Zenon DEF Separated
    <3> QED BY <2>1, <2>2, <3>2, <3>4, <3>5, <3>6 DEF Separated
  <2> QED BY <1>1, <2>1, <2>2
<1>3. ASSUME NEW n \in Noise[codec], Disturb(n) PROVE SeparatedInv'
  <2>1. /\ noise = <<>> /\ noise' = n /\ line' = line \o n
        /\ UNCHANGED <<codec, sent, buffer, pending, got, lost>>
    BY <1>3 DEF Disturb, recvVars
  <2>2. ASSUME Separated, END \notin ToSet(n) PROVE Separated'
    <3>1. n \in Seq(Bytes) /\ n \in Seq(Bytes \ {END})
      <4>1. n \in Seq(Bytes)
        BY <1>0, FramingAssumption
      <4>2. \A i \in 1 .. Len(n) : n[i] \in Bytes \ {END}
        BY <2>2, <4>1 DEF ToSet
      <4> QED BY <4>1, <4>2
    <3>2. line' \in Seq(Bytes) /\ buffer \o line' = (buffer \o line) \o n
      <4>1. Grouped(buffer, line, n)
        BY <2>2, <3>1, Regroup, Zenon DEF Separated
      <4>2. line \o n \in Seq(Bytes)
        BY <2>2, <3>1, ConcatProperties DEF Separated
      <4> QED BY <2>1, <2>2, <4>1, <4>2 DEF Grouped
    <3>3. Apart(sent, n, buffer \o line')
      <4>1. buffer \o line \in Seq(Bytes) /\ Apart(sent, <<>>, buffer \o line)
        BY <2>1, <2>2, ConcatProperties DEF Separated
      <4>2. Apart(sent, n, (buffer \o line) \o n)
        BY <3>1, <4>1, ApartDisturb, Zenon
      <4> QED BY <3>2, <4>2
    <3>4. got \o pending \in Seq(Allowed(sent, n))
      <4>1. Allowed(sent, <<>>) \subseteq Allowed(sent, n)
        BY PiecesGrow, Zenon
      <4>2. got \o pending \in Seq(Allowed(sent, <<>>))
        BY <2>1, <2>2 DEF Separated
      <4> QED BY <4>1, <4>2, SeqGrows, Zenon
    <3> QED BY <2>1, <2>2, <3>1, <3>2, <3>3, <3>4 DEF Separated
  <2>3. END \notin ToSet(noise)
    BY <2>1 DEF ToSet
  <2> QED BY <1>1, <2>1, <2>2, <2>3
<1>4. ASSUME HandOutPending PROVE SeparatedInv'
  <2>1. HandOut(pending) /\ UNCHANGED <<codec, sent, noise, line, buffer, lost>>
    BY <1>4 DEF HandOutPending, peerVars
  <2>2. ASSUME Separated PROVE Separated'
    <3>1. /\ got' \in Seq(Seq(Bytes)) /\ pending' \in Seq(Seq(Bytes))
          /\ got' \o pending' = got \o pending
      BY <2>1, <2>2, HandsOut DEF Separated
    <3> QED BY <2>1, <2>2, <3>1 DEF Separated
  <2> QED BY <1>1, <2>1, <2>2
<1>5. ASSUME NEW n \in 1 .. MaxRead, Read(n) PROVE SeparatedInv'
  <2>1. /\ pending = <<>> /\ n <= Len(line) /\ line' = SubSeq(line, n + 1, Len(line))
        /\ UNCHANGED <<codec, sent, noise>>
    BY <1>5 DEF Read, peerVars
  <2>2. PICK due \in BOOLEAN :
          LET kept == MakeRoom(buffer, n)
              d == DecodeLoop(codec, kept \o SubSeq(line, 1, n), due)
          IN  buffer' = d.buf /\ HandOut(d.msgs) /\ lost' = (lost \/ d.bad \/ kept # buffer)
    BY <1>5 DEF Read
  <2> DEFINE z == buffer \o SubSeq(line, 1, n)
             d == DecodeLoop("slip_lead", z, due)
  <2>3. ASSUME Separated, codec = "slip_lead", ~lost' PROVE Separated'
    <3>1. buffer' = d.buf /\ HandOut(d.msgs) /\ ~d.bad
      BY <2>2, <2>3
    <3>2. z \in Seq(Bytes) /\ line' \in Seq(Bytes) /\ z \o line' = buffer \o line
      <4>1. line \in Seq(Bytes) /\ buffer \in Seq(Bytes) /\ n \in 0 .. Len(line)
        BY <2>1, <2>3, FramingAssumption DEF Separated
      <4> QED BY <2>1, <4>1, MoveBytes
    <3> HIDE DEF z
    <3>3. LoopSplits(sent, noise, line', d)
      <4>1. Apart(sent, noise, z \o line')
        BY <2>3, <3>2 DEF Separated
      <4> QED BY <2>3, <3>2, <4>1, ApartLoop, Zenon DEF Separated
    <3> HIDE DEF d
    <3>4. d.bad = FALSE
      <4>1. d.bad \in BOOLEAN
        BY <3>3 DEF LoopSplits
      <4> QED BY <3>1, <4>1
    <3>5. d.buf \in Seq(Bytes) /\ Apart(sent, noise, d.buf \o line') /\ d.msgs \in Seq(Allowed(sent, noise))
      BY <3>3, <3>4 DEF LoopSplits
    <3>6. /\ got' \in Seq(Seq(Bytes)) /\ pending' \in Seq(Seq(Bytes))
          /\ got' \o pending' \in Seq(Allowed(sent', noise'))
      BY <2>1, <2>3, <3>1, <3>5, MoreAllowed
    <3> QED BY <2>1, <2>3, <3>1, <3>2, <3>5, <3>6 DEF Separated
  <2>4. ~lost' => ~lost
    BY <2>2
  <2> QED BY <1>1, <2>1, <2>3, <2>4
(* One call of decode, at the receive timeout and at end of file. *)
<1>6. ASSUME Separated, codec = "slip_lead"
      PROVE  LET r == DecodeTimeout(codec, buffer)
             IN  /\ Splits(sent, noise, buffer, line, r)
                 /\ Handed(r) \in Seq(Allowed(sent, noise))
  <2> DEFINE r == DecodeTimeout(codec, buffer)
  <2>1. r = DecodeFramed("slip_lead", buffer)
    <3>1. codec \in Framed
      BY <1>6 DEF Framed
    <3> QED BY <1>6, <3>1, OneCall DEF DecodeTimeout
  <2>2. Splits(sent, noise, buffer, line, r)
    BY <1>6, <2>1, ApartTurn, Zenon DEF Separated
  <2> HIDE DEF r
  <2>3. Handed(r) \in Seq(Allowed(sent, noise))
    <3>1. CASE r.tag = "some"
      BY <2>2, <3>1 DEF Splits, Handed
    <3>2. CASE r.tag # "some"
      BY <3>2 DEF Handed
    <3> QED BY <3>1, <3>2
  <2> QED BY <2>2, <2>3 DEF r
<1>7. ASSUME TimedOut PROVE SeparatedInv'
  <2> DEFINE r == DecodeTimeout(codec, buffer)
  <2>1. /\ pending = <<>> /\ buffer' = r.rest /\ HandOut(Handed(r)) /\ lost' = (lost \/ r.tag = "error")
        /\ UNCHANGED <<codec, sent, noise, line>>
    BY <1>7 DEF TimedOut, peerVars, Handed
  <2>2. ASSUME Separated, codec = "slip_lead" PROVE Separated'
    <3>1. Splits(sent, noise, buffer, line, r) /\ Handed(r) \in Seq(Allowed(sent, noise))
      BY <1>6, <2>2
    <3> HIDE DEF r
    <3>2. /\ got' \in Seq(Seq(Bytes)) /\ pending' \in Seq(Seq(Bytes))
          /\ got' \o pending' \in Seq(Allowed(sent', noise'))
      BY <2>1, <2>2, <3>1, MoreAllowed
    <3> QED BY <2>1, <2>2, <3>1, <3>2 DEF Separated, Splits
  <2> QED BY <1>1, <2>1, <2>2
<1>8. ASSUME Eof PROVE SeparatedInv'
  <2> DEFINE r == DecodeTimeout(codec, buffer)
  <2>1. /\ pending = <<>> /\ line = <<>> /\ buffer' = <<>> /\ HandOut(Handed(r))
        /\ UNCHANGED <<codec, sent, noise, line, lost>>
    BY <1>8 DEF Eof, peerVars, Handed
  <2>2. ASSUME Separated, codec = "slip_lead" PROVE Separated'
    <3>1. Handed(r) \in Seq(Allowed(sent, noise))
      BY <1>6, <2>2
    <3> HIDE DEF r
    <3>2. /\ got' \in Seq(Seq(Bytes)) /\ pending' \in Seq(Seq(Bytes))
          /\ got' \o pending' \in Seq(Allowed(sent', noise'))
      BY <2>1, <2>2, <3>1, MoreAllowed
    <3>3. buffer' \in Seq(Bytes) /\ buffer' \o line' = <<>>
      BY <2>1
    <3> QED BY <2>1, <2>2, <3>2, <3>3, ApartNone DEF Separated
  <2> QED BY <1>1, <2>1, <2>2
<1>9. ASSUME HangUp \/ RetryTick \/ OtherArm \/ Tick \/ UNCHANGED vars PROVE SeparatedInv'
  <2>1. UNCHANGED <<codec, sent, noise, line, buffer, pending, got, lost>>
    BY <1>9 DEF HangUp, RetryTick, OtherArm, Tick, vars, peerVars, recvVars
  <2> QED BY <2>1 DEF SeparatedInv, Separated
<1> QED BY <1>2, <1>3, <1>4, <1>5, <1>7, <1>8, <1>9 DEF Next, Receive

(* SLIP with a leading END, for every payload, read and noise without END, *)
(* wherever the noise falls between two frames: what recv returns is a     *)
(* payload that was sent or the noise by itself, never a mixture of them   *)
(* (slip.rs 38-43).                                                        *)
THEOREM NoiseIsSeparatedHolds == Spec => []NoiseIsSeparated
<1>1. Spec => []SeparatedInv
  BY SeparatedStart, SeparatedStep, PTL DEF Spec
<1>2. SeparatedInv => NoiseIsSeparated
  <2> SUFFICES ASSUME SeparatedInv, codec = "slip_lead", END \notin ToSet(noise), ~lost
               PROVE  ToSet(got \o pending) \subseteq ToSet(sent) \cup {SlipDecode(noise)}
    BY DEF NoiseIsSeparated
  <2>1. got \o pending \in Seq(Allowed(sent, noise))
    BY DEF SeparatedInv, Separated
  <2>2. ToSet(got \o pending) \subseteq Allowed(sent, noise)
    BY <2>1 DEF ToSet
  <2> QED BY <2>2 DEF Allowed
<1> QED BY <1>1, <1>2, PTL
=============================================================================
