---------------------------- MODULE SerialStream ----------------------------
(***************************************************************************)
(* The asynchronous serial port (cycbox-serialport), from the warm-up that *)
(* connect does to the reads and writes of CodecTransport.                 *)
(*                                                                         *)
(* On Windows a read or a write is an overlapped request: the kernel fills *)
(* or drains a buffer of the stream, a callback of the thread pool marks   *)
(* it as completed, and the next poll collects it.  The future of a read   *)
(* is dropped at every timeout and at every turn of another select arm,    *)
(* but its request goes on: the next poll, with another buffer, finds it.  *)
(* On POSIX a poll reads or writes at once or not at all.                  *)
(*                                                                         *)
(* Bytes are numbered in the order they arrive or are written.  A waker    *)
(* only causes another poll, and polls may come at any time here.          *)
(***************************************************************************)
EXTENDS Integers, Sequences, SequencesExt

CONSTANTS
  Chunk,        \* what a read asks for when nothing has arrived    (4096)
  WarmupBuf,    \* room of the warm-up's buffer                     (4096)
  RecvBuf,      \* room of CodecTransport::read_buf              (102,400)
  MaxTimeouts,  \* timeouts in a row that end the warm-up              (2)
  FrameSizes,   \* lengths of the frames that are sent
  MaxArrived,   \* bound on the bytes that arrive
  MaxHanded     \* bound on the bytes that are sent

ASSUME SerialAssumption ==
  /\ {Chunk, WarmupBuf, RecvBuf} \subseteq Nat \ {0} /\ WarmupBuf <= RecvBuf
  /\ MaxTimeouts \in Nat /\ MaxArrived \in Nat /\ MaxHanded \in Nat
  /\ FrameSizes \subseteq Nat \ {0}

VARIABLES
  os,         \* "windows" or "posix"
  stage,      \* "warmup", "recv", or "closed"
  timeouts,   \* timeout_count of the warm-up
  arrived,    \* number of bytes that have arrived
  input,      \* the driver's input queue
  rd,         \* read_state, and what the kernel does with it
  torn,       \* history: a read was started on top of another one
  discarded,  \* history: what the warm-up read
  received,   \* history: what recv read
  todo,       \* what write_all has left of the frame
  wr,         \* write_state, and what the kernel does with it
  handed,     \* number of bytes handed to write_all
  onWire      \* history: the bytes that were written

readVars   == <<input, rd, torn, discarded, received>>
writeVars  == <<todo, wr, handed, onWire>>
serialVars == <<os, stage, timeouts, arrived, readVars, writeVars>>

(* flying: the kernel works on the request; done: bytes it transferred. *)
NoRequest == [pending |-> FALSE, completed |-> FALSE, flying |-> FALSE,
              failed |-> FALSE, size |-> 0, done |-> <<>>]

Flying(size) == [NoRequest EXCEPT !.pending = TRUE, !.flying = TRUE, !.size = size]
Orphan(size) == [Flying(size) EXCEPT !.pending = FALSE]

Fewer(m, n)   == IF m < n THEN m ELSE n
Numbers(n)    == [i \in 1 .. n |-> i]
First(s, n)   == SubSeq(s, 1, n)
From(s, n)    == SubSeq(s, n + 1, Len(s))

(* Clearing the input at open may fail, which is ignored. *)
SerialInit ==
  /\ os \in {"windows", "posix"} /\ stage = "warmup" /\ timeouts = 0
  /\ arrived \in {0, 1} /\ input = Numbers(arrived)
  /\ rd = NoRequest /\ torn = FALSE /\ discarded = <<>> /\ received = <<>>
  /\ todo = <<>> /\ wr = NoRequest /\ handed = 0 /\ onWire = <<>>
-----------------------------------------------------------------------------
(* The device, the kernel and the thread pool. *)
Arrive ==
  /\ stage # "closed" /\ arrived < MaxArrived
  /\ arrived' = arrived + 1 /\ input' = Append(input, arrived + 1)
  /\ UNCHANGED <<os, stage, timeouts, rd, torn, discarded, received, writeVars>>

KernelRead ==
  /\ rd.flying /\ stage # "closed"
  /\ \E n \in 0 .. Fewer(rd.size, Len(input)), failed \in BOOLEAN :
       /\ failed => n = 0
       /\ rd' = [rd EXCEPT !.flying = FALSE, !.failed = failed, !.done = First(input, n)]
       /\ input' = From(input, n)
  /\ UNCHANGED <<os, stage, timeouts, arrived, torn, discarded, received, writeVars>>

KernelWrite ==
  /\ wr.flying /\ stage # "closed"
  /\ \E n \in 0 .. wr.size, failed \in BOOLEAN :
       /\ wr' = [wr EXCEPT !.flying = FALSE, !.failed = failed, !.done = First(todo, n)]
       /\ onWire' = onWire \o First(todo, n)
  /\ UNCHANGED <<os, stage, timeouts, arrived, readVars, todo, handed>>

(* read_completion_callback and write_completion_callback, which run only  *)
(* for a request whose wait was registered.                                *)
ReadCompleted ==
  /\ rd.pending /\ ~rd.flying /\ ~rd.completed /\ rd' = [rd EXCEPT !.completed = TRUE]
  /\ UNCHANGED <<os, stage, timeouts, arrived, input, torn, discarded, received, writeVars>>

WriteCompleted ==
  /\ wr.pending /\ ~wr.flying /\ ~wr.completed /\ wr' = [wr EXCEPT !.completed = TRUE]
  /\ UNCHANGED <<os, stage, timeouts, arrived, readVars, todo, handed, onWire>>
-----------------------------------------------------------------------------
(* What one poll_read may answer, the bytes it copies, and what it leaves. *)
ReadOutcome(tag, bytes, request, rest) ==
  [tag |-> tag, bytes |-> bytes, rd |-> request, input |-> rest]

Errors(request) == {ReadOutcome("error", <<>>, request, input)}

Collect(room) ==
  IF rd.failed THEN Errors(NoRequest)
  ELSE {ReadOutcome("ready", First(rd.done, Fewer(Len(rd.done), room)), NoRequest, input)}

AtOnce(size) ==
  {ReadOutcome("ready", First(input, n), NoRequest, From(input, n)) :
     n \in (IF input = <<>> THEN {0} ELSE 1 .. Fewer(size, Len(input)))}

StartRead(room) ==
  LET size == Fewer(room, IF input # <<>> THEN Len(input) ELSE Chunk)
  IN  AtOnce(size) \cup Errors(NoRequest) \cup Errors(Orphan(size))
      \cup {ReadOutcome("pending", <<>>, Flying(size), input)}

WindowsRestart(room) ==      \* mutant: a poll with a new buffer starts a new request
  IF rd.completed THEN Collect(room) ELSE StartRead(room)

WindowsRead(room) ==
  IF rd.completed THEN Collect(room)
  ELSE IF rd.pending THEN {ReadOutcome("pending", <<>>, rd, input)}
  ELSE StartRead(room)

PosixRead(room) ==
  AtOnce(room) \cup Errors(NoRequest)
  \cup (IF input = <<>> THEN {ReadOutcome("pending", <<>>, rd, input)} ELSE {})

PollRead(room) == IF os = "windows" THEN WindowsRead(room) ELSE PosixRead(room)

(* A request whose wait could not be registered is not pending: the next   *)
(* poll reuses its buffer, and which bytes get lost is undefined.          *)
Apply(o) ==
  /\ rd' = o.rd /\ input' = o.input
  /\ torn' = (torn \/ (os = "windows" /\ ~rd.pending /\ rd # NoRequest))

(* The loop of connect: bytes are discarded until there are none for two   *)
(* timeouts or the overall time is up; an error is taken as the end.       *)
Warmup ==
  /\ stage = "warmup"
  /\ \E o \in PollRead(WarmupBuf) :
       /\ Apply(o)
       /\ discarded' = discarded \o o.bytes
       /\ \/ o.tag = "pending" /\ UNCHANGED <<stage, timeouts>>
          \/ o.bytes # <<>> /\ timeouts' = 0 /\ stage' \in {"warmup", "recv"}
          \/ o.tag # "pending" /\ o.bytes = <<>> /\ stage' = "recv" /\ UNCHANGED timeouts
  /\ UNCHANGED <<os, arrived, received, writeVars>>

(* The timeout polls the read before it gives up on it, and drops it. *)
WarmupTimeout ==
  /\ stage = "warmup"
  /\ IF os = "windows" THEN rd.pending /\ ~rd.completed ELSE input = <<>>
  /\ timeouts' = timeouts + 1
  /\ \/ timeouts' >= MaxTimeouts /\ stage' = "recv"
     \/ timeouts' < MaxTimeouts /\ stage' \in {"warmup", "recv"}
  /\ UNCHANGED <<os, arrived, readVars, writeVars>>

(* The read of CodecTransport::recv: an error or no byte ends the stream.  *)
(* When its timeout or another select arm drops it, nothing changes here.  *)
RecvRead ==
  /\ stage = "recv" /\ todo = <<>>
  /\ \E o \in PollRead(RecvBuf) :
       /\ Apply(o)
       /\ received' = received \o o.bytes
       /\ stage' = IF o.tag # "pending" /\ o.bytes = <<>> THEN "closed" ELSE stage
  /\ UNCHANGED <<os, timeouts, arrived, discarded, writeVars>>
-----------------------------------------------------------------------------
(* CodecTransport::send and send_raw: write_all of a frame, which is not   *)
(* dropped half way unless the stream is dropped with it.                  *)
WriteAll(size) ==
  /\ stage = "recv" /\ todo = <<>> /\ handed + size <= MaxHanded
  /\ todo' = [i \in 1 .. size |-> handed + i] /\ handed' = handed + size
  /\ UNCHANGED <<os, stage, timeouts, arrived, readVars, wr, onWire>>

(* poll_write answered n; write_all goes on with the rest, or fails on 0. *)
Progress(n) ==
  /\ todo' = From(todo, n)
  /\ stage' = IF n = 0 THEN "closed" ELSE stage

PollWrite ==
  /\ stage = "recv" /\ todo # <<>>
  /\ \/ /\ wr.completed /\ wr' = NoRequest
        /\ Progress(IF wr.failed THEN 0 ELSE Len(wr.done))
        /\ UNCHANGED onWire
     \/ /\ ~wr.pending /\ UNCHANGED wr
        /\ \E n \in 0 .. Len(todo) : onWire' = onWire \o First(todo, n) /\ Progress(n)
     \/ /\ ~wr.pending /\ os = "windows" /\ wr' = Flying(Len(todo))
        /\ UNCHANGED <<todo, stage, onWire>>
     \/ /\ ~wr.pending /\ os = "windows" /\ wr' = Orphan(Len(todo)) /\ stage' = "closed"
        /\ UNCHANGED <<todo, onWire>>
  /\ UNCHANGED <<os, timeouts, arrived, readVars, handed>>

SerialNext ==
  \/ Arrive \/ KernelRead \/ KernelWrite \/ ReadCompleted \/ WriteCompleted
  \/ Warmup \/ WarmupTimeout \/ RecvRead
  \/ \E size \in FrameSizes : WriteAll(size)
  \/ PollWrite

SerialSpec == SerialInit /\ [][SerialNext]_serialVars
-----------------------------------------------------------------------------
(* However reads are abandoned and resumed with another buffer, and however *)
(* requests complete in parts, the port is a pipe in both directions: what *)
(* was read, by the warm-up and then by recv, what a request holds and what *)
(* waits in the driver is what arrived, in order; and what is on the wire   *)
(* is the frames up to where write_all believes to be.  The only exception  *)
(* is a read that failed to register its wait (windows/tokio_stream.rs     *)
(* 243-374, serialport-transport/lib.rs 149-183).                          *)
SerialLossless ==
  /\ ~torn => discarded \o received \o rd.done \o input = Numbers(arrived)
  /\ stage # "closed" =>
       onWire \o (IF wr.flying THEN todo ELSE From(todo, Len(wr.done))) = Numbers(handed)
  /\ IsPrefix(onWire, Numbers(handed))
=============================================================================
