# TLA+ models of CycBox

CycBox is an IoT debugging toolkit: an engine that opens connections to devices (serial ports and other
transports), frames their byte streams with codecs, routes messages between clients, Lua scripts and
connections, and delays or repeats them. It comes with a framed binary protocol for sampled data (CBRT: a C
library for devices, a parser for the host) and with clients by which scripts use outside services. This
directory holds TLA+ modules of its core, TLC configurations that check them on small instances, and theorems
about them that TLAPS checks for every value of the constants. `PROJECT.json` maps each definition to the
source lines it models and lists the hazards, runs, findings and theorems.

All paths below are relative to `crates/` of the repository.

## 1. Inventory

| Component | Source | State it keeps | Operations | Modelled |
|---|---|---|---|---|
| Engine task, control plane | `cycbox-engine/src/tasks/engine_task.rs`, `engine.rs`, `command.rs`, `state.rs` | `EngineState`, connection senders and handlers, batch registry, live script | Start, Stop, SetManifest, SetLua, GetState, SendRepeating, StopRepeating, Command; callers broadcast the snapshots they get back | `Control`, `Engine` |
| Engine task, data plane | `engine_task.rs` 330-440 | the message lane, the command in hand | SendMessages, ReceiveMessage (with auto-response), SendConfirm; waits for the connections in Stop | `Dataplane`, `Routing` |
| Connection task | `cycbox-engine/src/tasks/connection_task.rs`, `connection.rs` | outbox, backoff, TX channel, cancellation token | connect with backoff, receive, send, defer, retry, confirm, answer a command, shut down | `Connection` |
| Delay task | `cycbox-engine/src/tasks/delay_queue_task.rs` | a bounded channel, a heap by deadline | collect, pop, queue again | `Routing`; its timer and clocks in `TimedTasks` |
| Repeating task | `cycbox-engine/src/tasks/repeating_message_task.rs` | a position in its list, a token | send after each delay until cancelled or aborted | `TimedTasks`; as a source of messages in `Routing`, by id in `Engine` |
| Lua script host | `cycbox-engine/src/lua.rs` | the VM and its hooks | on_start, on_stop, on_receive, on_send, on_send_confirm, script functions | which instance is live and told to stop: `Engine`; hooks that wait: `Dataplane` |
| High-resolution delay | `cycbox-engine/src/delay.rs` | a timer, what the runtime remembers of it | set, wait, abandon, use again | `HighResDelay`, `TimedTasks` |
| Codec transport | `cycbox-sdk/src/transport.rs` | decode buffer, pending messages | recv with timeout, end of file, send, handle_command | `Framing` |
| Codecs | `cycbox-runtime/src/codec/*`, `cycbox-sdk/src/codec.rs` | none, but for the clock of the timeout codec | encode, decode, decode_timeout, decode_eof | `Codecs` |
| CBRT library, codec, transformer | `cbrt/lib`, `cbrt/src` | on the device a frame being built; on the host a session: last sequence number and time stamp, wraps, clock offset, rate | init, set, append, finalize; parse, date, count, reset | `CbrtFrame`, `CbrtEncoder`, `CbrtSession` |
| Serial streams | `cycbox-serialport/src` | overlapped requests and their buffers (Windows), a descriptor (POSIX) | poll_read, poll_write, callbacks | `SerialStream` |
| Serial transport | `serialport-transport/src` | an open port | open, warm-up, read, write, control lines | warm-up, reads and writes: `SerialStream` |
| Lua clients of services | `cycbox-runtime/src/lua` | a Redis connection, a TimescaleDB pool | connect, disconnect, 27 functions that wait or start a task | `LuaServices`, `SqlInsert` |
| Manifests and forms | `cycbox-sdk/src/manifest` | configuration values | merge stored values into forms | no: a pure function |
| Messages, values, inputs, formatters, other transformers, run mode, localisation | `cycbox-sdk/src/message*`, `cycbox-engine/src/formatter`, `cycbox-runtime/src/transformer`, ... | none that a protocol depends on | stateless conversions | no: pure functions and I/O |

How they interact:

    callers, MCP, UI --control lane--> +-------------+ --TX channel (100)--> connection task --> codec --> device
            |                          | engine task |                          |        <-- recv --
            +--message lane (10 000)-> +-------------+ <---- message lane ------+ (received, confirmed)
                        ^                    |  delay channel (100)
                        |                    v
                        +--------------- delay task        repeating tasks --> message lane

The engine task is one loop over a `select!` that is biased: the 100 ms timer that runs the script's
`on_timer`, then the control lane, then the message lane. Every arm runs to its end before the next one,
and several of them `await` a bounded channel, a reply or a hook: there lie most of the hard behaviours.

* **Waiting in a circle.** The engine fills the TX channels, the delay channel and, for
  auto-responses, its own lane; connections and the delay task fill the engine's lane. All are
  bounded.
* **Interleavings.** Stop against a connection that connects, backs off, transmits or waits; a fresh
  message against deferred ones; two callers that broadcast snapshots; a `recv` dropped by another
  arm of the select.
* **State of two generations.** Sessions, scripts and batches are replaced; what an old one leaves
  behind (outbox, pending and scheduled messages, aborted tasks) meets the new one.
* **Failure.** Connect errors, loss of the line, codec back-pressure, a script that does not compile
  at a Start or a reload, decode errors, a buffer at its limit.
* **Time.** Backoff, retry interval, receive timeout, grace period of Stop, message deadlines; two clocks,
  one of which may be set; a time stamp of 32 bits.
* **What an abandoned wait leaves behind.** A timer set or remembered as expired, a read that goes on in
  the kernel, a command in the pipeline of a service, a task that holds a pool.
* **Hooks run inside the engine task.** Whatever a script waits for, the engine waits for; and `on_timer`,
  if it takes its period, is due again before any command is looked at.

What makes each component correct:

* *Connection*: messages reach the wire in the order routed and at most once; nothing deferred by one
  session is transmitted by the next; every transmission is confirmed, in order; cancellation ends
  the task, and closes an established transport, unless the device or the lane keeps it.
* *Data plane*: Stop is served but for a few waits that can be named, and completes whatever the
  connection does.
* *Control plane*: tasks, batches and routes belong to the running session; a script is told before it
  is replaced and is silent afterwards; what clients are shown is the engine's state.
* *Routing*: a queued message is accepted once by its connection's channel, refused with a warning, let go
  because its connection is unknown or has ended, or pending; an immediate one is not overtaken; scheduled
  ones are at most 500 µs early; everything settles unless the engine waits for ever.
* *Framing*: decoding is the inverse of encoding wherever the reads cut the stream and whenever a
  `recv` is dropped; noise does not get into a message; nothing is held back for ever.
* *Delay and timed tasks*: no wake-up is lost, a delay is not early, a cancelled batch falls silent.
* *CBRT*: the builder stays in the caller's buffer and the parser reads what was appended; missing frames
  are counted and samples dated by the device's clock, whatever the link does.
* *Services*: a success has taken effect, in the script's order; a time limit limits; rows are stored as
  given or not at all.
* *Serial port*: a pipe in both directions, on both systems.

The hazards that follow from this are in `PROJECT.json`, each at its line, with the properties that
would catch it going wrong or a note why none does yet.

## 2. Modules

    OrderedPipe <--implements-- Connection --restricted by--> Dataplane
    Control     <--implements-- Engine
    Control     --extended by--> Routing
    Codecs      --extended by--> Framing
    HighResDelay --extended by--> TimedTasks
    CbrtFrame   --extended by--> CbrtEncoder        CbrtSession
    LuaServices     SqlInsert     SerialStream

| Module | Models | Proofs |
|---|---|---|
| `OrderedPipe` | abstract: what a connection promises for the messages routed to it | `ConnectionProofs` |
| `Connection` | one connection task in an open environment | `ConnectionProofs` |
| `Dataplane` | the engine task's timer, waits and hooks joined to one connection task | `ConnectionProofs` |
| `Control` | abstract: what the data plane observes of the control plane | |
| `Engine` | every control command, and callers that broadcast | `EngineProofs` |
| `Routing` | message lane, delay task, engine and its waits, one TX channel, under `Control` | `SchedulingProofs` |
| `Codecs` | encode and decode of SLIP, COBS, lines, timeout, passthrough | `CodecProofs` |
| `Framing` | `CodecTransport::recv` as an arm of the connection's select | `TransportProofs` |
| `HighResDelay` | one reusable timer on each platform, in any client's hands | `SchedulingProofs` |
| `TimedTasks` | the delay task and a repeating batch, each on its timer | `SchedulingProofs` |
| `CbrtFrame` | layout of a frame, and the parser's walk over it | |
| `CbrtEncoder` | the frame builder of the C library | `CbrtProofs` |
| `CbrtSession` | a sampling device, the link, and the session state that dates and counts | `CbrtProofs` |
| `LuaServices` | the service functions: waits, time limits, tasks, pools | `ServicesProofs` |
| `SqlInsert` | an insert from the Lua table to the stored value | `ServicesProofs` |
| `SerialStream` | warm-up, reads and writes of the asynchronous port | `TransportProofs` |

The `MC*` modules instantiate them for TLC. `MCDataplane` and `MCEngine` hold several specifications that
share no variable: `part`, chosen by Init, says which of them runs, and the others keep one fixed
initial state, so that each is explored as if alone. Definitions named `...Anyway`, `...Unbounded` and the
like, marked *mutant*, are deliberate errors that stand beside the definition they distort: with one
of them in its place TLC finds the property violated, which shows that the property depends on the
code.

### Connection and OrderedPipe

`pc` is the place in `start_connection`: the head of `'outer`, the backoff sleep, connecting, the
select, and inside a select arm the two awaits on the message lane and the three on the transport
(`send`, `handle_command`, `close`). An action is what the task does from one await to the next: for
example `SendFresh` takes from the TX channel and begins `Connection::send`, `Sent` disposes of its result
(transmitted, `Pending`, discarded, connection error), and `Deliver` completes `receive_message` and begins
on the outbox. The message in hand on the fast path stands as the outbox's only entry. `Task` is what the
task does once it is polled, `Device` what it waits for the device to do. Messages are their
numbers in routing order; the message lane is its length, for only its room matters here. The
engine is an environment that may route, cancel, abort, take and fill at any time, so that what is
shown does not depend on it. Ending the task empties the TX channel because the receiver is dropped.

`OrderedPipe` says: accept at the end, remove a prefix, at most the last removed message reaches the
wire. The refinement mapping is `todo <- outbox \o txq`.

### Dataplane

The same actions, conjoined with what the engine task is doing: `hand` (messages of the current
SendMessages still to be forwarded), `replying` (an auto-response waits for the lane), `awaiting` (a
command waits for its response), `hook` (the call that the Lua hook now running is about to make), `stop`,
`tick` (the timer). `EngineFree` is "at the select". Its first arm is the timer: `OnTimer` runs the hook,
and the lanes are polled (`PollLanes`) only while the timer is not due. With `MissedTickBehavior::Delay` the
next tick is due 100 ms after this one was taken, so at once if the hook took that long ("overrun"). A
hook runs to its end inside a handler: `send_command` waits for the connection's response,
`send_after` for room in the engine's own lane. on_stop runs before Stop cancels anything
(`BeginStop`, then `ServeStop`). Since each action is one of `Connection`, what is proved of that module
holds here too; this is a lemma of `ConnectionProofs`, not a property. The grace period of Stop
expires only on a task that is stuck in a full lane or in a call of the device (connecting, writing,
answering, closing): it is four seconds, and backoff, the one long sleep, is cancellable.

### Control and Engine

A handler is one action since the engine serves one command at a time; Stop is two, before and after
it waits for the connection tasks, which end or are aborted in between. `abort()` only marks a task:
it is in `dying` until the runtime drops it, and an aborted task may then overlap with the next
session. Manifests are the number of their connections and whether the code compiles; a script is the
number of its instance. `reply` is what a caller has received and not yet broadcast.

### Routing

`lane`, `held` (the engine waits for the delay channel), `offered` (it waits for the TX channel), `call`
(it waits for its own lane, or for a response), `delayq`, `heap`, `firing` (the delay task
waits for the lane), `tx` and `gone` (the TX channel and the end of the connection task), `out`, `dropped`,
`discarded`. A scheduled message passes through the lane twice. What is due within `Soon` (500 µs) is sent
at once (`Distant`). `Forward` waits for room in the TX channel. A message is refused with a warning when no
session runs; for an unknown connection, or one whose task has ended, it is let go without a word
(`Discard`). Received messages and confirmations are entries None of the lane; they run hooks and
perhaps queue an auto-response. The control plane is module `Control`, which `Engine` implements, so
sessions, scripts and batches in every detail are covered by proof rather than by a product of state spaces.
The connection task takes from its channel when it likes, or ends (`Connection` says more). Simplified: one
connection; one message per command; a hook is the calls it makes, though Lua could also rewrite a message's
time or connection; the delay task is running. Messages are scheduled for one time in the
runs, and no property speaks of the order among scheduled ones, which overtake each other by design.

### Codecs and Framing

A byte is 0 .. MaxByte with the special bytes as constants; COBS counts with one byte, so MaxByte is
also its full-run code. Encode and decode are functions of sequences, with the decoders' results
Ok(Some), Ok(None) and error and what each leaves in the buffer. `DecodeLoop` is a recursive
function. `Framing` has the peer's line, the decode buffer, the messages of one read that wait for
the next `recv`, the receive timer and the retry interval. Every other arm of the select that is
taken drops the pending `recv`; the timer starts anew with the next one, the buffer stays. The
timeout codec reads a clock; whether it is due at a read is a free choice. No transport in the
repository reports session boundaries, so they do not occur.

### HighResDelay and TimedTasks

A delay is set, waited for, over, or abandoned with its timer disarmed. On Linux the timer is a
descriptor behind tokio's `AsyncFd`, which remembers readiness until the waiter clears it: `ready`,
with the event that the reactor has not seen in `edge`, and reading and clearing are steps of their own.
On Windows a callback is registered for one expiration. `Disarm` stops the timer but does not touch
what `AsyncFd` remembers. `TimedTasks` puts the delay task (which abandons its delay for every message
that arrives, and waits on the monotonic clock for deadlines of the wall clock, which may be set) and
the task of a repeating batch (token, abort, list) on such a timer. Lane and channel limits are in
`Routing`.

### CbrtFrame, CbrtEncoder and CbrtSession

A byte is the k-th byte of a number, so a frame is a sequence of such pairs: which bytes go where and whether
they belong together is exact, their values are not computed. The checksum is the sequence it covers. The
half-precision conversion is the code's, shift by shift. `CbrtEncoder` has one action per function of the C
library over one buffer and one sticky error; packed bits are stored byte by byte, so that room may end inside
a row. `CbrtSession` is about numbers instead: a device's clock, frames on a link that delays, loses, damages
and (datagrams) repeats and reorders, and `ParseAt`, the part of `parse_at` behind the frame's checks. The
state is reset field by field, in the two places where the code does it (`Reset`, `ForProfile`); `Fresh` is
what a new host starts with. Codec and transformer differ in when they forget the session.

### LuaServices and SqlInsert

Each function is one action: the checks of its arguments, whether it waits, its limit, and what it answers
when refused. What they share is written once: a synchronous call is polled at once, an asynchronous one when
its task is; Redis has one fair lock and one pipeline, which its connection manager replaces when a command
fails on it (what is still on the old one is `severed`: executed in no order, or lost); TimescaleDB has a few
clients, everything else a connection per call. The service may execute, decline or lose a request; time
passes. `SqlInsert` builds the statement, numbers its parameters, and sends each for the type of its column.

### SerialStream

Bytes are numbers in their order of arrival, so order and loss show in the numbers. On Windows a poll
starts an overlapped request, finds one pending, or collects a completed one, whose size and buffer
are those of the poll that started it; kernel and callback are steps of their own. On POSIX a poll reads
or does not. The warm-up of `connect` and the reads of `CodecTransport::recv` poll with different
buffers and abandon their reads at timeouts. After an error or a zero the stream is closed.

## 3. Runs

| Run | Instance | What it shows |
|---|---|---|
| `connection` | 6 messages, TX 2, outbox 3, lane 2, backoff up to 10 s | `PipeSpec`, `ConfirmationsFollowWire`, `OutboxWithinSession` under any traffic, loss, deferral, cancel and abort; `CancelEnds` and `CommandServedWhileUp` with nothing assumed of environment or device, but for a call of the device that never returns and a full lane |
| `dataplane` | (1) 3 messages, all channels of one slot, auto-responses, `on_timer` and other hooks with `send_command` and `send_after`; (2) 2 scheduled messages, batches of 0 to 2 messages, 3 platforms | (1) `StopServedUnlessWaiting`: a queued Stop is served unless the engine stays in one of three named waits, or `on_timer` takes its period again and again; `StopCompletes` once it is. (2) `EarlyOnlyAfterLeft`, `ScheduledIsSent`, `BatchEnds`, `OneAfterCancel` |
| `engine` | (1) 1 caller, 2 connections, sessions, scripts and batches | `TypeOK`, `TasksBelongToSession`, `NoOrphanBatch`, `CountIsOfSession`, `StoppedScriptIsReplaced`, `OnStopFirst`, and `ControlSpec` |
| | (2) 7 profiles, 2 frames of up to 3 samples, buffers that are too small by any amount | `NoOverrun`, `RoundTrip` |
| | (3) 2 hosts, 2 boots, frames of 1 and 2 samples | `SessionStartsFresh`, `DropsCounted`, `DatesAreRight`, `SteadyDates` |
| | (4) 4 mixes of services, 2 to 4 calls | `SyncInOrder`, `NoClientAfterDisconnect`, `BlockedAtMost` |
| | (5) every value with every column type, batches up to 3 rows | `RowsStored` |
| | (6) both systems, 4 bytes in, 3 out | `SerialLossless` |
| `routing` | 3 messages and other entries, lane 2, delay channel 1, TX channel 1, three instants, threshold 1 | `EachInOnePlace`, `ImmediateInOrder`, `NotAheadOfTime`; `MessagesSettle` unless the engine stays in one of its four waits |
| `framing` | 7 codecs, bytes 0..3, 2 payloads, reads up to 6, buffer 6 | `NothingLost`, `NoiseIsSeparated`, `CompleteAtEof`, `AllArrives` |
| `stop_starved` | as `dataplane` (1), without hooks | **violated**: "a heavy backlog here cannot starve control commands" |
| `self_deadlock` | as `dataplane` (1), without hooks | **violated**: a "deadlock-safe handle to the engine", with auto-responses |
| `close_skipped` | as `dataplane` (1), without hooks | **violated**: connections "call transport.close()" at Stop |
| `delay_deadlock` | as `routing`, lane 1 | **violated**: the same handle, between engine and delay task |
| `stop_leaks` | as `routing`, 2 messages, lane 1 | **violated**: Stop will "also clear pending messages" |
| `stale_broadcast` | 2 callers, 1 connection | **violated**: start and stop "broadcast the new state" (a Start beside a SetManifest) |
| `slip_stalls` | SLIP with a leading END | **violated**: "Decode all available messages" |

*Bounds.* Every capacity is small enough to be reached while the others are, and every generation
(session, script, batch) has a successor: errors of these kinds need one full channel, one message
behind it and one successor. Six messages fill the outbox and the TX channel and leave one on the
wire. The backoff limit is the code's own. In `framing` MaxByte is 3, so a full COBS run has two
bytes and payloads contain every special byte of every codec at its ends and inside; the buffer
overflows with two frames unread; reads have every size from one byte to a whole frame and more. One
read holds two frames with a leading END: with reads of four bytes this could not happen, and
`NothingLost` and `AllArrives` held without the exception for what end of file discards behind such a
frame (`SlipAtEnd`).
Noise is one escape byte, one plain byte, or enough bytes to overflow the buffer.

In the timed tasks the threshold between timer and sleep is one tick of three, the wall clock may be set
by one, and two messages are the least where one arrives while another is waited for. The profiles of
part 2 have every sample size and every optional field, and buffers that end before, in and behind the
last row. In part 3 the time stamp has six values and the device's clock starts at four, so it wraps in every
behaviour that goes on; the sequence number has three, and the codec's
device sends up to five frames of a boot, so that the number wraps and three in a row, a whole cycle, can be
lost; the transformer's sends three, which two on their way can reorder. In part 4
a pool has one client and limits are one or two ticks: every call can wait behind another and run out of
time in every stage. Integer columns have 2, 3 and 4 bits and statements 5 parameters, between two rows of two
and three. In part 6 a read asks for 2 bytes, the warm-up's buffer has 2 and recv's 3 (4,096, 4,096 and
102,400 in the code): requests outlive the poll that started them, and buffers differ. Type invariants
are checked where a proof needs them; elsewhere the properties would fail first.

Histories (`wire`,
`confirmed`, `out`, `got`) are bounded by the messages. Deadlock is not checked because every
module stops by design, when its bounds are used up or the connection has ended.

*Fairness.* Tokio polls a task that can move: weak fairness of a task's step. `select!` of the
connection task picks among ready arms at random: strong fairness of the arms a property waits for
(cancellation, commands; the receive timeout against the retry tick). The engine's select is biased,
so the message lane is served only because control commands are few, sent by people and tools
(`command.rs` 7), and because `on_timer` returns within its period: `Routing` assumes both as strong
fairness of `ServeMessage` and `ServeOther` and says so; in `Dataplane` the timer is an arm, and an `on_timer`
that takes its period again and again is an exception in the property (`TimerAlways`). A sender
that waits for a bounded channel gets its turn, tokio's semaphore being first come first served:
strong fairness of `Fire` and `QueueOwn`. Nothing is assumed of devices, callers or other connections: a
call of the device need never return.
In `TimedTasks` timer, reactor, callback and clock go on by themselves (weak fairness of each), and so
do the tasks; the delay task's receive is one arm of a random select and a task told to abort is
dropped once it awaits again and again: strong fairness of these two.
`CancelEnds` and `CommandServedWhileUp` therefore except a task that stays for ever in one call of the
device (`IOWait`) or on a full lane. `StopCompletes` has no exception: there the grace period ends such a task.

## 4. Proofs

Each of these holds for every value of the constants that satisfies the module's assumptions, which
ask no more than that bounds are natural numbers, capacities are not zero and inputs have their types
(rows of an insert are sequences of Lua values; the number of time stamps, a power of two in the code, is
even).

* **`ConnectionProofs`**. `ConnInv` is `TypeOK`, `OutboxWithinSession`, `Sending` (there is a message in hand
  while one is sent) and `Confirming`, which says of each `pc` whether the newest message on the wire is still
  to be confirmed. `ConfirmationsFollowWire` alone is not inductive: it would allow a task to be in `confirm`
  with nothing to confirm. From it: `ConnectionTypeOK`, `OutboxOfSession`, `ConfirmationsInOrder`, and step by
  step `ConnectionIsPipe`: every action is a step of the pipe or a stutter; a reconnection removes the whole
  outbox at once, which is why the pipe advances by k. Then the joined data plane: every action of the two
  tasks is a step of `Connection` or leaves its variables alone (`DataStepIsStep`), hence `ComposedInOrder`:
  order, confirmations and sessions hold beside an engine that waits, runs hooks and stops. `EngineWaitsOnce`:
  what the engine has in hand and what it awaits exclude each other as `OneWait` says; it rests on
  `TaskAnswers`, that a connection's step only ever ends the engine's wait. And the promise of the pipe
  itself, `PipeIsOrdered`: `WireOrdered` is not inductive, `PipeInv` adds that what is still to be sent is in
  order, newer than the wire and older than the next number. With the refinement, `ConnectionWireOrdered`:
  messages reach a device in routing order, at most once.
* **`EngineProofs`**. Three inductive invariants beside `NoOrphanBatch`, which is one itself.
  `SessionInv` strengthens `TasksBelongToSession`: senders and handlers are the same tasks, all of the
  current session, and while Stop drains they are cancelled and nothing runs. `ScriptInv` strengthens
  `StoppedScriptIsReplaced`: the live script and the stopped ones are among those built, so a new
  instance is not yet stopped. `CountInv` is the count of the senders, also while draining. From them
  `EngineTypeOK`, `BatchesAreStoppable`, `SessionsOwnTasks`, `StoppedScriptsAreReplaced`,
  `CountOfSession`, the action property `OnStopComesFirst`, and the refinement `EngineIsControl`.
* **`SchedulingProofs`**. First routing. `RoutingInv` extends the order from what was handed over to the lane
  behind it: a message in the lane, or already handed over, precedes an older one only if the older one is
  scheduled (`InOrder`), and so for the message in the engine's hand; that needs numbers below `next`
  (`Queued`) and that whatever goes to the delay task or is with it is scheduled (`AllLater`), since `Fire`
  appends it behind newer ones. `OnTime` is separate. From it `RoutingTypes`, `NotEarly` and `ImmediateOrder`.
  The proof reduces the actions to the few ways a step touches the lane (`LaneSteps`). `EachInOnePlaceHolds`
  is about numbers of copies: `Copies` adds up how often a message occurs in each of its places, and a step
  takes it away from one and adds it to another (`TimesTail`, `TimesAppended`). The sum is inductive as it is,
  given the types: since it is at most 1, a set that a message enters does not hold it yet. Then the timer,
  for any client: `EarlyOnlyAfterLeftHolds`. "Early" needs to know where an expiration can be: off Linux, that
  a callback belongs to the timer now set (`OffLinux`); on Linux, as long as nothing was left, that readiness,
  event and expiration are all of the present delay, which is then due (`OnLinux`). Then that the two tasks
  are such clients: `TimedIsTimer`, by `DelaysInv` (a deadline is at most `MaxNow` ahead, also when the wall
  clock is set, and the next delay of a batch is one of its list), hence `TasksEarlyOnlyAfterLeft`. Last
  `OneAfterCancelHolds`, by `LateInv`: once a message left late the token is cancelled and the task is no
  longer between its check and a send, to which it cannot return.
* **`CodecProofs`**. `EncodeFrame`: what a codec writes for a payload holds one delimiter, its last byte, and
  is decoded to that payload, for payloads of every length and whatever bytes stand for END, ESC and the
  others. For SLIP the escapes of the first n bytes are a
  valid frame that says these bytes (`SlipSays`), and one more escape adds one byte (`SlipEscaped`). COBS by what its
  encoder has promised after n bytes (`Promises`): the groups closed so far decode to a prefix of the payload,
  the run that is open is its rest, and no group holds a zero (`CobsPutSays`, `CobsUpto`); decoding shifts
  with the place of a group (`CobsShift`). Lines carry payloads without their delimiter (`Carries`), so only
  that the delimiter is found where it was put is to be shown (`LineFrame`), for CR LF by both bytes.
* **`TransportProofs`**. Framing first. On a clean line the bytes in the buffer and on their way are the
  frames of the payloads not yet received (`Held`), of which a leading END may already be taken (`Ahead`).
  A call of decode finds the delimiter of the first frame or none (`Terminated`), the decode loop takes the
  first j frames (`HeldAfter`), by the least counterexample over the length of its buffer, and a read moves
  bytes from the line to the buffer wherever it cuts (`CutBehind`). Without frames the bytes are a
  concatenation that is only regrouped (`Passed`). `FramingInv` adds to this that every codec but SLIP with
  a leading END leaves no complete frame in its buffer: without that, end of file, which decodes once, could
  discard frames, as it does with a leading END. From it `NothingLostHolds` and `CompleteAtEofHolds`.
  `NoiseIsSeparatedHolds` has an invariant of its own, `SeparatedInv`: with a leading END, what is buffered
  and on the line is a sequence of pieces, each ended by an END and each empty, the escapes of a payload
  or the noise, and perhaps the noise alone behind them (`Apart`). Sending ends the noise, if it is still
  open, before the payload begins (`ApartSend`); the decode loop takes whole pieces only (`ApartLoop`).
  Noise that holds an END is left out: it would be several pieces.
  Then the serial port, `SerialLosslessHolds`. `ReadInv` adds to the reading half that there is no request
  the stream does not know of, unless registering a wait has failed; that a failed request holds no
  bytes; and that a completed one fits the buffer of whoever polls next, since the warm-up's is the smaller
  (`WarmupBuf <= RecvBuf`, an assumption the code's constants meet). `Balance` adds to the writing half that
  the kernel was given all that `write_all` has left, and has written of that what it holds. The rest is
  cutting and joining sequences (`Split`, `Glue`, `PieceWritten`).
* **`CbrtProofs`**. `NoOverrunHolds`, by `EncInv`, which adds the types of the builder's state to it: an
  append is compared with the room behind what is written, and packed bits take a byte at a time as long
  as there is room. Nothing of the samples' values is used. Then the session, where what is claimed is
  only about the frame just accepted, so `SessionInv` says what links it to those before: `Framed` (what
  the device sent, and not before its last sample), `Series` (how two frames of a boot follow each other,
  whichever of them overtook the other) and `Remembered`, with `Linked`: the session keeps the sequence
  number and the time stamp of the frame accepted last; its clock offset plus the unwrapped time stamp is
  that frame's time plus the least delay seen; and while the stream is steady the smoothed rate is exactly
  the true one. The arithmetic is in lemmas: `Unwrapped` (frames less than half the range apart: a time
  stamp that falls by more than half the range has wrapped, and no other has), `GapMod` (the gap of the
  numbers modulo the modulus is that of the frames), `Rounded` and `Smoothed` (a rate inferred from an
  exact interval is not changed by rounding and smoothing), `SteadyRate`. The assignments of a
  reset leave nothing: `AllFieldsReset` and `ResetIs`, field by field. From `SessionInv` `SessionStartsFreshHolds`,
  `DropsCountedHolds`, `DatesAreRightHolds` and `SteadyDatesHolds`, for every range, modulus and period.
  Last `RoundTripHolds`: what the C builder finishes, the Rust parser reads back. `RoundTrip` speaks of
  finished frames only; `BuilderInv` adds where the buffer holds what was given so far: sample i of n bytes
  at (i - 1) * n + k behind the header (`Laid`), bit 8 * (b - 1) + j in bit j of byte b, the last ones
  in the accumulator (`BitsIn`), and the profile in front of the optional fields, which no append touches
  (`Prefixed`). An append extends this (`LaidMore`); finalizing writes each field beside the others
  (`FinishedFrame`: five stores, each compared with those before and behind it), after filling packed bits
  up to whole bytes and rows (`BitsPadded`). The parser is taken apart in the same layers: header and sizes
  (`ParseIs`), the pieces it shows, which cover the frame (`ContentsCover`), samples (`SamplesMean`) and bits
  (`BitsMean`), rows that are not whole (`Exact`). The conversion of halves is `HalfRight`, by cases on the
  leading bit of a subnormal one.
* **`ServicesProofs`**. `ServicesInv` has five parts. `CallsInv`: who waits, at which stage, and that a
  success took effect. `WireInv`: requests on the wire are in the order of their calls as far as the promise
  needs it, that is, none overtakes a synchronous Redis command of the same connection (`Overtakes`), neither
  on the wire nor by having taken effect already; without it `AppliedInv`, the promise itself, is not
  inductive; what was severed with a failed connection is left out of both. `Punctual`: the time the engine
  has waited and the time its call has left are together at most the limit, in the queue for the lock as on
  the wire. `PoolsInv`: the number of a pool is never used again, and no Redis command waits in the queue of a
  pool. From it `SyncInOrderHolds`, `BlockedAtMostHolds` and the action property `NoClientHolds`, for every
  mix of services and any number of calls. `RowsStoredHolds` is inductive by itself; its weight lies in
  `JoinedRows`: in rows of one length, joined, the value of row r and column c is the ((r - 1) * cols + c)-th,
  which is the number of its placeholder.

Temporal steps are discharged by PTL from the initial condition and the step lemma.

The library's induction theorems are not usable here, since they take an operator as a parameter. Where
a proof needs induction over numbers it takes the least counterexample instead (`LeastNumber`, from the
well-foundedness of the natural numbers). What `FlattenSeq`, a recursive function, computes is obtained in
this way: that the function exists (`JoinsExist`), and what one more element adds (`FlattenAppend`).

What several modules need of sequences, `FlattenSeq` above all, is in `SequenceLemmas`.

Every invariant and every action property of the runs is proved. Only model-checked: all liveness and
leads-to, since fairness and ENABLED are beyond the prover.

## 5. Where the code and its texts disagree

The runs marked *violated* show seven; `PROJECT.json` quotes the lines. In plain words:

1. With a hundred messages routed to a connection that reconnects, or that waits for the full message lane,
   the engine waits on its TX channel and serves no command, Stop included; in the second case the two wait
   for each other (`stop_starved`).
2. With a full message lane an auto-response makes the engine wait for itself (`self_deadlock`), and a
   due message makes it wait for the delay task, which waits for it (`delay_deadlock`).
3. A connection that waits for the lane when Stop comes is aborted without `close()`
   (`close_skipped`).
4. Scheduled messages that the delay task holds at a Stop are sent by the next session (`stop_leaks`).
5. Two clients can leave the wrong running state on display (`stale_broadcast`).
6. With a leading END, SLIP yields at most one message per read; at end of file one of the frames
   that are left is handed out and the others are discarded (`slip_stalls`).

Others are plain from the code, without a run.

*Engine and scripts.* `on_send` documented as a veto (MCP_CLAUDE.md 40) only decides whether its changes
are kept (`lua.rs` 177-186); a delayed message passes through `on_send` twice (`engine.rs` 233-234 says
once); a message for an unknown connection, or for one whose
task has ended, is let go without a warning (`engine_task.rs` 429-433); an `on_timer` that takes 100 ms keeps
every command from being served (89); a command to a connection has no timeout (352); `send_command` in a hook
"bypasses the engine mpsc channel to avoid deadlock" (`lua.rs` 371), yet waits without limit for a
connection that may wait for the lane which the engine then does not empty; a Start that replaces a
script set while stopped does not call its `on_stop`; an aborted task can still hold its port when the
next session opens it (`engine_task.rs` 467); a receive timeout of 100 ms or more never fires on an idle
line, because each retry tick drops `recv` and its timer (`connection_task.rs` 238); a decode error
clears the buffer and may cut a good frame, whose second half is then delivered (`transport.rs` 233).

*Delays.* `delay.rs` 322-323 and 380 say 20 ms where the constant (5) is 1000 ms; a delay that follows an
abandoned one on Linux can end at once, and a failed wait always does (`EarlyOnlyAfterLeft`); a repeating
batch with an empty list never awaits, so `abort()` does not end it (`BatchEnds` excludes it).

*CBRT.* The error of a builder is "cleared by finalize" (`cbrt.h` 200), but finalize returns 0 without
clearing it (`cbrt.c`), so only a new init helps. Writes are "done byte by byte ... correct on both LE and
BE hosts" (`cbrt.h` 117), but are host-endian, unaligned stores (`cbrt.c` 88-90). The header has "8..14
bytes" (`cbrt.h` 94, 186); with every field it has 15. A row that is not whole is finished without an
error and then rejected by the parser (`RoundTrip`). The decoder has no check against
MAX_FRAME_PAYLOAD (`protocol.md` 163). Without a period field "sample-rate information is unavailable"
(`protocol.md`, 6.5), but the code infers a rate from arrivals; a lost frame inflates it. A device that
boots again with the same profile is not a new session: its time stamps and sequence numbers continue
those of before (`DropsCounted` and `DatesAreRight` exclude it). So are excluded a gap of more than half
the range of the time stamp, which `protocol.md` 6.4 calls ambiguous but no warning tells of, and a
datagram overtaken around a wrap, which spoils the clock offset for the rest of the session.
The transformer's state is per configured connection, not per "UDP peer" (`transformer.rs` 16).

*Services.* The limit of `redis_del` is 1000 ms, and those of the asynchronous set and delete are 1000
and 100 ms, which look exchanged; `redis.rs` 368 lists XADD, which there is not. "Timeout: 5 seconds"
(`discord.rs` 223) does not cover reading the body of a refusal (103), and "characters" (219-220) are
counted as bytes. "Timeout: 10 seconds" (`smtp.rs` 273) is for each exchange. InfluxDB and TimescaleDB
calls have no limit at all, and a script's call stops the engine (`BlockedAtMost` lists these). A status
of 400 and above is a result of InfluxDB functions like any other. Integers and doubles are sent raw to
NUMERIC columns, which "SqlParam can handle" (`timescaledb.rs` 130), and are not stored as given
(`RowsStored` excludes them). `timescaledb_disconnect` closes the pool, `redis_disconnect` only forgets
the connection, and reconnecting closes neither.

*Serial port.* Comments on the warm-up say 20 ms and 10 timeouts, the code has 3 ms and 2 (`lib.rs`
150-180). The warm-up can end with a read in flight, whose bytes then go to the first `recv`. When
registering the wait of a read fails, the read stays in flight while the stream takes itself to be idle
(`windows/tokio_stream.rs` 365-367); the warm-up ignores the error and the next poll reuses its buffer
(`torn`, which `SerialLossless` excludes). A write future dropped while pending would make the next write
report the earlier one's count; no caller in the repository drops one.

## 6. Not modelled, and limits

* Text, formatting, logging, localisation, manifests' contents, message values, inputs, formatters and the
  transformers other than CBRT's: conversions without state or protocol. Their correctness is that of a
  table of cases, which unit tests reach.
* The warning thresholds and raw byte observers of a connection, which change no state the properties
  are about; `handle_command` and `send_raw` of the codec transport.
* What a hook does to a message (in `Routing`, that it could change its time or connection), and `log` and
  `get_config` of scripts.
* The configs a script is rebuilt with by set_lua (`engine_task.rs` 286): `Engine` keeps of a script only
  which instance it is.
* Lifetime of the engine handles: the task's own shutdown when the last one is dropped.
* `Routing` has one clock for deadlines; that there are two is `TimedTasks`' subject. A delay task that could
  not create its timer, and so never runs, is left out.
* Wakers of the serial streams (a poll may come at any time), flush (whose errors POSIX `poll_flush`
  ignores) and control lines; the translation of a configuration into port settings.
* The contents of requests to services and of their answers, but for inserts; the values of checksums.
* Services, ports and the operating system, except as environments that may do what they document.

## 7. Plan

Done, in the order of importance: the connection task with its abstract pipe, the joined data plane with
the script's hooks, the control plane with its abstraction, routing and delays, codecs and receiving; the
timer with the two tasks that wait on it; the CBRT library, parser and session; the service functions and
inserts; the serial port; proofs of the safety properties of all of these.

What is left, each with its run and, where it is not about recursive functions, its theorems:

1. `Lifetime` (`engine.rs`, `engine_task.rs` 30-60, 441-445): handles, weak references of the helper
   tasks and the shutdown of the engine task; deadlock of a dropped handle against a waiting task.
2. `Dataplane` with two connections, so that a hook on behalf of one waits for the other.
3. `ManifestValues` (`manifest_values.rs`): merging stored values, checked against a reference
   definition over small forms, and with it the configs of a set_lua rebuild; `Values` (`value.rs`),
   conversions at their numeric limits.
