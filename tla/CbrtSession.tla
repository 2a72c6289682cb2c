----------------------------- MODULE CbrtSession -----------------------------
(***************************************************************************)
(* A device that samples at a steady rate and sends CBRT frames, the link  *)
(* that delays, loses, damages and (datagrams) repeats or reorders them,   *)
(* and the session state from which the host dates the samples: the codec  *)
(* of a byte stream, or the transformer of a message connection.           *)
(*                                                                         *)
(* The clocks of device and host run alike; the device's starts at its     *)
(* boot, and its 32-bit time stamp and 8-bit sequence number are of small  *)
(* ranges here.  A time known only to some frames is a set with at most    *)
(* one element.                                                            *)
(***************************************************************************)
EXTENDS Integers, Sequences

CONSTANTS
  FlagSets,    \* per host: the sets of optional fields the device may be set to send
  UpTime,      \* the device's clock when it starts to send
  TsRange,     \* 2^32, the range of the ts field
  SeqModulus,  \* 256
  SamplePeriod,\* the true time between two samples
  Scale,       \* an inferred period is kept in fractions of 1 / Scale
  RowCounts,   \* numbers of samples in one frame
  MaxFlight,   \* per host: bound on frames on their way
  MaxSent,     \* per host: bound on the frames of one boot
  MaxBoots,    \* per host: bound on the device's boots
  MaxClk       \* bound on the clock

ASSUME SessionAssumption ==
  /\ TsRange \in Nat /\ TsRange % 2 = 0 /\ TsRange > 0
  /\ SeqModulus \in Nat \ {0} /\ SamplePeriod \in Nat \ {0} /\ Scale \in Nat \ {0}
  /\ UpTime \in Nat /\ RowCounts \subseteq Nat

VARIABLES
  host,     \* "codec" or "transformer"
  clk,      \* the time
  device,   \* flags, time of boot, next sequence number, time of the next sample
  flight,   \* the frames on their way
  state,    \* SessionState
  got,      \* the frame accepted by this step: state before, arrival, what was made of it
  past      \* the frame accepted before it in the session, and the session's history

cbrtVars == <<host, clk, device, flight, state, got, past>>

(* SessionState::default; its frame_count, which nothing reads, is left out. *)
Fresh == [profile |-> {}, lastSeq |-> {}, lastTs |-> {}, wraps |-> 0, anchor |-> {},
          lastAnchor |-> {}, lastCount |-> 0, ema |-> {}]

(* SessionState::reset. *)
Reset(s) ==
  [s EXCEPT !.profile = {}, !.lastSeq = {}, !.lastTs = {}, !.wraps = 0, !.anchor = {},
            !.lastAnchor = {}, !.lastCount = 0, !.ema = {}]

The(s)  == CHOOSE x \in s : TRUE
Lesser(a, b) == IF a < b THEN a ELSE b
-----------------------------------------------------------------------------
(* parse_at, behind the checks of the frame.  Each operator is one step of *)
(* it; s is the state the steps before it have left.                       *)
ForProfileKeepingRate(s, f) ==      \* mutant: one field is forgotten
  IF s.profile = {f.flags} THEN s
  ELSE [s EXCEPT !.profile = {f.flags}, !.lastSeq = {}, !.lastTs = {}, !.wraps = 0,
                 !.anchor = {}, !.lastAnchor = {}, !.lastCount = 0]

ForProfile(s, f) ==
  IF s.profile = {f.flags} THEN s
  ELSE [s EXCEPT !.profile = {f.flags}, !.lastSeq = {}, !.lastTs = {}, !.wraps = 0,
                 !.anchor = {}, !.lastAnchor = {}, !.lastCount = 0, !.ema = {}]

WrapIfLess(s, f) == s.wraps         \* mutant: wraps are not seen

WrapCount(s, f) ==
  IF s.lastTs # {} /\ f.ts < The(s.lastTs) /\ The(s.lastTs) - f.ts > TsRange \div 2
  THEN s.wraps + 1 ELSE s.wraps

FullTs(s, f) == WrapCount(s, f) * TsRange + f.ts

DeltaAsDropped(s, f) ==             \* mutant: one too many
  IF "seq" \in f.flags /\ s.lastSeq # {} THEN {(f.seq - The(s.lastSeq)) % SeqModulus} ELSE {}

(* The frames reported as missing before this one, -1 for a duplicate. *)
Dropped(s, f) ==
  IF "seq" \in f.flags /\ s.lastSeq # {}
  THEN {((f.seq - The(s.lastSeq)) % SeqModulus) - 1} ELSE {}

AnchorOf(s, f, at) ==
  LET candidate == at - FullTs(s, f)
  IN IF s.anchor = {} THEN candidate ELSE Lesser(The(s.anchor), candidate)

BaseOf(s, f, at) ==
  IF "ts" \notin f.flags THEN at
  ELSE LET base == FullTs(s, f) + AnchorOf(s, f, at) IN IF base < 0 THEN 0 ELSE base

(* infer_period: the gap since the last anchor, over the samples in it,    *)
(* smoothed with the rate known so far (PERIOD_EMA_ALPHA is 1/5).          *)
Ema(s, f, base) ==
  LET span == IF "ts" \in f.flags THEN s.lastCount ELSE f.rows
      raw  == (Scale * (base - The(s.lastAnchor))) \div span
  IN IF s.lastAnchor # {} /\ base > The(s.lastAnchor) /\ span > 0
     THEN IF s.ema = {} THEN {raw} ELSE {(raw + 4 * The(s.ema)) \div 5}
     ELSE s.ema

DateFromFirst(f, base, period, i) ==    \* mutant: always from the first sample on
  IF period = {} THEN base ELSE (Scale * base + i * The(period)) \div Scale

(* SampleTiming::ts: from the first sample on with a time stamp of the     *)
(* device, back from the last one without; rounded, and never negative.    *)
DateOf(f, base, period, i) ==
  LET k == IF "ts" \in f.flags THEN i ELSE i - ((IF f.rows = 0 THEN 1 ELSE f.rows) - 1)
      t == Scale * base + k * The(period)
  IN IF period = {} THEN base
     ELSE IF t <= 0 THEN 0 ELSE (2 * t + Scale) \div (2 * Scale)

ParseAt(before, f, at) ==
  LET s      == ForProfile(before, f)
      base   == BaseOf(s, f, at)
      given  == "period" \in f.flags
      ema    == Ema(s, f, base)
      period == IF given THEN {Scale * SamplePeriod} ELSE ema
      ts     == "ts" \in f.flags
  IN [state |-> [s EXCEPT !.lastSeq = IF "seq" \in f.flags THEN {f.seq} ELSE @,
                          !.lastTs = IF ts THEN {f.ts} ELSE @,
                          !.wraps = IF ts THEN WrapCount(s, f) ELSE @,
                          !.anchor = IF ts THEN {AnchorOf(s, f, at)} ELSE @,
                          !.lastAnchor = IF given THEN @ ELSE {base},
                          !.lastCount = IF given THEN @ ELSE f.rows,
                          !.ema = IF given THEN @ ELSE ema],
      base |-> base, period |-> period, dropped |-> Dropped(s, f),
      dates |-> [i \in 0 .. f.rows - 1 |-> DateOf(f, base, period, i)]]
-----------------------------------------------------------------------------
Device(flags, n) ==
  [flags |-> flags, boot |-> clk - UpTime, nthBoot |-> n, seq |-> 0, nth |-> 0, nextAt |-> clk]

NoPast == [frame |-> {}, least |-> {}, regular |-> TRUE, steady |-> TRUE]

CbrtInit ==
  /\ host \in {"codec", "transformer"} /\ clk = 0 /\ device = {} /\ flight = <<>>
  /\ state = Fresh /\ got = {} /\ past = NoPast

(* The device starts, again perhaps, with the same profile or another. *)
Boot(flags) ==
  /\ device' = {Device(flags, IF device = {} THEN 1 ELSE The(device).nthBoot + 1)}
  /\ \A d \in device : d.boot < clk - UpTime /\ d.nthBoot < MaxBoots[host]
  /\ got' = {} /\ UNCHANGED <<host, clk, flight, state, past>>

(* A frame of n samples, the last of which was just taken. *)
Emit(n) ==
  /\ device # {} /\ Len(flight) < MaxFlight[host] /\ The(device).nth < MaxSent[host]
  /\ LET d == The(device)
         from == clk - (IF n = 0 THEN 0 ELSE n - 1) * SamplePeriod
     IN /\ from >= d.nextAt
        /\ flight' = Append(flight,
             [flags |-> d.flags, boot |-> d.boot, seq |-> d.seq, nth |-> d.nth, rows |-> n,
              ts |-> (from - d.boot) % TsRange, from |-> from, follows |-> from = d.nextAt,
              repeatable |-> host = "transformer"])
        /\ device' = {[d EXCEPT !.seq = (@ + 1) % SeqModulus, !.nth = @ + 1,
                                !.nextAt = from + n * SamplePeriod]}
  /\ got' = {} /\ UNCHANGED <<host, clk, state, past>>

Advance ==
  /\ clk < MaxClk /\ clk' = clk + 1
  /\ got' = {} /\ UNCHANGED <<host, device, flight, state, past>>
-----------------------------------------------------------------------------
(* What the session has seen, kept for the properties: the least delay of  *)
(* a first sample's date, whether its frames arrived within half the range *)
(* of ts of each other and from one boot, and whether none was missing or  *)
(* late.                                                                   *)
Epoch(f) == (f.from - f.boot) \div TsRange
Near(p, f) ==
  /\ p.boot = f.boot
  /\ 2 * (f.from - p.from) < TsRange /\ 2 * (p.from - f.from) < TsRange
  /\ f.from < p.from => Epoch(f) = Epoch(p)

Delay(f, at) == at - IF "ts" \in f.flags THEN f.from ELSE f.from + (f.rows - 1) * SamplePeriod

Remember(f, at) ==
  LET same == state.profile = {f.flags}
      p    == IF same THEN past ELSE NoPast
      least == IF p.least = {} THEN Delay(f, at) ELSE Lesser(The(p.least), Delay(f, at))
  IN [frame |-> {f}, least |-> {least},
      regular |-> p.regular /\ (p.frame # {} => Near(The(p.frame), f)),
      steady |-> /\ p.steady /\ f.rows > 0
                 /\ p.frame # {} => /\ f.follows /\ f.boot = The(p.frame).boot
                                    /\ f.nth = The(p.frame).nth + 1
                                    /\ IF "ts" \in f.flags THEN The(p.least) = least
                                       ELSE The(p.least) = Delay(f, at)]

(* A frame's end: lost (a cut datagram is refused, which is no other); or  *)
(* it fails a check, and is skipped by the codec, while the transformer    *)
(* also forgets the session; or CbrtCodec::decode or the transformer's     *)
(* on_receive accepts it.  Datagrams may overtake and be repeated.         *)
Without(i) == SubSeq(flight, 1, i - 1) \o SubSeq(flight, i + 1, Len(flight))

Lose(i) ==
  /\ flight' = Without(i) /\ got' = {} /\ UNCHANGED <<host, clk, device, state, past>>

Refuse(i) ==
  /\ flight' = Without(i) /\ got' = {}
  /\ IF host = "transformer" THEN state' = Reset(state) /\ past' = NoPast
     ELSE UNCHANGED <<state, past>>
  /\ UNCHANGED <<host, clk, device>>

Accept(i) ==
  LET f == flight[i]
      p == ParseAt(state, f, clk)
  IN /\ host = "codec" => i = 1
     /\ \/ flight' = Without(i)
        \/ f.repeatable /\ flight' = [flight EXCEPT ![i].repeatable = FALSE]
     /\ state' = p.state
     /\ got' = {[before |-> state, prev |-> past.frame, frame |-> f, at |-> clk, out |-> p]}
     /\ past' = Remember(f, clk)
     /\ UNCHANGED <<host, clk, device>>

(* CbrtCodec::reset, when the transport drops what it has buffered. *)
ResetCodec ==
  /\ host = "codec" /\ state # Fresh
  /\ state' = Reset(state) /\ past' = NoPast /\ got' = {}
  /\ UNCHANGED <<host, clk, device, flight>>

CbrtNext ==
  \/ \E flags \in FlagSets[host] : Boot(flags)
  \/ \E n \in RowCounts : Emit(n)
  \/ \E i \in DOMAIN flight : Lose(i) \/ Refuse(i) \/ Accept(i)
  \/ Advance \/ ResetCodec

CbrtSpec == CbrtInit /\ [][CbrtNext]_cbrtVars
-----------------------------------------------------------------------------
(* A frame that opens a session is read as by a host that has seen none    *)
(* before: the resets of parser.rs:195-205, made field by field, leave     *)
(* nothing of the profile before it, be it sequence number, wraps, clock   *)
(* offset or rate.                                                         *)
SessionStartsFresh ==
  \A g \in got : g.before.profile # {g.frame.flags} => g.out = ParseAt(Fresh, g.frame, g.at)

(* The missing frames reported are those the device sent in between, up to *)
(* a multiple of 256, whatever was lost, damaged, repeated or overtaken;   *)
(* unless the device booted in between without changing the profile.       *)
DropsCounted ==
  \A g \in got : \A p \in g.prev : \A n \in g.out.dropped :
    p.boot = g.frame.boot => (g.frame.nth - p.nth - 1 - n) % SeqModulus = 0

(* A sample of a frame with ts is dated by the device's clock: the frame's *)
(* date is the time of its first sample plus the least delay any frame of  *)
(* the session arrived with, although the ts field wraps.  It needs frames *)
(* less than half the range of ts apart, none that overtakes another       *)
(* around a wrap, and no boot without a change of the profile.             *)
DatesAreRight ==
  \A g \in got : past.regular /\ past.frame # {} /\ "ts" \in g.frame.flags =>
    g.out.base = g.frame.from + The(past.least)

(* While frames follow each other with none missing and none delayed more  *)
(* or less than the one before, the inferred rate is the true one, and     *)
(* every sample of every frame but the session's first is dated at its     *)
(* time plus the delay.  With a period field no frame is needed for that.  *)
SteadyDates ==
  \A g \in got : \A d \in past.least :
    LET f == g.frame
        known == "period" \in f.flags \/ (past.steady /\ g.before.lastAnchor # {}
                                           /\ g.before.profile = {f.flags})
    IN known /\ past.regular => \A i \in DOMAIN g.out.dates :
         g.out.dates[i] = f.from + i * SamplePeriod
                          + IF "ts" \in f.flags THEN d ELSE Delay(f, g.at)
=============================================================================
