----------------------------- MODULE CbrtProofs -----------------------------
(***************************************************************************)
(* The frame builder never promises room it does not have, for all         *)
(* profiles, buffer sizes and sequences of calls.  The invariant adds the  *)
(* types that the sums need.                                               *)
(*                                                                         *)
(* A session dates samples and counts missing frames right, for all ranges *)
(* of the fields, periods and frames on their way.  The invariant says how *)
(* the frames of one boot follow each other (Series) and what the session  *)
(* keeps of the frame accepted last (Linked).                              *)
(*                                                                         *)
(* What the C builder finishes, the Rust parser reads back (RoundTrip).    *)
(* The invariant says where the buffer holds the samples given so far:     *)
(* those of a sized datatype in its bytes (Laid), the bits of booleans in  *)
(* its full bytes and the accumulator (BitsIn), and which of its cells no  *)
(* append writes (Prefixed).  Around it are lemmas on stores into and cuts *)
(* out of a buffer, on the conversion of a half to a single, on the sum of *)
(* the pieces a frame is shown in, and on each layer of the parser.        *)
(***************************************************************************)
EXTENDS CbrtEncoder, CbrtSession, SequenceLemmas, TLAPS, SequenceTheorems

USE EncoderAssumption

EncTypes ==
  /\ profile \in Profiles /\ payloadLen \in Nat
  /\ acc \in Seq(BOOLEAN)

EncInv == EncTypes /\ NoOverrun

(* The sizes of the parts of a frame are numbers. *)
LEMMA Sizes ==
  /\ \A flags : HeaderSize(flags) \in Nat /\ CrcSize(flags) \in Nat
  /\ \A dt \in Datatypes \ {"bool"} : ByteCount(dt) \in Nat
<1>1. \A flags : HeaderSize(flags) \in Nat /\ CrcSize(flags) \in Nat
  BY DEF HeaderSize, LenOff, PeriodOff, TsOff, CrcSize, Width
<1>2. \A dt \in Datatypes \ {"bool"} : ByteCount(dt) \in Nat
  BY DEF Datatypes, ByteCount, BytesPerDatatype
<1> QED BY <1>1, <1>2

(* The profile in use has channels, flags and a capacity. *)
LEMMA ProfileTypes ==
  ASSUME EncTypes
  PROVE  /\ profile.cap \in Nat /\ profile.channels \in 1 .. 64
         /\ profile.datatype \in Datatypes
         /\ HeaderSize(profile.flags) \in Nat /\ CrcSize(profile.flags) \in Nat
<1>1. profile \in [datatype : Datatypes, channels : 1 .. 64,
                   flags : SUBSET OptionalFields, cap : Nat]
  BY DEF EncTypes
<1> QED BY <1>1, Sizes

LEMMA EncInvInit == EncInit => EncInv
<1> SUFFICES ASSUME EncInit PROVE EncInv
  OBVIOUS
<1>1. EncTypes
  BY DEF EncInit, EncTypes
<1>2. profile.cap \in Nat /\ HeaderSize(profile.flags) \in Nat /\ CrcSize(profile.flags) \in Nat
  BY <1>1, ProfileTypes
<1>3. NoOverrun
  BY <1>2 DEF EncInit, NoOverrun, InitErr, InitRoom
<1> QED BY <1>1, <1>3 DEF EncInv

(* A new session, with any of the profiles. *)
LEMMA InitStep ==
  ASSUME NEW p \in Profiles, FrameInit(p)
  PROVE  EncInv'
<1>1. EncTypes'
  BY DEF FrameInit, EncTypes
<1>2. p.cap \in Nat /\ HeaderSize(p.flags) \in Nat /\ CrcSize(p.flags) \in Nat
  <2>1. p \in [datatype : Datatypes, channels : 1 .. 64,
               flags : SUBSET OptionalFields, cap : Nat]
    OBVIOUS
  <2> QED BY <2>1, Sizes
<1>3. NoOverrun'
  BY <1>2 DEF FrameInit, NoOverrun, InitErr, InitRoom
<1> QED BY <1>1, <1>3 DEF EncInv

(* An error keeps everything else, and NoOverrun says nothing any more. *)
LEMMA FailStep ==
  ASSUME EncInv, NEW e, e # "ok", Fail(e)
  PROVE  EncInv'
BY DEF EncInv, EncTypes, NoOverrun, Fail

LEMMA PutStep ==
  ASSUME EncInv, err = "ok", NEW bytes, NEW xs, Len(bytes) \in Nat, Put(bytes, xs)
  PROVE  EncInv'
<1>1. CASE Fits(Len(bytes))
  <2>1. EncTypes'
    BY <1>1 DEF Put, EncInv, EncTypes
  <2>2. NoOverrun'
    <3>1. /\ profile' = profile /\ payloadLen' = payloadLen + Len(bytes)
      BY <1>1 DEF Put
    <3>2. HeaderSize(profile.flags) + payloadLen + Len(bytes) + CrcSize(profile.flags)
            <= profile.cap
      BY <1>1 DEF Fits, Used
    <3>3. payloadLen \in Nat /\ HeaderSize(profile.flags) \in Nat
          /\ CrcSize(profile.flags) \in Nat /\ profile.cap \in Nat
      BY ProfileTypes DEF EncInv, EncTypes
    <3> QED BY <3>1, <3>2, <3>3 DEF NoOverrun
  <2> QED BY <2>1, <2>2 DEF EncInv
<1>2. CASE ~Fits(Len(bytes))
  BY <1>2, FailStep DEF Put
<1> QED BY <1>1, <1>2

LEMMA AppendOneStep ==
  ASSUME EncInv, NEW dt \in Datatypes \ {"bool"}, NEW x, AppendOne(dt, x)
  PROVE  EncInv'
<1>1. CASE dt # profile.datatype
  BY <1>1, FailStep DEF AppendOne
<1>2. CASE dt = profile.datatype
  <2>1. Len(Bytes(x, ByteCount(dt))) \in Nat
    BY Sizes DEF Bytes
  <2> QED BY <1>2, <2>1, PutStep DEF AppendOne
<1> QED BY <1>1, <1>2

LEMMA AppendRawStep ==
  ASSUME EncInv, NEW xs, Len(xs) \in Nat, AppendRaw(xs)
  PROVE  EncInv'
<1>1. CASE profile.datatype = "bool" \/ Len(xs) % profile.channels # 0
  BY <1>1, FailStep DEF AppendRaw
<1>2. CASE profile.datatype # "bool" /\ ~(Len(xs) % profile.channels # 0)
  <2> DEFINE n == ByteCount(profile.datatype)
             bytes == [i \in 1 .. n * Len(xs) |-> <<xs[((i - 1) \div n) + 1], ((i - 1) % n) + 1>>]
  <2>1. n \in Nat
    BY <1>2, ProfileTypes, Sizes DEF EncInv
  <2>2. n * Len(xs) \in Nat
    BY <2>1
  <2>3. Len(bytes) \in Nat
    BY <2>2
  <2>4. err = "ok" /\ Put(bytes, xs)
    BY <1>2 DEF AppendRaw
  <2> QED BY <2>3, <2>4, PutStep
<1> QED BY <1>1, <1>2

(* A row of bits; the bytes they fill are stored as far as there is room. *)
LEMMA AppendBoolStep ==
  ASSUME EncInv, NEW row \in Seq(BOOLEAN), AppendBool(row)
  PROVE  EncInv'
<1>1. CASE profile.datatype # "bool"
  BY <1>1, FailStep DEF AppendBool
<1>2. CASE profile.datatype = "bool"
  <2> DEFINE bits == acc \o row
             full == Len(bits) \div 8
             n == IF full <= Room THEN full ELSE Room
             upto == IF full <= Room THEN Len(bits) ELSE 8 * n + 8
  <2>1. /\ payloadLen' = payloadLen + n /\ profile' = profile
        /\ acc' = SubSeq(bits, 8 * n + 1, upto)
        /\ err = "ok" /\ err' = IF full <= Room THEN "ok" ELSE "overflow"
    BY <1>2 DEF AppendBool
  <2>2. bits \in Seq(BOOLEAN) /\ Len(bits) \in Nat /\ full \in Nat /\ 8 * full <= Len(bits)
    <3>1. bits \in Seq(BOOLEAN)
      BY DEF EncInv, EncTypes
    <3> QED BY <3>1
  <2>3. /\ payloadLen \in Nat /\ HeaderSize(profile.flags) \in Nat
        /\ CrcSize(profile.flags) \in Nat /\ profile.cap \in Nat
    BY ProfileTypes DEF EncInv, EncTypes
  <2>4. Room \in Nat
    BY <2>1, <2>3 DEF EncInv, NoOverrun, Room, Used
  <2>5. n \in Nat /\ 8 * n + 1 \in Nat \ {0} /\ upto \in Nat /\ upto <= Len(bits)
    BY <2>2, <2>4
  <2>6. acc' \in Seq(BOOLEAN)
    <3>1. \A i \in 8 * n + 1 .. upto : bits[i] \in BOOLEAN
      <4> SUFFICES ASSUME NEW i \in 8 * n + 1 .. upto PROVE bits[i] \in BOOLEAN
        OBVIOUS
      <4>1. i \in 1 .. Len(bits)
        BY <2>2, <2>5
      <4> QED BY <2>2, <4>1
    <3>2. SubSeq(bits, 8 * n + 1, upto) \in Seq(BOOLEAN)
      <4> HIDE DEF bits, full, n, upto
      <4> QED BY <2>2, <2>5, <3>1, SubSeqProperties
    <3> QED BY <2>1, <3>2
  <2>7. EncTypes'
    <3>1. profile' \in Profiles
      BY <2>1 DEF EncInv, EncTypes
    <3>2. payloadLen' \in Nat
      <4> HIDE DEF n
      <4> QED BY <2>1, <2>3, <2>5
    <3> QED BY <3>1, <3>2, <2>6 DEF EncTypes
  <2>8. NoOverrun'
    <3>1. CASE full <= Room
      <4>1. payloadLen' = payloadLen + full /\ profile' = profile
        BY <2>1, <3>1
      <4>2. full <= profile.cap - CrcSize(profile.flags)
                      - (HeaderSize(profile.flags) + payloadLen)
        BY <3>1 DEF Room, Used
      <4> HIDE DEF full
      <4> QED BY <2>2, <2>3, <4>1, <4>2 DEF NoOverrun
    <3>2. CASE ~(full <= Room)
      <4>1. err' = "overflow"
        BY <2>1, <3>2
      <4> QED BY <4>1 DEF NoOverrun
    <3> QED BY <3>1, <3>2
  <2> QED BY <2>7, <2>8 DEF EncInv
<1> QED BY <1>1, <1>2

(* A finished frame leaves an empty one, for which there is room. *)
LEMMA FinalizeStep ==
  ASSUME EncInv, Finalize
  PROVE  EncInv'
<1>1. \/ Fail("overflow")
      \/ /\ payloadLen' = 0 /\ acc' = <<>> /\ profile' = profile /\ err' = err /\ err = "ok"
  BY DEF Finalize
<1>2. CASE Fail("overflow")
  BY <1>2, FailStep
<1>3. CASE /\ payloadLen' = 0 /\ acc' = <<>> /\ profile' = profile /\ err' = err /\ err = "ok"
  <2>1. EncTypes'
    BY <1>3 DEF EncInv, EncTypes
  <2>2. NoOverrun'
    <3>1. /\ payloadLen \in Nat /\ HeaderSize(profile.flags) \in Nat
          /\ CrcSize(profile.flags) \in Nat /\ profile.cap \in Nat
      BY ProfileTypes DEF EncInv, EncTypes
    <3> QED BY <1>3, <3>1 DEF EncInv, NoOverrun
  <2> QED BY <2>1, <2>2 DEF EncInv
<1> QED BY <1>1, <1>2, <1>3

LEMMA FunctionIsSeq ==
  ASSUME NEW S, NEW k \in Nat, NEW g \in [1 .. k -> S]
  PROVE  g \in Seq(S)
OBVIOUS

LEMMA EncInvStep == EncInv /\ [EncNext]_encVars => EncInv'
<1> SUFFICES ASSUME EncInv, [EncNext]_encVars PROVE EncInv'
  OBVIOUS
<1>1. CASE UNCHANGED encVars
  BY <1>1 DEF encVars, EncInv, EncTypes, NoOverrun
<1>2. ASSUME NEW p \in Profiles, FrameInit(p) PROVE EncInv'
  BY <1>2, InitStep
<1>3. ASSUME NEW field, NEW x, SetField(field, x) PROVE EncInv'
  BY <1>3 DEF SetField, EncInv, EncTypes, NoOverrun
<1>4. ASSUME NEW dt \in Datatypes \ {"bool"}, NEW x, AppendOne(dt, x) PROVE EncInv'
  BY <1>4, AppendOneStep
<1>5. ASSUME NEW n \in 0 .. 2 * profile.channels + 1, NEW x,
             AppendRaw([i \in 1 .. n |-> x])
      PROVE EncInv'
  <2>1. n \in Nat
    BY ProfileTypes DEF EncInv
  <2>2. Len([i \in 1 .. n |-> x]) \in Nat
    BY <2>1
  <2> QED BY <1>5, <2>2, AppendRawStep
<1>6. ASSUME NEW row \in Samples["bool"], AppendBool([c \in 1 .. profile.channels |-> row[c]])
      PROVE EncInv'
  <2>1. row \in [1 .. 64 -> BOOLEAN] /\ profile.channels \in 1 .. 64
    BY ProfileTypes DEF EncInv
  <2>2. [c \in 1 .. profile.channels |-> row[c]] \in Seq(BOOLEAN)
    <3> DEFINE m == profile.channels
    <3>1. m \in Nat /\ \A c \in 1 .. m : row[c] \in BOOLEAN
      BY <2>1
    <3> HIDE DEF m
    <3> DEFINE f == [c \in 1 .. m |-> row[c]]
    <3>2. f \in [1 .. m -> BOOLEAN]
      BY <3>1
    <3>3. f \in Seq(BOOLEAN)
      <4> HIDE DEF f
      <4> QED BY <3>1, <3>2, FunctionIsSeq
    <3> QED BY <3>3 DEF m
  <2> QED BY <1>6, <2>2, AppendBoolStep
<1>7. CASE Finalize
  BY <1>7, FinalizeStep
<1> QED BY <1>1, <1>2, <1>3, <1>4, <1>5, <1>6, <1>7 DEF EncNext

(* For every set of profiles, every capacity and every sequence of calls   *)
(* of the C library, what is written of a frame and its checksum fit in    *)
(* the caller's buffer until an error is recorded.                         *)
THEOREM NoOverrunHolds == EncSpec => []NoOverrun
<1>1. EncInv => NoOverrun
  BY DEF EncInv
<1> QED BY <1>1, EncInvInit, EncInvStep, PTL DEF EncSpec
-----------------------------------------------------------------------------
HIDE EncoderAssumption
USE SessionAssumption

LEMMA DivMod ==
  ASSUME NEW x \in Int, NEW M \in Nat \ {0}
  PROVE  x \div M \in Int /\ x % M \in 0 .. M - 1 /\ x = M * (x \div M) + (x % M)
OBVIOUS

LEMMA NoSmallMultiple ==
  ASSUME NEW M \in Nat \ {0}, NEW k \in Int, NEW r \in Int, -M < r, r < M, M * k = r
  PROVE  k = 0 /\ r = 0
<1>1. CASE k >= 1
  <2>1. M * k >= M
    BY <1>1
  <2> QED BY <2>1
<1>2. CASE k <= -1
  <2>1. M * k <= -M
    BY <1>2
  <2> QED BY <2>1
<1>3. CASE k = 0
  BY <1>3
<1> QED BY <1>1, <1>2, <1>3

LEMMA MultipleMod ==
  ASSUME NEW M \in Nat \ {0}, NEW k \in Int
  PROVE  (M * k) % M = 0 /\ (M * k) \div M = k
<1> DEFINE x == M * k
           d == x \div M
           r == x % M
<1>1. x \in Int
  OBVIOUS
<1>2. d \in Int /\ r \in 0 .. M - 1 /\ x = M * d + r
  BY <1>1, DivMod
<1> HIDE DEF d, r
<1>3. M * (k - d) = r
  BY <1>2
<1>4. k - d = 0 /\ r = 0
  BY <1>2, <1>3, NoSmallMultiple
<1> QED BY <1>2, <1>4 DEF d, r

(* The gap between two sequence numbers is that between the frames. *)
LEMMA GapMod ==
  ASSUME NEW M \in Nat \ {0}, NEW a \in Int, NEW b \in Int
  PROVE  (a - b - (((a % M) - (b % M)) % M)) % M = 0
<1> DEFINE u == a \div M
           v == b \div M
           x == (a % M) - (b % M)
           w == x \div M
<1>1. u \in Int /\ a = M * u + (a % M) /\ a % M \in Int
  BY DivMod
<1>2. v \in Int /\ b = M * v + (b % M) /\ b % M \in Int
  BY DivMod
<1>3. x \in Int /\ w \in Int /\ x = M * w + (x % M) /\ x % M \in Int
  <2>1. x \in Int
    BY <1>1, <1>2
  <2> HIDE DEF x
  <2> QED BY <2>1, DivMod
<1>4. a - b - (x % M) = M * (u - v + w)
  <2> DEFINE ra == a % M
             rb == b % M
             rx == x % M
  <2>1. /\ u \in Int /\ v \in Int /\ w \in Int /\ ra \in Int /\ rb \in Int /\ rx \in Int
        /\ a = M * u + ra /\ b = M * v + rb /\ ra - rb = M * w + rx
    BY <1>1, <1>2, <1>3
  <2>2. M * (u - v + w) = M * u - M * v + M * w
    <3> HIDE DEF u, v, w
    <3> QED BY <2>1
  <2>3. a - b - rx = M * (u - v + w)
    <3> HIDE DEF u, v, w, ra, rb, rx
    <3> QED BY <2>1, <2>2
  <2> QED BY <2>3
<1>5. u - v + w \in Int
  BY <1>1, <1>2, <1>3
<1> HIDE DEF u, v, w
<1> QED BY <1>4, <1>5, MultipleMod

(* Counting on from a remainder. *)
LEMMA SuccMod ==
  ASSUME NEW M \in Nat \ {0}, NEW a \in Int
  PROVE  ((a % M) + 1) % M = (a + 1) % M
<1> DEFINE u == a \div M
           r == a % M
           v == (r + 1) \div M
           x == (r + 1) % M
           w == (a + 1) \div M
           y == (a + 1) % M
<1>1. u \in Int /\ r \in 0 .. M - 1 /\ a = M * u + r
  BY DivMod
<1>2. v \in Int /\ x \in 0 .. M - 1 /\ r + 1 = M * v + x
  <2>1. r + 1 \in Int
    BY <1>1
  <2> HIDE DEF r
  <2> QED BY <2>1, DivMod
<1>3. w \in Int /\ y \in 0 .. M - 1 /\ a + 1 = M * w + y
  <2> DEFINE b == a + 1
  <2>1. b \in Int
    OBVIOUS
  <2> HIDE DEF b
  <2>2. b \div M \in Int /\ b % M \in 0 .. M - 1 /\ b = M * (b \div M) + (b % M)
    BY <2>1, DivMod
  <2> QED BY <2>2 DEF b
<1> HIDE DEF u, r, v, x, w, y
<1>4. M * (u + v - w) = y - x
  <2>1. M * (u + v - w) = M * u + M * v - M * w
    BY <1>1, <1>2, <1>3
  <2>2. M * u \in Int /\ M * v \in Int /\ M * w \in Int
    BY <1>1, <1>2, <1>3
  <2>3. M * u + M * v - M * w = y - x
    BY <1>1, <1>2, <1>3, <2>2
  <2> QED BY <2>1, <2>3
<1>5. y - x = 0
  <2>1. -M < y - x /\ y - x < M /\ y - x \in Int /\ u + v - w \in Int
    BY <1>1, <1>2, <1>3
  <2> QED BY <1>4, <2>1, NoSmallMultiple
<1> QED BY <1>2, <1>3, <1>5 DEF r, x, y

(* A mean of equals, weighted, is the same. *)
LEMMA Smoothed ==
  ASSUME NEW a \in Int
  PROVE  (a + 4 * a) \div 5 = a
OBVIOUS

(* Rounding to the nearest leaves a whole number as it is. *)
LEMMA Rounded ==
  ASSUME NEW c \in Nat \ {0}, NEW x \in Int
  PROVE  (2 * (c * x) + c) \div (2 * c) = x
<1> DEFINE n == 2 * (c * x) + c
           D == 2 * c
           q == n \div D
           r == n % D
<1>1. n \in Int /\ D \in Nat \ {0} /\ n = D * x + c
  OBVIOUS
<1> HIDE DEF n, D
<1>2. q \in Int /\ r \in 0 .. D - 1 /\ n = D * q + r
  BY <1>1, DivMod
<1> HIDE DEF q, r
<1>3. D * (q - x) = c - r
  BY <1>1, <1>2
<1>4. -D < c - r /\ c - r < D
  BY <1>2 DEF D
<1>5. q - x = 0
  BY <1>1, <1>2, <1>3, <1>4, NoSmallMultiple
<1> QED BY <1>2, <1>5 DEF q, n, D
-----------------------------------------------------------------------------
(* Types of a session.                                                     *)
AllFlags == FlagSets["codec"] \cup FlagSets["transformer"]

Frames ==
  [flags : AllFlags, boot : Int, seq : Int, nth : Nat, rows : Nat, ts : Int, from : Nat,
   follows : BOOLEAN, repeatable : BOOLEAN]

Sessions ==
  [profile : SUBSET AllFlags, lastSeq : SUBSET Int, lastTs : SUBSET Int, wraps : Int,
   anchor : SUBSET Int, lastAnchor : SUBSET Int, lastCount : Nat, ema : SUBSET Int]

(* The fields of a frame are those of the device when it was sent. *)
Sent(f) ==
  /\ f.seq = f.nth % SeqModulus
  /\ f.ts = (f.from - f.boot) % TsRange

ArrivesBy(f, at) ==
  /\ f.from <= at
  /\ f.rows > 0 => f.from + (f.rows - 1) * SamplePeriod <= at

LEMMA TheIs ==
  ASSUME NEW x
  PROVE  The({x}) = x
BY DEF The

LEMMA TheIn ==
  ASSUME NEW S, S # {}
  PROVE  The(S) \in S
BY DEF The

LEMMA Constants ==
  /\ TsRange \in Nat \ {0} /\ TsRange % 2 = 0 /\ SeqModulus \in Nat \ {0}
  /\ SamplePeriod \in Nat \ {0} /\ Scale \in Nat \ {0} /\ UpTime \in Nat /\ RowCounts \subseteq Nat
OBVIOUS

LEMMA FrameTypes ==
  ASSUME NEW f \in Frames
  PROVE  /\ f.flags \in AllFlags /\ f.boot \in Int /\ f.seq \in Int /\ f.nth \in Nat
         /\ f.rows \in Nat /\ f.ts \in Int /\ f.from \in Nat
BY DEF Frames

LEMMA SessionTypes ==
  ASSUME NEW s \in Sessions
  PROVE  /\ s.profile \subseteq AllFlags /\ s.lastSeq \subseteq Int /\ s.lastTs \subseteq Int
         /\ s.wraps \in Int /\ s.anchor \subseteq Int /\ s.lastAnchor \subseteq Int
         /\ s.lastCount \in Nat /\ s.ema \subseteq Int
BY DEF Sessions

LEMMA FreshTypes ==
  ASSUME NEW f \in Frames
  PROVE  LET e == [Fresh EXCEPT !.profile = {f.flags}]
         IN /\ Fresh \in Sessions /\ e \in Sessions /\ e.profile = {f.flags}
            /\ e.lastSeq = {} /\ e.lastTs = {} /\ e.wraps = 0 /\ e.anchor = {}
            /\ e.lastAnchor = {} /\ e.ema = {}
<1> DEFINE e == [Fresh EXCEPT !.profile = {f.flags}]
<1>1. Fresh \in Sessions
  BY DEF Fresh, Sessions
<1>2. {f.flags} \in SUBSET AllFlags
  BY FrameTypes
<1>3. /\ e.lastSeq = Fresh.lastSeq /\ e.lastTs = Fresh.lastTs /\ e.wraps = Fresh.wraps
      /\ e.anchor = Fresh.anchor /\ e.lastAnchor = Fresh.lastAnchor /\ e.ema = Fresh.ema
      /\ e.profile = {f.flags}
  BY <1>1 DEF Sessions
<1>4. e \in Sessions
  BY <1>1, <1>2 DEF Sessions
<1>5. /\ Fresh.lastSeq = {} /\ Fresh.lastTs = {} /\ Fresh.wraps = 0 /\ Fresh.anchor = {}
      /\ Fresh.lastAnchor = {} /\ Fresh.ema = {}
  BY DEF Fresh
<1> HIDE DEF e
<1>6. /\ e.lastSeq = {} /\ e.lastTs = {} /\ e.wraps = 0 /\ e.anchor = {}
      /\ e.lastAnchor = {} /\ e.ema = {}
  BY <1>3, <1>5
<1> QED BY <1>1, <1>3, <1>4, <1>6 DEF e

(* A change of profile and a reset set all the fields there are. *)
LEMMA SameSession ==
  ASSUME NEW a \in Sessions, NEW b \in Sessions,
         a.profile = b.profile, a.lastSeq = b.lastSeq, a.lastTs = b.lastTs, a.wraps = b.wraps,
         a.anchor = b.anchor, a.lastAnchor = b.lastAnchor, a.lastCount = b.lastCount,
         a.ema = b.ema
  PROVE  a = b
BY DEF Sessions

SetTo(b, p) ==
  [b EXCEPT !.profile = p, !.lastSeq = {}, !.lastTs = {}, !.wraps = 0, !.anchor = {},
            !.lastAnchor = {}, !.lastCount = 0, !.ema = {}]

IsSet(e, p) ==
  /\ e.profile = p /\ e.lastSeq = {} /\ e.lastTs = {} /\ e.wraps = 0 /\ e.anchor = {}
  /\ e.lastAnchor = {} /\ e.lastCount = 0 /\ e.ema = {}

LEMMA SetAll ==
  ASSUME NEW b \in Sessions, NEW p \in SUBSET AllFlags
  PROVE  SetTo(b, p) \in Sessions /\ IsSet(SetTo(b, p), p)
<1> DEFINE e == SetTo(b, p)
<1>1. DOMAIN b = {"profile", "lastSeq", "lastTs", "wraps", "anchor", "lastAnchor",
                  "lastCount", "ema"}
  BY DEF Sessions
<1>2. IsSet(e, p)
  BY <1>1 DEF IsSet, SetTo
<1>3. [b EXCEPT !.profile = p, !.lastSeq = {}, !.lastTs = {}] \in Sessions
  BY DEF Sessions
<1>4. \A c \in Sessions : [c EXCEPT !.wraps = 0] \in Sessions
  BY DEF Sessions
<1>5. \A c \in Sessions : [c EXCEPT !.anchor = {}, !.lastAnchor = {}, !.lastCount = 0, !.ema = {}]
                           \in Sessions
  BY DEF Sessions
<1>6. e = [[[b EXCEPT !.profile = p, !.lastSeq = {}, !.lastTs = {}] EXCEPT !.wraps = 0]
           EXCEPT !.anchor = {}, !.lastAnchor = {}, !.lastCount = 0, !.ema = {}]
  BY Zenon DEF SetTo
<1>7. e \in Sessions
  BY <1>3, <1>4, <1>5, <1>6, Zenon
<1> QED BY <1>2, <1>7, Zenon

LEMMA FreshIs == Fresh \in Sessions /\ IsSet(Fresh, {})
BY DEF Fresh, Sessions, IsSet

LEMMA ResetIs ==
  ASSUME NEW b \in Sessions
  PROVE  Reset(b) = Fresh
<1>1. Reset(b) = SetTo(b, {})
  BY Zenon DEF Reset, SetTo
<1>2. Reset(b) \in Sessions /\ IsSet(Reset(b), {})
  BY <1>1, SetAll
<1> QED BY <1>2, FreshIs, SameSession DEF IsSet

LEMMA AllFieldsReset ==
  ASSUME NEW b \in Sessions, NEW f \in Frames, b.profile # {f.flags}
  PROVE  ForProfile(b, f) = [Fresh EXCEPT !.profile = {f.flags}]
<1> DEFINE e == [Fresh EXCEPT !.profile = {f.flags}]
           s == ForProfile(b, f)
<1>1. {f.flags} \in SUBSET AllFlags
  BY FrameTypes
<1>2. s = SetTo(b, {f.flags})
  BY Zenon DEF ForProfile, SetTo
<1>3. s \in Sessions /\ IsSet(s, {f.flags})
  BY <1>1, <1>2, SetAll
<1>4. /\ e \in Sessions /\ e.profile = {f.flags} /\ e.lastSeq = {} /\ e.lastTs = {}
      /\ e.wraps = 0 /\ e.anchor = {} /\ e.lastAnchor = {} /\ e.ema = {}
  BY FreshTypes
<1>5. e.lastCount = 0
  BY FreshIs DEF Sessions, IsSet
<1> HIDE DEF e, s
<1>6. s = e
  BY <1>3, <1>4, <1>5, SameSession DEF IsSet
<1> QED BY <1>6 DEF s, e

LEMMA ProfileKept ==
  ASSUME NEW b \in Sessions, NEW f \in Frames
  PROVE  ForProfile(b, f) \in Sessions /\ ForProfile(b, f).profile = {f.flags}
<1>1. CASE b.profile = {f.flags}
  BY <1>1 DEF ForProfile
<1>2. CASE b.profile # {f.flags}
  <2>1. ForProfile(b, f) = [Fresh EXCEPT !.profile = {f.flags}]
    BY <1>2, AllFieldsReset
  <2> QED BY <2>1, FreshTypes
<1> QED BY <1>1, <1>2

(* The dates that a frame gives: of itself, of its clock offset and rate. *)
LEMMA FullTypes ==
  ASSUME NEW s \in Sessions, NEW f \in Frames
  PROVE  WrapCount(s, f) \in Int /\ FullTs(s, f) \in Int
<1>1. s.wraps \in Int /\ f.ts \in Int /\ TsRange \in Int
  BY SessionTypes, FrameTypes, Constants
<1>2. WrapCount(s, f) \in Int
  BY <1>1 DEF WrapCount
<1> QED BY <1>1, <1>2 DEF FullTs

LEMMA LesserIs ==
  ASSUME NEW a \in Int, NEW b \in Int
  PROVE  /\ Lesser(a, b) \in Int /\ Lesser(a, b) <= a /\ Lesser(a, b) <= b
         /\ (Lesser(a, b) = a \/ Lesser(a, b) = b)
BY DEF Lesser

LEMMA AnchorTypes ==
  ASSUME NEW s \in Sessions, NEW f \in Frames, NEW at \in Nat
  PROVE  AnchorOf(s, f, at) \in Int /\ BaseOf(s, f, at) \in Int
<1>1. FullTs(s, f) \in Int
  BY FullTypes
<1>2. s.anchor # {} => The(s.anchor) \in Int
  BY SessionTypes, TheIn
<1>3. AnchorOf(s, f, at) \in Int
  BY <1>1, <1>2 DEF AnchorOf, Lesser
<1> QED BY <1>1, <1>3 DEF BaseOf

LEMMA EmaTypes ==
  ASSUME NEW s \in Sessions, NEW f \in Frames, NEW base \in Int
  PROVE  Ema(s, f, base) \subseteq Int
<1> DEFINE span == IF "ts" \in f.flags THEN s.lastCount ELSE f.rows
           raw  == (Scale * (base - The(s.lastAnchor))) \div span
<1>1. span \in Nat /\ s.ema \subseteq Int /\ s.lastAnchor \subseteq Int
  BY SessionTypes, FrameTypes
<1>2. CASE s.lastAnchor # {} /\ base > The(s.lastAnchor) /\ span > 0
  <2>1. The(s.lastAnchor) \in Int
    BY <1>1, <1>2, TheIn
  <2>2. Scale * (base - The(s.lastAnchor)) \in Int
    BY <2>1, Constants
  <2> HIDE DEF span
  <2>3. raw \in Int
    BY <1>1, <1>2, <2>2, DivMod
  <2>4. s.ema # {} => The(s.ema) \in Int
    BY <1>1, TheIn
  <2> HIDE DEF raw
  <2>5. Ema(s, f, base) = IF s.ema = {} THEN {raw} ELSE {(raw + 4 * The(s.ema)) \div 5}
    BY <1>2 DEF Ema, raw, span
  <2> QED BY <2>3, <2>4, <2>5
<1>3. CASE ~(s.lastAnchor # {} /\ base > The(s.lastAnchor) /\ span > 0)
  <2>1. Ema(s, f, base) = s.ema
    BY <1>3, Zenon DEF Ema
  <2> QED BY <1>1, <2>1
<1> QED BY <1>2, <1>3

(* What parse_at leaves of the session, t, and what it returns, p, when it *)
(* goes on from s.                                                         *)
Leaves(t, s, f, at, base) ==
  /\ t \in Sessions /\ t.profile = {f.flags}
  /\ t.lastSeq = IF "seq" \in f.flags THEN {f.seq} ELSE s.lastSeq
  /\ t.lastTs = IF "ts" \in f.flags THEN {f.ts} ELSE s.lastTs
  /\ t.wraps = IF "ts" \in f.flags THEN WrapCount(s, f) ELSE s.wraps
  /\ t.anchor = IF "ts" \in f.flags THEN {AnchorOf(s, f, at)} ELSE s.anchor
  /\ t.lastAnchor = IF "period" \in f.flags THEN s.lastAnchor ELSE {base}
  /\ t.lastCount = IF "period" \in f.flags THEN s.lastCount ELSE f.rows
  /\ t.ema = IF "period" \in f.flags THEN s.ema ELSE Ema(s, f, base)

Returns(p, s, f, base) ==
  /\ p.base = base /\ p.dropped = Dropped(s, f)
  /\ p.period = IF "period" \in f.flags THEN {Scale * SamplePeriod} ELSE Ema(s, f, base)
  /\ p.dates = [i \in 0 .. f.rows - 1 |-> DateOf(f, base, p.period, i)]

LEMMA ParsedState ==
  ASSUME NEW b \in Sessions, NEW f \in Frames, NEW at \in Nat
  PROVE  Leaves(ParseAt(b, f, at).state, ForProfile(b, f), f, at,
                BaseOf(ForProfile(b, f), f, at))
<1> DEFINE s == ForProfile(b, f)
           base == BaseOf(s, f, at)
           t == ParseAt(b, f, at).state
<1>1. s \in Sessions /\ s.profile = {f.flags} /\ base \in Int
  <2>1. s \in Sessions /\ s.profile = {f.flags}
    BY ProfileKept
  <2> HIDE DEF s
  <2> QED BY <2>1, AnchorTypes
<1>2. t = [s EXCEPT !.lastSeq = IF "seq" \in f.flags THEN {f.seq} ELSE @,
                    !.lastTs = IF "ts" \in f.flags THEN {f.ts} ELSE @,
                    !.wraps = IF "ts" \in f.flags THEN WrapCount(s, f) ELSE @,
                    !.anchor = IF "ts" \in f.flags THEN {AnchorOf(s, f, at)} ELSE @,
                    !.lastAnchor = IF "period" \in f.flags THEN @ ELSE {base},
                    !.lastCount = IF "period" \in f.flags THEN @ ELSE f.rows,
                    !.ema = IF "period" \in f.flags THEN @ ELSE Ema(s, f, base)]
  BY DEF ParseAt
<1> HIDE DEF t, s, base
<1>3. /\ t.profile = s.profile
      /\ t.lastSeq = IF "seq" \in f.flags THEN {f.seq} ELSE s.lastSeq
      /\ t.lastTs = IF "ts" \in f.flags THEN {f.ts} ELSE s.lastTs
      /\ t.wraps = IF "ts" \in f.flags THEN WrapCount(s, f) ELSE s.wraps
      /\ t.anchor = IF "ts" \in f.flags THEN {AnchorOf(s, f, at)} ELSE s.anchor
      /\ t.lastAnchor = IF "period" \in f.flags THEN s.lastAnchor ELSE {base}
      /\ t.lastCount = IF "period" \in f.flags THEN s.lastCount ELSE f.rows
      /\ t.ema = IF "period" \in f.flags THEN s.ema ELSE Ema(s, f, base)
  BY <1>1, <1>2 DEF Sessions
<1>4. t = [profile |-> t.profile, lastSeq |-> t.lastSeq, lastTs |-> t.lastTs, wraps |-> t.wraps,
           anchor |-> t.anchor, lastAnchor |-> t.lastAnchor, lastCount |-> t.lastCount,
           ema |-> t.ema]
  BY <1>1, <1>2 DEF Sessions
<1>5. /\ s.profile \subseteq AllFlags /\ s.lastSeq \subseteq Int /\ s.lastTs \subseteq Int
      /\ s.wraps \in Int /\ s.anchor \subseteq Int /\ s.lastAnchor \subseteq Int
      /\ s.lastCount \in Nat /\ s.ema \subseteq Int
  BY <1>1, SessionTypes
<1>6. /\ f.seq \in Int /\ f.ts \in Int /\ f.rows \in Nat /\ WrapCount(s, f) \in Int
      /\ AnchorOf(s, f, at) \in Int /\ base \in Int /\ Ema(s, f, base) \subseteq Int
  BY <1>1, FrameTypes, FullTypes, AnchorTypes, EmaTypes
<1>7. /\ t.profile \subseteq AllFlags /\ t.lastSeq \subseteq Int /\ t.lastTs \subseteq Int
      /\ t.wraps \in Int /\ t.anchor \subseteq Int /\ t.lastAnchor \subseteq Int
      /\ t.lastCount \in Nat /\ t.ema \subseteq Int
  BY <1>3, <1>5, <1>6
<1>8. t \in Sessions
  BY <1>4, <1>7 DEF Sessions
<1>9. Leaves(t, s, f, at, base)
  BY <1>1, <1>3, <1>8, Zenon DEF Leaves
<1> QED BY <1>9 DEF t, s, base

LEMMA ParsedOut ==
  ASSUME NEW b, NEW f, NEW at
  PROVE  Returns(ParseAt(b, f, at), ForProfile(b, f), f, BaseOf(ForProfile(b, f), f, at))
BY DEF ParseAt, Returns

(* Between two frames of one boot that are near each other the wraps of    *)
(* the ts field are counted right.                                         *)
LEMMA Unwrapped ==
  ASSUME NEW q \in Frames, NEW f \in Frames, Sent(q), Sent(f), Near(q, f),
         NEW s \in Sessions, s.lastTs = {q.ts}
  PROVE  FullTs(s, f) = s.wraps * TsRange + q.ts + (f.from - q.from)
<1> DEFINE R  == TsRange
           x  == q.from - q.boot
           y  == f.from - f.boot
           eq == x \div R
           ef == y \div R
           H  == R \div 2
           D  == f.from - q.from
<1>1. R \in Nat \ {0} /\ H \in Int /\ 2 * H = R
  BY Constants
<1>2. x \in Int /\ y \in Int /\ D \in Int /\ f.boot = q.boot /\ y - x = D
  BY FrameTypes DEF Near
<1>3. eq \in Int /\ q.ts \in 0 .. R - 1 /\ x = R * eq + q.ts
  <2>1. q.ts = x % R
    BY DEF Sent
  <2> HIDE DEF x
  <2> QED BY <1>1, <1>2, <2>1, DivMod
<1>4. ef \in Int /\ f.ts \in 0 .. R - 1 /\ y = R * ef + f.ts
  <2>1. f.ts = y % R
    BY DEF Sent
  <2> HIDE DEF y
  <2> QED BY <1>1, <1>2, <2>1, DivMod
<1>5. 2 * D < R /\ -(2 * D) < R /\ (D < 0 => ef = eq)
  <2>1. 2 * (f.from - q.from) < R /\ 2 * (q.from - f.from) < R
    BY DEF Near
  <2>2. f.from < q.from => ef = eq
    BY DEF Near, Epoch
  <2> QED BY <2>1, <2>2, FrameTypes
<1>6. WrapCount(s, f) = IF f.ts < q.ts /\ q.ts - f.ts > H THEN s.wraps + 1 ELSE s.wraps
  BY TheIs DEF WrapCount
<1>7. s.wraps \in Int /\ s.wraps * R \in Int /\ (s.wraps + 1) * R = s.wraps * R + R
  BY <1>1, SessionTypes
<1>8. FullTs(s, f) = WrapCount(s, f) * R + f.ts
  BY DEF FullTs
<1>9. q.ts \in Int /\ f.ts \in Int
  BY FrameTypes
<1> HIDE DEF R, x, y, eq, ef, H, D
<1> DEFINE k == ef - eq
<1>10. k \in Int /\ R * k = D - f.ts + q.ts
  <2>1. R * (ef - eq) = R * ef - R * eq
    BY <1>1, <1>3, <1>4
  <2>2. R * ef \in Int /\ R * eq \in Int
    BY <1>1, <1>3, <1>4
  <2> QED BY <1>2, <1>3, <1>4, <2>1, <2>2
<1>11. k = 0 \/ (k = 1 /\ D >= 0)
  <2> HIDE DEF k
  <2>1. CASE D < 0
    BY <1>3, <1>4, <1>5, <2>1 DEF k
  <2>2. CASE D >= 0
    <3>1. ~(k >= 2)
      <4>1. k >= 2 => R * k >= 2 * R
        BY <1>1, <1>10
      <4> QED BY <1>1, <1>2, <1>3, <1>4, <1>5, <1>10, <4>1
    <3>2. ~(k <= -1)
      <4>1. k <= -1 => R * k <= -R
        BY <1>1, <1>10
      <4> QED BY <1>1, <1>2, <1>3, <1>4, <1>10, <2>2, <4>1
    <3> QED BY <1>10, <2>2, <3>1, <3>2
  <2> QED BY <1>2, <2>1, <2>2
<1> HIDE DEF k
<1>12. CASE k = 0
  <2>1. f.ts - q.ts = D
    BY <1>1, <1>2, <1>3, <1>4, <1>10, <1>12
  <2>2. ~(f.ts < q.ts /\ q.ts - f.ts > H)
    BY <1>1, <1>2, <1>5, <1>9, <2>1
  <2>3. WrapCount(s, f) = s.wraps
    BY <1>6, <2>2
  <2>4. s.wraps * R + f.ts = s.wraps * R + q.ts + D
    BY <1>2, <1>7, <1>9, <2>1
  <2> QED BY <1>8, <2>3, <2>4 DEF D, R
<1>13. CASE k = 1 /\ D >= 0
  <2>1. f.ts - q.ts = D - R
    BY <1>1, <1>2, <1>3, <1>4, <1>10, <1>13
  <2>2. f.ts < q.ts /\ q.ts - f.ts > H
    BY <1>1, <1>2, <1>5, <1>9, <2>1
  <2>3. WrapCount(s, f) = s.wraps + 1
    BY <1>6, <2>2
  <2>4. (s.wraps + 1) * R + f.ts = s.wraps * R + q.ts + D
    <3> DEFINE W == s.wraps * R
               V == (s.wraps + 1) * R
    <3>1. W \in Int /\ V = W + R
      BY <1>7
    <3> HIDE DEF W, V
    <3>2. V + f.ts = W + q.ts + D
      BY <1>1, <1>2, <1>9, <2>1, <3>1
    <3> QED BY <3>2 DEF W, V
  <2> QED BY <1>8, <2>3, <2>4 DEF D, R
<1> QED BY <1>11, <1>12, <1>13
-----------------------------------------------------------------------------
(* The session and the frame accepted last, p: what the next frame is      *)
(* compared with is p's; the clock offset is off by the least delay, l;    *)
(* and while the frames are steady the inferred rate is the true one.      *)
Linked(s, p, l, regular, steady) ==
  /\ s.profile = {p.flags}
  /\ "seq" \in p.flags => s.lastSeq = {p.seq}
  /\ "ts" \in p.flags =>
       /\ s.lastTs = {p.ts} /\ s.anchor # {}
       /\ regular => The(s.anchor) + (s.wraps * TsRange + p.ts) = l + p.from
  /\ regular /\ steady /\ "period" \notin p.flags =>
       /\ p.rows > 0 /\ s.lastCount = p.rows
       /\ s.lastAnchor = {IF "ts" \in p.flags THEN p.from + l
                          ELSE p.from + l + (p.rows - 1) * SamplePeriod}
       /\ s.ema \subseteq {Scale * SamplePeriod}

LEMMA Delays ==
  ASSUME NEW f \in Frames, NEW at \in Nat, ArrivesBy(f, at)
  PROVE  /\ Delay(f, at) \in Nat
         /\ "ts" \in f.flags => Delay(f, at) = at - f.from
         /\ "ts" \notin f.flags => at = f.from + Delay(f, at) + (f.rows - 1) * SamplePeriod
<1>1. f.from \in Nat /\ f.rows \in Nat /\ SamplePeriod \in Nat
  BY FrameTypes, Constants
<1> DEFINE g == (f.rows - 1) * SamplePeriod
<1>2. g \in Int /\ (f.rows = 0 => g = -SamplePeriod)
  BY <1>1
<1>3. f.from <= at /\ (f.rows > 0 => f.from + g <= at)
  BY DEF ArrivesBy
<1>4. Delay(f, at) = at - IF "ts" \in f.flags THEN f.from ELSE f.from + g
  BY DEF Delay
<1> HIDE DEF g
<1>5. "ts" \in f.flags => Delay(f, at) = at - f.from
  BY <1>4
<1>6. "ts" \notin f.flags => Delay(f, at) = at - (f.from + g)
  BY <1>4
<1>7. f.from + g <= at
  BY <1>1, <1>2, <1>3
<1> QED BY <1>1, <1>2, <1>3, <1>5, <1>6, <1>7 DEF g

(* A first frame's offset, and the offset of a frame after another. *)
LEMMA FirstClock ==
  ASSUME NEW s \in Sessions, NEW f \in Frames, NEW at \in Nat,
         s.lastTs = {}, s.wraps = 0, s.anchor = {}
  PROVE  AnchorOf(s, f, at) + FullTs(s, f) = (at - f.from) + f.from
<1>1. f.from \in Nat /\ f.ts \in Int /\ TsRange \in Int
  BY FrameTypes, Constants
<1>2. WrapCount(s, f) = 0
  BY DEF WrapCount
<1>3. FullTs(s, f) = f.ts
  BY <1>1, <1>2 DEF FullTs
<1>4. AnchorOf(s, f, at) = at - f.ts
  BY <1>3 DEF AnchorOf
<1> QED BY <1>1, <1>3, <1>4

LEMMA NextClock ==
  ASSUME NEW s \in Sessions, NEW q \in Frames, NEW f \in Frames, NEW at \in Nat, NEW l \in Nat,
         Sent(q), Sent(f), Near(q, f), s.lastTs = {q.ts}, s.anchor # {},
         The(s.anchor) + (s.wraps * TsRange + q.ts) = l + q.from
  PROVE  AnchorOf(s, f, at) + FullTs(s, f) = Lesser(l, at - f.from) + f.from
<1> DEFINE a == The(s.anchor)
           F == FullTs(s, f)
           w == s.wraps * TsRange
<1>1. a \in Int /\ F \in Int /\ w \in Int /\ q.ts \in Int /\ q.from \in Nat /\ f.from \in Nat
  BY TheIn, SessionTypes, FullTypes, FrameTypes, Constants
<1>2. F = w + q.ts + (f.from - q.from)
  BY Unwrapped
<1>3. AnchorOf(s, f, at) = Lesser(a, at - F)
  BY DEF AnchorOf
<1> HIDE DEF a, F, w
<1>4. a + F = l + f.from
  BY <1>1, <1>2 DEF a, w
<1> QED BY <1>1, <1>3, <1>4 DEF Lesser, F

LEMMA BaseIs ==
  ASSUME NEW s \in Sessions, NEW f \in Frames, NEW at \in Nat, NEW l \in Nat,
         "ts" \in f.flags, AnchorOf(s, f, at) + FullTs(s, f) = l + f.from
  PROVE  BaseOf(s, f, at) = f.from + l
<1>1. f.from \in Nat /\ AnchorOf(s, f, at) \in Int /\ FullTs(s, f) \in Int
  BY FrameTypes, AnchorTypes, FullTypes
<1> QED BY <1>1 DEF BaseOf

(* A steady gap gives the true rate. *)
SteadyGap(s, f, a, n, base) ==
  /\ a \in Int /\ n \in Nat \ {0} /\ base = a + n * SamplePeriod /\ s.lastAnchor = {a}
  /\ n = IF "ts" \in f.flags THEN s.lastCount ELSE f.rows
  /\ s.ema \subseteq {Scale * SamplePeriod}

LEMMA SteadyRate ==
  ASSUME NEW s, NEW f, NEW a, NEW n, NEW base, SteadyGap(s, f, a, n, base)
  PROVE  Ema(s, f, base) = {Scale * SamplePeriod}
<1>0. /\ a \in Int /\ n \in Nat \ {0} /\ base = a + n * SamplePeriod /\ s.lastAnchor = {a}
      /\ n = (IF "ts" \in f.flags THEN s.lastCount ELSE f.rows)
      /\ s.ema \subseteq {Scale * SamplePeriod}
  BY Zenon DEF SteadyGap
<1> DEFINE P   == Scale * SamplePeriod
           raw == (Scale * (base - The(s.lastAnchor))) \div n
<1>1. The(s.lastAnchor) = a
  BY <1>0, TheIs
<1>2. P \in Int /\ n * SamplePeriod > 0
  BY <1>0, Constants
<1>3. raw = P
  <2>1. Scale * (base - The(s.lastAnchor)) = n * (Scale * SamplePeriod)
    <3>1. base - The(s.lastAnchor) = n * SamplePeriod
      BY <1>0, <1>1, <1>2
    <3> QED BY <1>0, <3>1, Constants
  <2> QED BY <1>0, <1>2, <2>1, MultipleMod
<1>4. base > The(s.lastAnchor)
  BY <1>0, <1>1, <1>2
<1>5. Ema(s, f, base) = IF s.ema = {} THEN {raw} ELSE {(raw + 4 * The(s.ema)) \div 5}
  BY <1>0, <1>4 DEF Ema
<1> HIDE DEF raw, P
<1>6. s.ema = {} \/ s.ema = {P}
  BY <1>0 DEF P
<1>7. CASE s.ema = {}
  BY <1>3, <1>5, <1>7 DEF P
<1>8. CASE s.ema = {P}
  <2>1. The(s.ema) = P /\ s.ema # {}
    BY <1>8, TheIs
  <2>2. (P + 4 * P) \div 5 = P
    BY <1>2, Smoothed
  <2> QED BY <1>3, <1>5, <2>1, <2>2 DEF P
<1> QED BY <1>6, <1>7, <1>8

(* With the true rate every sample is dated at its time. *)
LEMMA DatesFollow ==
  ASSUME NEW f \in Frames, NEW at \in Nat, ArrivesBy(f, at), NEW base \in Int, NEW l \in Nat,
         base = IF "ts" \in f.flags THEN f.from + l ELSE at,
         NEW i \in 0 .. f.rows - 1
  PROVE  DateOf(f, base, {Scale * SamplePeriod}, i)
           = f.from + i * SamplePeriod + IF "ts" \in f.flags THEN l ELSE Delay(f, at)
<1> DEFINE P == Scale * SamplePeriod
           k == IF "ts" \in f.flags THEN i ELSE i - ((IF f.rows = 0 THEN 1 ELSE f.rows) - 1)
           t == Scale * base + k * The({P})
           x == base + k * SamplePeriod
<1>1. f.from \in Nat /\ f.rows \in Nat /\ f.rows > 0 /\ i \in Nat /\ i < f.rows
  BY FrameTypes
<1>2. k \in Int /\ (k = IF "ts" \in f.flags THEN i ELSE i - (f.rows - 1))
  BY <1>1
<1>3. x \in Int
  BY <1>2, Constants
<1>4. t = Scale * x
  <2>1. The({P}) = P
    BY TheIs
  <2> HIDE DEF k
  <2> QED BY <1>2, <2>1, Constants
<1>5. x = f.from + i * SamplePeriod + IF "ts" \in f.flags THEN l ELSE Delay(f, at)
  <2>1. CASE "ts" \in f.flags
    BY <1>1, <1>2, <2>1, Constants
  <2>2. CASE "ts" \notin f.flags
    <3>1. at = f.from + Delay(f, at) + (f.rows - 1) * SamplePeriod /\ Delay(f, at) \in Nat
      BY <2>2, Delays
    <3>2. k * SamplePeriod = i * SamplePeriod - (f.rows - 1) * SamplePeriod
      BY <1>1, <1>2, <2>2, Constants
    <3>3. i * SamplePeriod \in Int /\ (f.rows - 1) * SamplePeriod \in Int
      BY <1>1, Constants
    <3> HIDE DEF k
    <3> QED BY <1>1, <2>2, <3>1, <3>2, <3>3
  <2> QED BY <2>1, <2>2
<1>6. x >= 0
  <2>1. i * SamplePeriod \in Nat /\ Delay(f, at) \in Nat
    BY <1>1, Constants, Delays
  <2> HIDE DEF x
  <2> QED BY <1>1, <1>5, <2>1
<1>7. DateOf(f, base, {P}, i) = IF t <= 0 THEN 0 ELSE (2 * t + Scale) \div (2 * Scale)
  BY DEF DateOf
<1> HIDE DEF k, t, x
<1>8. CASE t <= 0
  <2>1. x = 0
    <3>1. x >= 1 => Scale * x >= 1
      BY <1>3, Constants
    <3> QED BY <1>3, <1>4, <1>6, <1>8, <3>1
  <2> QED BY <1>5, <1>7, <1>8, <2>1
<1>9. CASE ~(t <= 0)
  <2>1. (2 * (Scale * x) + Scale) \div (2 * Scale) = x
    BY <1>3, Constants, Rounded
  <2> QED BY <1>4, <1>5, <1>7, <1>9, <2>1
<1> QED BY <1>8, <1>9
-----------------------------------------------------------------------------
(* A frame that opens a session. *)
Opened(p, f, at, l, steady) ==
  /\ p.state \in Sessions /\ l \in Nat /\ Linked(p.state, f, l, TRUE, steady)
  /\ p.dropped = {} /\ p.base = IF "ts" \in f.flags THEN f.from + l ELSE at

LEMMA OpensLinked ==
  ASSUME NEW b \in Sessions, NEW f \in Frames, NEW at \in Nat, ArrivesBy(f, at),
         b.profile # {f.flags}, NEW steady \in BOOLEAN, steady => f.rows > 0
  PROVE  Opened(ParseAt(b, f, at), f, at, Delay(f, at), steady)
<1> DEFINE s == ForProfile(b, f)
           base == BaseOf(s, f, at)
           p == ParseAt(b, f, at)
           t == p.state
           l == Delay(f, at)
<1>1. /\ s \in Sessions /\ s.lastSeq = {} /\ s.lastTs = {} /\ s.wraps = 0 /\ s.anchor = {}
      /\ s.lastAnchor = {} /\ s.ema = {}
  <2>1. s = [Fresh EXCEPT !.profile = {f.flags}]
    BY AllFieldsReset
  <2> HIDE DEF s
  <2> QED BY <2>1, FreshTypes
<1>2. /\ f.from \in Nat /\ f.rows \in Nat /\ SamplePeriod \in Nat
      /\ l \in Nat /\ ("ts" \in f.flags => l = at - f.from)
      /\ ("ts" \notin f.flags => at = f.from + l + (f.rows - 1) * SamplePeriod)
  BY FrameTypes, Constants, Delays
<1>3. Leaves(t, s, f, at, base)
  BY ParsedState, Zenon
<1>4. Returns(p, s, f, base)
  BY ParsedOut, Zenon
<1> HIDE DEF s, base, p, t, l
<1>5. p.dropped = {}
  BY <1>1, <1>4 DEF Returns, Dropped
<1>6. CASE "ts" \in f.flags
  <2>1. AnchorOf(s, f, at) + FullTs(s, f) = l + f.from
    BY <1>1, <1>2, <1>6, FirstClock
  <2>2. base = f.from + l
    BY <1>1, <1>2, <1>6, <2>1, BaseIs DEF base
  <2>3. The(t.anchor) = AnchorOf(s, f, at) /\ t.anchor # {}
    BY <1>3, <1>6, TheIs DEF Leaves
  <2>4. FullTs(s, f) = t.wraps * TsRange + f.ts
    BY <1>3, <1>6 DEF FullTs, Leaves
  <2>5. Ema(s, f, base) = {}
    BY <1>1 DEF Ema
  <2>6. The(t.anchor) + (t.wraps * TsRange + f.ts) = l + f.from
    BY <2>1, <2>3, <2>4
  <2>7. Linked(t, f, l, TRUE, steady)
    <3>1. "period" \notin f.flags => t.ema \subseteq {Scale * SamplePeriod}
      BY <1>3, <2>5 DEF Leaves
    <3>2. "period" \notin f.flags => t.lastCount = f.rows /\ t.lastAnchor = {f.from + l}
      BY <1>3, <2>2 DEF Leaves
    <3>3. t.profile = {f.flags} /\ ("seq" \in f.flags => t.lastSeq = {f.seq}) /\ t.lastTs = {f.ts}
      BY <1>3, <1>6 DEF Leaves
    <3> QED BY <1>6, <2>3, <2>6, <3>1, <3>2, <3>3 DEF Linked
  <2>8. t \in Sessions /\ p.base = base
    BY <1>3, <1>4, Zenon DEF Leaves, Returns
  <2> QED BY <1>2, <1>5, <1>6, <2>2, <2>7, <2>8 DEF p, t, l, Opened
<1>7. CASE "ts" \notin f.flags
  <2>1. base = at
    BY <1>7 DEF base, BaseOf
  <2>2. Ema(s, f, base) = {}
    BY <1>1 DEF Ema
  <2>3. "period" \notin f.flags => t.ema \subseteq {Scale * SamplePeriod}
    BY <1>3, <2>2 DEF Leaves
  <2>4. "period" \notin f.flags => t.lastAnchor = {f.from + l + (f.rows - 1) * SamplePeriod}
    BY <1>2, <1>3, <1>7, <2>1 DEF Leaves
  <2>5. Linked(t, f, l, TRUE, steady)
    <3>1. /\ t.profile = {f.flags} /\ ("seq" \in f.flags => t.lastSeq = {f.seq})
          /\ ("period" \notin f.flags => t.lastCount = f.rows)
      BY <1>3 DEF Leaves
    <3> QED BY <1>7, <2>3, <2>4, <3>1 DEF Linked
  <2>6. t \in Sessions /\ p.base = base
    BY <1>3, <1>4, Zenon DEF Leaves, Returns
  <2> QED BY <1>2, <1>5, <1>7, <2>1, <2>5, <2>6 DEF p, t, l, Opened
<1> QED BY <1>6, <1>7

(* A frame after another of its session. *)
Continued(p, f, at, l, near, still) ==
  /\ p.state \in Sessions /\ l \in Nat /\ Linked(p.state, f, l, near, still)
  /\ near => p.base = IF "ts" \in f.flags THEN f.from + l ELSE at
  /\ near /\ still /\ "period" \notin f.flags => p.period = {Scale * SamplePeriod}

LEMMA NextLinked ==
  ASSUME NEW b \in Sessions, NEW f \in Frames, NEW at \in Nat, ArrivesBy(f, at), Sent(f),
         NEW q \in Frames, Sent(q), b.profile = {f.flags},
         NEW k \in Nat, NEW regular \in BOOLEAN, NEW steady \in BOOLEAN,
         Linked(b, q, k, regular, steady),
         NEW l, l = Lesser(k, Delay(f, at)),
         NEW still \in BOOLEAN,
         still => /\ steady /\ f.rows > 0 /\ f.from = q.from + q.rows * SamplePeriod
                  /\ IF "ts" \in f.flags THEN k = l ELSE k = Delay(f, at),
         NEW near \in BOOLEAN, near => regular /\ Near(q, f)
  PROVE  Continued(ParseAt(b, f, at), f, at, l, near, still)
<1> DEFINE base == BaseOf(b, f, at)
           p == ParseAt(b, f, at)
           t == p.state
<1>1. ForProfile(b, f) = b /\ q.flags = f.flags
  <2>1. {q.flags} = {f.flags}
    BY DEF Linked
  <2> QED BY <2>1 DEF ForProfile
<1>2. /\ f.from \in Nat /\ f.rows \in Nat /\ q.from \in Nat /\ q.rows \in Nat
      /\ SamplePeriod \in Nat /\ Delay(f, at) \in Nat
      /\ ("ts" \in f.flags => Delay(f, at) = at - f.from)
      /\ ("ts" \notin f.flags => at = f.from + Delay(f, at) + (f.rows - 1) * SamplePeriod)
  BY FrameTypes, Constants, Delays
<1>3. l \in Nat /\ l <= k
  BY <1>2 DEF Lesser
<1>4. Leaves(t, b, f, at, base)
  BY <1>1, ParsedState, Zenon
<1>5. Returns(p, b, f, base)
  <2>1. Returns(ParseAt(b, f, at), ForProfile(b, f), f, BaseOf(ForProfile(b, f), f, at))
    BY ParsedOut
  <2> QED BY <1>1, <2>1
<1> HIDE DEF base, p, t
(* The clock. *)
<1>6. ASSUME near, "ts" \in f.flags
      PROVE  AnchorOf(b, f, at) + FullTs(b, f) = l + f.from /\ base = f.from + l
  <2>1. /\ b.lastTs = {q.ts} /\ b.anchor # {}
        /\ The(b.anchor) + (b.wraps * TsRange + q.ts) = k + q.from
    BY <1>1, <1>6 DEF Linked
  <2>2. AnchorOf(b, f, at) + FullTs(b, f) = Lesser(k, at - f.from) + f.from
    BY <1>6, <2>1, NextClock
  <2>3. AnchorOf(b, f, at) + FullTs(b, f) = l + f.from
    BY <1>2, <1>6, <2>2
  <2> QED BY <1>3, <1>6, <2>3, BaseIs DEF base
<1>7. "ts" \notin f.flags => base = at
  BY DEF base, BaseOf
(* The rate. *)
<1>8. ASSUME near, still, "period" \notin f.flags
      PROVE  Ema(b, f, base) = {Scale * SamplePeriod}
  <2>1. /\ q.rows > 0 /\ b.lastCount = q.rows
        /\ b.lastAnchor = {IF "ts" \in q.flags THEN q.from + k
                           ELSE q.from + k + (q.rows - 1) * SamplePeriod}
        /\ b.ema \subseteq {Scale * SamplePeriod}
    BY <1>1, <1>8 DEF Linked
  <2>2. f.rows > 0 /\ f.from = q.from + q.rows * SamplePeriod
    BY <1>8
  <2>3. CASE "ts" \in f.flags
    <3> DEFINE a == q.from + k
    <3>1. b.lastAnchor = {a} /\ base = a + q.rows * SamplePeriod
      <4>1. base = f.from + k
        BY <1>6, <1>8, <2>3
      <4>2. q.rows * SamplePeriod \in Int
        BY <1>2
      <4> QED BY <1>1, <1>2, <2>1, <2>2, <2>3, <4>1, <4>2
    <3>2. a \in Int /\ q.rows \in Nat \ {0}
      BY <1>2, <2>1
    <3>3. q.rows = IF "ts" \in f.flags THEN b.lastCount ELSE f.rows
      BY <2>1, <2>3
    <3> HIDE DEF a
    <3>4. SteadyGap(b, f, a, q.rows, base)
      BY <2>1, <3>1, <3>2, <3>3 DEF SteadyGap
    <3> QED BY <3>4, SteadyRate, Zenon
  <2>4. CASE "ts" \notin f.flags
    <3> DEFINE a == q.from + k + (q.rows - 1) * SamplePeriod
    <3>1. b.lastAnchor = {a} /\ a \in Int
      BY <1>1, <1>2, <2>1, <2>4
    <3>2. base = a + f.rows * SamplePeriod
      <4>1. base = f.from + k + (f.rows - 1) * SamplePeriod
        BY <1>2, <1>7, <1>8, <2>4
      <4>2. /\ (q.rows - 1) * SamplePeriod = q.rows * SamplePeriod - SamplePeriod
            /\ (f.rows - 1) * SamplePeriod = f.rows * SamplePeriod - SamplePeriod
            /\ q.rows * SamplePeriod \in Int /\ f.rows * SamplePeriod \in Int
        BY <1>2
      <4> QED BY <1>2, <2>2, <4>1, <4>2
    <3>3. f.rows \in Nat \ {0}
      BY <1>2, <2>2
    <3> HIDE DEF a
    <3>4. SteadyGap(b, f, a, f.rows, base)
      BY <2>1, <2>4, <3>1, <3>2, <3>3 DEF SteadyGap
    <3> QED BY <3>4, SteadyRate, Zenon
  <2> QED BY <2>3, <2>4
<1>9. "ts" \in f.flags =>
        /\ t.lastTs = {f.ts} /\ t.anchor # {}
        /\ near => The(t.anchor) + (t.wraps * TsRange + f.ts) = l + f.from
  <2> SUFFICES ASSUME "ts" \in f.flags
               PROVE  /\ t.lastTs = {f.ts} /\ t.anchor # {}
                      /\ near => The(t.anchor) + (t.wraps * TsRange + f.ts) = l + f.from
    OBVIOUS
  <2>1. The(t.anchor) = AnchorOf(b, f, at) /\ t.anchor # {}
    BY <1>4, TheIs DEF Leaves
  <2>2. FullTs(b, f) = t.wraps * TsRange + f.ts
    BY <1>4 DEF FullTs, Leaves
  <2> QED BY <1>4, <1>6, <2>1, <2>2 DEF Leaves
<1>10. near /\ still /\ "period" \notin f.flags =>
         /\ f.rows > 0 /\ t.lastCount = f.rows
         /\ t.lastAnchor = {IF "ts" \in f.flags THEN f.from + l
                            ELSE f.from + l + (f.rows - 1) * SamplePeriod}
         /\ t.ema \subseteq {Scale * SamplePeriod}
  <2> SUFFICES ASSUME near, still, "period" \notin f.flags
               PROVE  /\ f.rows > 0 /\ t.lastCount = f.rows
                      /\ t.lastAnchor = {IF "ts" \in f.flags THEN f.from + l
                                         ELSE f.from + l + (f.rows - 1) * SamplePeriod}
                      /\ t.ema \subseteq {Scale * SamplePeriod}
    OBVIOUS
  <2>1. f.rows > 0 /\ t.lastCount = f.rows /\ t.lastAnchor = {base}
    BY <1>4 DEF Leaves
  <2>2. t.ema = {Scale * SamplePeriod}
    BY <1>4, <1>8 DEF Leaves
  <2>3. "ts" \notin f.flags => base = f.from + l + (f.rows - 1) * SamplePeriod
    <3> SUFFICES ASSUME "ts" \notin f.flags PROVE base = f.from + l + (f.rows - 1) * SamplePeriod
      OBVIOUS
    <3>1. k = Delay(f, at) /\ l = k
      BY <1>2, <1>3 DEF Lesser
    <3> QED BY <1>2, <1>7, <3>1
  <2> QED BY <1>6, <2>1, <2>2, <2>3
<1>11. Linked(t, f, l, near, still)
  <2>1. t.profile = {f.flags} /\ ("seq" \in f.flags => t.lastSeq = {f.seq})
    BY <1>4 DEF Leaves
  <2> QED BY <1>9, <1>10, <2>1, Zenon DEF Linked
<1>12. near => p.base = IF "ts" \in f.flags THEN f.from + l ELSE at
  BY <1>5, <1>6, <1>7 DEF Returns
<1>13. near /\ still /\ "period" \notin f.flags => p.period = {Scale * SamplePeriod}
  BY <1>5, <1>8 DEF Returns
<1>14. t \in Sessions
  BY <1>4 DEF Leaves
<1> QED BY <1>3, <1>11, <1>12, <1>13, <1>14 DEF p, t, Continued
-----------------------------------------------------------------------------
(* The invariant.  Seen are the frames that are on their way or compared   *)
(* with: of each boot they are numbered as they were sent, and one that    *)
(* follows another begins where the other ends.                            *)
Devices ==
  [flags : AllFlags, boot : Int, nthBoot : Nat, seq : Int, nth : Nat, nextAt : Nat]

SessionTypeOK ==
  /\ host \in {"codec", "transformer"} /\ clk \in Nat
  /\ device = {} \/ \E d \in Devices : device = {d}
  /\ flight \in Seq(Frames) /\ state \in Sessions

InFlight == {flight[i] : i \in DOMAIN flight}
Seen     == InFlight \cup past.frame

Framed ==
  /\ \A f \in Seen : f \in Frames /\ Sent(f)
  /\ \A f \in InFlight : ArrivesBy(f, clk)

SentBefore(f, d) ==
  /\ f.boot <= d.boot
  /\ f.boot = d.boot =>
       f.nth < d.nth /\ (f.nth + 1 = d.nth => d.nextAt = f.from + f.rows * SamplePeriod)

InSeries(f, g) ==
  f.boot = g.boot /\ g.nth = f.nth + 1 /\ g.follows => g.from = f.from + f.rows * SamplePeriod

Series ==
  /\ \A d \in device : d.seq = d.nth % SeqModulus
  /\ \A f \in Seen : device # {} /\ \A d \in device : SentBefore(f, d)
  /\ \A f, g \in Seen : InSeries(f, g)

Remembered ==
  \/ past = NoPast /\ state = Fresh
  \/ \E p \in Frames, l \in Nat :
       /\ past.frame = {p} /\ past.least = {l}
       /\ Linked(state, p, l, past.regular, past.steady)

SessionGoals == SessionStartsFresh /\ DropsCounted /\ DatesAreRight /\ SteadyDates

SessionInv == SessionTypeOK /\ Framed /\ Series /\ Remembered /\ SessionGoals

(* What is left of a sequence without one of its elements. *)
LEMMA LeftOver ==
  ASSUME NEW S, NEW s \in Seq(S), NEW k \in 1 .. Len(s)
  PROVE  LET t == SubSeq(s, 1, k - 1) \o SubSeq(s, k + 1, Len(s))
         IN t \in Seq(S) /\ \A j \in DOMAIN t : \E m \in DOMAIN s : t[j] = s[m]
<1> DEFINE a == SubSeq(s, 1, k - 1)
           b == SubSeq(s, k + 1, Len(s))
<1>0. Len(s) \in Nat /\ k \in Nat /\ 1 <= k /\ k <= Len(s)
  OBVIOUS
<1>1. DOMAIN s = 1 .. Len(s)
  OBVIOUS
<1>2. a \in Seq(S) /\ Len(a) = k - 1 /\ \A p \in 1 .. k - 1 : a[p] = s[p]
  BY <1>0
<1>3. b \in Seq(S) /\ Len(b) = Len(s) - k /\ \A p \in 1 .. Len(s) - k : b[p] = s[k + p]
  BY <1>0
<1> HIDE DEF a, b
<1>4. a \o b \in Seq(S) /\ DOMAIN (a \o b) = 1 .. Len(a) + Len(b)
  <2>1. a \o b \in Seq(S) /\ Len(a \o b) = Len(a) + Len(b)
    BY <1>2, <1>3, ConcatProperties, Zenon
  <2>2. DOMAIN (a \o b) = 1 .. Len(a \o b)
    BY <2>1
  <2> QED BY <2>1, <2>2
<1>5. ASSUME NEW j \in DOMAIN (a \o b) PROVE \E m \in DOMAIN s : (a \o b)[j] = s[m]
  <2>0. j \in 1 .. Len(a) + Len(b)
    BY <1>4
  <2>1. CASE j <= Len(a)
    <3>1. j \in 1 .. Len(a)
      BY <2>0, <2>1
    <3>2. (a \o b)[j] = a[j]
      BY <1>2, <1>3, <3>1
    <3>3. a[j] = s[j] /\ j \in DOMAIN s
      BY <1>0, <1>1, <1>2, <3>1
    <3> QED BY <3>2, <3>3
  <2>2. CASE j > Len(a)
    <3>1. j - Len(a) \in 1 .. Len(b) /\ Len(a) \in Nat /\ Len(b) \in Nat
      BY <1>0, <1>2, <1>3, <2>0, <2>2
    <3>2. (a \o b)[j] = b[j - Len(a)]
      BY <1>2, <1>3, <2>0, <3>1
    <3>3. b[j - Len(a)] = s[k + (j - Len(a))] /\ k + (j - Len(a)) \in DOMAIN s
      BY <1>0, <1>1, <1>3, <3>1
    <3> QED BY <3>2, <3>3
  <2> QED BY <1>0, <1>2, <1>3, <2>0, <2>1, <2>2
<1> QED BY <1>4, <1>5 DEF a, b

LEMMA WithoutFrame ==
  ASSUME SessionTypeOK, NEW i \in DOMAIN flight, flight' = Without(i)
  PROVE  flight' \in Seq(Frames) /\ InFlight' \subseteq InFlight
<1>1. flight \in Seq(Frames) /\ i \in 1 .. Len(flight)
  BY DEF SessionTypeOK
<1>2. /\ Without(i) \in Seq(Frames)
      /\ \A j \in DOMAIN Without(i) : \E m \in DOMAIN flight : Without(i)[j] = flight[m]
  BY <1>1, LeftOver DEF Without
<1> QED BY <1>2 DEF InFlight

(* Frames alike in what is compared. *)
Alike(f, g) ==
  /\ f.boot = g.boot /\ f.seq = g.seq /\ f.nth = g.nth /\ f.rows = g.rows /\ f.ts = g.ts
  /\ f.from = g.from /\ f.follows = g.follows

LEMMA FramesKept ==
  ASSUME SessionTypeOK, Framed, Series, device' = device, clk' \in Nat, clk' >= clk,
         \A f \in Seen' : f \in Frames /\ \E g \in Seen : Alike(f, g),
         \A f \in InFlight' : \E g \in InFlight : Alike(f, g)
  PROVE  Framed' /\ Series'
<1>1. ASSUME NEW f \in Seen' PROVE f \in Frames /\ Sent(f)
  BY DEF Framed, Sent, Alike
<1>2. ASSUME NEW f \in InFlight' PROVE ArrivesBy(f, clk')
  <2>1. PICK g \in InFlight : Alike(f, g)
    OBVIOUS
  <2>2. ArrivesBy(g, clk) /\ g \in Frames /\ clk \in Nat
    BY DEF Framed, SessionTypeOK, Seen
  <2>3. /\ g.from \in Nat /\ g.rows \in Nat /\ (g.rows - 1) * SamplePeriod \in Int
        /\ f.from = g.from /\ f.rows = g.rows
    BY <2>1, <2>2, FrameTypes, Constants DEF Alike
  <2> DEFINE n == (g.rows - 1) * SamplePeriod
  <2>4. g.from <= clk /\ (g.rows > 0 => g.from + n <= clk) /\ n \in Int
    BY <2>2, <2>3 DEF ArrivesBy
  <2> HIDE DEF n
  <2>5. g.from <= clk' /\ (g.rows > 0 => g.from + n <= clk')
    BY <2>2, <2>3, <2>4
  <2> QED BY <2>3, <2>5 DEF ArrivesBy, n
<1>3. ASSUME NEW f \in Seen', NEW d \in device PROVE device # {} /\ SentBefore(f, d)
  <2>1. PICK g \in Seen : Alike(f, g)
    OBVIOUS
  <2>2. SentBefore(g, d)
    BY DEF Series
  <2> QED BY <2>1, <2>2 DEF SentBefore, Alike
<1>4. ASSUME NEW f \in Seen' PROVE device # {}
  BY DEF Series
<1>5. ASSUME NEW f \in Seen', NEW g \in Seen' PROVE InSeries(f, g)
  <2>1. PICK x \in Seen : Alike(f, x)
    OBVIOUS
  <2>2. PICK y \in Seen : Alike(g, y)
    OBVIOUS
  <2>3. InSeries(x, y)
    BY DEF Series
  <2> QED BY <2>1, <2>2, <2>3 DEF InSeries, Alike
<1>6. Framed'
  BY <1>1, <1>2, Zenon DEF Framed
<1>7. Series'
  BY <1>3, <1>4, <1>5, Zenon DEF Series
<1> QED BY <1>6, <1>7

(* Nothing was accepted in this step. *)
LEMMA NothingGot ==
  ASSUME got' = {}
  PROVE  SessionGoals'
BY DEF SessionGoals, SessionStartsFresh, DropsCounted, DatesAreRight, SteadyDates
-----------------------------------------------------------------------------
LEMMA SessionStart == CbrtInit => SessionInv
<1> SUFFICES ASSUME CbrtInit PROVE SessionInv
  OBVIOUS
<1>1. Fresh \in Sessions
  BY DEF Fresh, Sessions
<1>2. flight = <<>> /\ flight \in Seq(Frames) /\ DOMAIN flight = {}
  BY DEF CbrtInit
<1>3. SessionTypeOK
  BY <1>1, <1>2 DEF CbrtInit, SessionTypeOK
<1>4. Seen = {} /\ InFlight = {}
  BY <1>2 DEF CbrtInit, Seen, InFlight, NoPast
<1>5. Framed
  BY <1>4 DEF Framed
<1>6. Series
  BY <1>4 DEF Series, CbrtInit
<1>7. Remembered
  BY DEF Remembered, CbrtInit
<1>8. SessionGoals
  BY DEF CbrtInit, SessionGoals, SessionStartsFresh, DropsCounted, DatesAreRight, SteadyDates
<1> QED BY <1>3, <1>5, <1>6, <1>7, <1>8 DEF SessionInv

(* What is remembered stays with the state and the past. *)
LEMMA RememberedKept ==
  ASSUME Remembered, UNCHANGED <<state, past>>
  PROVE  Remembered'
BY DEF Remembered

LEMMA BootStep ==
  ASSUME SessionInv, NEW flags \in FlagSets[host], Boot(flags)
  PROVE  SessionInv'
<1> USE DEF SessionInv
<1> DEFINE n == IF device = {} THEN 1 ELSE The(device).nthBoot + 1
           e == Device(flags, n)
<1>1. /\ device' = {e} /\ got' = {} /\ UNCHANGED <<host, clk, flight, state, past>>
      /\ \A d \in device : d.boot < clk - UpTime
  BY DEF Boot
<1>2. e \in Devices /\ e.seq = 0 /\ e.nth = 0 /\ e.boot = clk - UpTime
  <2>1. flags \in AllFlags /\ clk \in Nat
    BY DEF SessionTypeOK, AllFlags
  <2>2. n \in Nat
    <3>1. CASE device = {}
      BY <3>1
    <3>2. CASE device # {}
      <4>1. The(device) \in Devices
        BY <3>2, TheIn DEF SessionTypeOK
      <4>2. The(device).nthBoot \in Nat
        BY <4>1 DEF Devices
      <4> QED BY <3>2, <4>2
    <3> QED BY <3>1, <3>2
  <2> HIDE DEF n
  <2> QED BY <2>1, <2>2, Constants DEF Device, Devices
<1> HIDE DEF e
<1>3. SessionTypeOK'
  BY <1>1, <1>2 DEF SessionTypeOK
<1>4. Seen' = Seen /\ InFlight' = InFlight
  BY <1>1 DEF Seen, InFlight
<1>5. Framed'
  <2>1. clk' = clk
    BY <1>1
  <2> QED BY <1>4, <2>1 DEF Framed
<1>6. Series'
  <2>1. e.seq = e.nth % SeqModulus
    <3>1. 0 % SeqModulus = 0
      BY Constants
    <3> QED BY <1>2, <3>1
  <2>2. ASSUME NEW f \in Seen PROVE SentBefore(f, e)
    <3>1. PICK d \in device : SentBefore(f, d)
      BY DEF Series
    <3>2. f.boot \in Int /\ d.boot \in Int /\ clk \in Nat /\ e.boot \in Int
      <4>1. d \in Devices /\ f \in Frames
        BY DEF SessionTypeOK, Framed
      <4> QED BY <1>2, <4>1, FrameTypes, Constants DEF Devices, SessionTypeOK
    <3>3. f.boot <= d.boot /\ d.boot < e.boot
      BY <1>1, <1>2, <3>1 DEF SentBefore
    <3>4. f.boot < e.boot
      BY <3>2, <3>3
    <3>5. f.boot <= e.boot /\ f.boot # e.boot
      BY <3>2, <3>4
    <3> QED BY <3>5 DEF SentBefore
  <2>3. \A f, g \in Seen : InSeries(f, g)
    BY DEF Series
  <2> QED BY <1>1, <1>4, <2>1, <2>2, <2>3 DEF Series
<1>7. Remembered'
  BY <1>1, RememberedKept
<1>8. SessionGoals'
  BY <1>1, NothingGot
<1> QED BY <1>3, <1>5, <1>6, <1>7, <1>8

(* The frame a device sends. *)
Sending(d, from, n) ==
  [flags |-> d.flags, boot |-> d.boot, seq |-> d.seq, nth |-> d.nth, rows |-> n,
   ts |-> (from - d.boot) % TsRange, from |-> from, follows |-> from = d.nextAt,
   repeatable |-> host = "transformer"]

LEMMA EmitStep ==
  ASSUME SessionInv, NEW n \in RowCounts, Emit(n)
  PROVE  SessionInv'
<1> USE DEF SessionInv
<1> DEFINE d == The(device)
           from == clk - (IF n = 0 THEN 0 ELSE n - 1) * SamplePeriod
           e == Sending(d, from, n)
           dd == [d EXCEPT !.seq = (@ + 1) % SeqModulus, !.nth = @ + 1,
                           !.nextAt = from + n * SamplePeriod]
<1>1. /\ device # {} /\ from >= d.nextAt /\ flight' = Append(flight, e) /\ device' = {dd}
      /\ got' = {} /\ UNCHANGED <<host, clk, state, past>>
  BY DEF Emit, Sending
<1>2. n \in Nat /\ clk \in Nat
  BY Constants DEF SessionTypeOK
<1>3. d \in Devices /\ device = {d}
  <2>1. PICK x \in Devices : device = {x}
    BY <1>1 DEF SessionTypeOK
  <2>2. The(device) = x
    BY <2>1, TheIs
  <2> QED BY <2>1, <2>2
<1> HIDE DEF d
<1>4. /\ d.flags \in AllFlags /\ d.boot \in Int /\ d.nthBoot \in Nat /\ d.seq \in Int
      /\ d.nth \in Nat /\ d.nextAt \in Nat
  BY <1>3 DEF Devices
<1>5. n = 0 => from = clk
  BY <1>2, Constants
<1>6. n > 0 => from + (n - 1) * SamplePeriod = clk /\ from <= clk
  <2>1. (n - 1) * SamplePeriod \in Int /\ (n > 0 => (n - 1) * SamplePeriod >= 0)
    BY <1>2, Constants
  <2> QED BY <1>2, <2>1
<1>7. from \in Int
  BY <1>2, Constants
<1>8. from \in Nat /\ from <= clk /\ (n > 0 => from + (n - 1) * SamplePeriod <= clk)
  <2> HIDE DEF from
  <2>1. from >= d.nextAt
    BY <1>1
  <2> QED BY <1>2, <1>4, <1>5, <1>6, <1>7, <2>1
<1> HIDE DEF from
<1>9. /\ e \in Frames /\ e.boot = d.boot /\ e.nth = d.nth /\ e.rows = n /\ e.from = from
      /\ (e.follows => e.from = d.nextAt)
  <2>1. (from - d.boot) % TsRange \in Int
    <3> DEFINE z == from - d.boot
    <3>1. z \in Int
      BY <1>4, <1>8
    <3> HIDE DEF z
    <3>2. z % TsRange \in Int
      BY <3>1, DivMod, Constants
    <3> QED BY <3>2 DEF z
  <2>2. e \in Frames
    BY <1>2, <1>4, <1>8, <2>1 DEF Sending, Frames
  <2> QED BY <2>2 DEF Sending
<1>10. Sent(e)
  BY <1>3 DEF Sent, Sending, Series
<1>11. ArrivesBy(e, clk)
  BY <1>8, <1>9 DEF ArrivesBy
<1>12. /\ dd \in Devices /\ dd.boot = d.boot /\ dd.nth = d.nth + 1
       /\ dd.nextAt = from + n * SamplePeriod /\ dd.seq = (d.seq + 1) % SeqModulus
  <2>1. (d.seq + 1) % SeqModulus \in Int
    <3> DEFINE z == d.seq + 1
    <3>1. z \in Int
      BY <1>4
    <3> HIDE DEF z
    <3>2. z % SeqModulus \in Int
      BY <3>1, DivMod, Constants
    <3> QED BY <3>2 DEF z
  <2>2. from + n * SamplePeriod \in Nat
    BY <1>2, <1>8, Constants
  <2>3. d.nth + 1 \in Nat
    BY <1>4
  <2> QED BY <1>3, <2>1, <2>2, <2>3 DEF Devices
<1> HIDE DEF e, dd
<1>13. flight \in Seq(Frames) /\ flight' \in Seq(Frames)
  BY <1>1, <1>9 DEF SessionTypeOK
<1>14. SessionTypeOK'
  BY <1>1, <1>12, <1>13 DEF SessionTypeOK
<1>15. InFlight' = InFlight \cup {e}
  <2>1. /\ DOMAIN flight = 1 .. Len(flight) /\ DOMAIN flight' = 1 .. Len(flight) + 1
        /\ Len(flight) \in Nat
        /\ flight'[Len(flight) + 1] = e /\ \A i \in 1 .. Len(flight) : flight'[i] = flight[i]
    BY <1>1, <1>9, <1>13
  <2> QED BY <2>1 DEF InFlight
<1>16. Seen' = Seen \cup {e}
  BY <1>1, <1>15 DEF Seen
<1>17. Framed'
  <2>1. clk' = clk
    BY <1>1
  <2> QED BY <1>9, <1>10, <1>11, <1>15, <1>16, <2>1 DEF Framed
<1>18. dd.seq = dd.nth % SeqModulus
  <2>1. d.seq = d.nth % SeqModulus
    BY <1>3 DEF Series
  <2>2. ((d.nth % SeqModulus) + 1) % SeqModulus = (d.nth + 1) % SeqModulus
    BY <1>4, Constants, SuccMod
  <2> QED BY <1>12, <2>1, <2>2
<1>19. ASSUME NEW f \in Seen PROVE SentBefore(f, dd) /\ InSeries(f, e) /\ InSeries(e, f)
  <2>1. f \in Frames /\ SentBefore(f, d)
    BY <1>3 DEF Framed, Series
  <2>2. f.boot \in Int /\ f.nth \in Nat
    BY <2>1, FrameTypes
  <2>3. /\ f.boot <= d.boot
        /\ f.boot = d.boot =>
             f.nth < d.nth /\ (f.nth + 1 = d.nth => d.nextAt = f.from + f.rows * SamplePeriod)
    BY <2>1 DEF SentBefore
  <2>4. SentBefore(f, dd)
    BY <1>4, <1>12, <2>2, <2>3 DEF SentBefore
  <2>5. InSeries(f, e)
    BY <1>4, <1>9, <2>2, <2>3 DEF InSeries
  <2>6. InSeries(e, f)
    BY <1>4, <1>9, <2>2, <2>3 DEF InSeries
  <2> QED BY <2>4, <2>5, <2>6
<1>20. SentBefore(e, dd) /\ InSeries(e, e)
  BY <1>4, <1>9, <1>12 DEF SentBefore, InSeries
<1>21. \A f, g \in Seen : InSeries(f, g)
  BY DEF Series
<1>22. Series'
  <2>1. ASSUME NEW f \in Seen', NEW g \in Seen' PROVE InSeries(f, g)
    BY <1>16, <1>19, <1>20, <1>21
  <2>2. ASSUME NEW f \in Seen' PROVE SentBefore(f, dd)
    BY <1>16, <1>19, <1>20
  <2> QED BY <1>1, <1>18, <2>1, <2>2 DEF Series
<1>23. Remembered'
  BY <1>1, RememberedKept
<1>24. SessionGoals'
  BY <1>1, NothingGot
<1> QED BY <1>14, <1>17, <1>22, <1>23, <1>24

(* A frame lost or refused, a reset and the passing of time. *)
LEMMA QuietStep ==
  ASSUME SessionInv, got' = {}, UNCHANGED <<host, device>>,
         \/ UNCHANGED <<state, past>>
         \/ state' = Fresh /\ past' = NoPast,
         \/ clk' = clk /\ (flight' = flight \/ \E i \in DOMAIN flight : flight' = Without(i))
         \/ clk' = clk + 1 /\ flight' = flight
  PROVE  SessionInv'
<1> USE DEF SessionInv
<1>1. clk \in Nat /\ clk' \in Nat /\ clk' >= clk
  BY DEF SessionTypeOK
<1>2. flight' \in Seq(Frames) /\ InFlight' \subseteq InFlight
  <2>1. CASE flight' = flight
    BY <2>1 DEF InFlight, SessionTypeOK
  <2>2. CASE \E i \in DOMAIN flight : flight' = Without(i)
    BY <2>2, WithoutFrame
  <2> QED BY <2>1, <2>2
<1>3. past' = past \/ past' = NoPast
  OBVIOUS
<1>4. past'.frame \subseteq past.frame
  BY <1>3 DEF NoPast
<1>5. Seen' \subseteq Seen
  BY <1>2, <1>4 DEF Seen
<1>6. \A f \in Seen : f \in Frames
  BY DEF Framed
<1>7. Framed' /\ Series'
  <2>1. \A f : Alike(f, f)
    BY DEF Alike
  <2>2. \A f \in Seen' : f \in Frames /\ \E g \in Seen : Alike(f, g)
    BY <1>5, <1>6, <2>1, Zenon
  <2>3. \A f \in InFlight' : \E g \in InFlight : Alike(f, g)
    BY <1>2, <2>1, Zenon
  <2> QED BY <1>1, <2>2, <2>3, FramesKept
<1>8. SessionTypeOK'
  <2>1. Fresh \in Sessions
    BY DEF Fresh, Sessions
  <2>2. state' \in Sessions
    BY <2>1 DEF SessionTypeOK
  <2> QED BY <1>1, <1>2, <2>2 DEF SessionTypeOK
<1>9. Remembered'
  <2>1. CASE UNCHANGED <<state, past>>
    BY <2>1, RememberedKept
  <2>2. CASE state' = Fresh /\ past' = NoPast
    BY <2>2 DEF Remembered
  <2> QED BY <2>1, <2>2
<1>10. SessionGoals'
  BY NothingGot
<1> QED BY <1>7, <1>8, <1>9, <1>10
-----------------------------------------------------------------------------
(* The goals of one accepted frame, got when the session was b and the     *)
(* frame accepted before it was in prev; p is what was made of it.         *)
Accepted(b, prev, f, at, p) ==
  [before |-> b, prev |-> prev, frame |-> f, at |-> at, out |-> p]

(* Nothing is left of a session with another profile. *)
LEMMA AsFresh ==
  ASSUME NEW b \in Sessions, NEW f \in Frames, NEW at, b.profile # {f.flags}
  PROVE  ParseAt(b, f, at) = ParseAt(Fresh, f, at)
<1>1. Fresh \in Sessions /\ Fresh.profile # {f.flags}
  BY DEF Fresh, Sessions
<1>2. ForProfile(b, f) = ForProfile(Fresh, f)
  BY <1>1, AllFieldsReset
<1> QED BY <1>2 DEF ParseAt

(* The gap between two sequence numbers counts the frames in between. *)
LEMMA DropsRight ==
  ASSUME NEW s, NEW q \in Frames, NEW f \in Frames, Sent(q), Sent(f),
         "seq" \in q.flags => s.lastSeq = {q.seq}, q.flags = f.flags,
         NEW n \in Dropped(s, f)
  PROVE  (f.nth - q.nth - 1 - n) % SeqModulus = 0
<1>1. n = ((f.seq - q.seq) % SeqModulus) - 1
  <2>1. "seq" \in f.flags /\ s.lastSeq # {} /\ n = ((f.seq - The(s.lastSeq)) % SeqModulus) - 1
    BY DEF Dropped
  <2>2. The(s.lastSeq) = q.seq
    BY <2>1, TheIs
  <2> QED BY <2>1, <2>2
<1> DEFINE a == f.nth
           b == q.nth
           M == SeqModulus
<1>2. a \in Int /\ b \in Int /\ M \in Nat \ {0}
  BY FrameTypes, Constants
<1>3. f.seq = a % M /\ q.seq = b % M
  BY DEF Sent
<1> HIDE DEF a, b, M
<1> DEFINE c == ((a % M) - (b % M)) % M
<1>4. (a - b - c) % M = 0
  BY <1>2, GapMod
<1>5. c \in Int
  <2>1. a % M \in Int /\ b % M \in Int
    BY <1>2, DivMod
  <2> DEFINE z == (a % M) - (b % M)
  <2>2. z \in Int
    BY <2>1
  <2> HIDE DEF z
  <2>3. z % M \in Int
    BY <1>2, <2>2, DivMod
  <2> QED BY <2>3 DEF z
<1>6. n = c - 1
  BY <1>1, <1>3 DEF M
<1> HIDE DEF c
<1>7. a - b - 1 - n = a - b - c
  BY <1>2, <1>5, <1>6
<1> QED BY <1>4, <1>7 DEF a, b, M

(* What the past becomes. *)
IsPast(h, f, l, regular, steady) ==
  /\ h.frame = {f} /\ h.least = {l}
  /\ h.regular <=> regular
  /\ h.steady <=> steady

LEMMA RememberFirst ==
  ASSUME NEW f, NEW at, state.profile # {f.flags}
  PROVE  IsPast(Remember(f, at), f, Delay(f, at), TRUE, f.rows > 0)
<1> DEFINE h == Remember(f, at)
<1>1. /\ NoPast.frame = {} /\ NoPast.least = {} /\ NoPast.regular /\ NoPast.steady
  BY DEF NoPast
<1>2. h.frame = {f} /\ h.least = {Delay(f, at)}
  BY <1>1 DEF Remember
<1>3. h.regular
  BY <1>1 DEF Remember
<1>4. h.steady <=> f.rows > 0
  BY <1>1 DEF Remember
<1> QED BY <1>2, <1>3, <1>4 DEF IsPast

Follows(q, f, k, l, at) ==
  /\ f.follows /\ f.boot = q.boot /\ f.nth = q.nth + 1
  /\ IF "ts" \in f.flags THEN k = l ELSE k = Delay(f, at)

LEMMA RememberNext ==
  ASSUME NEW f, NEW at, NEW q, NEW k, state.profile = {f.flags},
         past.frame = {q}, past.least = {k}
  PROVE  LET l == Lesser(k, Delay(f, at))
         IN IsPast(Remember(f, at), f, l, past.regular /\ Near(q, f),
                past.steady /\ f.rows > 0 /\ Follows(q, f, k, l, at))
<1> DEFINE h == Remember(f, at)
           l == Lesser(k, Delay(f, at))
<1>1. The(past.frame) = q /\ The(past.least) = k /\ past.least # {} /\ past.frame # {}
  BY TheIs
<1>2. h.frame = {f} /\ h.least = {l}
  BY <1>1 DEF Remember
<1>3. h.regular <=> past.regular /\ Near(q, f)
  BY <1>1 DEF Remember
<1>4. h.steady <=> past.steady /\ f.rows > 0 /\ Follows(q, f, k, l, at)
  BY <1>1 DEF Remember, Follows
<1> HIDE DEF h, l
<1>5. IsPast(h, f, l, past.regular /\ Near(q, f),
                past.steady /\ f.rows > 0 /\ Follows(q, f, k, l, at))
  BY <1>2, <1>3, <1>4, Zenon DEF IsPast
<1> QED BY <1>5 DEF h, l

Made(b, prev, f, at, p, l, near, still) ==
  /\ ArrivesBy(f, at) /\ p = ParseAt(b, f, at)
  /\ \E s, base : Returns(p, s, f, base)
  /\ near => p.base = IF "ts" \in f.flags THEN f.from + l ELSE at
  /\ near /\ still /\ b.profile = {f.flags} /\ "period" \notin f.flags
       => p.period = {Scale * SamplePeriod}
  /\ \A q \in prev : \A n \in p.dropped : (f.nth - q.nth - 1 - n) % SeqModulus = 0

LEMMA GoalsOfFrame ==
  ASSUME NEW b \in Sessions, NEW prev, NEW f \in Frames, NEW at \in Nat, NEW p,
         NEW l \in Nat, NEW near \in BOOLEAN, NEW still \in BOOLEAN,
         Made(b, prev, f, at, p, l, near, still),
         got' = {Accepted(b, prev, f, at, p)},
         IsPast(past', f, l, near, still)
  PROVE  SessionGoals'
<1> DEFINE g == Accepted(b, prev, f, at, p)
<1>1. /\ got' = {g} /\ g.before = b /\ g.prev = prev /\ g.frame = f /\ g.at = at /\ g.out = p
  BY DEF Accepted
<1>2. /\ past'.frame = {f} /\ past'.least = {l}
      /\ past'.regular <=> near
      /\ past'.steady <=> still
  BY DEF IsPast
<1> HIDE DEF g
<1>0. PICK s, base : Returns(p, s, f, base)
  BY DEF Made
<1>3. SessionStartsFresh'
  <2>1. p = ParseAt(b, f, at)
    BY DEF Made
  <2> QED BY <1>1, <2>1, AsFresh DEF SessionStartsFresh
<1>4. DropsCounted'
  BY <1>1 DEF DropsCounted, Made
<1>5. The(past'.least) = l
  BY <1>2, TheIs
<1>6. DatesAreRight'
  <2> SUFFICES ASSUME near, "ts" \in f.flags PROVE p.base = f.from + l
    BY <1>1, <1>2, <1>5 DEF DatesAreRight
  <2> QED BY DEF Made
<1>7. SteadyDates'
  <2> SUFFICES ASSUME \/ "period" \in f.flags
                      \/ still /\ b.lastAnchor # {} /\ b.profile = {f.flags},
                      near, NEW i \in DOMAIN p.dates
               PROVE  p.dates[i] = f.from + i * SamplePeriod
                                     + IF "ts" \in f.flags THEN l ELSE Delay(f, at)
    BY <1>1, <1>2 DEF SteadyDates
  <2>1. p.period = {Scale * SamplePeriod}
    BY <1>0 DEF Returns, Made
  <2>2. i \in 0 .. f.rows - 1 /\ p.dates[i] = DateOf(f, base, {Scale * SamplePeriod}, i)
    BY <1>0, <2>1 DEF Returns
  <2>3. base = IF "ts" \in f.flags THEN f.from + l ELSE at
    BY <1>0 DEF Returns, Made
  <2>4. base \in Int
    BY <2>3, FrameTypes
  <2>5. ArrivesBy(f, at)
    BY DEF Made
  <2>6. DateOf(f, base, {Scale * SamplePeriod}, i)
          = f.from + i * SamplePeriod + IF "ts" \in f.flags THEN l ELSE Delay(f, at)
    BY <2>2, <2>3, <2>4, <2>5, DatesFollow, Zenon
  <2> QED BY <2>2, <2>6
<1> QED BY <1>3, <1>4, <1>6, <1>7 DEF SessionGoals

(* What an accepted frame makes of the session. *)
LEMMA AcceptFrame ==
  ASSUME SessionInv, NEW f \in Frames, f \in Seen, Sent(f), ArrivesBy(f, clk),
         state' = ParseAt(state, f, clk).state, past' = Remember(f, clk),
         got' = {Accepted(state, past.frame, f, clk, ParseAt(state, f, clk))}
  PROVE  state' \in Sessions /\ Remembered' /\ SessionGoals'
<1> USE DEF SessionInv
<1>0. PICK at \in Nat, b \in Sessions : at = clk /\ b = state
  BY DEF SessionTypeOK
<1>1. PICK p, s, base, h :
        /\ at = clk /\ b = state /\ h = past /\ p = ParseAt(b, f, at)
        /\ s = ForProfile(b, f) /\ base = BaseOf(s, f, at)
  BY <1>0
<1>2. /\ ArrivesBy(f, at) /\ state' = p.state /\ past' = Remember(f, at)
      /\ got' = {Accepted(b, h.frame, f, at, p)}
  BY <1>1
<1>3. Returns(p, s, f, base)
  <2>1. Returns(ParseAt(b, f, at), ForProfile(b, f), f, BaseOf(ForProfile(b, f), f, at))
    BY ParsedOut
  <2> QED BY <1>1, <2>1
<1>4. CASE b.profile # {f.flags}
  <2>1. PICK still \in BOOLEAN : still <=> f.rows > 0
    OBVIOUS
  <2>2. Opened(ParseAt(b, f, at), f, at, Delay(f, at), still)
    BY <1>2, <1>4, <2>1, OpensLinked
  <2>3. PICK l : l = Delay(f, at)
    OBVIOUS
  <2>4. /\ p.state \in Sessions /\ l \in Nat /\ Linked(p.state, f, l, TRUE, still)
        /\ p.dropped = {} /\ p.base = IF "ts" \in f.flags THEN f.from + l ELSE at
    BY <1>1, <2>2, <2>3 DEF Opened
  <2>5. IsPast(Remember(f, at), f, Delay(f, at), TRUE, f.rows > 0)
    BY <1>1, <1>4, RememberFirst
  <2>6. IsPast(past', f, l, TRUE, still)
    BY <1>2, <2>1, <2>3, <2>5 DEF IsPast
  <2>7. Remembered'
    BY <1>2, <2>4, <2>6 DEF Remembered, IsPast, Linked
  <2>8. SessionGoals'
    <3>1. PICK near \in BOOLEAN : near
      OBVIOUS
    <3>2. Made(b, h.frame, f, at, p, l, near, still)
      BY <1>1, <1>2, <1>3, <1>4, <2>4 DEF Made
    <3>3. IsPast(past', f, l, near, still)
      BY <2>6, <3>1 DEF IsPast
    <3> QED BY <1>2, <2>4, <3>2, <3>3, GoalsOfFrame
  <2> QED BY <1>2, <2>4, <2>7, <2>8
<1>5. CASE b.profile = {f.flags}
  <2>1. PICK q \in Frames, k \in Nat :
          h.frame = {q} /\ h.least = {k} /\ Linked(b, q, k, h.regular, h.steady)
    <3>1. ~(state = Fresh)
      BY <1>1, <1>5 DEF Fresh
    <3> QED BY <1>1, <3>1 DEF Remembered
  <2>2. PICK regular \in BOOLEAN, steady \in BOOLEAN :
          (regular <=> h.regular) /\ (steady <=> h.steady)
    OBVIOUS
  <2>3. Linked(b, q, k, regular, steady)
    BY <2>1, <2>2 DEF Linked
  <2>4. q \in Seen /\ Sent(q)
    BY <1>1, <2>1 DEF Seen, Framed
  <2>5. PICK l : l = Lesser(k, Delay(f, at))
    OBVIOUS
  <2>6. PICK near \in BOOLEAN, still \in BOOLEAN :
          /\ near <=> regular /\ Near(q, f)
          /\ still <=> steady /\ f.rows > 0 /\ Follows(q, f, k, l, at)
    OBVIOUS
  <2>7. still => /\ steady /\ f.rows > 0 /\ f.from = q.from + q.rows * SamplePeriod
                 /\ IF "ts" \in f.flags THEN k = l ELSE k = Delay(f, at)
    <3>1. InSeries(q, f)
      BY <2>4 DEF Series
    <3> QED BY <2>6, <3>1 DEF InSeries, Follows
  <2>8. Continued(ParseAt(b, f, at), f, at, l, near, still)
    BY <1>2, <1>5, <2>3, <2>4, <2>5, <2>6, <2>7, NextLinked
  <2>9. /\ p.state \in Sessions /\ l \in Nat /\ Linked(p.state, f, l, near, still)
        /\ near => p.base = IF "ts" \in f.flags THEN f.from + l ELSE at
        /\ near /\ still /\ "period" \notin f.flags => p.period = {Scale * SamplePeriod}
    BY <1>1, <2>8 DEF Continued
  <2>10. IsPast(Remember(f, at), f, Lesser(k, Delay(f, at)), past.regular /\ Near(q, f),
                past.steady /\ f.rows > 0 /\ Follows(q, f, k, Lesser(k, Delay(f, at)), at))
    BY <1>1, <1>5, <2>1, RememberNext
  <2>11. IsPast(past', f, l, near, still)
    BY <1>1, <1>2, <2>2, <2>5, <2>6, <2>10 DEF IsPast
  <2>12. Remembered'
    BY <1>2, <2>9, <2>11 DEF Remembered, IsPast, Linked
  <2>13. \A x \in h.frame : \A n \in p.dropped : (f.nth - x.nth - 1 - n) % SeqModulus = 0
    <3>1. s = b /\ p.dropped = Dropped(b, f)
      BY <1>1, <1>3, <1>5 DEF ForProfile, Returns
    <3>2. ("seq" \in q.flags => b.lastSeq = {q.seq}) /\ q.flags = f.flags
      <4>1. {q.flags} = {f.flags}
        BY <1>5, <2>3 DEF Linked
      <4> QED BY <2>3, <4>1 DEF Linked
    <3>3. ASSUME NEW n \in Dropped(b, f) PROVE (f.nth - q.nth - 1 - n) % SeqModulus = 0
      BY <2>4, <3>2, DropsRight
    <3> QED BY <2>1, <3>1, <3>3
  <2>14. SessionGoals'
    <3>1. Made(b, h.frame, f, at, p, l, near, still)
      BY <1>1, <1>2, <1>3, <2>9, <2>13 DEF Made
    <3> QED BY <1>2, <2>9, <2>11, <3>1, GoalsOfFrame
  <2> QED BY <1>2, <2>9, <2>12, <2>14
<1> QED BY <1>4, <1>5

LEMMA AcceptStep ==
  ASSUME SessionInv, NEW i \in DOMAIN flight, Accept(i)
  PROVE  SessionInv'
<1> USE DEF SessionInv
<1>0. PICK f : f = flight[i]
  OBVIOUS
<1>1. /\ state' = ParseAt(state, f, clk).state /\ got' = {Accepted(state, past.frame, f, clk, ParseAt(state, f, clk))}
      /\ past' = Remember(f, clk) /\ UNCHANGED <<host, clk, device>>
      /\ \/ flight' = Without(i)
         \/ flight' = [flight EXCEPT ![i].repeatable = FALSE]
  BY <1>0 DEF Accept, Accepted
<1>2. f \in InFlight /\ f \in Seen
  BY <1>0 DEF InFlight, Seen
<1>3. f \in Frames /\ Sent(f) /\ ArrivesBy(f, clk) /\ clk \in Nat /\ state \in Sessions
  BY <1>2 DEF Framed, SessionTypeOK
<1>4. flight' \in Seq(Frames) /\ \A x \in InFlight' : x \in Frames /\ \E g \in InFlight : Alike(x, g)
  <2>1. CASE flight' = Without(i)
    <3>1. flight' \in Seq(Frames) /\ InFlight' \subseteq InFlight
      BY <2>1, WithoutFrame
    <3>2. \A x : Alike(x, x)
      BY DEF Alike
    <3>3. \A x \in InFlight : x \in Frames
      BY DEF Framed, Seen
    <3> QED BY <3>1, <3>2, <3>3, Zenon
  <2>2. CASE flight' = [flight EXCEPT ![i].repeatable = FALSE]
    <3> DEFINE e == [flight[i] EXCEPT !.repeatable = FALSE]
    <3>1. e \in Frames /\ Alike(e, f)
      BY <1>0, <1>3 DEF Frames, Alike
    <3>2. flight' = [flight EXCEPT ![i] = e]
      BY <2>2
    <3> HIDE DEF e
    <3>3. flight \in Seq(Frames)
      BY DEF SessionTypeOK
    <3>4. /\ flight' \in Seq(Frames) /\ DOMAIN flight' = DOMAIN flight
          /\ \A j \in DOMAIN flight : flight'[j] = IF j = i THEN e ELSE flight[j]
      BY <3>1, <3>2, <3>3
    <3>5. \A x : Alike(x, x)
      BY DEF Alike
    <3>6. ASSUME NEW x \in InFlight' PROVE x \in Frames /\ \E g \in InFlight : Alike(x, g)
      <4>1. PICK j \in DOMAIN flight : x = IF j = i THEN e ELSE flight[j]
        BY <3>4 DEF InFlight
      <4>2. flight[j] \in InFlight /\ flight[j] \in Frames
        BY DEF InFlight, Framed, Seen
      <4> QED BY <1>2, <3>1, <3>5, <4>1, <4>2
    <3> QED BY <3>4, <3>6
  <2> QED BY <1>1, <2>1, <2>2
<1>5. past'.frame = {f}
  BY <1>1 DEF Remember
<1>6. Framed' /\ Series'
  <2>1. \A x : Alike(x, x)
    BY DEF Alike
  <2>2. \A x \in Seen' : x \in Frames /\ \E g \in Seen : Alike(x, g)
    BY <1>2, <1>3, <1>4, <1>5, <2>1 DEF Seen
  <2>3. clk' \in Nat /\ clk' >= clk
    BY <1>1, <1>3
  <2> QED BY <1>1, <1>4, <2>2, <2>3, FramesKept
<1>7. state' \in Sessions /\ Remembered' /\ SessionGoals'
  BY <1>1, <1>2, <1>3, AcceptFrame
<1>8. SessionTypeOK'
  BY <1>1, <1>4, <1>7 DEF SessionTypeOK
<1> QED BY <1>6, <1>7, <1>8

LEMMA SessionStep == SessionInv /\ [CbrtNext]_cbrtVars => SessionInv'
<1> SUFFICES ASSUME SessionInv, [CbrtNext]_cbrtVars PROVE SessionInv'
  OBVIOUS
<1>0. Reset(state) = Fresh
  BY ResetIs DEF SessionInv, SessionTypeOK
<1>1. ASSUME NEW flags \in FlagSets[host], Boot(flags) PROVE SessionInv'
  BY <1>1, BootStep
<1>2. ASSUME NEW n \in RowCounts, Emit(n) PROVE SessionInv'
  BY <1>2, EmitStep
<1>3. ASSUME NEW i \in DOMAIN flight, Lose(i) PROVE SessionInv'
  BY <1>3, QuietStep DEF Lose
<1>4. ASSUME NEW i \in DOMAIN flight, Refuse(i) PROVE SessionInv'
  <2>1. /\ got' = {} /\ UNCHANGED <<host, device>> /\ clk' = clk /\ flight' = Without(i)
        /\ UNCHANGED <<state, past>> \/ (state' = Fresh /\ past' = NoPast)
    BY <1>4, <1>0 DEF Refuse
  <2> QED BY <2>1, QuietStep
<1>5. ASSUME NEW i \in DOMAIN flight, Accept(i) PROVE SessionInv'
  BY <1>5, AcceptStep
<1>6. CASE Advance
  BY <1>6, QuietStep DEF Advance
<1>7. CASE ResetCodec
  BY <1>0, <1>7, QuietStep DEF ResetCodec
<1>8. CASE UNCHANGED cbrtVars
  <2>1. UNCHANGED <<host, clk, device, flight, state, got, past>>
    BY <1>8 DEF cbrtVars
  <2>2. Seen' = Seen /\ InFlight' = InFlight /\ clk' = clk /\ device' = device
    BY <2>1 DEF Seen, InFlight
  <2>3. SessionTypeOK' /\ Remembered'
    BY <2>1, RememberedKept DEF SessionInv, SessionTypeOK
  <2>4. Framed' /\ Series'
    BY <2>2 DEF SessionInv, Framed, Series
  <2>5. SessionStartsFresh' /\ DropsCounted'
    BY <2>1 DEF SessionInv, SessionGoals, SessionStartsFresh, DropsCounted
  <2>6. DatesAreRight' /\ SteadyDates'
    BY <2>1 DEF SessionInv, SessionGoals, DatesAreRight, SteadyDates
  <2> QED BY <2>3, <2>4, <2>5, <2>6 DEF SessionInv, SessionGoals
<1> QED BY <1>1, <1>2, <1>3, <1>4, <1>5, <1>6, <1>7, <1>8 DEF CbrtNext

(* The inductive invariant of a session, for all ranges and periods, and   *)
(* any number of boots, frames and frames on their way.                    *)
THEOREM SessionInvariant == CbrtSpec => []SessionInv
<1> QED BY SessionStart, SessionStep, PTL DEF CbrtSpec

(* A frame with another profile than the last is read as by a host that    *)
(* has seen no frame (parser.rs:195-205).                                  *)
THEOREM SessionStartsFreshHolds == CbrtSpec => []SessionStartsFresh
<1>1. SessionInv => SessionStartsFresh
  BY DEF SessionInv, SessionGoals
<1> QED BY <1>1, SessionInvariant, PTL

(* The frames reported as missing are those the device sent in between, up *)
(* to a multiple of the modulus, for every modulus.                        *)
THEOREM DropsCountedHolds == CbrtSpec => []DropsCounted
<1>1. SessionInv => DropsCounted
  BY DEF SessionInv, SessionGoals
<1> QED BY <1>1, SessionInvariant, PTL

(* Frames with a ts field are dated at their time plus the least delay of  *)
(* the session, through any number of wraps of the field.                  *)
THEOREM DatesAreRightHolds == CbrtSpec => []DatesAreRight
<1>1. SessionInv => DatesAreRight
  BY DEF SessionInv, SessionGoals
<1> QED BY <1>1, SessionInvariant, PTL

(* Every sample of a steady stream is dated at its time plus the delay:    *)
(* the inferred rate is the true one however it is rounded and smoothed.   *)
THEOREM SteadyDatesHolds == CbrtSpec => []SteadyDates
<1>1. SessionInv => SteadyDates
  BY DEF SessionInv, SessionGoals
<1> QED BY <1>1, SessionInvariant, PTL
-----------------------------------------------------------------------------
HIDE SessionAssumption

(* A subnormal half is shifted by a function over significands: what it    *)
(* does with m, if f is what it does with greater ones.                    *)
ShiftAt(f, m) == IF m >= 1024 THEN <<m, -14>> ELSE <<f[2 * m][1], f[2 * m][2] - 1>>

ShiftsOn(f, S) == f = [m \in S |-> ShiftAt(f, m)]

(* The significands from k on. *)
From(k) == {m \in 1 .. 2^11 - 1 : m >= k}

LEMMA ShiftValue ==
  ASSUME NEW f, NEW S, ShiftsOn(f, S), NEW m \in S
  PROVE  f[m] = ShiftAt(f, m)
<1>1. f = [x \in S |-> ShiftAt(f, x)]
  BY DEF ShiftsOn
<1>2. [x \in S |-> ShiftAt(f, x)][m] = ShiftAt(f, m)
  OBVIOUS
<1> QED BY <1>1, <1>2, Zenon

LEMMA ShiftsExtend ==
  ASSUME NEW k \in Nat, NEW n \in Nat, n <= 2 * k, k <= n, n <= 1024, \E f : ShiftsOn(f, From(n))
  PROVE  \E f : ShiftsOn(f, From(k))
<1>1. PICK f : ShiftsOn(f, From(n))
  OBVIOUS
<1>2. ASSUME NEW m \in From(k), ~(m >= 1024) PROVE 2 * m \in From(n) /\ 2 * m \in From(k)
  BY <1>2 DEF From
<1> DEFINE g == [m \in From(k) |-> ShiftAt(f, m)]
<1>3. ASSUME NEW m \in From(k) PROVE ShiftAt(f, m) = ShiftAt(g, m)
  <2>1. CASE m >= 1024
    BY <2>1 DEF ShiftAt
  <2>2. CASE ~(m >= 1024)
    <3>1. 2 * m \in From(n) /\ 2 * m \in From(k)
      BY <1>2, <2>2
    <3>2. f[2 * m] = ShiftAt(f, 2 * m)
      BY <1>1, <3>1, ShiftValue, Zenon
    <3>3. g[2 * m] = ShiftAt(f, 2 * m)
      BY <3>1, Zenon
    <3> HIDE DEF g
    <3>4. f[2 * m] = g[2 * m]
      BY <3>2, <3>3, Zenon
    <3> QED BY <2>2, <3>4 DEF ShiftAt
  <2> QED BY <2>1, <2>2
<1>4. g = [m \in From(k) |-> ShiftAt(g, m)]
  BY <1>3
<1> HIDE DEF g
<1>5. ShiftsOn(g, From(k))
  BY <1>4 DEF ShiftsOn
<1> QED BY <1>5

LEMMA NormalisedIs ==
  ASSUME NEW m \in From(1)
  PROVE  Normalised[m] = ShiftAt(Normalised, m)
<1>1. \E f : ShiftsOn(f, From(1024))
  <2> DEFINE g == [x \in From(1024) |-> <<x, -14>>]
  <2>1. \A x \in From(1024) : ShiftAt(g, x) = <<x, -14>>
    BY DEF ShiftAt, From
  <2>2. g = [x \in From(1024) |-> ShiftAt(g, x)]
    BY <2>1
  <2> HIDE DEF g
  <2>3. ShiftsOn(g, From(1024))
    BY <2>2 DEF ShiftsOn
  <2> QED BY <2>3
<1>2. \E f : ShiftsOn(f, From(512))
  BY <1>1, ShiftsExtend
<1>3. \E f : ShiftsOn(f, From(256))
  BY <1>2, ShiftsExtend
<1>4. \E f : ShiftsOn(f, From(128))
  BY <1>3, ShiftsExtend
<1>5. \E f : ShiftsOn(f, From(64))
  BY <1>4, ShiftsExtend
<1>6. \E f : ShiftsOn(f, From(32))
  BY <1>5, ShiftsExtend
<1>7. \E f : ShiftsOn(f, From(16))
  BY <1>6, ShiftsExtend
<1>8. \E f : ShiftsOn(f, From(8))
  BY <1>7, ShiftsExtend
<1>9. \E f : ShiftsOn(f, From(4))
  BY <1>8, ShiftsExtend
<1>10. \E f : ShiftsOn(f, From(2))
  BY <1>9, ShiftsExtend
<1>11. \E f : ShiftsOn(f, From(1))
  BY <1>10, ShiftsExtend
<1>12. From(1) = 1 .. 2^11 - 1
  BY DEF From
<1>13. Normalised = CHOOSE f : ShiftsOn(f, 1 .. 2^11 - 1)
  BY Zenon DEF Normalised, ShiftsOn, ShiftAt
<1>14. ShiftsOn(Normalised, From(1))
  BY <1>11, <1>12, <1>13, Zenon
<1> QED BY <1>14, ShiftValue, Zenon

LEMMA NormalisedOnce ==
  ASSUME NEW m \in Nat, m >= 1, m < 1024, NEW c, NEW e \in Int, Normalised[2 * m] = <<c, e>>
  PROVE  Normalised[m] = <<c, e - 1>>
<1>1. m \in From(1)
  BY DEF From
<1>2. Normalised[m] = ShiftAt(Normalised, m)
  BY <1>1, NormalisedIs
<1> QED BY <1>2 DEF ShiftAt

(* A subnormal half with its leading bit at k, of the value v. *)
Leads(m, v, k) == Normalised[m] = <<v, k - 24>>

LEMMA LeadsNext ==
  ASSUME NEW m \in Nat, m >= 1, m < 1024, NEW v, NEW k \in Int, Leads(2 * m, v, k + 1)
  PROVE  Leads(m, v, k)
BY NormalisedOnce DEF Leads

LEMMA NormalisedAt ==
  ASSUME NEW m \in Nat, m >= 1, m < 1024
  PROVE  \/ m >= 512 /\ Leads(m, 2 * m, 9)
         \/ m >= 256 /\ m < 512 /\ Leads(m, 4 * m, 8)
         \/ m >= 128 /\ m < 256 /\ Leads(m, 8 * m, 7)
         \/ m >= 64 /\ m < 128 /\ Leads(m, 16 * m, 6)
         \/ m >= 32 /\ m < 64 /\ Leads(m, 32 * m, 5)
         \/ m >= 16 /\ m < 32 /\ Leads(m, 64 * m, 4)
         \/ m >= 8 /\ m < 16 /\ Leads(m, 128 * m, 3)
         \/ m >= 4 /\ m < 8 /\ Leads(m, 256 * m, 2)
         \/ m >= 2 /\ m < 4 /\ Leads(m, 512 * m, 1)
         \/ m >= 1 /\ m < 2 /\ Leads(m, 1024 * m, 0)
<1>1. ASSUME NEW x \in Nat, x >= 1024, x < 2048 PROVE Leads(x, x, 10)
  <2>1. x \in From(1)
    BY <1>1 DEF From
  <2>2. Normalised[x] = ShiftAt(Normalised, x)
    BY <2>1, NormalisedIs
  <2> QED BY <1>1, <2>2 DEF ShiftAt, Leads
<1>2. ASSUME NEW x \in Nat, x >= 512, x < 1024 PROVE Leads(x, 2 * x, 9)
  <2>1. Leads(2 * x, 1 * (2 * x), 9 + 1)
    BY <1>1, <1>2
  <2> QED BY <1>2, <2>1, LeadsNext
<1>3. ASSUME NEW x \in Nat, x >= 256, x < 512 PROVE Leads(x, 4 * x, 8)
  <2>1. Leads(2 * x, 2 * (2 * x), 8 + 1)
    BY <1>2, <1>3
  <2> QED BY <1>3, <2>1, LeadsNext
<1>4. ASSUME NEW x \in Nat, x >= 128, x < 256 PROVE Leads(x, 8 * x, 7)
  <2>1. Leads(2 * x, 4 * (2 * x), 7 + 1)
    BY <1>3, <1>4
  <2> QED BY <1>4, <2>1, LeadsNext
<1>5. ASSUME NEW x \in Nat, x >= 64, x < 128 PROVE Leads(x, 16 * x, 6)
  <2>1. Leads(2 * x, 8 * (2 * x), 6 + 1)
    BY <1>4, <1>5
  <2> QED BY <1>5, <2>1, LeadsNext
<1>6. ASSUME NEW x \in Nat, x >= 32, x < 64 PROVE Leads(x, 32 * x, 5)
  <2>1. Leads(2 * x, 16 * (2 * x), 5 + 1)
    BY <1>5, <1>6
  <2> QED BY <1>6, <2>1, LeadsNext
<1>7. ASSUME NEW x \in Nat, x >= 16, x < 32 PROVE Leads(x, 64 * x, 4)
  <2>1. Leads(2 * x, 32 * (2 * x), 4 + 1)
    BY <1>6, <1>7
  <2> QED BY <1>7, <2>1, LeadsNext
<1>8. ASSUME NEW x \in Nat, x >= 8, x < 16 PROVE Leads(x, 128 * x, 3)
  <2>1. Leads(2 * x, 64 * (2 * x), 3 + 1)
    BY <1>7, <1>8
  <2> QED BY <1>8, <2>1, LeadsNext
<1>9. ASSUME NEW x \in Nat, x >= 4, x < 8 PROVE Leads(x, 256 * x, 2)
  <2>1. Leads(2 * x, 128 * (2 * x), 2 + 1)
    BY <1>8, <1>9
  <2> QED BY <1>9, <2>1, LeadsNext
<1>10. ASSUME NEW x \in Nat, x >= 2, x < 4 PROVE Leads(x, 512 * x, 1)
  <2>1. Leads(2 * x, 256 * (2 * x), 1 + 1)
    BY <1>9, <1>10
  <2> QED BY <1>10, <2>1, LeadsNext
<1>11. ASSUME NEW x \in Nat, x >= 1, x < 2 PROVE Leads(x, 1024 * x, 0)
  <2>1. Leads(2 * x, 512 * (2 * x), 0 + 1)
    BY <1>10, <1>11
  <2> QED BY <1>11, <2>1, LeadsNext
<1> QED BY <1>2, <1>3, <1>4, <1>5, <1>6, <1>7, <1>8, <1>9, <1>10, <1>11

(* f16_to_f32 keeps the value of every half.  First the subnormal ones.    *)
LEMMA Powers ==
  /\ 2 ^ 0 = 1 /\ 2 ^ 1 = 2 /\ 2 ^ 2 = 4 /\ 2 ^ 3 = 8 /\ 2 ^ 4 = 16 /\ 2 ^ 5 = 32 /\ 2 ^ 6 = 64
  /\ 2 ^ 7 = 128 /\ 2 ^ 8 = 256 /\ 2 ^ 9 = 512
  /\ 2 ^ (23 - 0) = 8388608 /\ 2 ^ (23 - 1) = 4194304 /\ 2 ^ (23 - 2) = 2097152
  /\ 2 ^ (23 - 3) = 1048576 /\ 2 ^ (23 - 4) = 524288 /\ 2 ^ (23 - 5) = 262144
  /\ 2 ^ (23 - 6) = 131072 /\ 2 ^ (23 - 7) = 65536 /\ 2 ^ (23 - 8) = 32768
  /\ 2 ^ (23 - 9) = 16384
OBVIOUS

(* The fields of a single for what is left of m. *)
Fields(m, e, f) == e = Normalised[m][2] + 127 /\ f = (Normalised[m][1] % 1024) * 8192

LEMMA LeadsFields ==
  ASSUME NEW m, NEW e, NEW f, Fields(m, e, f), NEW v \in Nat, v >= 1024, v < 2048, NEW k \in Int, Leads(m, v, k)
  PROVE  e = k - 24 + 127 /\ f = (v - 1024) * 8192
<1>1. Normalised[m][2] = k - 24 /\ Normalised[m][1] = v
  BY DEF Leads
<1>2. v % 1024 = v - 1024
  OBVIOUS
<1> QED BY <1>1, <1>2 DEF Fields

LEMMA SubnormalMeans ==
  ASSUME NEW m \in Nat, m >= 1, m < 1024, NEW y, Fields(m, y.exp, y.mant)
  PROVE  IsSubnormal(y, m)
<1>1. CASE m >= 512 /\ m < 1024 /\ Leads(m, 2 * m, 9)
  <2>1. y.exp = 9 - 24 + 127 /\ y.mant = (2 * m - 1024) * 8192
    BY <1>1, LeadsFields
  <2> QED BY <1>1, <2>1, Powers DEF IsSubnormal
<1>2. CASE m >= 256 /\ m < 512 /\ Leads(m, 4 * m, 8)
  <2>1. y.exp = 8 - 24 + 127 /\ y.mant = (4 * m - 1024) * 8192
    BY <1>2, LeadsFields
  <2> QED BY <1>2, <2>1, Powers DEF IsSubnormal
<1>3. CASE m >= 128 /\ m < 256 /\ Leads(m, 8 * m, 7)
  <2>1. y.exp = 7 - 24 + 127 /\ y.mant = (8 * m - 1024) * 8192
    BY <1>3, LeadsFields
  <2> QED BY <1>3, <2>1, Powers DEF IsSubnormal
<1>4. CASE m >= 64 /\ m < 128 /\ Leads(m, 16 * m, 6)
  <2>1. y.exp = 6 - 24 + 127 /\ y.mant = (16 * m - 1024) * 8192
    BY <1>4, LeadsFields
  <2> QED BY <1>4, <2>1, Powers DEF IsSubnormal
<1>5. CASE m >= 32 /\ m < 64 /\ Leads(m, 32 * m, 5)
  <2>1. y.exp = 5 - 24 + 127 /\ y.mant = (32 * m - 1024) * 8192
    BY <1>5, LeadsFields
  <2> QED BY <1>5, <2>1, Powers DEF IsSubnormal
<1>6. CASE m >= 16 /\ m < 32 /\ Leads(m, 64 * m, 4)
  <2>1. y.exp = 4 - 24 + 127 /\ y.mant = (64 * m - 1024) * 8192
    BY <1>6, LeadsFields
  <2> QED BY <1>6, <2>1, Powers DEF IsSubnormal
<1>7. CASE m >= 8 /\ m < 16 /\ Leads(m, 128 * m, 3)
  <2>1. y.exp = 3 - 24 + 127 /\ y.mant = (128 * m - 1024) * 8192
    BY <1>7, LeadsFields
  <2> QED BY <1>7, <2>1, Powers DEF IsSubnormal
<1>8. CASE m >= 4 /\ m < 8 /\ Leads(m, 256 * m, 2)
  <2>1. y.exp = 2 - 24 + 127 /\ y.mant = (256 * m - 1024) * 8192
    BY <1>8, LeadsFields
  <2> QED BY <1>8, <2>1, Powers DEF IsSubnormal
<1>9. CASE m >= 2 /\ m < 4 /\ Leads(m, 512 * m, 1)
  <2>1. y.exp = 1 - 24 + 127 /\ y.mant = (512 * m - 1024) * 8192
    BY <1>9, LeadsFields
  <2> QED BY <1>9, <2>1, Powers DEF IsSubnormal
<1>10. CASE m >= 1 /\ m < 2 /\ Leads(m, 1024 * m, 0)
  <2>1. y.exp = 0 - 24 + 127 /\ y.mant = (1024 * m - 1024) * 8192
    BY <1>10, LeadsFields
  <2> QED BY <1>10, <2>1, Powers DEF IsSubnormal
<1> QED BY <1>1, <1>2, <1>3, <1>4, <1>5, <1>6, <1>7, <1>8, <1>9, <1>10, NormalisedAt

(* f16_to_f32 (parser.rs:590-618) keeps the sign and the value of every    *)
(* half: zero, subnormal, normal and infinite ones, and those that are no  *)
(* numbers.                                                                *)
THEOREM HalfRight ==
  ASSUME NEW x \in 0 .. 2^16 - 1
  PROVE  IsHalf(HalfToSingle(x), x)
<1> DEFINE exp == (x \div 1024) % 32
           mant == x % 1024
           y == HalfToSingle(x)
<1>1. /\ x \in Nat /\ x < 65536 /\ (x \div 32768) % 2 = x \div 32768
      /\ exp \in Nat /\ exp < 32 /\ mant \in Nat /\ mant < 1024
  OBVIOUS
<1>2. CASE exp = 0 /\ mant = 0
  <2>1. y = [sign |-> x \div 32768, exp |-> 0, mant |-> 0 * 8192]
    BY <1>1, <1>2 DEF HalfToSingle
  <2> QED BY <1>2, <2>1 DEF IsHalf
<1>3. CASE exp = 0 /\ mant # 0
  <2> DEFINE e == Normalised[mant][2] + 127
             f == (Normalised[mant][1] % 1024) * 8192
  <2>1. y = [sign |-> x \div 32768, exp |-> e, mant |-> f]
    BY <1>1, <1>3 DEF HalfToSingle
  <2>2. mant >= 1 /\ Fields(mant, e, f)
    BY <1>1, <1>3 DEF Fields
  <2> HIDE DEF e, f
  <2>3. y.sign = x \div 32768 /\ y.exp = e /\ y.mant = f
    <3> HIDE DEF y
    <3> QED BY <2>1
  <2>4. IsSubnormal(y, mant)
    <3> HIDE DEF mant, y
    <3> QED BY <1>1, <2>2, <2>3, SubnormalMeans
  <2> QED BY <1>1, <1>3, <2>2, <2>3, <2>4 DEF IsHalf
<1>4. CASE exp = 31
  <2>1. y = [sign |-> x \div 32768, exp |-> 255, mant |-> mant * 8192]
    BY <1>1, <1>4 DEF HalfToSingle
  <2>2. (mant * 8192) \div 8192 = mant
    BY <1>1
  <2> QED BY <1>4, <2>1, <2>2 DEF IsHalf
<1>5. CASE exp # 0 /\ exp # 31
  <2>1. y = [sign |-> x \div 32768, exp |-> exp - 15 + 127, mant |-> mant * 8192]
    BY <1>1, <1>5 DEF HalfToSingle
  <2>2. exp - 15 + 127 - 127 = exp - 15
    BY <1>1
  <2> QED BY <1>5, <2>1, <2>2 DEF IsHalf
<1> QED BY <1>2, <1>3, <1>4, <1>5

-----------------------------------------------------------------------------
(* The lengths of the pieces a frame is shown in add up.                   *)
SumAt(f, c, i) == IF i = 0 THEN 0 ELSE f[i - 1] + c[i][2]

Sums(f, c, n) == f = [i \in 0 .. n |-> SumAt(f, c, i)]

LEMMA SumValue ==
  ASSUME NEW f, NEW c, NEW n, Sums(f, c, n), NEW i \in 0 .. n
  PROVE  f[i] = SumAt(f, c, i)
<1> DEFINE S == 0 .. n
<1>1. i \in S /\ f = [j \in S |-> SumAt(f, c, j)]
  BY Zenon DEF Sums
<1> HIDE DEF S
<1>2. [j \in S |-> SumAt(f, c, j)][i] = SumAt(f, c, i)
  BY <1>1
<1> QED BY <1>1, <1>2, Zenon

LEMMA SumsExist ==
  ASSUME NEW c, NEW n \in Nat
  PROVE  \E f : Sums(f, c, n)
<1> DEFINE T == {k \in Nat : ~\E f : Sums(f, c, k)}
<1>1. T = {}
  <2> SUFFICES ASSUME T # {} PROVE FALSE
    OBVIOUS
  <2>1. PICK k \in T : \A l \in T : k <= l
    <3>1. T \subseteq Nat
      OBVIOUS
    <3> HIDE DEF T
    <3> QED BY <3>1, LeastNumber, Zenon
  <2>2. k \in Nat /\ ~\E f : Sums(f, c, k)
    OBVIOUS
  <2>3. \E f : k # 0 => Sums(f, c, k - 1)
    <3>1. CASE k # 0
      <4>1. k - 1 \in Nat /\ ~(k <= k - 1)
        BY <2>2, <3>1
      <4>2. k - 1 \notin T
        BY <2>1, <4>1
      <4> QED BY <4>1, <4>2
    <3> QED BY <3>1
  <2>4. PICK f : k # 0 => Sums(f, c, k - 1)
    BY <2>3
  <2> DEFINE S == 0 .. k
             g == [i \in S |-> SumAt(f, c, i)]
  <2> HIDE DEF T
  <2>5. ASSUME NEW i \in S PROVE SumAt(f, c, i) = SumAt(g, c, i)
    <3>1. CASE i = 0
      BY <3>1 DEF SumAt
    <3>2. CASE i # 0
      <4>1. i - 1 \in 0 .. k - 1 /\ i - 1 \in S /\ k # 0
        BY <2>2, <3>2
      <4>2. f[i - 1] = SumAt(f, c, i - 1)
        BY <2>4, <4>1, SumValue, Zenon
      <4>3. g[i - 1] = SumAt(f, c, i - 1)
        BY <4>1, Zenon
      <4> HIDE DEF g
      <4>4. f[i - 1] = g[i - 1]
        BY <4>2, <4>3, Zenon
      <4> QED BY <3>2, <4>4 DEF SumAt
    <3> QED BY <3>1, <3>2
  <2> HIDE DEF S
  <2>6. g = [i \in S |-> SumAt(g, c, i)]
    BY <2>5
  <2> HIDE DEF g
  <2>7. Sums(g, c, k)
    BY <2>6, Zenon DEF Sums, S
  <2> QED BY <2>2, <2>7
<1> QED BY <1>1

LEMMA CoveredIs ==
  ASSUME NEW c, Len(c) \in Nat
  PROVE  \E f : Sums(f, c, Len(c)) /\ Covered(c) = f[Len(c)]
<1> DEFINE f == CHOOSE g : Sums(g, c, Len(c))
<1>1. Covered(c) = f[Len(c)]
  BY Zenon DEF Covered, Sums, SumAt
<1>2. Sums(f, c, Len(c))
  BY SumsExist
<1> HIDE DEF f
<1> QED BY <1>1, <1>2

Piece(label, n) == IF n = 0 THEN <<>> ELSE <<<<label, n>>>>

Labels == {"Sync", "FD", "CH", "Seq", "Timestamp us", "Period us", "Len", "Payload", "CRC-16"}

LEMMA AppendIs ==
  ASSUME NEW S, NEW c \in Seq(S), NEW e \in S
  PROVE  /\ Len(c) \in Nat /\ Append(c, e) \in Seq(S) /\ Len(Append(c, e)) = Len(c) + 1
         /\ Append(c, e)[Len(c) + 1] = e /\ Append(c, e) = c \o <<e>>
         /\ \A i \in 1 .. Len(c) : Append(c, e)[i] = c[i] /\ c[i] \in S
OBVIOUS

(* The pieces c have n bytes. *)
Adds(c, n) == c \in Seq(Labels \X Nat) /\ Covered(c) = n

LEMMA CoveredMore ==
  ASSUME NEW c \in Seq(Labels \X Nat), NEW label \in Labels, NEW n \in Nat
  PROVE  /\ Append(c, <<label, n>>) \in Seq(Labels \X Nat)
         /\ Covered(c) \in Int
         /\ Covered(Append(c, <<label, n>>)) = Covered(c) + n
<1> DEFINE d == Append(c, <<label, n>>)
           m == Len(c)
<1>1. /\ m \in Nat /\ Len(d) = m + 1 /\ d[m + 1] = <<label, n>> /\ d \in Seq(Labels \X Nat)
      /\ \A i \in 1 .. m : d[i] = c[i] /\ c[i][2] \in Nat
  <2> DEFINE S == Labels \X Nat
             e == <<label, n>>
  <2>1. e \in S /\ \A x \in S : x[2] \in Nat
    OBVIOUS
  <2> HIDE DEF S, e
  <2>2. c \in Seq(S)
    BY DEF S
  <2>3. /\ Len(c) \in Nat /\ Append(c, e) \in Seq(S) /\ Len(Append(c, e)) = Len(c) + 1
        /\ Append(c, e)[Len(c) + 1] = e
        /\ \A i \in 1 .. Len(c) : Append(c, e)[i] = c[i] /\ c[i] \in S
    BY <2>1, <2>2, AppendIs
  <2>4. \A i \in 1 .. Len(c) : c[i][2] \in Nat
    BY <2>1, <2>3
  <2> QED BY <2>3, <2>4 DEF S, e
<1> HIDE DEF d
<1>2. PICK f : Sums(f, c, m) /\ Covered(c) = f[m]
  BY <1>1, CoveredIs
<1>3. PICK g : Sums(g, d, m + 1) /\ Covered(d) = g[m + 1]
  BY <1>1, CoveredIs
<1> HIDE DEF m
<1> DEFINE T == {i \in 0 .. m : f[i] # g[i] \/ f[i] \notin Int}
<1>4. T = {}
  <2> SUFFICES ASSUME T # {} PROVE FALSE
    OBVIOUS
  <2>1. PICK k \in T : \A l \in T : k <= l
    <3>1. T \subseteq Nat
      OBVIOUS
    <3> HIDE DEF T
    <3> QED BY <3>1, LeastNumber, Zenon
  <2>2. k \in 0 .. m /\ k \in 0 .. m + 1 /\ (f[k] # g[k] \/ f[k] \notin Int)
    BY <1>1
  <2>3. f[k] = SumAt(f, c, k) /\ g[k] = SumAt(g, d, k)
    BY <1>2, <1>3, <2>2, SumValue, Zenon
  <2>4. CASE k = 0
    BY <2>2, <2>3, <2>4 DEF SumAt
  <2>5. CASE k # 0
    <3>1. k - 1 \in 0 .. m /\ ~(k <= k - 1) /\ k \in 1 .. m
      BY <1>1, <2>2, <2>5
    <3>2. f[k - 1] = g[k - 1] /\ f[k - 1] \in Int
      <4>1. k - 1 \notin T
        BY <2>1, <3>1
      <4> QED BY <3>1, <4>1
    <3>3. d[k] = c[k] /\ c[k][2] \in Nat
      BY <1>1, <3>1
    <3>4. f[k] = f[k - 1] + c[k][2] /\ g[k] = g[k - 1] + d[k][2]
      BY <2>3, <2>5 DEF SumAt
    <3> QED BY <2>2, <3>2, <3>3, <3>4
  <2> QED BY <2>4, <2>5
<1>5. f[m] = g[m] /\ f[m] \in Int
  <2>1. m \in 0 .. m /\ m \notin T
    BY <1>1, <1>4
  <2> QED BY <2>1
<1>6. g[m + 1] = g[m] + n
  <2>1. m + 1 \in 0 .. m + 1 /\ m + 1 # 0 /\ (m + 1) - 1 = m
    BY <1>1
  <2>2. g[m + 1] = SumAt(g, d, m + 1)
    BY <1>3, <2>1, SumValue, Zenon
  <2>3. d[m + 1][2] = n
    BY <1>1
  <2> QED BY <2>1, <2>2, <2>3 DEF SumAt
<1> QED BY <1>1, <1>2, <1>3, <1>5, <1>6 DEF d, m

LEMMA CoveredPiece ==
  ASSUME NEW c, NEW k, Adds(c, k), NEW label \in Labels, NEW n \in Nat
  PROVE  Adds(c \o Piece(label, n), k + n)
<1>1. c \in Seq(Labels \X Nat) /\ Covered(c) = k
  BY DEF Adds
<1>2. k \in Int
  BY <1>1, CoveredMore
<1>3. CASE n = 0
  <2>1. c \o Piece(label, n) = c
    BY <1>1, <1>3, ConcatEmptySeq DEF Piece
  <2>2. k + n = k
    BY <1>2, <1>3
  <2> QED BY <2>1, <2>2
<1>4. CASE n # 0
  <2> DEFINE e == <<label, n>>
             S == Labels \X Nat
  <2>1. Piece(label, n) = <<e>> /\ e \in S
    BY <1>4 DEF Piece
  <2>2. c \o <<e>> = Append(c, e)
    <3> HIDE DEF e
    <3>1. c \in Seq(S)
      BY <1>1
    <3> HIDE DEF S
    <3> QED BY <2>1, <3>1, AppendIs
  <2>3. Append(c, e) \in Seq(S) /\ Covered(Append(c, e)) = k + n
    BY <1>1, CoveredMore
  <2> HIDE DEF e
  <2> QED BY <2>1, <2>2, <2>3 DEF Adds
<1> QED BY <1>3, <1>4

LEMMA TwoAppended ==
  ASSUME NEW x, NEW y
  PROVE  Append(<<x>>, y) = <<x, y>>
<1> DEFINE S == {x, y}
           s == <<x>>
           t == <<x, y>>
<1>1. s \in Seq(S) /\ t \in Seq(S) /\ y \in S
  OBVIOUS
<1>2. Len(s) = 1 /\ s[1] = x /\ Len(t) = 2 /\ t[1] = x /\ t[2] = y
  OBVIOUS
<1> HIDE DEF S, s, t
<1> DEFINE u == Append(s, y)
<1>3. u \in Seq(S) /\ Len(u) = 2 /\ u[2] = y /\ u[1] = s[1]
  BY <1>1, <1>2, AppendIs
<1> HIDE DEF u
<1>4. \A i \in 1 .. Len(u) : u[i] = t[i]
  BY <1>2, <1>3
<1>5. u = t
  BY <1>1, <1>2, <1>3, <1>4, SeqEqual
<1> QED BY <1>5 DEF u, s, t

LEMMA ThreeAppended ==
  ASSUME NEW x, NEW y, NEW z
  PROVE  Append(<<x, y>>, z) = <<x, y, z>>
<1> DEFINE S == {x, y, z}
           s == <<x, y>>
           t == <<x, y, z>>
<1>1. s \in Seq(S) /\ t \in Seq(S) /\ z \in S
  OBVIOUS
<1>2. Len(s) = 2 /\ s[1] = x /\ s[2] = y /\ Len(t) = 3 /\ t[1] = x /\ t[2] = y /\ t[3] = z
  OBVIOUS
<1> HIDE DEF S, s, t
<1> DEFINE u == Append(s, z)
<1>3. u \in Seq(S) /\ Len(u) = 3 /\ u[3] = z /\ u[1] = s[1] /\ u[2] = s[2]
  <2>1. /\ u \in Seq(S) /\ Len(u) = Len(s) + 1 /\ u[Len(s) + 1] = z
        /\ \A i \in 1 .. Len(s) : u[i] = s[i]
    BY <1>1, AppendIs
  <2> QED BY <1>2, <2>1
<1> HIDE DEF u
<1>4. \A i \in 1 .. Len(u) : u[i] = t[i]
  BY <1>2, <1>3
<1>5. u = t
  BY <1>1, <1>2, <1>3, <1>4, SeqEqual
<1> QED BY <1>5 DEF u, s, t

LEMMA CoveredFirst ==
  Adds(<<<<"Sync", 4>>, <<"FD", 1>>, <<"CH", 1>>>>, 6)
<1>1. Adds(<<>>, 0)
  <2>1. Len(<<>>) = 0 /\ 0 \in 0 .. 0 /\ <<>> \in Seq(Labels \X Nat)
    OBVIOUS
  <2>2. PICK f : Sums(f, <<>>, 0) /\ Covered(<<>>) = f[0]
    BY <2>1, CoveredIs
  <2>3. f[0] = SumAt(f, <<>>, 0)
    BY <2>1, <2>2, SumValue, Zenon
  <2>4. f[0] = 0
    BY <2>3 DEF SumAt
  <2> QED BY <2>1, <2>2, <2>4 DEF Adds
<1>2. "Sync" \in Labels /\ "FD" \in Labels /\ "CH" \in Labels /\ 4 \in Nat /\ 1 \in Nat
  BY DEF Labels
<1>3. ASSUME NEW c, NEW k, Adds(c, k), NEW label \in Labels, NEW n \in Nat
      PROVE  Adds(Append(c, <<label, n>>), k + n)
  BY <1>3, CoveredMore DEF Adds
<1> DEFINE c == Append(<<>>, <<"Sync", 4>>)
           d == Append(c, <<"FD", 1>>)
           e == Append(d, <<"CH", 1>>)
<1>4. Adds(c, 0 + 4)
  BY <1>1, <1>2, <1>3, Zenon
<1>5. Adds(d, (0 + 4) + 1)
  BY <1>2, <1>3, <1>4, Zenon
<1>6. Adds(e, ((0 + 4) + 1) + 1)
  BY <1>2, <1>3, <1>5, Zenon
<1>7. e = <<<<"Sync", 4>>, <<"FD", 1>>, <<"CH", 1>>>>
  <2>1. ASSUME NEW x, NEW y, NEW z PROVE Append(Append(Append(<<>>, x), y), z) = <<x, y, z>>
    <3>1. Append(<<>>, x) = <<x>>
      OBVIOUS
    <3> QED BY <3>1, TwoAppended, ThreeAppended, Zenon
  <2> QED BY <2>1, Zenon
<1> HIDE DEF e
<1> QED BY <1>6, <1>7

LEMMA ContentsCover ==
  ASSUME NEW flags, NEW len \in Nat
  PROVE  Covered(FormatContents(flags, len)) = HeaderSize(flags) + len + CrcSize(flags)
<1> DEFINE s == Width(flags, "seq", 1)
           t == Width(flags, "ts", 4)
           p == Width(flags, "period", 2)
           k == CrcSize(flags)
           c1 == <<<<"Sync", 4>>, <<"FD", 1>>, <<"CH", 1>>>>
           c2 == c1 \o Piece("Seq", s)
           c3 == c2 \o Piece("Timestamp us", t)
           c4 == c3 \o Piece("Period us", p)
           c5 == c4 \o Piece("Len", 2)
           c6 == c5 \o Piece("Payload", len)
           c7 == c6 \o Piece("CRC-16", k)
<1>1. s \in Nat /\ t \in Nat /\ p \in Nat /\ k \in Nat /\ 2 \in Nat
  BY DEF Width, CrcSize
<1>2. FormatContents(flags, len) = c7
  <2>1. Piece("Len", 2) = <<<<"Len", 2>>>>
    BY DEF Piece
  <2> QED BY <2>1, Zenon DEF FormatContents, Piece
<1>3. HeaderSize(flags) = 6 + s + t + p + 2
  BY <1>1 DEF HeaderSize, LenOff, PeriodOff, TsOff
<1>4. /\ "Seq" \in Labels /\ "Timestamp us" \in Labels /\ "Period us" \in Labels
      /\ "Len" \in Labels /\ "Payload" \in Labels /\ "CRC-16" \in Labels
  BY DEF Labels
<1>5. Adds(c1, 6)
  BY CoveredFirst
<1> HIDE DEF c1, s, t, p, k
<1>6. Adds(c2, 6 + s)
  BY <1>1, <1>4, <1>5, CoveredPiece, Zenon
<1>7. Adds(c3, 6 + s + t)
  BY <1>1, <1>4, <1>6, CoveredPiece, Zenon
<1>8. Adds(c4, 6 + s + t + p)
  BY <1>1, <1>4, <1>7, CoveredPiece, Zenon
<1>9. Adds(c5, 6 + s + t + p + 2)
  BY <1>1, <1>4, <1>8, CoveredPiece, Zenon
<1>10. Adds(c6, 6 + s + t + p + 2 + len)
  BY <1>1, <1>4, <1>9, CoveredPiece, Zenon
<1>11. Adds(c7, 6 + s + t + p + 2 + len + k)
  BY <1>1, <1>4, <1>10, CoveredPiece, Zenon
<1> HIDE DEF c7
<1> QED BY <1>1, <1>2, <1>3, <1>11 DEF k, Adds

-----------------------------------------------------------------------------
(* A buffer of n bytes, and what is stored in and cut out of it.           *)
Buffer(m, n) == m = [i \in 1 .. n |-> m[i]]

LEMMA BufferIsSeq ==
  ASSUME NEW n \in Nat, NEW m, Buffer(m, n)
  PROVE  m \in Seq({m[i] : i \in 1 .. n}) /\ Len(m) = n /\ DOMAIN m = 1 .. n
<1> DEFINE S == {m[i] : i \in 1 .. n}
<1>1. m \in [1 .. n -> S]
  BY DEF Buffer
<1> HIDE DEF S
<1>2. m \in Seq(S)
  BY <1>1, FunctionIsSeq
<1>3. DOMAIN m = 1 .. n
  BY <1>1
<1>4. Len(m) = n
  BY <1>2, <1>3
<1> QED BY <1>2, <1>3, <1>4 DEF S

LEMMA SeqIsBuffer ==
  ASSUME NEW S, NEW m \in Seq(S)
  PROVE  Buffer(m, Len(m)) /\ Len(m) \in Nat
BY DEF Buffer

LEMMA SameBuffers ==
  ASSUME NEW n, NEW m, NEW k, Buffer(m, n), Buffer(k, n), \A i \in 1 .. n : m[i] = k[i]
  PROVE  m = k
BY DEF Buffer

(* What is stored: bytes at the place, and what was there elsewhere. *)
Stored(s, m, n, at, bytes) ==
  \A i \in 1 .. n : s[i] = IF i - at \in 1 .. Len(bytes) THEN bytes[i - at] ELSE m[i]

LEMMA StoreIs ==
  ASSUME NEW n \in Nat, NEW m, Buffer(m, n), NEW at, NEW bytes
  PROVE  Buffer(Store(m, at, bytes), n) /\ Stored(Store(m, at, bytes), m, n, at, bytes)
<1> DEFINE V(i) == IF i - at \in 1 .. Len(bytes) THEN bytes[i - at] ELSE m[i]
           s == [i \in 1 .. n |-> V(i)]
<1>1. Store(m, at, bytes) = s
  <2>1. DOMAIN m = 1 .. n
    BY BufferIsSeq
  <2> QED BY <2>1 DEF Store
<1>2. \A i \in 1 .. n : s[i] = V(i)
  OBVIOUS
<1>3. Buffer(s, n)
  <2> HIDE DEF V
  <2> QED BY <1>2 DEF Buffer
<1> HIDE DEF s
<1> QED BY <1>1, <1>2, <1>3 DEF Stored

Outside(s, m, n, at, w) == \A i \in 1 .. n : i <= at \/ i > at + w => s[i] = m[i]
Inside(s, at, bytes, w) == \A i \in 1 .. w : s[at + i] = bytes[i]

LEMMA StoredWhere ==
  ASSUME NEW n \in Nat, NEW s, NEW m, NEW at \in Nat, NEW bytes, NEW w \in Nat,
         Len(bytes) = w, at + w <= n, Stored(s, m, n, at, bytes)
  PROVE  Outside(s, m, n, at, w) /\ Inside(s, at, bytes, w)
<1>1. ASSUME NEW i \in 1 .. n, i <= at \/ i > at + w PROVE s[i] = m[i]
  <2>1. ~(i - at \in 1 .. w)
    BY <1>1
  <2> QED BY <2>1 DEF Stored
<1>2. ASSUME NEW i \in 1 .. w PROVE s[at + i] = bytes[i]
  <2>1. at + i \in 1 .. n /\ (at + i) - at = i
    OBVIOUS
  <2> QED BY <2>1 DEF Stored
<1> QED BY <1>1, <1>2 DEF Outside, Inside

LEMMA CutIs ==
  ASSUME NEW n \in Nat, NEW m, Buffer(m, n), NEW a \in Nat, NEW b \in Nat,
         a >= 1, a <= b + 1, b <= n
  PROVE  /\ Buffer(SubSeq(m, a, b), b - a + 1) /\ Len(SubSeq(m, a, b)) = b - a + 1
         /\ \A i \in 1 .. b - a + 1 : SubSeq(m, a, b)[i] = m[a + i - 1]
<1> DEFINE S == {m[i] : i \in 1 .. n}
           c == SubSeq(m, a, b)
<1>1. m \in Seq(S) /\ Len(m) = n /\ \A i \in 1 .. n : m[i] \in S
  BY BufferIsSeq
<1> HIDE DEF S
<1>2. \A i \in a .. b : m[i] \in S
  BY <1>1
<1>3. /\ c \in Seq(S)
      /\ Len(c) = IF a <= b THEN b - a + 1 ELSE 0
      /\ \A i \in 1 .. b - a + 1 : c[i] = m[a + i - 1]
  BY <1>1, <1>2, SubSeqProperties
<1> HIDE DEF c
<1>4. Len(c) = b - a + 1
  BY <1>3
<1>5. Buffer(c, b - a + 1)
  BY <1>3, <1>4, SeqIsBuffer
<1> QED BY <1>3, <1>4, <1>5 DEF c

LEMMA BytesAre ==
  ASSUME NEW x, NEW n \in Nat
  PROVE  /\ Buffer(Bytes(x, n), n) /\ Len(Bytes(x, n)) = n
         /\ \A k \in 1 .. n : Bytes(x, n)[k] = <<x, k>>
<1> DEFINE b == [k \in 1 .. n |-> <<x, k>>]
<1>1. \A k \in 1 .. n : b[k] = <<x, k>>
  OBVIOUS
<1>2. Bytes(x, n) = b
  BY DEF Bytes
<1>3. Buffer(b, n)
  BY DEF Buffer
<1> HIDE DEF b
<1> QED BY <1>1, <1>2, <1>3, BufferIsSeq

-----------------------------------------------------------------------------
(* The bytes before the optional fields say what the profile is.           *)
Prefixed(m, p) ==
  /\ m[5] = <<[flags |-> p.flags, datatype |-> p.datatype], 1>>
  /\ m[6] = <<p.channels, 1>>

LEMMA TwoMore ==
  ASSUME NEW b, Buffer(b, 4), NEW x, NEW y
  PROVE  Len(b \o <<x, y>>) = 6 /\ (b \o <<x, y>>)[5] = x /\ (b \o <<x, y>>)[6] = y
<1> DEFINE S == {b[i] : i \in 1 .. 4} \cup {x, y}
           t == <<x, y>>
<1>1. b \in Seq({b[i] : i \in 1 .. 4}) /\ Len(b) = 4 /\ 4 \in Nat
  BY BufferIsSeq
<1>2. b \in Seq(S)
  BY <1>1
<1>3. t \in Seq(S) /\ Len(t) = 2 /\ t[1] = x /\ t[2] = y
  OBVIOUS
<1> HIDE DEF S, t
<1>4. /\ Len(b \o t) = Len(b) + Len(t)
      /\ \A i \in 1 .. Len(b) + Len(t) :
           (b \o t)[i] = IF i <= Len(b) THEN b[i] ELSE t[i - Len(b)]
  BY <1>2, <1>3, ConcatProperties
<1>5. Len(b \o t) = 6 /\ (b \o t)[5] = t[1] /\ (b \o t)[6] = t[2]
  BY <1>1, <1>3, <1>4
<1> QED BY <1>3, <1>5 DEF t

LEMMA InitMemIs ==
  ASSUME NEW p, p.cap \in Nat
  PROVE  Buffer(InitMem(p), p.cap) /\ (InitRoom(p) => Prefixed(InitMem(p), p))
<1> DEFINE fd == <<[flags |-> p.flags, datatype |-> p.datatype], 1>>
           ch == <<p.channels, 1>>
           pre == Bytes("CBRT", 4) \o <<fd, ch>>
           b == IF InitRoom(p) THEN pre ELSE <<>>
           z == [i \in 1 .. p.cap |-> <<0, 0>>]
<1>1. InitMem(p) = Store(z, 0, b)
  BY Zenon DEF InitMem
<1>2. Buffer(z, p.cap)
  BY DEF Buffer
<1> HIDE DEF b, z, fd, ch
<1>3. Buffer(InitMem(p), p.cap) /\ Stored(InitMem(p), z, p.cap, 0, b)
  BY <1>1, <1>2, StoreIs
<1>4. ASSUME InitRoom(p) PROVE Prefixed(InitMem(p), p)
  <2>1. b = pre
    BY <1>4 DEF b
  <2>2. Len(pre) = 6 /\ pre[5] = fd /\ pre[6] = ch
    <3>1. Buffer(Bytes("CBRT", 4), 4)
      BY BytesAre
    <3> QED BY <3>1, TwoMore
  <2>3. 6 <= p.cap
    <3>1. HeaderSize(p.flags) + CrcSize(p.flags) <= p.cap
      BY <1>4 DEF InitRoom
    <3>2. HeaderSize(p.flags) >= 6 /\ CrcSize(p.flags) \in Nat /\ HeaderSize(p.flags) \in Nat
      BY DEF HeaderSize, LenOff, PeriodOff, TsOff, CrcSize, Width
    <3> QED BY <3>1, <3>2
  <2> HIDE DEF pre
  <2>4. Inside(InitMem(p), 0, b, 6)
    <3>1. /\ 0 \in Nat /\ 6 \in Nat /\ 0 + 6 <= p.cap /\ Len(b) = 6
          /\ Stored(InitMem(p), z, p.cap, 0, b)
      BY <1>3, <2>1, <2>2, <2>3
    <3> QED BY <3>1, StoredWhere
  <2>5. 5 \in 1 .. 6 /\ 6 \in 1 .. 6 /\ 0 + 5 = 5 /\ 0 + 6 = 6
    OBVIOUS
  <2>6. InitMem(p)[5] = b[5] /\ InitMem(p)[6] = b[6]
    BY <2>4, <2>5 DEF Inside
  <2> QED BY <2>1, <2>2, <2>6 DEF Prefixed, fd, ch
<1> QED BY <1>3, <1>4
-----------------------------------------------------------------------------
(* The place of the k-th byte of the i-th of L samples of n bytes.         *)
LEMMA Place ==
  ASSUME NEW n \in Nat, NEW i \in Nat, i >= 1, NEW k \in 1 .. n
  PROVE  /\ (i - 1) * n + k \in Nat /\ (i - 1) * n + k >= 1
         /\ \A L \in Nat : i <= L => (i - 1) * n + k <= n * L
         /\ \A L \in Nat : i > L => (i - 1) * n + k > n * L
<1> DEFINE P == (i - 1) * n
<1>1. P \in Nat
  OBVIOUS
<1>2. ASSUME NEW L \in Nat, i <= L PROVE P + k <= n * L
  <2>1. n * L = P + n + n * (L - i)
    OBVIOUS
  <2>2. n * (L - i) \in Nat
    BY <1>2
  <2> QED BY <1>1, <2>1, <2>2
<1>3. ASSUME NEW L \in Nat, i > L PROVE P + k > n * L
  <2>1. P = n * L + n * (i - 1 - L)
    OBVIOUS
  <2>2. n * (i - 1 - L) \in Nat /\ n * L \in Nat
    BY <1>3
  <2> QED BY <1>1, <2>1, <2>2
<1> HIDE DEF P
<1> QED BY <1>1, <1>2, <1>3 DEF P

LEMMA PlaceBack ==
  ASSUME NEW n \in Nat, NEW i \in Nat, i >= 1, NEW k \in 1 .. n
  PROVE  /\ (((i - 1) * n + k - 1) \div n) + 1 = i
         /\ (((i - 1) * n + k - 1) % n) + 1 = k
<1> DEFINE x == (i - 1) * n + k - 1
           d == x \div n
           r == x % n
<1>1. n \in Nat \ {0} /\ x \in Int
  OBVIOUS
<1>2. d \in Int /\ r \in 0 .. n - 1 /\ x = n * d + r
  BY <1>1, DivMod
<1> HIDE DEF d, r
<1>3. n * (d - (i - 1)) = k - 1 - r
  BY <1>1, <1>2
<1>4. d - (i - 1) = 0 /\ k - 1 - r = 0
  <2>1. d - (i - 1) \in Int /\ k - 1 - r \in Int /\ -n < k - 1 - r /\ k - 1 - r < n
    BY <1>1, <1>2
  <2> QED BY <1>1, <1>3, <2>1, NoSmallMultiple
<1>5. d + 1 = i /\ r + 1 = k
  BY <1>1, <1>2, <1>4
<1> QED BY <1>5 DEF d, r

(* The samples xs, of n bytes each, lie from H on. *)
LaidAt(m, H, n, xs, i, k) == m[H + ((i - 1) * n + k)] = <<xs[i], k>>

Laid(m, H, n, xs) == \A i \in 1 .. Len(xs) : \A k \in 1 .. n : LaidAt(m, H, n, xs, i, k)

LEMMA LaidMore ==
  ASSUME NEW c \in Nat, NEW m, NEW s, NEW H \in Nat, NEW n \in Nat, NEW xs, NEW ys, NEW zs,
         Len(xs) \in Nat, Len(ys) \in Nat, Len(zs) = Len(xs) + Len(ys),
         \A i \in 1 .. Len(xs) : zs[i] = xs[i],
         \A i \in 1 .. Len(ys) : zs[Len(xs) + i] = ys[i],
         Laid(m, H, n, xs), NEW b, Laid(b, 0, n, ys),
         Outside(s, m, c, H + n * Len(xs), n * Len(ys)),
         Inside(s, H + n * Len(xs), b, n * Len(ys)),
         H + n * Len(xs) + n * Len(ys) <= c
  PROVE  Laid(s, H, n, zs)
<1> DEFINE x == Len(xs)
           y == Len(ys)
           X == n * x
           Y == n * y
<1>1. SUFFICES ASSUME NEW i \in 1 .. x + y, NEW k \in 1 .. n
               PROVE  LaidAt(s, H, n, zs, i, k)
  BY DEF Laid
<1>2. X \in Nat /\ Y \in Nat /\ x \in Nat /\ y \in Nat /\ i \in Nat /\ i >= 1
      /\ H + X + Y <= c
  OBVIOUS
<1>3. CASE i <= x
  <2> DEFINE q == (i - 1) * n + k
  <2>1. q \in Nat /\ q >= 1 /\ q <= X
    BY <1>2, <1>3, Place
  <2>2. m[H + q] = <<xs[i], k>>
    <3>1. i \in 1 .. Len(xs)
      BY <1>2, <1>3
    <3>2. LaidAt(m, H, n, xs, i, k)
      BY <3>1, Zenon DEF Laid
    <3> QED BY <3>2, Zenon DEF LaidAt
  <2> HIDE DEF q, X, Y
  <2>3. H + q \in 1 .. c /\ H + q <= H + X
    BY <1>2, <2>1
  <2>4. s[H + q] = m[H + q]
    BY <2>3 DEF Outside, X, Y
  <2>5. zs[i] = xs[i]
    BY <1>2, <1>3
  <2>6. s[H + q] = <<zs[i], k>>
    BY <2>2, <2>4, <2>5, Zenon
  <2>7. q = (i - 1) * n + k
    BY DEF q
  <2> QED BY <2>6, <2>7, Zenon DEF LaidAt
<1>4. CASE i > x
  <2> DEFINE j == i - x
             q == (j - 1) * n + k
  <2>1. j \in 1 .. y /\ x + j = i /\ j \in Nat /\ j >= 1 /\ j <= y
    BY <1>2, <1>4
  <2>2. (i - 1) * n + k = X + q
    BY <1>2, <2>1
  <2> HIDE DEF j
  <2>3. q \in Nat /\ q >= 1 /\ q <= Y
    BY <1>2, <2>1, Place
  <2>4. b[0 + q] = <<ys[j], k>>
    <3>1. LaidAt(b, 0, n, ys, j, k)
      BY <2>1 DEF Laid
    <3> QED BY <3>1, Zenon DEF LaidAt
  <2> HIDE DEF q, X, Y
  <2>5. q \in 1 .. Y /\ 0 + q = q /\ H + (X + q) = (H + X) + q
    BY <1>2, <2>3
  <2>6. s[(H + X) + q] = b[q]
    BY <2>5 DEF Inside, X, Y
  <2>7. zs[i] = ys[j]
    BY <2>1
  <2> QED BY <2>2, <2>4, <2>5, <2>6, <2>7 DEF LaidAt
<1> QED BY <1>2, <1>3, <1>4

-----------------------------------------------------------------------------
(* L samples of n bytes are whole rows of ch samples exactly when their    *)
(* bytes are, and then the parser counts all of them.                      *)
LEMMA Remainders ==
  ASSUME NEW n \in Nat \ {0}, NEW ch \in Nat \ {0}, NEW L \in Nat
  PROVE  /\ ch * n \in Nat \ {0}
         /\ (n * L) % (ch * n) = n * (L % ch)
         /\ (n * L) \div (ch * n) = L \div ch
<1> DEFINE D == ch * n
           q == L \div ch
           r == L % ch
           x == n * L
           d == x \div D
           rest == x % D
<1>1. q \in Int /\ r \in 0 .. ch - 1 /\ L = ch * q + r
  BY DivMod
<1>2. D \in Nat \ {0} /\ x \in Int
  OBVIOUS
<1> HIDE DEF q, r
<1>3. n * r \in Nat /\ n * r < D
  <2>1. D = n * r + n * (ch - r)
    BY <1>1
  <2>2. n * (ch - r) \in Nat /\ n * (ch - r) # 0
    BY <1>1
  <2>3. n * r \in Nat
    BY <1>1
  <2> QED BY <2>1, <2>2, <2>3
<1>4. x = D * q + n * r
  <2>1. n * (ch * q + r) = (ch * n) * q + n * r
    BY <1>1
  <2> QED BY <1>1, <2>1
<1> HIDE DEF D, x
<1>5. d \in Int /\ rest \in 0 .. D - 1 /\ x = D * d + rest
  BY <1>2, DivMod
<1> HIDE DEF d, rest
<1>6. D * (q - d) = rest - n * r
  BY <1>1, <1>2, <1>3, <1>4, <1>5
<1>7. q - d = 0 /\ rest - n * r = 0
  <2>1. q - d \in Int /\ rest - n * r \in Int /\ -D < rest - n * r /\ rest - n * r < D
    BY <1>1, <1>2, <1>3, <1>5
  <2> QED BY <1>2, <1>6, <2>1, NoSmallMultiple
<1>8. d = q /\ rest = n * r
  BY <1>1, <1>3, <1>5, <1>7
<1> QED BY <1>2, <1>8 DEF d, rest, D, x, q, r

LEMMA WholeRows ==
  ASSUME NEW n \in Nat \ {0}, NEW ch \in Nat \ {0}, NEW L \in Nat
  PROVE  /\ (n * L) % (ch * n) = 0 <=> L % ch = 0
         /\ L % ch = 0 => ((n * L) \div (ch * n)) * ch = L
<1> DEFINE q == L \div ch
           r == L % ch
<1>1. q \in Int /\ r \in 0 .. ch - 1 /\ L = ch * q + r
  BY DivMod
<1>2. (n * L) % (ch * n) = n * r /\ (n * L) \div (ch * n) = q
  BY Remainders
<1> HIDE DEF q, r
<1>3. n * r = 0 <=> r = 0
  BY <1>1
<1>4. r = 0 => q * ch = L
  BY <1>1
<1> QED BY <1>2, <1>3, <1>4 DEF r

LEMMA Widths ==
  ASSUME NEW dt \in Datatypes, dt # "bool"
  PROVE  BytesPerDatatype[dt] \in Nat \ {0} /\ ByteCount(dt) = BytesPerDatatype[dt]
BY DEF Datatypes, ByteCount, BytesPerDatatype

(* The i-th sample is read back from where its bytes lie. *)
LEMMA NumberIs ==
  ASSUME NEW P, NEW n \in Nat \ {0}, NEW xs, Len(xs) \in Nat, Buffer(P, n * Len(xs)),
         Laid(P, 0, n, xs), NEW i \in 1 .. Len(xs)
  PROVE  Number(SubSeq(P, (i - 1) * n + 1, (i - 1) * n + n)) = xs[i]
<1> DEFINE L == Len(xs)
           N == n * L
           a == (i - 1) * n
           b == SubSeq(P, a + 1, a + n)
<1>1. i \in Nat /\ i >= 1 /\ i <= L /\ n \in 1 .. n /\ 1 \in 1 .. n /\ L \in Nat
  OBVIOUS
<1>2. a \in Nat /\ N \in Nat /\ a + n <= N
  BY <1>1, Place
<1>3. ASSUME NEW k \in 1 .. n PROVE P[a + k] = <<xs[i], k>>
  <2>1. LaidAt(P, 0, n, xs, i, k)
    BY Zenon DEF Laid
  <2>2. 0 + (a + k) = a + k
    BY <1>2
  <2> HIDE DEF a
  <2>3. P[0 + (a + k)] = <<xs[i], k>>
    BY <2>1 DEF LaidAt, a
  <2> QED BY <2>2, <2>3
<1> HIDE DEF a, N
<1>4. /\ a + 1 \in Nat /\ a + n \in Nat /\ a + 1 >= 1 /\ a + 1 <= (a + n) + 1
      /\ (a + n) - (a + 1) + 1 = n
  BY <1>2
<1>5. Buffer(P, N)
  BY DEF N
<1>6. /\ Buffer(b, (a + n) - (a + 1) + 1) /\ Len(b) = (a + n) - (a + 1) + 1
      /\ \A k \in 1 .. (a + n) - (a + 1) + 1 : b[k] = P[(a + 1) + k - 1]
  BY <1>2, <1>4, <1>5, CutIs
<1> HIDE DEF b
<1>7. Buffer(b, n) /\ Len(b) = n /\ \A k \in 1 .. n : b[k] = P[a + k]
  <2>1. \A k \in 1 .. n : (a + 1) + k - 1 = a + k
    BY <1>2
  <2> QED BY <1>4, <1>6, <2>1
<1>8. \A k \in 1 .. n : b[k] = <<xs[i], k>>
  BY <1>3, <1>7
<1>9. b = Bytes(xs[i], n)
  <2>1. n \in Nat
    OBVIOUS
  <2>2. Buffer(Bytes(xs[i], n), n) /\ \A k \in 1 .. n : Bytes(xs[i], n)[k] = <<xs[i], k>>
    BY <2>1, BytesAre
  <2> QED BY <1>7, <1>8, <2>2, SameBuffers
<1>10. b[1][1] = xs[i]
  BY <1>1, <1>8
<1>11. Number(b) = xs[i]
  BY <1>7, <1>9, <1>10 DEF Number
<1> QED BY <1>11 DEF b, a

LEMMA SampleIs ==
  ASSUME NEW dt \in Datatypes, dt # "bool", NEW P, NEW xs, Len(xs) \in Nat,
         Buffer(P, ByteCount(dt) * Len(xs)), Laid(P, 0, ByteCount(dt), xs),
         NEW i \in 1 .. Len(xs)
  PROVE  Sample(dt, P, i - 1) = IF dt = "f16" THEN HalfToSingle(xs[i]) ELSE xs[i]
<1> DEFINE n == BytesPerDatatype[dt]
<1>1. n \in Nat \ {0} /\ ByteCount(dt) = n
  BY Widths
<1> HIDE DEF n
<1>2. Number(SubSeq(P, (i - 1) * n + 1, (i - 1) * n + n)) = xs[i]
  BY <1>1, NumberIs
<1> QED BY <1>2 DEF Sample, n

(* All the values of a frame whose rows are whole. *)
LEMMA SamplesRead ==
  ASSUME NEW dt \in Datatypes, dt # "bool", NEW ch \in Nat \ {0}, NEW P, NEW xs, Len(xs) \in Nat,
         Buffer(P, ByteCount(dt) * Len(xs)), Laid(P, 0, ByteCount(dt), xs),
         Len(xs) % ch = 0, NEW v, v = MaterializeValues(dt, ch, P)
  PROVE  /\ DOMAIN v = 1 .. Len(xs) /\ Len(v) = Len(xs)
         /\ \A i \in 1 .. Len(xs) : v[i] = IF dt = "f16" THEN HalfToSingle(xs[i]) ELSE xs[i]
<1> DEFINE n == BytesPerDatatype[dt]
           L == Len(xs)
           V(i) == IF dt = "bool" THEN Bit(P, i - 1) ELSE Sample(dt, P, i - 1)
<1>1. n \in Nat \ {0} /\ ByteCount(dt) = n /\ L \in Nat
  BY Widths
<1> HIDE DEF n, L
<1>2. n * L \in Nat
  BY <1>1
<1>3. Len(P) = n * L
  BY <1>1, <1>2, BufferIsSeq DEF L
<1>4. SampleCount(Len(P), dt, ch) * ch = L
  <2>1. L % ch = 0
    BY DEF L
  <2>2. ((n * L) \div (ch * n)) * ch = L
    BY <1>1, <2>1, WholeRows
  <2>3. SampleCount(Len(P), dt, ch) = Len(P) \div (ch * n)
    BY DEF SampleCount, n
  <2> QED BY <1>3, <2>2, <2>3
<1>5. v = [i \in 1 .. L |-> V(i)]
  BY <1>4, Zenon DEF MaterializeValues
<1> HIDE DEF V
<1>6. DOMAIN v = 1 .. L /\ \A i \in 1 .. L : v[i] = V(i)
  BY <1>5
<1>7. Len(v) = L
  <2>1. v = [i \in 1 .. L |-> v[i]]
    BY <1>5
  <2> QED BY <1>1, <2>1, BufferIsSeq DEF Buffer
<1>8. ASSUME NEW i \in 1 .. L PROVE V(i) = IF dt = "f16" THEN HalfToSingle(xs[i]) ELSE xs[i]
  <2>1. V(i) = Sample(dt, P, i - 1)
    BY DEF V
  <2> QED BY <2>1, SampleIs DEF L
<1> QED BY <1>6, <1>7, <1>8 DEF L

-----------------------------------------------------------------------------
(* The bits xs lie in the q bytes from H on, eight in each.                *)
BitAt(m, H, xs, b, j) == m[H + b][1][j] = xs[8 * b - 8 + j]

BitsIn(m, H, q, xs) == \A b \in 1 .. q : \A j \in 1 .. 8 : BitAt(m, H, xs, b, j)

LEMMA PackedIs ==
  ASSUME NEW bits, Buffer(bits, Len(bits)), Len(bits) \in Nat, NEW n \in Nat, 8 * n <= Len(bits)
  PROVE  Len(Packed(bits, n)) = n /\ Buffer(Packed(bits, n), n) /\ BitsIn(Packed(bits, n), 0, n, bits)
<1> DEFINE V(k) == <<SubSeq(bits, 8 * k - 7, 8 * k), 1>>
           p == Packed(bits, n)
<1>1. p = [k \in 1 .. n |-> V(k)]
  BY DEF Packed
<1> HIDE DEF V, p
<1>2. Buffer(p, n) /\ \A k \in 1 .. n : p[k] = V(k)
  BY <1>1 DEF Buffer
<1>3. Len(p) = n
  BY <1>2, BufferIsSeq
<1>4. ASSUME NEW b \in 1 .. n, NEW j \in 1 .. 8 PROVE p[0 + b][1][j] = bits[8 * b - 8 + j]
  <2> DEFINE L == Len(bits)
             x == 8 * b - 7
             y == 8 * b
             c == SubSeq(bits, x, y)
  <2>1. /\ x \in Nat /\ y \in Nat /\ x >= 1 /\ x <= y + 1 /\ y <= L /\ L \in Nat
        /\ y - x + 1 = 8 /\ x + j - 1 = 8 * b - 8 + j /\ 0 + b = b
    OBVIOUS
  <2> HIDE DEF x, y
  <2>2. Buffer(bits, L)
    OBVIOUS
  <2> HIDE DEF L
  <2>3. \A i \in 1 .. y - x + 1 : c[i] = bits[x + i - 1]
    BY <2>1, <2>2, CutIs
  <2>4. c[j] = bits[x + j - 1]
    BY <2>1, <2>3
  <2>5. p[b] = <<c, 1>>
    BY <1>2 DEF V, x, y
  <2> HIDE DEF c
  <2> QED BY <2>1, <2>4, <2>5
<1>5. BitsIn(p, 0, n, bits)
  BY <1>4 DEF BitsIn, BitAt
<1> QED BY <1>2, <1>3, <1>5 DEF p

(* Bits that follow the q bytes that are full: acc of them wait. *)
LEMMA BitsMore ==
  ASSUME NEW c \in Nat, NEW m, NEW s, NEW H \in Nat, NEW q \in Nat, NEW n \in Nat,
         NEW xs, NEW zs, Len(xs) \in Nat, 8 * q <= Len(xs),
         \A i \in 1 .. Len(xs) : zs[i] = xs[i], BitsIn(m, H, q, xs),
         NEW bits, NEW b, BitsIn(b, 0, n, bits), \A i \in 1 .. 8 * n : zs[8 * q + i] = bits[i],
         Outside(s, m, c, H + q, n), Inside(s, H + q, b, n), H + q + n <= c
  PROVE  BitsIn(s, H, q + n, zs)
<1>1. SUFFICES ASSUME NEW a \in 1 .. q + n, NEW j \in 1 .. 8 PROVE BitAt(s, H, zs, a, j)
  BY DEF BitsIn
<1>2. CASE a <= q
  <2>1. a \in 1 .. q /\ H + a \in 1 .. c /\ H + a <= H + q /\ 8 * a - 8 + j \in 1 .. Len(xs)
    BY <1>2
  <2>2. BitAt(m, H, xs, a, j)
    BY <2>1 DEF BitsIn
  <2>3. s[H + a] = m[H + a]
    BY <2>1 DEF Outside
  <2>4. zs[8 * a - 8 + j] = xs[8 * a - 8 + j]
    BY <2>1
  <2> QED BY <2>2, <2>3, <2>4 DEF BitAt
<1>3. CASE a > q
  <2> DEFINE k == a - q
  <2>1. /\ k \in 1 .. n /\ H + a = (H + q) + k /\ 8 * k - 8 + j \in 1 .. 8 * n /\ 0 + k = k
        /\ 8 * a - 8 + j = 8 * q + (8 * k - 8 + j)
    BY <1>3
  <2> HIDE DEF k
  <2>2. BitAt(b, 0, bits, k, j)
    BY <2>1 DEF BitsIn
  <2>3. s[(H + q) + k] = b[k]
    BY <2>1 DEF Inside
  <2>4. zs[8 * q + (8 * k - 8 + j)] = bits[8 * k - 8 + j]
    BY <2>1
  <2> QED BY <2>1, <2>2, <2>3, <2>4 DEF BitAt
<1> QED BY <1>2, <1>3

LEMMA BitIs ==
  ASSUME NEW P, NEW q \in Nat, NEW xs, BitsIn(P, 0, q, xs), NEW i \in 1 .. 8 * q
  PROVE  Bit(P, i - 1) = xs[i]
<1> DEFINE b == ((i - 1) \div 8) + 1
           j == ((i - 1) % 8) + 1
<1>1. b \in 1 .. q /\ j \in 1 .. 8 /\ 8 * b - 8 + j = i /\ 0 + b = b
  OBVIOUS
<1>2. Bit(P, i - 1) = P[b][1][j]
  BY DEF Bit
<1> HIDE DEF b, j
<1>3. BitAt(P, 0, xs, b, j)
  BY <1>1 DEF BitsIn
<1> QED BY <1>1, <1>2, <1>3 DEF BitAt

ValuesAre(v, n, xs) == DOMAIN v = 1 .. n /\ Len(v) = n /\ \A i \in 1 .. n : v[i] = xs[i]

LEMMA BitsRead ==
  ASSUME NEW ch \in Nat \ {0}, NEW q \in Nat, NEW P, NEW xs, Buffer(P, q),
         BitsIn(P, 0, q, xs), (8 * q) % ch = 0
  PROVE  ValuesAre(MaterializeValues("bool", ch, P), 8 * q, xs)
<1> DEFINE L == 8 * q
           v == MaterializeValues("bool", ch, P)
           V(i) == Bit(P, i - 1)
<1>1. L \in Nat /\ Len(P) = q
  <2>1. Len(P) = q
    BY BufferIsSeq
  <2> QED BY <2>1
<1>2. SampleCount(Len(P), "bool", ch) * ch = L
  <2>1. SampleCount(Len(P), "bool", ch) = L \div ch
    BY <1>1 DEF SampleCount
  <2>2. L = ch * (L \div ch) + (L % ch) /\ L \div ch \in Int
    BY <1>1, DivMod
  <2>3. L % ch = 0
    OBVIOUS
  <2> DEFINE d == L \div ch
             r == L % ch
  <2>4. L = ch * d + r /\ d \in Int /\ r = 0 /\ SampleCount(Len(P), "bool", ch) = d
    BY <2>1, <2>2, <2>3
  <2> HIDE DEF d, r
  <2> QED BY <2>4
<1> HIDE DEF L
<1>3. v = [i \in 1 .. L |-> V(i)]
  <2>1. v = [i \in 1 .. SampleCount(Len(P), "bool", ch) * ch |-> V(i)]
    BY DEF MaterializeValues
  <2> HIDE DEF V
  <2> QED BY <1>2, <2>1
<1> HIDE DEF V, v
<1>4. DOMAIN v = 1 .. L /\ \A i \in 1 .. L : v[i] = V(i)
  BY <1>3
<1>5. Len(v) = L
  <2>1. v = [i \in 1 .. L |-> v[i]]
    BY <1>3
  <2> QED BY <1>1, <2>1, BufferIsSeq DEF Buffer
<1>6. ASSUME NEW i \in 1 .. L PROVE V(i) = xs[i]
  BY BitIs DEF V, L
<1> QED BY <1>4, <1>5, <1>6 DEF ValuesAre, L, v

-----------------------------------------------------------------------------
(* Rows of zeros that fill the last byte up, as there are L whole rows.    *)
FillsUp(A, ch, z) == (A + z * ch) % 8 = 0

LEMMA SomeFills ==
  ASSUME NEW A \in Nat, NEW ch \in Nat \ {0}, NEW L \in Nat, NEW p \in Nat, L = 8 * p + A,
         L % ch = 0
  PROVE  \E z \in 0 .. 7 : FillsUp(A, ch, z)
<1> DEFINE q == L \div ch
           r == L % ch
           z == (8 - (q % 8)) % 8
           w == (q + z) \div 8
<1>1. q \in Int /\ L = ch * q + r /\ r = 0
  BY DivMod
<1> HIDE DEF q, r
<1>2. z \in 0 .. 7 /\ q + z = 8 * w /\ w \in Int
  BY <1>1
<1> HIDE DEF z, w
<1> DEFINE k == ch * w - p
<1>3. A + z * ch = 8 * k /\ k \in Int
  <2>1. ch * q + z * ch = ch * (q + z)
    BY <1>1, <1>2
  <2>2. ch * (8 * w) = 8 * (ch * w)
    BY <1>2
  <2>3. ch * q + z * ch = 8 * (ch * w)
    BY <1>2, <2>1, <2>2
  <2> DEFINE x == ch * q
             y == z * ch
             u == ch * w
  <2>4. x \in Int /\ y \in Int /\ u \in Int /\ x + y = 8 * u /\ L = x + r
    BY <1>1, <1>2, <2>3
  <2> HIDE DEF x, y, u
  <2>5. A + y = 8 * (u - p)
    BY <1>1, <2>4
  <2> QED BY <2>4, <2>5 DEF u, y
<1> HIDE DEF k
<1>4. (8 * k) % 8 = 0
  BY <1>3
<1> QED BY <1>2, <1>3, <1>4 DEF FillsUp

LEMMA FewestFills ==
  ASSUME NEW A, NEW ch, \E z \in 0 .. 7 : FillsUp(A, ch, z)
  PROVE  \E z \in 0 .. 7 : FillsUp(A, ch, z) /\ \A y \in 0 .. z - 1 : ~FillsUp(A, ch, y)
<1> DEFINE T == {z \in 0 .. 7 : FillsUp(A, ch, z)}
<1>1. T \subseteq Nat /\ T # {}
  OBVIOUS
<1>2. PICK z \in T : \A y \in T : z <= y
  <2> HIDE DEF T
  <2> QED BY <1>1, LeastNumber, Zenon
<1>3. z \in 0 .. 7 /\ FillsUp(A, ch, z)
  OBVIOUS
<1>4. ASSUME NEW y \in 0 .. z - 1 PROVE ~FillsUp(A, ch, y)
  <2>1. y \in 0 .. 7 /\ ~(z <= y)
    BY <1>3
  <2> QED BY <1>2, <2>1
<1> QED BY <1>3, <1>4

LEMMA PaddingIs ==
  ASSUME NEW L \in Nat, NEW p \in Nat, Len(acc) \in Nat, L = 8 * p + Len(acc),
         profile.channels \in Nat \ {0}, L % profile.channels = 0
  PROVE  /\ Padding \in Nat /\ (Len(acc) + Padding) % 8 = 0
         /\ (L + Padding) % profile.channels = 0
<1> DEFINE A == Len(acc)
           ch == profile.channels
           Best(z) == FillsUp(A, ch, z) /\ \A y \in 0 .. z - 1 : ~FillsUp(A, ch, y)
           rows == CHOOSE z \in 0 .. 7 : Best(z)
<1>1. Padding = rows * ch
  BY Zenon DEF Padding, FillsUp
<1>2. \E z \in 0 .. 7 : Best(z)
  <2>1. A \in Nat /\ ch \in Nat \ {0} /\ L = 8 * p + A /\ L % ch = 0
    OBVIOUS
  <2> HIDE DEF A, ch
  <2>2. \E z \in 0 .. 7 : FillsUp(A, ch, z)
    BY <2>1, SomeFills
  <2> QED BY <2>2, FewestFills
<1>3. rows \in 0 .. 7 /\ Best(rows)
  <2> HIDE DEF Best
  <2> QED BY <1>2, Zenon
<1>4. ch \in Nat \ {0} /\ A \in Nat
  OBVIOUS
<1> HIDE DEF rows
<1>5. FillsUp(A, ch, rows)
  BY <1>3
<1> HIDE DEF A, ch
<1>6. rows * ch \in Nat
  BY <1>3, <1>4
<1>7. (L + rows * ch) % ch = 0
  <2> DEFINE q == L \div ch
             r == L % ch
  <2>1. q \in Int /\ L = ch * q + r /\ r = 0
    <3>1. L % ch = 0
      BY DEF ch
    <3> QED BY <1>4, <3>1, DivMod
  <2> HIDE DEF q, r
  <2>2. L + rows * ch = ch * (q + rows) /\ q + rows \in Int
    BY <1>3, <1>4, <2>1
  <2> QED BY <1>4, <2>2, MultipleMod
<1> QED BY <1>1, <1>5, <1>6, <1>7 DEF FillsUp, A, ch

(* Without bits that wait there is nothing to fill up. *)
LEMMA NoPadding ==
  ASSUME acc = <<>>, profile.channels \in Nat \ {0}
  PROVE  Padding = 0
<1> DEFINE A == Len(acc)
           ch == profile.channels
           Best(z) == FillsUp(A, ch, z) /\ \A y \in 0 .. z - 1 : ~FillsUp(A, ch, y)
           rows == CHOOSE z \in 0 .. 7 : Best(z)
<1>1. Padding = rows * ch
  BY Zenon DEF Padding, FillsUp
<1>2. A = 0 /\ ch \in Nat \ {0}
  OBVIOUS
<1> HIDE DEF A, ch
<1>3. FillsUp(A, ch, 0)
  BY <1>2 DEF FillsUp
<1>4. 0 \in 0 .. 7 /\ Best(0)
  BY <1>3
<1>5. rows \in 0 .. 7 /\ Best(rows)
  <2> HIDE DEF Best
  <2> QED BY <1>4, Zenon
<1>6. rows = 0
  <2> SUFFICES ASSUME rows # 0 PROVE FALSE
    OBVIOUS
  <2> HIDE DEF rows
  <2>1. 0 \in 0 .. rows - 1
    BY <1>5
  <2> QED BY <1>3, <1>5, <2>1
<1> HIDE DEF rows
<1>7. rows * ch = 0
  BY <1>2, <1>6
<1> QED BY <1>1, <1>7

-----------------------------------------------------------------------------
(* A finished frame of the profile p with a payload of len bytes, where    *)
(* the encoder puts its fields.                                            *)
Built(buf, p, len, sq, q) ==
  LET flags == p.flags
      end   == HeaderSize(flags) + len
  IN /\ Buffer(buf, end + CrcSize(flags)) /\ Prefixed(buf, p)
     /\ "seq" \in flags => buf[7] = <<sq, 1>>
     /\ "ts" \in flags => buf[TsOff(flags) + 1] = <<q.ts, 1>>
     /\ "period" \in flags => buf[PeriodOff(flags) + 1] = <<q.period, 1>>
     /\ buf[LenOff(flags) + 1] = <<len, 1>>
     /\ "crc" \in flags => SubSeq(buf, end + 1, end + 2) = Crc(SubSeq(buf, 5, end))

(* What the parser makes of the fields it has found.                       *)
Record(buf, flags, dt, ch, start, len) ==
  [kind |-> "Complete", end |-> (start + len) + CrcSize(flags),
   seq |-> IF "seq" \in flags THEN {buf[7][1]} ELSE {},
   ts |-> IF "ts" \in flags THEN {buf[TsOff(flags) + 1][1]} ELSE {},
   period |-> IF "period" \in flags THEN {buf[PeriodOff(flags) + 1][1]} ELSE {},
   contents |-> FormatContents(flags, len),
   values |-> MaterializeValues(dt, ch, SubSeq(buf, start + 1, start + len))]

Parsed(buf, flags, dt, ch, start, len) ==
  IF Len(buf) < 6 THEN NeedMore
  ELSE IF dt \notin Datatypes \/ ch \notin 1 .. 64 THEN Reject
  ELSE IF Len(buf) < start THEN NeedMore
  ELSE IF ~Exact(len, dt, ch) THEN Reject
  ELSE IF Len(buf) < (start + len) + CrcSize(flags) THEN NeedMore
  ELSE IF "crc" \in flags /\ SubSeq(buf, (start + len) + 1, (start + len) + 2)
                               # Crc(SubSeq(buf, 5, start + len))
       THEN Reject
  ELSE Record(buf, flags, dt, ch, start, len)

LEMMA ParseWith ==
  ASSUME NEW buf, NEW flags, NEW dt, NEW ch, NEW len,
         buf[5][1].flags = flags, buf[5][1].datatype = dt, buf[6][1] = ch,
         buf[LenOff(flags) + 1][1] = len
  PROVE  Parse(buf) = Parsed(buf, flags, dt, ch, HeaderSize(flags), len)
<1>1. Parse(buf) = Parsed(buf, buf[5][1].flags, buf[5][1].datatype, buf[6][1],
                          HeaderSize(buf[5][1].flags), buf[LenOff(buf[5][1].flags) + 1][1])
  BY Zenon DEF Parse, Parsed, Record, HeaderSize, LenOff, PeriodOff, TsOff
<1> QED BY <1>1, Zenon

(* The parser rejects it or reads it as it was meant. *)
LEMMA ParseIs ==
  ASSUME NEW buf, NEW p, NEW len \in Nat, NEW sq, NEW q, Built(buf, p, len, sq, q),
         p.datatype \in Datatypes, p.channels \in 1 .. 64
  PROVE  LET payload == SubSeq(buf, HeaderSize(p.flags) + 1, HeaderSize(p.flags) + len)
             r == Parse(buf)
         IN IF ~Exact(len, p.datatype, p.channels) THEN r = Reject
            ELSE /\ r.kind = "Complete" /\ r.end = (HeaderSize(p.flags) + len) + CrcSize(p.flags)
                 /\ r.end = Len(buf) /\ r.contents = FormatContents(p.flags, len)
                 /\ r.seq = (IF "seq" \in p.flags THEN {sq} ELSE {})
                 /\ r.ts = (IF "ts" \in p.flags THEN {q.ts} ELSE {})
                 /\ r.period = (IF "period" \in p.flags THEN {q.period} ELSE {})
                 /\ r.values = MaterializeValues(p.datatype, p.channels, payload)
<1> DEFINE flags == p.flags
           dt == p.datatype
           ch == p.channels
           start == HeaderSize(flags)
           k == CrcSize(flags)
           rec == Record(buf, flags, dt, ch, start, len)
<1>1. Prefixed(buf, p) /\ buf[LenOff(flags) + 1] = <<len, 1>>
  BY DEF Built
<1>2. /\ buf[5][1].flags = flags /\ buf[5][1].datatype = dt /\ buf[6][1] = ch
      /\ buf[LenOff(flags) + 1][1] = len
  BY <1>1 DEF Prefixed
<1>3. Parse(buf) = Parsed(buf, flags, dt, ch, start, len)
  <2> HIDE DEF flags, dt, ch
  <2> QED BY <1>2, ParseWith
<1>4. start \in Nat /\ start >= 6 /\ k \in Nat
  BY DEF HeaderSize, LenOff, PeriodOff, TsOff, CrcSize, Width
<1>5. Len(buf) = (start + len) + k
  <2>1. Buffer(buf, (start + len) + k)
    BY DEF Built
  <2> HIDE DEF start, k
  <2>2. (start + len) + k \in Nat
    BY <1>4
  <2> QED BY <2>1, <2>2, BufferIsSeq
<1>6. /\ ~(Len(buf) < 6) /\ ~(Len(buf) < start) /\ ~(Len(buf) < (start + len) + k)
  <2> HIDE DEF start, k
  <2> QED BY <1>4, <1>5
<1>7. dt \in Datatypes /\ ch \in 1 .. 64
  OBVIOUS
<1>8. "crc" \in flags => SubSeq(buf, (start + len) + 1, (start + len) + 2)
                           = Crc(SubSeq(buf, 5, start + len))
  BY Zenon DEF Built
<1>9. CASE ~Exact(len, dt, ch)
  <2>1. Parse(buf) = Reject
    <3> HIDE DEF flags, dt, ch, start, k
    <3> QED BY <1>3, <1>6, <1>7, <1>9, Zenon DEF Parsed
  <2> QED BY <1>9, <2>1
<1>10. CASE Exact(len, dt, ch)
  <2>1. Parse(buf) = rec
    <3> HIDE DEF flags, dt, ch, start, rec
    <3> QED BY <1>3, <1>6, <1>7, <1>8, <1>10, Zenon DEF Parsed, k, rec
  <2>2. /\ rec.kind = "Complete" /\ rec.end = (start + len) + k
        /\ rec.contents = FormatContents(flags, len)
        /\ rec.seq = (IF "seq" \in flags THEN {buf[7][1]} ELSE {})
        /\ rec.ts = (IF "ts" \in flags THEN {buf[TsOff(flags) + 1][1]} ELSE {})
        /\ rec.period = (IF "period" \in flags THEN {buf[PeriodOff(flags) + 1][1]} ELSE {})
        /\ rec.values = MaterializeValues(dt, ch, SubSeq(buf, start + 1, start + len))
    <3> HIDE DEF flags, dt, ch, start
    <3> QED BY DEF Record, k
  <2>3. /\ "seq" \in flags => buf[7][1] = sq
        /\ "ts" \in flags => buf[TsOff(flags) + 1][1] = q.ts
        /\ "period" \in flags => buf[PeriodOff(flags) + 1][1] = q.period
    <3>1. /\ "seq" \in flags => buf[7] = <<sq, 1>>
          /\ "ts" \in flags => buf[TsOff(flags) + 1] = <<q.ts, 1>>
          /\ "period" \in flags => buf[PeriodOff(flags) + 1] = <<q.period, 1>>
      BY Zenon DEF Built
    <3> QED BY <3>1
  <2> HIDE DEF rec
  <2> QED BY <1>5, <1>10, <2>1, <2>2, <2>3
<1> QED BY <1>9, <1>10

-----------------------------------------------------------------------------
(* One of the fields the flags may leave out.                              *)
Opt(flags, name, bytes) == IF name \in flags THEN bytes ELSE <<>>

Filled(s, m, at, bytes) == s = Store(m, at, bytes)

LEMMA OptStored ==
  ASSUME NEW n \in Nat, NEW m, Buffer(m, n), NEW at \in Nat, NEW flags, NEW name, NEW bytes,
         NEW w \in Nat, Len(bytes) = w, at + Width(flags, name, w) <= n, NEW s,
         Filled(s, m, at, Opt(flags, name, bytes))
  PROVE  /\ Buffer(s, n) /\ Outside(s, m, n, at, Width(flags, name, w))
         /\ name \in flags => Inside(s, at, bytes, w)
<1>1. Buffer(s, n) /\ Stored(s, m, n, at, Opt(flags, name, bytes))
  BY StoreIs DEF Filled
<1>2. CASE name \in flags
  <2>1. Opt(flags, name, bytes) = bytes /\ Width(flags, name, w) = w /\ at + w <= n
    BY <1>2 DEF Opt, Width
  <2>2. Stored(s, m, n, at, bytes)
    BY <1>1, <2>1
  <2>3. Outside(s, m, n, at, w) /\ Inside(s, at, bytes, w)
    BY <2>1, <2>2, StoredWhere
  <2> QED BY <1>1, <2>1, <2>3
<1>3. CASE name \notin flags
  <2>1. Opt(flags, name, bytes) = <<>> /\ Width(flags, name, w) = 0 /\ at + 0 <= n
    BY <1>3 DEF Opt, Width
  <2>2. Stored(s, m, n, at, <<>>) /\ Len(<<>>) = 0 /\ 0 \in Nat
    BY <1>1, <2>1
  <2>3. Outside(s, m, n, at, 0)
    BY <2>1, <2>2, StoredWhere
  <2> QED BY <1>1, <1>3, <2>1, <2>3
<1> QED BY <1>2, <1>3

Checked(buf, T) == SubSeq(buf, T + 1, T + 2) = Crc(SubSeq(buf, 5, T))

LEMMA ChecksumFound ==
  ASSUME NEW n \in Nat, NEW N \in Nat, N <= n, NEW T \in Nat, T >= 5, N = T + 2,
         NEW buf, Buffer(buf, N), NEW s, Buffer(s, n), \A i \in 1 .. T : buf[i] = s[i],
         \A i \in 1 .. 2 : buf[T + i] = Bytes(SubSeq(s, 5, T), 2)[i]
  PROVE  Checked(buf, T)
<1> DEFINE a == SubSeq(buf, 5, T)
           b == SubSeq(s, 5, T)
           c == SubSeq(buf, N - 1, N)
           w == T - 5 + 1
<1>1. 5 \in Nat /\ 5 >= 1 /\ 5 <= T + 1 /\ T <= N /\ T <= n
  OBVIOUS
<1>2. Buffer(a, w) /\ \A i \in 1 .. w : a[i] = buf[5 + i - 1]
  BY <1>1, CutIs
<1>3. Buffer(b, w) /\ \A i \in 1 .. w : b[i] = s[5 + i - 1]
  BY <1>1, CutIs
<1>4. N - 1 \in Nat /\ N - 1 >= 1 /\ N - 1 <= N + 1 /\ N <= N /\ N - (N - 1) + 1 = 2
  OBVIOUS
<1>5. /\ Buffer(c, N - (N - 1) + 1)
      /\ \A i \in 1 .. N - (N - 1) + 1 : c[i] = buf[(N - 1) + i - 1]
  BY <1>4, CutIs
<1> HIDE DEF a, b, c
<1>6. Buffer(c, 2) /\ \A i \in 1 .. 2 : c[i] = buf[(N - 1) + i - 1]
  BY <1>4, <1>5
<1>7. \A i \in 1 .. w : a[i] = b[i]
  BY <1>1, <1>2, <1>3
<1> HIDE DEF w
<1>8. a = b
  BY <1>2, <1>3, <1>7, SameBuffers
<1>9. Buffer(Bytes(b, 2), 2) /\ \A i \in 1 .. 2 : buf[T + i] = Bytes(b, 2)[i]
  <2>1. 2 \in Nat
    OBVIOUS
  <2> QED BY <2>1, BytesAre DEF b
<1>10. ASSUME NEW i \in 1 .. 2 PROVE c[i] = Bytes(b, 2)[i]
  <2>1. (N - 1) + i - 1 = T + i
    OBVIOUS
  <2> QED BY <1>6, <1>9, <2>1
<1>11. c = Bytes(b, 2)
  BY <1>6, <1>9, <1>10, SameBuffers
<1>12. N - 1 = T + 1 /\ N = T + 2
  OBVIOUS
<1> QED BY <1>8, <1>11, <1>12 DEF Checked, Crc, a, c

(* The frame is the front of the finished buffer.                          *)
IsCut(buf, s, n) == buf = SubSeq(s, 1, n)

CrcFilled(s5, s4, p, e) == Filled(s5, s4, e, Opt(p.flags, "crc", Crc(SubSeq(s4, 5, e))))

Finished(s5, buf, m, n, p, len, sq, q) ==
  /\ Buffer(s5, n) /\ Prefixed(s5, p) /\ Built(buf, p, len, sq, q)
  /\ \A i \in 1 .. len : buf[HeaderSize(p.flags) + i] = m[HeaderSize(p.flags) + i]

LEMMA FinishedFrame ==
  ASSUME NEW n \in Nat, NEW m, Buffer(m, n), NEW p, Prefixed(m, p), NEW len \in Nat,
         (HeaderSize(p.flags) + len) + CrcSize(p.flags) <= n, NEW sq, NEW q,
         NEW s1, Filled(s1, m, 6, Opt(p.flags, "seq", Bytes(sq, 1))),
         NEW s2, Filled(s2, s1, TsOff(p.flags), Opt(p.flags, "ts", Bytes(q.ts, 4))),
         NEW s3, Filled(s3, s2, PeriodOff(p.flags), Opt(p.flags, "period", Bytes(q.period, 2))),
         NEW s4, Filled(s4, s3, LenOff(p.flags), Bytes(len, 2)),
         NEW s5, CrcFilled(s5, s4, p, HeaderSize(p.flags) + len),
         NEW buf, IsCut(buf, s5, (HeaderSize(p.flags) + len) + CrcSize(p.flags))
  PROVE  Finished(s5, buf, m, n, p, len, sq, q)
<1> DEFINE flags == p.flags
           ws == Width(flags, "seq", 1)
           wt == Width(flags, "ts", 4)
           wp == Width(flags, "period", 2)
           to == TsOff(flags)
           po == PeriodOff(flags)
           lo == LenOff(flags)
           H == HeaderSize(flags)
           k == CrcSize(flags)
           T == H + len
           crc == Crc(SubSeq(s4, 5, T))
<1>1. /\ ws \in Nat /\ wt \in Nat /\ wp \in Nat /\ k \in Nat
      /\ to = 6 + ws /\ po = to + wt /\ lo = po + wp /\ H = lo + 2
  BY DEF Width, TsOff, PeriodOff, LenOff, HeaderSize, CrcSize
<1>2. /\ "seq" \in flags => ws = 1
      /\ "ts" \in flags => wt = 4
      /\ "period" \in flags => wp = 2
      /\ "crc" \in flags => k = 2
  BY DEF Width, CrcSize
<1>3. k = Width(flags, "crc", 2)
  BY DEF CrcSize
<1>4. T + k <= n
  OBVIOUS
<1>5. 0 \in Nat /\ 1 \in Nat /\ 2 \in Nat /\ 4 \in Nat /\ 6 \in Nat
  OBVIOUS
<1> HIDE DEF flags, ws, wt, wp, to, po, lo, H, k
<1>6. to \in Nat /\ po \in Nat /\ lo \in Nat /\ H \in Nat /\ T \in Nat
  BY <1>1
<1>7. /\ Buffer(s1, n) /\ Outside(s1, m, n, 6, ws)
      /\ "seq" \in flags => Inside(s1, 6, Bytes(sq, 1), 1)
  <2>1. Len(Bytes(sq, 1)) = 1 /\ 6 + ws <= n
    <3>1. 6 + ws <= n
      BY <1>1, <1>4
    <3>2. Len(Bytes(sq, 1)) = 1
      BY <1>5, BytesAre
    <3> QED BY <3>1, <3>2
  <2>2. Filled(s1, m, 6, Opt(flags, "seq", Bytes(sq, 1)))
    BY DEF flags
  <2> QED BY <1>5, <2>1, <2>2, OptStored, Zenon DEF ws
<1>8. /\ Buffer(s2, n) /\ Outside(s2, s1, n, to, wt)
      /\ "ts" \in flags => Inside(s2, to, Bytes(q.ts, 4), 4)
  <2>1. Len(Bytes(q.ts, 4)) = 4 /\ to + wt <= n
    <3>1. to + wt <= n
      BY <1>1, <1>4
    <3>2. Len(Bytes(q.ts, 4)) = 4
      BY <1>5, BytesAre
    <3> QED BY <3>1, <3>2
  <2>2. Filled(s2, s1, to, Opt(flags, "ts", Bytes(q.ts, 4)))
    BY DEF flags, to
  <2> QED BY <1>5, <1>6, <1>7, <2>1, <2>2, OptStored, Zenon DEF wt
<1>9. /\ Buffer(s3, n) /\ Outside(s3, s2, n, po, wp)
      /\ "period" \in flags => Inside(s3, po, Bytes(q.period, 2), 2)
  <2>1. Len(Bytes(q.period, 2)) = 2 /\ po + wp <= n
    <3>1. po + wp <= n
      BY <1>1, <1>4
    <3>2. Len(Bytes(q.period, 2)) = 2
      BY <1>5, BytesAre
    <3> QED BY <3>1, <3>2
  <2>2. Filled(s3, s2, po, Opt(flags, "period", Bytes(q.period, 2)))
    BY DEF flags, po
  <2> QED BY <1>5, <1>6, <1>8, <2>1, <2>2, OptStored, Zenon DEF wp
<1>10. Buffer(s4, n) /\ Outside(s4, s3, n, lo, 2) /\ Inside(s4, lo, Bytes(len, 2), 2)
  <2>1. Len(Bytes(len, 2)) = 2 /\ lo + 2 <= n
    <3>1. lo + 2 <= n
      BY <1>1, <1>4
    <3>2. Len(Bytes(len, 2)) = 2
      BY <1>5, BytesAre
    <3> QED BY <3>1, <3>2
  <2>2. Filled(s4, s3, lo, Bytes(len, 2))
    BY DEF flags, lo
  <2>3. Buffer(s4, n) /\ Stored(s4, s3, n, lo, Bytes(len, 2))
    BY <1>9, <2>2, StoreIs DEF Filled
  <2> QED BY <1>5, <1>6, <2>1, <2>3, StoredWhere
<1>11. /\ Buffer(s5, n) /\ Outside(s5, s4, n, T, k)
       /\ "crc" \in flags => Inside(s5, T, crc, 2)
  <2>1. Len(crc) = 2
    <3>1. \A x : Len(Bytes(x, 2)) = 2
      BY <1>5, BytesAre
    <3> QED BY <3>1 DEF Crc
  <2>2. Filled(s5, s4, T, Opt(flags, "crc", crc))
    BY DEF flags, H, CrcFilled
  <2>3. T + Width(flags, "crc", 2) <= n
    BY <1>3, <1>4
  <2> HIDE DEF crc, T
  <2>4. /\ Buffer(s5, n) /\ Outside(s5, s4, n, T, Width(flags, "crc", 2))
        /\ "crc" \in flags => Inside(s5, T, crc, 2)
    BY <1>5, <1>6, <1>10, <2>1, <2>2, <2>3, OptStored, Zenon
  <2> QED BY <1>3, <2>4
<1>12. /\ Buffer(buf, T + k) /\ \A i \in 1 .. T + k : buf[i] = s5[i]
  <2>1. buf = SubSeq(s5, 1, T + k)
    BY DEF flags, H, k, IsCut
  <2> HIDE DEF T
  <2>2. 1 <= T + k + 1 /\ T + k \in Nat /\ T + k - 1 + 1 = T + k
    BY <1>1, <1>6
  <2>3. /\ Buffer(SubSeq(s5, 1, T + k), T + k - 1 + 1)
        /\ \A i \in 1 .. T + k - 1 + 1 : SubSeq(s5, 1, T + k)[i] = s5[1 + i - 1]
    BY <1>4, <1>5, <1>11, <2>2, CutIs
  <2>4. \A i \in 1 .. T + k : 1 + i - 1 = i
    OBVIOUS
  <2> QED BY <2>1, <2>2, <2>3, <2>4
<1> HIDE DEF crc
<1>13. Prefixed(s5, p) /\ Prefixed(buf, p)
  <2>1. ASSUME NEW i \in 5 .. 6 PROVE s5[i] = m[i] /\ buf[i] = m[i]
    <3>1. /\ i \in 1 .. n /\ i \in 1 .. T + k /\ i <= 6 /\ i <= to /\ i <= po /\ i <= lo /\ i <= T
      BY <1>1, <1>4, <1>6
    <3> HIDE DEF T
    <3>2. s1[i] = m[i] /\ s2[i] = s1[i] /\ s3[i] = s2[i]
      BY <1>7, <1>8, <1>9, <3>1 DEF Outside
    <3>3. s4[i] = s3[i] /\ s5[i] = s4[i]
      BY <1>10, <1>11, <3>1 DEF Outside
    <3> QED BY <1>12, <3>1, <3>2, <3>3
  <2>2. s5[5] = m[5] /\ s5[6] = m[6] /\ buf[5] = m[5] /\ buf[6] = m[6]
    <3>1. 5 \in 5 .. 6 /\ 6 \in 5 .. 6
      OBVIOUS
    <3> QED BY <2>1, <3>1
  <2> QED BY <2>2, Zenon DEF Prefixed
<1>14. "seq" \in flags => buf[7] = <<sq, 1>>
  <2> SUFFICES ASSUME "seq" \in flags PROVE buf[7] = <<sq, 1>>
    OBVIOUS
  <2>1. /\ 7 \in 1 .. n /\ 7 \in 1 .. T + k /\ 7 <= to /\ 7 <= po /\ 7 <= lo /\ 7 <= T
        /\ 1 \in 1 .. 1 /\ 6 + 1 = 7
    BY <1>1, <1>2, <1>4
  <2> HIDE DEF T
  <2>2. s1[7] = Bytes(sq, 1)[1]
    BY <1>7, <2>1 DEF Inside
  <2>3. Bytes(sq, 1)[1] = <<sq, 1>>
    BY <1>5, <2>1, BytesAre
  <2>4. s2[7] = s1[7] /\ s3[7] = s2[7] /\ s4[7] = s3[7]
    BY <1>8, <1>9, <1>10, <2>1 DEF Outside
  <2>5. s5[7] = s4[7]
    BY <1>11, <2>1 DEF Outside
  <2> QED BY <1>12, <2>1, <2>2, <2>3, <2>4, <2>5
<1>15. "ts" \in flags => buf[to + 1] = <<q.ts, 1>>
  <2> SUFFICES ASSUME "ts" \in flags PROVE buf[to + 1] = <<q.ts, 1>>
    OBVIOUS
  <2>1. /\ to + 1 \in 1 .. n /\ to + 1 \in 1 .. T + k /\ to + 1 <= po /\ to + 1 <= lo
        /\ to + 1 <= T /\ 1 \in 1 .. 4
    BY <1>1, <1>2, <1>4
  <2> HIDE DEF T
  <2>2. s2[to + 1] = Bytes(q.ts, 4)[1]
    BY <1>8, <2>1 DEF Inside
  <2>3. Bytes(q.ts, 4)[1] = <<q.ts, 1>>
    BY <1>5, <2>1, BytesAre
  <2>4. s3[to + 1] = s2[to + 1] /\ s4[to + 1] = s3[to + 1]
    BY <1>9, <1>10, <2>1 DEF Outside
  <2>5. s5[to + 1] = s4[to + 1]
    BY <1>11, <2>1 DEF Outside
  <2> QED BY <1>12, <2>1, <2>2, <2>3, <2>4, <2>5
<1>16. "period" \in flags => buf[po + 1] = <<q.period, 1>>
  <2> SUFFICES ASSUME "period" \in flags PROVE buf[po + 1] = <<q.period, 1>>
    OBVIOUS
  <2>1. /\ po + 1 \in 1 .. n /\ po + 1 \in 1 .. T + k /\ po + 1 <= lo
        /\ po + 1 <= T /\ 1 \in 1 .. 2
    BY <1>1, <1>2, <1>4
  <2> HIDE DEF T
  <2>2. s3[po + 1] = Bytes(q.period, 2)[1]
    BY <1>9, <2>1 DEF Inside
  <2>3. Bytes(q.period, 2)[1] = <<q.period, 1>>
    BY <1>5, <2>1, BytesAre
  <2>4. s4[po + 1] = s3[po + 1]
    BY <1>10, <2>1 DEF Outside
  <2>5. s5[po + 1] = s4[po + 1]
    BY <1>11, <2>1 DEF Outside
  <2> QED BY <1>12, <2>1, <2>2, <2>3, <2>4, <2>5
<1>17. buf[lo + 1] = <<len, 1>>
  <2>1. lo + 1 \in 1 .. n /\ lo + 1 \in 1 .. T + k /\ lo + 1 <= T /\ 1 \in 1 .. 2
    BY <1>1, <1>4
  <2> HIDE DEF T
  <2>2. s4[lo + 1] = Bytes(len, 2)[1]
    BY <1>10, <2>1 DEF Inside
  <2>3. Bytes(len, 2)[1] = <<len, 1>>
    BY <1>5, <2>1, BytesAre
  <2>4. s5[lo + 1] = s4[lo + 1]
    BY <1>11, <2>1 DEF Outside
  <2> QED BY <1>12, <2>1, <2>2, <2>3, <2>4
<1>18. ASSUME "crc" \in flags PROVE SubSeq(buf, T + 1, T + 2) = Crc(SubSeq(buf, 5, T))
  <2>1. k = 2 /\ T >= 5
    BY <1>1, <1>2, <1>18
  <2> HIDE DEF T
  <2>2. T + k \in Nat /\ T + k = T + 2
    BY <1>6, <2>1
  <2>3. ASSUME NEW i \in 1 .. T PROVE buf[i] = s4[i]
    <3>1. i \in 1 .. T + k /\ i \in 1 .. n /\ i <= T
      BY <1>4, <1>6, <2>1
    <3>2. s5[i] = s4[i]
      BY <1>11, <3>1 DEF Outside
    <3> QED BY <1>12, <3>1, <3>2
  <2>4. ASSUME NEW i \in 1 .. 2 PROVE buf[T + i] = Bytes(SubSeq(s4, 5, T), 2)[i]
    <3>1. T + i \in 1 .. T + k
      BY <1>6, <2>1
    <3>2. s5[T + i] = crc[i]
      BY <1>11, <1>18 DEF Inside
    <3> QED BY <1>12, <3>1, <3>2 DEF crc, Crc
  <2>5. Buffer(buf, T + k) /\ Buffer(s4, n) /\ T + k <= n /\ T \in Nat
    BY <1>4, <1>6, <1>10, <1>12
  <2>6. Checked(buf, T)
    BY <2>1, <2>2, <2>3, <2>4, <2>5, ChecksumFound, Zenon
  <2> QED BY <2>6, Zenon DEF Checked
<1>19. ASSUME NEW i \in 1 .. len PROVE buf[H + i] = m[H + i]
  <2>1. /\ H + i \in 1 .. n /\ H + i \in 1 .. T + k /\ H + i > 6 + ws /\ H + i > to + wt
        /\ H + i > po + wp /\ H + i > lo + 2 /\ H + i <= T
    BY <1>1, <1>4, <1>6
  <2> HIDE DEF T
  <2>2. s1[H + i] = m[H + i] /\ s2[H + i] = s1[H + i] /\ s3[H + i] = s2[H + i]
    BY <1>7, <1>8, <1>9, <2>1 DEF Outside
  <2>3. s4[H + i] = s3[H + i] /\ s5[H + i] = s4[H + i]
    BY <1>10, <1>11, <2>1 DEF Outside
  <2> QED BY <1>12, <2>1, <2>2, <2>3
<1>20. Built(buf, p, len, sq, q)
  <2> HIDE DEF T
  <2>1. /\ T = HeaderSize(p.flags) + len /\ k = CrcSize(p.flags) /\ flags = p.flags
        /\ to = TsOff(p.flags) /\ po = PeriodOff(p.flags) /\ lo = LenOff(p.flags)
    BY DEF T, k, H, flags, to, po, lo
  <2> QED BY <1>12, <1>13, <1>14, <1>15, <1>16, <1>17, <1>18, <2>1, Zenon DEF Built
<1>21. \A i \in 1 .. len : buf[HeaderSize(p.flags) + i] = m[HeaderSize(p.flags) + i]
  BY <1>19 DEF H, flags
<1> QED BY <1>11, <1>13, <1>20, <1>21, Zenon DEF Finished

-----------------------------------------------------------------------------
(* What the builder holds of a frame: the samples appended lie behind the  *)
(* room of the header, and bits that fill no byte yet wait.                *)
SamplesHeld ==
  /\ acc = <<>> /\ given \in Seq(Samples[profile.datatype])
  /\ payloadLen = ByteCount(profile.datatype) * Len(given)
  /\ Laid(mem, HeaderSize(profile.flags), ByteCount(profile.datatype), given)

BitsHeld ==
  /\ given \in Seq(BOOLEAN) /\ Len(given) = 8 * payloadLen + Len(acc)
  /\ Len(given) % profile.channels = 0
  /\ \A j \in 1 .. Len(acc) : acc[j] = given[8 * payloadLen + j]
  /\ BitsIn(mem, HeaderSize(profile.flags), payloadLen, given)

Held == /\ Prefixed(mem, profile)
        /\ profile.datatype # "bool" => SamplesHeld
        /\ profile.datatype = "bool" => BitsHeld

BuilderInv ==
  /\ EncInv /\ Buffer(mem, profile.cap)
  /\ sent.nth \in Nat /\ seqNo = sent.nth % SeqRange
  /\ err = "ok" => Held

LEMMA ZeroMod ==
  ASSUME NEW n \in Nat \ {0}
  PROVE  0 % n = 0
<1>1. (n * 0) % n = 0
  BY MultipleMod
<1>2. n * 0 = 0
  OBVIOUS
<1> QED BY <1>1, <1>2

LEMMA NothingHeld ==
  ASSUME NEW p \in Profiles, NEW m, m = InitMem(p), NEW n
  PROVE  /\ Buffer(m, p.cap) /\ (InitErr(p) = "ok" => Prefixed(m, p))
         /\ n * Len(<<>>) = n * 0 /\ Len(<<>>) = 0
         /\ Laid(m, HeaderSize(p.flags), n, <<>>) /\ BitsIn(m, HeaderSize(p.flags), 0, <<>>)
         /\ <<>> \in Seq(Samples[p.datatype]) /\ <<>> \in Seq(BOOLEAN)
         /\ p.channels \in Nat \ {0} /\ 0 % SeqRange = 0 /\ 0 % p.channels = 0
         /\ (p.datatype # "bool" => ByteCount(p.datatype) \in Nat)
<1>1. p.cap \in Nat /\ p.channels \in 1 .. 64 /\ p.datatype \in Datatypes
  <2>1. p \in [datatype : Datatypes, channels : 1 .. 64,
               flags : SUBSET OptionalFields, cap : Nat]
    BY EncoderAssumption
  <2> QED BY <2>1
<1>2. Buffer(m, p.cap) /\ (InitErr(p) = "ok" => Prefixed(m, p))
  BY <1>1, InitMemIs DEF InitErr
<1>3. p.channels \in Nat \ {0}
  BY <1>1
<1>4. 0 % p.channels = 0 /\ 0 % SeqRange = 0
  BY <1>3, ZeroMod, EncoderAssumption
<1>5. Laid(m, HeaderSize(p.flags), n, <<>>) /\ BitsIn(m, HeaderSize(p.flags), 0, <<>>)
  BY DEF Laid, BitsIn
<1>6. p.datatype # "bool" => ByteCount(p.datatype) \in Nat
  BY <1>1, Sizes
<1> QED BY <1>2, <1>3, <1>4, <1>5, <1>6

LEMMA BuilderInit == EncInit => BuilderInv /\ RoundTrip
<1> SUFFICES ASSUME EncInit PROVE BuilderInv /\ RoundTrip
  OBVIOUS
<1>1. /\ profile \in Profiles /\ mem = InitMem(profile) /\ err = InitErr(profile)
      /\ seqNo = 0 /\ payloadLen = 0 /\ acc = <<>> /\ given = <<>> /\ sent = NoFrame
  BY DEF EncInit
<1>2. EncInv
  BY EncInvInit
<1>3. sent.nth = 0
  BY <1>1 DEF NoFrame
<1> DEFINE n == ByteCount(profile.datatype)
<1>4. /\ Buffer(mem, profile.cap) /\ (err = "ok" => Prefixed(mem, profile))
      /\ Laid(mem, HeaderSize(profile.flags), n, <<>>)
      /\ BitsIn(mem, HeaderSize(profile.flags), 0, <<>>)
      /\ <<>> \in Seq(Samples[profile.datatype]) /\ <<>> \in Seq(BOOLEAN)
      /\ 0 % SeqRange = 0 /\ 0 % profile.channels = 0 /\ Len(<<>>) = 0
      /\ (profile.datatype # "bool" => n \in Nat)
  BY <1>1, NothingHeld
<1>5. profile.datatype # "bool" => SamplesHeld
  BY <1>1, <1>4 DEF SamplesHeld
<1>6. profile.datatype = "bool" => BitsHeld
  BY <1>1, <1>4 DEF BitsHeld
<1>7. BuilderInv
  BY <1>1, <1>2, <1>3, <1>4, <1>5, <1>6 DEF BuilderInv, Held
<1>8. RoundTrip
  BY <1>1, Zenon DEF RoundTrip
<1> QED BY <1>7, <1>8

LEMMA BuilderStart ==
  ASSUME NEW p \in Profiles, FrameInit(p)
  PROVE  BuilderInv' /\ RoundTrip'
<1>1. /\ profile' = p /\ mem' = InitMem(p) /\ err' = InitErr(p)
      /\ seqNo' = 0 /\ payloadLen' = 0 /\ acc' = <<>> /\ given' = <<>> /\ sent' = NoFrame
  BY DEF FrameInit
<1>2. EncInv'
  BY InitStep, EncoderAssumption
<1>3. sent'.nth = 0
  BY <1>1 DEF NoFrame
<1> DEFINE n == ByteCount(p.datatype)
<1>4. /\ Buffer(mem', p.cap) /\ (err' = "ok" => Prefixed(mem', p))
      /\ Laid(mem', HeaderSize(p.flags), n, <<>>)
      /\ BitsIn(mem', HeaderSize(p.flags), 0, <<>>)
      /\ <<>> \in Seq(Samples[p.datatype]) /\ <<>> \in Seq(BOOLEAN)
      /\ 0 % SeqRange = 0 /\ 0 % p.channels = 0 /\ Len(<<>>) = 0
      /\ (p.datatype # "bool" => n \in Nat)
  BY <1>1, NothingHeld
<1>5. p.datatype # "bool" => SamplesHeld'
  BY <1>1, <1>4 DEF SamplesHeld
<1>6. p.datatype = "bool" => BitsHeld'
  BY <1>1, <1>4 DEF BitsHeld
<1>7. BuilderInv'
  BY <1>1, <1>2, <1>3, <1>4, <1>5, <1>6 DEF BuilderInv, Held
<1>8. RoundTrip'
  BY <1>1, Zenon DEF RoundTrip
<1> QED BY <1>7, <1>8

(* The frame finished last says what it said. *)
LEMMA RoundTripKept ==
  ASSUME RoundTrip, UNCHANGED <<profile, sent>>
  PROVE  RoundTrip'
<1>1. profile' = profile /\ sent' = sent
  OBVIOUS
<1> QED BY <1>1, Zenon DEF RoundTrip

LEMMA BuilderFail ==
  ASSUME BuilderInv, NEW e, e # "ok", Fail(e)
  PROVE  BuilderInv'
<1>1. EncInv'
  BY FailStep DEF BuilderInv
<1>2. /\ err' = e /\ profile' = profile /\ mem' = mem /\ seqNo' = seqNo /\ sent' = sent
  BY DEF Fail
<1> QED BY <1>1, <1>2 DEF BuilderInv

(* Where the next bytes go, and how much room there is.                    *)
LEMMA RoomFor ==
  ASSUME BuilderInv, NEW w \in Nat, Fits(w)
  PROVE  /\ Used = HeaderSize(profile.flags) + payloadLen /\ Used \in Nat
         /\ HeaderSize(profile.flags) \in Nat /\ payloadLen \in Nat
         /\ HeaderSize(profile.flags) >= 8 /\ profile.cap \in Nat
         /\ Used + w <= profile.cap
<1>1. /\ payloadLen \in Nat /\ HeaderSize(profile.flags) \in Nat
      /\ CrcSize(profile.flags) \in Nat /\ profile.cap \in Nat
  BY ProfileTypes DEF BuilderInv, EncInv, EncTypes
<1>2. HeaderSize(profile.flags) >= 8
  BY DEF HeaderSize, LenOff, PeriodOff, TsOff, Width
<1>3. Used + w + CrcSize(profile.flags) <= profile.cap
  BY DEF Fits
<1> QED BY <1>1, <1>2, <1>3 DEF Used

(* Bytes stored behind the header leave the first six alone. *)
LEMMA PrefixKept ==
  ASSUME NEW c \in Nat, NEW m, NEW s, NEW p, Prefixed(m, p), NEW at \in Nat, at >= 8,
         at <= c, NEW w, Outside(s, m, c, at, w)
  PROVE  Prefixed(s, p)
<1>1. 5 \in 1 .. c /\ 6 \in 1 .. c /\ 5 <= at /\ 6 <= at
  OBVIOUS
<1>2. s[5] = m[5] /\ s[6] = m[6]
  BY <1>1 DEF Outside
<1> QED BY <1>2 DEF Prefixed

-----------------------------------------------------------------------------
LEMMA Joined ==
  ASSUME NEW S, NEW xs \in Seq(S), NEW ys \in Seq(S), NEW zs, zs = xs \o ys
  PROVE  /\ zs \in Seq(S) /\ Len(zs) = Len(xs) + Len(ys) /\ Len(xs) \in Nat /\ Len(ys) \in Nat
         /\ \A i \in 1 .. Len(xs) : zs[i] = xs[i]
         /\ \A i \in 1 .. Len(ys) : zs[Len(xs) + i] = ys[i]
OBVIOUS

(* reserve_, and the bytes of some samples. *)
LEMMA BuilderPut ==
  ASSUME BuilderInv, err = "ok", profile.datatype # "bool",
         NEW xs \in Seq(Samples[profile.datatype]), NEW bytes,
         Len(bytes) = ByteCount(profile.datatype) * Len(xs),
         Laid(bytes, 0, ByteCount(profile.datatype), xs), Put(bytes, xs)
  PROVE  BuilderInv'
<1> DEFINE n == ByteCount(profile.datatype)
           H == HeaderSize(profile.flags)
           L == Len(given)
           y == Len(xs)
           w == Len(bytes)
<1>1. n \in Nat /\ Held /\ SamplesHeld
  <2>1. profile.datatype \in Datatypes
    BY ProfileTypes DEF BuilderInv, EncInv
  <2>2. n \in Nat
    BY <2>1, Sizes
  <2>3. Held
    BY DEF BuilderInv
  <2>4. SamplesHeld
    BY <2>3 DEF Held
  <2> QED BY <2>2, <2>3, <2>4
<1>2. /\ acc = <<>> /\ given \in Seq(Samples[profile.datatype]) /\ payloadLen = n * L
      /\ Laid(mem, H, n, given) /\ Prefixed(mem, profile)
  BY <1>1 DEF SamplesHeld, Held
<1>3. L \in Nat /\ y \in Nat /\ w = n * y
  BY <1>2
<1> HIDE DEF n, L, y
<1>4. w \in Nat
  BY <1>1, <1>3
<1>5. CASE ~Fits(w)
  BY <1>5, BuilderFail, Zenon DEF Put
<1>6. CASE Fits(w)
  <2>1. /\ mem' = Store(mem, Used, bytes) /\ payloadLen' = payloadLen + w
        /\ given' = given \o xs /\ profile' = profile /\ seqNo' = seqNo /\ acc' = acc
        /\ err' = err /\ sent' = sent
    BY <1>6 DEF Put
  <2>2. EncInv'
    BY <1>4, PutStep DEF BuilderInv
  <2>3. /\ Used = H + payloadLen /\ Used \in Nat /\ H \in Nat /\ payloadLen \in Nat
        /\ H >= 8 /\ profile.cap \in Nat /\ Used + w <= profile.cap
    BY <1>4, <1>6, RoomFor
  <2> HIDE DEF H, w
  <2>4. Buffer(mem, profile.cap)
    BY DEF BuilderInv
  <2>5. Buffer(mem', profile.cap) /\ Stored(mem', mem, profile.cap, Used, bytes)
    BY <2>1, <2>3, <2>4, StoreIs
  <2>6. Outside(mem', mem, profile.cap, Used, w) /\ Inside(mem', Used, bytes, w)
    <3>1. Len(bytes) = w
      BY DEF w
    <3> QED BY <1>4, <2>3, <2>5, <3>1, StoredWhere, Zenon
  <2>7. Prefixed(mem', profile)
    <3>1. Used >= 8 /\ Used <= profile.cap
      BY <1>4, <2>3
    <3> QED BY <1>2, <2>3, <2>6, <3>1, PrefixKept, Zenon
  <2>8. /\ given' \in Seq(Samples[profile.datatype]) /\ Len(given') = L + y
        /\ \A i \in 1 .. L : given'[i] = given[i]
        /\ \A i \in 1 .. y : given'[L + i] = xs[i]
    BY <1>2, <2>1, Joined DEF L, y
  <2>9. payloadLen' = n * Len(given')
    <3>1. n * (L + y) = n * L + n * y
      BY <1>1, <1>3
    <3> QED BY <1>2, <1>3, <2>1, <2>8, <3>1
  <2>10. Laid(mem', H, n, given')
    <3>1. Used = H + n * L
      BY <1>2, <2>3
    <3>2. Outside(mem', mem, profile.cap, H + n * L, n * y) /\ Inside(mem', H + n * L, bytes, n * y)
      BY <1>3, <2>6, <3>1
    <3>3. H + n * L + n * y <= profile.cap
      BY <1>3, <2>3, <3>1
    <3>4. Laid(bytes, 0, n, xs) /\ L = Len(given) /\ y = Len(xs)
      BY DEF n, L, y
    <3> QED BY <1>1, <1>2, <1>3, <2>3, <2>8, <3>2, <3>3, <3>4, LaidMore, Zenon
  <2>11. SamplesHeld'
    BY <1>2, <2>1, <2>8, <2>9, <2>10 DEF SamplesHeld, n, H
  <2>12. Held'
    <3>1. Prefixed(mem', profile')
      BY <2>1, <2>7
    <3>2. profile'.datatype # "bool"
      BY <2>1
    <3> QED BY <2>11, <3>1, <3>2, Zenon DEF Held
  <2> QED BY <2>1, <2>2, <2>5, <2>12 DEF BuilderInv
<1> QED BY <1>5, <1>6

LEMMA BuilderOne ==
  ASSUME BuilderInv, NEW dt \in Datatypes \ {"bool"}, NEW x \in Samples[dt], AppendOne(dt, x)
  PROVE  BuilderInv'
<1>1. err = "ok" /\ dt # "bool" /\ dt \in Datatypes
  BY DEF AppendOne
<1>2. CASE dt # profile.datatype
  <2>1. Fail("wrong type")
    BY <1>2 DEF AppendOne
  <2> QED BY <2>1, BuilderFail
<1>3. CASE dt = profile.datatype
  <2> DEFINE n == ByteCount(profile.datatype)
             b == Bytes(x, n)
  <2>1. n \in Nat
    BY <1>1, <1>3, Sizes
  <2> HIDE DEF n
  <2>2. Put(b, <<x>>)
    BY <1>3 DEF AppendOne, n
  <2>3. <<x>> \in Seq(Samples[profile.datatype]) /\ Len(<<x>>) = 1 /\ <<x>>[1] = x
    <3>1. ASSUME NEW S, NEW e \in S PROVE <<e>> \in Seq(S) /\ Len(<<e>>) = 1 /\ <<e>>[1] = e
      OBVIOUS
    <3>2. x \in Samples[profile.datatype]
      BY <1>3
    <3> QED BY <3>1, <3>2
  <2>4. Len(b) = n * Len(<<x>>)
    <3>1. Len(b) = n
      BY <2>1, BytesAre
    <3>2. n * 1 = n
      BY <2>1
    <3> QED BY <2>3, <3>1, <3>2
  <2>5. Laid(b, 0, n, <<x>>)
    <3>1. ASSUME NEW k \in 1 .. n PROVE LaidAt(b, 0, n, <<x>>, 1, k)
      <4>1. b[k] = <<x, k>>
        BY <2>1, BytesAre
      <4>2. 0 + ((1 - 1) * n + k) = k
        BY <2>1
      <4> HIDE DEF b
      <4> QED BY <2>3, <4>1, <4>2 DEF LaidAt
    <3>2. \A i \in 1 .. Len(<<x>>) : i = 1
      BY <2>3
    <3> QED BY <3>1, <3>2 DEF Laid
  <2> HIDE DEF b
  <2> QED BY <1>1, <1>3, <2>2, <2>3, <2>4, <2>5, BuilderPut DEF n
<1> QED BY <1>2, <1>3

LEMMA BuilderRaw ==
  ASSUME BuilderInv, NEW xs \in Seq(Samples[profile.datatype]), AppendRaw(xs)
  PROVE  BuilderInv'
<1> DEFINE dt == profile.datatype
           n == ByteCount(dt)
           y == Len(xs)
           b == [i \in 1 .. n * y |-> <<xs[((i - 1) \div n) + 1], ((i - 1) % n) + 1>>]
<1>1. err = "ok"
  BY DEF AppendRaw
<1>2. CASE dt = "bool" \/ y % profile.channels # 0
  BY <1>2, BuilderFail DEF AppendRaw
<1>3. CASE dt # "bool" /\ ~(y % profile.channels # 0)
  <2>1. Put(b, xs)
    BY <1>3 DEF AppendRaw
  <2>2. n \in Nat /\ y \in Nat
    <3>1. dt \in Datatypes
      BY ProfileTypes DEF BuilderInv, EncInv
    <3> QED BY <1>3, <3>1, Sizes
  <2> HIDE DEF n, y
  <2>3. n * y \in Nat
    BY <2>2
  <2>4. Len(b) = n * y
    BY <2>3
  <2>5. ASSUME NEW i \in 1 .. y, NEW k \in 1 .. n PROVE LaidAt(b, 0, n, xs, i, k)
    <3> DEFINE j == (i - 1) * n + k
               V(l) == <<xs[((l - 1) \div n) + 1], ((l - 1) % n) + 1>>
    <3>1. i \in Nat /\ i >= 1 /\ i <= y
      BY <2>2
    <3>2. j \in Nat /\ j >= 1 /\ j <= n * y
      BY <2>2, <3>1, Place
    <3>3. ((j - 1) \div n) + 1 = i /\ ((j - 1) % n) + 1 = k
      BY <2>2, <3>1, PlaceBack
    <3> HIDE DEF j
    <3>4. b[j] = V(j)
      BY <2>3, <3>2
    <3>5. b[j] = <<xs[i], k>> /\ 0 + j = j
      BY <3>2, <3>3, <3>4
    <3> HIDE DEF b
    <3> QED BY <3>5 DEF LaidAt, j
  <2>6. Laid(b, 0, n, xs)
    <3> HIDE DEF b
    <3> QED BY <2>5 DEF Laid, y
  <2> HIDE DEF b
  <2> QED BY <1>1, <1>3, <2>1, <2>4, <2>6, BuilderPut, Zenon DEF n, y
<1> QED BY <1>2, <1>3

-----------------------------------------------------------------------------
(* Whole rows and one row more are whole rows.                             *)
LEMMA RowMore ==
  ASSUME NEW ch \in Nat \ {0}, NEW L \in Nat, L % ch = 0
  PROVE  (L + ch) % ch = 0
<1> DEFINE q == L \div ch
           r == L % ch
<1>1. q \in Int /\ L = ch * q + r /\ r = 0
  BY DivMod
<1> HIDE DEF q, r
<1>2. L + ch = ch * (q + 1) /\ q + 1 \in Int
  BY <1>1
<1> QED BY <1>2, MultipleMod

IsConcat(zs, xs, ys) == zs = xs \o ys

LEMMA JoinedIs ==
  ASSUME NEW S, NEW xs \in Seq(S), NEW ys \in Seq(S), NEW zs, IsConcat(zs, xs, ys)
  PROVE  /\ zs \in Seq(S) /\ Len(zs) = Len(xs) + Len(ys) /\ Len(xs) \in Nat /\ Len(ys) \in Nat
         /\ \A i \in 1 .. Len(xs) : zs[i] = xs[i]
         /\ \A i \in 1 .. Len(ys) : zs[Len(xs) + i] = ys[i]
BY Joined DEF IsConcat

(* Full bytes of bits are stored in m, and all of the bits are appended.   *)
BitsAfter(m, all, n, bits) ==
  /\ Buffer(m, profile.cap) /\ Prefixed(m, profile)
  /\ BitsIn(m, HeaderSize(profile.flags), payloadLen + n, all)
  /\ all \in Seq(BOOLEAN) /\ Len(all) = 8 * payloadLen + Len(bits)
  /\ \A i \in 1 .. Len(bits) : all[8 * payloadLen + i] = bits[i]

LEMMA BitsStored ==
  ASSUME BuilderInv, err = "ok", profile.datatype = "bool", NEW row \in Seq(BOOLEAN),
         NEW bits, IsConcat(bits, acc, row), NEW n \in Nat, 8 * n <= Len(bits),
         Used + n <= profile.cap, NEW m, Filled(m, mem, Used, Packed(bits, n)),
         NEW all, IsConcat(all, given, row)
  PROVE  BitsAfter(m, all, n, bits)
<1> DEFINE H == HeaderSize(profile.flags)
           q == payloadLen
           A == Len(acc)
           R == Len(row)
           b == Packed(bits, n)
<1>1. Held /\ BitsHeld
  BY DEF BuilderInv, Held
<1>2. /\ given \in Seq(BOOLEAN) /\ Len(given) = 8 * q + A
      /\ \A j \in 1 .. A : acc[j] = given[8 * q + j]
      /\ BitsIn(mem, H, q, given) /\ Prefixed(mem, profile)
  BY <1>1 DEF BitsHeld, Held
<1>3. /\ acc \in Seq(BOOLEAN) /\ q \in Nat /\ H \in Nat /\ profile.cap \in Nat
      /\ Used = H + q /\ H >= 8 /\ Buffer(mem, profile.cap)
  <2>1. /\ q \in Nat /\ H \in Nat /\ profile.cap \in Nat
    BY ProfileTypes DEF BuilderInv, EncInv, EncTypes
  <2>2. H >= 8
    BY DEF HeaderSize, LenOff, PeriodOff, TsOff, Width
  <2> QED BY <2>1, <2>2 DEF BuilderInv, EncInv, EncTypes, Used
<1> HIDE DEF H, q, A, R, b
<1>4. /\ bits \in Seq(BOOLEAN) /\ Len(bits) = A + R /\ A \in Nat /\ R \in Nat
      /\ \A j \in 1 .. A : bits[j] = acc[j]
      /\ \A j \in 1 .. R : bits[A + j] = row[j]
  BY <1>3, JoinedIs DEF A, R
<1>5. /\ all \in Seq(BOOLEAN) /\ Len(all) = Len(given) + R /\ Len(given) \in Nat
      /\ \A i \in 1 .. Len(given) : all[i] = given[i]
      /\ \A i \in 1 .. R : all[Len(given) + i] = row[i]
  BY <1>2, JoinedIs DEF R
<1>15. /\ Len(given) = 8 * q + A /\ Len(bits) = A + R /\ Len(all) = Len(given) + R
       /\ q \in Nat /\ A \in Nat /\ R \in Nat
  BY <1>2, <1>3, <1>4, <1>5
<1>6. Buffer(bits, Len(bits)) /\ Len(bits) \in Nat
  BY <1>4, SeqIsBuffer
<1>7. Len(b) = n /\ BitsIn(b, 0, n, bits)
  BY <1>6, PackedIs DEF b
<1>8. Buffer(m, profile.cap) /\ Stored(m, mem, profile.cap, Used, b)
  BY <1>3, StoreIs DEF b, Filled
<1>9. Used \in Nat /\ Used >= 8 /\ Used <= profile.cap
  BY <1>3
<1>10. Outside(m, mem, profile.cap, Used, n) /\ Inside(m, Used, b, n)
  BY <1>3, <1>7, <1>8, <1>9, StoredWhere, Zenon
<1>11. Prefixed(m, profile)
  BY <1>2, <1>3, <1>9, <1>10, PrefixKept, Zenon
<1>12. ASSUME NEW i \in 1 .. Len(bits) PROVE all[8 * q + i] = bits[i]
  <2>1. CASE i <= A
    <3>1. i \in 1 .. A /\ 8 * q + i \in 1 .. Len(given)
      BY <1>2, <1>3, <1>4, <2>1
    <3> QED BY <1>2, <1>4, <1>5, <3>1
  <2>2. CASE i > A
    <3>1. i - A \in 1 .. R /\ A + (i - A) = i /\ 8 * q + i = Len(given) + (i - A)
      BY <1>15, <2>2
    <3>2. bits[A + (i - A)] = row[i - A] /\ all[Len(given) + (i - A)] = row[i - A]
      BY <1>4, <1>5, <3>1
    <3> QED BY <3>1, <3>2
  <2> QED BY <1>4, <2>1, <2>2
<1>13. BitsIn(m, H, q + n, all)
  <2>1. 8 * q <= Len(given)
    BY <1>2, <1>3, <1>4
  <2>2. \A i \in 1 .. 8 * n : all[8 * q + i] = bits[i]
    <3>1. \A i \in 1 .. 8 * n : i \in 1 .. Len(bits)
      BY <1>6
    <3> QED BY <1>12, <3>1
  <2>3. Outside(m, mem, profile.cap, H + q, n) /\ Inside(m, H + q, b, n) /\ H + q + n <= profile.cap
    BY <1>3, <1>10
  <2> QED BY <1>2, <1>3, <1>5, <1>7, <2>1, <2>2, <2>3, BitsMore, Zenon
<1>14. Len(all) = 8 * q + Len(bits)
  BY <1>15
<1> QED BY <1>5, <1>8, <1>11, <1>12, <1>13, <1>14 DEF BitsAfter, H, q

LEMMA BuilderBool ==
  ASSUME BuilderInv, NEW row \in Seq(BOOLEAN), Len(row) = profile.channels, AppendBool(row)
  PROVE  BuilderInv'
<1>1. err = "ok"
  BY DEF AppendBool
<1>2. EncInv'
  BY AppendBoolStep DEF BuilderInv
<1>3. CASE profile.datatype # "bool"
  BY <1>3, BuilderFail DEF AppendBool
<1>4. CASE profile.datatype = "bool"
  <2> DEFINE bits == acc \o row
             full == Len(bits) \div 8
             n == IF full <= Room THEN full ELSE Room
             upto == IF full <= Room THEN Len(bits) ELSE 8 * n + 8
             ch == profile.channels
  <2>1. /\ mem' = Store(mem, Used, Packed(bits, n)) /\ payloadLen' = payloadLen + n
        /\ acc' = SubSeq(bits, 8 * n + 1, upto)
        /\ err' = (IF full <= Room THEN "ok" ELSE "overflow") /\ given' = given \o row
        /\ profile' = profile /\ seqNo' = seqNo /\ sent' = sent
    BY <1>4 DEF AppendBool
  <2>2. Len(bits) \in Nat /\ full \in Nat /\ 8 * full <= Len(bits) /\ Len(bits) < 8 * full + 8
    <3>1. Len(bits) \in Nat
      BY DEF BuilderInv, EncInv, EncTypes
    <3> HIDE DEF bits
    <3> QED BY <3>1
  <2>3. /\ payloadLen \in Nat /\ HeaderSize(profile.flags) \in Nat /\ ch \in Nat \ {0}
        /\ CrcSize(profile.flags) \in Nat /\ profile.cap \in Nat
    <3>1. ch \in 1 .. 64
      BY ProfileTypes DEF BuilderInv, EncInv
    <3>2. ch \in Nat \ {0}
      <4> HIDE DEF ch
      <4> QED BY <3>1
    <3> QED BY <3>2, ProfileTypes DEF BuilderInv, EncInv, EncTypes
  <2>4. Room \in Nat /\ Used + Room <= profile.cap
    BY <1>1, <2>3 DEF BuilderInv, EncInv, NoOverrun, Room, Used
  <2> HIDE DEF bits, full
  <2>5. n \in Nat /\ n <= full /\ n <= Room
    BY <2>2, <2>4
  <2> HIDE DEF n, upto
  <2>6. 8 * n <= Len(bits) /\ Used + n <= profile.cap
    <3>1. Used \in Nat
      BY <2>3 DEF Used
    <3> QED BY <2>2, <2>3, <2>4, <2>5, <3>1
  <2>7. /\ IsConcat(bits, acc, row) /\ IsConcat(given', given, row)
        /\ Filled(mem', mem, Used, Packed(bits, n))
    BY <2>1 DEF bits, IsConcat, Filled
  <2>8. BitsAfter(mem', given', n, bits)
    BY <1>1, <1>4, <2>5, <2>6, <2>7, BitsStored, Zenon
  <2>11. /\ Buffer(mem', profile.cap) /\ Prefixed(mem', profile)
         /\ BitsIn(mem', HeaderSize(profile.flags), payloadLen + n, given')
         /\ given' \in Seq(BOOLEAN) /\ Len(given') = 8 * payloadLen + Len(bits)
         /\ \A i \in 1 .. Len(bits) : given'[8 * payloadLen + i] = bits[i]
    BY <2>8 DEF BitsAfter
  <2>9. CASE full <= Room
    <3> DEFINE L == Len(bits)
               a == SubSeq(bits, 8 * n + 1, L)
    <3>1. n = full /\ upto = L /\ L \in Nat
      BY <2>2, <2>9 DEF n, upto
    <3>2. Buffer(bits, L)
      <4>1. bits \in Seq(BOOLEAN)
        BY DEF bits, BuilderInv, EncInv, EncTypes
      <4> QED BY <4>1, SeqIsBuffer
    <3> HIDE DEF L
    <3>3. /\ 8 * n + 1 \in Nat /\ 8 * n + 1 >= 1 /\ 8 * n + 1 <= L + 1 /\ L <= L
          /\ L - (8 * n + 1) + 1 = L - 8 * n
      BY <2>5, <2>6, <3>1 DEF L
    <3>4. /\ Len(a) = L - (8 * n + 1) + 1
          /\ \A i \in 1 .. L - (8 * n + 1) + 1 : a[i] = bits[(8 * n + 1) + i - 1]
      BY <3>1, <3>2, <3>3, CutIs
    <3> HIDE DEF a
    <3>5. acc' = a
      BY <2>1, <3>1 DEF a
    <3>6. Len(acc') = L - 8 * n /\ \A j \in 1 .. L - 8 * n : acc'[j] = bits[8 * n + j]
      <4>1. \A j \in 1 .. L - 8 * n : (8 * n + 1) + j - 1 = 8 * n + j
        BY <2>5, <3>1
      <4> QED BY <3>3, <3>4, <3>5, <4>1
    <3>7. Len(given') = 8 * payloadLen' + Len(acc')
      <4>1. payloadLen' = payloadLen + n
        BY <2>1
      <4>2. Len(given') = 8 * payloadLen + L
        BY <2>11 DEF L
      <4> QED BY <2>3, <2>5, <3>1, <3>6, <4>1, <4>2
    <3>8. ASSUME NEW j \in 1 .. Len(acc') PROVE acc'[j] = given'[8 * payloadLen' + j]
      <4>1. j \in 1 .. L - 8 * n /\ 8 * n + j \in 1 .. Len(bits)
            /\ 8 * payloadLen' + j = 8 * payloadLen + (8 * n + j)
        <5>1. payloadLen' = payloadLen + n /\ j \in 1 .. L - 8 * n
          BY <2>1, <3>6
        <5>2. 8 * n + j \in 1 .. L
          BY <2>5, <3>1, <5>1
        <5> QED BY <2>3, <2>5, <5>1, <5>2 DEF L
      <4> QED BY <2>11, <3>6, <4>1
    <3>9. Len(given') % ch = 0
      <4>1. Len(given) % ch = 0 /\ Len(given) \in Nat
        BY <1>1, <1>4 DEF BuilderInv, Held, BitsHeld
      <4>2. Len(given') = Len(given) + ch
        <5>1. IsConcat(given', given, row) /\ given \in Seq(BOOLEAN)
          BY <1>1, <1>4, <2>7 DEF BuilderInv, Held, BitsHeld
        <5> QED BY <5>1, JoinedIs
      <4> HIDE DEF ch
      <4> QED BY <2>3, <4>1, <4>2, RowMore
    <3>10. BitsHeld'
      BY <2>1, <2>11, <3>7, <3>8, <3>9 DEF BitsHeld
    <3>11. Held'
      BY <1>4, <2>1, <2>11, <3>10 DEF Held
    <3> QED BY <1>2, <2>1, <2>11, <3>11 DEF BuilderInv
  <2>10. CASE ~(full <= Room)
    <3>1. err' = "overflow"
      BY <2>1, <2>10
    <3> QED BY <1>2, <2>1, <2>11, <3>1 DEF BuilderInv
  <2> QED BY <2>9, <2>10
<1> QED BY <1>3, <1>4

-----------------------------------------------------------------------------
(* A payload cut out of a frame holds what lay behind the header.          *)
LEMMA PayloadCut ==
  ASSUME NEW buf, NEW N \in Nat, Buffer(buf, N), NEW H \in Nat, NEW len \in Nat, H + len <= N,
         NEW m, \A i \in 1 .. len : buf[H + i] = m[H + i]
  PROVE  /\ Buffer(SubSeq(buf, H + 1, H + len), len)
         /\ \A i \in 1 .. len : SubSeq(buf, H + 1, H + len)[i] = m[H + i]
<1> DEFINE a == H + 1
           b == H + len
           c == SubSeq(buf, a, b)
<1>1. a \in Nat /\ b \in Nat /\ a >= 1 /\ a <= b + 1 /\ b <= N /\ b - a + 1 = len
  OBVIOUS
<1> HIDE DEF a, b
<1>2. Buffer(c, b - a + 1) /\ \A i \in 1 .. b - a + 1 : c[i] = buf[a + i - 1]
  BY <1>1, CutIs
<1>3. ASSUME NEW i \in 1 .. len PROVE c[i] = m[H + i]
  <2>1. a + i - 1 = H + i
    BY DEF a
  <2> QED BY <1>1, <1>2, <2>1
<1>4. Buffer(c, len)
  BY <1>1, <1>2
<1> QED BY <1>3, <1>4 DEF a, b

LEMMA LaidCut ==
  ASSUME NEW m, NEW P, NEW H \in Nat, NEW n \in Nat, NEW xs, Len(xs) \in Nat, NEW len,
         len = n * Len(xs), \A i \in 1 .. len : P[i] = m[H + i], Laid(m, H, n, xs)
  PROVE  Laid(P, 0, n, xs)
<1>1. SUFFICES ASSUME NEW i \in 1 .. Len(xs), NEW k \in 1 .. n PROVE LaidAt(P, 0, n, xs, i, k)
  BY DEF Laid
<1> DEFINE q == (i - 1) * n + k
           L == Len(xs)
<1>2. i \in Nat /\ i >= 1 /\ i <= L /\ L \in Nat
  OBVIOUS
<1>3. q \in Nat /\ q >= 1 /\ q <= n * L
  BY <1>2, Place
<1>4. LaidAt(m, H, n, xs, i, k)
  BY DEF Laid
<1>5. m[H + q] = <<xs[i], k>>
  BY <1>4 DEF LaidAt
<1> HIDE DEF q
<1>6. q \in 1 .. len /\ 0 + q = q
  <2>1. len \in Nat /\ len = n * L
    OBVIOUS
  <2> HIDE DEF L
  <2> QED BY <1>3, <2>1
<1>7. P[0 + q] = <<xs[i], k>>
  BY <1>5, <1>6
<1> QED BY <1>7 DEF LaidAt, q

LEMMA BitsCut ==
  ASSUME NEW m, NEW P, NEW H \in Nat, NEW len \in Nat, NEW xs,
         \A i \in 1 .. len : P[i] = m[H + i], BitsIn(m, H, len, xs)
  PROVE  BitsIn(P, 0, len, xs)
<1>1. SUFFICES ASSUME NEW b \in 1 .. len, NEW j \in 1 .. 8 PROVE BitAt(P, 0, xs, b, j)
  BY DEF BitsIn
<1>2. BitAt(m, H, xs, b, j)
  BY DEF BitsIn
<1>3. 0 + b = b
  OBVIOUS
<1> QED BY <1>2, <1>3 DEF BitAt

Zeros(k) == [i \in 1 .. k |-> FALSE]

LEMMA ZerosAre ==
  ASSUME NEW k \in Nat
  PROVE  Zeros(k) \in Seq(BOOLEAN) /\ Len(Zeros(k)) = k /\ \A i \in 1 .. k : Zeros(k)[i] = FALSE
<1>1. Zeros(k) \in [1 .. k -> BOOLEAN] /\ \A i \in 1 .. k : Zeros(k)[i] = FALSE
  BY DEF Zeros
<1>2. Zeros(k) \in Seq(BOOLEAN)
  BY <1>1, FunctionIsSeq
<1>3. DOMAIN Zeros(k) = 1 .. k
  BY DEF Zeros
<1>4. Len(Zeros(k)) = k
  BY <1>2, <1>3
<1> QED BY <1>1, <1>2, <1>4

-----------------------------------------------------------------------------
(* What a frame has to mean, as RoundTrip says of the frame finished last. *)
FrameMeans(bytes, xs, q, nth, pf) ==
    LET p == Parse(bytes)
        Meant(f, x) == IF f \in pf.flags THEN {x} ELSE {}
        Means(x, y) == IF pf.datatype = "f16" THEN IsHalf(x, y) ELSE x = y
    IN IF Len(xs) % pf.channels # 0 THEN p = Reject
       ELSE /\ p.kind = "Complete" /\ p.end = Len(bytes)
            /\ Covered(p.contents) = p.end
            /\ p.seq = Meant("seq", (nth - 1) % SeqRange)
            /\ p.ts = Meant("ts", q.ts)
            /\ p.period = Meant("period", q.period)
            /\ Len(p.values) >= Len(xs)
            /\ \A i \in DOMAIN p.values :
                 IF i <= Len(xs) THEN Means(p.values[i], xs[i])
                 ELSE pf.datatype = "bool" /\ p.values[i] = FALSE

LEMMA RoundTripMeans ==
  RoundTrip <=> (sent # NoFrame => FrameMeans(sent.bytes, sent.given, sent.queued, sent.nth, profile))
BY Zenon DEF RoundTrip, FrameMeans

(* The values the parser finds: the samples, and then the filling.         *)
ValuesMean(v, xs, dt) ==
  /\ Len(v) >= Len(xs)
  /\ \A i \in DOMAIN v :
       IF i <= Len(xs) THEN IF dt = "f16" THEN IsHalf(v[i], xs[i]) ELSE v[i] = xs[i]
       ELSE dt = "bool" /\ v[i] = FALSE

(* Everything the frame says but its values follows from where the fields  *)
(* are; the rows are whole in the payload when they were appended whole.   *)
LEMMA BuiltMeans ==
  ASSUME NEW buf, NEW p, NEW len \in Nat, NEW sq, NEW q, Built(buf, p, len, sq, q),
         p.datatype \in Datatypes, p.channels \in 1 .. 64, NEW nth, sq = (nth - 1) % SeqRange,
         NEW xs, Exact(len, p.datatype, p.channels) <=> Len(xs) % p.channels = 0,
         NEW payload, payload = SubSeq(buf, HeaderSize(p.flags) + 1, HeaderSize(p.flags) + len),
         Len(xs) % p.channels = 0 =>
           ValuesMean(MaterializeValues(p.datatype, p.channels, payload), xs, p.datatype)
  PROVE  FrameMeans(buf, xs, q, nth, p)
<1> DEFINE r == Parse(buf)
           H == HeaderSize(p.flags)
           k == CrcSize(p.flags)
           v == MaterializeValues(p.datatype, p.channels, payload)
<1>1. IF ~Exact(len, p.datatype, p.channels) THEN r = Reject
      ELSE /\ r.kind = "Complete" /\ r.end = (H + len) + k /\ r.end = Len(buf)
           /\ r.contents = FormatContents(p.flags, len)
           /\ r.seq = (IF "seq" \in p.flags THEN {sq} ELSE {})
           /\ r.ts = (IF "ts" \in p.flags THEN {q.ts} ELSE {})
           /\ r.period = (IF "period" \in p.flags THEN {q.period} ELSE {})
           /\ r.values = v
  BY ParseIs, Zenon
<1>2. Covered(FormatContents(p.flags, len)) = (H + len) + k
  BY ContentsCover
<1> HIDE DEF r, H, k, v
<1>3. CASE ~(Len(xs) % p.channels = 0)
  BY <1>1, <1>3, Zenon DEF FrameMeans, r
<1>4. CASE Len(xs) % p.channels = 0
  <2>1. ValuesMean(v, xs, p.datatype)
    BY <1>4 DEF v
  <2>2. /\ r.kind = "Complete" /\ r.end = Len(buf) /\ Covered(r.contents) = r.end
        /\ r.seq = (IF "seq" \in p.flags THEN {(nth - 1) % SeqRange} ELSE {})
        /\ r.ts = (IF "ts" \in p.flags THEN {q.ts} ELSE {})
        /\ r.period = (IF "period" \in p.flags THEN {q.period} ELSE {})
        /\ r.values = v
    BY <1>1, <1>2, <1>4, Zenon
  <2>3. ValuesMean(r.values, xs, p.datatype)
    BY <2>1, <2>2, Zenon
  <2> QED BY <1>4, <2>2, <2>3, Zenon DEF FrameMeans, r, ValuesMean
<1> QED BY <1>3, <1>4

(* The payload of a frame of samples. *)
LEMMA SamplesMean ==
  ASSUME NEW dt \in Datatypes, dt # "bool", NEW ch \in Nat \ {0}, NEW xs \in Seq(Samples[dt]),
         NEW len, len = ByteCount(dt) * Len(xs), NEW P, Buffer(P, len), Laid(P, 0, ByteCount(dt), xs)
  PROVE  /\ Exact(len, dt, ch) <=> Len(xs) % ch = 0
         /\ Len(xs) % ch = 0 => ValuesMean(MaterializeValues(dt, ch, P), xs, dt)
<1> DEFINE n == ByteCount(dt)
           L == Len(xs)
           v == MaterializeValues(dt, ch, P)
<1>1. n \in Nat \ {0} /\ n = BytesPerDatatype[dt] /\ L \in Nat
  BY Widths
<1>2. Exact(len, dt, ch) <=> L % ch = 0
  <2>1. Exact(len, dt, ch) <=> len % (ch * BytesPerDatatype[dt]) = 0
    BY DEF Exact
  <2>2. len = n * L
    OBVIOUS
  <2> HIDE DEF n, L
  <2>3. (n * L) % (ch * n) = 0 <=> L % ch = 0
    BY <1>1, WholeRows
  <2> QED BY <1>1, <2>1, <2>2, <2>3
<1>3. ASSUME L % ch = 0 PROVE ValuesMean(v, xs, dt)
  <2>1. /\ DOMAIN v = 1 .. L /\ Len(v) = L
        /\ \A i \in 1 .. L : v[i] = IF dt = "f16" THEN HalfToSingle(xs[i]) ELSE xs[i]
    BY <1>1, <1>3, SamplesRead
  <2>2. ASSUME NEW i \in 1 .. L, dt = "f16" PROVE IsHalf(HalfToSingle(xs[i]), xs[i])
    <3>1. xs[i] \in Samples["f16"]
      BY <2>2
    <3>2. xs[i] \in 0 .. 2^16 - 1
      BY <3>1, HalfAssumption
    <3> QED BY <3>2, HalfRight
  <2> HIDE DEF v, L
  <2>3. \A i \in DOMAIN v : i <= L /\ IF dt = "f16" THEN IsHalf(v[i], xs[i]) ELSE v[i] = xs[i]
    BY <1>1, <2>1, <2>2
  <2> QED BY <1>1, <2>1, <2>3 DEF ValuesMean, L
<1> QED BY <1>2, <1>3

(* The payload of a frame of bits: all of them, and what fills them up. *)
LEMMA BitsMean ==
  ASSUME NEW ch \in Nat \ {0}, NEW xs, Len(xs) \in Nat, NEW all, NEW len \in Nat,
         NEW P, Buffer(P, len), BitsIn(P, 0, len, all), Len(xs) <= 8 * len,
         \A i \in 1 .. Len(xs) : all[i] = xs[i],
         \A i \in 1 .. 8 * len : i > Len(xs) => all[i] = FALSE, (8 * len) % ch = 0
  PROVE  /\ Exact(len, "bool", ch)
         /\ ValuesMean(MaterializeValues("bool", ch, P), xs, "bool")
<1> DEFINE v == MaterializeValues("bool", ch, P)
           L == Len(xs)
<1>1. Exact(len, "bool", ch)
  BY DEF Exact
<1>2. DOMAIN v = 1 .. 8 * len /\ Len(v) = 8 * len /\ \A i \in 1 .. 8 * len : v[i] = all[i]
  <2>1. ValuesAre(v, 8 * len, all)
    BY BitsRead
  <2> QED BY <2>1, Zenon DEF ValuesAre
<1> HIDE DEF v
<1>3. \A i \in DOMAIN v : IF i <= L THEN v[i] = xs[i] ELSE v[i] = FALSE
  BY <1>2
<1>4. "bool" # "f16"
  OBVIOUS
<1> QED BY <1>1, <1>2, <1>3, <1>4 DEF ValuesMean, v

-----------------------------------------------------------------------------
(* cbrt_frame_finalize, step by step.                                      *)
Pad(bits) == Packed(bits, Len(bits) \div 8)

Fillers == acc \o Zeros(Padding)

(* The frame is finished: m is the buffer with the bits filled up.         *)
FinalizedAs(m, s1, s2, s3, s4, s5, len, total) ==
  LET flags == profile.flags
  IN /\ Filled(m, mem, Used, Pad(Fillers)) /\ len = payloadLen + Len(Pad(Fillers))
     /\ total = HeaderSize(flags) + len /\ Fits(Len(Pad(Fillers)))
     /\ Filled(s1, m, 6, Opt(flags, "seq", Bytes(seqNo, 1)))
     /\ Filled(s2, s1, TsOff(flags), Opt(flags, "ts", Bytes(queued.ts, 4)))
     /\ Filled(s3, s2, PeriodOff(flags), Opt(flags, "period", Bytes(queued.period, 2)))
     /\ Filled(s4, s3, LenOff(flags), Bytes(len, 2))
     /\ Filled(s5, s4, total, Opt(flags, "crc", Crc(SubSeq(s4, 5, total))))
     /\ mem' = s5
     /\ sent' = [bytes |-> SubSeq(s5, 1, total + CrcSize(flags)), given |-> given,
                 queued |-> queued, nth |-> sent.nth + 1]
     /\ seqNo' = (seqNo + 1) % SeqRange
     /\ payloadLen' = 0 /\ acc' = <<>> /\ queued' = NoQueue /\ given' = <<>>
     /\ profile' = profile /\ err' = err

LEMMA FinalizeIs ==
  ASSUME Finalize
  PROVE  /\ err = "ok"
         /\ Fail("overflow") \/ \E m, s1, s2, s3, s4, s5, len, total :
                                  FinalizedAs(m, s1, s2, s3, s4, s5, len, total)
<1> DEFINE flags == profile.flags
           pad == Pad(Fillers)
           len == payloadLen + Len(pad)
           total == HeaderSize(flags) + len
           m == Store(mem, Used, pad)
           s1 == Store(m, 6, Opt(flags, "seq", Bytes(seqNo, 1)))
           s2 == Store(s1, TsOff(flags), Opt(flags, "ts", Bytes(queued.ts, 4)))
           s3 == Store(s2, PeriodOff(flags), Opt(flags, "period", Bytes(queued.period, 2)))
           s4 == Store(s3, LenOff(flags), Bytes(len, 2))
           s5 == Store(s4, total, Opt(flags, "crc", Crc(SubSeq(s4, 5, total))))
<1>1. /\ err = "ok"
      /\ IF ~Fits(Len(pad)) \/ len > MaxPayload THEN Fail("overflow")
         ELSE /\ mem' = s5
              /\ sent' = [bytes |-> SubSeq(s5, 1, total + CrcSize(flags)), given |-> given,
                          queued |-> queued, nth |-> sent.nth + 1]
              /\ seqNo' = (seqNo + 1) % SeqRange
              /\ payloadLen' = 0 /\ acc' = <<>> /\ queued' = NoQueue /\ given' = <<>>
              /\ UNCHANGED <<profile, err>>
  BY Zenon DEF Finalize, Opt, Pad, Fillers, Zeros
<1>2. CASE Fail("overflow")
  BY <1>1, <1>2
<1>3. CASE ~Fail("overflow")
  <2>1. FinalizedAs(m, s1, s2, s3, s4, s5, len, total)
    <3>1. Fits(Len(pad)) /\ UNCHANGED <<profile, err>>
      BY <1>1, <1>3, Zenon
    <3>2. profile' = profile /\ err' = err
      BY <3>1
    <3> QED BY <1>1, <1>3, <3>1, <3>2, Zenon DEF FinalizedAs, Filled
  <2> QED BY <1>1, <2>1, Zenon
<1> QED BY <1>2, <1>3

-----------------------------------------------------------------------------
(* The bits that wait and the zeros behind them. *)
LEMMA FillersAreBits ==
  ASSUME BuilderInv, err = "ok", profile.datatype = "bool"
  PROVE  /\ Padding \in Nat /\ (Len(acc) + Padding) % 8 = 0
         /\ (Len(given) + Padding) % profile.channels = 0
         /\ Fillers \in Seq(BOOLEAN) /\ Len(Fillers) = Len(acc) + Padding
         /\ Len(Fillers) \in Nat /\ Buffer(Fillers, Len(Fillers))
<1> DEFINE ch == profile.channels
           zeros == Zeros(Padding)
           L == Len(given)
           A == Len(acc)
           q == payloadLen
<1>1. /\ given \in Seq(BOOLEAN) /\ L = 8 * q + A /\ L % ch = 0 /\ acc \in Seq(BOOLEAN)
      /\ q \in Nat
  BY DEF BuilderInv, Held, BitsHeld, EncInv, EncTypes
<1>2. ch \in Nat \ {0}
  <2>1. ch \in 1 .. 64
    BY ProfileTypes DEF BuilderInv, EncInv
  <2> HIDE DEF ch
  <2> QED BY <2>1
<1>3. L \in Nat /\ A \in Nat
  BY <1>1
<1>4. /\ Padding \in Nat /\ (A + Padding) % 8 = 0 /\ (L + Padding) % ch = 0
  <2> HIDE DEF L
  <2> QED BY <1>1, <1>2, <1>3, PaddingIs
<1>5. zeros \in Seq(BOOLEAN) /\ Len(zeros) = Padding
  BY <1>4, ZerosAre
<1>6. IsConcat(Fillers, acc, zeros)
  BY DEF Fillers, IsConcat
<1> HIDE DEF zeros
<1>7. Fillers \in Seq(BOOLEAN) /\ Len(Fillers) = A + Padding
  BY <1>1, <1>5, <1>6, JoinedIs
<1>8. Buffer(Fillers, Len(Fillers)) /\ Len(Fillers) \in Nat
  BY <1>7, SeqIsBuffer
<1> QED BY <1>4, <1>7, <1>8

(* The bits, with the rows of zeros behind them, fill len bytes of m.      *)
PaddedBits(m, len, all) ==
  /\ Buffer(m, profile.cap) /\ Prefixed(m, profile) /\ len \in Nat
  /\ BitsIn(m, HeaderSize(profile.flags), len, all) /\ Len(given) <= 8 * len
  /\ \A i \in 1 .. Len(given) : all[i] = given[i]
  /\ \A i \in 1 .. 8 * len : i > Len(given) => all[i] = FALSE
  /\ (8 * len) % profile.channels = 0

LEMMA BitsPadded ==
  ASSUME BuilderInv, err = "ok", profile.datatype = "bool",
         NEW m, Filled(m, mem, Used, Pad(Fillers)), NEW len, len = payloadLen + Len(Pad(Fillers)),
         Fits(Len(Pad(Fillers)))
  PROVE  PaddedBits(m, len, given \o Zeros(Padding))
<1> DEFINE ch == profile.channels
           zeros == Zeros(Padding)
           all == given \o zeros
           L == Len(given)
           A == Len(acc)
           N == Len(Fillers) \div 8
           q == payloadLen
<1>1. /\ given \in Seq(BOOLEAN) /\ L = 8 * q + A /\ L % ch = 0 /\ acc \in Seq(BOOLEAN)
      /\ q \in Nat
  BY DEF BuilderInv, Held, BitsHeld, EncInv, EncTypes
<1>3. L \in Nat /\ A \in Nat
  BY <1>1
<1>4. /\ Padding \in Nat /\ (A + Padding) % 8 = 0 /\ (L + Padding) % ch = 0
      /\ Fillers \in Seq(BOOLEAN) /\ Len(Fillers) = A + Padding
      /\ Len(Fillers) \in Nat /\ Buffer(Fillers, Len(Fillers))
  BY FillersAreBits
<1>5. zeros \in Seq(BOOLEAN) /\ Len(zeros) = Padding /\ \A i \in 1 .. Padding : zeros[i] = FALSE
  BY <1>4, ZerosAre
<1>6. IsConcat(Fillers, acc, zeros) /\ IsConcat(all, given, zeros)
  BY DEF Fillers, IsConcat
<1> HIDE DEF zeros, all
<1>8. /\ all \in Seq(BOOLEAN) /\ Len(all) = L + Padding
      /\ \A i \in 1 .. L : all[i] = given[i]
      /\ \A i \in 1 .. Padding : all[L + i] = zeros[i]
  <2>1. given \in Seq(BOOLEAN)
    BY <1>1
  <2>2. /\ all \in Seq(BOOLEAN) /\ Len(all) = Len(given) + Len(zeros)
        /\ \A i \in 1 .. Len(given) : all[i] = given[i]
        /\ \A i \in 1 .. Len(zeros) : all[Len(given) + i] = zeros[i]
    BY <1>5, <1>6, <2>1, JoinedIs
  <2> QED BY <1>5, <2>2
<1> HIDE DEF L, A, ch, q
<1>9. N \in Nat /\ 8 * N = Len(Fillers)
  <2> DEFINE x == Len(Fillers)
  <2>1. x \in Nat /\ x % 8 = 0
    BY <1>3, <1>4
  <2> HIDE DEF x
  <2> QED BY <2>1 DEF x
<1> HIDE DEF N
<1>10. Len(Pad(Fillers)) = N
  <2>1. 8 * N <= Len(Fillers)
    BY <1>9
  <2>2. Len(Packed(Fillers, N)) = N
    BY <1>4, <1>9, <2>1, PackedIs
  <2> QED BY <2>2, Zenon DEF Pad, N
<1>11. Used + N <= profile.cap
  BY <1>9, <1>10, RoomFor
<1>12. BitsAfter(m, all, N, Fillers)
  <2>1. Filled(m, mem, Used, Packed(Fillers, N))
    BY Zenon DEF Pad, N
  <2>2. 8 * N <= Len(Fillers)
    BY <1>9
  <2> QED BY <1>5, <1>6, <1>9, <1>11, <2>1, <2>2, BitsStored, Zenon
<1>13. /\ Buffer(m, profile.cap) /\ Prefixed(m, profile)
       /\ BitsIn(m, HeaderSize(profile.flags), q + N, all)
       /\ Len(all) = 8 * q + Len(Fillers)
  BY <1>12 DEF BitsAfter, q
<1>14. len = q + N
  BY <1>10 DEF q
<1>15. len \in Nat /\ 8 * len = L + Padding
  <2>1. 8 * len = 8 * q + 8 * N
    BY <1>1, <1>9, <1>14 DEF q
  <2>2. q \in Nat
    BY <1>1 DEF q
  <2>3. L = 8 * q + A
    BY <1>1
  <2>4. Len(Fillers) = A + Padding
    BY <1>4
  <2> QED BY <1>3, <1>4, <1>9, <1>14, <2>1, <2>2, <2>3, <2>4
<1>16. ASSUME NEW i \in 1 .. 8 * len, i > L PROVE all[i] = FALSE
  <2>1. i - L \in 1 .. Padding /\ L + (i - L) = i
    BY <1>3, <1>4, <1>15, <1>16
  <2>2. all[L + (i - L)] = zeros[i - L]
    BY <1>8, <2>1
  <2> QED BY <1>5, <2>1, <2>2
<1>17. L <= 8 * len
  BY <1>3, <1>4, <1>15
<1>18. BitsIn(m, HeaderSize(profile.flags), len, all)
  BY <1>13, <1>14, Zenon
<1>19. (8 * len) % ch = 0
  BY <1>4, <1>15
<1>20. PaddedBits(m, len, all)
  BY <1>8, <1>13, <1>15, <1>16, <1>17, <1>18, <1>19 DEF PaddedBits, L, ch
<1> QED BY <1>20 DEF all, zeros

(* Samples need no filling. *)
LEMMA SamplesPadded ==
  ASSUME BuilderInv, err = "ok", profile.datatype # "bool",
         NEW m, Filled(m, mem, Used, Pad(Fillers))
  PROVE  m = mem /\ Len(Pad(Fillers)) = 0
<1>1. acc = <<>>
  BY DEF BuilderInv, Held, SamplesHeld
<1>2. profile.channels \in Nat \ {0}
  <2> DEFINE ch == profile.channels
  <2>1. ch \in 1 .. 64
    BY ProfileTypes DEF BuilderInv, EncInv
  <2> HIDE DEF ch
  <2>2. ch \in Nat \ {0}
    BY <2>1
  <2> QED BY <2>2 DEF ch
<1>3. Padding = 0 /\ 0 \in Nat
  BY <1>1, <1>2, NoPadding
<1>4. Zeros(0) \in Seq(BOOLEAN) /\ Len(Zeros(0)) = 0 /\ acc \in Seq(BOOLEAN) /\ Len(acc) = 0
  <2>1. Zeros(0) \in Seq(BOOLEAN) /\ Len(Zeros(0)) = 0
    BY <1>3, ZerosAre
  <2>2. <<>> \in Seq(BOOLEAN) /\ Len(<<>>) = 0
    OBVIOUS
  <2> QED BY <1>1, <2>1, <2>2
<1>5. IsConcat(Fillers, acc, Zeros(0))
  BY <1>3 DEF Fillers, IsConcat
<1>6. Fillers \in Seq(BOOLEAN) /\ Len(Fillers) = 0
  BY <1>4, <1>5, JoinedIs
<1>7. Len(Pad(Fillers)) = 0
  <2>1. Buffer(Fillers, Len(Fillers)) /\ Len(Fillers) \in Nat
    BY <1>6, SeqIsBuffer
  <2>2. 8 * 0 <= Len(Fillers) /\ Len(Fillers) \div 8 = 0
    BY <1>6
  <2>3. Len(Packed(Fillers, 0)) = 0
    BY <1>3, <2>1, <2>2, PackedIs
  <2> QED BY <2>2, <2>3 DEF Pad
<1>8. profile.cap \in Nat /\ Buffer(mem, profile.cap)
  BY ProfileTypes DEF BuilderInv, EncInv
<1>9. Buffer(m, profile.cap) /\ Stored(m, mem, profile.cap, Used, Pad(Fillers))
  BY <1>8, StoreIs DEF Filled
<1>10. ASSUME NEW i \in 1 .. profile.cap PROVE m[i] = mem[i]
  <2>1. ~(i - Used \in 1 .. 0)
    OBVIOUS
  <2> QED BY <1>7, <1>9, <2>1 DEF Stored
<1>11. m = mem
  BY <1>8, <1>9, <1>10, SameBuffers
<1> QED BY <1>7, <1>11

-----------------------------------------------------------------------------
(* What the finished frame holds behind its header, by datatype.           *)
HoldsAll(m, len) ==
  /\ Buffer(m, profile.cap) /\ Prefixed(m, profile) /\ len \in Nat
  /\ profile.datatype # "bool" =>
       /\ given \in Seq(Samples[profile.datatype])
       /\ len = ByteCount(profile.datatype) * Len(given)
       /\ Laid(m, HeaderSize(profile.flags), ByteCount(profile.datatype), given)
  /\ profile.datatype = "bool" =>
       /\ Len(given) \in Nat /\ Len(given) % profile.channels = 0
       /\ PaddedBits(m, len, given \o Zeros(Padding))

LEMMA FinalizeHolds ==
  ASSUME BuilderInv, err = "ok", NEW m, Filled(m, mem, Used, Pad(Fillers)),
         NEW len, len = payloadLen + Len(Pad(Fillers)), Fits(Len(Pad(Fillers)))
  PROVE  HoldsAll(m, len)
<1>1. CASE profile.datatype # "bool"
  <2>1. m = mem /\ Len(Pad(Fillers)) = 0
    BY <1>1, SamplesPadded
  <2>2. Held /\ SamplesHeld /\ Buffer(mem, profile.cap) /\ payloadLen \in Nat
    BY <1>1 DEF BuilderInv, Held, EncInv, EncTypes
  <2>3. len = payloadLen
    BY <2>1, <2>2
  <2>4. Prefixed(mem, profile)
    BY <2>2 DEF Held
  <2> QED BY <1>1, <2>1, <2>2, <2>3, <2>4 DEF HoldsAll, SamplesHeld
<1>2. CASE profile.datatype = "bool"
  <2>1. PaddedBits(m, len, given \o Zeros(Padding))
    BY <1>2, BitsPadded, Zenon
  <2>2. given \in Seq(BOOLEAN) /\ Len(given) % profile.channels = 0
    BY <1>2 DEF BuilderInv, Held, BitsHeld
  <2>3. Len(given) \in Nat
    BY <2>2
  <2>4. Buffer(m, profile.cap) /\ Prefixed(m, profile) /\ len \in Nat
    BY <2>1, Zenon DEF PaddedBits
  <2> QED BY <1>2, <2>1, <2>2, <2>3, <2>4, Zenon DEF HoldsAll
<1> QED BY <1>1, <1>2

LEMMA FrameIsMeant ==
  ASSUME NEW m, NEW len, HoldsAll(m, len), NEW buf, NEW sq, NEW q, NEW nth,
         Built(buf, profile, len, sq, q), sq = (nth - 1) % SeqRange,
         \A i \in 1 .. len : buf[HeaderSize(profile.flags) + i] = m[HeaderSize(profile.flags) + i],
         profile.datatype \in Datatypes, profile.channels \in 1 .. 64
  PROVE  FrameMeans(buf, given, q, nth, profile)
<1> DEFINE H == HeaderSize(profile.flags)
           dt == profile.datatype
           ch == profile.channels
           P == SubSeq(buf, H + 1, H + len)
           v == MaterializeValues(dt, ch, P)
<1>1. len \in Nat /\ H \in Nat /\ CrcSize(profile.flags) \in Nat
  BY Sizes DEF HoldsAll
<1>2. ch \in Nat \ {0}
  <2>1. ch \in 1 .. 64
    OBVIOUS
  <2> HIDE DEF ch
  <2> QED BY <2>1
<1>3. Buffer(P, len) /\ \A i \in 1 .. len : P[i] = m[H + i]
  <2> DEFINE N == (H + len) + CrcSize(profile.flags)
  <2>1. Buffer(buf, N)
    BY Zenon DEF Built
  <2>2. \A i \in 1 .. len : buf[H + i] = m[H + i]
    OBVIOUS
  <2> HIDE DEF H
  <2>3. N \in Nat /\ H + len <= N
    BY <1>1
  <2> HIDE DEF N
  <2> QED BY <1>1, <2>1, <2>2, <2>3, PayloadCut
<1> HIDE DEF P
<1>4. /\ Exact(len, dt, ch) <=> Len(given) % ch = 0
      /\ Len(given) % ch = 0 => ValuesMean(v, given, dt)
  <2>1. CASE dt # "bool"
    <3> DEFINE n == ByteCount(dt)
    <3>1. given \in Seq(Samples[dt]) /\ len = n * Len(given) /\ Laid(m, H, n, given)
      BY <2>1 DEF HoldsAll
    <3>2. n \in Nat
      BY <2>1, Sizes
    <3>3. Len(given) \in Nat
      BY <3>1
    <3> HIDE DEF n, H
    <3>4. Laid(P, 0, n, given)
      BY <1>1, <1>3, <3>1, <3>2, <3>3, LaidCut
    <3>5. dt \in Datatypes
      OBVIOUS
    <3> HIDE DEF dt, ch
    <3> QED BY <1>2, <1>3, <2>1, <3>1, <3>4, <3>5, SamplesMean DEF n
  <2>2. CASE dt = "bool"
    <3> DEFINE all == given \o Zeros(Padding)
    <3>1. Len(given) \in Nat /\ Len(given) % ch = 0 /\ PaddedBits(m, len, all)
      BY <2>2 DEF HoldsAll
    <3> HIDE DEF all
    <3>2. /\ BitsIn(m, H, len, all) /\ Len(given) <= 8 * len
          /\ \A i \in 1 .. Len(given) : all[i] = given[i]
          /\ \A i \in 1 .. 8 * len : i > Len(given) => all[i] = FALSE
          /\ (8 * len) % ch = 0
      BY <3>1 DEF PaddedBits
    <3> HIDE DEF H
    <3>3. BitsIn(P, 0, len, all)
      BY <1>1, <1>3, <3>2, BitsCut
    <3> HIDE DEF ch
    <3>4. Exact(len, "bool", ch) /\ ValuesMean(MaterializeValues("bool", ch, P), given, "bool")
      BY <1>1, <1>2, <1>3, <3>1, <3>2, <3>3, BitsMean
    <3> QED BY <2>2, <3>1, <3>4
  <2> QED BY <2>1, <2>2
<1>5. P = SubSeq(buf, HeaderSize(profile.flags) + 1, HeaderSize(profile.flags) + len)
  BY DEF P
<1> HIDE DEF H
<1> QED BY <1>1, <1>4, <1>5, BuiltMeans, Zenon

LEMMA BuilderFinalize ==
  ASSUME BuilderInv, RoundTrip, Finalize
  PROVE  BuilderInv' /\ RoundTrip'
<1>1. err = "ok"
  BY FinalizeIs
<1>2. EncInv'
  BY FinalizeStep DEF BuilderInv
<1>3. CASE Fail("overflow")
  <2>1. BuilderInv'
    BY <1>3, BuilderFail
  <2>2. UNCHANGED <<profile, sent>>
    BY <1>3 DEF Fail
  <2> QED BY <2>1, <2>2, RoundTripKept
<1>4. ASSUME NEW m, NEW s1, NEW s2, NEW s3, NEW s4, NEW s5, NEW len, NEW total,
             FinalizedAs(m, s1, s2, s3, s4, s5, len, total)
      PROVE  BuilderInv' /\ RoundTrip'
  <2> DEFINE flags == profile.flags
             H == HeaderSize(flags)
             k == CrcSize(flags)
             buf == SubSeq(s5, 1, total + k)
             nth == sent.nth + 1
  <2>1. /\ Filled(m, mem, Used, Pad(Fillers)) /\ len = payloadLen + Len(Pad(Fillers))
        /\ total = H + len /\ Fits(Len(Pad(Fillers)))
        /\ Filled(s1, m, 6, Opt(flags, "seq", Bytes(seqNo, 1)))
        /\ Filled(s2, s1, TsOff(flags), Opt(flags, "ts", Bytes(queued.ts, 4)))
        /\ Filled(s3, s2, PeriodOff(flags), Opt(flags, "period", Bytes(queued.period, 2)))
        /\ Filled(s4, s3, LenOff(flags), Bytes(len, 2))
        /\ Filled(s5, s4, total, Opt(flags, "crc", Crc(SubSeq(s4, 5, total))))
    BY <1>4, Zenon DEF FinalizedAs
  <2>2. /\ mem' = s5 /\ seqNo' = (seqNo + 1) % SeqRange
        /\ sent' = [bytes |-> buf, given |-> given, queued |-> queued, nth |-> nth]
        /\ payloadLen' = 0 /\ acc' = <<>> /\ given' = <<>> /\ profile' = profile /\ err' = err
    BY <1>4, Zenon DEF FinalizedAs
  <2>3. HoldsAll(m, len)
    BY <1>1, <2>1, FinalizeHolds, Zenon
  <2>4. Buffer(m, profile.cap) /\ Prefixed(m, profile) /\ len \in Nat
    BY <2>3, Zenon DEF HoldsAll
  <2>5. profile.cap \in Nat /\ profile.datatype \in Datatypes /\ profile.channels \in 1 .. 64
    BY ProfileTypes DEF BuilderInv, EncInv
  <2>6. (H + len) + k <= profile.cap
    <3>1. Used + Len(Pad(Fillers)) + k <= profile.cap
      BY <2>1 DEF Fits
    <3>2. H \in Nat /\ k \in Nat
      BY Sizes
    <3>3. payloadLen \in Nat /\ Used = H + payloadLen
      BY DEF BuilderInv, EncInv, EncTypes, Used
    <3> DEFINE N == Len(Pad(Fillers))
    <3>4. N \in Int
      <4>1. CASE profile.datatype # "bool"
        BY <1>1, <2>1, <4>1, SamplesPadded
      <4>2. CASE profile.datatype = "bool"
        <5>1. Len(Fillers) \in Nat /\ Buffer(Fillers, Len(Fillers))
          BY FillersAreBits, <1>1, <4>2
        <5> DEFINE c == Len(Fillers) \div 8
        <5>2. c \in Nat /\ 8 * c <= Len(Fillers)
          BY <5>1
        <5> HIDE DEF c
        <5>3. Len(Packed(Fillers, c)) = c
          BY <5>1, <5>2, PackedIs
        <5> QED BY <5>2, <5>3 DEF Pad, c
      <4> QED BY <4>1, <4>2
    <3>5. len = payloadLen + N
      BY <2>1
    <3> HIDE DEF H, k, N
    <3> QED BY <2>5, <3>1, <3>2, <3>3, <3>4, <3>5 DEF N
  <2>7. /\ Buffer(s5, profile.cap) /\ Prefixed(s5, profile) /\ Built(buf, profile, len, seqNo, queued)
        /\ \A i \in 1 .. len : buf[H + i] = m[H + i]
    <3>1. total = H + len
      BY <2>1
    <3>2. CrcFilled(s5, s4, profile, HeaderSize(profile.flags) + len)
      BY <2>1, <3>1, Zenon DEF CrcFilled
    <3>3. IsCut(buf, s5, (HeaderSize(profile.flags) + len) + CrcSize(profile.flags))
      BY <3>1, Zenon DEF IsCut
    <3>4. /\ Filled(s1, m, 6, Opt(profile.flags, "seq", Bytes(seqNo, 1)))
          /\ Filled(s2, s1, TsOff(profile.flags), Opt(profile.flags, "ts", Bytes(queued.ts, 4)))
          /\ Filled(s3, s2, PeriodOff(profile.flags),
                    Opt(profile.flags, "period", Bytes(queued.period, 2)))
          /\ Filled(s4, s3, LenOff(profile.flags), Bytes(len, 2))
      BY <2>1
    <3> HIDE DEF buf
    <3>5. Finished(s5, buf, m, profile.cap, profile, len, seqNo, queued)
      BY <2>4, <2>5, <2>6, <3>2, <3>3, <3>4, FinishedFrame, Zenon
    <3> QED BY <3>5, Zenon DEF Finished
  <2> HIDE DEF buf
  <2>8. sent.nth \in Nat /\ seqNo = sent.nth % SeqRange /\ SeqRange \in Nat \ {0}
    BY EncoderAssumption DEF BuilderInv
  <2>9. nth \in Nat /\ nth - 1 = sent.nth /\ seqNo' = nth % SeqRange
    <3>1. ((sent.nth % SeqRange) + 1) % SeqRange = (sent.nth + 1) % SeqRange
      BY <2>8, SuccMod
    <3>2. seqNo' = ((sent.nth % SeqRange) + 1) % SeqRange
      BY <2>2, <2>8, Zenon
    <3>3. nth \in Nat /\ nth - 1 = sent.nth
      BY <2>8
    <3> QED BY <3>1, <3>2, <3>3, Zenon
  <2>10. seqNo = (nth - 1) % SeqRange
    BY <2>8, <2>9
  <2> HIDE DEF nth
  <2>11. FrameMeans(buf, given, queued, nth, profile)
    BY <2>3, <2>5, <2>7, <2>10, FrameIsMeant, Zenon
  <2>12. RoundTrip'
    <3>1. /\ sent'.bytes = buf /\ sent'.given = given /\ sent'.queued = queued
          /\ sent'.nth = nth
      BY <2>2
    <3>2. FrameMeans(sent'.bytes, sent'.given, sent'.queued, sent'.nth, profile')
      BY <2>2, <2>11, <3>1, Zenon
    <3>3. RoundTrip' <=> (sent' # NoFrame => FrameMeans(sent'.bytes, sent'.given, sent'.queued,
                                                        sent'.nth, profile'))
      BY Zenon DEF RoundTrip, FrameMeans
    <3> QED BY <3>2, <3>3
  <2>13. BuilderInv'
    <3>1. sent'.nth = nth
      BY <2>2
    <3>2. Buffer(mem', profile'.cap) /\ Prefixed(mem', profile')
      BY <2>2, <2>7
    <3>3. profile \in Profiles
      BY DEF BuilderInv, EncInv, EncTypes
    <3> DEFINE n == ByteCount(profile.datatype)
    <3>4. /\ n * Len(<<>>) = n * 0 /\ Len(<<>>) = 0
          /\ Laid(s5, H, n, <<>>) /\ BitsIn(s5, H, 0, <<>>)
          /\ <<>> \in Seq(Samples[profile.datatype]) /\ <<>> \in Seq(BOOLEAN)
          /\ 0 % profile.channels = 0
          /\ (profile.datatype # "bool" => n \in Nat)
      <4>1. /\ Laid(s5, H, n, <<>>) /\ BitsIn(s5, H, 0, <<>>)
        BY DEF Laid, BitsIn
      <4> QED BY <3>3, <4>1, NothingHeld
    <3>5. profile.datatype # "bool" => SamplesHeld'
      BY <2>2, <3>4 DEF SamplesHeld
    <3>6. profile.datatype = "bool" => BitsHeld'
      BY <2>2, <3>4 DEF BitsHeld
    <3>7. Held'
      BY <2>2, <3>2, <3>5, <3>6 DEF Held
    <3> QED BY <1>2, <2>9, <3>1, <3>2, <3>7 DEF BuilderInv
  <2> QED BY <2>12, <2>13
<1> QED BY <1>3, <1>4, FinalizeIs

LEMMA BuilderStep == BuilderInv /\ RoundTrip /\ [EncNext]_encVars => BuilderInv' /\ RoundTrip'
<1> SUFFICES ASSUME BuilderInv, RoundTrip, [EncNext]_encVars PROVE BuilderInv' /\ RoundTrip'
  OBVIOUS
<1>1. CASE UNCHANGED encVars
  <2>1. /\ profile' = profile /\ mem' = mem /\ seqNo' = seqNo /\ queued' = queued
        /\ payloadLen' = payloadLen /\ acc' = acc /\ err' = err /\ given' = given /\ sent' = sent
    BY <1>1 DEF encVars
  <2>2. BuilderInv'
    BY <2>1 DEF BuilderInv, EncInv, EncTypes, NoOverrun, Held, SamplesHeld, BitsHeld
  <2> QED BY <2>1, <2>2, RoundTripKept
<1>2. ASSUME NEW p \in Profiles, FrameInit(p) PROVE BuilderInv' /\ RoundTrip'
  BY <1>2, BuilderStart
<1>3. ASSUME NEW field, NEW x, SetField(field, x) PROVE BuilderInv' /\ RoundTrip'
  <2>1. /\ profile' = profile /\ mem' = mem /\ seqNo' = seqNo /\ err = "ok"
        /\ payloadLen' = payloadLen /\ acc' = acc /\ given' = given /\ sent' = sent
    BY <1>3 DEF SetField
  <2>2. BuilderInv'
    BY <2>1 DEF BuilderInv, EncInv, EncTypes, NoOverrun, Held, SamplesHeld, BitsHeld
  <2> QED BY <2>1, <2>2, RoundTripKept
<1>4. ASSUME NEW dt \in Datatypes \ {"bool"}, NEW x \in Samples[dt], AppendOne(dt, x)
      PROVE BuilderInv' /\ RoundTrip'
  <2>1. UNCHANGED <<profile, sent>>
    BY <1>4 DEF AppendOne, Put, Fail
  <2> QED BY <1>4, <2>1, BuilderOne, RoundTripKept
<1>5. ASSUME NEW n \in 0 .. 2 * profile.channels + 1, NEW x \in Samples[profile.datatype],
             AppendRaw([i \in 1 .. n |-> x])
      PROVE BuilderInv' /\ RoundTrip'
  <2> DEFINE xs == [i \in 1 .. n |-> x]
  <2>1. n \in Nat
    BY ProfileTypes DEF BuilderInv, EncInv
  <2>2. xs \in [1 .. n -> Samples[profile.datatype]]
    OBVIOUS
  <2>3. AppendRaw(xs)
    BY <1>5
  <2> HIDE DEF xs
  <2>4. xs \in Seq(Samples[profile.datatype])
    BY <2>1, <2>2, FunctionIsSeq
  <2>5. UNCHANGED <<profile, sent>>
    BY <2>3 DEF AppendRaw, Put, Fail
  <2> QED BY <2>3, <2>4, <2>5, BuilderRaw, RoundTripKept
<1>6. ASSUME NEW row \in Samples["bool"], AppendBool([c \in 1 .. profile.channels |-> row[c]])
      PROVE BuilderInv' /\ RoundTrip'
  <2> DEFINE m == profile.channels
             xs == [c \in 1 .. m |-> row[c]]
  <2>1. row \in [1 .. 64 -> BOOLEAN] /\ m \in 1 .. 64
    BY EncoderAssumption, ProfileTypes DEF BuilderInv, EncInv
  <2>2. m \in Nat /\ \A c \in 1 .. m : row[c] \in BOOLEAN
    BY <2>1
  <2>3. AppendBool(xs)
    BY <1>6
  <2> HIDE DEF m
  <2>4. xs \in [1 .. m -> BOOLEAN]
    BY <2>2
  <2> HIDE DEF xs
  <2>5. xs \in Seq(BOOLEAN)
    BY <2>2, <2>4, FunctionIsSeq
  <2>6. Len(xs) = m
    <3>1. DOMAIN xs = 1 .. m
      BY <2>4
    <3> QED BY <2>2, <2>5, <3>1
  <2>7. UNCHANGED <<profile, sent>>
    BY <2>3 DEF AppendBool, Fail
  <2> QED BY <2>3, <2>5, <2>6, <2>7, BuilderBool, RoundTripKept DEF m
<1>7. CASE Finalize
  BY <1>7, BuilderFinalize
<1> QED BY <1>1, <1>2, <1>3, <1>4, <1>5, <1>6, <1>7 DEF EncNext

(* For every set of profiles, samples and stamps, every buffer and every   *)
(* sequence of calls, what the C builder finishes and what the Rust parser *)
(* reads of it agree.                                                      *)
THEOREM RoundTripHolds == EncSpec => []RoundTrip
BY BuilderInit, BuilderStep, PTL DEF EncSpec
=============================================================================
