----------------------------- MODULE CbrtEncoder -----------------------------
(***************************************************************************)
(* The CBRT frame builder of the C library (cbrt.c): one struct and one    *)
(* buffer of the caller for a whole session.  Errors are sticky; a         *)
(* finished frame leaves the builder ready for the next one.               *)
(***************************************************************************)
EXTENDS CbrtFrame

CONSTANTS
  Profiles,    \* [datatype, channels, flags, cap] a session is started with
  Samples,     \* per datatype: the values appended
  Stamps,      \* values of the ts and period fields
  MaxGiven,    \* bound on the samples of one frame
  MaxFrames,   \* bound on the frames of one session
  MaxPayload,  \* 65535: the length field has 16 bits
  SeqRange       \* 256: the sequence number has 8 bits

ASSUME EncoderAssumption ==
  /\ Profiles \subseteq [datatype : Datatypes, channels : 1 .. 64,
                         flags : SUBSET OptionalFields, cap : Nat]
  /\ Samples["bool"] \subseteq [1 .. 64 -> BOOLEAN]
  /\ MaxPayload \in Nat /\ SeqRange \in Nat \ {0}

\* The bits of a half.
ASSUME HalfAssumption == Samples["f16"] \subseteq 0 .. 2^16 - 1

VARIABLES
  profile,     \* datatype, channels, flags and cap of the builder
  mem,         \* the caller's buffer
  seqNo,       \* the sequence counter
  queued,      \* ts_us and period_us
  payloadLen,  \* bytes appended to this frame
  acc,         \* bool_acc: the bits of the byte that is not full yet
  err,         \* the sticky error of the frame
  given,       \* the samples the caller appended to this frame
  sent         \* the frame finished last, and what it should say

encVars == <<profile, mem, seqNo, queued, payloadLen, acc, err, given, sent>>

NoQueue == [ts |-> 0, period |-> 0]
NoFrame == [bytes |-> <<>>, given |-> <<>>, queued |-> NoQueue, nth |-> 0]

(* The end of what is written, and of what has to fit in the buffer. *)
Used    == HeaderSize(profile.flags) + payloadLen
FitsBare(n) == Used + n <= profile.cap     \* mutant: no room kept for the checksum

Fits(n) == Used + n + CrcSize(profile.flags) <= profile.cap

(* m with the bytes stored behind its first `at' ones. *)
Store(m, at, bytes) ==
  [i \in DOMAIN m |-> IF i - at \in 1 .. Len(bytes) THEN bytes[i - at] ELSE m[i]]
-----------------------------------------------------------------------------
(* cbrt_frame_init; the prefix is written only when a frame can fit. *)
InitRoom(p) == HeaderSize(p.flags) + CrcSize(p.flags) <= p.cap
InitErr(p)  == IF InitRoom(p) THEN "ok" ELSE "overflow"
InitMem(p)  ==
  LET prefix == Bytes("CBRT", 4)
                \o <<<<[flags |-> p.flags, datatype |-> p.datatype], 1>>, <<p.channels, 1>>>>
  IN Store([i \in 1 .. p.cap |-> <<0, 0>>], 0, IF InitRoom(p) THEN prefix ELSE <<>>)

FrameInit(p) ==
  /\ profile' = p /\ mem' = InitMem(p) /\ err' = InitErr(p)
  /\ seqNo' = 0 /\ queued' = NoQueue /\ payloadLen' = 0 /\ acc' = <<>>
  /\ given' = <<>> /\ sent' = NoFrame

(* cbrt_frame_set_ts and cbrt_frame_set_period. *)
SetField(field, x) ==
  /\ err = "ok"
  /\ IF field \in profile.flags
     THEN queued' = [queued EXCEPT ![field] = x] /\ UNCHANGED err
     ELSE err' = "bad state" /\ UNCHANGED queued
  /\ UNCHANGED <<profile, mem, seqNo, payloadLen, acc, given, sent>>

Fail(e) ==
  /\ err' = e
  /\ UNCHANGED <<profile, mem, seqNo, queued, payloadLen, acc, given, sent>>

(* reserve_, then the bytes are stored. *)
Put(bytes, xs) ==
  IF Fits(Len(bytes))
  THEN /\ mem' = Store(mem, Used, bytes) /\ payloadLen' = payloadLen + Len(bytes)
       /\ given' = given \o xs
       /\ UNCHANGED <<profile, seqNo, queued, acc, err, sent>>
  ELSE Fail("overflow")

(* cbrt_append_u8 ... cbrt_append_f16: one sample of the datatype dt. *)
AppendOne(dt, x) ==
  /\ err = "ok" /\ dt # "bool"
  /\ IF dt # profile.datatype THEN Fail("wrong type")
     ELSE Put(Bytes(x, ByteCount(dt)), <<x>>)

(* cbrt_append_raw: whole rows, already laid out. *)
AppendRaw(xs) ==
  /\ err = "ok"
  /\ CASE profile.datatype = "bool" -> Fail("wrong type")
       [] profile.datatype # "bool" /\ Len(xs) % profile.channels # 0 -> Fail("bad align")
       [] OTHER ->
            LET n == ByteCount(profile.datatype)
            IN Put([i \in 1 .. n * Len(xs) |-> <<xs[((i - 1) \div n) + 1], ((i - 1) % n) + 1>>], xs)

(* Bits fill bytes, and every full byte is reserved and stored by itself:  *)
(* the room may end between two bytes of one row.                          *)
Packed(bits, n) == [k \in 1 .. n |-> <<SubSeq(bits, 8 * k - 7, 8 * k), 1>>]
Room            == profile.cap - CrcSize(profile.flags) - Used

AppendBool(row) ==
  /\ err = "ok"
  /\ IF profile.datatype # "bool" THEN Fail("wrong type")
     ELSE LET bits == acc \o row
              full == Len(bits) \div 8
              n    == IF full <= Room THEN full ELSE Room
          IN /\ mem' = Store(mem, Used, Packed(bits, n)) /\ payloadLen' = payloadLen + n
             /\ acc' = SubSeq(bits, 8 * n + 1, IF full <= Room THEN Len(bits) ELSE 8 * n + 8)
             /\ err' = IF full <= Room THEN "ok" ELSE "overflow"
             /\ given' = given \o row
             /\ UNCHANGED <<profile, seqNo, queued, sent>>

(* cbrt_frame_finalize: packed bits are filled up with rows of zeros, the  *)
(* header and the checksum are written, and the builder rolls forward.  On *)
(* an error it stays as it is, and the error is not cleared.               *)
PadToByte == (8 - Len(acc)) % 8     \* mutant: bits instead of whole rows

Padding ==
  LET Fills(z) == (Len(acc) + z * profile.channels) % 8 = 0
      rows == CHOOSE z \in 0 .. 7 : Fills(z) /\ \A y \in 0 .. z - 1 : ~Fills(y)
  IN rows * profile.channels

Finalize ==
  LET flags == profile.flags
      pad   == LET bits == acc \o [i \in 1 .. Padding |-> FALSE]
               IN Packed(bits, Len(bits) \div 8)
      len   == payloadLen + Len(pad)
      total == HeaderSize(flags) + len
      Field(name, bytes) == IF name \in flags THEN bytes ELSE <<>>
      padded == Store(mem, Used, pad)
      seqIn  == Store(padded, 6, Field("seq", Bytes(seqNo, 1)))
      tsIn   == Store(seqIn, TsOff(flags), Field("ts", Bytes(queued.ts, 4)))
      perIn  == Store(tsIn, PeriodOff(flags), Field("period", Bytes(queued.period, 2)))
      body   == Store(perIn, LenOff(flags), Bytes(len, 2))
      whole  == Store(body, total, Field("crc", Crc(SubSeq(body, 5, total))))
  IN /\ err = "ok"
     /\ IF ~Fits(Len(pad)) \/ len > MaxPayload THEN Fail("overflow")
        ELSE /\ mem' = whole
             /\ sent' = [bytes |-> SubSeq(whole, 1, total + CrcSize(flags)), given |-> given,
                         queued |-> queued, nth |-> sent.nth + 1]
             /\ seqNo' = (seqNo + 1) % SeqRange
             /\ payloadLen' = 0 /\ acc' = <<>> /\ queued' = NoQueue /\ given' = <<>>
             /\ UNCHANGED <<profile, err>>
-----------------------------------------------------------------------------
EncInit ==
  /\ profile \in Profiles /\ mem = InitMem(profile) /\ err = InitErr(profile)
  /\ seqNo = 0 /\ queued = NoQueue /\ payloadLen = 0 /\ acc = <<>>
  /\ given = <<>> /\ sent = NoFrame

(* Any caller; a raw append brings up to two rows, or one sample too many. *)
EncNext ==
  \/ \E p \in Profiles : FrameInit(p)
  \/ \E field \in {"ts", "period"}, x \in Stamps : SetField(field, x)
  \/ /\ Len(given) < MaxGiven
     /\ \/ \E dt \in Datatypes \ {"bool"} : \E x \in Samples[dt] : AppendOne(dt, x)
        \/ \E n \in 0 .. 2 * profile.channels + 1 : \E x \in Samples[profile.datatype] :
             AppendRaw([i \in 1 .. n |-> x])
        \/ \E row \in Samples["bool"] : AppendBool([c \in 1 .. profile.channels |-> row[c]])
  \/ sent.nth < MaxFrames /\ Finalize

EncSpec == EncInit /\ [][EncNext]_encVars
-----------------------------------------------------------------------------
(* As long as no error is recorded, what has been written of the frame and *)
(* the checksum that is still to come fit in the caller's buffer, whatever *)
(* the order of appends, raw appends and packed bits (cbrt.c:106-116): the *)
(* header, written last, never runs over it.                               *)
NoOverrun ==
  err = "ok" => HeaderSize(profile.flags) + payloadLen + CrcSize(profile.flags) <= profile.cap

(* The single y has the value m * 2^-24 of a subnormal half; it is normal. *)
IsSubnormal(y, m) ==
  \E k \in 0 .. 9 : y.exp = k - 24 + 127 /\ y.mant = (m - 2 ^ k) * 2 ^ (23 - k)

(* The single y has the value of the half x: the same sign, exponent and   *)
(* fraction, unless x is subnormal.                                        *)
IsHalf(y, x) ==
  LET exp == (x \div 1024) % 32 mant == x % 1024
  IN /\ y.sign = x \div 32768
     /\ CASE exp = 0 /\ mant > 0 -> IsSubnormal(y, mant)
          [] exp = 0 /\ mant = 0 -> y.exp = 0 /\ y.mant = 0
          [] exp = 31 -> y.exp = 255 /\ y.mant \div 8192 = mant
          [] OTHER -> y.exp - 127 = exp - 15 /\ y.mant = mant * 8192

(* What the C encoder finishes and what the Rust parser reads of it agree: *)
(* the parser accepts the frame exactly when the samples appended form     *)
(* whole rows, and then finds these samples, after them the rows of zeros  *)
(* that fill packed bits up, and the fields that were set; what is shown of the *)
(* frame covers it.  A frame with a row that is not whole is finished      *)
(* without an error, and is rejected.                                      *)
RoundTrip ==
  sent # NoFrame =>
    LET p == Parse(sent.bytes)
        Meant(f, x) == IF f \in profile.flags THEN {x} ELSE {}
        Means(x, y) == IF profile.datatype = "f16" THEN IsHalf(x, y) ELSE x = y
    IN IF Len(sent.given) % profile.channels # 0 THEN p = Reject
       ELSE /\ p.kind = "Complete" /\ p.end = Len(sent.bytes)
            /\ Covered(p.contents) = p.end
            /\ p.seq = Meant("seq", (sent.nth - 1) % SeqRange)
            /\ p.ts = Meant("ts", sent.queued.ts)
            /\ p.period = Meant("period", sent.queued.period)
            /\ Len(p.values) >= Len(sent.given)
            /\ \A i \in DOMAIN p.values :
                 IF i <= Len(sent.given) THEN Means(p.values[i], sent.given[i])
                 ELSE profile.datatype = "bool" /\ p.values[i] = FALSE
=============================================================================
