------------------------------ MODULE CbrtFrame ------------------------------
(***************************************************************************)
(* The CBRT frame: what its fields are, where the C encoder (cbrt.c) puts  *)
(* them, and how the Rust parser (parser.rs) finds and checks them again.  *)
(* A byte is <<x, k>>, the k-th byte of x in little endian; x is a number, *)
(* for a packed byte the sequence of its bits, most significant first.     *)
(***************************************************************************)
EXTENDS Integers, Sequences

OptionalFields == {"seq", "ts", "period", "crc"}

BytesPerDatatype ==
  [u8 |-> 1, i8 |-> 1, u16 |-> 2, i16 |-> 2, q15 |-> 2, bf16 |-> 2, f16 |-> 2,
   u32 |-> 4, i32 |-> 4, f32 |-> 4, q31 |-> 4, u64 |-> 8, i64 |-> 8, f64 |-> 8]

Datatypes == DOMAIN BytesPerDatatype \cup {"bool"}

ByteCount(dt) == IF dt = "bool" THEN 0 ELSE BytesPerDatatype[dt]

Bytes(x, n) == [k \in 1 .. n |-> <<x, k>>]

Number(bytes) ==            \* from_le_bytes; -1 stands for bytes of several numbers
  IF bytes = Bytes(bytes[1][1], Len(bytes)) THEN bytes[1][1] ELSE -1

Width(flags, field, n) == IF field \in flags THEN n ELSE 0
-----------------------------------------------------------------------------
(* The encoder's offsets, computed once by cbrt_frame_init. *)
TsOff(flags)      == 6 + Width(flags, "seq", 1)
PeriodOff(flags)  == TsOff(flags) + Width(flags, "ts", 4)
LenOff(flags)     == PeriodOff(flags) + Width(flags, "period", 2)
HeaderSize(flags) == LenOff(flags) + 2
CrcSize(flags)    == Width(flags, "crc", 2)

(* The checksum, told apart from another exactly when the bytes differ. *)
Crc(bytes) == Bytes(bytes, 2)
-----------------------------------------------------------------------------
(* f16_to_f32: the fields of the single.  A subnormal half is shifted      *)
(* until its leading bit is where the implicit one of a single is, and     *)
(* each shift takes one from the exponent.                                 *)
Normalised[m \in 1 .. 2^11 - 1] ==
  IF m >= 1024 THEN <<m, -14>> ELSE <<Normalised[2 * m][1], Normalised[2 * m][2] - 1>>

HalfToSingle(bits) ==
  LET sign == (bits \div 32768) % 2
      exp  == (bits \div 1024) % 32
      mant == bits % 1024
      Single(e, m) == [sign |-> sign, exp |-> e, mant |-> m * 8192]
  IN CASE exp = 0 /\ mant = 0 -> Single(0, 0)
       [] exp = 0 /\ mant # 0 ->
            LET n == Normalised[mant] IN Single(n[2] + 127, n[1] % 1024)
       [] exp = 31 -> Single(255, mant)
       [] OTHER    -> Single(exp - 15 + 127, mant)
-----------------------------------------------------------------------------
(* parse_at, up to the session: the fields in the order of the wire, with  *)
(* a check that enough bytes are there before each of them.                *)
NeedMore == [kind |-> "NeedMore"]
Reject   == [kind |-> "Reject"]

SampleCount(len, dt, channels) ==
  IF dt = "bool" THEN (8 * len) \div channels
  ELSE len \div (channels * BytesPerDatatype[dt])

Exact(len, dt, channels) ==
  IF dt = "bool" THEN (8 * len) % channels = 0
  ELSE len % (channels * BytesPerDatatype[dt]) = 0

(* materialize_values: the samples, channel by channel and row by row. *)
Sample(dt, payload, i) ==
  LET n == BytesPerDatatype[dt]
      x == Number(SubSeq(payload, i * n + 1, i * n + n))
  IN IF dt = "f16" THEN HalfToSingle(x) ELSE x

Bit(payload, i) == payload[(i \div 8) + 1][1][(i % 8) + 1]

MaterializeValues(dt, channels, payload) ==
  [i \in 1 .. SampleCount(Len(payload), dt, channels) * channels |->
     IF dt = "bool" THEN Bit(payload, i - 1) ELSE Sample(dt, payload, i - 1)]

(* format_contents: the pieces a frame is shown in, with their lengths. *)
FormatContents(flags, len) ==
  LET Piece(label, n) == IF n = 0 THEN <<>> ELSE <<<<label, n>>>>
  IN <<<<"Sync", 4>>, <<"FD", 1>>, <<"CH", 1>>>>
     \o Piece("Seq", Width(flags, "seq", 1)) \o Piece("Timestamp us", Width(flags, "ts", 4))
     \o Piece("Period us", Width(flags, "period", 2)) \o <<<<"Len", 2>>>>
     \o Piece("Payload", len) \o Piece("CRC-16", CrcSize(flags))

Covered(contents) ==
  LET Upto[i \in 0 .. Len(contents)] == IF i = 0 THEN 0 ELSE Upto[i - 1] + contents[i][2]
  IN  Upto[Len(contents)]

Parse(buf) ==
  IF Len(buf) < 6 THEN NeedMore
  ELSE
    LET flags    == buf[5][1].flags
        dt       == buf[5][1].datatype
        channels == buf[6][1]
        tsAt     == 6 + Width(flags, "seq", 1)
        periodAt == tsAt + Width(flags, "ts", 4)
        lenAt    == periodAt + Width(flags, "period", 2)
        start    == lenAt + 2
        len      == buf[lenAt + 1][1]
        end      == start + len
    IN IF dt \notin Datatypes \/ channels \notin 1 .. 64 THEN Reject
       ELSE IF Len(buf) < start THEN NeedMore
       ELSE IF ~Exact(len, dt, channels) THEN Reject
       ELSE IF Len(buf) < end + CrcSize(flags) THEN NeedMore
       ELSE IF "crc" \in flags /\ SubSeq(buf, end + 1, end + 2) # Crc(SubSeq(buf, 5, end))
            THEN Reject
       ELSE [kind |-> "Complete", end |-> end + CrcSize(flags),
             seq |-> IF "seq" \in flags THEN {buf[7][1]} ELSE {},
             ts |-> IF "ts" \in flags THEN {buf[tsAt + 1][1]} ELSE {},
             period |-> IF "period" \in flags THEN {buf[periodAt + 1][1]} ELSE {},
             contents |-> FormatContents(flags, len),
             values |-> MaterializeValues(dt, channels, SubSeq(buf, start + 1, end))]
=============================================================================
