------------------------------- MODULE Codecs -------------------------------
(***************************************************************************)
(* The framing codecs of cycbox-runtime/codec: SLIP, COBS, lines, and the  *)
(* two codecs without a frame format, timeout and passthrough.  Encode and *)
(* DecodeOne are Codec::encode and Codec::decode (cycbox-sdk/codec.rs).    *)
(*                                                                         *)
(* Bytes are 0 .. MaxByte.  COBS counts a run in one byte, so MaxByte is   *)
(* also the code 0xFF of a full run.                                       *)
(***************************************************************************)
EXTENDS Naturals, Sequences, SequencesExt

CONSTANTS
  MaxByte,                     \* 255
  END, ESC, ESC_END, ESC_ESC,  \* the special bytes of SLIP
  CR, LF                       \* the bytes of a line ending

Bytes == 0 .. MaxByte

ASSUME CodecsAssumption ==
  /\ MaxByte \in Nat /\ MaxByte > 2
  /\ {END, ESC, ESC_END, ESC_ESC, CR, LF} \subseteq Bytes
  /\ IsInjective(<<END, ESC, ESC_END, ESC_ESC>>)
  /\ CR # LF

(* "slip" and "slip_lead" are SLIP without and with push_leading_end. *)
Framed   == {"slip", "slip_lead", "cobs", "lf", "crlf"}
Unframed == {"timeout", "passthrough"}
AllCodecs == Framed \cup Unframed

Sentinel == 0     \* CobsCodec::sentinel, whatever its configuration says
-----------------------------------------------------------------------------
(* The sequence d ends at position i of b. *)
EndsAt(b, i, d) ==
  i >= Len(d) /\ \A j \in 1 .. Len(d) : b[i - Len(d) + j] = d[j]

Escape(b) ==
  CASE b = END -> <<ESC, ESC_END>>
    [] b = ESC -> <<ESC, ESC_ESC>>
    [] OTHER   -> <<b>>

SlipEncodeBare(p, lead) ==  \* mutant: push_leading_end is ignored
  FlattenSeq([i \in 1 .. Len(p) |-> Escape(p[i])]) \o <<END>>

(* encode_slip *)
SlipEncode(p, lead) ==
  (IF lead THEN <<END>> ELSE <<>>)
    \o FlattenSeq([i \in 1 .. Len(p) |-> Escape(p[i])]) \o <<END>>

(* encode_cobs: out is finished, run the bytes that follow the pending     *)
(* code byte, which counts them and itself.                                *)
CloseRun(s) == [out |-> s.out \o <<Len(s.run) + 1>> \o s.run, run |-> <<>>]

CobsPut(s, b) ==
  IF b = Sentinel THEN CloseRun(s)
  ELSE LET t == [s EXCEPT !.run = Append(@, b)]
       IN  IF Len(t.run) + 1 = MaxByte THEN CloseRun(t) ELSE t

CobsEncode(p) ==
  LET After[n \in 0 .. Len(p)] ==
        IF n = 0 THEN [out |-> <<>>, run |-> <<>>] ELSE CobsPut(After[n - 1], p[n])
  IN  CloseRun(After[Len(p)]).out \o <<Sentinel>>

(* LineCodec::encode: a line ending that is there is not added again. *)
LineEncode(p, ending) == IF EndsAt(p, Len(p), ending) THEN p ELSE p \o ending

Encode(codec, p) ==
  CASE codec = "slip"      -> SlipEncode(p, FALSE)
    [] codec = "slip_lead" -> SlipEncode(p, TRUE)
    [] codec = "cobs"      -> CobsEncode(p)
    [] codec = "lf"        -> LineEncode(p, <<LF>>)
    [] codec = "crlf"      -> LineEncode(p, <<CR, LF>>)
    [] OTHER               -> p

(* The payloads a codec can carry: SLIP has no empty frame, and a line     *)
(* cannot contain its own ending.                                          *)
Carries(c, p) ==
  CASE c \in {"slip", "slip_lead"} -> p # <<>>
    [] c = "lf"   -> \A i \in 1 .. Len(p) : p[i] # LF
    [] c = "crlf" -> \A i \in 1 .. Len(p) - 1 : ~(p[i] = CR /\ p[i + 1] = LF)
    [] OTHER      -> TRUE
-----------------------------------------------------------------------------
(* decode_slip: an ESC without its second byte is an error; an END cannot  *)
(* occur, the frame ends before the first one.                             *)
SlipValid(f) ==
  \A i \in 1 .. Len(f) :
    f[i] = ESC => i < Len(f) /\ f[i + 1] \in {ESC_END, ESC_ESC}

SlipDecode(f) ==
  LET Byte(i) == CASE f[i] = ESC               -> <<>>
                   [] i > 1 /\ f[i - 1] = ESC  -> IF f[i] = ESC_END THEN <<END>> ELSE <<ESC>>
                   [] OTHER                    -> <<f[i]>>
  IN  FlattenSeq([i \in 1 .. Len(f) |-> Byte(i)])

(* decode_cobs from position i on; a frame holds no sentinel, so neither   *)
(* of its errors can occur.                                                *)
CobsDecode(f) ==
  LET Stop(i) == IF i + f[i] - 1 < Len(f) THEN i + f[i] - 1 ELSE Len(f)
      From[i \in 1 .. Len(f) + 1] ==
        IF i > Len(f) THEN <<>>
        ELSE SubSeq(f, i + 1, Stop(i))
               \o (IF f[i] # MaxByte /\ Stop(i) < Len(f) THEN <<Sentinel>> ELSE <<>>)
               \o From[Stop(i) + 1]
  IN  From[1]

Delimiter(codec) ==
  CASE codec \in {"slip", "slip_lead"} -> <<END>>
    [] codec = "cobs"                  -> <<Sentinel>>
    [] codec = "lf"                    -> <<LF>>
    [] codec = "crlf"                  -> <<CR, LF>>

(* What Codec::decode returns, Ok(Some(payload)), Ok(None) or an error,    *)
(* and what it leaves in the buffer.                                       *)
Some(p, rest) == [tag |-> "some", payload |-> p, rest |-> rest]
Nothing(rest) == [tag |-> "none", payload |-> <<>>, rest |-> rest]
Bad(rest)     == [tag |-> "error", payload |-> <<>>, rest |-> rest]

DecodeFrame(codec, body, rest) ==
  CASE codec \in {"lf", "crlf"} -> Some(body, rest)
    [] codec = "cobs" ->
         IF body = <<>> THEN Nothing(rest) ELSE Some(CobsDecode(body), rest)
    [] codec \in {"slip", "slip_lead"} ->
         IF body = <<>> THEN Nothing(rest)
         ELSE IF SlipValid(body) THEN Some(SlipDecode(body), rest) ELSE Bad(rest)

(* Codec::decode of a codec with frames: the first delimiter ends a frame. *)
DecodeFramed(codec, b) ==
  LET d == Delimiter(codec)
      IsEnd(i) == EndsAt(b, i, d)
      Split(e) == DecodeFrame(codec, SubSeq(b, 1, e - Len(d)), SubSeq(b, e + 1, Len(b)))
  IN  IF \E i \in 1 .. Len(b) : IsEnd(i)
      THEN Split(CHOOSE i \in 1 .. Len(b) : IsEnd(i) /\ \A j \in 1 .. i - 1 : ~IsEnd(j))
      ELSE Nothing(b)

(* due: the timeout codec has collected bytes for timeout_ms.  Its clock   *)
(* is not modelled; the passthrough codec is always due.                   *)
DecodeOne(codec, b, due) ==
  CASE codec \in Framed -> DecodeFramed(codec, b)
    [] codec \in Unframed /\ b # <<>> /\ (due \/ codec = "passthrough") -> Some(b, <<>>)
    [] OTHER -> Nothing(b)

(* Codec::decode_timeout, and decode_eof, which is the same for all. *)
DecodeTimeout(codec, b) == DecodeOne(codec, b, TRUE)
=============================================================================
