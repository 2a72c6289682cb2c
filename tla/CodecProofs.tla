---------------------------- MODULE CodecProofs -----------------------------
(***************************************************************************)
(* The codecs of Codecs, for payloads and streams of every length: a frame *)
(* holds one delimiter, its last byte, and decoding it gives back what was *)
(* encoded.                                                                *)
(*                                                                         *)
(* EncodeFrame and LeadFrame say so of the codecs together, Carried being  *)
(* the payloads a codec can carry; SlipFrame, CobsFrame and LineFrame are  *)
(* the three codecs alone. SLIP is proved by induction over the bytes      *)
(* encoded, COBS over the groups of its output, each at its place in the   *)
(* payload.                                                                *)
(***************************************************************************)
EXTENDS Codecs, SequenceLemmas

(* The first delimiter of b ends at position e. *)
FirstEnd(c, b, e) ==
  /\ e \in 1 .. Len(b) /\ EndsAt(b, e, Delimiter(c))
  /\ \A j \in 1 .. e - 1 : ~EndsAt(b, j, Delimiter(c))

(* The bytes in front of the delimiter at the end of t. *)
Body(c, t) == SubSeq(t, 1, Len(t) - Len(Delimiter(c)))

(* t holds one delimiter, at its end. *)
Terminated(c, t) == t \in Seq(Bytes) /\ FirstEnd(c, t, Len(t))

LEMMA SpecialBytes ==
  /\ MaxByte \in Nat /\ MaxByte > 2 /\ Sentinel = 0
  /\ {END, ESC, ESC_END, ESC_ESC, CR, LF, Sentinel} \subseteq Bytes
  /\ Bytes \subseteq Nat
  /\ END # ESC /\ END # ESC_END /\ END # ESC_ESC
  /\ ESC # ESC_END /\ ESC # ESC_ESC /\ ESC_END # ESC_ESC /\ CR # LF
<1>1. /\ MaxByte \in Nat /\ MaxByte > 2 /\ CR # LF
      /\ {END, ESC, ESC_END, ESC_ESC, CR, LF} \subseteq Bytes
  BY CodecsAssumption
<1>2. Bytes \subseteq Nat /\ Sentinel = 0 /\ Sentinel \in Bytes
  BY <1>1 DEF Bytes, Sentinel
<1>3. IsInjective(<<END, ESC, ESC_END, ESC_ESC>>)
  BY CodecsAssumption
<1> DEFINE q == <<END, ESC, ESC_END, ESC_ESC>>
<1>4. DOMAIN q = 1 .. 4 /\ q[1] = END /\ q[2] = ESC /\ q[3] = ESC_END /\ q[4] = ESC_ESC
  OBVIOUS
<1>5. \A a, b \in 1 .. 4 : q[a] = q[b] => a = b
  BY <1>3, <1>4 DEF IsInjective
<1> HIDE DEF q
<1>6. q[1] # q[2] /\ q[1] # q[3] /\ q[1] # q[4] /\ q[2] # q[3] /\ q[2] # q[4] /\ q[3] # q[4]
  BY <1>5
<1> QED BY <1>1, <1>2, <1>4, <1>6

LEMMA Delimiters ==
  ASSUME NEW c \in Framed
  PROVE  /\ Delimiter(c) \in Seq(Bytes)
         /\ c # "crlf" => Len(Delimiter(c)) = 1
         /\ c = "crlf" => Len(Delimiter(c)) = 2
         /\ c \in {"slip", "slip_lead"} => Delimiter(c) = <<END>>
         /\ c = "cobs" => Delimiter(c) = <<Sentinel>>
         /\ c = "lf" => Delimiter(c) = <<LF>>
         /\ c = "crlf" => Delimiter(c) = <<CR, LF>>
BY SpecialBytes DEF Framed, Delimiter

(* The first delimiter is what decode looks for. *)
LEMMA DecodeAt ==
  ASSUME NEW c, NEW b, Len(b) \in Nat, NEW e, FirstEnd(c, b, e)
  PROVE  DecodeFramed(c, b)
           = DecodeFrame(c, SubSeq(b, 1, e - Len(Delimiter(c))), SubSeq(b, e + 1, Len(b)))
<1> DEFINE First(i) == EndsAt(b, i, Delimiter(c)) /\ \A j \in 1 .. i - 1 : ~EndsAt(b, j, Delimiter(c))
           f == CHOOSE i \in 1 .. Len(b) : First(i)
<1>1. e \in 1 .. Len(b) /\ First(e)
  BY DEF FirstEnd
<1>2. f \in 1 .. Len(b) /\ First(f)
  <2> HIDE DEF First
  <2> QED BY <1>1
<1>3. ~(e < f) /\ ~(f < e)
  <2>1. e < f => e \in 1 .. f - 1
    BY <1>1, <1>2
  <2>2. f < e => f \in 1 .. e - 1
    BY <1>1, <1>2
  <2> HIDE DEF f
  <2> QED BY <1>1, <1>2, <2>1, <2>2
<1>4. f = e
  <2>1. e \in Nat /\ f \in Nat
    BY <1>1, <1>2
  <2> HIDE DEF f
  <2> QED BY <1>3, <2>1
<1>5. \E i \in 1 .. Len(b) : EndsAt(b, i, Delimiter(c))
  BY <1>1
<1> QED BY <1>4, <1>5 DEF DecodeFramed

LEMMA DecodeNone ==
  ASSUME NEW c, NEW b, \A i \in 1 .. Len(b) : ~EndsAt(b, i, Delimiter(c))
  PROVE  DecodeFramed(c, b) = Nothing(b)
BY DEF DecodeFramed

(* A delimiter in front of what is appended stays where it is. *)
LEMMA EndsBefore ==
  ASSUME NEW c \in Framed, NEW t \in Seq(Bytes), NEW b \in Seq(Bytes), NEW i \in 1 .. Len(t),
         i <= Len(b), \A j \in 1 .. i : t[j] = b[j]
  PROVE  EndsAt(b, i, Delimiter(c)) <=> EndsAt(t, i, Delimiter(c))
<1> DEFINE d == Delimiter(c)
<1>1. d \in Seq(Bytes)
  BY Delimiters
<1> HIDE DEF d
<1>2. ASSUME i >= Len(d), NEW j \in 1 .. Len(d) PROVE t[i - Len(d) + j] = b[i - Len(d) + j]
  <2>1. i - Len(d) + j \in 1 .. i
    BY <1>1, <1>2
  <2> QED BY <2>1
<1> QED BY <1>2 DEF EndsAt, d

(* A whole frame is decoded, whatever follows it ... *)
LEMMA DecodeWhole ==
  ASSUME NEW c \in Framed, NEW t, Terminated(c, t), NEW r \in Seq(Bytes)
  PROVE  DecodeFramed(c, t \o r) = DecodeFrame(c, Body(c, t), r)
<1> DEFINE b == t \o r
           n == Len(t)
<1>1. t \in Seq(Bytes) /\ n \in 1 .. n /\ n \in Nat
  BY DEF Terminated, FirstEnd
<1>2. /\ b \in Seq(Bytes) /\ Len(b) = n + Len(r)
      /\ \A j \in 1 .. n : t[j] = b[j]
  BY <1>1
<1>3. ASSUME NEW i \in 1 .. n PROVE EndsAt(b, i, Delimiter(c)) <=> EndsAt(t, i, Delimiter(c))
  <2>1. i <= Len(b) /\ \A j \in 1 .. i : t[j] = b[j]
    BY <1>1, <1>2
  <2> HIDE DEF b
  <2> QED BY <1>1, <1>2, <2>1, EndsBefore
<1>4. FirstEnd(c, b, n)
  <2>1. n \in 1 .. Len(b)
    BY <1>1, <1>2
  <2>2. \A j \in 1 .. n - 1 : j \in 1 .. n
    BY <1>1
  <2> HIDE DEF b
  <2> QED BY <1>1, <1>3, <2>1, <2>2 DEF Terminated, FirstEnd
<1>5. SubSeq(b, n + 1, Len(b)) = r
  <2>1. SubSeq(b, n + 1, Len(b)) \in Seq(Bytes) /\ Len(SubSeq(b, n + 1, Len(b))) = Len(r)
    BY <1>1, <1>2
  <2>2. \A i \in 1 .. Len(r) : SubSeq(b, n + 1, Len(b))[i] = r[i]
    BY <1>1, <1>2
  <2> HIDE DEF b
  <2> QED BY <2>1, <2>2, SeqEqual
<1>6. SubSeq(b, 1, n - Len(Delimiter(c))) = Body(c, t)
  <2> DEFINE m == n - Len(Delimiter(c))
  <2>1. m \in 0 .. n
    <3>1. Len(Delimiter(c)) \in Nat
      BY Delimiters
    <3>2. n >= Len(Delimiter(c))
      BY DEF Terminated, FirstEnd, EndsAt
    <3> QED BY <1>1, <3>1, <3>2
  <2> HIDE DEF m
  <2>2. SubSeq(b, 1, m) \in Seq(Bytes) /\ SubSeq(t, 1, m) \in Seq(Bytes) /\ Len(SubSeq(b, 1, m)) = m /\ Len(SubSeq(t, 1, m)) = m
    BY <1>1, <1>2, <2>1
  <2>3. \A i \in 1 .. m : SubSeq(b, 1, m)[i] = SubSeq(t, 1, m)[i]
    BY <1>1, <1>2, <2>1
  <2> HIDE DEF b
  <2> QED BY <2>2, <2>3, SeqEqual DEF Body, m
<1>7. Len(b) \in Nat
  BY <1>1, <1>2
<1> HIDE DEF b
<1> QED BY <1>4, <1>5, <1>6, <1>7, DecodeAt DEF b

(* ... and no part of one. *)
LEMMA DecodePart ==
  ASSUME NEW c \in Framed, NEW t, Terminated(c, t), NEW n \in 0 .. Len(t) - 1
  PROVE  DecodeFramed(c, SubSeq(t, 1, n)) = Nothing(SubSeq(t, 1, n))
<1> DEFINE b == SubSeq(t, 1, n)
<1>1. t \in Seq(Bytes) /\ Len(t) \in Nat /\ n < Len(t) /\ n \in Nat
  BY DEF Terminated
<1>2. b \in Seq(Bytes) /\ Len(b) = n /\ \A j \in 1 .. n : t[j] = b[j]
  BY <1>1
<1>3. ASSUME NEW i \in 1 .. Len(b) PROVE ~EndsAt(b, i, Delimiter(c))
  <2>1. i \in 1 .. Len(t) /\ i \in 1 .. Len(t) - 1 /\ i <= Len(b) /\ \A j \in 1 .. i : t[j] = b[j]
    BY <1>1, <1>2
  <2>2. ~EndsAt(t, i, Delimiter(c))
    BY <2>1 DEF Terminated, FirstEnd
  <2> HIDE DEF b
  <2> QED BY <1>1, <1>2, <2>1, <2>2, EndsBefore
<1> HIDE DEF b
<1> QED BY <1>3, DecodeNone DEF b
-----------------------------------------------------------------------------
(* The payloads codec c can carry. *)
Carried(c) == {p \in Seq(Bytes) : Carries(c, p)}

(* t is a frame, and p is what is decoded from it. *)
FrameOf(c, t, p) ==
  Terminated(c, t) /\ \A r \in Seq(Bytes) : DecodeFrame(c, Body(c, t), r) = Some(p, r)

LEMMA EndsInOne ==
  ASSUME NEW b, NEW i \in Nat, NEW z
  PROVE  EndsAt(b, i, <<z>>) <=> i >= 1 /\ b[i] = z
<1> DEFINE d == <<z>>
<1>1. Len(d) = 1 /\ d[1] = z /\ i - 1 + 1 = i
  OBVIOUS
<1>2. \A j \in 1 .. 1 : j = 1
  OBVIOUS
<1> HIDE DEF d
<1>3. EndsAt(b, i, d) <=> i >= 1 /\ b[i] = z
  BY <1>1, <1>2 DEF EndsAt
<1> QED BY <1>3 DEF d

LEMMA EndsInTwo ==
  ASSUME NEW b, NEW i \in Nat, NEW w, NEW z
  PROVE  EndsAt(b, i, <<w, z>>) <=> i >= 2 /\ b[i - 1] = w /\ b[i] = z
<1> DEFINE d == <<w, z>>
<1>1. Len(d) = 2 /\ d[1] = w /\ d[2] = z /\ i - 2 + 1 = i - 1 /\ i - 2 + 2 = i
  OBVIOUS
<1>2. 1 .. 2 = {1, 2}
  OBVIOUS
<1> HIDE DEF d
<1>3. EndsAt(b, i, d) <=> i >= 2 /\ b[i - 1] = w /\ b[i] = z
  BY <1>1, <1>2 DEF EndsAt
<1> QED BY <1>3 DEF d

LEMMA DelimiterSize ==
  ASSUME NEW c \in Framed
  PROVE  Delimiter(c) \in Seq(Bytes) /\ Len(Delimiter(c)) \in Nat /\ Len(Delimiter(c)) >= 1
<1> DEFINE d == Delimiter(c)
<1>1. d \in Seq(Bytes) /\ (Len(d) = 1 \/ Len(d) = 2)
  BY Delimiters, Zenon
<1> HIDE DEF d
<1>2. Len(d) \in Nat /\ Len(d) >= 1
  BY <1>1
<1> QED BY <1>1, <1>2 DEF d

(* q, then the delimiter d, and the first of them is that one. *)
LEMMA Delimited ==
  ASSUME NEW c \in Framed, NEW q \in Seq(Bytes),
         \A j \in 1 .. Len(q) + Len(Delimiter(c)) - 1 : ~EndsAt(q \o Delimiter(c), j, Delimiter(c))
  PROVE  Terminated(c, q \o Delimiter(c)) /\ Body(c, q \o Delimiter(c)) = q
<1> DEFINE d == Delimiter(c)
           t == q \o d
<1>1. d \in Seq(Bytes) /\ Len(d) \in Nat /\ Len(d) >= 1
  BY DelimiterSize, Zenon
<1> HIDE DEF d
<1>2. /\ t \in Seq(Bytes) /\ Len(t) = Len(q) + Len(d) /\ Len(q) \in Nat
      /\ \A i \in 1 .. Len(q) : t[i] = q[i]
      /\ \A i \in 1 .. Len(d) : t[Len(q) + i] = d[i]
  BY <1>1
<1>3. \A j \in 1 .. Len(t) - 1 : ~EndsAt(t, j, d)
  BY <1>2 DEF d
<1> HIDE DEF t
<1>4. EndsAt(t, Len(t), d)
  <2>1. Len(t) >= Len(d) /\ Len(t) - Len(d) = Len(q)
    BY <1>1, <1>2
  <2> QED BY <1>2, <2>1 DEF EndsAt
<1>5. FirstEnd(c, t, Len(t))
  <2>1. Len(t) \in 1 .. Len(t)
    BY <1>1, <1>2
  <2> QED BY <1>3, <1>4, <2>1 DEF FirstEnd, d
<1>6. SubSeq(t, 1, Len(t) - Len(d)) = q
  <2>1. Len(t) - Len(d) = Len(q)
    BY <1>1, <1>2
  <2>2. /\ SubSeq(t, 1, Len(q)) \in Seq(Bytes) /\ Len(SubSeq(t, 1, Len(q))) = Len(q)
        /\ \A i \in 1 .. Len(q) : SubSeq(t, 1, Len(q))[i] = t[i]
    BY <1>1, <1>2
  <2>3. SubSeq(t, 1, Len(q)) = q
    BY <1>2, <2>2, SeqEqual
  <2> QED BY <2>1, <2>3
<1> QED BY <1>2, <1>5, <1>6 DEF Terminated, Body, d, t

LEMMA DelimitedByOne ==
  ASSUME NEW c \in Framed, NEW z, Delimiter(c) = <<z>>, NEW q \in Seq(Bytes \ {z})
  PROVE  Terminated(c, q \o <<z>>) /\ Body(c, q \o <<z>>) = q
<1> DEFINE d == <<z>>
           t == q \o d
<1>1. z \in Bytes
  <2>1. d \in Seq(Bytes)
    BY Delimiters
  <2>2. d[1] \in Bytes
    BY <2>1
  <2> QED BY <2>2
<1>2. q \in Seq(Bytes) /\ Len(q) \in Nat /\ \A i \in 1 .. Len(q) : q[i] # z /\ t[i] = q[i]
  BY <1>1
<1>3. ASSUME NEW j \in 1 .. Len(q) PROVE ~EndsAt(t, j, d)
  <2>1. j \in Nat /\ t[j] # z
    BY <1>2
  <2> HIDE DEF t
  <2> QED BY <2>1, EndsInOne
<1>4. Len(d) = 1
  OBVIOUS
<1>5. Len(q) + Len(d) - 1 = Len(q)
  BY <1>2, <1>4
<1> HIDE DEF d
<1>6. \A j \in 1 .. Len(q) + Len(d) - 1 : ~EndsAt(t, j, d)
  BY <1>3, <1>5
<1>7. Delimiter(c) = d
  BY DEF d
<1> QED BY <1>2, <1>6, <1>7, Delimited DEF d
-----------------------------------------------------------------------------
LEMMA LineFrame ==
  ASSUME NEW c \in {"lf", "crlf"}, NEW p \in Carried(c)
  PROVE  FrameOf(c, Encode(c, p), p)
<1>1. p \in Seq(Bytes) /\ Len(p) \in Nat /\ c \in Framed /\ Carries(c, p)
  BY DEF Carried, Framed
<1>2. \A r : DecodeFrame(c, p, r) = Some(p, r)
  BY DEF DecodeFrame
<1>3. Terminated(c, p \o Delimiter(c)) /\ Body(c, p \o Delimiter(c)) = p
  <2>1. CASE c = "lf"
    <3>1. \A i \in 1 .. Len(p) : p[i] # LF
      BY <1>1, <2>1 DEF Carries
    <3>2. p \in Seq(Bytes \ {LF})
      BY <1>1, <3>1
    <3>3. Delimiter(c) = <<LF>>
      BY <2>1 DEF Delimiter
    <3> QED BY <1>1, <3>2, <3>3, DelimitedByOne
  <2>2. CASE c = "crlf"
    <3> DEFINE t == p \o <<CR, LF>>
    <3>1. \A i \in 1 .. Len(p) - 1 : ~(p[i] = CR /\ p[i + 1] = LF)
      BY <1>1, <2>2 DEF Carries
    <3>2. /\ Delimiter(c) = <<CR, LF>> /\ Len(<<CR, LF>>) = 2 /\ CR # LF
          /\ t[Len(p) + 1] = CR /\ \A i \in 1 .. Len(p) : t[i] = p[i]
      BY <1>1, <2>2, SpecialBytes DEF Delimiter
    <3> HIDE DEF t
    <3>3. ASSUME NEW j \in 1 .. Len(p) + 1 PROVE ~EndsAt(t, j, <<CR, LF>>)
      <4> SUFFICES ASSUME j >= 2, t[j - 1] = CR, t[j] = LF PROVE FALSE
        BY <1>1, EndsInTwo
      <4>1. j # Len(p) + 1
        BY <3>2
      <4>2. PICK i \in 1 .. Len(p) - 1 : j = i + 1
        <5>1. j - 1 \in 1 .. Len(p) - 1 /\ j = (j - 1) + 1
          BY <1>1, <4>1
        <5> QED BY <5>1
      <4>3. i \in 1 .. Len(p) /\ i + 1 \in 1 .. Len(p) /\ j - 1 = i
        BY <1>1, <4>2
      <4> QED BY <3>1, <3>2, <4>2, <4>3
    <3>4. Len(p) + Len(Delimiter(c)) - 1 = Len(p) + 1
      BY <1>1, <3>2
    <3> QED BY <1>1, <3>2, <3>3, <3>4, Delimited DEF t
  <2> QED BY <2>1, <2>2
<1>4. Encode(c, p) = p \o Delimiter(c)
  <2>1. CASE c = "lf"
    <3>1. ~EndsAt(p, Len(p), <<LF>>)
      <4>1. Len(p) >= 1 => p[Len(p)] # LF
        BY <1>1, <2>1 DEF Carries
      <4> QED BY <1>1, <4>1, EndsInOne
    <3> QED BY <2>1, <3>1 DEF Encode, LineEncode, Delimiter
  <2>2. CASE c = "crlf"
    <3>1. ~EndsAt(p, Len(p), <<CR, LF>>)
      <4>1. ASSUME Len(p) >= 2 PROVE ~(p[Len(p) - 1] = CR /\ p[Len(p)] = LF)
        <5>1. PICK i \in 1 .. Len(p) - 1 : i = Len(p) - 1 /\ i + 1 = Len(p)
          BY <1>1, <4>1
        <5> QED BY <1>1, <2>2, <5>1 DEF Carries
      <4> QED BY <1>1, <4>1, EndsInTwo
    <3> QED BY <2>2, <3>1 DEF Encode, LineEncode, Delimiter
  <2> QED BY <2>1, <2>2
<1> QED BY <1>2, <1>3, <1>4 DEF FrameOf
-----------------------------------------------------------------------------
(* What decode_slip makes of the i-th byte of a frame. *)
SlipByte(f, i) ==
  CASE f[i] = ESC               -> <<>>
    [] i > 1 /\ f[i - 1] = ESC  -> IF f[i] = ESC_END THEN <<END>> ELSE <<ESC>>
    [] OTHER                    -> <<f[i]>>

SlipParts(f) == [i \in 1 .. Len(f) |-> SlipByte(f, i)]

LEMMA SlipPartsType ==
  ASSUME NEW f \in Seq(Bytes)
  PROVE  SlipParts(f) \in Seq(Seq(Bytes)) /\ SlipDecode(f) = FlattenSeq(SlipParts(f))
<1>1. ASSUME NEW i \in 1 .. Len(f) PROVE SlipByte(f, i) \in Seq(Bytes)
  <2>1. f[i] \in Bytes /\ END \in Bytes /\ ESC \in Bytes
    BY SpecialBytes
  <2> QED BY <2>1 DEF SlipByte
<1>2. SlipParts(f) \in Seq(Seq(Bytes))
  BY <1>1 DEF SlipParts
<1> QED BY <1>2 DEF SlipParts, SlipDecode, SlipByte

LEMMA SlipMore ==
  ASSUME NEW f \in Seq(Bytes), NEW z \in Bytes
  PROVE  SlipDecode(Append(f, z)) = SlipDecode(f) \o SlipByte(Append(f, z), Len(f) + 1)
<1> DEFINE g == Append(f, z)
           e == SlipByte(g, Len(f) + 1)
<1>1. /\ g \in Seq(Bytes) /\ Len(g) = Len(f) + 1 /\ Len(f) \in Nat
      /\ \A i \in 1 .. Len(f) : g[i] = f[i]
  OBVIOUS
<1> HIDE DEF g
<1>2. ASSUME NEW i \in 1 .. Len(f) PROVE SlipByte(g, i) = SlipByte(f, i)
  <2>1. g[i] = f[i] /\ (i > 1 => g[i - 1] = f[i - 1])
    BY <1>1
  <2> QED BY <2>1 DEF SlipByte
<1>3. SlipParts(g) \in Seq(Seq(Bytes)) /\ SlipParts(f) \in Seq(Seq(Bytes)) /\ e \in Seq(Bytes)
  <2>1. SlipParts(g)[Len(f) + 1] = e /\ Len(f) + 1 \in 1 .. Len(SlipParts(g))
    BY <1>1 DEF SlipParts
  <2> HIDE DEF e
  <2>2. SlipParts(g) \in Seq(Seq(Bytes)) /\ SlipParts(f) \in Seq(Seq(Bytes))
    BY <1>1, SlipPartsType
  <2> QED BY <2>1, <2>2
<1>4. SlipParts(g) = Append(SlipParts(f), e)
  <2>1. Len(SlipParts(g)) = Len(f) + 1 /\ Len(SlipParts(f)) = Len(f)
    BY <1>1 DEF SlipParts
  <2>2. SlipParts(g)[Len(f) + 1] = e
    BY <1>1 DEF SlipParts
  <2>3. ASSUME NEW i \in 1 .. Len(f) PROVE SlipParts(g)[i] = SlipParts(f)[i]
    BY <1>1, <1>2 DEF SlipParts
  <2> HIDE DEF e
  <2>4. /\ Append(SlipParts(f), e) \in Seq(Seq(Bytes)) /\ Len(Append(SlipParts(f), e)) = Len(f) + 1
        /\ Append(SlipParts(f), e)[Len(f) + 1] = e
        /\ \A i \in 1 .. Len(f) : Append(SlipParts(f), e)[i] = SlipParts(f)[i]
    BY <1>3, <2>1
  <2>5. ASSUME NEW i \in 1 .. Len(f) + 1 PROVE SlipParts(g)[i] = Append(SlipParts(f), e)[i]
    <3>1. CASE i = Len(f) + 1
      BY <2>2, <2>4, <3>1
    <3>2. CASE i # Len(f) + 1
      <4>1. i \in 1 .. Len(f)
        BY <1>1, <3>2
      <4> QED BY <2>3, <2>4, <4>1
    <3> QED BY <3>1, <3>2
  <2> QED BY <1>3, <2>1, <2>4, <2>5, SeqEqual
<1> HIDE DEF e
<1> QED BY <1>1, <1>3, <1>4, SlipPartsType, FlattenAppend DEF g, e

(* f is a frame from which decode_slip gets q. *)
SlipSays(f, q) == f \in Seq(Bytes \ {END}) /\ SlipValid(f) /\ SlipDecode(f) = q

LEMMA SlipEscaped ==
  ASSUME NEW f, NEW q \in Seq(Bytes), SlipSays(f, q), NEW b \in Bytes
  PROVE  SlipSays(f \o Escape(b), Append(q, b))
<1>1. /\ f \in Seq(Bytes \ {END}) /\ f \in Seq(Bytes) /\ Len(f) \in Nat /\ SlipValid(f)
      /\ SlipDecode(f) = q
  BY DEF SlipSays
<1>2. \A i \in 1 .. Len(f) : f[i] = ESC => i < Len(f) /\ f[i + 1] \in {ESC_END, ESC_ESC}
  BY <1>1 DEF SlipValid
(* A valid frame does not end in ESC. *)
<1>3. ASSUME NEW g, \A i \in 1 .. Len(f) : g[i] = f[i], Len(f) + 1 > 1
      PROVE  g[(Len(f) + 1) - 1] # ESC
  <2>1. Len(f) \in 1 .. Len(f) /\ (Len(f) + 1) - 1 = Len(f)
    BY <1>1, <1>3
  <2>2. ~(Len(f) < Len(f))
    BY <1>1
  <2>3. f[Len(f)] # ESC
    BY <1>2, <2>1, <2>2
  <2> QED BY <1>3, <2>1, <2>3
<1>4. CASE b # END /\ b # ESC
  <2> DEFINE g == Append(f, b)
  <2>1. f \o Escape(b) = g
    BY <1>1, <1>4 DEF Escape
  <2>2. /\ g \in Seq(Bytes \ {END}) /\ Len(g) = Len(f) + 1 /\ g[Len(f) + 1] = b
        /\ \A i \in 1 .. Len(f) : g[i] = f[i]
    BY <1>1, <1>4
  <2>3. SlipDecode(g) = SlipDecode(f) \o SlipByte(g, Len(f) + 1)
    BY <1>1, SlipMore
  <2> HIDE DEF g
  <2>4. SlipValid(g)
    <3> SUFFICES ASSUME NEW i \in 1 .. Len(g), g[i] = ESC
                 PROVE  i < Len(g) /\ g[i + 1] \in {ESC_END, ESC_ESC}
      BY DEF SlipValid
    <3>1. i \in 1 .. Len(f)
      BY <1>1, <1>4, <2>2
    <3>2. i < Len(f) /\ f[i + 1] \in {ESC_END, ESC_ESC} /\ i + 1 \in 1 .. Len(f)
      BY <1>1, <1>2, <2>2, <3>1
    <3> QED BY <1>1, <2>2, <3>1, <3>2
  <2>5. SlipByte(g, Len(f) + 1) = <<b>>
    BY <1>4, <2>2, <1>3 DEF SlipByte
  <2>6. q \o <<b>> = Append(q, b)
    OBVIOUS
  <2> QED BY <1>1, <2>1, <2>2, <2>3, <2>4, <2>5, <2>6 DEF SlipSays
<1>5. CASE b = END \/ b = ESC
  <2> DEFINE z == IF b = END THEN ESC_END ELSE ESC_ESC
             g == Append(f, ESC)
             h == Append(g, z)
  <2>0. z \in Bytes \ {END} /\ z # ESC /\ z \in {ESC_END, ESC_ESC} /\ ESC \in Bytes \ {END} /\ z \in Bytes /\ ESC \in Bytes
    BY SpecialBytes
  <2>1. Escape(b) = <<ESC, z>>
    BY <1>5, SpecialBytes DEF Escape
  <2>2. /\ g \in Seq(Bytes \ {END}) /\ g \in Seq(Bytes) /\ Len(g) = Len(f) + 1 /\ g[Len(f) + 1] = ESC
        /\ \A i \in 1 .. Len(f) : g[i] = f[i]
    BY <1>1, <2>0
  <2>3. SlipDecode(g) = SlipDecode(f) \o SlipByte(g, Len(f) + 1)
    BY <1>1, <2>0, SlipMore
  <2>4. SlipByte(g, Len(f) + 1) = <<>>
    <3>1. g[Len(f) + 1] = ESC
      BY <2>2
    <3>2. Len(f) + 1 > 1 => g[(Len(f) + 1) - 1] # ESC
      BY <2>2, <1>3
    <3> HIDE DEF g
    <3> QED BY ONLY <3>1, <3>2 DEF SlipByte
  <2>5. SlipDecode(g) = q
    BY <1>1, <2>3, <2>4, ConcatEmptySeq
  <2> HIDE DEF z, g
  <2>6. /\ h \in Seq(Bytes \ {END}) /\ h \in Seq(Bytes) /\ Len(h) = Len(f) + 2
        /\ h[Len(g) + 1] = z /\ \A i \in 1 .. Len(g) : h[i] = g[i]
    <3>1. /\ h \in Seq(Bytes) /\ Len(h) = Len(g) + 1 /\ h[Len(g) + 1] = z
          /\ \A i \in 1 .. Len(g) : h[i] = g[i]
      BY <2>0, <2>2
    <3>2. h \in Seq(Bytes \ {END})
      BY <2>0, <2>2
    <3> QED BY <1>1, <2>2, <3>1, <3>2
  <2>7. SlipDecode(h) = SlipDecode(g) \o SlipByte(h, Len(g) + 1)
    BY <2>0, <2>2, SlipMore
  <2> HIDE DEF h
  <2>8. h = f \o <<ESC, z>>
    <3>1. /\ f \o <<ESC, z>> \in Seq(Bytes) /\ Len(f \o <<ESC, z>>) = Len(f) + 2
          /\ \A i \in 1 .. Len(f) : (f \o <<ESC, z>>)[i] = f[i]
          /\ (f \o <<ESC, z>>)[Len(f) + 1] = ESC /\ (f \o <<ESC, z>>)[Len(f) + 2] = z
      BY <1>1, <2>0
    <3>2. /\ \A i \in 1 .. Len(f) : h[i] = f[i]
          /\ h[Len(f) + 1] = ESC /\ h[Len(f) + 2] = z
      BY <1>1, <2>2, <2>6
    <3>3. ASSUME NEW i \in 1 .. Len(f) + 2 PROVE h[i] = (f \o <<ESC, z>>)[i]
      <4>1. i \in 1 .. Len(f) \/ i = Len(f) + 1 \/ i = Len(f) + 2
        BY <1>1
      <4> QED BY <3>1, <3>2, <4>1
    <3> QED BY <2>6, <3>1, <3>3, SeqEqual
  <2>9. SlipByte(h, Len(g) + 1) = <<b>>
    <3>1. Len(g) + 1 > 1 /\ (Len(g) + 1) - 1 = Len(g) /\ Len(g) \in 1 .. Len(g)
      BY <1>1, <2>2
    <3>2. h[(Len(g) + 1) - 1] = ESC /\ h[Len(g) + 1] = z
      BY <2>2, <2>6, <3>1
    <3>3. b = END => z = ESC_END
      BY DEF z
    <3>4. b # END => z # ESC_END /\ b = ESC
      BY <1>5, SpecialBytes DEF z
    <3> QED BY <2>0, <3>1, <3>2, <3>3, <3>4 DEF SlipByte
  <2>10. SlipValid(h)
    <3> SUFFICES ASSUME NEW i \in 1 .. Len(h), h[i] = ESC
                 PROVE  i < Len(h) /\ h[i + 1] \in {ESC_END, ESC_ESC}
      BY DEF SlipValid
    <3>1. CASE i \in 1 .. Len(f)
      <4>1. f[i] = ESC
        BY <1>1, <2>2, <2>6, <3>1
      <4>2. i < Len(f) /\ f[i + 1] \in {ESC_END, ESC_ESC} /\ i + 1 \in 1 .. Len(f)
        BY <1>1, <1>2, <3>1, <4>1
      <4>3. h[i + 1] = f[i + 1]
        BY <1>1, <2>2, <2>6, <4>2
      <4> QED BY <1>1, <2>6, <4>2, <4>3
    <3>2. CASE i = Len(f) + 1
      <4>1. i + 1 = Len(g) + 1 /\ i < Len(h)
        BY <1>1, <2>2, <2>6, <3>2
      <4> QED BY <2>0, <2>6, <4>1
    <3>3. i # Len(g) + 1
      BY <2>0, <2>6
    <3> QED BY <1>1, <2>2, <2>6, <3>1, <3>2, <3>3
  <2>11. q \o <<b>> = Append(q, b)
    OBVIOUS
  <2> QED BY <2>1, <2>5, <2>6, <2>7, <2>8, <2>9, <2>10, <2>11 DEF SlipSays
<1> QED BY <1>4, <1>5
-----------------------------------------------------------------------------
(* The escaped bytes of p, as encode_slip writes them. *)
Escapes(p, n) == [i \in 1 .. n |-> Escape(p[i])]

LEMMA EscapesType ==
  ASSUME NEW p \in Seq(Bytes), NEW n \in 0 .. Len(p)
  PROVE  Escapes(p, n) \in Seq(Seq(Bytes)) /\ Len(Escapes(p, n)) = n
<1>1. ASSUME NEW i \in 1 .. n PROVE Escape(p[i]) \in Seq(Bytes)
  <2>1. p[i] \in Bytes /\ ESC \in Bytes /\ ESC_END \in Bytes /\ ESC_ESC \in Bytes
    BY SpecialBytes
  <2> QED BY <2>1 DEF Escape
<1> QED BY <1>1 DEF Escapes

LEMMA EscapesMore ==
  ASSUME NEW p \in Seq(Bytes), NEW n \in 1 .. Len(p)
  PROVE  FlattenSeq(Escapes(p, n)) = FlattenSeq(Escapes(p, n - 1)) \o Escape(p[n])
<1> DEFINE s == Escapes(p, n - 1)
           t == Escapes(p, n)
           e == Escape(p[n])
<1>1. /\ s \in Seq(Seq(Bytes)) /\ Len(s) = n - 1 /\ t \in Seq(Seq(Bytes)) /\ Len(t) = n
      /\ n \in Nat /\ n - 1 \in Nat
  BY EscapesType
<1>2. t[n] = e /\ \A i \in 1 .. n - 1 : t[i] = s[i]
  BY <1>1 DEF Escapes
<1> HIDE DEF s, t, e
<1>3. e \in Seq(Bytes)
  BY <1>1, <1>2
<1>4. t = Append(s, e)
  <2>1. /\ Append(s, e) \in Seq(Seq(Bytes)) /\ Len(Append(s, e)) = n
        /\ Append(s, e)[n] = e /\ \A i \in 1 .. n - 1 : Append(s, e)[i] = s[i]
    BY <1>1, <1>3
  <2>2. ASSUME NEW i \in 1 .. n PROVE t[i] = Append(s, e)[i]
    <3>1. i = n \/ i \in 1 .. n - 1
      BY <1>1
    <3> QED BY <1>2, <2>1, <3>1
  <2> QED BY <1>1, <2>1, <2>2, SeqEqual
<1> QED BY <1>1, <1>3, <1>4, FlattenAppend DEF s, t, e

LEMMA SlipSaysAll ==
  ASSUME NEW p \in Seq(Bytes)
  PROVE  SlipSays(FlattenSeq(Escapes(p, Len(p))), p)
<1> DEFINE Says(n) == SlipSays(FlattenSeq(Escapes(p, n)), SubSeq(p, 1, n))
           T == {n \in 0 .. Len(p) : ~Says(n)}
<1>0. Len(p) \in Nat /\ T \subseteq Nat
  OBVIOUS
<1>1. T = {}
  <2> SUFFICES ASSUME T # {} PROVE FALSE
    OBVIOUS
  <2>1. PICK n \in T : \A m \in T : n <= m
    <3> HIDE DEF T
    <3> QED BY <1>0, LeastNumber, Zenon
  <2>2. n \in 0 .. Len(p) /\ ~Says(n) /\ n \in Nat
    BY <1>0
  <2>3. CASE n = 0
    <3>1. Escapes(p, 0) = <<>> /\ SubSeq(p, 1, 0) = <<>>
      BY SubSeqEmpty DEF Escapes
    <3>2. FlattenSeq(<<>>) = <<>>
      BY DEF FlattenSeq
    <3>3. SlipDecode(<<>>) = <<>>
      <4>1. SlipParts(<<>>) = <<>> /\ <<>> \in Seq(Bytes)
        BY DEF SlipParts
      <4> QED BY <3>2, <4>1, SlipPartsType
    <3>4. SlipValid(<<>>) /\ <<>> \in Seq(Bytes \ {END})
      BY DEF SlipValid
    <3> QED BY <2>2, <2>3, <3>1, <3>2, <3>3, <3>4 DEF SlipSays
  <2>4. CASE n # 0
    <3>1. n - 1 \in 0 .. Len(p) /\ ~(n <= n - 1) /\ n \in 1 .. Len(p) /\ p[n] \in Bytes
      BY <1>0, <2>2, <2>4
    <3>2. n - 1 \notin T
      <4> HIDE DEF T
      <4> QED BY <2>1, <3>1
    <3>3. Says(n - 1)
      BY <3>1, <3>2
    <3> DEFINE q == SubSeq(p, 1, n - 1)
    <3>4. q \in Seq(Bytes) /\ Append(q, p[n]) = SubSeq(p, 1, n)
      <4>1. 1 \in 1 .. Len(p) /\ n \in 1 .. Len(p)
        BY <1>0, <3>1
      <4>2. SubSeq(p, 1, n) = SubSeq(p, 1, n - 1) \o <<p[n]>>
        BY <4>1, SubSeqRecursiveSecond, Zenon
      <4>3. q \in Seq(Bytes)
        BY <3>1
      <4> HIDE DEF q
      <4>4. q \o <<p[n]>> = Append(q, p[n])
        BY <3>1, <4>3
      <4> QED BY <4>2, <4>3, <4>4 DEF q
    <3> HIDE DEF q, T
    <3>5. SlipSays(FlattenSeq(Escapes(p, n - 1)), q)
      BY <3>3 DEF q
    <3>6. SlipSays(FlattenSeq(Escapes(p, n - 1)) \o Escape(p[n]), Append(q, p[n]))
      BY <3>1, <3>4, <3>5, SlipEscaped
    <3>7. SlipSays(FlattenSeq(Escapes(p, n)), SubSeq(p, 1, n))
      BY <3>1, <3>4, <3>6, EscapesMore
    <3> QED BY <2>2, <3>7
  <2> QED BY <2>3, <2>4
<1>2. Says(Len(p))
  BY <1>0, <1>1
<1> QED BY <1>2, SubSeqFull

LEMMA SlipFrame ==
  ASSUME NEW c \in {"slip", "slip_lead"}, NEW p \in Carried(c)
  PROVE  /\ FrameOf(c, Encode("slip", p), p)
         /\ Encode("slip_lead", p) = <<END>> \o Encode("slip", p)
<1> DEFINE f == FlattenSeq(Escapes(p, Len(p)))
<1>1. p \in Seq(Bytes) /\ p # <<>> /\ c \in Framed /\ Delimiter(c) = <<END>>
  BY DEF Carried, Carries, Framed, Delimiter
<1>2. f \in Seq(Bytes \ {END}) /\ SlipValid(f) /\ SlipDecode(f) = p
  BY <1>1, SlipSaysAll DEF SlipSays
<1>3. Encode("slip", p) = f \o <<END>> /\ Encode("slip_lead", p) = <<END>> \o f \o <<END>>
  <2>1. Escapes(p, Len(p)) = [i \in 1 .. Len(p) |-> Escape(p[i])]
    BY DEF Escapes
  <2>2. /\ Encode("slip", p) = <<>> \o f \o <<END>>
        /\ Encode("slip_lead", p) = <<END>> \o f \o <<END>>
    BY <2>1 DEF Encode, SlipEncode
  <2> HIDE DEF f
  <2> QED BY <1>2, <2>2, ConcatEmptySeq
<1> HIDE DEF f
<1>4. Terminated(c, f \o <<END>>) /\ Body(c, f \o <<END>>) = f
  BY <1>1, <1>2, DelimitedByOne
<1>5. f # <<>>
  <2> SUFFICES ASSUME f = <<>> PROVE FALSE
    OBVIOUS
  <2>1. SlipParts(<<>>) = <<>> /\ <<>> \in Seq(Bytes)
    BY DEF SlipParts
  <2>2. FlattenSeq(<<>>) = <<>>
    BY DEF FlattenSeq
  <2>3. SlipDecode(<<>>) = <<>>
    BY <2>1, <2>2, SlipPartsType
  <2> QED BY <1>1, <1>2, <2>3
<1>6. \A r : DecodeFrame(c, f, r) = Some(p, r)
  BY <1>2, <1>5 DEF DecodeFrame
<1>7. Grouped(<<END>>, f, <<END>>)
  <2>1. <<END>> \in Seq(Bytes) /\ f \in Seq(Bytes)
    BY <1>2, SpecialBytes
  <2> QED BY <2>1, Regroup, Zenon
<1> QED BY <1>3, <1>4, <1>6, <1>7 DEF FrameOf, Grouped
-----------------------------------------------------------------------------
NonZero == Bytes \ {Sentinel}

(* decode_cobs at position i: the last byte of the group that starts       *)
(* there, and the zero that follows it.                                    *)
CobsStop(f, i) == IF i + f[i] - 1 < Len(f) THEN i + f[i] - 1 ELSE Len(f)
CobsZero(f, i) == IF f[i] # MaxByte /\ CobsStop(f, i) < Len(f) THEN <<Sentinel>> ELSE <<>>

(* What decode_cobs makes of f from each position from m on. *)
CobsAt(F, f, i) ==
  IF i > Len(f) THEN <<>>
  ELSE SubSeq(f, i + 1, CobsStop(f, i)) \o CobsZero(f, i) \o F[CobsStop(f, i) + 1]

CobsFrom(F, f, m) == F = [i \in m .. Len(f) + 1 |-> CobsAt(F, f, i)]

LEMMA CobsStops ==
  ASSUME NEW f \in Seq(NonZero), NEW i \in 1 .. Len(f)
  PROVE  CobsStop(f, i) \in i .. Len(f) /\ f[i] \in 1 .. MaxByte
<1>1. f[i] \in Bytes /\ f[i] # 0
  BY DEF NonZero, Sentinel
<1>2. f[i] \in 1 .. MaxByte /\ MaxByte \in Nat
  BY <1>1, SpecialBytes DEF Bytes
<1>3. Len(f) \in Nat
  OBVIOUS
<1> QED BY <1>2, <1>3 DEF CobsStop

LEMMA CobsExists ==
  ASSUME NEW f \in Seq(NonZero)
  PROVE  \E F : CobsFrom(F, f, 1)
<1> DEFINE n == Len(f)
           T == {j \in 0 .. n : ~\E F : CobsFrom(F, f, n + 1 - j)}
<1>0. n \in Nat /\ T \subseteq Nat
  OBVIOUS
<1>1. T = {}
  <2> SUFFICES ASSUME T # {} PROVE FALSE
    OBVIOUS
  <2>1. PICK j \in T : \A k \in T : j <= k
    <3> HIDE DEF T
    <3> QED BY <1>0, LeastNumber, Zenon
  <2>2. j \in 0 .. n /\ j \in Nat /\ ~\E F : CobsFrom(F, f, n + 1 - j)
    OBVIOUS
  <2>3. PICK m \in 1 .. n + 1 : m = n + 1 - j
    <3>1. n + 1 - j \in 1 .. n + 1
      <4> HIDE DEF n, T
      <4> QED BY <1>0, <2>2
    <3> HIDE DEF n, T
    <3> QED BY <3>1
  <2>4. ~\E F : CobsFrom(F, f, m)
    BY <2>2, <2>3
  <2>5. CASE m = n + 1
    <3> DEFINE G == [i \in m .. n + 1 |-> <<>>]
    <3>1. \A i \in m .. n + 1 : i > n
      BY <1>0, <2>5
    <3>2. \A F : \A i \in m .. n + 1 : CobsAt(F, f, i) = <<>>
      BY <3>1 DEF CobsAt
    <3>3. G = [i \in m .. n + 1 |-> CobsAt(G, f, i)]
      BY <3>2
    <3> QED BY <2>4, <3>3 DEF CobsFrom
  <2>6. CASE m # n + 1
    <3>1. m \in 1 .. n /\ j - 1 \in 0 .. n /\ ~(j <= j - 1) /\ n + 1 - (j - 1) = m + 1
      BY <1>0, <2>2, <2>3, <2>6
    <3>2. j - 1 \notin T
      <4> HIDE DEF T
      <4> QED BY <2>1, <3>1
    <3>3. PICK F : CobsFrom(F, f, m + 1)
      BY <3>1, <3>2
    <3> HIDE DEF T
    <3> DEFINE G == [i \in m .. n + 1 |-> CobsAt(F, f, i)]
    <3>4. ASSUME NEW i \in m .. n + 1 PROVE CobsAt(G, f, i) = CobsAt(F, f, i)
      <4>1. CASE i > n
        BY <4>1 DEF CobsAt
      <4>2. CASE ~(i > n)
        <5>1. i \in 1 .. Len(f)
          BY <1>0, <2>3, <4>2
        <5>2. PICK k \in m + 1 .. n + 1 : k = CobsStop(f, i) + 1
          <6>1. CobsStop(f, i) \in i .. n
            BY <5>1, CobsStops
          <6> QED BY <1>0, <2>3, <6>1
        <5>3. k \in m .. n + 1
          BY <1>0, <2>3, <5>2
        <5>4. G[k] = CobsAt(F, f, k) /\ F[k] = CobsAt(F, f, k)
          BY <3>3, <5>2, <5>3 DEF CobsFrom
        <5> HIDE DEF G
        <5> QED BY <4>2, <5>2, <5>4 DEF CobsAt
      <4> QED BY <4>1, <4>2
    <3>5. CobsFrom(G, f, m)
      <4>1. G = [i \in m .. n + 1 |-> G[i]] /\ \A i \in m .. n + 1 : G[i] = CobsAt(F, f, i)
        OBVIOUS
      <4> HIDE DEF G
      <4> QED BY <3>4, <4>1 DEF CobsFrom
    <3> QED BY <2>4, <3>5
  <2> QED BY <2>5, <2>6
<1>2. n \in 0 .. n /\ n + 1 - n = 1
  BY <1>0
<1> QED BY <1>1, <1>2

(* The positions of decode_cobs, unfolded. *)
LEMMA CobsUnfold ==
  ASSUME NEW f \in Seq(NonZero)
  PROVE  \E F : CobsDecode(f) = F[1] /\ CobsFrom(F, f, 1)
<1> DEFINE F == CHOOSE F : CobsFrom(F, f, 1)
<1>1. CobsFrom(F, f, 1)
  BY CobsExists
<1>2. CobsDecode(f) = F[1]
  BY DEF CobsDecode, CobsFrom, CobsAt, CobsStop, CobsZero
<1> HIDE DEF F
<1> QED BY <1>1, <1>2
-----------------------------------------------------------------------------
(* From a position of h, decode_cobs gives the same in front of h or not.  *)
Shifted(F, H, k, i) == F[k + i] = H[i] /\ H[i] \in Seq(Bytes)

LEMMA CobsShiftOne ==
  ASSUME NEW g \in Seq(NonZero), NEW h \in Seq(NonZero), NEW i \in 1 .. Len(h)
  PROVE  /\ CobsStop(g \o h, Len(g) + i) = Len(g) + CobsStop(h, i)
         /\ CobsZero(g \o h, Len(g) + i) = CobsZero(h, i)
         /\ SubSeq(g \o h, (Len(g) + i) + 1, CobsStop(g \o h, Len(g) + i)) = SubSeq(h, i + 1, CobsStop(h, i))
         /\ SubSeq(h, i + 1, CobsStop(h, i)) \in Seq(Bytes)
         /\ CobsZero(h, i) \in Seq(Bytes)
<1> DEFINE f == g \o h
           s == CobsStop(h, i)
<1>1. /\ f \in Seq(NonZero) /\ Len(f) = Len(g) + Len(h) /\ Len(g) \in Nat /\ Len(h) \in Nat
      /\ f[Len(g) + i] = h[i] /\ \A k \in 1 .. Len(h) : f[Len(g) + k] = h[k]
  OBVIOUS
<1>2. s \in i .. Len(h) /\ h[i] \in Nat
  BY CobsStops, SpecialBytes
<1> HIDE DEF f
<1>3. CobsStop(f, Len(g) + i) = Len(g) + s
  BY <1>1, <1>2 DEF CobsStop
<1> HIDE DEF s
<1>4. CobsZero(f, Len(g) + i) = CobsZero(h, i)
  <2>1. Len(g) + s < Len(f) <=> s < Len(h)
    BY <1>1, <1>2
  <2> QED BY <1>1, <1>3, <2>1 DEF CobsZero, s
<1>5. SubSeq(f, (Len(g) + i) + 1, Len(g) + s) = SubSeq(h, i + 1, s)
  <2> DEFINE u == SubSeq(f, (Len(g) + i) + 1, Len(g) + s)
             v == SubSeq(h, i + 1, s)
  <2>1. u \in Seq(NonZero) /\ Len(u) = s - i /\ \A k \in 1 .. s - i : u[k] = f[Len(g) + (i + k)]
    BY <1>1, <1>2
  <2>2. v \in Seq(NonZero) /\ Len(v) = s - i /\ \A k \in 1 .. s - i : v[k] = h[i + k]
    BY <1>1, <1>2
  <2> HIDE DEF u, v
  <2>3. ASSUME NEW k \in 1 .. s - i PROVE u[k] = v[k]
    <3>1. PICK j \in 1 .. Len(h) : j = i + k
      BY <1>1, <1>2
    <3> QED BY <1>1, <2>1, <2>2, <3>1
  <2> QED BY <2>1, <2>2, <2>3, SeqEqual DEF u, v
<1>6. SubSeq(h, i + 1, s) \in Seq(Bytes)
  <2>1. h \in Seq(Bytes)
    BY DEF NonZero
  <2> QED BY <1>1, <1>2, <2>1
<1>7. CobsZero(h, i) \in Seq(Bytes)
  BY SpecialBytes DEF CobsZero
<1> QED BY <1>3, <1>4, <1>5, <1>6, <1>7 DEF f, s

LEMMA CobsShift ==
  ASSUME NEW g \in Seq(NonZero), NEW h \in Seq(NonZero),
         NEW F, CobsFrom(F, g \o h, 1), NEW H, CobsFrom(H, h, 1), NEW i \in 1 .. Len(h) + 1
  PROVE  Shifted(F, H, Len(g), i)
<1> DEFINE f == g \o h
           n == Len(h)
           T == {j \in 0 .. n : ~Shifted(F, H, Len(g), n + 1 - j)}
<1>0. /\ n \in Nat /\ T \subseteq Nat /\ Len(g) \in Nat
      /\ f \in Seq(NonZero) /\ Len(f) = Len(g) + n
  OBVIOUS
<1> HIDE DEF f
<1>1. T = {}
  <2> SUFFICES ASSUME T # {} PROVE FALSE
    OBVIOUS
  <2>1. PICK j \in T : \A k \in T : j <= k
    <3> HIDE DEF T
    <3> QED BY <1>0, LeastNumber, Zenon
  <2>2. j \in 0 .. n /\ j \in Nat /\ ~Shifted(F, H, Len(g), n + 1 - j)
    BY <1>0
  <2>3. PICK m \in 1 .. n + 1 : m = n + 1 - j
    <3>1. n + 1 - j \in 1 .. n + 1
      <4> HIDE DEF n, T
      <4> QED BY <1>0, <2>2
    <3> HIDE DEF n, T
    <3> QED BY <3>1
  <2>4. ~Shifted(F, H, Len(g), m)
    BY <2>2, <2>3
  <2>5. ASSUME NEW k \in m + 1 .. n + 1 PROVE Shifted(F, H, Len(g), k)
    <3> DEFINE l == n + 1 - k
    <3>1. l \in 0 .. n /\ ~(j <= l) /\ n + 1 - l = k
      <4> HIDE DEF n, T
      <4> QED BY <1>0, <2>2, <2>3
    <3> HIDE DEF l
    <3>2. l \notin T
      <4> HIDE DEF T
      <4> QED BY <2>1, <3>1
    <3> QED BY <3>1, <3>2
  <2> HIDE DEF T
  <2>6. F[Len(g) + m] = CobsAt(F, f, Len(g) + m) /\ H[m] = CobsAt(H, h, m)
    <3>1. Len(g) + m \in 1 .. Len(f) + 1 /\ m \in 1 .. Len(h) + 1
      BY <1>0, <2>3
    <3> QED BY <3>1 DEF CobsFrom, f
  <2>7. CASE m = n + 1
    <3>1. Len(g) + m > Len(f) /\ m > Len(h)
      BY <1>0, <2>7
    <3>2. F[Len(g) + m] = <<>> /\ H[m] = <<>>
      BY <2>6, <3>1 DEF CobsAt
    <3>3. <<>> \in Seq(Bytes)
      OBVIOUS
    <3> QED BY <2>4, <3>2, <3>3 DEF Shifted
  <2>8. CASE m # n + 1
    <3>1. m \in 1 .. Len(h) /\ ~(Len(g) + m > Len(f)) /\ ~(m > Len(h))
      BY <1>0, <2>3, <2>8
    <3> DEFINE s == CobsStop(h, m)
               u == SubSeq(h, m + 1, s)
               z == CobsZero(h, m)
    <3>2. /\ CobsStop(f, Len(g) + m) = Len(g) + s
          /\ CobsZero(f, Len(g) + m) = z /\ z \in Seq(Bytes)
          /\ SubSeq(f, (Len(g) + m) + 1, CobsStop(f, Len(g) + m)) = u /\ u \in Seq(Bytes)
      BY <3>1, CobsShiftOne DEF f
    <3>3. s \in m .. n
      BY <3>1, CobsStops
    <3>4. F[Len(g) + m] = u \o z \o F[(Len(g) + s) + 1] /\ H[m] = u \o z \o H[s + 1]
      BY <2>6, <3>1, <3>2 DEF CobsAt
    <3> HIDE DEF s, u, z
    <3>5. PICK k \in m + 1 .. n + 1 : k = s + 1 /\ Len(g) + k = (Len(g) + s) + 1
      BY <1>0, <2>3, <3>3
    <3>6. F[Len(g) + k] = H[k] /\ H[k] \in Seq(Bytes)
      BY <2>5 DEF Shifted
    <3>7. u \o z \o H[k] \in Seq(Bytes)
      BY <3>2, <3>6, ConcatProperties
    <3>8. F[Len(g) + m] = u \o z \o H[k] /\ H[m] = u \o z \o H[k]
      BY <3>4, <3>5, <3>6
    <3> QED BY <2>4, <3>7, <3>8 DEF Shifted
  <2> QED BY <2>7, <2>8
<1> DEFINE l == n + 1 - i
<1>2. l \in 0 .. n /\ n + 1 - l = i
  <2>1. i \in 1 .. n + 1
    OBVIOUS
  <2> HIDE DEF n, T
  <2> QED BY <1>0, <2>1
<1> HIDE DEF l
<1> QED BY <1>1, <1>2
-----------------------------------------------------------------------------
LEMMA CobsEmpty == CobsDecode(<<>>) = <<>>
<1>1. <<>> \in Seq(NonZero) /\ Len(<<>>) = 0
  OBVIOUS
<1>2. PICK H : CobsDecode(<<>>) = H[1] /\ CobsFrom(H, <<>>, 1)
  BY <1>1, CobsUnfold
<1>3. H[1] = CobsAt(H, <<>>, 1)
  BY <1>1, <1>2 DEF CobsFrom
<1>4. CobsAt(H, <<>>, 1) = <<>>
  BY <1>1 DEF CobsAt
<1> QED BY <1>2, <1>3, <1>4

(* A group: the code byte, which counts itself, and the bytes r; and what  *)
(* decode_cobs makes of it in front of h.                                  *)
Group(r) == <<Len(r) + 1>> \o r

GroupZero(r, h) == IF Len(r) + 1 # MaxByte /\ h # <<>> THEN <<Sentinel>> ELSE <<>>

Runs == {r \in Seq(NonZero) : Len(r) + 1 <= MaxByte}

LEMMA GroupType ==
  ASSUME NEW r \in Runs
  PROVE  /\ Group(r) \in Seq(NonZero) /\ Len(Group(r)) = Len(r) + 1 /\ Group(r)[1] = Len(r) + 1
         /\ \A i \in 1 .. Len(r) : Group(r)[i + 1] = r[i]
         /\ r \in Seq(NonZero) /\ Len(r) \in Nat
<1> DEFINE k == Len(r) + 1
<1>1. r \in Seq(NonZero) /\ Len(r) \in Nat /\ k <= MaxByte
  BY DEF Runs
<1>2. k \in NonZero
  BY <1>1, SpecialBytes DEF NonZero, Bytes
<1>3. /\ <<k>> \in Seq(NonZero) /\ Len(<<k>>) = 1 /\ <<k>>[1] = k
  BY <1>2
<1> QED BY <1>1, <1>3 DEF Group

LEMMA CobsGroup ==
  ASSUME NEW r \in Runs, NEW h \in Seq(NonZero)
  PROVE  /\ CobsDecode(Group(r) \o h) = r \o GroupZero(r, h) \o CobsDecode(h)
         /\ CobsDecode(h) \in Seq(Bytes)
<1> DEFINE g == Group(r)
           f == g \o h
<1>1. /\ g \in Seq(NonZero) /\ Len(g) = Len(r) + 1 /\ g[1] = Len(r) + 1
      /\ \A i \in 1 .. Len(r) : g[i + 1] = r[i]
      /\ r \in Seq(NonZero) /\ Len(r) \in Nat
  BY GroupType
<1> HIDE DEF g
<1>2. /\ f \in Seq(NonZero) /\ Len(f) = (Len(r) + 1) + Len(h) /\ Len(h) \in Nat
      /\ \A i \in 1 .. Len(r) + 1 : f[i] = g[i]
  BY <1>1
<1>3. PICK F : CobsDecode(f) = F[1] /\ CobsFrom(F, f, 1)
  BY <1>2, CobsUnfold
<1>4. PICK H : CobsDecode(h) = H[1] /\ CobsFrom(H, h, 1)
  BY CobsUnfold
<1>5. F[Len(g) + 1] = H[1] /\ H[1] \in Seq(Bytes)
  <2>1. 1 \in 1 .. Len(h) + 1
    BY <1>2
  <2>2. Shifted(F, H, Len(g), 1)
    BY <1>1, <1>3, <1>4, <2>1, CobsShift
  <2> QED BY <2>2 DEF Shifted
<1> HIDE DEF f
<1>6. F[1] = CobsAt(F, f, 1)
  <2>1. 1 \in 1 .. Len(f) + 1
    BY <1>1, <1>2
  <2> QED BY <1>3, <2>1 DEF CobsFrom
<1>7. f[1] = Len(r) + 1
  <2>1. 1 \in 1 .. Len(r) + 1
    BY <1>1
  <2> QED BY <1>1, <1>2, <2>1
<1>8. CobsStop(f, 1) = Len(r) + 1
  BY <1>1, <1>2, <1>7 DEF CobsStop
<1>9. CobsZero(f, 1) = GroupZero(r, h)
  <2>1. Len(r) + 1 < Len(f) <=> h # <<>>
    <3>1. h # <<>> <=> Len(h) # 0
      OBVIOUS
    <3> QED BY <1>1, <1>2, <3>1
  <2> QED BY <1>7, <1>8, <2>1 DEF CobsZero, GroupZero
<1>10. SubSeq(f, 1 + 1, Len(r) + 1) = r
  <2> DEFINE u == SubSeq(f, 1 + 1, Len(r) + 1)
  <2>1. u \in Seq(NonZero) /\ Len(u) = Len(r) /\ \A i \in 1 .. Len(r) : u[i] = f[i + 1]
    BY <1>1, <1>2
  <2> HIDE DEF u
  <2>2. ASSUME NEW i \in 1 .. Len(r) PROVE u[i] = r[i]
    <3>1. PICK k \in 1 .. Len(r) + 1 : k = i + 1
      BY <1>1
    <3>2. u[i] = f[k] /\ f[k] = g[k] /\ g[k] = r[i]
      BY <1>1, <1>2, <2>1, <3>1
    <3> QED BY <3>2
  <2> QED BY <1>1, <2>1, <2>2, SeqEqual DEF u
<1>11. ~(1 > Len(f))
  BY <1>1, <1>2
<1>12. CobsAt(F, f, 1) = r \o GroupZero(r, h) \o F[(Len(r) + 1) + 1]
  BY <1>8, <1>9, <1>10, <1>11 DEF CobsAt
<1> QED BY <1>1, <1>3, <1>4, <1>5, <1>6, <1>12 DEF f, g
-----------------------------------------------------------------------------
(* What the groups in out stand for: full, whatever groups follow.         *)
Promises(out, full) ==
  \A h \in Seq(NonZero) : h # <<>> => CobsDecode(out \o h) = full \o CobsDecode(h)

LEMMA ClosePromise ==
  ASSUME NEW out \in Seq(NonZero), NEW full \in Seq(Bytes), Promises(out, full), NEW r \in Runs
  PROVE  /\ Promises(out \o Group(r),
                     full \o (r \o (IF Len(r) + 1 # MaxByte THEN <<Sentinel>> ELSE <<>>)))
         /\ CobsDecode(out \o Group(r)) = full \o r
<1> DEFINE g == Group(r)
           z == IF Len(r) + 1 # MaxByte THEN <<Sentinel>> ELSE <<>>
<1>1. g \in Seq(NonZero) /\ Len(g) = Len(r) + 1 /\ r \in Seq(NonZero) /\ Len(r) \in Nat
  BY GroupType
<1>2. r \in Seq(Bytes) /\ z \in Seq(Bytes)
  BY <1>1, SpecialBytes DEF NonZero
<1>3. \A h : h # <<>> => GroupZero(r, h) = z
  BY DEF GroupZero
<1> HIDE DEF g, z
<1>4. ASSUME NEW h \in Seq(NonZero), h # <<>>
      PROVE  CobsDecode((out \o g) \o h) = (full \o (r \o z)) \o CobsDecode(h)
  <2>1. g \o h \in Seq(NonZero)
    BY <1>1, ConcatProperties
  <2>2. g \o h # <<>>
    BY <1>1, <1>4, EmptyParts, Zenon
  <2>3. CobsDecode(out \o (g \o h)) = full \o CobsDecode(g \o h)
    BY <2>1, <2>2 DEF Promises
  <2>4. CobsDecode(g \o h) = (r \o z) \o CobsDecode(h) /\ CobsDecode(h) \in Seq(Bytes)
    BY <1>3, <1>4, CobsGroup DEF g
  <2>5. Grouped(out, g, h)
    BY <1>1, Regroup, Zenon
  <2>6. Grouped(full, r \o z, CobsDecode(h))
    <3>1. r \o z \in Seq(Bytes)
      BY <1>2, ConcatProperties
    <3> QED BY <2>4, <3>1, Regroup, Zenon
  <2> QED BY <2>3, <2>4, <2>5, <2>6 DEF Grouped
<1>5. CobsDecode(out \o g) = full \o r
  <2>1. g # <<>>
    BY <1>1
  <2>2. CobsDecode(out \o g) = full \o CobsDecode(g)
    BY <1>1, <2>1 DEF Promises
  <2>3. <<>> \in Seq(NonZero) /\ GroupZero(r, <<>>) = <<>>
    BY DEF GroupZero
  <2>4. CobsDecode(g \o <<>>) = (r \o GroupZero(r, <<>>)) \o CobsDecode(<<>>)
    BY <2>3, CobsGroup DEF g
  <2>5. CobsDecode(g) = (r \o <<>>) \o <<>>
    BY <1>1, <2>3, <2>4, CobsEmpty, ConcatEmptySeq
  <2> QED BY <1>2, <2>2, <2>5, ConcatEmptySeq
<1> QED BY <1>4, <1>5 DEF Promises, g, z

(* What encode_cobs has made of the bytes pre. *)
CobsSays(s, pre) ==
  /\ s = [out |-> s.out, run |-> s.run]
  /\ s.out \in Seq(NonZero) /\ s.run \in Seq(NonZero) /\ Len(s.run) + 1 < MaxByte
  /\ \E full \in Seq(Bytes) : Promises(s.out, full) /\ full \o s.run = pre

LEMMA CloseIs ==
  ASSUME NEW s, s.out \in Seq(NonZero), s.run \in Runs
  PROVE  CloseRun(s) = [out |-> s.out \o Group(s.run), run |-> <<>>]
<1> DEFINE k == <<Len(s.run) + 1>>
<1>1. k \in Seq(NonZero) /\ s.run \in Seq(NonZero)
  <2>1. Len(s.run) \in Nat /\ s.run \in Seq(NonZero) /\ Len(s.run) + 1 <= MaxByte
    BY DEF Runs
  <2>2. Len(s.run) + 1 \in NonZero
    BY <2>1, SpecialBytes DEF NonZero, Bytes
  <2> QED BY <2>1, <2>2
<1> HIDE DEF k
<1>2. Grouped(s.out, k, s.run)
  BY <1>1, Regroup, Zenon
<1> QED BY <1>2 DEF CloseRun, Group, Grouped, k

LEMMA CobsPutSays ==
  ASSUME NEW s, NEW pre \in Seq(Bytes), CobsSays(s, pre), NEW b \in Bytes
  PROVE  CobsSays(CobsPut(s, b), Append(pre, b))
<1> DEFINE out == s.out
           run == s.run
<1>1. /\ out \in Seq(NonZero) /\ run \in Seq(NonZero) /\ Len(run) \in Nat /\ Len(run) + 1 < MaxByte
      /\ MaxByte \in Nat /\ <<>> \in Seq(NonZero)
  BY SpecialBytes DEF CobsSays
<1>2. PICK full \in Seq(Bytes) : Promises(out, full) /\ full \o run = pre
  BY DEF CobsSays
<1>3. run \in Seq(Bytes) /\ <<b>> \in Seq(Bytes) /\ pre \o <<b>> = Append(pre, b)
  BY <1>1 DEF NonZero
<1>4. full \o (run \o <<b>>) = Append(pre, b)
  <2>1. Grouped(full, run, <<b>>)
    BY <1>2, <1>3, Regroup, Zenon
  <2> QED BY <1>2, <1>3, <2>1 DEF Grouped
<1>5. ASSUME NEW t, t.out = out, t.run \in Runs, NEW e \in Seq(Bytes),
             e = full \o (t.run \o (IF Len(t.run) + 1 # MaxByte THEN <<Sentinel>> ELSE <<>>)),
             e = Append(pre, b)
      PROVE  CobsSays(CloseRun(t), Append(pre, b))
  <2> DEFINE o == out \o Group(t.run)
  <2>1. CloseRun(t) = [out |-> o, run |-> <<>>]
    BY <1>1, <1>5, CloseIs
  <2>2. Promises(o, e)
    BY <1>1, <1>2, <1>5, ClosePromise
  <2>3. o \in Seq(NonZero)
    BY <1>1, <1>5, GroupType, ConcatProperties
  <2>4. e \o <<>> = e
    BY <1>5, ConcatEmptySeq
  <2> HIDE DEF o
  <2> DEFINE u == CloseRun(t)
  <2>5. u = [out |-> o, run |-> <<>>]
    BY <2>1
  <2>6. u.out = o /\ u.run = <<>> /\ u = [out |-> u.out, run |-> u.run]
    BY <2>5
  <2>7. Len(u.run) + 1 < MaxByte
    BY <2>6, SpecialBytes
  <2> HIDE DEF u
  <2>8. CobsSays(u, Append(pre, b))
    BY <1>1, <1>5, <2>2, <2>3, <2>4, <2>6, <2>7 DEF CobsSays
  <2> QED BY <2>8 DEF u
<1>6. CASE b = Sentinel
  <2>1. CobsPut(s, b) = CloseRun(s) /\ Len(run) + 1 # MaxByte
    BY <1>1, <1>6 DEF CobsPut
  <2>2. run \in Runs
    BY <1>1 DEF Runs
  <2>3. Append(pre, b) \in Seq(Bytes)
    OBVIOUS
  <2> QED BY <1>4, <1>5, <1>6, <2>1, <2>2, <2>3
<1>7. CASE b # Sentinel
  <2> DEFINE t == [s EXCEPT !.run = Append(@, b)]
  <2>1. t = [out |-> out, run |-> Append(run, b)]
    <3>1. PICK u, v : s = [out |-> u, run |-> v]
      BY DEF CobsSays
    <3>2. PICK e : e = Append(run, b)
      OBVIOUS
    <3>3. [s EXCEPT !.run = e] = [out |-> u, run |-> e] /\ out = u
      BY ONLY <3>1
    <3> QED BY <3>2, <3>3
  <2>2. t.out = out /\ t.run = Append(run, b) /\ t = [out |-> t.out, run |-> t.run]
    BY <2>1
  <2>3. CobsPut(s, b) = IF Len(t.run) + 1 = MaxByte THEN CloseRun(t) ELSE t
    BY <1>7 DEF CobsPut
  <2> HIDE DEF t
  <2>4. b \in NonZero
    BY <1>7 DEF NonZero
  <2>5. t.run \in Seq(NonZero) /\ Len(t.run) = Len(run) + 1 /\ t.run = run \o <<b>>
    <3> HIDE DEF run
    <3>1. /\ Append(run, b) \in Seq(NonZero) /\ Len(Append(run, b)) = Len(run) + 1
          /\ Append(run, b) = run \o <<b>>
      BY <1>1, <2>4
    <3> QED BY <2>2, <3>1
  <2>6. CASE Len(t.run) + 1 = MaxByte
    <3>1. t.run \in Runs
      BY <1>1, <2>5, <2>6 DEF Runs
    <3>2. t.run \in Seq(Bytes)
      BY <2>5 DEF NonZero
    <3>3. Append(pre, b) = full \o (t.run \o <<>>) /\ Append(pre, b) \in Seq(Bytes)
      <4>1. t.run \o <<>> = t.run
        BY <3>2, ConcatEmptySeq
      <4>2. Append(pre, b) \in Seq(Bytes)
        OBVIOUS
      <4> QED BY <1>4, <2>5, <4>1, <4>2
    <3>4. CobsPut(s, b) = CloseRun(t)
      BY <2>3, <2>6
    <3>5. (IF Len(t.run) + 1 # MaxByte THEN <<Sentinel>> ELSE <<>>) = <<>>
      BY <2>6
    <3> QED BY <1>5, <2>2, <3>1, <3>3, <3>4, <3>5
  <2>7. CASE Len(t.run) + 1 # MaxByte
    <3>1. CobsPut(s, b) = t
      BY <2>3, <2>7
    <3>2. Len(t.run) + 1 < MaxByte
      BY <1>1, <2>5, <2>7
    <3>3. full \o t.run = Append(pre, b)
      BY <1>4, <2>5
    <3>4. CobsSays(t, Append(pre, b))
      BY <1>1, <1>2, <2>2, <2>5, <3>2, <3>3 DEF CobsSays
    <3> QED BY <3>1, <3>4
  <2> QED BY <2>6, <2>7
<1> QED BY <1>6, <1>7
-----------------------------------------------------------------------------
(* The states of encode_cobs after the first n bytes of p. *)
CobsStart == [out |-> <<>>, run |-> <<>>]
CobsUpto(A, p, n) == A = [i \in 0 .. n |-> IF i = 0 THEN CobsStart ELSE CobsPut(A[i - 1], p[i])]

LEMMA CobsUptoExists ==
  ASSUME NEW p \in Seq(Bytes)
  PROVE  \E A : CobsUpto(A, p, Len(p))
<1> DEFINE T == {n \in 0 .. Len(p) : ~\E A : CobsUpto(A, p, n)}
<1>0. Len(p) \in Nat /\ T \subseteq Nat
  OBVIOUS
<1>1. T = {}
  <2> SUFFICES ASSUME T # {} PROVE FALSE
    OBVIOUS
  <2>1. PICK n \in T : \A m \in T : n <= m
    <3> HIDE DEF T
    <3> QED BY <1>0, LeastNumber, Zenon
  <2>2. n \in 0 .. Len(p) /\ n \in Nat /\ ~\E A : CobsUpto(A, p, n)
    OBVIOUS
  <2>3. CASE n = 0
    <3> DEFINE A == [i \in 0 .. 0 |-> CobsStart]
    <3>1. CobsUpto(A, p, 0)
      BY DEF CobsUpto
    <3> QED BY <2>2, <2>3, <3>1
  <2>4. CASE n # 0
    <3>1. n - 1 \in 0 .. Len(p) /\ ~(n <= n - 1) /\ n - 1 \in Nat
      BY <1>0, <2>2, <2>4
    <3>2. n - 1 \notin T
      <4> HIDE DEF T
      <4> QED BY <2>1, <3>1
    <3>3. PICK A : CobsUpto(A, p, n - 1)
      BY <3>1, <3>2
    <3> HIDE DEF T
    <3> DEFINE B == [i \in 0 .. n |-> IF i < n THEN A[i] ELSE CobsPut(A[n - 1], p[n])]
    <3>4. ASSUME NEW i \in 0 .. n PROVE B[i] = IF i = 0 THEN CobsStart ELSE CobsPut(B[i - 1], p[i])
      <4>1. CASE i < n
        <5>1. i \in 0 .. n - 1 /\ (i # 0 => i - 1 \in 0 .. n /\ i - 1 < n)
          BY <2>2, <4>1
        <5>2. A[i] = IF i = 0 THEN CobsStart ELSE CobsPut(A[i - 1], p[i])
          BY <3>3, <5>1 DEF CobsUpto
        <5> QED BY <4>1, <5>1, <5>2
      <4>2. CASE ~(i < n)
        <5>1. i = n /\ n - 1 \in 0 .. n /\ n - 1 < n /\ ~(n < n)
          BY <2>2, <2>4, <4>2
        <5>2. B[n] = CobsPut(A[n - 1], p[n]) /\ B[n - 1] = A[n - 1]
          BY <5>1
        <5> HIDE DEF B
        <5> QED BY <2>4, <5>1, <5>2
      <4> QED BY <4>1, <4>2
    <3>5. CobsUpto(B, p, n)
      <4>1. B = [i \in 0 .. n |-> B[i]]
        OBVIOUS
      <4> HIDE DEF B
      <4> QED BY <3>4, <4>1 DEF CobsUpto
    <3> QED BY <2>2, <3>5
  <2> QED BY <2>3, <2>4
<1> QED BY <1>0, <1>1

LEMMA CobsUnrolled ==
  ASSUME NEW p \in Seq(Bytes)
  PROVE  \E A : /\ CobsUpto(A, p, Len(p))
                /\ CobsEncode(p) = CloseRun(A[Len(p)]).out \o <<Sentinel>>
<1> DEFINE A == CHOOSE A : CobsUpto(A, p, Len(p))
<1>1. CobsUpto(A, p, Len(p))
  BY CobsUptoExists
<1>2. CobsEncode(p) = CloseRun(A[Len(p)]).out \o <<Sentinel>>
  BY DEF CobsEncode, CobsUpto, CobsStart
<1> HIDE DEF A
<1> QED BY <1>1, <1>2

LEMMA CobsSaysAll ==
  ASSUME NEW p \in Seq(Bytes), NEW A, CobsUpto(A, p, Len(p))
  PROVE  CobsSays(A[Len(p)], p)
<1> DEFINE Says(n) == CobsSays(A[n], SubSeq(p, 1, n))
           T == {n \in 0 .. Len(p) : ~Says(n)}
<1>0. Len(p) \in Nat /\ T \subseteq Nat
  OBVIOUS
<1>1. T = {}
  <2> SUFFICES ASSUME T # {} PROVE FALSE
    OBVIOUS
  <2>1. PICK n \in T : \A m \in T : n <= m
    <3> HIDE DEF T
    <3> QED BY <1>0, LeastNumber, Zenon
  <2>2. n \in 0 .. Len(p) /\ ~Says(n) /\ n \in Nat
    BY <1>0
  <2>3. A[n] = IF n = 0 THEN CobsStart ELSE CobsPut(A[n - 1], p[n])
    BY <2>2 DEF CobsUpto
  <2>4. CASE n = 0
    <3> DEFINE s == CobsStart
    <3>1. A[n] = s /\ SubSeq(p, 1, n) = <<>>
      BY <2>3, <2>4, SubSeqEmpty
    <3>2. s = [out |-> <<>>, run |-> <<>>]
      BY DEF CobsStart
    <3>3. s.out = <<>> /\ s.run = <<>> /\ s = [out |-> s.out, run |-> s.run]
      BY <3>2
    <3>4. <<>> \in Seq(NonZero) /\ <<>> \in Seq(Bytes) /\ Len(<<>>) + 1 < MaxByte /\ <<>> \o <<>> = <<>>
      BY SpecialBytes
    <3>5. Promises(<<>>, <<>>)
      <4> SUFFICES ASSUME NEW h \in Seq(NonZero) PROVE CobsDecode(<<>> \o h) = <<>> \o CobsDecode(h)
        BY DEF Promises
      <4> DEFINE e == <<>>
      <4>1. e \in Seq(NonZero) /\ Len(e) = 0
        OBVIOUS
      <4> HIDE DEF e
      <4>2. e \in Runs
        BY <4>1, SpecialBytes DEF Runs
      <4>3. CobsDecode(h) \in Seq(Bytes)
        BY <4>2, CobsGroup
      <4>4. <<>> \o h = h /\ <<>> \o CobsDecode(h) = CobsDecode(h)
        BY <4>3, ConcatEmptySeq
      <4> QED BY <4>4
    <3> HIDE DEF s
    <3>6. CobsSays(s, <<>>)
      BY <3>3, <3>4, <3>5 DEF CobsSays
    <3> QED BY <2>2, <3>1, <3>6
  <2>5. CASE n # 0
    <3>1. n - 1 \in 0 .. Len(p) /\ ~(n <= n - 1) /\ n \in 1 .. Len(p) /\ p[n] \in Bytes
      BY <1>0, <2>2, <2>5
    <3>2. n - 1 \notin T
      <4> HIDE DEF T
      <4> QED BY <2>1, <3>1
    <3>3. Says(n - 1)
      BY <3>1, <3>2
    <3> DEFINE q == SubSeq(p, 1, n - 1)
    <3>4. q \in Seq(Bytes) /\ Append(q, p[n]) = SubSeq(p, 1, n)
      <4>1. 1 \in 1 .. Len(p) /\ n \in 1 .. Len(p)
        BY <1>0, <3>1
      <4>2. SubSeq(p, 1, n) = SubSeq(p, 1, n - 1) \o <<p[n]>>
        BY <4>1, SubSeqRecursiveSecond, Zenon
      <4>3. q \in Seq(Bytes)
        BY <3>1
      <4> HIDE DEF q
      <4>4. q \o <<p[n]>> = Append(q, p[n])
        BY <3>1, <4>3
      <4> QED BY <4>2, <4>3, <4>4 DEF q
    <3> HIDE DEF q, T
    <3>5. CobsSays(A[n - 1], q)
      BY <3>3 DEF q
    <3>6. CobsSays(CobsPut(A[n - 1], p[n]), Append(q, p[n]))
      BY <3>1, <3>4, <3>5, CobsPutSays
    <3> QED BY <2>2, <2>3, <2>5, <3>4, <3>6
  <2> QED BY <2>4, <2>5
<1>2. Says(Len(p))
  BY <1>0, <1>1
<1> QED BY <1>2, SubSeqFull

LEMMA CobsFrame ==
  ASSUME NEW p \in Carried("cobs")
  PROVE  FrameOf("cobs", Encode("cobs", p), p)
<1> DEFINE c == "cobs"
<1>1. p \in Seq(Bytes) /\ c \in Framed /\ Delimiter(c) = <<Sentinel>> /\ Encode(c, p) = CobsEncode(p)
  BY DEF Carried, Framed, Delimiter, Encode
<1>2. PICK A : /\ CobsUpto(A, p, Len(p))
               /\ CobsEncode(p) = CloseRun(A[Len(p)]).out \o <<Sentinel>>
  BY <1>1, CobsUnrolled
<1> DEFINE s == A[Len(p)]
<1>3. CobsSays(s, p)
  BY <1>1, <1>2, CobsSaysAll
<1> HIDE DEF s, c
<1>4. s.out \in Seq(NonZero) /\ s.run \in Seq(NonZero) /\ Len(s.run) + 1 < MaxByte
  BY <1>3 DEF CobsSays
<1>5. PICK full \in Seq(Bytes) : Promises(s.out, full) /\ full \o s.run = p
  BY <1>3 DEF CobsSays
<1>6. s.run \in Runs
  BY <1>4, SpecialBytes DEF Runs
<1> DEFINE f == s.out \o Group(s.run)
<1>7. CloseRun(s).out = f
  <2>1. CloseRun(s) = [out |-> f, run |-> <<>>]
    BY <1>4, <1>6, CloseIs
  <2> HIDE DEF f
  <2> QED BY <2>1
<1>8. CobsDecode(f) = p
  BY <1>4, <1>5, <1>6, ClosePromise
<1>9. f \in Seq(Bytes \ {Sentinel})
  BY <1>4, <1>6, GroupType, ConcatProperties DEF NonZero
<1>10. f # <<>>
  <2>1. Group(s.run) # <<>>
    BY <1>6, GroupType
  <2>2. Group(s.run) \in Seq(NonZero)
    BY <1>6, GroupType
  <2> QED BY <1>4, <2>1, <2>2, EmptyParts, Zenon
<1> HIDE DEF f
<1>11. Terminated(c, f \o <<Sentinel>>) /\ Body(c, f \o <<Sentinel>>) = f
  BY <1>1, <1>9, DelimitedByOne
<1>12. \A r : DecodeFrame("cobs", f, r) = Some(p, r)
  BY <1>8, <1>10 DEF DecodeFrame
<1>13. Encode(c, p) = f \o <<Sentinel>>
  BY <1>1, <1>2, <1>7 DEF s
<1> QED BY <1>11, <1>12, <1>13 DEF FrameOf, c

(* What every codec with frames writes is a frame, from which it decodes   *)
(* the payload again: encode and decode of codec/slip.rs, cobs.rs and      *)
(* line.rs, for payloads of every length.                                  *)
THEOREM EncodeFrame ==
  ASSUME NEW c \in Framed \ {"slip_lead"}, NEW p \in Carried(c)
  PROVE  FrameOf(c, Encode(c, p), p)
<1>1. c = "slip" \/ c = "cobs" \/ c \in {"lf", "crlf"}
  BY DEF Framed
<1>2. CASE c = "slip"
  BY <1>2, SlipFrame
<1>3. CASE c = "cobs"
  BY <1>3, CobsFrame
<1>4. CASE c \in {"lf", "crlf"}
  BY <1>4, LineFrame
<1> QED BY <1>1, <1>2, <1>3, <1>4

(* A leading END is an empty frame in front of the frame. *)
LEMMA LeadFrame ==
  ASSUME NEW p \in Carried("slip_lead")
  PROVE  /\ FrameOf("slip_lead", Encode("slip", p), p)
         /\ Encode("slip_lead", p) = <<END>> \o Encode("slip", p)
BY SlipFrame
=============================================================================
