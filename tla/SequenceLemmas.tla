--------------------------- MODULE SequenceLemmas ---------------------------
(***************************************************************************)
(* What the proofs about data need: least numbers in place of induction,   *)
(* what FlattenSeq computes, and how equal concatenations are cut.         *)
(***************************************************************************)
EXTENDS Naturals, Sequences, SequencesExt, SequenceTheorems, WellFoundedInduction, TLAPS

(* The natural numbers are well-founded: how the provers get at the least  *)
(* element of a set of numbers.                                            *)
NatOrder == {ss \in Nat \X Nat : ss[1] < ss[2]}

LEMMA NatOrderWellFounded == IsWellFoundedOn(NatOrder, Nat)
<1>1. OpToRel(<, Nat) = NatOrder
  BY DEF OpToRel, NatOrder
<1> QED BY <1>1, NatLessThanWellFounded, Zenon

LEMMA LeastNumber ==
  ASSUME NEW T, T \subseteq Nat, T # {}
  PROVE  \E n \in T : \A m \in T : n <= m
<1>1. PICK n \in T : \A m \in T : ~(<<m, n>> \in NatOrder)
  BY NatOrderWellFounded, WFMin, Zenon
<1>2. ASSUME NEW m \in T PROVE n <= m
  <2>1. ~(<<m, n>> \in NatOrder)
    BY <1>1
  <2>2. m \in Nat /\ n \in Nat
    OBVIOUS
  <2> QED BY <2>1, <2>2 DEF NatOrder
<1> QED BY <1>2

-----------------------------------------------------------------------------
(* How FlattenSeq joins a sequence of sequences: f[i] is the first i of    *)
(* them joined.                                                            *)
JoinsUpto(f, s, n) ==
  f = [i \in 1 .. n |-> IF i = 1 THEN s[i] ELSE f[i - 1] \o s[i]]

Joins(f, s) == JoinsUpto(f, s, Len(s))

LEMMA JoinsExist ==
  ASSUME NEW s, Len(s) \in Nat
  PROVE  \E f : Joins(f, s)
<1> DEFINE Bad == {n \in 0 .. Len(s) : ~\E f : JoinsUpto(f, s, n)}
<1>1. Bad = {}
  <2> SUFFICES ASSUME Bad # {} PROVE FALSE
    OBVIOUS
  <2>1. Bad \subseteq Nat
    OBVIOUS
  <2>2. PICK n \in Bad : \A m \in Bad : n <= m
    <3> HIDE DEF Bad
    <3> QED BY <2>1, LeastNumber, Zenon
  <2>3. n \in Nat /\ n <= Len(s) /\ ~\E f : JoinsUpto(f, s, n)
    OBVIOUS
  <2>4. CASE n = 0
    <3> DEFINE e == [i \in {} |-> 0]
    <3>1. JoinsUpto(e, s, 0)
      BY DEF JoinsUpto
    <3> QED BY <2>3, <2>4, <3>1
  <2>5. CASE n # 0
    <3>1. n - 1 \in 0 .. Len(s) /\ n - 1 \notin Bad
      <4>1. n - 1 \in 0 .. Len(s) /\ ~(n <= n - 1)
        BY <2>3, <2>5
      <4> HIDE DEF Bad
      <4> QED BY <2>2, <4>1
    <3>2. PICK f : JoinsUpto(f, s, n - 1)
      BY <3>1
    <3> DEFINE g == [i \in 1 .. n |-> IF i < n THEN f[i]
                                      ELSE IF n = 1 THEN s[n] ELSE f[n - 1] \o s[n]]
    <3> HIDE DEF Bad
    <3>3. ASSUME NEW i \in 1 .. n PROVE g[i] = IF i = 1 THEN s[i] ELSE g[i - 1] \o s[i]
      <4>1. CASE i < n
        <5>1. f[i] = IF i = 1 THEN s[i] ELSE f[i - 1] \o s[i]
          <6>1. i \in 1 .. n - 1
            BY <2>3, <4>1
          <6> QED BY <3>2, <6>1 DEF JoinsUpto
        <5>2. i # 1 => i - 1 \in 1 .. n /\ i - 1 < n
          BY <2>3
        <5> QED BY <4>1, <5>1, <5>2
      <4>2. CASE i = n
        <5>1. n # 1 => n - 1 \in 1 .. n /\ n - 1 < n
          BY <2>3, <2>5
        <5>2. g[n] = IF n = 1 THEN s[n] ELSE f[n - 1] \o s[n]
          BY <2>3, <2>5
        <5> QED BY <4>2, <5>1, <5>2
      <4> QED BY <2>3, <4>1, <4>2
    <3>4. JoinsUpto(g, s, n)
      <4>1. g = [i \in 1 .. n |-> g[i]]
        OBVIOUS
      <4> HIDE DEF g
      <4> QED BY <3>3, <4>1 DEF JoinsUpto
    <3> QED BY <2>3, <3>4
  <2> QED BY <2>4, <2>5
<1>2. \E f : JoinsUpto(f, s, Len(s))
  <2>1. Len(s) \in 0 .. Len(s)
    OBVIOUS
  <2> QED BY <1>1, <2>1
<1> QED BY <1>2 DEF Joins

LEMMA FlattenIs ==
  ASSUME NEW s, Len(s) \in Nat, Len(s) # 0
  PROVE  \E f : Joins(f, s) /\ FlattenSeq(s) = f[Len(s)]
<1>1. FlattenSeq(s) = (CHOOSE f : Joins(f, s))[Len(s)]
  BY DEF FlattenSeq, Joins, JoinsUpto
<1>2. \E f : Joins(f, s)
  BY JoinsExist
<1> HIDE DEF Joins, JoinsUpto
<1> QED BY <1>1, <1>2

(* Sequences over a set give a sequence over that set. *)
LEMMA FlattenType ==
  ASSUME NEW S, NEW s \in Seq(Seq(S))
  PROVE  FlattenSeq(s) \in Seq(S)
<1> DEFINE n == Len(s)
<1>1. n \in Nat /\ \A i \in 1 .. n : s[i] \in Seq(S)
  OBVIOUS
<1>2. CASE n = 0
  BY <1>2 DEF FlattenSeq
<1>3. CASE n # 0
  <2> HIDE DEF n
  <2>1. PICK f : Joins(f, s) /\ FlattenSeq(s) = f[n]
    BY <1>1, <1>3, FlattenIs DEF n
  <2> DEFINE Bad == {i \in 1 .. n : f[i] \notin Seq(S)}
  <2>2. Bad = {}
    <3> SUFFICES ASSUME Bad # {} PROVE FALSE
      OBVIOUS
    <3>1. Bad \subseteq Nat
      OBVIOUS
    <3>2. PICK i \in Bad : \A m \in Bad : i <= m
      <4> HIDE DEF Bad
      <4> QED BY <3>1, LeastNumber, Zenon
    <3>3. i \in 1 .. n /\ f[i] \notin Seq(S)
      OBVIOUS
    <3>4. f[i] = IF i = 1 THEN s[i] ELSE f[i - 1] \o s[i]
      BY <2>1, <3>3 DEF Joins, JoinsUpto, n
    <3>5. i # 1
      BY <1>1, <3>3, <3>4
    <3>6. f[i - 1] \in Seq(S)
      <4>1. i - 1 \in 1 .. n /\ ~(i <= i - 1)
        BY <1>1, <3>3, <3>5
      <4> QED BY <3>2, <4>1
    <3>7. s[i] \in Seq(S)
      BY <1>1, <3>3
    <3> QED BY <3>3, <3>4, <3>5, <3>6, <3>7
  <2>3. n \in 1 .. n
    BY <1>1, <1>3
  <2> QED BY <2>1, <2>2, <2>3
<1> QED BY <1>2, <1>3

(* What one more sequence adds. *)
LEMMA FlattenAppend ==
  ASSUME NEW S, NEW s \in Seq(Seq(S)), NEW e \in Seq(S)
  PROVE  FlattenSeq(Append(s, e)) = FlattenSeq(s) \o e
<1> DEFINE t == Append(s, e)
           n == Len(s)
<1>1. /\ n \in Nat /\ Len(t) = n + 1 /\ t[n + 1] = e
      /\ \A i \in 1 .. n : t[i] = s[i]
  OBVIOUS
<1> HIDE DEF t
<1>2. PICK g : Joins(g, t) /\ FlattenSeq(t) = g[n + 1]
  BY <1>1, FlattenIs
<1>3. CASE n = 0
  <2>1. s = <<>>
    BY <1>3
  <2>2. FlattenSeq(s) = <<>>
    BY <2>1 DEF FlattenSeq
  <2>3. g[n + 1] = e
    BY <1>1, <1>2, <1>3 DEF Joins, JoinsUpto
  <2> QED BY <1>2, <2>2, <2>3 DEF t
<1>4. CASE n # 0
  <2>1. PICK f : Joins(f, s) /\ FlattenSeq(s) = f[n]
    BY <1>1, <1>4, FlattenIs
  <2> DEFINE Bad == {i \in 1 .. n : f[i] # g[i]}
  <2>2. Bad = {}
    <3> SUFFICES ASSUME Bad # {} PROVE FALSE
      OBVIOUS
    <3>1. Bad \subseteq Nat
      OBVIOUS
    <3>2. PICK i \in Bad : \A m \in Bad : i <= m
      <4> HIDE DEF Bad
      <4> QED BY <3>1, LeastNumber, Zenon
    <3>3. i \in 1 .. n /\ i \in 1 .. n + 1 /\ f[i] # g[i]
      BY <1>1
    <3>4. /\ f[i] = IF i = 1 THEN s[i] ELSE f[i - 1] \o s[i]
          /\ g[i] = IF i = 1 THEN t[i] ELSE g[i - 1] \o t[i]
      BY <1>1, <1>2, <2>1, <3>3 DEF Joins, JoinsUpto
    <3>5. i # 1
      BY <1>1, <3>3, <3>4
    <3>6. f[i - 1] = g[i - 1]
      <4>1. i - 1 \in 1 .. n /\ ~(i <= i - 1)
        BY <1>1, <3>3, <3>5
      <4> QED BY <3>2, <4>1
    <3> QED BY <1>1, <3>3, <3>4, <3>5, <3>6
  <2>3. f[n] = g[n]
    <3>1. n \in 1 .. n
      BY <1>1, <1>4
    <3> QED BY <2>2, <3>1
  <2>4. g[n + 1] = g[n] \o t[n + 1]
    <3>1. PICK k : k = n + 1
      OBVIOUS
    <3>2. k \in 1 .. Len(t) /\ k # 1 /\ k - 1 = n
      BY <1>1, <1>4, <3>1
    <3> HIDE DEF n, Bad
    <3>3. g[k] = g[k - 1] \o t[k]
      BY <1>2, <3>2 DEF Joins, JoinsUpto
    <3> QED BY <3>1, <3>2, <3>3
  <2> QED BY <1>1, <1>2, <2>1, <2>3, <2>4 DEF t
<1> QED BY <1>3, <1>4

(* Regrouping: an operator of its own, since the provers should not try it *)
(* on every concatenation they see.                                        *)
Grouped(a, b, c) == (a \o b) \o c = a \o (b \o c)

LEMMA Regroup ==
  ASSUME NEW S, NEW a \in Seq(S), NEW b \in Seq(S), NEW c \in Seq(S)
  PROVE  Grouped(a, b, c)
BY ConcatAssociative DEF Grouped

Appended(s, t, e) == s \o Append(t, e) = Append(s \o t, e)

LEMMA ConcatAppend ==
  ASSUME NEW S, NEW s \in Seq(S), NEW t \in Seq(S), NEW e \in S
  PROVE  Appended(s, t, e)
<1>1. <<e>> \in Seq(S) /\ s \o t \in Seq(S)
  OBVIOUS
<1>2. Append(t, e) = t \o <<e>> /\ Append(s \o t, e) = (s \o t) \o <<e>>
  BY <1>1, AppendIsConcat
<1>3. Grouped(s, t, <<e>>)
  BY <1>1, Regroup, Zenon
<1> QED BY <1>2, <1>3 DEF Grouped, Appended

LEMMA CancelLeft ==
  ASSUME NEW S, NEW s \in Seq(S), NEW t \in Seq(S), NEW u \in Seq(S), s \o t = s \o u
  PROVE  t = u
<1>1. Len(t) = Len(u)
  <2>1. Len(s \o t) = Len(s) + Len(t) /\ Len(s \o u) = Len(s) + Len(u)
    OBVIOUS
  <2> QED BY <2>1
<1>2. ASSUME NEW i \in 1 .. Len(t) PROVE t[i] = u[i]
  <2>1. (s \o t)[i + Len(s)] = t[i] /\ (s \o u)[i + Len(s)] = u[i]
    BY <1>1
  <2> QED BY <2>1
<1> QED BY <1>1, <1>2, SeqEqual

(* What the last sequences add to those before. *)
LEMMA FlattenConcat ==
  ASSUME NEW S, NEW s \in Seq(Seq(S)), NEW t \in Seq(Seq(S))
  PROVE  FlattenSeq(s \o t) = FlattenSeq(s) \o FlattenSeq(t)
<1> DEFINE Upto(n) == SubSeq(t, 1, n)
           Bad == {n \in 0 .. Len(t) : FlattenSeq(s \o Upto(n)) # FlattenSeq(s) \o FlattenSeq(Upto(n))}
<1>1. Bad = {}
  <2> SUFFICES ASSUME Bad # {} PROVE FALSE
    OBVIOUS
  <2>1. Bad \subseteq Nat
    OBVIOUS
  <2>2. PICK n \in Bad : \A m \in Bad : n <= m
    <3> HIDE DEF Bad
    <3> QED BY <2>1, LeastNumber, Zenon
  <2>3. /\ n \in Nat /\ n <= Len(t)
        /\ FlattenSeq(s \o Upto(n)) # FlattenSeq(s) \o FlattenSeq(Upto(n))
    OBVIOUS
  <2>4. CASE n = 0
    <3>1. Upto(n) = <<>>
      BY <2>4
    <3>2. FlattenSeq(Upto(n)) = <<>> /\ s \o Upto(n) = s
      BY <3>1, ConcatEmptySeq DEF FlattenSeq
    <3>3. FlattenSeq(s) \o <<>> = FlattenSeq(s)
      BY FlattenType, ConcatEmptySeq
    <3> QED BY <2>3, <3>2, <3>3
  <2>5. CASE n # 0
    <3>1. n - 1 \in 0 .. Len(t) /\ ~(n <= n - 1)
      BY <2>3, <2>5
    <3>2. FlattenSeq(s \o Upto(n - 1)) = FlattenSeq(s) \o FlattenSeq(Upto(n - 1))
      BY <2>2, <3>1
    <3>3. n \in 1 .. Len(t) /\ t[n] \in Seq(S)
      BY <2>3, <2>5
    <3>4. Upto(n - 1) \in Seq(Seq(S))
      BY <3>1
    <3>5. Upto(n) = Append(Upto(n - 1), t[n])
      BY <3>3
    <3> HIDE DEF Upto, Bad
    <3>6. s \o Upto(n) = Append(s \o Upto(n - 1), t[n])
      <4>1. Appended(s, Upto(n - 1), t[n])
        BY <3>3, <3>4, ConcatAppend, Zenon
      <4> QED BY <3>5, <4>1 DEF Appended
    <3>7. s \o Upto(n - 1) \in Seq(Seq(S))
      BY <3>4, ConcatProperties
    <3>8. FlattenSeq(s \o Upto(n)) = FlattenSeq(s \o Upto(n - 1)) \o t[n]
      BY <3>3, <3>6, <3>7, FlattenAppend
    <3>9. FlattenSeq(Upto(n)) = FlattenSeq(Upto(n - 1)) \o t[n]
      BY <3>3, <3>4, <3>5, FlattenAppend
    <3>10. FlattenSeq(s) \in Seq(S) /\ FlattenSeq(Upto(n - 1)) \in Seq(S)
      BY <3>4, FlattenType
    <3>11. Grouped(FlattenSeq(s), FlattenSeq(Upto(n - 1)), t[n])
      BY <3>3, <3>10, Regroup, Zenon
    <3> QED BY <2>3, <3>2, <3>8, <3>9, <3>11 DEF Grouped
  <2> QED BY <2>4, <2>5
<1>2. Len(t) \in 0 .. Len(t) /\ Upto(Len(t)) = t
  BY SubSeqFull
<1>3. FlattenSeq(s \o Upto(Len(t))) = FlattenSeq(s) \o FlattenSeq(Upto(Len(t)))
  BY <1>1, <1>2
<1> QED BY <1>2, <1>3

LEMMA FlattenOne ==
  ASSUME NEW S, NEW e \in Seq(S)
  PROVE  FlattenSeq(<<e>>) = e
<1>1. <<e>> = Append(<<>>, e) /\ <<>> \in Seq(Seq(S))
  OBVIOUS
<1>2. FlattenSeq(<<>>) = <<>>
  BY DEF FlattenSeq
<1>3. FlattenSeq(Append(<<>>, e)) = <<>> \o e
  BY <1>1, <1>2, FlattenAppend
<1> QED BY <1>1, <1>3, ConcatEmptySeq

(* The first sequence comes first. *)
LEMMA FlattenFirst ==
  ASSUME NEW S, NEW s \in Seq(Seq(S)), s # <<>>
  PROVE  FlattenSeq(s) = s[1] \o FlattenSeq(Tail(s))
<1>1. s[1] \in Seq(S) /\ Tail(s) \in Seq(Seq(S)) /\ <<s[1]>> \in Seq(Seq(S))
  OBVIOUS
<1>2. s = <<s[1]>> \o Tail(s)
  OBVIOUS
<1>3. FlattenSeq(<<s[1]>> \o Tail(s)) = FlattenSeq(<<s[1]>>) \o FlattenSeq(Tail(s))
  BY <1>1, FlattenConcat
<1> QED BY <1>1, <1>2, <1>3, FlattenOne
-----------------------------------------------------------------------------
(* Two ways to cut one sequence: what is before the first cut of one is    *)
(* either wholly before that of the other, or reaches into what follows.   *)
SameWhole(x, y, s, t) == x \o y = s \o t
Remains(x, y, s, t, r) == x = s \o r /\ r \o y = t /\ Len(r) = Len(x) - Len(s)

LEMMA CutBehind ==
  ASSUME NEW S, NEW x \in Seq(S), NEW y \in Seq(S), NEW s \in Seq(S), NEW t \in Seq(S),
         SameWhole(x, y, s, t), Len(s) <= Len(x)
  PROVE  \E r \in Seq(S) : Remains(x, y, s, t, r)
<1> DEFINE r == SubSeq(x, Len(s) + 1, Len(x))
<1>1. /\ r \in Seq(S) /\ Len(r) = Len(x) - Len(s)
      /\ \A i \in 1 .. Len(r) : r[i] = x[i + Len(s)]
  OBVIOUS
<1> USE DEF SameWhole
<1>2. \A i \in 1 .. Len(s) : x[i] = s[i]
  <2> TAKE i \in 1 .. Len(s)
  <2>1. (x \o y)[i] = x[i] /\ (s \o t)[i] = s[i]
    OBVIOUS
  <2> QED BY <2>1
<1> HIDE DEF r
<1>3. x = s \o r
  <2>1. Len(s \o r) = Len(x) /\ s \o r \in Seq(S)
    BY <1>1
  <2>2. ASSUME NEW i \in 1 .. Len(x) PROVE x[i] = (s \o r)[i]
    <3>1. CASE i <= Len(s)
      BY <1>1, <1>2, <3>1
    <3>2. CASE ~(i <= Len(s))
      <4>1. i - Len(s) \in 1 .. Len(r) /\ (s \o r)[i] = r[i - Len(s)]
        BY <1>1, <3>2
      <4>2. r[i - Len(s)] = x[i - Len(s) + Len(s)] /\ i - Len(s) + Len(s) = i
        <5>1. PICK k \in 1 .. Len(r) : k = i - Len(s)
          BY <4>1
        <5>2. r[k] = x[k + Len(s)]
          BY <1>1
        <5> QED BY <5>1, <5>2
      <4> QED BY <4>1, <4>2
    <3> QED BY <3>1, <3>2
  <2> QED BY <2>1, <2>2, SeqEqual
<1>4. r \o y = t
  <2>1. s \o (r \o y) = s \o t
    <3>1. Grouped(s, r, y)
      BY <1>1, Regroup, Zenon
    <3> QED BY <1>3, <3>1 DEF Grouped
  <2>2. r \o y \in Seq(S)
    BY <1>1
  <2> QED BY <2>1, <2>2, CancelLeft, Zenon
<1>5. Remains(x, y, s, t, r)
  BY <1>1, <1>3, <1>4 DEF Remains
<1> QED BY <1>1, <1>5

LEMMA CutBefore ==
  ASSUME NEW S, NEW x \in Seq(S), NEW y \in Seq(S), NEW s \in Seq(S), NEW t \in Seq(S),
         SameWhole(x, y, s, t), ~(Len(s) <= Len(x))
  PROVE  x = SubSeq(s, 1, Len(x)) /\ Len(x) < Len(s)
<1>1. Len(x) < Len(s)
  OBVIOUS
<1>2. \A i \in 1 .. Len(x) : x[i] = s[i]
  <2> USE DEF SameWhole
  <2> TAKE i \in 1 .. Len(x)
  <2>1. (x \o y)[i] = x[i] /\ (s \o t)[i] = s[i]
    BY <1>1
  <2> QED BY <2>1
<1>3. SubSeq(s, 1, Len(x)) \in Seq(S) /\ Len(SubSeq(s, 1, Len(x))) = Len(x)
  BY <1>1
<1>4. \A i \in 1 .. Len(x) : SubSeq(s, 1, Len(x))[i] = s[i]
  BY <1>1
<1> QED BY <1>1, <1>2, <1>3, <1>4, SeqEqual

LEMMA ConsParts ==
  ASSUME NEW S, NEW e \in S, NEW w \in Seq(S)
  PROVE  /\ <<e>> \o w \in Seq(S) /\ Len(<<e>> \o w) = Len(w) + 1 /\ <<e>> \o w # <<>>
         /\ (<<e>> \o w)[1] = e /\ Tail(<<e>> \o w) = w
<1> DEFINE v == <<e>> \o w
<1>1. /\ v \in Seq(S) /\ Len(v) = Len(w) + 1 /\ v # <<>> /\ v[1] = e
      /\ Len(w) \in Nat /\ \A i \in 1 .. Len(w) : v[i + 1] = w[i]
  OBVIOUS
<1> HIDE DEF v
<1>2. Tail(v) \in Seq(S) /\ Len(Tail(v)) = Len(w) /\ \A i \in 1 .. Len(w) : Tail(v)[i] = v[i + 1]
  BY <1>1
<1>3. Tail(v) = w
  BY <1>1, <1>2, SeqEqual
<1> QED BY <1>1, <1>3 DEF v

LEMMA HeadOfConcat ==
  ASSUME NEW S, NEW x \in Seq(S), NEW y \in Seq(S), x # <<>>
  PROVE  (x \o y)[1] = x[1] /\ Tail(x \o y) = Tail(x) \o y /\ x \o y # <<>>
<1> DEFINE v == x \o y
           w == Tail(x) \o y
<1>1. Len(x) \in Nat /\ Len(x) >= 1 /\ Len(y) \in Nat
  OBVIOUS
<1>2. /\ Tail(x) \in Seq(S) /\ Len(Tail(x)) = Len(x) - 1
      /\ \A i \in 1 .. Len(x) - 1 : Tail(x)[i] = x[i + 1]
  OBVIOUS
<1>3. /\ v \in Seq(S) /\ Len(v) = Len(x) + Len(y)
      /\ \A i \in 1 .. Len(x) + Len(y) : v[i] = IF i <= Len(x) THEN x[i] ELSE y[i - Len(x)]
  BY ConcatProperties
<1>4. /\ w \in Seq(S) /\ Len(w) = Len(x) - 1 + Len(y)
      /\ \A i \in 1 .. Len(w) : w[i] = IF i <= Len(x) - 1 THEN Tail(x)[i] ELSE y[i - (Len(x) - 1)]
  BY <1>2, ConcatProperties
<1> HIDE DEF v, w
<1>5. v # <<>> /\ v[1] = x[1]
  BY <1>1, <1>3
<1>6. Tail(v) \in Seq(S) /\ Len(Tail(v)) = Len(w) /\ \A i \in 1 .. Len(w) : Tail(v)[i] = v[i + 1]
  BY <1>1, <1>3, <1>4, <1>5
<1>7. ASSUME NEW i \in 1 .. Len(w) PROVE Tail(v)[i] = w[i]
  <2>1. PICK k : k = i + 1 /\ k \in 1 .. Len(x) + Len(y)
    BY <1>1, <1>4
  <2>2. v[k] = IF k <= Len(x) THEN x[k] ELSE y[k - Len(x)]
    BY <1>3, <2>1
  <2>3. CASE i <= Len(x) - 1
    <3>1. k <= Len(x) /\ Tail(x)[i] = x[k]
      BY <1>1, <1>2, <2>1, <2>3
    <3> QED BY <1>4, <1>6, <2>1, <2>2, <2>3, <3>1
  <2>4. CASE ~(i <= Len(x) - 1)
    <3>1. ~(k <= Len(x)) /\ k - Len(x) = i - (Len(x) - 1)
      BY <1>1, <1>4, <2>1, <2>4
    <3> QED BY <1>4, <1>6, <2>1, <2>2, <2>4, <3>1
  <2> QED BY <2>3, <2>4
<1> QED BY <1>4, <1>5, <1>6, <1>7, SeqEqual DEF v, w

LEMMA EmptyParts ==
  ASSUME NEW S, NEW x \in Seq(S), NEW y \in Seq(S), x \o y = <<>>
  PROVE  x = <<>> /\ y = <<>>
<1>1. Len(x) + Len(y) = 0
  OBVIOUS
<1>2. Len(x) = 0 /\ Len(y) = 0
  BY <1>1
<1> QED BY <1>2
=============================================================================
