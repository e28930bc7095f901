---------------------------- MODULE StreamProofs ----------------------------
(***************************************************************************)
(* Proofs about the redaction of a streamed answer, for every set of       *)
(* blocks, values and texts.  They rest on two facts: the redaction of a   *)
(* text cut after a space is the redaction of its parts (RedactConcat),    *)
(* and what a step writes adds its texts to what the client has            *)
(* (TextConcat).                                                           *)
(***************************************************************************)
EXTENDS Stream, SequenceTheorems, WellFoundedInduction, TLAPS

-----------------------------------------------------------------------------
(* Induction.  The library's theorems for it take an operator; here a set of   *)
(* numbers takes its place.                                                    *)

LEMMA LeastNumber ==
    ASSUME NEW T, T \subseteq Nat, T # {}
    PROVE  \E m \in T : \A k \in T : m <= k
<1> DEFINE R == OpToRel(<, Nat)
<1>1. \A k \in Nat : \A j \in Nat : k < j => <<k, j>> \in R
  BY DEF OpToRel
<1> HIDE DEF R
<1>2. IsWellFoundedOn(R, Nat)
  BY NatLessThanWellFounded DEF R
<1>3. PICK m \in T : \A k \in T : <<k, m>> \notin R
  BY <1>2, WFMin
<1>4. ASSUME NEW k \in T PROVE m <= k
  <2>1. m \in Nat /\ k \in Nat
    OBVIOUS
  <2>2. ~(k < m)
    BY <1>1, <1>3, <2>1
  <2> QED
    BY <2>1, <2>2
<1> QED
  BY <1>4

LEMMA Induction ==
    ASSUME NEW T, 0 \in T, \A n \in Nat : n \in T => n + 1 \in T
    PROVE  Nat \subseteq T
<1> SUFFICES ASSUME Nat \ T # {} PROVE FALSE
  OBVIOUS
<1>1. PICK m \in Nat \ T : \A k \in Nat \ T : m <= k
  BY LeastNumber
<1>2. m # 0 /\ m - 1 \in Nat /\ m - 1 \in T
  BY <1>1
<1> QED
  BY <1>1, <1>2

-----------------------------------------------------------------------------
(* FlattenSeq is what its recursive definition says *)

\* g follows the recursion for the first n sequences.
FlattensTo(seqs, g, n) ==
    /\ n >= 1 => g[1] = seqs[1]
    /\ \A i \in 2..n : g[i] = g[i - 1] \o seqs[i]

LEMMA FlattensExist ==
    ASSUME NEW seqs
    PROVE  \A n \in Nat : \E g : FlattensTo(seqs, g, n)
<1> DEFINE T == {n \in Nat : \E g : FlattensTo(seqs, g, n)}
<1>1. 0 \in T
  <2>1. FlattensTo(seqs, <<>>, 0)
    BY DEF FlattensTo
  <2> QED
    BY <2>1
<1>2. ASSUME NEW n \in Nat, n \in T PROVE n + 1 \in T
  <2>1. PICK g : FlattensTo(seqs, g, n)
    BY <1>2
  <2> DEFINE h == [i \in 1..(n + 1) |->
                     IF i = 1 THEN seqs[1] ELSE IF i = n + 1 THEN g[n] \o seqs[i] ELSE g[i]]
  <2>2. FlattensTo(seqs, h, n + 1)
    <3>1. /\ h[1] = seqs[1]
          /\ n # 0 => h[n + 1] = g[n] \o seqs[n + 1]
          /\ \A i \in 2..n : h[i] = g[i]
      <4>1. 1 \in 1..(n + 1) /\ n + 1 \in 1..(n + 1) /\ (n # 0 => n + 1 # 1)
        OBVIOUS
      <4>2. \A i \in 2..n : i \in 1..(n + 1) /\ i # 1 /\ i # n + 1
        OBVIOUS
      <4> QED
        BY <4>1, <4>2
    <3>2. n >= 1 => h[1] = g[1]
      BY <2>1, <3>1 DEF FlattensTo
    <3> HIDE DEF h
    <3>3. ASSUME NEW i \in 2..(n + 1) PROVE h[i] = h[i - 1] \o seqs[i]
      <4>1. n >= 1 /\ i - 1 \in 1..n /\ (i - 1 = 1 \/ i - 1 \in 2..n)
        OBVIOUS
      <4>2. h[i - 1] = g[i - 1]
        BY <3>1, <3>2, <4>1
      <4>3. CASE i = n + 1
        <5>1. i - 1 = n /\ n # 0
          BY <4>1, <4>3
        <5>2. h[n] = g[n]
          BY <4>2, <5>1
        <5>3. h[n + 1] = g[n] \o seqs[n + 1]
          BY <3>1, <5>1
        <5> QED
          BY <4>3, <5>1, <5>2, <5>3
      <4>4. CASE i # n + 1
        <5>1. i \in 2..n
          BY <4>4
        <5>2. g[i] = g[i - 1] \o seqs[i]
          BY <2>1, <5>1 DEF FlattensTo
        <5>3. h[i] = g[i]
          BY <3>1, <5>1
        <5> QED
          BY <4>2, <5>2, <5>3
      <4> QED
        BY <4>3, <4>4
    <3> QED
      BY <3>1, <3>3 DEF FlattensTo
  <2> QED
    BY <2>2
<1> HIDE DEF T
<1>3. Nat \subseteq T
  BY <1>1, <1>2, Induction
<1> QED
  BY <1>3 DEF T

LEMMA FlattensAgree ==
    ASSUME NEW s, NEW t, NEW g, NEW h, NEW m \in Nat \ {0}, NEW n \in Nat, m <= n,
           FlattensTo(s, g, m), FlattensTo(t, h, n), \A i \in 1..m : s[i] = t[i]
    PROVE  g[m] = h[m]
<1> DEFINE T == {k \in Nat : k + 1 <= m => g[k + 1] = h[k + 1]}
<1>1. 0 \in T
  BY DEF FlattensTo
<1>2. ASSUME NEW k \in Nat, k \in T PROVE k + 1 \in T
  <2> SUFFICES ASSUME (k + 1) + 1 <= m PROVE g[(k + 1) + 1] = h[(k + 1) + 1]
    OBVIOUS
  <2>1. (k + 1) + 1 \in 2..m /\ (k + 1) + 1 \in 2..n /\ ((k + 1) + 1) - 1 = k + 1 /\ k + 1 <= m
    OBVIOUS
  <2>2. g[k + 1] = h[k + 1] /\ s[(k + 1) + 1] = t[(k + 1) + 1]
    BY <1>2, <2>1
  <2> QED
    BY <2>1, <2>2 DEF FlattensTo
<1> HIDE DEF T
<1>3. Nat \subseteq T
  BY <1>1, <1>2, Induction
<1>4. m - 1 \in Nat /\ (m - 1) + 1 = m
  OBVIOUS
<1>5. m - 1 \in T
  BY <1>3, <1>4
<1> QED
  BY <1>4, <1>5 DEF T

LEMMA FlattenIs ==
    ASSUME NEW seqs, NEW n \in Nat \ {0}, Len(seqs) = n
    PROVE  \E g : FlattensTo(seqs, g, n) /\ FlattenSeq(seqs) = g[n]
<1> DEFINE G(k) == CHOOSE g : FlattensTo(seqs, g, k)
           F == [k \in 1..n |-> G(k)[k]]
<1>1. \A k \in Nat : FlattensTo(seqs, G(k), k)
  BY FlattensExist
<1> HIDE DEF G
<1>0. \A k \in 1..n : F[k] = G(k)[k]
  OBVIOUS
<1>d. DOMAIN F = 1..n /\ F = [k \in 1..n |-> F[k]]
  OBVIOUS
<1> HIDE DEF F
<1>2. F[1] = seqs[1]
  <2>1. 1 \in 1..n /\ 1 \in Nat /\ 1 >= 1
    OBVIOUS
  <2>2. FlattensTo(seqs, G(1), 1)
    BY <1>1, <2>1
  <2>3. G(1)[1] = seqs[1]
    BY <2>1, <2>2 DEF FlattensTo
  <2> QED
    BY <1>0, <2>1, <2>3
<1>3. ASSUME NEW k \in 2..n PROVE F[k] = F[k - 1] \o seqs[k]
  <2>1. /\ k - 1 \in Nat \ {0} /\ k \in Nat /\ k - 1 <= k /\ k \in 1..n /\ k - 1 \in 1..n
        /\ k \in 2..k
    OBVIOUS
  <2>0. FlattensTo(seqs, G(k), k) /\ FlattensTo(seqs, G(k - 1), k - 1)
    BY <1>1, <2>1
  <2>2. G(k - 1)[k - 1] = G(k)[k - 1]
    <3> DEFINE g == G(k - 1)
               h == G(k)
               m == k - 1
    <3>1. FlattensTo(seqs, g, m) /\ FlattensTo(seqs, h, k)
      BY <2>0
    <3> HIDE DEF g, h
    <3>2. g[m] = h[m]
      BY <2>1, <3>1, FlattensAgree
    <3> QED
      BY <3>2 DEF g, h
  <2>3. G(k)[k] = G(k)[k - 1] \o seqs[k]
    BY <2>0, <2>1 DEF FlattensTo
  <2>4. F[k] = G(k)[k] /\ F[k - 1] = G(k - 1)[k - 1]
    BY <1>0, <2>1
  <2> QED
    BY <2>2, <2>3, <2>4
<1>4. F = [k \in 1..n |-> IF k = 1 THEN seqs[k] ELSE F[k - 1] \o seqs[k]]
  <2>1. ASSUME NEW k \in 1..n PROVE F[k] = IF k = 1 THEN seqs[k] ELSE F[k - 1] \o seqs[k]
    <3>1. k # 1 => k \in 2..n
      OBVIOUS
    <3> QED
      BY <1>2, <1>3, <3>1
  <2> QED
    BY <1>d, <2>1
<1>5. PICK f : f = CHOOSE e : e = [k \in 1..n |-> IF k = 1 THEN seqs[k] ELSE e[k - 1] \o seqs[k]]
  OBVIOUS
<1>6. f = [k \in 1..n |-> IF k = 1 THEN seqs[k] ELSE f[k - 1] \o seqs[k]]
  BY <1>4, <1>5
<1>7. FlattenSeq(seqs) = f[n]
  BY <1>5 DEF FlattenSeq
<1>8. FlattensTo(seqs, f, n)
  <2>1. \A k \in 1..n : f[k] = IF k = 1 THEN seqs[k] ELSE f[k - 1] \o seqs[k]
    BY <1>6
  <2>2. 1 \in 1..n /\ \A k \in 2..n : k \in 1..n /\ k # 1
    OBVIOUS
  <2> QED
    BY <2>1, <2>2 DEF FlattensTo
<1> QED
  BY <1>7, <1>8


LEMMA SequenceInduction ==
    ASSUME NEW X, NEW T, <<>> \in T,
           \A s \in Seq(X) : \A x \in X : s \in T => Append(s, x) \in T
    PROVE  Seq(X) \subseteq T
<1> DEFINE N == {n \in Nat : \A s \in Seq(X) : Len(s) = n => s \in T}
<1>1. 0 \in N
  OBVIOUS
<1>2. ASSUME NEW n \in Nat, n \in N PROVE n + 1 \in N
  <2> SUFFICES ASSUME NEW s \in Seq(X), Len(s) = n + 1 PROVE s \in T
    OBVIOUS
  <2>1. s # <<>>
    BY EmptySeq
  <2>2. PICK t \in Seq(X), x \in X : s = Append(t, x)
    BY <2>1, SequenceEmptyOrAppend
  <2>3. Len(t) \in Nat /\ Len(s) = Len(t) + 1
    BY <2>2, AppendProperties, LenProperties
  <2>4. t \in T
    BY <1>2, <2>3
  <2> QED
    BY <2>2, <2>4
<1> HIDE DEF N
<1>3. Nat \subseteq N
  BY <1>1, <1>2, Induction
<1>4. \A s \in Seq(X) : Len(s) \in N
  BY <1>3
<1> QED
  BY <1>4 DEF N

LEMMA FlattenEmpty == FlattenSeq(<<>>) = <<>>
BY DEF FlattenSeq

LEMMA FlattenOne == ASSUME NEW x PROVE FlattenSeq(<<x>>) = x
<1>0. Len(<<x>>) = 1 /\ <<x>>[1] = x /\ 1 \in Nat \ {0}
  OBVIOUS
<1>1. PICK g : FlattensTo(<<x>>, g, 1) /\ FlattenSeq(<<x>>) = g[1]
  BY <1>0, FlattenIs
<1> QED
  BY <1>0, <1>1 DEF FlattensTo

LEMMA FlattenAppend ==
    ASSUME NEW X, NEW s \in Seq(Seq(X)), NEW x \in Seq(X)
    PROVE  FlattenSeq(Append(s, x)) = FlattenSeq(s) \o x
<1>1. CASE s = <<>>
  <2>1. Append(s, x) = <<x>> /\ <<>> \o x = x
    BY <1>1, ConcatEmptySeq
  <2> QED
    BY <1>1, <2>1, FlattenOne, FlattenEmpty
<1>2. CASE s # <<>>
  <2>1. PICK n \in Nat \ {0} : n = Len(s)
    BY <1>2, EmptySeq
  <2> DEFINE t == Append(s, x)
  <2>2. Len(t) = n + 1 /\ t[n + 1] = x /\ \A i \in 1..n : t[i] = s[i]
    BY <2>1, AppendProperties
  <2> HIDE DEF t
  <2>3. n + 1 \in Nat \ {0} /\ n <= n + 1 /\ n + 1 \in 2..(n + 1) /\ (n + 1) - 1 = n
    OBVIOUS
  <2>4. PICK g : FlattensTo(s, g, n) /\ FlattenSeq(s) = g[n]
    BY <2>1, FlattenIs
  <2>5. PICK h : FlattensTo(t, h, n + 1) /\ FlattenSeq(t) = h[n + 1]
    BY <2>2, <2>3, FlattenIs
  <2>6. \A i \in 1..n : s[i] = t[i]
    BY <2>2
  <2>7. g[n] = h[n]
    BY <2>3, <2>4, <2>5, <2>6, FlattensAgree
  <2>8. h[n + 1] = h[n] \o t[n + 1]
    BY <2>3, <2>5 DEF FlattensTo
  <2>9. FlattenSeq(t) = FlattenSeq(s) \o x
    BY <2>2, <2>4, <2>5, <2>7, <2>8
  <2> QED
    BY <2>9 DEF t
<1> QED
  BY <1>1, <1>2

LEMMA FlattenType ==
    ASSUME NEW X, NEW s \in Seq(Seq(X))
    PROVE  FlattenSeq(s) \in Seq(X)
<1> DEFINE T == {t \in Seq(Seq(X)) : FlattenSeq(t) \in Seq(X)}
<1>1. <<>> \in T
  BY FlattenEmpty, EmptySeq
<1>2. ASSUME NEW t \in Seq(Seq(X)), NEW x \in Seq(X), t \in T PROVE Append(t, x) \in T
  <2>1. Append(t, x) \in Seq(Seq(X))
    BY AppendProperties
  <2>2. FlattenSeq(t) \o x \in Seq(X)
    BY <1>2, ConcatProperties
  <2> QED
    BY <2>1, <2>2, FlattenAppend
<1> HIDE DEF T
<1>3. Seq(Seq(X)) \subseteq T
  BY <1>1, <1>2, SequenceInduction
<1> QED
  BY <1>3 DEF T

LEMMA FlattenConcat ==
    ASSUME NEW X, NEW s \in Seq(Seq(X)), NEW t \in Seq(Seq(X))
    PROVE  FlattenSeq(s \o t) = FlattenSeq(s) \o FlattenSeq(t)
<1> DEFINE T == {u \in Seq(Seq(X)) : FlattenSeq(s \o u) = FlattenSeq(s) \o FlattenSeq(u)}
<1>1. <<>> \in T
  BY FlattenEmpty, FlattenType, ConcatEmptySeq, EmptySeq
<1>2. ASSUME NEW u \in Seq(Seq(X)), NEW x \in Seq(X), u \in T PROVE Append(u, x) \in T
  <2>1. /\ Append(u, x) \in Seq(Seq(X)) /\ Append(u, x) = u \o <<x>>
        /\ <<x>> \in Seq(Seq(X)) /\ s \o u \in Seq(Seq(X))
        /\ Append(s \o u, x) = (s \o u) \o <<x>>
    BY AppendProperties, AppendIsConcat, ConcatProperties
  <2>2. s \o Append(u, x) = Append(s \o u, x)
    BY <2>1, ConcatAssociative
  <2>3. FlattenSeq(Append(s \o u, x)) = (FlattenSeq(s) \o FlattenSeq(u)) \o x
    BY <1>2, <2>1, FlattenAppend
  <2>4. @ = FlattenSeq(s) \o (FlattenSeq(u) \o x)
    BY FlattenType, ConcatAssociative, SMTT(30)
  <2>5. @ = FlattenSeq(s) \o FlattenSeq(Append(u, x))
    BY FlattenAppend
  <2> QED
    BY <2>1, <2>2, <2>3, <2>4, <2>5
<1> HIDE DEF T
<1>3. Seq(Seq(X)) \subseteq T
  BY <1>1, <1>2, SequenceInduction
<1> QED
  BY <1>3 DEF T

-----------------------------------------------------------------------------
(* The redaction of a text, character by character *)

\* The character at i is the k-th of a complete value v.
InValue(text, i, v, k) == i >= k /\ text[i] = <<v, k>> /\ Stands(text, v, i + 1 - k)

BecomesAs(r, v) ==
    CASE v \in Values /\ ~r -> <<Token(v)>>
      [] v \in Echoes /\ r  -> <<Original(v)>>
      [] OTHER              -> Whole(v)

CharAt(r, text, i) ==
    IF \E v \in Marked : InValue(text, i, v, 1) THEN BecomesAs(r, text[i][1])
    ELSE IF \E v \in Marked : \E k \in 2..Width[v] : InValue(text, i, v, k) THEN <<>>
    ELSE <<text[i]>>

\* Redact, with the answer's mode as a parameter.
RedactAs(r, text) == FlattenSeq([i \in 1..Len(text) |-> CharAt(r, text, i)])

LEMMA RedactIs == \A text : Redact(text) = RedactAs(reveal, text)
BY DEF Redact, RedactAs, CharAt, InValue, BecomesAs, Becomes

\* What the client may be given in place of a character.
Outputs == Characters \cup {Token(v) : v \in Values} \cup {Original(v) : v \in Echoes}

LEMMA BecomesType == ASSUME NEW r \in BOOLEAN, NEW v \in Marked PROVE BecomesAs(r, v) \in Seq(Outputs)
<1>1. Whole(v) \in Seq(Outputs)
  <2>1. Width[v] \in Nat
    BY StreamAssumption
  <2>2. ASSUME NEW k \in 1..Width[v] PROVE <<v, k>> \in Outputs
    <3>1. k \in Nat
      BY <2>1
    <3>2. <<v, k>> \in Characters
      BY <3>1 DEF Characters
    <3> QED
      BY <3>2 DEF Outputs
  <2> QED
    BY <2>1, <2>2 DEF Whole
<1>2. v \in Values => <<Token(v)>> \in Seq(Outputs)
  BY DEF Outputs
<1>3. v \in Echoes => <<Original(v)>> \in Seq(Outputs)
  BY DEF Outputs
<1> QED
  BY <1>1, <1>2, <1>3 DEF BecomesAs

LEMMA CharType ==
    ASSUME NEW r \in BOOLEAN, NEW text \in Seq(Characters), NEW i \in 1..Len(text)
    PROVE  CharAt(r, text, i) \in Seq(Outputs)
<1>1. text[i] \in Outputs
  BY ElementOfSeq DEF Outputs
<1>2. <<>> \in Seq(Outputs) /\ <<text[i]>> \in Seq(Outputs)
  BY <1>1
<1>3. ASSUME NEW v \in Marked, InValue(text, i, v, 1)
      PROVE  text[i][1] \in Marked
  BY <1>3 DEF InValue
<1> QED
  BY <1>2, <1>3, BecomesType DEF CharAt

\* The image of a text, the sequence RedactAs flattens.
Image(r, text) == [i \in 1..Len(text) |-> CharAt(r, text, i)]

LEMMA ImageType ==
    ASSUME NEW r \in BOOLEAN, NEW text \in Seq(Characters)
    PROVE  Image(r, text) \in Seq(Seq(Outputs)) /\ Len(Image(r, text)) = Len(text)
<1>1. Len(text) \in Nat
  BY LenProperties
<1>2. \A i \in 1..Len(text) : CharAt(r, text, i) \in Seq(Outputs)
  BY CharType
<1> QED
  BY <1>1, <1>2 DEF Image

LEMMA RedactType ==
    ASSUME NEW r \in BOOLEAN, NEW text \in Seq(Characters)
    PROVE  RedactAs(r, text) \in Seq(Outputs)
BY ImageType, FlattenType DEF RedactAs, Image

LEMMA RedactEmpty == ASSUME NEW r PROVE RedactAs(r, <<>>) = <<>>
<1>1. [i \in 1..Len(<<>>) |-> CharAt(r, <<>>, i)] = <<>>
  OBVIOUS
<1> QED
  BY <1>1, FlattenEmpty DEF RedactAs

-----------------------------------------------------------------------------
(* A text cut after a space is redacted part by part *)

\* No value reaches from one side of a cut to the other.
CutFits(a) == a = <<>> \/ a[Len(a)] = Space

LEMMA NoValueAcross ==
    ASSUME NEW a \in Seq(Characters), NEW b \in Seq(Characters), CutFits(a),
           NEW v \in Marked, NEW p \in Nat \ {0}, p <= Len(a), Stands(a \o b, v, p)
    PROVE  p + Width[v] - 1 <= Len(a)
<1>1. PICK m \in Nat : m = Len(a)
  BY LenProperties
<1>2. PICK w \in Nat \ {0} : w = Width[v]
  BY StreamAssumption
<1> SUFFICES ASSUME m < p + w - 1 PROVE FALSE
  BY <1>1, <1>2
<1>3. m - p + 1 \in 1..w /\ p + (m - p + 1) - 1 = m /\ m \in 1..m /\ m # 0
  BY <1>1
<1>4. (a \o b)[m] = <<v, m - p + 1>>
  BY <1>2, <1>3 DEF Stands
<1>5. (a \o b)[m] = a[m]
  BY <1>1, <1>3, ConcatProperties, LenProperties
<1>6. a[m] = Space
  BY <1>1, <1>3, EmptySeq DEF CutFits
<1>7. v = " "
  <2>1. PICK k : k = m - p + 1
    OBVIOUS
  <2>2. <<v, k>> = <<" ", 1>>
    BY <1>4, <1>5, <1>6, <2>1 DEF Space
  <2> QED
    BY <2>2
<1> QED
  BY <1>7, StreamAssumption

LEMMA Parts ==
    ASSUME NEW X, NEW a \in Seq(X), NEW b \in Seq(X), NEW m \in Nat, NEW n \in Nat,
           m = Len(a), n = Len(b)
    PROVE  /\ a \o b \in Seq(X) /\ Len(a \o b) = m + n
           /\ \A i \in 1..m : (a \o b)[i] = a[i]
           /\ \A j \in 1..n : (a \o b)[m + j] = b[j]
<1>1. /\ a \o b \in Seq(X) /\ Len(a \o b) = m + n
      /\ \A i \in 1..(m + n) : (a \o b)[i] = IF i <= m THEN a[i] ELSE b[i - m]
  BY ConcatProperties
<1>2. \A i \in 1..m : i \in 1..(m + n) /\ i <= m
  OBVIOUS
<1>3. \A j \in 1..n : m + j \in 1..(m + n) /\ ~(m + j <= m) /\ (m + j) - m = j
  OBVIOUS
<1> QED
  BY <1>1, <1>2, <1>3

LEMMA InValueLeft ==
    ASSUME NEW a \in Seq(Characters), NEW b \in Seq(Characters), CutFits(a),
           NEW v \in Marked, NEW k \in 1..Width[v], NEW i \in 1..Len(a)
    PROVE  InValue(a \o b, i, v, k) <=> InValue(a, i, v, k)
<1>1. PICK m \in Nat, n \in Nat : m = Len(a) /\ n = Len(b)
  BY LenProperties
<1>2. PICK w \in Nat \ {0} : w = Width[v]
  BY StreamAssumption
<1>3. PICK c \in Seq(Characters) : c = a \o b
  BY ConcatProperties
<1>4. Len(c) = m + n /\ \A g \in 1..m : c[g] = a[g]
  BY <1>1, <1>3, Parts
<1> SUFFICES ASSUME i >= k PROVE Stands(c, v, i + 1 - k) <=> Stands(a, v, i + 1 - k)
  BY <1>1, <1>3, <1>4 DEF InValue
<1>5. PICK p \in Nat \ {0} : p = i + 1 - k
  BY <1>1, <1>2
<1>6. p <= m
  BY <1>1, <1>2, <1>5
<1>7. Stands(c, v, p) => p + w - 1 <= m
  BY <1>1, <1>2, <1>3, <1>6, NoValueAcross
<1>8. ASSUME p + w - 1 <= m PROVE \A g \in 1..w : p + g - 1 \in 1..m
  BY <1>8
<1>9. p + w - 1 <= m => p + w - 1 <= m + n
  BY <1>1
<1>10. Stands(c, v, p) <=> Stands(a, v, p)
  <2>1. Stands(c, v, p) <=> p + w - 1 <= m + n /\ \A g \in 1..w : c[p + g - 1] = <<v, g>>
    BY <1>2, <1>4 DEF Stands
  <2>2. Stands(a, v, p) <=> p + w - 1 <= m /\ \A g \in 1..w : a[p + g - 1] = <<v, g>>
    BY <1>1, <1>2 DEF Stands
  <2>3. p + w - 1 <= m => \A g \in 1..w : c[p + g - 1] = a[p + g - 1]
    BY <1>4, <1>8
  <2> QED
    BY <1>7, <1>9, <2>1, <2>2, <2>3
<1> QED
  BY <1>5, <1>10

LEMMA InValueRight ==
    ASSUME NEW a \in Seq(Characters), NEW b \in Seq(Characters), CutFits(a),
           NEW v \in Marked, NEW k \in 1..Width[v], NEW j \in 1..Len(b)
    PROVE  InValue(a \o b, Len(a) + j, v, k) <=> InValue(b, j, v, k)
<1>1. PICK m \in Nat, n \in Nat : m = Len(a) /\ n = Len(b)
  BY LenProperties
<1>2. PICK w \in Nat \ {0} : w = Width[v]
  BY StreamAssumption
<1>3. PICK c \in Seq(Characters) : c = a \o b
  BY ConcatProperties
<1>4. Len(c) = m + n /\ \A g \in 1..n : c[m + g] = b[g]
  BY <1>1, <1>3, Parts
<1>5. ASSUME m + j >= k, Stands(c, v, m + j + 1 - k) PROVE j >= k
  <2> SUFFICES ASSUME j < k PROVE FALSE
    BY <1>1, <1>2
  <2>1. PICK p \in Nat \ {0} : p = m + j + 1 - k
    <3>1. m + j + 1 - k \in Nat \ {0}
      BY <1>1, <1>2, <1>5
    <3> QED
      BY <3>1
  <2>2. p <= m /\ p + w - 1 > m
    BY <1>1, <1>2, <2>1
  <2>3. p + w - 1 <= m
    BY <1>1, <1>2, <1>3, <1>5, <2>1, <2>2, NoValueAcross
  <2> QED
    BY <1>1, <1>2, <2>1, <2>2, <2>3
<1> SUFFICES ASSUME j >= k PROVE Stands(c, v, m + j + 1 - k) <=> Stands(b, v, j + 1 - k)
  <2>1. j >= k => m + j >= k
    BY <1>1, <1>2
  <2> QED
    BY <1>1, <1>3, <1>4, <1>5, <2>1 DEF InValue
<1>6. PICK p \in Nat \ {0} : p = j + 1 - k /\ m + j + 1 - k = m + p
  BY <1>1, <1>2
<1>7. m + p + w - 1 <= m + n <=> p + w - 1 <= n
  BY <1>1
<1>8. ASSUME p + w - 1 <= n
      PROVE  \A g \in 1..w : p + g - 1 \in 1..n /\ m + p + g - 1 = m + (p + g - 1)
  BY <1>8
<1>9. Stands(c, v, m + p) <=> Stands(b, v, p)
  BY <1>1, <1>2, <1>4, <1>7, <1>8 DEF Stands
<1> QED
  BY <1>6, <1>9

LEMMA CharsOfParts ==
    ASSUME NEW r, NEW a \in Seq(Characters), NEW b \in Seq(Characters), CutFits(a)
    PROVE  /\ \A i \in 1..Len(a) : CharAt(r, a \o b, i) = CharAt(r, a, i)
           /\ \A j \in 1..Len(b) : CharAt(r, a \o b, Len(a) + j) = CharAt(r, b, j)
<1>1. PICK m \in Nat, n \in Nat : m = Len(a) /\ n = Len(b)
  BY LenProperties
<1>2. PICK c \in Seq(Characters) : c = a \o b
  BY ConcatProperties
<1>3. (\A g \in 1..m : c[g] = a[g]) /\ (\A g \in 1..n : c[m + g] = b[g])
  BY <1>1, <1>2, Parts
<1>4. ASSUME NEW v \in Marked PROVE 1 \in 1..Width[v] /\ \A k \in 2..Width[v] : k \in 1..Width[v]
  <2>1. PICK w \in Nat \ {0} : w = Width[v]
    BY StreamAssumption
  <2>2. 1 \in 1..w /\ \A k \in 2..w : k \in 1..w
    OBVIOUS
  <2> QED
    BY <2>1, <2>2
<1>5. ASSUME NEW i \in 1..m PROVE CharAt(r, c, i) = CharAt(r, a, i)
  <2>1. \A v \in Marked : \A k \in 1..Width[v] : InValue(c, i, v, k) <=> InValue(a, i, v, k)
    BY <1>1, <1>2, InValueLeft
  <2>2. (\E v \in Marked : InValue(c, i, v, 1)) <=> (\E v \in Marked : InValue(a, i, v, 1))
    BY <1>4, <2>1
  <2>3. (\E v \in Marked : \E k \in 2..Width[v] : InValue(c, i, v, k))
          <=> (\E v \in Marked : \E k \in 2..Width[v] : InValue(a, i, v, k))
    BY <1>4, <2>1
  <2> QED
    BY <1>3, <2>2, <2>3 DEF CharAt
<1>6. ASSUME NEW j \in 1..n PROVE CharAt(r, c, m + j) = CharAt(r, b, j)
  <2>1. \A v \in Marked : \A k \in 1..Width[v] : InValue(c, m + j, v, k) <=> InValue(b, j, v, k)
    BY <1>1, <1>2, InValueRight
  <2>2. (\E v \in Marked : InValue(c, m + j, v, 1)) <=> (\E v \in Marked : InValue(b, j, v, 1))
    BY <1>4, <2>1
  <2>3. (\E v \in Marked : \E k \in 2..Width[v] : InValue(c, m + j, v, k))
          <=> (\E v \in Marked : \E k \in 2..Width[v] : InValue(b, j, v, k))
    BY <1>4, <2>1
  <2> QED
    BY <1>3, <2>2, <2>3 DEF CharAt
<1> QED
  BY <1>1, <1>2, <1>5, <1>6

\* The redaction of a text is the redaction of its parts, cut where a cut fits.
LEMMA RedactConcat ==
    ASSUME NEW r \in BOOLEAN, NEW a \in Seq(Characters), NEW b \in Seq(Characters), CutFits(a)
    PROVE  RedactAs(r, a \o b) = RedactAs(r, a) \o RedactAs(r, b)
<1>1. PICK m \in Nat, n \in Nat : m = Len(a) /\ n = Len(b)
  BY LenProperties
<1>2. PICK c \in Seq(Characters) : c = a \o b /\ Len(c) = m + n
  <2>1. a \o b \in Seq(Characters) /\ Len(a \o b) = m + n
    BY <1>1, Parts
  <2> QED
    BY <2>1
<1>3. /\ Image(r, a) \in Seq(Seq(Outputs)) /\ Len(Image(r, a)) = m
      /\ Image(r, b) \in Seq(Seq(Outputs)) /\ Len(Image(r, b)) = n
      /\ Image(r, c) \in Seq(Seq(Outputs)) /\ Len(Image(r, c)) = m + n
  BY <1>1, <1>2, ImageType
<1>4. PICK d \in Seq(Seq(Outputs)) : d = Image(r, a) \o Image(r, b)
  BY <1>3, ConcatProperties
<1>5. /\ Len(d) = m + n
      /\ \A i \in 1..m : d[i] = Image(r, a)[i]
      /\ \A j \in 1..n : d[m + j] = Image(r, b)[j]
  <2>1. PICK x \in Seq(Seq(Outputs)) : x = Image(r, a)
    BY <1>3
  <2>2. PICK y \in Seq(Seq(Outputs)) : y = Image(r, b)
    BY <1>3
  <2>3. m = Len(x) /\ n = Len(y)
    BY <1>3, <2>1, <2>2
  <2>4. /\ Len(x \o y) = m + n
        /\ \A i \in 1..m : (x \o y)[i] = x[i]
        /\ \A j \in 1..n : (x \o y)[m + j] = y[j]
    BY <2>3, Parts
  <2> QED
    BY <1>4, <2>1, <2>2, <2>4
<1>6. ASSUME NEW i \in 1..(m + n) PROVE Image(r, c)[i] = d[i]
  <2>1. Image(r, c)[i] = CharAt(r, c, i)
    BY <1>2 DEF Image
  <2>2. CASE i <= m
    <3>1. i \in 1..m
      BY <2>2
    <3>2. CharAt(r, c, i) = CharAt(r, a, i)
      BY <1>1, <1>2, <3>1, CharsOfParts
    <3>3. Image(r, a)[i] = CharAt(r, a, i)
      BY <1>1, <3>1 DEF Image
    <3> QED
      BY <1>5, <2>1, <3>1, <3>2, <3>3
  <2>3. CASE i > m
    <3>1. PICK j \in 1..n : i = m + j
      <4>1. i - m \in 1..n /\ i = m + (i - m)
        BY <2>3
      <4> QED
        BY <4>1
    <3>2. CharAt(r, c, m + j) = CharAt(r, b, j)
      BY <1>1, <1>2, CharsOfParts
    <3>3. Image(r, b)[j] = CharAt(r, b, j)
      BY <1>1 DEF Image
    <3> QED
      BY <1>5, <2>1, <3>1, <3>2, <3>3
  <2> QED
    BY <2>2, <2>3
<1>7. Image(r, c) = d
  BY <1>3, <1>5, <1>6, SeqEqual
<1>8. FlattenSeq(d) = FlattenSeq(Image(r, a)) \o FlattenSeq(Image(r, b))
  BY <1>3, <1>4, FlattenConcat
<1> QED
  BY <1>2, <1>7, <1>8 DEF RedactAs, Image

LEMMA PlainIsText == \A s \in Seq(PlainChars) : s \in Seq(Characters)
<1>1. PlainChars \subseteq Characters
  BY DEF PlainChars
<1> QED
  BY <1>1, SeqMonotonic

LEMMA FitsConcat ==
    ASSUME NEW a \in Seq(Characters), NEW b \in Seq(Characters), CutFits(a), CutFits(b)
    PROVE  CutFits(a \o b)
<1>1. CASE b = <<>>
  <2>1. a \o b = a
    BY <1>1, ConcatEmptySeq
  <2> QED
    BY <2>1
<1>2. CASE b # <<>>
  <2>1. PICK m \in Nat, n \in Nat : m = Len(a) /\ n = Len(b)
    BY LenProperties
  <2>2. Len(a \o b) = m + n /\ \A j \in 1..n : (a \o b)[m + j] = b[j]
    BY <2>1, Parts
  <2>3. n \in 1..n
    BY <1>2, <2>1, EmptySeq
  <2>4. b[n] = Space
    BY <1>2, <2>1 DEF CutFits
  <2> QED
    BY <2>2, <2>3, <2>4 DEF CutFits
<1> QED
  BY <1>1, <1>2

\* feedText releases up to a whitespace character, or nothing.
LEMMA ReleaseCut ==
    ASSUME NEW c \in Seq(Characters)
    PROVE  /\ Release(c) \in 0..Len(c)
           /\ Release(c) # 0 => Release(c) \in 1..Len(c) /\ IsBlank(c[Release(c)])
<1>1. PICK m \in Nat : m = Len(c)
  BY LenProperties
<1> DEFINE cuts == {i \in 1..m : i + MinTail <= m /\ IsBlank(c[i])}
<1>2. Release(c) = 0 \/ (cuts # {} /\ Release(c) = CHOOSE i \in cuts : \A j \in cuts : j <= i)
  BY <1>1 DEF Release
<1>3. ASSUME cuts # {} PROVE \E i \in cuts : \A j \in cuts : j <= i
  <2> DEFINE T == {m - i : i \in cuts}
  <2>1. T \subseteq Nat /\ T # {}
    BY <1>3
  <2> HIDE DEF T
  <2>2. PICK t \in T : \A u \in T : t <= u
    BY <2>1, LeastNumber
  <2>3. PICK i \in cuts : t = m - i
    BY <2>2 DEF T
  <2>4. ASSUME NEW j \in cuts PROVE j <= i
    <3>1. m - i <= m - j
      BY <2>2, <2>3 DEF T
    <3>2. i \in Nat /\ j \in Nat
      OBVIOUS
    <3> QED
      BY <3>1, <3>2
  <2> QED
    BY <2>4
<1>4. \A i \in cuts : i \in 1..m /\ IsBlank(c[i])
  OBVIOUS
<1> HIDE DEF cuts
<1>5. Release(c) # 0 => Release(c) \in cuts
  BY <1>2, <1>3
<1> QED
  BY <1>1, <1>4, <1>5

\* In a plain text this is a space.
LEMMA ReleaseFits ==
    ASSUME NEW c \in Seq(PlainChars), Release(c) # 0
    PROVE  c[Release(c)] = Space
<1>1. Release(c) \in 1..Len(c) /\ IsBlank(c[Release(c)])
  BY PlainIsText, ReleaseCut
<1>2. c[Release(c)] \in PlainChars
  BY <1>1, ElementOfSeq
<1> QED
  BY <1>1, <1>2 DEF PlainChars

\* A text cut at n.
LEMMA CutAt ==
    ASSUME NEW X, NEW c \in Seq(X), NEW n \in 0..Len(c)
    PROVE  /\ SubSeq(c, 1, n) \in Seq(X) /\ SubSeq(c, n + 1, Len(c)) \in Seq(X)
           /\ c = SubSeq(c, 1, n) \o SubSeq(c, n + 1, Len(c))
           /\ Len(SubSeq(c, 1, n)) = n
           /\ n # 0 => SubSeq(c, 1, n)[n] = c[n]
<1>1. PICK m \in Nat : m = Len(c)
  BY LenProperties
<1>2. n \in Int /\ n + 1 \in Int /\ 1 \in Int /\ m \in Int /\ n <= m
  BY <1>1
<1>3. \A i \in 1..n : c[i] \in X
  BY <1>1, <1>2, ElementOfSeq
<1>4. \A i \in (n + 1)..m : c[i] \in X
  BY <1>1, <1>2, ElementOfSeq
<1>5. /\ SubSeq(c, 1, n) \in Seq(X)
      /\ Len(SubSeq(c, 1, n)) = IF 1 <= n THEN n - 1 + 1 ELSE 0
      /\ \A i \in 1..(n - 1 + 1) : SubSeq(c, 1, n)[i] = c[1 + i - 1]
  BY <1>2, <1>3, SubSeqProperties
<1>6. SubSeq(c, n + 1, m) \in Seq(X)
  BY <1>2, <1>4, SubSeqProperties
<1>7. c = SubSeq(c, 1, n) \o SubSeq(c, n + 1, m)
  <2>1. 1 \in 1..(m + 1) /\ n \in (1 - 1)..m /\ m \in n..m
    BY <1>1
  <2>2. SubSeq(c, 1, n) \o SubSeq(c, n + 1, m) = SubSeq(c, 1, m)
    BY <1>1, <2>1, ConcatAdjacentSubSeq
  <2> QED
    BY <1>1, <2>2, SubSeqFull
<1>8. Len(SubSeq(c, 1, n)) = n /\ (n # 0 => SubSeq(c, 1, n)[n] = c[n])
  <2>1. n # 0 => n \in 1..(n - 1 + 1) /\ 1 + n - 1 = n
    OBVIOUS
  <2>2. Len(SubSeq(c, 1, n)) = n
    BY <1>2, <1>5
  <2> QED
    BY <1>5, <2>1, <2>2
<1> QED
  BY <1>1, <1>5, <1>6, <1>7, <1>8

-----------------------------------------------------------------------------
(* The lines and what the client reads in them *)

Names == {"delta", "stop", "ping", "done"}

Datum == [line : {"data"}, name : Names, block : Blocks \cup {None},
          text : Seq(Outputs), ends : BOOLEAN]

Event == [line : {"event"}, name : Names]

\* The lines a broken connection may cut, with what there is of their text.
CutLines == {CutLine(text) : text \in Seq(Characters)}

Lines == {BlankLine} \cup CutLines \cup Event \cup Datum

LEMMA CutLinesAre == \A cut \in CutLines : cut.line = "cut" /\ cut \in Lines
BY DEF CutLines, CutLine, Lines

\* What line adds to the text of block b.
TextIn(line, b) ==
    IF line.line = "data" /\ line.name = "delta" /\ line.block = b THEN line.text ELSE <<>>

TextsIn(lines, b) == [i \in 1..Len(lines) |-> TextIn(lines[i], b)]

TextOf(lines, b) == FlattenSeq(TextsIn(lines, b))

LEMMA SeenIs == \A b : Seen(b) = TextOf(out, b)
BY DEF Seen, TextOf, TextsIn, TextIn

LEMMA TextInType == ASSUME NEW line \in Lines, NEW b PROVE TextIn(line, b) \in Seq(Outputs)
<1>1. <<>> \in Seq(Outputs)
  BY EmptySeq
<1>2. line.line = "data" => line \in Datum
  BY CutLinesAre DEF Lines, BlankLine, Event
<1>3. line \in Datum => line.text \in Seq(Outputs)
  BY DEF Datum
<1> QED
  BY <1>1, <1>2, <1>3 DEF TextIn

LEMMA TextsInType ==
    ASSUME NEW lines \in Seq(Lines), NEW b
    PROVE  TextsIn(lines, b) \in Seq(Seq(Outputs)) /\ Len(TextsIn(lines, b)) = Len(lines)
<1>1. Len(lines) \in Nat
  BY LenProperties
<1>2. \A i \in 1..Len(lines) : TextIn(lines[i], b) \in Seq(Outputs)
  BY TextInType, ElementOfSeq
<1> QED
  BY <1>1, <1>2 DEF TextsIn

LEMMA TextType == ASSUME NEW lines \in Seq(Lines), NEW b PROVE TextOf(lines, b) \in Seq(Outputs)
BY TextsInType, FlattenType DEF TextOf

LEMMA TextNone == ASSUME NEW b PROVE TextOf(<<>>, b) = <<>>
<1>1. TextsIn(<<>>, b) = <<>>
  BY DEF TextsIn
<1> QED
  BY <1>1, FlattenEmpty DEF TextOf

LEMMA TextOne == ASSUME NEW line, NEW b PROVE TextOf(<<line>>, b) = TextIn(line, b)
<1>1. TextsIn(<<line>>, b) = <<TextIn(line, b)>>
  <2>1. Len(<<line>>) = 1 /\ <<line>>[1] = line
    OBVIOUS
  <2> QED
    BY <2>1 DEF TextsIn
<1> QED
  BY <1>1, FlattenOne DEF TextOf

LEMMA TextConcat ==
    ASSUME NEW s \in Seq(Lines), NEW t \in Seq(Lines), NEW b
    PROVE  TextOf(s \o t, b) = TextOf(s, b) \o TextOf(t, b)
<1>1. PICK m \in Nat, n \in Nat : m = Len(s) /\ n = Len(t)
  BY LenProperties
<1>2. PICK x \in Seq(Seq(Outputs)) : x = TextsIn(s, b) /\ m = Len(x)
  BY <1>1, TextsInType
<1>3. PICK y \in Seq(Seq(Outputs)) : y = TextsIn(t, b) /\ n = Len(y)
  BY <1>1, TextsInType
<1>4. PICK u \in Seq(Lines) :
           /\ u = s \o t /\ Len(u) = m + n
           /\ \A i \in 1..m : u[i] = s[i]
           /\ \A j \in 1..n : u[m + j] = t[j]
  <2>1. /\ s \o t \in Seq(Lines) /\ Len(s \o t) = m + n
        /\ \A i \in 1..m : (s \o t)[i] = s[i]
        /\ \A j \in 1..n : (s \o t)[m + j] = t[j]
    BY <1>1, Parts
  <2> QED
    BY <2>1
<1>5. PICK z \in Seq(Seq(Outputs)) : z = TextsIn(u, b) /\ m + n = Len(z)
  BY <1>4, TextsInType
<1>6. PICK d \in Seq(Seq(Outputs)) :
           /\ d = x \o y /\ Len(d) = m + n
           /\ \A i \in 1..m : d[i] = x[i]
           /\ \A j \in 1..n : d[m + j] = y[j]
  <2>1. /\ x \o y \in Seq(Seq(Outputs)) /\ Len(x \o y) = m + n
        /\ \A i \in 1..m : (x \o y)[i] = x[i]
        /\ \A j \in 1..n : (x \o y)[m + j] = y[j]
    BY <1>2, <1>3, Parts
  <2> QED
    BY <2>1
<1>7. ASSUME NEW i \in 1..(m + n) PROVE z[i] = d[i]
  <2>1. z[i] = TextIn(u[i], b)
    BY <1>4, <1>5 DEF TextsIn
  <2>2. CASE i <= m
    <3>1. i \in 1..m
      BY <2>2
    <3>2. x[i] = TextIn(s[i], b)
      BY <1>1, <1>2, <3>1 DEF TextsIn
    <3> QED
      BY <1>4, <1>6, <2>1, <3>1, <3>2
  <2>3. CASE i > m
    <3>1. PICK j \in 1..n : i = m + j
      <4>1. i - m \in 1..n /\ i = m + (i - m)
        BY <2>3
      <4> QED
        BY <4>1
    <3>2. y[j] = TextIn(t[j], b)
      BY <1>1, <1>3 DEF TextsIn
    <3> QED
      BY <1>4, <1>6, <2>1, <3>1, <3>2
  <2> QED
    BY <2>2, <2>3
<1>8. z = d
  BY <1>5, <1>6, <1>7, SeqEqual
<1> QED
  BY <1>2, <1>3, <1>4, <1>5, <1>6, <1>8, FlattenConcat DEF TextOf

-----------------------------------------------------------------------------
(* Types and the shape of the wire *)

\* The data lines the model sends.
WireData ==
    {d \in [line : {"data"}, name : Names, block : Blocks \cup {None},
            text : Seq(Characters), ends : BOOLEAN] :
        /\ d.name \in {"delta", "stop"} => d.block \in Used
        /\ d.name \in {"ping", "done"} => d.block = None /\ ~d.ends
        /\ d.name = "stop" => d.ends
        /\ d.name = "delta" /\ d.ends => format = "openai"}

Header(d) == IF format = "openai" THEN <<>> ELSE <<EventLine(d.name)>>

\* What is left of an event on the wire, and what of it is held.
WireShape ==
    \/ wire = <<>> /\ pending = <<>>
    \/ wire = <<BlankLine>> /\ pending = <<>>
    \/ \E d \in WireData : wire = <<d, BlankLine>> /\ pending = Header(d)
    \/ \E d \in WireData : /\ format # "openai"
                           /\ wire = <<EventLine(d.name), d, BlankLine>>
                           /\ pending = <<>>

StreamTypes ==
    /\ format \in Formats /\ reveal \in BOOLEAN
    /\ rest \in [Blocks -> Seq(Characters)]
    /\ sent \in [Blocks -> Seq(Characters)]
    /\ ended \subseteq Used
    /\ carry \in Seq(Characters)
    /\ tmpl \in Used \cup {None}
    /\ out \in Seq(Lines)
    /\ over \in BOOLEAN
    /\ WireShape

\* The event made of what is held.
FlushData == Data("delta", IF format = "openai" THEN 1 ELSE tmpl, RedactAs(reveal, carry), FALSE)

Flush(d) == IsFlushTrigger(d) \/ d = Done

LEMMA OneAndTwo ==
    ASSUME NEW x, NEW y, NEW z
    PROVE  <<x>> \o <<y, z>> = <<x, y, z>> /\ <<>> \o <<y, z>> = <<y, z>>
<1> DEFINE X == {x, y, z}
<1>1. <<x>> \in Seq(X) /\ <<y, z>> \in Seq(X) /\ <<x, y, z>> \in Seq(X) /\ <<y>> \in Seq(X)
  OBVIOUS
<1>2. <<y, z>> = Append(<<y>>, z) /\ <<x, y>> = Append(<<x>>, y) /\ <<x, y, z>> = Append(<<x, y>>, z)
  OBVIOUS
<1> HIDE DEF X
<1>3. PICK c \in Seq(X) : c = <<x>> \o <<y, z>>
  BY <1>1, ConcatProperties
<1>4. Len(<<x>>) = 1 /\ Len(<<y, z>>) = 2 /\ Len(<<x, y, z>>) = 3
  OBVIOUS
<1>5. /\ Len(c) = 1 + 2 /\ \A i \in 1..1 : c[i] = <<x>>[i]
      /\ \A j \in 1..2 : c[1 + j] = <<y, z>>[j]
  BY <1>1, <1>3, <1>4, Parts
<1>6. c[1] = x /\ c[2] = y /\ c[3] = z
  <2>1. 1 \in 1..1 /\ 1 \in 1..2 /\ 2 \in 1..2 /\ 1 + 1 = 2 /\ 1 + 2 = 3
    OBVIOUS
  <2>2. c[1] = <<x>>[1] /\ c[1 + 1] = <<y, z>>[1] /\ c[1 + 2] = <<y, z>>[2]
    BY <1>5, <2>1
  <2> QED
    BY <2>1, <2>2
<1>7. \A i \in 1..Len(c) : c[i] = <<x, y, z>>[i]
  <2>1. Len(c) = 3
    BY <1>5
  <2>2. \A i \in 1..3 : i = 1 \/ i = 2 \/ i = 3
    OBVIOUS
  <2>3. <<x, y, z>>[1] = x /\ <<x, y, z>>[2] = y /\ <<x, y, z>>[3] = z
    OBVIOUS
  <2> QED
    BY <1>6, <2>1, <2>2, <2>3
<1>8. c = <<x, y, z>>
  BY <1>1, <1>4, <1>5, <1>7, SeqEqual
<1> QED
  BY <1>1, <1>3, <1>8, ConcatEmptySeq

LEMMA OneAndOne ==
    ASSUME NEW x, NEW y
    PROVE  <<x>> \o <<y>> = <<x, y>> /\ <<>> \o <<y>> = <<y>>
<1> DEFINE X == {x, y}
<1>1. <<x>> \in Seq(X) /\ <<y>> \in Seq(X) /\ y \in X
  OBVIOUS
<1>2. <<x, y>> = Append(<<x>>, y)
  OBVIOUS
<1> HIDE DEF X
<1> QED
  BY <1>1, <1>2, AppendIsConcat, ConcatEmptySeq

LEMMA FlushedIs ==
    Flushed = IF carry = <<>> \/ tmpl = None THEN <<>> ELSE Header(FlushData) \o <<FlushData, BlankLine>>
<1>1. ASSUME NEW d PROVE Wire(d) = Header(d) \o <<d, BlankLine>>
  BY OneAndTwo DEF Wire, Header
<1> QED
  BY <1>1, RedactIs DEF Flushed, FlushData

LEMMA OutputsType == Characters \subseteq Outputs /\ \A s \in Seq(Characters) : s \in Seq(Outputs)
<1>1. Characters \subseteq Outputs
  BY DEF Outputs
<1> QED
  BY <1>1, SeqMonotonic

LEMMA UsedType == Used \subseteq Blocks /\ None \notin Blocks
BY StreamAssumption DEF Used, None

LEMMA FlushType ==
    ASSUME StreamTypes, tmpl # None
    PROVE  FlushData \in Datum /\ EventLine("delta") \in Lines /\ Header(FlushData) \in Seq(Lines)
<1>1. RedactAs(reveal, carry) \in Seq(Outputs)
  BY RedactType DEF StreamTypes
<1>2. tmpl \in Blocks /\ 1 \in Blocks
  BY UsedType, StreamAssumption DEF StreamTypes
<1>3. FlushData \in Datum
  BY <1>1, <1>2 DEF FlushData, Data, Datum, Names
<1>4. EventLine("delta") \in Lines
  BY DEF EventLine, Lines, Event, Names
<1>5. FlushData.name = "delta"
  BY DEF FlushData, Data
<1> QED
  BY <1>3, <1>4, <1>5 DEF Header

LEMMA FlushedType == ASSUME StreamTypes PROVE Flushed \in Seq(Lines)
<1>1. CASE carry = <<>> \/ tmpl = None
  BY <1>1, FlushedIs
<1>2. CASE ~(carry = <<>> \/ tmpl = None)
  <2>1. FlushData \in Lines /\ BlankLine \in Lines
    BY <1>2, FlushType DEF Lines
  <2>2. <<FlushData, BlankLine>> \in Seq(Lines)
    BY <2>1
  <2> QED
    BY <1>2, <2>2, FlushedIs, FlushType, ConcatProperties
<1> QED
  BY <1>1, <1>2

LEMMA HeaderType ==
    ASSUME NEW d \in WireData
    PROVE  Header(d) \in Seq(Lines) /\ d \in Datum /\ d \in Lines /\ <<d>> \in Seq(Lines)
<1>1. EventLine(d.name) \in Lines
  BY DEF WireData, EventLine, Lines, Event
<1>2. d \in Datum
  BY OutputsType DEF WireData, Datum
<1>3. d \in Lines
  BY <1>2 DEF Lines
<1>4. <<d>> \in Seq(Lines) /\ <<EventLine(d.name)>> \in Seq(Lines) /\ <<>> \in Seq(Lines)
  BY <1>1, <1>3
<1> QED
  BY <1>2, <1>3, <1>4 DEF Header

-----------------------------------------------------------------------------
(* What each step of the gateway does to the stream *)

LEMMA LinesAssoc == \A s, t, u \in Seq(Lines) : (s \o t) \o u = s \o (t \o u)
BY ConcatAssociative

LEMMA TextAssoc == \A s, t, u \in Seq(Characters) : (s \o t) \o u = s \o (t \o u)
BY ConcatAssociative

LEMMA OutputAssoc == \A s, t, u \in Seq(Outputs) : (s \o t) \o u = s \o (t \o u)
BY ConcatAssociative

LEMMA WireHeads ==
    ASSUME StreamTypes, wire # <<>>
    PROVE  /\ Head(wire).line = "event" =>
                \E d \in WireData : /\ format # "openai" /\ pending = <<>>
                                    /\ wire = <<EventLine(d.name), d, BlankLine>>
                                    /\ Head(wire) = EventLine(d.name)
                                    /\ Tail(wire) = <<d, BlankLine>>
           /\ Head(wire).line = "blank" =>
                wire = <<BlankLine>> /\ pending = <<>> /\ Head(wire) = BlankLine /\ Tail(wire) = <<>>
           /\ Head(wire).line = "data" =>
                \E d \in WireData : /\ wire = <<d, BlankLine>> /\ pending = Header(d)
                                    /\ Head(wire) = d /\ Tail(wire) = <<BlankLine>>
<1>1. CASE wire = <<BlankLine>> /\ pending = <<>>
  <2>1. Head(wire) = BlankLine /\ Tail(wire) = <<>>
    BY <1>1
  <2>2. BlankLine.line = "blank"
    BY DEF BlankLine
  <2> QED
    BY <1>1, <2>1, <2>2
<1>2. ASSUME NEW d \in WireData, wire = <<d, BlankLine>>, pending = Header(d)
      PROVE  Head(wire) = d /\ Tail(wire) = <<BlankLine>> /\ d.line = "data"
  BY <1>2 DEF WireData
<1>3. ASSUME NEW d \in WireData, wire = <<EventLine(d.name), d, BlankLine>>
      PROVE  /\ Head(wire) = EventLine(d.name) /\ Tail(wire) = <<d, BlankLine>>
             /\ EventLine(d.name).line = "event"
  BY <1>3 DEF EventLine
<1> QED
  BY <1>1, <1>2, <1>3 DEF StreamTypes, WireShape

LEMMA HoldEventDoes ==
    ASSUME StreamTypes, HoldEvent
    PROVE  \E d \in WireData :
             /\ ~over /\ format # "openai" /\ pending = <<>>
             /\ wire = <<EventLine(d.name), d, BlankLine>> /\ wire' = <<d, BlankLine>>
             /\ pending' = Header(d)
             /\ UNCHANGED <<format, reveal, rest, sent, ended, carry, tmpl, out, over>>
<1>1. PICK d \in WireData :
        /\ format # "openai" /\ pending = <<>>
        /\ wire = <<EventLine(d.name), d, BlankLine>>
        /\ Head(wire) = EventLine(d.name) /\ Tail(wire) = <<d, BlankLine>>
  BY WireHeads DEF HoldEvent
<1>2. Append(pending, Head(wire)) = Header(d)
  BY <1>1 DEF Header
<1> QED
  BY <1>1, <1>2 DEF HoldEvent, Read, model, path

LEMMA PassBlankDoes ==
    ASSUME StreamTypes, PassBlank
    PROVE  /\ ~over /\ wire = <<BlankLine>> /\ wire' = <<>> /\ pending = <<>> /\ pending' = <<>>
           /\ out' = out \o <<BlankLine>>
           /\ UNCHANGED <<format, reveal, rest, sent, ended, carry, tmpl, over>>
<1>1. wire = <<BlankLine>> /\ pending = <<>> /\ Head(wire) = BlankLine /\ Tail(wire) = <<>>
  BY WireHeads DEF PassBlank
<1>2. out \o pending = out
  BY <1>1, ConcatEmptySeq DEF StreamTypes
<1> QED
  BY <1>1, <1>2 DEF PassBlank, Read, model, path

\* The lines a data line turns into, data being what becomes of it.
Emitted(d, data) == (IF Flush(d) THEN Flushed ELSE <<>>) \o (Header(d) \o <<data>>)

LEMMA EmittedType ==
    ASSUME StreamTypes, NEW d \in WireData, NEW data \in Datum
    PROVE  /\ Emitted(d, data) \in Seq(Lines)
           /\ out \o (IF Flush(d) THEN Flushed ELSE <<>>) \o Header(d) \o <<data>> = out \o Emitted(d, data)
<1>1. /\ (IF Flush(d) THEN Flushed ELSE <<>>) \in Seq(Lines) /\ Header(d) \in Seq(Lines)
      /\ <<data>> \in Seq(Lines) /\ out \in Seq(Lines)
  BY FlushedType, HeaderType DEF Lines, StreamTypes
<1>2. PICK f \in Seq(Lines) : f = IF Flush(d) THEN Flushed ELSE <<>>
  BY <1>1
<1>3. out \o f \o Header(d) \o <<data>> = out \o (f \o (Header(d) \o <<data>>))
  <2>1. PICK o \in Seq(Lines), g \in Seq(Lines), k \in Seq(Lines) : o = out /\ g = Header(d) /\ k = <<data>>
    BY <1>1
  <2>2. PICK w \in Seq(Lines) : w = f \o g
    BY ConcatProperties
  <2>3. (o \o f) \o g = o \o (f \o g)
    BY LinesAssoc, SMTT(30)
  <2>4. (o \o w) \o k = o \o (w \o k)
    BY LinesAssoc, ZenonT(60)
  <2>5. (f \o g) \o k = f \o (g \o k)
    BY LinesAssoc, SMTT(30)
  <2> QED
    BY <2>1, <2>2, <2>3, <2>4, <2>5
<1>4. f \o (Header(d) \o <<data>>) \in Seq(Lines)
  BY <1>1, ConcatProperties
<1> QED
  BY <1>2, <1>3, <1>4 DEF Emitted

LEMMA PassDataDoes ==
    ASSUME StreamTypes, PassData
    PROVE  \E d \in WireData :
             /\ ~over /\ wire = <<d, BlankLine>> /\ wire' = <<BlankLine>>
             /\ pending = Header(d) /\ pending' = <<>>
             /\ d.name # "delta"
             /\ out' = out \o Emitted(d, d)
             /\ carry' = IF Flush(d) /\ tmpl # None THEN <<>> ELSE carry
             /\ UNCHANGED <<format, reveal, rest, sent, ended, tmpl, over>>
<1>1. PICK d \in WireData : /\ wire = <<d, BlankLine>> /\ pending = Header(d)
                            /\ Head(wire) = d /\ Tail(wire) = <<BlankLine>>
  BY WireHeads DEF PassData
<1>2. d \in Datum
  BY HeaderType
<1> QED
  BY <1>1, <1>2, EmittedType DEF PassData, Read, model, path, Flush, HasText

\* What joins the text held, and what of it is released.
Joined(d) == (IF Flush(d) /\ tmpl # None THEN <<>> ELSE carry) \o d.text
Freed(d)  == SubSeq(Joined(d), 1, Release(Joined(d)))

LEMMA DeltaFlush == ASSUME NEW d \in WireData, d.name = "delta" PROVE Flush(d) <=> IsFlushTrigger(d)
<1>1. Done.name = "done"
  BY DEF Done, Data
<1> QED
  BY <1>1 DEF Flush

FreedData(d) == [d EXCEPT !.text = RedactAs(reveal, Freed(d))]

LEMMA JoinedType ==
    ASSUME StreamTypes, NEW d \in WireData
    PROVE  /\ Joined(d) \in Seq(Characters)
           /\ Release(Joined(d)) \in 0..Len(Joined(d))
           /\ Freed(d) \in Seq(Characters)
           /\ SubSeq(Joined(d), Release(Joined(d)) + 1, Len(Joined(d))) \in Seq(Characters)
<1>1. d.text \in Seq(Characters) /\ carry \in Seq(Characters) /\ <<>> \in Seq(Characters)
  BY DEF WireData, StreamTypes
<1>2. Joined(d) \in Seq(Characters)
  BY <1>1, ConcatProperties DEF Joined
<1>3. Release(Joined(d)) \in 0..Len(Joined(d))
  BY <1>2, ReleaseCut
<1> QED
  BY <1>2, <1>3, CutAt DEF Freed

LEMMA RedactedData ==
    ASSUME NEW d \in WireData, NEW r \in BOOLEAN, NEW text \in Seq(Characters)
    PROVE  LET data == [d EXCEPT !.text = RedactAs(r, text)] IN
           /\ data \in Datum /\ data.text = RedactAs(r, text)
           /\ data.line = "data" /\ data.name = d.name /\ data.block = d.block /\ data.ends = d.ends
<1>1. RedactAs(r, text) \in Seq(Outputs)
  BY RedactType
<1>2. d \in Datum
  BY HeaderType
<1> QED
  BY <1>1, <1>2 DEF Datum

LEMMA FreedDataType ==
    ASSUME StreamTypes, NEW d \in WireData
    PROVE  /\ FreedData(d) \in Datum /\ FreedData(d).text = RedactAs(reveal, Freed(d))
           /\ FreedData(d).line = "data" /\ FreedData(d).name = d.name
           /\ FreedData(d).block = d.block /\ FreedData(d).ends = d.ends
<1>1. Freed(d) \in Seq(Characters) /\ reveal \in BOOLEAN
  BY JoinedType DEF StreamTypes
<1> QED
  BY <1>1, RedactedData DEF FreedData

LEMMA FeedTextDoes ==
    ASSUME StreamTypes, FeedText
    PROVE  \E d \in WireData :
             /\ ~over /\ wire = <<d, BlankLine>> /\ wire' = <<BlankLine>>
             /\ pending = Header(d) /\ pending' = <<>>
             /\ d.name = "delta" /\ HeldBack(d.block)
             /\ out' = out \o Emitted(d, FreedData(d))
             /\ carry' = SubSeq(Joined(d), Release(Joined(d)) + 1, Len(Joined(d)))
             /\ tmpl' = d.block
             /\ sent' = [sent EXCEPT ![d.block] = @ \o d.text]
             /\ UNCHANGED <<format, reveal, rest, ended, over>>
<1>1. PICK d \in WireData : /\ wire = <<d, BlankLine>> /\ pending = Header(d)
                            /\ Head(wire) = d /\ Tail(wire) = <<BlankLine>>
  BY WireHeads DEF FeedText
<1>2. d.name = "delta" /\ HeldBack(d.block) /\ ~over
  BY <1>1 DEF FeedText, HasText, Read
<1>3. FreedData(d) \in Datum
  BY FreedDataType
<1>4. /\ carry' = SubSeq(Joined(d), Release(Joined(d)) + 1, Len(Joined(d)))
      /\ tmpl' = d.block
      /\ out' = out \o (IF Flush(d) THEN Flushed ELSE <<>>) \o Header(d) \o <<FreedData(d)>>
      /\ sent' = [sent EXCEPT ![d.block] = @ \o d.text]
      /\ pending' = <<>>
  BY <1>1, <1>2, DeltaFlush, RedactIs DEF FeedText, FreedData, Freed, Joined
<1>5. wire' = <<BlankLine>> /\ UNCHANGED <<format, reveal, rest, ended, over>>
  BY <1>1 DEF FeedText, Read, model, path
<1> QED
  BY <1>1, <1>2, <1>3, <1>4, <1>5, EmittedType

InPlace(d) == [d EXCEPT !.text = RedactAs(reveal, d.text)]

LEMMA InPlaceType ==
    ASSUME StreamTypes, NEW d \in WireData
    PROVE  /\ InPlace(d) \in Datum /\ InPlace(d).line = "data" /\ InPlace(d).name = d.name
           /\ InPlace(d).block = d.block /\ InPlace(d).ends = d.ends
<1>1. d.text \in Seq(Characters) /\ reveal \in BOOLEAN
  BY DEF WireData, StreamTypes
<1> QED
  BY <1>1, RedactedData, ZenonT(60) DEF InPlace

LEMMA RedactInPlaceDoes ==
    ASSUME StreamTypes, RedactInPlace
    PROVE  \E d \in WireData :
             /\ ~over /\ wire = <<d, BlankLine>> /\ wire' = <<BlankLine>>
             /\ pending = Header(d) /\ pending' = <<>>
             /\ d.name = "delta" /\ ~HeldBack(d.block) /\ ~Flush(d)
             /\ out' = out \o Emitted(d, InPlace(d))
             /\ sent' = [sent EXCEPT ![d.block] = @ \o d.text]
             /\ UNCHANGED <<format, reveal, rest, ended, carry, tmpl, over>>
<1>1. PICK d \in WireData : /\ wire = <<d, BlankLine>> /\ pending = Header(d)
                            /\ Head(wire) = d /\ Tail(wire) = <<BlankLine>>
  BY WireHeads DEF RedactInPlace
<1>2. d.name = "delta" /\ ~HeldBack(d.block) /\ ~over
  BY <1>1 DEF RedactInPlace, HasText, Read
<1>3. ~Flush(d)
  <2>1. d.ends => format = "openai"
    BY <1>2 DEF WireData
  <2> QED
    BY <1>2, <2>1, DeltaFlush DEF IsFlushTrigger, HeldBack
<1>4. InPlace(d) \in Datum
  BY InPlaceType
<1>5. out' = out \o Header(d) \o <<InPlace(d)>>
  BY <1>1, RedactIs DEF RedactInPlace, InPlace
<1>6. out \o <<>> = out
  BY ConcatEmptySeq DEF StreamTypes
<1>7. out' = out \o Emitted(d, InPlace(d))
  BY <1>3, <1>4, <1>5, <1>6, EmittedType
<1>8. /\ sent' = [sent EXCEPT ![d.block] = @ \o d.text] /\ pending' = <<>>
      /\ UNCHANGED <<carry, tmpl>>
  BY <1>1 DEF RedactInPlace
<1>9. wire' = <<BlankLine>> /\ UNCHANGED <<format, reveal, rest, ended, over>>
  BY <1>1 DEF RedactInPlace, Read, model, path
<1> QED
  BY <1>1, <1>2, <1>3, <1>7, <1>8, <1>9

EndOfBodyDone == /\ ~over /\ over' /\ wire' = <<>> /\ pending' = <<>>
                 /\ carry' = IF tmpl # None THEN <<>> ELSE carry
                 /\ UNCHANGED <<format, reveal, rest, sent, ended, tmpl>>

LEMMA EndOfBodyDoes ==
    ASSUME EndOfBody
    PROVE  EndOfBodyDone /\ out' = out \o Flushed \o pending
BY DEF EndOfBody, EndOfBodyDone, model, path

LEMMA EndInsideLineDoes ==
    ASSUME StreamTypes, EndInsideLine
    PROVE  /\ EndOfBodyDone
           /\ \E d \in WireData, cut \in CutLines :
                /\ wire = <<d, BlankLine>> /\ pending = Header(d)
                /\ out' = out \o pending \o <<cut>> \o (IF Flushed = <<>> THEN <<>> ELSE Tail(Flushed))
<1>1. PICK d \in WireData : wire = <<d, BlankLine>> /\ pending = Header(d) /\ Head(wire) = d
  BY WireHeads DEF EndInsideLine
<1>2. PICK n \in 0..Len(d.text) :
        out' = out \o pending \o <<CutLine(SubSeq(d.text, 1, n))>>
                   \o (IF Flushed = <<>> THEN <<>> ELSE Tail(Flushed))
  BY <1>1 DEF EndInsideLine
<1>3. CutLine(SubSeq(d.text, 1, n)) \in CutLines
  <2>1. d.text \in Seq(Characters)
    BY DEF WireData
  <2>2. SubSeq(d.text, 1, n) \in Seq(Characters)
    BY <2>1, SubSeqProperties, LenProperties
  <2> QED
    BY <2>2 DEF CutLines
<1>4. EndOfBodyDone
  BY DEF EndInsideLine, EndOfBodyDone, model, path
<1> QED
  BY <1>1, <1>2, <1>3, <1>4

LEMMA PendingType == ASSUME StreamTypes PROVE pending \in Seq(Lines)
<1>1. ASSUME NEW d \in WireData, pending = Header(d) PROVE pending \in Seq(Lines)
  BY <1>1, HeaderType
<1>2. <<>> \in Seq(Lines)
  BY EmptySeq
<1> QED
  BY <1>1, <1>2 DEF StreamTypes, WireShape

LEMMA EndOfBodyWrites ==
    ASSUME StreamTypes, EndOfBody
    PROVE  /\ EndOfBodyDone
           /\ out' = out \o (Flushed \o pending) /\ Flushed \o pending \in Seq(Lines)
<1>1. out \in Seq(Lines) /\ Flushed \in Seq(Lines) /\ pending \in Seq(Lines)
  BY FlushedType, PendingType DEF StreamTypes
<1>2. out \o Flushed \o pending = out \o (Flushed \o pending) /\ Flushed \o pending \in Seq(Lines)
  BY <1>1, LinesAssoc, ConcatProperties
<1> QED
  BY <1>2, EndOfBodyDoes

LEMMA EndInsideLineWrites ==
    ASSUME StreamTypes, EndInsideLine
    PROVE  /\ EndOfBodyDone
           /\ \E d \in WireData, cut \in CutLines, f \in Seq(Lines) :
                /\ wire = <<d, BlankLine>> /\ pending = Header(d)
                /\ f = IF Flushed = <<>> THEN <<>> ELSE Tail(Flushed)
                /\ out' = out \o (pending \o (<<cut>> \o f))
                /\ <<cut>> \o f \in Seq(Lines) /\ pending \o (<<cut>> \o f) \in Seq(Lines)
<1>1. PICK d \in WireData, cut \in CutLines :
        /\ wire = <<d, BlankLine>> /\ pending = Header(d)
        /\ out' = out \o pending \o <<cut>> \o (IF Flushed = <<>> THEN <<>> ELSE Tail(Flushed))
  BY EndInsideLineDoes
<1>2. PICK f \in Seq(Lines) : f = IF Flushed = <<>> THEN <<>> ELSE Tail(Flushed)
  BY FlushedType, HeadTailProperties, EmptySeq
<1>3. PICK c \in Seq(Lines) : c = <<cut>>
  <2>1. cut \in Lines
    BY CutLinesAre
  <2>2. <<cut>> \in Seq(Lines)
    BY <2>1
  <2> QED
    BY <2>2
<1>4. out \in Seq(Lines) /\ pending \in Seq(Lines)
  BY PendingType DEF StreamTypes
<1>5. out \o pending \o c \o f = out \o (pending \o (c \o f))
  <2>1. PICK o \in Seq(Lines), g \in Seq(Lines) : o = out /\ g = pending
    BY <1>4
  <2>2. PICK w \in Seq(Lines) : w = g \o c
    BY ConcatProperties
  <2>3. (o \o g) \o c = o \o (g \o c)
    BY LinesAssoc, ZenonT(60)
  <2>4. (o \o w) \o f = o \o (w \o f)
    BY LinesAssoc, ZenonT(60)
  <2>5. (g \o c) \o f = g \o (c \o f)
    BY LinesAssoc, ZenonT(60)
  <2> QED
    BY <2>1, <2>2, <2>3, <2>4, <2>5
<1>6. c \o f \in Seq(Lines) /\ pending \o (c \o f) \in Seq(Lines)
  BY <1>4, ConcatProperties
<1> QED
  BY <1>1, <1>2, <1>3, <1>5, <1>6, EndInsideLineDoes

\* The model puts an event on an empty wire.
Sends(d) == /\ ~over /\ wire = <<>> /\ pending = <<>>
            /\ wire' = Wire(d)
            /\ UNCHANGED <<format, reveal, sent, carry, tmpl, pending, out, over>>

LEMMA EmptyWire == ASSUME StreamTypes, wire = <<>> PROVE pending = <<>>
<1>1. \A x : <<x>> # <<>>
  OBVIOUS
<1>2. \A x, y : <<x, y>> # <<>>
  OBVIOUS
<1>3. \A x, y, z : <<x, y, z>> # <<>>
  OBVIOUS
<1> QED
  BY <1>1, <1>2, <1>3 DEF StreamTypes, WireShape

LEMMA SendTextDoes ==
    ASSUME StreamTypes, NEW b \in Blocks, NEW n \in Nat, SendText(b, n)
    PROVE  \E d \in WireData :
             /\ Sends(d) /\ Open(b) /\ UNCHANGED ended
             /\ d.name = "delta" /\ d.block = b /\ ~d.ends
             /\ d.text = SubSeq(rest[b], 1, n) /\ n \in 1..Len(rest[b])
             /\ rest' = [rest EXCEPT ![b] = SubSeq(rest[b], n + 1, Len(rest[b]))]
<1> DEFINE d == Data("delta", b, SubSeq(rest[b], 1, n), FALSE)
<1>1. rest[b] \in Seq(Characters) /\ n \in 0..Len(rest[b]) /\ n \in 1..Len(rest[b])
  BY DEF SendText, StreamTypes
<1>2. SubSeq(rest[b], 1, n) \in Seq(Characters)
  BY <1>1, CutAt
<1>3. Open(b) /\ b \in Used
  BY DEF SendText, Open
<1>4. d \in WireData
  BY <1>2, <1>3 DEF WireData, Data, Names
<1>5. Sends(d)
  BY EmptyWire DEF SendText, Sends, Idle, path
<1>6. /\ d.name = "delta" /\ d.block = b /\ ~d.ends /\ d.text = SubSeq(rest[b], 1, n)
  BY DEF Data
<1>7. rest' = [rest EXCEPT ![b] = SubSeq(rest[b], n + 1, Len(rest[b]))] /\ UNCHANGED ended
  BY DEF SendText
<1> HIDE DEF d
<1> QED
  BY <1>1, <1>3, <1>4, <1>5, <1>6, <1>7

LEMMA SendEndDoes ==
    ASSUME StreamTypes, NEW b \in Blocks, SendEnd(b)
    PROVE  \E d \in WireData :
             /\ Sends(d) /\ Open(b) /\ ended' = ended \cup {b}
             /\ d.block = b /\ d.ends
             /\ d.text = rest[b] \/ d.text = <<>>
             /\ rest' = [rest EXCEPT ![b] = <<>>]
<1> DEFINE d == IF format = "openai" /\ rest[b] # <<>>
                THEN Data("delta", b, rest[b], TRUE) ELSE Data("stop", b, <<>>, TRUE)
<1>1. rest[b] \in Seq(Characters) /\ <<>> \in Seq(Characters)
  BY DEF StreamTypes
<1>2. Open(b) /\ b \in Used
  BY DEF SendEnd, Open
<1>3. d \in WireData
  <2>1. format = "openai" => Data("delta", b, rest[b], TRUE) \in WireData
    BY <1>1, <1>2 DEF WireData, Data, Names
  <2>2. Data("stop", b, <<>>, TRUE) \in WireData
    BY <1>1, <1>2 DEF WireData, Data, Names
  <2> QED
    BY <2>1, <2>2
<1>4. Sends(d)
  BY EmptyWire DEF SendEnd, Sends, Idle, path
<1>5. d.block = b /\ d.ends /\ (d.text = rest[b] \/ d.text = <<>>)
  BY DEF Data
<1>6. rest' = [rest EXCEPT ![b] = <<>>] /\ ended' = ended \cup {b}
  BY DEF SendEnd
<1> HIDE DEF d
<1> QED
  BY <1>2, <1>3, <1>4, <1>5, <1>6

LEMMA SendOtherDoes ==
    ASSUME StreamTypes, SendOther \/ SendDone
    PROVE  \E d \in WireData :
             /\ Sends(d) /\ UNCHANGED <<rest, ended>>
             /\ d.block = None /\ d.name # "delta" /\ ~d.ends /\ d.text = <<>>
             /\ d = Done => ended = Used
<1>1. CASE SendOther
  <2> DEFINE d == Data("ping", None, <<>>, FALSE)
  <2>1. d \in WireData
    BY DEF WireData, Data, Names
  <2>2. Sends(d) /\ UNCHANGED <<rest, ended>>
    BY <1>1, EmptyWire DEF SendOther, Sends, Idle, path, model
  <2>3. d # Done /\ d.block = None /\ d.name # "delta" /\ ~d.ends /\ d.text = <<>>
    BY DEF Done, Data
  <2> HIDE DEF d
  <2> QED
    BY <2>1, <2>2, <2>3
<1>2. CASE SendDone
  <2>1. Done \in WireData
    BY DEF Done, WireData, Data, Names
  <2>2. Sends(Done) /\ UNCHANGED <<rest, ended>> /\ ended = Used
    BY <1>2, EmptyWire DEF SendDone, Sends, Idle, path, model
  <2>3. Done.block = None /\ Done.name # "delta" /\ ~Done.ends /\ Done.text = <<>>
    BY DEF Done, Data
  <2> QED
    BY <2>1, <2>2, <2>3
<1> QED
  BY <1>1, <1>2

LEMMA SameWireData ==
    ASSUME format' = format
    PROVE  Used' = Used /\ WireData' = WireData /\ \A d : Header(d)' = Header(d)
BY DEF Used, WireData, Header

LEMMA SendShape ==
    ASSUME NEW d \in WireData, Sends(d)
    PROVE  WireShape'
<1>1. Wire(d) = Header(d) \o <<d, BlankLine>>
  BY OneAndTwo DEF Wire, Header
<1>2. d \in WireData' /\ pending' = <<>> /\ Header(d)' = Header(d) /\ format' = format
  BY SameWireData DEF Sends
<1>3. CASE format = "openai"
  <2>1. wire' = <<d, BlankLine>> /\ Header(d) = <<>>
    BY <1>3 DEF Sends, Wire, Header
  <2> QED
    BY <1>2, <2>1 DEF WireShape
<1>4. CASE format # "openai"
  <2>1. wire' = <<EventLine(d.name), d, BlankLine>>
    BY <1>4 DEF Sends, Wire
  <2> QED
    BY <1>2, <1>4, <2>1 DEF WireShape
<1> QED
  BY <1>3, <1>4

-----------------------------------------------------------------------------
LEMMA TypesInit == Init => StreamTypes
<1> SUFFICES ASSUME Init PROVE StreamTypes
  OBVIOUS
<1>1. format \in Formats /\ reveal \in BOOLEAN
  BY StreamAssumption DEF Init
<1>2. <<>> \in Seq(Characters) /\ <<>> \in Seq(Lines)
  BY EmptySeq
<1>3. Texts[format] \cup {<<>>} \subseteq Seq(Characters)
  BY <1>1, <1>2, StreamAssumption
<1>4. rest \in [Blocks -> Seq(Characters)]
  BY <1>3 DEF Init
<1>5. sent \in [Blocks -> Seq(Characters)]
  BY <1>2 DEF Init
<1>6. WireShape
  BY DEF Init, WireShape
<1> QED
  BY <1>1, <1>2, <1>4, <1>5, <1>6 DEF Init, StreamTypes

LEMMA TypesStep == StreamTypes /\ [Next]_vars => StreamTypes'
<1> SUFFICES ASSUME StreamTypes, [Next]_vars PROVE StreamTypes'
  OBVIOUS
<1> USE DEF StreamTypes
<1>1. /\ <<>> \in Seq(Characters) /\ <<>> \in Seq(Lines)
      /\ <<BlankLine>> \in Seq(Lines) /\ \A cut \in CutLines : <<cut>> \in Seq(Lines)
  BY CutLinesAre DEF Lines
<1>0. MaxChunk \in Nat
  BY StreamAssumption
<1>2. ASSUME NEW d \in WireData PROVE pending = Header(d) => pending \in Seq(Lines)
  BY HeaderType
<1>3. pending \in Seq(Lines)
  BY <1>1, <1>2 DEF WireShape
<1>4. ASSUME NEW b \in Blocks, NEW n \in 1..MaxChunk, SendText(b, n) PROVE StreamTypes'
  <2>1. n \in Nat
    BY <1>0
  <2>2. PICK d \in WireData :
             /\ Sends(d) /\ UNCHANGED ended /\ n \in 1..Len(rest[b])
             /\ rest' = [rest EXCEPT ![b] = SubSeq(rest[b], n + 1, Len(rest[b]))]
    BY <1>4, <2>1, SendTextDoes
  <2>3. SubSeq(rest[b], n + 1, Len(rest[b])) \in Seq(Characters)
    <3>1. n \in 0..Len(rest[b]) /\ rest[b] \in Seq(Characters)
      BY <2>1, <2>2
    <3> QED
      BY <3>1, CutAt
  <2> QED
    BY <2>2, <2>3, SendShape, SameWireData DEF Sends
<1>5. ASSUME NEW b \in Blocks, SendEnd(b) PROVE StreamTypes'
  <2>1. PICK d \in WireData :
             /\ Sends(d) /\ Open(b) /\ ended' = ended \cup {b} /\ rest' = [rest EXCEPT ![b] = <<>>]
    BY <1>5, SendEndDoes
  <2>2. b \in Used
    BY <2>1 DEF Open
  <2> QED
    BY <1>1, <2>1, <2>2, SendShape, SameWireData DEF Sends
<1>6. CASE SendOther \/ SendDone
  <2>1. PICK d \in WireData : Sends(d) /\ UNCHANGED <<rest, ended>>
    BY <1>6, SendOtherDoes
  <2> QED
    BY <2>1, SendShape, SameWireData DEF Sends
<1>7. CASE HoldEvent
  <2>1. PICK d \in WireData :
             /\ wire' = <<d, BlankLine>> /\ pending' = Header(d)
             /\ UNCHANGED <<format, reveal, rest, sent, ended, carry, tmpl, out, over>>
    BY <1>7, HoldEventDoes
  <2>2. WireShape'
    BY <2>1, SameWireData DEF WireShape
  <2> QED
    BY <2>1, <2>2, SameWireData
<1>8. CASE PassBlank
  <2>1. /\ wire' = <<>> /\ pending' = <<>> /\ out' = out \o <<BlankLine>>
        /\ UNCHANGED <<format, reveal, rest, sent, ended, carry, tmpl, over>>
    BY <1>8, PassBlankDoes
  <2>2. WireShape'
    BY <2>1 DEF WireShape
  <2>3. out' \in Seq(Lines)
    BY <1>1, <2>1, ConcatProperties
  <2> QED
    BY <2>1, <2>2, <2>3, SameWireData
<1>9. CASE PassData
  <2>1. PICK d \in WireData :
             /\ wire' = <<BlankLine>> /\ pending' = <<>>
             /\ out' = out \o Emitted(d, d)
             /\ carry' = IF Flush(d) /\ tmpl # None THEN <<>> ELSE carry
             /\ UNCHANGED <<format, reveal, rest, sent, ended, tmpl, over>>
    BY <1>9, PassDataDoes
  <2>2. WireShape'
    BY <2>1 DEF WireShape
  <2>3. out' \in Seq(Lines)
    BY <2>1, HeaderType, EmittedType, ConcatProperties
  <2> QED
    BY <1>1, <2>1, <2>2, <2>3, SameWireData
<1>10. CASE FeedText
  <2>1. PICK d \in WireData :
             /\ wire' = <<BlankLine>> /\ pending' = <<>> /\ d.name = "delta"
             /\ out' = out \o Emitted(d, FreedData(d))
             /\ carry' = SubSeq(Joined(d), Release(Joined(d)) + 1, Len(Joined(d)))
             /\ tmpl' = d.block
             /\ sent' = [sent EXCEPT ![d.block] = @ \o d.text]
             /\ UNCHANGED <<format, reveal, rest, ended, over>>
    BY <1>10, FeedTextDoes
  <2>2. WireShape'
    BY <2>1 DEF WireShape
  <2>3. FreedData(d) \in Datum
    BY FreedDataType
  <2>4. out' \in Seq(Lines)
    BY <2>1, <2>3, EmittedType, ConcatProperties
  <2>5. d.block \in Used /\ d.text \in Seq(Characters)
    BY <2>1 DEF WireData
  <2>6. sent[d.block] \o d.text \in Seq(Characters)
    BY <2>5, UsedType, ConcatProperties
  <2>7. sent' \in [Blocks -> Seq(Characters)]
    BY <2>1, <2>6
  <2>8. carry' \in Seq(Characters)
    BY <2>1, JoinedType
  <2> QED
    BY <2>1, <2>2, <2>4, <2>5, <2>7, <2>8, SameWireData
<1>11. CASE RedactInPlace
  <2>1. PICK d \in WireData :
             /\ wire' = <<BlankLine>> /\ pending' = <<>> /\ d.name = "delta"
             /\ out' = out \o Emitted(d, InPlace(d))
             /\ sent' = [sent EXCEPT ![d.block] = @ \o d.text]
             /\ UNCHANGED <<format, reveal, rest, ended, carry, tmpl, over>>
    BY <1>11, RedactInPlaceDoes
  <2>2. WireShape'
    BY <2>1 DEF WireShape
  <2>3. d.block \in Used /\ d.text \in Seq(Characters)
    BY <2>1 DEF WireData
  <2>4. InPlace(d) \in Datum
    BY InPlaceType
  <2>5. out' \in Seq(Lines)
    BY <2>1, <2>4, EmittedType, ConcatProperties
  <2>6. sent[d.block] \o d.text \in Seq(Characters)
    BY <2>3, UsedType, ConcatProperties
  <2>7. sent' \in [Blocks -> Seq(Characters)]
    BY <2>1, <2>6
  <2> QED
    BY <2>1, <2>2, <2>5, <2>7, SameWireData
<1>12. CASE EndOfBody
  <2>1. EndOfBodyDone /\ out' = out \o Flushed \o pending
    BY <1>12, EndOfBodyDoes
  <2>2. WireShape'
    BY <2>1 DEF EndOfBodyDone, WireShape
  <2>3. out' \in Seq(Lines)
    BY <1>3, <2>1, FlushedType, ConcatProperties
  <2> QED
    BY <1>1, <2>1, <2>2, <2>3, SameWireData DEF EndOfBodyDone
<1>13. CASE EndInsideLine
  <2>1. PICK cut \in CutLines :
        /\ EndOfBodyDone
        /\ out' = out \o pending \o <<cut>> \o (IF Flushed = <<>> THEN <<>> ELSE Tail(Flushed))
    BY <1>13, EndInsideLineDoes
  <2>2. WireShape'
    BY <2>1 DEF EndOfBodyDone, WireShape
  <2>3. (IF Flushed = <<>> THEN <<>> ELSE Tail(Flushed)) \in Seq(Lines)
    BY FlushedType, HeadTailProperties
  <2>4. out' \in Seq(Lines)
    BY <1>1, <1>3, <2>1, <2>3, ConcatProperties
  <2> QED
    BY <1>1, <2>1, <2>2, <2>4, SameWireData DEF EndOfBodyDone
<1>14. CASE UNCHANGED vars
  <2>1. WireShape'
    BY <1>14, SameWireData DEF vars, path, WireShape
  <2> QED
    BY <1>14, <2>1, SameWireData DEF vars, path
<1> QED
  BY <1>4, <1>5, <1>6, <1>7, <1>8, <1>9, <1>10, <1>11, <1>12, <1>13, <1>14 DEF Next, HandleLine

\* The wire carries one event at a time, its header read before its data; every line
\* and every text is of the kind its reader expects.
THEOREM StreamTypesInvariance == Spec => []StreamTypes
BY TypesInit, TypesStep, PTL DEF Spec

-----------------------------------------------------------------------------
(* Every event line is followed by its data *)

PairedIn(lines) ==
    \A i \in 1..(Len(lines) - 1) :
        lines[i].line = "event" =>
            \/ lines[i + 1].line = "cut"
            \/ lines[i + 1].line = "data" /\ lines[i + 1].name = lines[i].name

Complete(lines) == lines = <<>> \/ lines[Len(lines)].line # "event"

\* No event line waits for its data, unless the body is over.
PairedInv == PairedIn(out) /\ (over \/ Complete(out))

LEMMA PairedConcat ==
    ASSUME NEW s \in Seq(Lines), NEW t \in Seq(Lines), PairedIn(s), PairedIn(t), Complete(s)
    PROVE  PairedIn(s \o t) /\ (Complete(t) => Complete(s \o t))
<1>1. PICK m \in Nat, n \in Nat : m = Len(s) /\ n = Len(t)
  BY LenProperties
<1>2. PICK u : u = s \o t
  OBVIOUS
<1>3. /\ Len(u) = m + n
      /\ \A i \in 1..m : u[i] = s[i]
      /\ \A j \in 1..n : u[m + j] = t[j]
  BY <1>1, <1>2, Parts
<1>4. ASSUME NEW i \in 1..(m + n - 1), u[i].line = "event"
      PROVE  u[i + 1].line = "cut" \/ (u[i + 1].line = "data" /\ u[i + 1].name = u[i].name)
  <2>1. CASE i < m
    <3>1. i \in 1..m /\ i + 1 \in 1..m /\ i \in 1..(m - 1)
      BY <2>1
    <3>2. u[i] = s[i] /\ u[i + 1] = s[i + 1]
      BY <1>3, <3>1
    <3> QED
      BY <1>1, <1>4, <3>1, <3>2 DEF PairedIn
  <2>2. CASE i = m
    <3>1. i \in 1..m /\ m # 0
      BY <2>2
    <3>2. s[m].line = "event" /\ s # <<>>
      BY <1>1, <1>3, <1>4, <2>2, <3>1
    <3> QED
      BY <1>1, <3>2 DEF Complete
  <2>3. CASE i > m
    <3>1. PICK j \in Nat : j = i - m
      <4>1. i - m \in Nat
        BY <2>3
      <4> QED
        BY <4>1
    <3>2. j \in 1..n /\ j + 1 \in 1..n /\ j \in 1..(n - 1) /\ i = m + j /\ i + 1 = m + (j + 1)
      BY <2>3, <3>1
    <3>3. u[m + j] = t[j] /\ u[m + (j + 1)] = t[j + 1]
      BY <1>3, <3>2
    <3>4. u[i] = t[j] /\ u[i + 1] = t[j + 1]
      BY <3>2, <3>3
    <3> QED
      BY <1>1, <1>4, <3>2, <3>4 DEF PairedIn
  <2> QED
    BY <2>1, <2>2, <2>3
<1>5. ASSUME Complete(t) PROVE Complete(u)
  <2>1. CASE t = <<>>
    <3>1. u = s
      BY <1>2, <2>1, ConcatEmptySeq
    <3> QED
      BY <3>1
  <2>2. CASE t # <<>>
    <3>1. n \in 1..n
      BY <1>1, <2>2, EmptySeq
    <3> QED
      BY <1>1, <1>3, <1>5, <2>2, <3>1 DEF Complete
  <2> QED
    BY <2>1, <2>2
<1> QED
  BY <1>2, <1>3, <1>4, <1>5 DEF PairedIn

LEMMA PairedShort ==
    ASSUME NEW x, x.line = "data", NEW z, z.line \notin {"event"}
    PROVE  /\ PairedIn(<<>>) /\ Complete(<<>>)
           /\ PairedIn(<<z>>) /\ Complete(<<z>>)
           /\ PairedIn(<<EventLine(x.name)>>)
           /\ PairedIn(<<x, z>>) /\ Complete(<<x, z>>)
           /\ PairedIn(<<EventLine(x.name), x>>) /\ Complete(<<EventLine(x.name), x>>)
           /\ PairedIn(<<EventLine(x.name), x, z>>) /\ Complete(<<EventLine(x.name), x, z>>)
<1> DEFINE e == EventLine(x.name)
<1>1. e.line = "event" /\ e.name = x.name
  BY DEF EventLine
<1> HIDE DEF e
<1>2. PairedIn(<<>>) /\ Complete(<<>>)
  BY DEF PairedIn, Complete
<1>3. PairedIn(<<z>>) /\ Complete(<<z>>) /\ PairedIn(<<e>>)
  BY DEF PairedIn, Complete
<1>4. PairedIn(<<x, z>>) /\ Complete(<<x, z>>)
  BY DEF PairedIn, Complete
<1>5. PairedIn(<<e, x>>) /\ Complete(<<e, x>>)
  BY <1>1 DEF PairedIn, Complete
<1>6. PairedIn(<<e, x, z>>) /\ Complete(<<e, x, z>>)
  BY <1>1 DEF PairedIn, Complete
<1> QED
  BY <1>1, <1>2, <1>3, <1>4, <1>5, <1>6 DEF e

LEMMA HeaderPaired ==
    ASSUME NEW x, x.line = "data", NEW z, z.line \notin {"event"}
    PROVE  /\ PairedIn(Header(x))
           /\ Header(x) \o <<x>> = IF format = "openai" THEN <<x>> ELSE <<EventLine(x.name), x>>
           /\ Header(x) \o <<x, z>> = IF format = "openai" THEN <<x, z>> ELSE <<EventLine(x.name), x, z>>
           /\ PairedIn(Header(x) \o <<x>>) /\ Complete(Header(x) \o <<x>>)
           /\ PairedIn(Header(x) \o <<x, z>>) /\ Complete(Header(x) \o <<x, z>>)
<1>2. x.line \notin {"event"}
  OBVIOUS
<1>3. PairedIn(<<x>>) /\ Complete(<<x>>)
  BY <1>2, PairedShort
<1>4. /\ Header(x) \o <<x>> = IF format = "openai" THEN <<x>> ELSE <<EventLine(x.name), x>>
      /\ Header(x) \o <<x, z>> = IF format = "openai" THEN <<x, z>> ELSE <<EventLine(x.name), x, z>>
  BY OneAndOne, OneAndTwo, ZenonT(60) DEF Header
<1>5. PairedIn(Header(x))
  BY PairedShort DEF Header
<1> QED
  BY <1>3, <1>4, <1>5, PairedShort

LEMMA FlushedPaired ==
    ASSUME StreamTypes
    PROVE  /\ PairedIn(Flushed) /\ Complete(Flushed)
           /\ Flushed # <<>> => PairedIn(Tail(Flushed)) /\ Complete(Tail(Flushed))
<1>1. BlankLine.line \notin {"event"} /\ FlushData.line = "data"
  BY DEF BlankLine, FlushData, Data
<1>2. CASE Flushed = <<>>
  BY <1>1, <1>2, PairedShort
<1>3. CASE Flushed # <<>>
  <2>1. Flushed = IF format = "openai" THEN <<FlushData, BlankLine>>
                  ELSE <<EventLine(FlushData.name), FlushData, BlankLine>>
    BY <1>1, <1>3, FlushedIs, HeaderPaired
  <2>2. Tail(Flushed) = IF format = "openai" THEN <<BlankLine>> ELSE <<FlushData, BlankLine>>
    <3>1. \A x, y, z : Tail(<<x, y>>) = <<y>> /\ Tail(<<x, y, z>>) = <<y, z>>
      OBVIOUS
    <3> QED
      BY <2>1, <3>1
  <2> QED
    BY <1>1, <2>1, <2>2, PairedShort
<1> QED
  BY <1>2, <1>3

LEMMA EmittedPaired ==
    ASSUME StreamTypes, NEW d \in WireData, NEW data \in Datum, data.name = d.name
    PROVE  PairedIn(Emitted(d, data)) /\ Complete(Emitted(d, data))
<1>1. Header(d) = Header(data) /\ data.line = "data" /\ BlankLine.line \notin {"event"}
  BY DEF Header, Datum, BlankLine
<1>2. PairedIn(Header(d) \o <<data>>) /\ Complete(Header(d) \o <<data>>)
  BY <1>1, HeaderPaired
<1>3. Header(d) \o <<data>> \in Seq(Lines)
  BY HeaderType, ConcatProperties DEF Lines
<1>4. PICK f \in Seq(Lines) : f = IF Flush(d) THEN Flushed ELSE <<>>
  BY FlushedType, EmptySeq
<1>5. PairedIn(f) /\ Complete(f)
  BY <1>1, <1>4, FlushedPaired, PairedShort
<1> QED
  BY <1>2, <1>3, <1>4, <1>5, PairedConcat DEF Emitted

LEMMA PairedStep == StreamTypes /\ PairedInv /\ [Next]_vars => PairedInv'
<1> SUFFICES ASSUME StreamTypes, PairedInv, [Next]_vars PROVE PairedInv'
  OBVIOUS
<1> USE DEF PairedInv
<1>1. /\ out \in Seq(Lines) /\ <<BlankLine>> \in Seq(Lines)
      /\ \A cut \in CutLines : <<cut>> \in Seq(Lines)
  BY CutLinesAre DEF StreamTypes, Lines
<1>2. BlankLine.line # "event"
  BY DEF BlankLine
<1>3. ASSUME NEW t \in Seq(Lines), PairedIn(t), Complete(t) \/ over', ~over, out' = out \o t
      PROVE  PairedInv'
  BY <1>1, <1>3, PairedConcat
<1>4. ASSUME UNCHANGED <<out, over>> PROVE PairedInv'
  BY <1>4
<1>5. pending \in Seq(Lines) /\ PairedIn(pending)
  <2>1. ASSUME NEW d \in WireData, pending = Header(d) PROVE pending \in Seq(Lines) /\ PairedIn(pending)
    <3>1. d.line = "data"
      BY DEF WireData
    <3> QED
      BY <1>2, <2>1, <3>1, HeaderType, HeaderPaired
  <2>2. PairedIn(<<>>) /\ <<>> \in Seq(Lines)
    BY EmptySeq DEF PairedIn
  <2> QED
    BY <2>1, <2>2 DEF StreamTypes, WireShape
<1>6. CASE (\E b \in Blocks, n \in 1..MaxChunk : SendText(b, n)) \/ (\E b \in Blocks : SendEnd(b))
           \/ SendOther \/ SendDone \/ UNCHANGED vars
  BY <1>4, <1>6 DEF SendText, SendEnd, SendOther, SendDone, vars, path
<1>7. CASE HoldEvent
  BY <1>4, <1>7, HoldEventDoes
<1>8. CASE PassBlank
  <2>1. out' = out \o <<BlankLine>> /\ ~over
    BY <1>8, PassBlankDoes
  <2>2. PairedIn(<<BlankLine>>) /\ Complete(<<BlankLine>>)
    BY <1>2 DEF PairedIn, Complete
  <2> QED
    BY <1>1, <1>3, <2>1, <2>2
<1>9. CASE PassData
  <2>1. PICK d \in WireData : ~over /\ out' = out \o Emitted(d, d)
    BY <1>9, PassDataDoes
  <2>2. d \in Datum
    BY HeaderType
  <2> QED
    BY <1>3, <2>1, <2>2, EmittedType, EmittedPaired
<1>10. CASE FeedText
  <2>1. PICK d \in WireData : ~over /\ out' = out \o Emitted(d, FreedData(d))
    BY <1>10, FeedTextDoes
  <2>2. FreedData(d) \in Datum /\ FreedData(d).name = d.name
    BY FreedDataType
  <2> QED
    BY <1>3, <2>1, <2>2, EmittedType, EmittedPaired
<1>11. CASE RedactInPlace
  <2>1. PICK d \in WireData : ~over /\ out' = out \o Emitted(d, InPlace(d))
    BY <1>11, RedactInPlaceDoes
  <2>2. InPlace(d) \in Datum /\ InPlace(d).name = d.name
    BY InPlaceType
  <2> QED
    BY <1>3, <2>1, <2>2, EmittedType, EmittedPaired
<1>12. CASE EndOfBody
  <2>1. ~over /\ over' /\ out' = out \o Flushed \o pending
    BY <1>12, EndOfBodyDoes DEF EndOfBodyDone
  <2>2. out \o Flushed \o pending = out \o (Flushed \o pending) /\ Flushed \o pending \in Seq(Lines)
    BY <1>1, <1>5, FlushedType, LinesAssoc, ConcatProperties
  <2>3. PairedIn(Flushed \o pending)
    BY <1>5, FlushedType, FlushedPaired, PairedConcat
  <2> QED
    BY <1>3, <2>1, <2>2, <2>3
<1>13. CASE EndInsideLine
  <2>1. PICK d \in WireData, cut \in CutLines :
          /\ ~over /\ over' /\ pending = Header(d)
          /\ out' = out \o pending \o <<cut>> \o (IF Flushed = <<>> THEN <<>> ELSE Tail(Flushed))
    BY <1>13, EndInsideLineDoes DEF EndOfBodyDone
  <2>2. PICK f \in Seq(Lines) : f = IF Flushed = <<>> THEN <<>> ELSE Tail(Flushed)
    BY FlushedType, HeadTailProperties, EmptySeq
  <2>3. PairedIn(f)
    <3>1. PairedIn(<<>>)
      BY DEF PairedIn
    <3> QED
      BY <2>2, <3>1, FlushedPaired
  <2>4. out' = out \o (pending \o (<<cut>> \o f))
    <3>1. out' = out \o pending \o <<cut>> \o f
      BY <2>1, <2>2
    <3>2. out \o pending \o <<cut>> \o f = out \o (pending \o (<<cut>> \o f))
      <4>1. PICK o \in Seq(Lines), g \in Seq(Lines), k \in Seq(Lines) : o = out /\ g = pending /\ k = <<cut>>
        BY <1>1, <1>5
      <4>2. PICK w \in Seq(Lines) : w = g \o k
        BY ConcatProperties
      <4>3. (o \o g) \o k = o \o (g \o k)
        BY LinesAssoc, SMTT(30)
      <4>4. (o \o w) \o f = o \o (w \o f)
        BY LinesAssoc, SMTT(30)
      <4>5. (g \o k) \o f = g \o (k \o f)
        BY LinesAssoc, ZenonT(60)
      <4> QED
        BY <4>1, <4>2, <4>3, <4>4, <4>5
    <3> QED
      BY <3>1, <3>2
  <2>5. pending \o <<cut>> \in Seq(Lines) /\ PairedIn(pending \o <<cut>>)
        /\ Complete(pending \o <<cut>>)
    <3>4. pending \o <<cut>> = IF format = "openai" THEN <<cut>> ELSE <<EventLine(d.name), cut>>
      BY <2>1, OneAndOne DEF Header
    <3>5. PairedIn(<<cut>>) /\ Complete(<<cut>>)
      BY CutLinesAre DEF PairedIn, Complete
    <3>6. PairedIn(<<EventLine(d.name), cut>>) /\ Complete(<<EventLine(d.name), cut>>)
      BY CutLinesAre DEF PairedIn, Complete
    <3> QED
      BY <1>1, <1>5, <3>4, <3>5, <3>6, ConcatProperties
  <2>6. pending \o (<<cut>> \o f) = (pending \o <<cut>>) \o f
    BY <1>1, <1>5, LinesAssoc
  <2>7. (pending \o <<cut>>) \o f \in Seq(Lines) /\ PairedIn((pending \o <<cut>>) \o f)
    BY <2>3, <2>5, PairedConcat, ConcatProperties
  <2> QED
    BY <1>3, <2>1, <2>4, <2>6, <2>7
<1> QED
  BY <1>6, <1>7, <1>8, <1>9, <1>10, <1>11, <1>12, <1>13 DEF Next, HandleLine

\* The client reads every event line directly before the data it names, also around
\* an event the gateway makes, and where the body breaks off (stream.go:50).
THEOREM EventsStayPaired == Spec => []EventsPaired
<1>1. Init => PairedInv
  BY DEF Init, PairedInv, PairedIn, Complete
<1>2. PairedInv => EventsPaired
  BY DEF PairedInv, PairedIn, EventsPaired
<1> QED
  BY <1>1, <1>2, TypesInit, TypesStep, PairedStep, PTL DEF Spec

-----------------------------------------------------------------------------
(* The order of texts and ends *)

\* The choices of an OpenAI answer share one carry, and what is flushed goes to choice
\* 0 (stream.go:243): what follows is about answers with one choice (OneChoice).

Has(lines, l) == \E i \in 1..Len(lines) : lines[i] = l

\* The line ends block b; it is the last text of block b.
Ends(l, b)     == l.line = "data" /\ l.name # "delta" /\ l.ends /\ l.block = b
LastText(l, b) == l.line = "data" /\ l.name = "delta" /\ l.ends /\ l.block = b

Stopped(lines, b)  == \E l \in Lines : Has(lines, l) /\ Ends(l, b)
Finished(lines, b) == \E l \in Lines : Has(lines, l) /\ LastText(l, b)

Unread(w, d) == d.line = "data" /\ Has(w, d)

\* Anthropic has sent all of the blocks before b.
InTurn(b) == format = "anthropic" => \A a \in Blocks : a < b => a \in ended

\* What is known of a data line on the wire.
WireInOrder(d) ==
    /\ d.block # None =>
        /\ ~Stopped(out, d.block) /\ ~Finished(out, d.block)
        /\ d.ends <=> d.block \in ended
        /\ InTurn(d.block)
        /\ carry # <<>> => tmpl = d.block
    /\ d = Done => ended = Used

\* What is held is of a block whose end the client has not been given.
HeldAlive ==
    carry # <<>> =>
        /\ tmpl # None /\ ~over /\ ~Stopped(out, tmpl)
        /\ tmpl \in ended =>
              \/ Finished(out, tmpl)
              \/ \E d \in WireData : Unread(wire, d) /\ d.ends /\ d.block = tmpl

Order ==
    /\ \A b \in Blocks : Stopped(out, b) => b \in ended
    /\ \A b \in Blocks : Finished(out, b) => b \in ended /\ format = "openai"
    /\ \A d \in WireData : Unread(wire, d) => WireInOrder(d)
    /\ tmpl # None => HeldBack(tmpl) /\ InTurn(tmpl)
    /\ HeldAlive

LEMMA HasConcat ==
    ASSUME NEW X, NEW s \in Seq(X), NEW t \in Seq(X), NEW l
    PROVE  Has(s \o t, l) <=> Has(s, l) \/ Has(t, l)
<1>1. PICK m \in Nat, n \in Nat : m = Len(s) /\ n = Len(t)
  BY LenProperties
<1>2. PICK u : u = s \o t
  OBVIOUS
<1>3. /\ Len(u) = m + n
      /\ \A i \in 1..m : u[i] = s[i]
      /\ \A j \in 1..n : u[m + j] = t[j]
  BY <1>1, <1>2, Parts, SMTT(30)
<1>4. ASSUME NEW i \in 1..(m + n), u[i] = l PROVE Has(s, l) \/ Has(t, l)
  <2>1. CASE i <= m
    <3>1. i \in 1..m
      BY <2>1
    <3> QED
      BY <1>1, <1>3, <1>4, <3>1 DEF Has
  <2>2. CASE i > m
    <3>1. i - m \in 1..n /\ m + (i - m) = i
      BY <2>2
    <3>2. t[i - m] = l
      BY <1>3, <1>4, <3>1
    <3> QED
      BY <1>1, <3>1, <3>2 DEF Has
  <2> QED
    BY <2>1, <2>2
<1>5. ASSUME NEW i \in 1..m, s[i] = l PROVE Has(u, l)
  <2>1. i \in 1..(m + n) /\ u[i] = l
    BY <1>3, <1>5
  <2> QED
    BY <1>3, <2>1 DEF Has
<1>6. ASSUME NEW j \in 1..n, t[j] = l PROVE Has(u, l)
  <2>1. m + j \in 1..(m + n) /\ u[m + j] = l
    BY <1>3, <1>6
  <2> QED
    BY <1>3, <2>1 DEF Has
<1> QED
  BY <1>1, <1>2, <1>3, <1>4, <1>5, <1>6 DEF Has

LEMMA HasThree ==
    ASSUME NEW l, NEW x, NEW y, NEW z
    PROVE  Has(<<x, y, z>>, l) <=> l = x \/ l = y \/ l = z
<1>1. /\ Len(<<x, y, z>>) = 3 /\ <<x, y, z>>[1] = x /\ <<x, y, z>>[2] = y /\ <<x, y, z>>[3] = z
      /\ 1 \in 1..3 /\ 2 \in 1..3 /\ 3 \in 1..3 /\ \A i \in 1..3 : i = 1 \/ i = 2 \/ i = 3
  OBVIOUS
<1> QED
  BY <1>1 DEF Has

LEMMA HasTwo ==
    ASSUME NEW l, NEW x, NEW y
    PROVE  Has(<<x, y>>, l) <=> l = x \/ l = y
<1>1. /\ Len(<<x, y>>) = 2 /\ <<x, y>>[1] = x /\ <<x, y>>[2] = y
      /\ 1 \in 1..2 /\ 2 \in 1..2 /\ \A i \in 1..2 : i = 1 \/ i = 2
  OBVIOUS
<1> QED
  BY <1>1 DEF Has

LEMMA HasOne ==
    ASSUME NEW l, NEW x
    PROVE  ~Has(<<>>, l) /\ (Has(<<x>>, l) <=> l = x)
<1>1. Len(<<x>>) = 1 /\ <<x>>[1] = x /\ \A i \in 1..1 : i = 1
  OBVIOUS
<1> QED
  BY <1>1 DEF Has

LEMMA EndsConcat ==
    ASSUME NEW s \in Seq(Lines), NEW t \in Seq(Lines), NEW b
    PROVE  /\ Stopped(s \o t, b) <=> Stopped(s, b) \/ Stopped(t, b)
           /\ Finished(s \o t, b) <=> Finished(s, b) \/ Finished(t, b)
BY HasConcat DEF Stopped, Finished

LEMMA UnreadShort ==
    ASSUME NEW x, x.line = "data", NEW d
    PROVE  /\ ~Unread(<<>>, d) /\ ~Unread(<<BlankLine>>, d)
           /\ Unread(<<x, BlankLine>>, d) <=> d = x
           /\ Unread(<<EventLine(x.name), x, BlankLine>>, d) <=> d = x
           /\ Unread(Wire(x), d) <=> d = x
<1> DEFINE e == EventLine(x.name)
           z == BlankLine
<1>1. e.line = "event" /\ z.line = "blank"
  BY DEF EventLine, BlankLine
<1>2. Wire(x) = IF format = "openai" THEN <<x, z>> ELSE <<e, x, z>>
  BY DEF Wire
<1> HIDE DEF e, z
<1>3. ~Has(<<>>, d) /\ (Has(<<z>>, d) <=> d = z)
  BY HasOne
<1>4. Has(<<x, z>>, d) <=> d = x \/ d = z
  BY HasTwo
<1>5. Has(<<e, x, z>>, d) <=> d = e \/ d = x \/ d = z
  BY HasThree
<1>6. /\ ~Unread(<<>>, d) /\ ~Unread(<<z>>, d)
      /\ Unread(<<x, z>>, d) <=> d = x
      /\ Unread(<<e, x, z>>, d) <=> d = x
  BY <1>1, <1>3, <1>4, <1>5 DEF Unread
<1> QED
  BY <1>2, <1>6 DEF e, z

\* The data lines among those that are written.
LEMMA FlushedHas ==
    ASSUME StreamTypes, NEW l, l.line = "data"
    PROVE  /\ Has(Flushed, l) => l = FlushData /\ carry # <<>> /\ tmpl # None
           /\ Flushed # <<>> /\ Has(Tail(Flushed), l) => l = FlushData /\ carry # <<>> /\ tmpl # None
<1>1. BlankLine.line = "blank" /\ EventLine(FlushData.name).line = "event" /\ FlushData.line = "data"
  BY DEF BlankLine, EventLine, FlushData, Data
<1>2. CASE Flushed = <<>>
  BY <1>2, HasOne
<1>3. CASE Flushed # <<>>
  <2>1. carry # <<>> /\ tmpl # None
    BY <1>3, FlushedIs
  <2>2. Flushed = IF format = "openai" THEN <<FlushData, BlankLine>>
                  ELSE <<EventLine(FlushData.name), FlushData, BlankLine>>
    BY <2>1, FlushedIs, OneAndTwo DEF Header
  <2>3. Tail(Flushed) = IF format = "openai" THEN <<BlankLine>> ELSE <<FlushData, BlankLine>>
    <3>1. \A x, y, z : Tail(<<x, y>>) = <<y>> /\ Tail(<<x, y, z>>) = <<y, z>>
      OBVIOUS
    <3> QED
      BY <2>2, <3>1
  <2> DEFINE e == EventLine(FlushData.name)
             x == FlushData
             z == BlankLine
  <2> HIDE DEF e, x, z
  <2>4. Has(<<z>>, l) <=> l = z
    BY HasOne
  <2>5. Has(<<x, z>>, l) <=> l = x \/ l = z
    BY HasTwo
  <2>6. Has(<<e, x, z>>, l) <=> l = e \/ l = x \/ l = z
    BY HasThree
  <2>7. l # e /\ l # z
    BY <1>1 DEF e, z
  <2>8. Has(Flushed, l) => l = x
    BY <2>2, <2>5, <2>6, <2>7 DEF e, x, z
  <2>9. Has(Tail(Flushed), l) => l = x
    BY <2>3, <2>4, <2>5, <2>7 DEF e, x, z
  <2> QED
    BY <2>1, <2>8, <2>9 DEF x
<1> QED
  BY <1>2, <1>3

LEMMA HeaderHas == ASSUME NEW d, NEW l, l.line = "data" PROVE ~Has(Header(d), l)
<1>1. EventLine(d.name).line = "event"
  BY DEF EventLine
<1> QED
  BY <1>1, HasOne DEF Header

LEMMA EmittedHas ==
    ASSUME StreamTypes, NEW d \in WireData, NEW data \in Datum, NEW l
    PROVE  /\ Has(Emitted(d, data), data)
           /\ l.line = "data" /\ Has(Emitted(d, data), l) =>
                 l = data \/ (l = FlushData /\ Flush(d) /\ carry # <<>> /\ tmpl # None)
<1>1. PICK f \in Seq(Lines) : f = IF Flush(d) THEN Flushed ELSE <<>>
  BY FlushedType, EmptySeq
<1>2. /\ Header(d) \in Seq(Lines) /\ <<data>> \in Seq(Lines)
      /\ Header(d) \o <<data>> \in Seq(Lines)
  BY HeaderType, ConcatProperties DEF Lines
<1>3. \A x : Has(Emitted(d, data), x) <=> Has(f, x) \/ Has(Header(d), x) \/ Has(<<data>>, x)
  BY <1>1, <1>2, HasConcat, ZenonT(60) DEF Emitted
<1>4. \A x : Has(<<data>>, x) <=> x = data
  BY HasOne
<1>5. l.line = "data" /\ Has(f, l) => l = FlushData /\ Flush(d) /\ carry # <<>> /\ tmpl # None
  BY <1>1, FlushedHas, HasOne
<1> QED
  BY <1>3, <1>4, <1>5, HeaderHas

\* What a step adds to the ends the client has been given.
LEMMA EmittedEnds ==
    ASSUME StreamTypes, NEW d \in WireData, NEW data \in Datum, NEW b
    PROVE  /\ Stopped(Emitted(d, data), b) => Ends(data, b)
           /\ Finished(Emitted(d, data), b) <=> LastText(data, b)
<1>1. FlushData.name = "delta" /\ ~FlushData.ends /\ data \in Lines
  BY DEF FlushData, Data, Lines
<1>2. ASSUME NEW l \in Lines, Has(Emitted(d, data), l), l.line = "data"
      PROVE  l = data \/ l = FlushData
  BY <1>2, EmittedHas
<1> QED
  BY <1>1, <1>2, EmittedHas DEF Stopped, Finished, Ends, LastText

LEMMA NoEnds ==
    ASSUME StreamTypes, NEW b, NEW d
    PROVE  /\ ~Stopped(Flushed, b) /\ ~Finished(Flushed, b)
           /\ Flushed # <<>> => ~Stopped(Tail(Flushed), b) /\ ~Finished(Tail(Flushed), b)
           /\ ~Stopped(Header(d), b) /\ ~Finished(Header(d), b)
           /\ ~Stopped(<<BlankLine>>, b) /\ ~Finished(<<BlankLine>>, b)
           /\ \A cut \in CutLines : ~Stopped(<<cut>>, b) /\ ~Finished(<<cut>>, b)
           /\ ~Stopped(<<>>, b) /\ ~Finished(<<>>, b)
<1>1. FlushData.name = "delta" /\ ~FlushData.ends
  BY DEF FlushData, Data
<1>2. BlankLine.line # "data" /\ \A cut \in CutLines : cut.line # "data"
  BY CutLinesAre DEF BlankLine
<1> QED
  BY <1>1, <1>2, FlushedHas, HeaderHas, HasOne DEF Stopped, Finished, Ends, LastText

LEMMA EndedIsLasting == ended \subseteq ended' /\ format' = format => \A b : InTurn(b) => InTurn(b)'
BY DEF InTurn

\* The order does not depend on more than this.
LEMMA OrderSame ==
    ASSUME StreamTypes, Order, NEW t \in Seq(Lines), out' = out \o t,
           \A b : ~Stopped(t, b) /\ ~Finished(t, b),
           UNCHANGED <<format, ended, tmpl>>, carry' = carry \/ carry' = <<>>, over' = over \/ carry' = <<>>,
           \A d \in WireData : Unread(wire', d) <=> Unread(wire, d)
    PROVE  Order'
<1>1. \A b : (Stopped(out', b) <=> Stopped(out, b)) /\ (Finished(out', b) <=> Finished(out, b))
  BY EndsConcat DEF StreamTypes
<1>2. WireData' = WireData /\ Used' = Used
  BY SameWireData
<1>3. ASSUME NEW d \in WireData, Unread(wire', d) PROVE WireInOrder(d)'
  <2>1. WireInOrder(d)
    BY <1>3 DEF Order
  <2>2. InTurn(d.block) => InTurn(d.block)'
    BY EndedIsLasting
  <2> QED
    BY <1>1, <1>2, <2>1, <2>2 DEF WireInOrder
<1>4. tmpl' # None => HeldBack(tmpl)' /\ InTurn(tmpl)'
  <2>1. tmpl # None => HeldBack(tmpl) /\ InTurn(tmpl)
    BY DEF Order
  <2> QED
    BY <2>1 DEF HeldBack, InTurn
<1>5. HeldAlive'
  <2>1. HeldAlive
    BY DEF Order
  <2> QED
    BY <1>1, <1>2, <2>1 DEF HeldAlive
<1>6. \A b \in Blocks : Stopped(out', b) => b \in ended'
  BY <1>1 DEF Order
<1>7. \A b \in Blocks : Finished(out', b) => b \in ended' /\ format' = "openai"
  BY <1>1 DEF Order
<1> QED
  BY <1>2, <1>3, <1>4, <1>5, <1>6, <1>7 DEF Order

\* While nothing is on the wire, what is held is of the block that is open.
LEMMA OpenIsHeld ==
    ASSUME OneChoice, StreamTypes, Order, wire = <<>>, NEW b \in Blocks, Open(b), carry # <<>>
    PROVE  tmpl = b
<1>1. \A d : ~Unread(wire, d)
  BY HasOne DEF Unread
<1>2. tmpl # None /\ (tmpl \in ended => Finished(out, tmpl)) /\ HeldBack(tmpl) /\ InTurn(tmpl)
  BY <1>1 DEF Order, HeldAlive
<1>3. tmpl \in Used /\ b \in Used /\ b \notin ended
  BY <1>2 DEF StreamTypes, Open
<1>4. CASE format = "openai"
  <2>1. ChoiceSet \subseteq {1}
    BY <1>4 DEF OneChoice, StreamTypes
  <2> QED
    BY <1>3, <1>4, <2>1 DEF Used
<1>5. CASE format = "anthropic"
  <2>1. tmpl \in Blocks /\ tmpl \in Nat /\ b \in Nat
    BY <1>3, UsedType, StreamAssumption
  <2>2. tmpl \notin ended
    BY <1>2, <1>5, <2>1 DEF Order
  <2>3. ~(tmpl < b)
    BY <1>5, <2>1, <2>2 DEF Open
  <2>4. ~(b < tmpl)
    BY <1>2, <1>3, <1>5 DEF InTurn
  <2> QED
    BY <2>1, <2>3, <2>4
<1> QED
  BY <1>2, <1>4, <1>5 DEF HeldBack

\* A block that is sent text of, or ended, is alive and in turn.
LEMMA OrderSend ==
    ASSUME OneChoice, StreamTypes, Order, NEW d \in WireData, Sends(d), NEW b \in Blocks, Open(b),
           d.block = b, d # Done, (~d.ends /\ UNCHANGED ended) \/ (d.ends /\ ended' = ended \cup {b})
    PROVE  Order'
<1>1. /\ out' = out /\ carry' = carry /\ tmpl' = tmpl /\ over' = over /\ format' = format
      /\ wire = <<>> /\ wire' = Wire(d) /\ ended \subseteq ended' /\ ~over
  BY DEF Sends
<1>2. WireData' = WireData /\ Used' = Used
  BY <1>1, SameWireData
<1>3. d.line = "data"
  BY DEF WireData
<1>4. \A e : (Unread(wire', e) <=> e = d) /\ ~Unread(wire, e)
  BY <1>1, <1>3, UnreadShort
<1>5. b \in Used /\ b \notin ended /\ InTurn(b)
  BY DEF Open, InTurn
<1>6. ~Stopped(out, b) /\ ~Finished(out, b)
  BY <1>5 DEF Order
<1>7. carry # <<>> => tmpl = b
  BY <1>1, OpenIsHeld
<1>8. WireInOrder(d)'
  <2>1. InTurn(b)'
    BY <1>1, <1>5, EndedIsLasting
  <2>2. d.ends <=> b \in ended'
    BY <1>5
  <2> QED
    BY <1>1, <1>6, <1>7, <2>1, <2>2 DEF WireInOrder
<1>9. tmpl' # None => HeldBack(tmpl)' /\ InTurn(tmpl)'
  <2>1. tmpl # None => HeldBack(tmpl) /\ InTurn(tmpl)
    BY DEF Order
  <2>2. InTurn(tmpl) => InTurn(tmpl)'
    BY <1>1 DEF InTurn
  <2> QED
    BY <1>1, <2>1, <2>2 DEF HeldBack
<1>10. HeldAlive'
  <2> SUFFICES ASSUME carry # <<>>
               PROVE  /\ tmpl # None /\ ~over /\ ~Stopped(out, tmpl)
                      /\ tmpl \in ended' =>
                            \/ Finished(out, tmpl)
                            \/ d.ends /\ d.block = tmpl
    BY <1>1, <1>2, <1>4 DEF HeldAlive
  <2>1. tmpl # None /\ ~Stopped(out, tmpl) /\ (tmpl \in ended => Finished(out, tmpl))
    BY <1>4 DEF Order, HeldAlive
  <2> QED
    BY <1>1, <2>1
<1>11. \A c \in Blocks : Stopped(out', c) => c \in ended'
  BY <1>1 DEF Order
<1>12. \A c \in Blocks : Finished(out', c) => c \in ended' /\ format' = "openai"
  BY <1>1 DEF Order
<1> QED
  BY <1>2, <1>4, <1>8, <1>9, <1>10, <1>11, <1>12 DEF Order

\* Nothing is left on the wire and t is written, with which no more ends than ended says.
LEMMA OrderData ==
    ASSUME StreamTypes, Order, NEW t \in Seq(Lines), out' = out \o t,
           UNCHANGED <<format, ended>>, \A d : ~Unread(wire', d),
           \A b \in Blocks : Stopped(t, b) => b \in ended,
           \A b \in Blocks : Finished(t, b) => b \in ended /\ format = "openai",
           tmpl' # None => HeldBack(tmpl') /\ InTurn(tmpl'),
           carry' # <<>> => /\ tmpl' \in Blocks /\ ~over' /\ ~Stopped(out, tmpl') /\ ~Stopped(t, tmpl')
                            /\ tmpl' \in ended => Finished(out, tmpl') \/ Finished(t, tmpl')
    PROVE  Order'
<1>1. \A b : /\ Stopped(out', b) <=> Stopped(out, b) \/ Stopped(t, b)
             /\ Finished(out', b) <=> Finished(out, b) \/ Finished(t, b)
  BY EndsConcat DEF StreamTypes
<1>2. tmpl' # None => HeldBack(tmpl)' /\ InTurn(tmpl)'
  BY DEF HeldBack, InTurn
<1>3. HeldAlive'
  BY <1>1, UsedType DEF HeldAlive
<1>4. \A b \in Blocks : Stopped(out', b) => b \in ended'
  BY <1>1 DEF Order
<1>5. \A b \in Blocks : Finished(out', b) => b \in ended' /\ format' = "openai"
  BY <1>1 DEF Order
<1> QED
  BY <1>2, <1>3, <1>4, <1>5 DEF Order

LEMMA OrderStep == OneChoice /\ StreamTypes /\ Order /\ [Next]_vars => Order'
<1> SUFFICES ASSUME OneChoice, StreamTypes, Order, [Next]_vars PROVE Order'
  OBVIOUS
<1>1. /\ out \in Seq(Lines) /\ out \o <<>> = out /\ <<>> \in Seq(Lines)
      /\ <<BlankLine>> \in Seq(Lines) /\ \A cut \in CutLines : <<cut>> \in Seq(Lines)
      /\ BlankLine.line = "blank"
  BY ConcatEmptySeq, CutLinesAre DEF StreamTypes, Lines, BlankLine
<1>2. \A d : ~Unread(<<BlankLine>>, d) /\ ~Unread(<<>>, d)
  BY <1>1, HasOne DEF Unread
<1>3. \A d \in WireData : d.line = "data"
  BY DEF WireData
<1>4. ASSUME NEW b \in Blocks, NEW n \in 1..MaxChunk, SendText(b, n) PROVE Order'
  <2>1. MaxChunk \in Nat
    BY StreamAssumption
  <2>2. PICK d \in WireData : Sends(d) /\ Open(b) /\ UNCHANGED ended /\ d.name = "delta" /\ d.block = b /\ ~d.ends
    BY <1>4, <2>1, SendTextDoes
  <2>3. d # Done
    BY <2>2 DEF Done, Data
  <2> QED
    BY <2>2, <2>3, OrderSend
<1>5. ASSUME NEW b \in Blocks, SendEnd(b) PROVE Order'
  <2>1. PICK d \in WireData : Sends(d) /\ Open(b) /\ ended' = ended \cup {b} /\ d.block = b /\ d.ends
    BY <1>5, SendEndDoes
  <2>2. d # Done
    BY <2>1 DEF Done, Data
  <2> QED
    BY <2>1, <2>2, OrderSend
<1>6. CASE SendOther \/ SendDone
  <2>1. PICK d \in WireData :
             /\ Sends(d) /\ UNCHANGED <<rest, ended>> /\ d.block = None /\ (d = Done => ended = Used)
    BY <1>6, SendOtherDoes
  <2>2. /\ UNCHANGED <<out, carry, tmpl, over, format, ended>>
        /\ wire = <<>> /\ wire' = Wire(d)
    BY <2>1 DEF Sends
  <2>3. \A e : (Unread(wire', e) <=> e = d) /\ ~Unread(wire, e)
    BY <1>2, <1>3, <2>2, UnreadShort
  <2>4. WireData' = WireData /\ Used' = Used
    BY <2>2, SameWireData
  <2>5. WireInOrder(d)'
    BY <2>1, <2>2, <2>4 DEF WireInOrder
  <2>6. HeldAlive'
    <3>1. HeldAlive
      BY DEF Order
    <3> QED
      BY <2>2, <2>3, <2>4, <3>1 DEF HeldAlive
  <2>7. tmpl' # None => HeldBack(tmpl)' /\ InTurn(tmpl)'
    BY <2>2 DEF Order, HeldBack, InTurn
  <2>8. \A c \in Blocks : Stopped(out', c) => c \in ended'
    BY <2>2 DEF Order
  <2>9. \A c \in Blocks : Finished(out', c) => c \in ended' /\ format' = "openai"
    BY <2>2 DEF Order
  <2> QED
    BY <2>3, <2>4, <2>5, <2>6, <2>7, <2>8, <2>9 DEF Order
<1>7. CASE HoldEvent
  <2>1. PICK d \in WireData :
             /\ wire = <<EventLine(d.name), d, BlankLine>> /\ wire' = <<d, BlankLine>>
             /\ UNCHANGED <<format, ended, carry, tmpl, out, over>>
    BY <1>7, HoldEventDoes
  <2>2. \A e : Unread(wire', e) <=> Unread(wire, e)
    BY <1>3, <2>1, UnreadShort
  <2> QED
    BY <1>1, <2>1, <2>2, NoEnds, OrderSame
<1>8. CASE PassBlank
  <2>1. /\ wire = <<BlankLine>> /\ wire' = <<>> /\ out' = out \o <<BlankLine>>
        /\ UNCHANGED <<format, ended, carry, tmpl, over>>
    BY <1>8, PassBlankDoes
  <2>2. \A e : Unread(wire', e) <=> Unread(wire, e)
    BY <1>2, <2>1
  <2> QED
    BY <1>1, <2>1, <2>2, NoEnds, OrderSame
<1>9. CASE PassData
  <2>1. PICK d \in WireData :
             /\ ~over /\ wire = <<d, BlankLine>> /\ wire' = <<BlankLine>>
             /\ d.name # "delta" /\ out' = out \o Emitted(d, d)
             /\ carry' = IF Flush(d) /\ tmpl # None THEN <<>> ELSE carry
             /\ UNCHANGED <<format, ended, tmpl, over>>
    BY <1>9, PassDataDoes
  <2>2. d \in Datum /\ Emitted(d, d) \in Seq(Lines)
    BY HeaderType, EmittedType
  <2>3. Unread(wire, d) /\ \A e : Unread(wire, e) => e = d
    BY <1>3, <2>1, UnreadShort
  <2>4. WireInOrder(d)
    BY <2>3 DEF Order
  <2>5. \A b \in Blocks : Stopped(Emitted(d, d), b) => d.ends /\ d.block = b /\ b \in ended
    BY <2>2, <2>4, EmittedEnds, UsedType DEF Ends, WireInOrder
  <2>6. \A b \in Blocks : ~Finished(Emitted(d, d), b)
    BY <2>1, <2>2, EmittedEnds DEF LastText
  <2>7. ASSUME carry' # <<>>
        PROVE  /\ tmpl \in Blocks /\ ~over /\ ~Stopped(out, tmpl) /\ ~Stopped(Emitted(d, d), tmpl)
               /\ tmpl \in ended => Finished(out, tmpl)
    <3>1. /\ carry # <<>> /\ tmpl # None /\ ~Stopped(out, tmpl)
          /\ tmpl \in ended => Finished(out, tmpl) \/ (d.ends /\ d.block = tmpl)
          /\ HeldBack(tmpl)
      BY <2>1, <2>3, <2>7 DEF Order, HeldAlive
    <3>2. tmpl \in Blocks
      BY <3>1, UsedType DEF StreamTypes
    <3>3. ~d.ends
      BY <2>1, <2>7, <3>1 DEF Flush, IsFlushTrigger, HeldBack
    <3> QED
      BY <2>1, <2>5, <3>1, <3>2, <3>3
  <2>8. tmpl' # None => HeldBack(tmpl') /\ InTurn(tmpl')
    BY <2>1 DEF Order
  <2>9. \A e : ~Unread(wire', e)
    BY <1>2, <2>1
  <2> QED
    BY <2>1, <2>2, <2>5, <2>6, <2>7, <2>8, <2>9, OrderData
<1>10. CASE FeedText
  <2>1. PICK d \in WireData :
             /\ ~over /\ wire = <<d, BlankLine>> /\ wire' = <<BlankLine>>
             /\ d.name = "delta" /\ HeldBack(d.block)
             /\ out' = out \o Emitted(d, FreedData(d))
             /\ tmpl' = d.block
             /\ UNCHANGED <<format, reveal, rest, ended, over>>
    BY <1>10, FeedTextDoes
  <2>2. FreedData(d) \in Datum /\ Emitted(d, FreedData(d)) \in Seq(Lines)
    BY FreedDataType, EmittedType
  <2>3. Unread(wire, d)
    BY <1>3, <2>1, UnreadShort
  <2>4. d.block \in Used /\ d.block \in Blocks /\ d.block # None
    BY <2>1, UsedType DEF WireData
  <2>5. /\ ~Stopped(out, d.block) /\ (d.ends <=> d.block \in ended) /\ InTurn(d.block)
        /\ d.ends => format = "openai"
    BY <2>1, <2>3, <2>4 DEF Order, WireInOrder, WireData
  <2>6. \A b : ~Stopped(Emitted(d, FreedData(d)), b)
    BY <2>1, <2>2, EmittedEnds, FreedDataType DEF Ends
  <2>7. \A b : Finished(Emitted(d, FreedData(d)), b) <=> d.ends /\ d.block = b
    BY <2>1, <2>2, EmittedEnds, FreedDataType DEF LastText
  <2>8. \A e : ~Unread(wire', e)
    BY <1>2, <2>1
  <2> QED
    BY <2>1, <2>2, <2>4, <2>5, <2>6, <2>7, <2>8, OrderData
<1>11. CASE RedactInPlace
  <2>1. PICK d \in WireData :
             /\ ~over /\ wire = <<d, BlankLine>> /\ wire' = <<BlankLine>>
             /\ d.name = "delta" /\ ~HeldBack(d.block)
             /\ out' = out \o Emitted(d, InPlace(d))
             /\ UNCHANGED <<format, ended, carry, tmpl, over>>
    BY <1>11, RedactInPlaceDoes
  <2>2. InPlace(d) \in Datum /\ Emitted(d, InPlace(d)) \in Seq(Lines)
    BY InPlaceType, EmittedType
  <2>3. Unread(wire, d)
    BY <1>3, <2>1, UnreadShort
  <2>4. d.block # None /\ ~d.ends
    BY <2>1, UsedType DEF WireData, HeldBack
  <2>5. carry = <<>>
    BY <2>1, <2>3, <2>4 DEF Order, WireInOrder
  <2>6. \A b : ~Stopped(Emitted(d, InPlace(d)), b) /\ ~Finished(Emitted(d, InPlace(d)), b)
    BY <2>1, <2>2, <2>4, EmittedEnds, InPlaceType DEF Ends, LastText
  <2>7. \A e : ~Unread(wire', e)
    BY <1>2, <2>1
  <2>8. tmpl' # None => HeldBack(tmpl') /\ InTurn(tmpl')
    BY <2>1 DEF Order
  <2> QED
    BY <2>1, <2>2, <2>5, <2>6, <2>7, <2>8, OrderData
<1>12. ASSUME EndOfBodyDone, NEW t \in Seq(Lines), out' = out \o t,
              \A b : ~Stopped(t, b) /\ ~Finished(t, b)
       PROVE  Order'
  <2>1. carry' = <<>> /\ UNCHANGED <<format, ended, tmpl>> /\ wire' = <<>>
    BY <1>12 DEF EndOfBodyDone, Order, HeldAlive
  <2>2. tmpl' # None => HeldBack(tmpl') /\ InTurn(tmpl')
    BY <2>1 DEF Order
  <2> QED
    BY <1>2, <1>12, <2>1, <2>2, OrderData
<1>13. pending \in Seq(Lines) /\ \A b : ~Stopped(pending, b) /\ ~Finished(pending, b)
  <2>1. ASSUME NEW d \in WireData, pending = Header(d)
        PROVE  pending \in Seq(Lines) /\ \A b : ~Stopped(pending, b) /\ ~Finished(pending, b)
    BY <2>1, HeaderType, NoEnds
  <2> QED
    BY <1>1, <2>1, NoEnds DEF StreamTypes, WireShape
<1>17. pending \in Seq(Lines)
  BY <1>13
<1>14. CASE EndOfBody
  <2>1. /\ EndOfBodyDone
        /\ out' = out \o (Flushed \o pending) /\ Flushed \o pending \in Seq(Lines)
    BY <1>14, EndOfBodyWrites
  <2>3. \A b : ~Stopped(Flushed \o pending, b) /\ ~Finished(Flushed \o pending, b)
    BY <1>13, FlushedType, NoEnds, EndsConcat
  <2> QED
    BY <1>12, <2>1, <2>3
<1>15. CASE EndInsideLine
  <2>1. PICK cut \in CutLines, f \in Seq(Lines) :
          /\ EndOfBodyDone
          /\ f = IF Flushed = <<>> THEN <<>> ELSE Tail(Flushed)
          /\ out' = out \o (pending \o (<<cut>> \o f))
          /\ <<cut>> \o f \in Seq(Lines) /\ pending \o (<<cut>> \o f) \in Seq(Lines)
    BY <1>15, EndInsideLineWrites
  <2>3. \A b : ~Stopped(f, b) /\ ~Finished(f, b)
    BY <2>1, NoEnds
  <2>6. \A b : ~Stopped(<<cut>>, b) /\ ~Finished(<<cut>>, b)
    BY NoEnds
  <2>7. \A b : ~Stopped(<<cut>> \o f, b) /\ ~Finished(<<cut>> \o f, b)
    BY <1>1, <2>3, <2>6, EndsConcat
  <2>8. \A b : /\ ~Stopped(pending \o (<<cut>> \o f), b)
               /\ ~Finished(pending \o (<<cut>> \o f), b)
    BY <1>13, <1>17, <2>1, <2>7, EndsConcat
  <2> QED
    BY <1>12, <2>1, <2>8
<1>16. CASE UNCHANGED vars
  BY <1>1, <1>16, NoEnds, OrderSame DEF vars, path
<1> QED
  BY <1>4, <1>5, <1>6, <1>7, <1>8, <1>9, <1>10, <1>11, <1>14, <1>15, <1>16 DEF Next, HandleLine

LEMMA OrderInit == Init => Order
<1> SUFFICES ASSUME Init PROVE Order
  OBVIOUS
<1>1. /\ out = <<>> /\ wire = <<>> /\ tmpl = None /\ carry = <<>>
      /\ \A l : ~Has(<<>>, l)
  BY HasOne DEF Init
<1> QED
  BY <1>1 DEF Order, Stopped, Finished, Unread, HeldAlive

\* A block that is open is in turn and its end has not been written; what is held is of
\* such a block, or was brought along by the end itself.
THEOREM OrderInvariance == ASSUME OneChoice PROVE Spec => []Order
<1>1. Init => StreamTypes /\ Order
  BY TypesInit, OrderInit
<1>2. StreamTypes /\ Order /\ [Next]_vars => (StreamTypes /\ Order)'
  BY TypesStep, OrderStep
<1> QED
  BY <1>1, <1>2, PTL DEF Spec

\* No text of a block follows the event that ended it.
Quiet(lines) ==
    \A i, j \in 1..Len(lines) :
        i < j /\ lines[i].line = "data" /\ lines[i].ends /\ lines[i].name # "delta"
              /\ lines[j].line = "data" /\ lines[j].name = "delta" /\ lines[j].text # <<>>
        => lines[i].block # lines[j].block

IsDelta(l) == l.line = "data" /\ l.name = "delta"

LEMMA QuietConcat ==
    ASSUME NEW s \in Seq(Lines), NEW t \in Seq(Lines), Quiet(s), Quiet(t),
           \A l \in Lines : Has(t, l) /\ IsDelta(l) => ~Stopped(s, l.block)
    PROVE  Quiet(s \o t)
<1>1. PICK m \in Nat, n \in Nat : m = Len(s) /\ n = Len(t)
  BY LenProperties
<1>2. PICK u : u = s \o t
  OBVIOUS
<1>3. /\ Len(u) = m + n
      /\ \A i \in 1..m : u[i] = s[i]
      /\ \A j \in 1..n : u[m + j] = t[j]
  BY <1>1, <1>2, Parts
<1>4. ASSUME NEW i \in 1..(m + n), NEW j \in 1..(m + n), i < j,
             u[i].line = "data", u[i].ends, u[i].name # "delta",
             u[j].line = "data", u[j].name = "delta", u[j].text # <<>>,
             u[i].block = u[j].block
      PROVE  FALSE
  <2>1. CASE j <= m
    <3>1. i \in 1..m /\ j \in 1..m
      BY <1>4, <2>1
    <3>2. u[i] = s[i] /\ u[j] = s[j]
      BY <1>3, <3>1
    <3> QED
      BY <1>1, <1>4, <3>1, <3>2 DEF Quiet
  <2>2. CASE i <= m /\ j > m
    <3>1. PICK g \in 1..n : j = m + g
      <4>1. j - m \in 1..n /\ j = m + (j - m)
        BY <2>2
      <4> QED
        BY <4>1
    <3>2. i \in 1..m
      BY <2>2
    <3>3. u[i] = s[i] /\ u[j] = t[g]
      BY <1>3, <3>1, <3>2
    <3>4. s[i] \in Lines /\ t[g] \in Lines
      BY <1>1, <3>2, ElementOfSeq
    <3>5. Has(s, s[i]) /\ Has(t, t[g])
      BY <1>1, <3>2 DEF Has
    <3>6. Ends(s[i], t[g].block) /\ IsDelta(t[g])
      BY <1>4, <3>3 DEF Ends, IsDelta
    <3> QED
      BY <3>4, <3>5, <3>6 DEF Stopped
  <2>3. CASE i > m
    <3>1. PICK f \in Nat, g \in Nat : f = i - m /\ g = j - m
      <4>1. i - m \in Nat /\ j - m \in Nat
        BY <1>4, <2>3
      <4> QED
        BY <4>1
    <3>2. f \in 1..n /\ g \in 1..n /\ f < g /\ i = m + f /\ j = m + g
      BY <1>4, <2>3, <3>1
    <3>3. u[i] = t[f] /\ u[j] = t[g]
      BY <1>3, <3>2
    <3> QED
      BY <1>1, <1>4, <3>2, <3>3 DEF Quiet
  <2> QED
    BY <2>1, <2>2, <2>3
<1> QED
  BY <1>2, <1>3, <1>4 DEF Quiet

LEMMA QuietUnended == ASSUME NEW s \in Seq(Lines), \A b : ~Stopped(s, b) PROVE Quiet(s)
<1>1. ASSUME NEW i \in 1..Len(s), s[i].line = "data", s[i].ends, s[i].name # "delta" PROVE FALSE
  <2>1. s[i] \in Lines /\ Has(s, s[i])
    BY ElementOfSeq DEF Has
  <2>2. Ends(s[i], s[i].block)
    BY <1>1 DEF Ends
  <2> QED
    BY <2>1, <2>2 DEF Stopped
<1> QED
  BY <1>1 DEF Quiet

LEMMA QuietOne == ASSUME NEW x PROVE Quiet(<<x>>)
<1>1. Len(<<x>>) = 1 /\ \A i, j \in 1..1 : ~(i < j)
  OBVIOUS
<1> QED
  BY <1>1 DEF Quiet

\* What is flushed goes to the block of the text that is held.
LEMMA FlushBlock ==
    ASSUME OneChoice, StreamTypes, tmpl # None
    PROVE  FlushData.block = tmpl /\ IsDelta(FlushData) /\ ~FlushData.ends
           /\ FlushData.text = RedactAs(reveal, carry)
<1>1. format = "openai" => tmpl = 1
  BY DEF OneChoice, StreamTypes, Used
<1> QED
  BY <1>1 DEF FlushData, Data, IsDelta

LEMMA QuietEmitted ==
    ASSUME OneChoice, StreamTypes, Order, NEW d \in WireData, Unread(wire, d), NEW data \in Datum,
           data.name = d.name, data.block = d.block, d.name = "delta" => d.block \in Blocks
    PROVE  /\ Quiet(Emitted(d, data))
           /\ \A l \in Lines : Has(Emitted(d, data), l) /\ IsDelta(l) => ~Stopped(out, l.block)
<1>1. PICK f \in Seq(Lines) : f = IF Flush(d) THEN Flushed ELSE <<>>
  BY FlushedType, EmptySeq
<1>2. /\ Header(d) \in Seq(Lines) /\ <<data>> \in Seq(Lines)
      /\ Header(d) \o <<data>> \in Seq(Lines)
  BY HeaderType, ConcatProperties DEF Lines
<1>3. \A b : ~Stopped(f, b) /\ ~Stopped(Header(d), b)
  BY <1>1, NoEnds
<1>4. Quiet(f) /\ Quiet(Header(d)) /\ Quiet(<<data>>)
  BY <1>1, <1>2, <1>3, QuietUnended, QuietOne
<1>5. Quiet(Header(d) \o <<data>>)
  BY <1>2, <1>3, <1>4, QuietConcat
<1>6. Quiet(Emitted(d, data))
  <2>1. PICK h \in Seq(Lines) : h = Header(d) \o <<data>>
    BY <1>2
  <2>2. \A l : ~Stopped(f, l)
    BY <1>3
  <2>3. Quiet(f) /\ Quiet(h)
    BY <1>4, <1>5, <2>1
  <2>4. Quiet(f \o h)
    BY <2>2, <2>3, QuietConcat
  <2> QED
    BY <1>1, <2>1, <2>4 DEF Emitted
<1>7. ASSUME NEW l \in Lines, Has(Emitted(d, data), l), IsDelta(l) PROVE ~Stopped(out, l.block)
  <2>1. l = data \/ (l = FlushData /\ carry # <<>> /\ tmpl # None)
    BY <1>7, EmittedHas DEF IsDelta
  <2>2. CASE l = data
    <3>1. d.name = "delta" /\ d.block \in Blocks
      BY <1>7, <2>2 DEF IsDelta
    <3> QED
      BY <2>2, <3>1, UsedType DEF Order, WireInOrder
  <2>3. CASE l = FlushData /\ carry # <<>> /\ tmpl # None
    BY <2>3, FlushBlock DEF Order, HeldAlive
  <2> QED
    BY <2>1, <2>2, <2>3
<1> QED
  BY <1>6, <1>7

LEMMA QuietStep == OneChoice /\ StreamTypes /\ Order /\ Quiet(out) /\ [Next]_vars => Quiet(out')
<1> SUFFICES ASSUME OneChoice, StreamTypes, Order, Quiet(out), [Next]_vars PROVE Quiet(out')
  OBVIOUS
<1>1. out \in Seq(Lines)
  BY DEF StreamTypes
<1>2. ASSUME NEW t \in Seq(Lines), out' = out \o t, Quiet(t),
             \A l \in Lines : Has(t, l) /\ IsDelta(l) => ~Stopped(out, l.block)
      PROVE  Quiet(out')
  BY <1>1, <1>2, QuietConcat
<1>3. \A d \in WireData : d.line = "data" /\ (d.name = "delta" => d.block \in Blocks)
  BY UsedType DEF WireData
<1>4. ASSUME UNCHANGED out PROVE Quiet(out')
  BY <1>4
<1>5. CASE (\E b \in Blocks, n \in 1..MaxChunk : SendText(b, n)) \/ (\E b \in Blocks : SendEnd(b))
           \/ SendOther \/ SendDone \/ UNCHANGED vars
  BY <1>4, <1>5 DEF SendText, SendEnd, SendOther, SendDone, vars
<1>6. CASE HoldEvent
  BY <1>4, <1>6, HoldEventDoes
<1>7. CASE PassBlank
  <2>1. out' = out \o <<BlankLine>>
    BY <1>7, PassBlankDoes
  <2>2. <<BlankLine>> \in Seq(Lines) /\ Quiet(<<BlankLine>>)
    BY QuietOne DEF Lines
  <2>3. \A l : Has(<<BlankLine>>, l) => ~IsDelta(l)
    BY HasOne DEF IsDelta, BlankLine
  <2> QED
    BY <1>2, <2>1, <2>2, <2>3
<1>8. CASE PassData
  <2>1. PICK d \in WireData : wire = <<d, BlankLine>> /\ out' = out \o Emitted(d, d)
    BY <1>8, PassDataDoes
  <2>2. d \in Datum /\ Unread(wire, d)
    BY <1>3, <2>1, HeaderType, UnreadShort
  <2> QED
    BY <1>2, <1>3, <2>1, <2>2, EmittedType, QuietEmitted
<1>9. CASE FeedText
  <2>1. PICK d \in WireData : wire = <<d, BlankLine>> /\ out' = out \o Emitted(d, FreedData(d))
    BY <1>9, FeedTextDoes
  <2>2. FreedData(d) \in Datum /\ FreedData(d).name = d.name /\ FreedData(d).block = d.block
        /\ Unread(wire, d)
    BY <1>3, <2>1, FreedDataType, UnreadShort
  <2> QED
    BY <1>2, <1>3, <2>1, <2>2, EmittedType, QuietEmitted
<1>10. CASE RedactInPlace
  <2>1. PICK d \in WireData : wire = <<d, BlankLine>> /\ out' = out \o Emitted(d, InPlace(d))
    BY <1>10, RedactInPlaceDoes
  <2>2. InPlace(d) \in Datum /\ InPlace(d).name = d.name /\ InPlace(d).block = d.block
        /\ Unread(wire, d)
    BY <1>3, <2>1, InPlaceType, UnreadShort
  <2> QED
    BY <1>2, <1>3, <2>1, <2>2, EmittedType, QuietEmitted
<1>11. pending \in Seq(Lines) /\ \A l : Has(pending, l) => ~IsDelta(l)
  <2>1. ASSUME NEW d \in WireData, pending = Header(d), NEW l, Has(pending, l) PROVE ~IsDelta(l)
    BY <2>1, HeaderHas DEF IsDelta
  <2>2. \A l : ~Has(<<>>, l)
    BY HasOne
  <2> QED
    BY <2>1, <2>2, PendingType DEF StreamTypes, WireShape
<1>12. \A b : ~Stopped(pending, b)
  BY <1>11, NoEnds, HasOne DEF StreamTypes, WireShape
<1>13. ASSUME NEW l, l = FlushData, carry # <<>>, tmpl # None PROVE ~Stopped(out, l.block)
  BY <1>13, FlushBlock DEF Order, HeldAlive
<1>14. CASE EndOfBody
  <2>1. out' = out \o (Flushed \o pending) /\ Flushed \o pending \in Seq(Lines)
    BY <1>14, EndOfBodyWrites
  <2>2. \A b : ~Stopped(Flushed \o pending, b)
    BY <1>11, <1>12, FlushedType, NoEnds, EndsConcat
  <2>3. Quiet(Flushed \o pending)
    BY <2>1, <2>2, QuietUnended
  <2>4. ASSUME NEW l \in Lines, Has(Flushed \o pending, l), IsDelta(l) PROVE ~Stopped(out, l.block)
    <3>1. Has(Flushed, l)
      BY <1>11, <2>4, FlushedType, HasConcat
    <3> QED
      BY <1>13, <2>4, <3>1, FlushedHas DEF IsDelta
  <2> QED
    BY <1>2, <2>1, <2>3, <2>4
<1>15. CASE EndInsideLine
  <2>1. PICK cut \in CutLines, f \in Seq(Lines) :
          /\ f = IF Flushed = <<>> THEN <<>> ELSE Tail(Flushed)
          /\ out' = out \o (pending \o (<<cut>> \o f))
          /\ <<cut>> \o f \in Seq(Lines) /\ pending \o (<<cut>> \o f) \in Seq(Lines)
    BY <1>15, EndInsideLineWrites
  <2>2. <<cut>> \in Seq(Lines) /\ \A l : Has(<<cut>>, l) => ~IsDelta(l)
    BY HasOne, CutLinesAre DEF IsDelta
  <2>3. \A b : ~Stopped(pending \o (<<cut>> \o f), b)
    <3>1. \A b : ~Stopped(f, b) /\ ~Stopped(<<cut>>, b)
      BY <2>1, NoEnds
    <3>2. \A b : ~Stopped(<<cut>> \o f, b)
      BY <2>2, <3>1, EndsConcat
    <3> QED
      BY <1>11, <1>12, <2>1, <3>2, EndsConcat
  <2>4. Quiet(pending \o (<<cut>> \o f))
    BY <2>1, <2>3, QuietUnended
  <2>5. ASSUME NEW l \in Lines, Has(pending \o (<<cut>> \o f), l), IsDelta(l)
        PROVE  ~Stopped(out, l.block)
    <3>1. Has(<<cut>> \o f, l)
      BY <1>11, <2>1, <2>5, HasConcat
    <3>2. Has(f, l)
      BY <2>2, <2>5, <3>1, HasConcat
    <3> QED
      BY <1>13, <2>1, <2>5, <3>2, FlushedHas, HasOne DEF IsDelta
  <2> QED
    BY <1>2, <2>1, <2>4, <2>5
<1> QED
  BY <1>5, <1>6, <1>7, <1>8, <1>9, <1>10, <1>14, <1>15 DEF Next, HandleLine

\* In answers with one choice no text of a block reaches the client after the event that
\* ended the block: what was held is emitted before it (stream.go:310).
THEOREM NothingAfterTheEnd == ASSUME OneChoice PROVE Spec => []NoTextAfterEnd
<1>1. Init => StreamTypes /\ Order /\ Quiet(out)
  <2>1. Quiet(<<>>)
    BY DEF Quiet
  <2> QED
    BY <2>1, TypesInit, OrderInit DEF Init
<1>2. StreamTypes /\ Order /\ Quiet(out) /\ [Next]_vars => StreamTypes' /\ Order' /\ Quiet(out)'
  BY TypesStep, OrderStep, QuietStep
<1>3. Quiet(out) => NoTextAfterEnd
  BY DEF Quiet, NoTextAfterEnd
<1> QED
  BY <1>1, <1>2, <1>3, PTL DEF Spec

-----------------------------------------------------------------------------
(* What the client reads is the redaction of what the model sent *)

Plain ==
    /\ rest \in [Blocks -> Seq(PlainChars)]
    /\ carry \in Seq(PlainChars)
    /\ \A d \in WireData : Unread(wire, d) => d.text \in Seq(PlainChars)

\* What is held of block b.
Held(b) == IF tmpl = b THEN carry ELSE <<>>

\* No more text of b is read.
NoMore(b) == \/ over
             \/ b \in ended /\ \A d \in WireData : Unread(wire, d) /\ d.block = b => d.name # "delta"

\* A line of the body was cut.
WasCut(lines) == \E cut \in CutLines : Has(lines, cut)

\* The text read of b: a part before the chunk that ended the choice, if that brought text
\* along; what is released since; and what is held, or was lost with a broken line.
Split(b, p, a, h) ==
    /\ sent[b] = p \o (a \o h)
    /\ TextOf(out, b) = RedactAs(reveal, p) \o RedactAs(reveal, a)
    /\ CutFits(a) \/ (h = <<>> /\ NoMore(b))
    /\ p # <<>> => Finished(out, b)
    /\ h = Held(b) \/ (over /\ WasCut(out))

Content == \A b \in TextBlocks : \E p, a, h \in Seq(Characters) : Split(b, p, a, h)

LEMMA PlainInit == ASSUME PlainTexts PROVE Init => Plain
<1> SUFFICES ASSUME Init PROVE Plain
  OBVIOUS
<1>1. <<>> \in Seq(PlainChars)
  BY EmptySeq
<1>2. Texts[format] \cup {<<>>} \subseteq Seq(PlainChars)
  BY <1>1 DEF PlainTexts, Init
<1>3. \A d : ~Unread(wire, d)
  BY HasOne DEF Unread, Init
<1> QED
  BY <1>1, <1>2, <1>3 DEF Init, Plain

\* Joined texts and their parts stay plain.
LEMMA PlainJoined ==
    ASSUME StreamTypes, Plain, NEW d \in WireData, Unread(wire, d)
    PROVE  /\ Joined(d) \in Seq(PlainChars)
           /\ SubSeq(Joined(d), Release(Joined(d)) + 1, Len(Joined(d))) \in Seq(PlainChars)
           /\ CutFits(Freed(d))
           /\ Joined(d) = Freed(d) \o SubSeq(Joined(d), Release(Joined(d)) + 1, Len(Joined(d)))
<1>1. d.text \in Seq(PlainChars) /\ carry \in Seq(PlainChars) /\ <<>> \in Seq(PlainChars)
  BY EmptySeq DEF Plain
<1>2. Joined(d) \in Seq(PlainChars)
  BY <1>1, ConcatProperties DEF Joined
<1>3. PICK c \in Seq(PlainChars) : c = Joined(d)
  BY <1>2
<1>4. PICK n : n = Release(c)
  OBVIOUS
<1>5. n \in 0..Len(c) /\ (n # 0 => c[n] = Space)
  BY <1>4, PlainIsText, ReleaseCut, ReleaseFits
<1>6. /\ SubSeq(c, n + 1, Len(c)) \in Seq(PlainChars) /\ SubSeq(c, 1, n) \in Seq(PlainChars)
      /\ c = SubSeq(c, 1, n) \o SubSeq(c, n + 1, Len(c))
      /\ Len(SubSeq(c, 1, n)) = n /\ (n # 0 => SubSeq(c, 1, n)[n] = c[n])
  BY <1>5, CutAt
<1>7. CutFits(SubSeq(c, 1, n))
  <2>1. n = 0 => SubSeq(c, 1, n) = <<>>
    BY <1>6, EmptySeq
  <2> QED
    BY <1>5, <1>6, <2>1 DEF CutFits
<1> QED
  BY <1>2, <1>3, <1>4, <1>6, <1>7 DEF Freed

LEMMA PlainStep == StreamTypes /\ Plain /\ [Next]_vars => Plain'
<1> SUFFICES ASSUME StreamTypes, Plain, [Next]_vars PROVE Plain'
  OBVIOUS
<1>1. \A d \in WireData : d.line = "data"
  BY DEF WireData
<1>2. <<>> \in Seq(PlainChars)
  BY EmptySeq
<1>3. BlankLine.line = "blank"
  BY DEF BlankLine
<1>4. \A d : ~Unread(<<BlankLine>>, d) /\ ~Unread(<<>>, d)
  BY <1>3, HasOne DEF Unread
<1>5. ASSUME NEW d \in WireData, Sends(d), d.text \in Seq(PlainChars), rest' \in [Blocks -> Seq(PlainChars)]
      PROVE  Plain'
  <2>1. \A e : Unread(wire', e) <=> e = d
    BY <1>1, <1>5, UnreadShort DEF Sends
  <2>2. WireData' = WireData
    BY <1>5, SameWireData DEF Sends
  <2> QED
    BY <1>5, <2>1, <2>2 DEF Plain, Sends
<1>6. ASSUME NEW b \in Blocks, NEW n \in 1..MaxChunk, SendText(b, n) PROVE Plain'
  <2>1. MaxChunk \in Nat
    BY StreamAssumption
  <2>2. PICK d \in WireData :
             /\ Sends(d) /\ n \in 1..Len(rest[b]) /\ d.text = SubSeq(rest[b], 1, n)
             /\ rest' = [rest EXCEPT ![b] = SubSeq(rest[b], n + 1, Len(rest[b]))]
    BY <1>6, <2>1, SendTextDoes
  <2>3. rest[b] \in Seq(PlainChars) /\ n \in 0..Len(rest[b])
    BY <2>1, <2>2 DEF Plain
  <2>4. SubSeq(rest[b], 1, n) \in Seq(PlainChars) /\ SubSeq(rest[b], n + 1, Len(rest[b])) \in Seq(PlainChars)
    BY <2>3, CutAt
  <2>5. rest' \in [Blocks -> Seq(PlainChars)]
    BY <2>2, <2>4 DEF Plain
  <2> QED
    BY <1>5, <2>2, <2>4, <2>5
<1>7. ASSUME NEW b \in Blocks, SendEnd(b) PROVE Plain'
  <2>1. PICK d \in WireData :
             /\ Sends(d) /\ (d.text = rest[b] \/ d.text = <<>>) /\ rest' = [rest EXCEPT ![b] = <<>>]
    BY <1>7, SendEndDoes
  <2>2. rest[b] \in Seq(PlainChars) /\ rest' \in [Blocks -> Seq(PlainChars)]
    BY <1>2, <2>1 DEF Plain
  <2> QED
    BY <1>2, <1>5, <2>1, <2>2
<1>8. CASE SendOther \/ SendDone
  <2>1. PICK d \in WireData : Sends(d) /\ UNCHANGED <<rest, ended>> /\ d.text = <<>>
    BY <1>8, SendOtherDoes
  <2> QED
    BY <1>2, <1>5, <2>1 DEF Plain
<1>9. ASSUME UNCHANGED <<format, rest>>, carry' \in Seq(PlainChars),
             \A d \in WireData : Unread(wire', d) => Unread(wire, d)
      PROVE  Plain'
  BY <1>9, SameWireData DEF Plain
<1>10. CASE HoldEvent
  <2>1. PICK d \in WireData :
             /\ wire = <<EventLine(d.name), d, BlankLine>> /\ wire' = <<d, BlankLine>>
             /\ UNCHANGED <<format, rest, carry>>
    BY <1>10, HoldEventDoes
  <2> QED
    BY <1>1, <1>9, <2>1, UnreadShort DEF Plain
<1>11. CASE PassBlank
  BY <1>4, <1>9, <1>11, PassBlankDoes DEF Plain
<1>12. CASE PassData
  BY <1>2, <1>4, <1>9, <1>12, PassDataDoes DEF Plain
<1>13. CASE FeedText
  <2>1. PICK d \in WireData :
             /\ wire = <<d, BlankLine>> /\ wire' = <<BlankLine>>
             /\ carry' = SubSeq(Joined(d), Release(Joined(d)) + 1, Len(Joined(d)))
             /\ UNCHANGED <<format, rest>>
    BY <1>13, FeedTextDoes
  <2>2. Unread(wire, d)
    BY <1>1, <2>1, UnreadShort
  <2> QED
    BY <1>4, <1>9, <2>1, <2>2, PlainJoined
<1>14. CASE RedactInPlace
  BY <1>4, <1>9, <1>14, RedactInPlaceDoes DEF Plain
<1>15. CASE EndOfBody \/ EndInsideLine
  <2>1. EndOfBodyDone
    BY <1>15, EndOfBodyWrites, EndInsideLineWrites
  <2> QED
    BY <1>2, <1>4, <1>9, <2>1 DEF EndOfBodyDone, Plain
<1>16. CASE UNCHANGED vars
  BY <1>9, <1>16 DEF vars, path, Plain
<1> QED
  BY <1>6, <1>7, <1>8, <1>10, <1>11, <1>12, <1>13, <1>14, <1>15, <1>16 DEF Next, HandleLine

-----------------------------------------------------------------------------
LEMMA TextTwo ==
    ASSUME NEW x \in Lines, NEW y \in Lines, NEW b
    PROVE  TextOf(<<x, y>>, b) = TextIn(x, b) \o TextIn(y, b)
<1>1. PICK s \in Seq(Lines), t \in Seq(Lines) : s = <<x>> /\ t = <<y>>
  <2>1. <<x>> \in Seq(Lines) /\ <<y>> \in Seq(Lines)
    OBVIOUS
  <2> QED
    BY <2>1
<1>2. TextOf(s \o t, b) = TextOf(s, b) \o TextOf(t, b)
  BY TextConcat
<1>3. TextOf(s, b) = TextIn(x, b) /\ TextOf(t, b) = TextIn(y, b)
  BY <1>1, TextOne
<1>4. s \o t = <<x, y>>
  BY <1>1, OneAndOne
<1> QED
  BY <1>2, <1>3, <1>4

LEMMA HeaderText == ASSUME NEW d, NEW b PROVE TextOf(Header(d), b) = <<>>
<1>1. EventLine(d.name).line # "data"
  BY DEF EventLine
<1> QED
  BY <1>1, TextOne, TextNone DEF Header, TextIn

\* A flush gives the client the redaction of what is held.
LEMMA FlushedText ==
    ASSUME OneChoice, StreamTypes, Order, NEW b \in Blocks
    PROVE  /\ TextOf(Flushed, b) = RedactAs(reveal, Held(b))
           /\ Flushed # <<>> => TextOf(Tail(Flushed), b) = IF format = "openai" THEN <<>> ELSE RedactAs(reveal, Held(b))
           /\ Flushed = <<>> => Held(b) = <<>>
<1>1. carry # <<>> => tmpl # None
  BY DEF Order, HeldAlive
<1>2. CASE carry = <<>>
  <2>1. Flushed = <<>> /\ Held(b) = <<>>
    BY <1>2, FlushedIs DEF Held
  <2> QED
    BY <2>1, RedactEmpty, TextNone
<1>3. CASE carry # <<>>
  <2>1. Flushed = Header(FlushData) \o <<FlushData, BlankLine>>
    BY <1>1, <1>3, FlushedIs
  <2> DEFINE x == FlushData
             z == BlankLine
             e == EventLine(FlushData.name)
  <2>2. x \in Lines /\ z \in Lines /\ e \in Lines
    BY <1>1, <1>3, FlushType DEF Lines, Event, EventLine, Datum
  <2>3. Flushed = IF format = "openai" THEN <<x, z>> ELSE <<e, x, z>>
    BY <2>1, OneAndTwo DEF Header
  <2>4. TextIn(x, b) = RedactAs(reveal, Held(b)) /\ TextIn(z, b) = <<>> /\ TextIn(e, b) = <<>>
    <3>1. z.line # "data" /\ e.line # "data"
      BY DEF BlankLine, EventLine
    <3>2. x.block = tmpl /\ IsDelta(x) /\ x.text = RedactAs(reveal, carry)
      BY <1>1, <1>3, FlushBlock
    <3> QED
      BY <3>1, <3>2, RedactEmpty DEF TextIn, Held, IsDelta
  <2> HIDE DEF x, z, e
  <2>5. RedactAs(reveal, Held(b)) \in Seq(Outputs)
    BY RedactType, EmptySeq DEF Held, StreamTypes
  <2>6. RedactAs(reveal, Held(b)) \o <<>> = RedactAs(reveal, Held(b)) /\ <<>> \o RedactAs(reveal, Held(b)) = RedactAs(reveal, Held(b))
    BY <2>5, ConcatEmptySeq
  <2>7. TextOf(<<x, z>>, b) = RedactAs(reveal, Held(b))
    <3>1. TextOf(<<x, z>>, b) = TextIn(x, b) \o TextIn(z, b)
      BY <2>2, TextTwo
    <3> QED
      BY <2>4, <2>6, <3>1
  <2>8. TextOf(<<e, x, z>>, b) = RedactAs(reveal, Held(b))
    <3>1. PICK s \in Seq(Lines), t \in Seq(Lines) : s = <<e>> /\ t = <<x, z>>
      <4>1. <<e>> \in Seq(Lines) /\ <<x, z>> \in Seq(Lines)
        BY <2>2
      <4> QED
        BY <4>1
    <3>2. TextOf(s \o t, b) = TextOf(s, b) \o TextOf(t, b)
      BY TextConcat
    <3>3. TextOf(s, b) = TextIn(e, b)
      BY <3>1, TextOne
    <3>4. s \o t = <<e, x, z>>
      BY <3>1, OneAndTwo
    <3> QED
      BY <2>4, <2>6, <2>7, <3>1, <3>2, <3>3, <3>4
  <2>9. TextOf(<<z>>, b) = <<>>
    BY <2>4, TextOne
  <2>10. Tail(Flushed) = IF format = "openai" THEN <<z>> ELSE <<x, z>>
    <3>1. Tail(<<x, z>>) = <<z>> /\ Tail(<<e, x, z>>) = <<x, z>>
      OBVIOUS
    <3> QED
      BY <2>3, <3>1
  <2>11. Flushed # <<>>
    BY <2>3
  <2> QED
    BY <2>3, <2>7, <2>8, <2>9, <2>10, <2>11
<1> QED
  BY <1>2, <1>3

LEMMA EmittedText ==
    ASSUME OneChoice, StreamTypes, Order, NEW d \in WireData, NEW data \in Datum, NEW b \in Blocks
    PROVE  TextOf(Emitted(d, data), b) = (IF Flush(d) THEN RedactAs(reveal, Held(b)) ELSE <<>>) \o TextIn(data, b)
<1>1. PICK f \in Seq(Lines) : f = IF Flush(d) THEN Flushed ELSE <<>>
  BY FlushedType, EmptySeq
<1>2. data \in Lines /\ Header(d) \in Seq(Lines) /\ <<data>> \in Seq(Lines)
  BY HeaderType DEF Lines
<1>3. TextOf(Header(d) \o <<data>>, b) = <<>> \o TextIn(data, b) /\ Header(d) \o <<data>> \in Seq(Lines)
  <2>1. PICK s \in Seq(Lines), t \in Seq(Lines) : s = Header(d) /\ t = <<data>>
    BY <1>2
  <2>2. TextOf(s \o t, b) = TextOf(s, b) \o TextOf(t, b) /\ s \o t \in Seq(Lines)
    BY TextConcat, ConcatProperties
  <2>3. TextOf(s, b) = <<>>
    BY <2>1, HeaderText
  <2>4. TextOf(t, b) = TextIn(data, b)
    BY <2>1, TextOne
  <2> QED
    BY <2>1, <2>2, <2>3, <2>4
<1>4. <<>> \o TextIn(data, b) = TextIn(data, b)
  BY <1>2, TextInType, ConcatEmptySeq
<1>5. TextOf(f, b) = IF Flush(d) THEN RedactAs(reveal, Held(b)) ELSE <<>>
  BY <1>1, FlushedText, TextNone
<1>6. PICK h \in Seq(Lines) : h = Header(d) \o <<data>>
  BY <1>3
<1>7. TextOf(f \o h, b) = TextOf(f, b) \o TextOf(h, b)
  BY TextConcat
<1> QED
  BY <1>1, <1>3, <1>4, <1>5, <1>6, <1>7 DEF Emitted

LEMMA RedactJoin ==
    ASSUME NEW r \in BOOLEAN, NEW a \in Seq(Characters), NEW h \in Seq(Characters), CutFits(a) \/ h = <<>>
    PROVE  RedactAs(r, a \o h) = RedactAs(r, a) \o RedactAs(r, h)
<1>1. CASE CutFits(a)
  BY <1>1, RedactConcat
<1>2. CASE h = <<>>
  <2>1. a \o <<>> = a /\ RedactAs(r, a) \o <<>> = RedactAs(r, a)
    BY RedactType, ConcatEmptySeq
  <2> QED
    BY <1>2, <2>1, RedactEmpty
<1> QED
  BY <1>1, <1>2

\* A step that changes nothing for block b.
LEMMA SplitSame ==
    ASSUME NEW b, NEW p \in Seq(Characters), NEW a \in Seq(Characters), NEW h \in Seq(Characters),
           Split(b, p, a, h), sent'[b] = sent[b], reveal' = reveal,
           TextOf(out', b) = TextOf(out, b), Held(b)' = Held(b), NoMore(b) => NoMore(b)',
           Finished(out, b) => Finished(out', b), ~over
    PROVE  Split(b, p, a, h)'
BY DEF Split

\* A step that flushes what is held of b, of which no more is read.
LEMMA SplitFlushed ==
    ASSUME NEW b, NEW p \in Seq(Characters), NEW a \in Seq(Characters), NEW h \in Seq(Characters),
           Split(b, p, a, h), sent'[b] = sent[b], reveal' = reveal, reveal \in BOOLEAN,
           TextOf(out', b) = TextOf(out, b) \o RedactAs(reveal, Held(b)), Held(b)' = <<>>, NoMore(b)',
           Finished(out, b) => Finished(out', b), ~over
    PROVE  a \o h \in Seq(Characters) /\ <<>> \in Seq(Characters) /\ Split(b, p, a \o h, <<>>)'
<1>1. h = Held(b) /\ (CutFits(a) \/ h = <<>>) /\ (p # <<>> => Finished(out, b))
  BY DEF Split
<1>2. a \o h \in Seq(Characters) /\ <<>> \in Seq(Characters) /\ (a \o h) \o <<>> = a \o h
  BY ConcatProperties, ConcatEmptySeq, EmptySeq
<1>3. sent'[b] = p \o ((a \o h) \o <<>>)
  BY <1>2 DEF Split
<1>4. TextOf(out', b) = RedactAs(reveal, p) \o RedactAs(reveal, a \o h)
  <2>1. TextOf(out', b) = (RedactAs(reveal, p) \o RedactAs(reveal, a)) \o RedactAs(reveal, h)
    BY <1>1 DEF Split
  <2>2. PICK x \in Seq(Outputs), y \in Seq(Outputs), z \in Seq(Outputs) :
             x = RedactAs(reveal, p) /\ y = RedactAs(reveal, a) /\ z = RedactAs(reveal, h)
    BY RedactType
  <2>3. (x \o y) \o z = x \o (y \o z)
    BY OutputAssoc
  <2>4. RedactAs(reveal, a \o h) = y \o z
    BY <1>1, <2>2, RedactJoin
  <2> QED
    BY <2>1, <2>2, <2>3, <2>4
<1> QED
  BY <1>1, <1>2, <1>3, <1>4 DEF Split

\* What the client has been given is lasting, and so is the end of what is read of a block.
LEMMA WrittenText ==
    ASSUME StreamTypes, NEW t \in Seq(Lines), out' = out \o t, NEW b
    PROVE  /\ TextOf(out', b) = TextOf(out, b) \o TextOf(t, b)
           /\ Finished(out, b) => Finished(out', b)
           /\ TextOf(t, b) = <<>> => TextOf(out', b) = TextOf(out, b)
<1>1. out \in Seq(Lines)
  BY DEF StreamTypes
<1>2. TextOf(out \o t, b) = TextOf(out, b) \o TextOf(t, b)
  BY <1>1, TextConcat
<1>3. Finished(out \o t, b) <=> Finished(out, b) \/ Finished(t, b)
  BY <1>1, EndsConcat
<1>4. TextOf(out, b) \o <<>> = TextOf(out, b)
  BY <1>1, TextType, ConcatEmptySeq
<1> QED
  BY <1>2, <1>3, <1>4

LEMMA NoMoreLasts ==
    ASSUME StreamTypes, NEW b, over => over', UNCHANGED <<format, ended>>,
           \A d \in WireData : Unread(wire', d) => Unread(wire, d)
    PROVE  NoMore(b) => NoMore(b)'
<1>1. WireData' = WireData
  BY SameWireData
<1> QED
  BY <1>1 DEF NoMore

LEMMA NoMoreSent ==
    ASSUME StreamTypes, NEW d \in WireData, Sends(d), NEW b, NEW c, d.block = c \/ d.name # "delta",
           c \notin ended, ended \subseteq ended'
    PROVE  NoMore(b) => NoMore(b)'
<1>1. WireData' = WireData
  BY SameWireData DEF Sends
<1>2. d.line = "data"
  BY DEF WireData
<1>3. \A e : Unread(wire', e) <=> e = d
  BY <1>2, UnreadShort DEF Sends
<1>4. ~over
  BY DEF Sends
<1> QED
  BY <1>1, <1>3, <1>4 DEF NoMore

\* Steps of the model, and steps that write no text and flush nothing.
LEMMA ContentSame ==
    ASSUME Content, UNCHANGED <<format, reveal, sent>>, ~over,
           \A b \in Blocks : /\ TextOf(out', b) = TextOf(out, b) /\ Held(b)' = Held(b)
                             /\ NoMore(b) => NoMore(b)'
                             /\ Finished(out, b) => Finished(out', b)
    PROVE  Content'
<1>1. TextBlocks' = TextBlocks
  BY DEF TextBlocks, HeldBack
<1>2. ASSUME NEW b \in TextBlocks PROVE \E p, a, h \in Seq(Characters) : Split(b, p, a, h)'
  <2>1. PICK p \in Seq(Characters), a \in Seq(Characters), h \in Seq(Characters) : Split(b, p, a, h)
    BY DEF Content
  <2>2. b \in Blocks
    BY DEF TextBlocks
  <2>3. Split(b, p, a, h)'
    BY <2>1, <2>2, SplitSame
  <2> QED
    BY <2>3
<1> QED
  BY <1>1, <1>2 DEF Content

LEMMA ContentInit == Init => Content
<1> SUFFICES ASSUME Init PROVE Content
  OBVIOUS
<1>1. <<>> \in Seq(Characters) /\ <<>> \o <<>> = <<>>
  BY EmptySeq, ConcatEmptySeq
<1>2. ASSUME NEW b \in TextBlocks PROVE Split(b, <<>>, <<>>, <<>>)
  <2>1. b \in Blocks
    BY DEF TextBlocks
  <2>2. sent[b] = <<>> /\ Held(b) = <<>>
    BY <2>1 DEF Init, Held
  <2>3. TextOf(out, b) = <<>> /\ RedactAs(reveal, <<>>) = <<>>
    BY TextNone, RedactEmpty DEF Init
  <2> QED
    BY <1>1, <2>2, <2>3 DEF Split, CutFits
<1> QED
  BY <1>1, <1>2 DEF Content

LEMMA ContentSent ==
    ASSUME StreamTypes, Content, NEW d \in WireData, Sends(d), NEW c, d.block = c \/ d.name # "delta",
           c \notin ended, ended \subseteq ended'
    PROVE  Content'
<1>1. UNCHANGED <<format, reveal, sent, out, carry, tmpl>> /\ ~over
  BY DEF Sends
<1>2. \A b : NoMore(b) => NoMore(b)'
  BY NoMoreSent
<1> QED
  BY <1>1, <1>2, ContentSame DEF Held

LEMMA ContentPassBlank == StreamTypes /\ Content /\ PassBlank => Content'
<1> SUFFICES ASSUME StreamTypes, Content, PassBlank PROVE Content'
  OBVIOUS
<1>1. /\ wire' = <<>> /\ out' = out \o <<BlankLine>> /\ ~over
      /\ UNCHANGED <<format, reveal, sent, ended, carry, tmpl, over>>
  BY PassBlankDoes
<1>2. <<BlankLine>> \in Seq(Lines) /\ BlankLine.line # "data"
  <2>1. BlankLine \in Lines
    BY DEF Lines
  <2> QED
    BY <2>1 DEF BlankLine
<1>3. \A b : TextOf(<<BlankLine>>, b) = <<>>
  BY <1>2, TextOne DEF TextIn
<1>4. \A b : TextOf(out', b) = TextOf(out, b) /\ (Finished(out, b) => Finished(out', b))
  BY <1>1, <1>2, <1>3, WrittenText
<1>5. \A d : ~Unread(wire', d)
  BY <1>1, HasOne DEF Unread
<1>6. \A b : NoMore(b) => NoMore(b)'
  BY <1>1, <1>5, NoMoreLasts
<1> QED
  BY <1>1, <1>4, <1>6, ContentSame DEF Held

LEMMA ContentHoldEvent == StreamTypes /\ Content /\ HoldEvent => Content'
<1> SUFFICES ASSUME StreamTypes, Content, HoldEvent PROVE Content'
  OBVIOUS
<1>1. PICK d \in WireData :
           /\ wire = <<EventLine(d.name), d, BlankLine>> /\ wire' = <<d, BlankLine>> /\ ~over
           /\ UNCHANGED <<format, reveal, sent, ended, carry, tmpl, out, over>>
  BY HoldEventDoes
<1>2. d.line = "data"
  BY DEF WireData
<1>3. \A e : Unread(wire', e) => Unread(wire, e)
  BY <1>1, <1>2, UnreadShort
<1>4. \A b : NoMore(b) => NoMore(b)'
  BY <1>1, <1>3, NoMoreLasts
<1> QED
  BY <1>1, <1>4, ContentSame DEF Held

LEMMA ContentInPlace == OneChoice /\ StreamTypes /\ Order /\ Content /\ RedactInPlace => Content'
<1> SUFFICES ASSUME OneChoice, StreamTypes, Order, Content, RedactInPlace PROVE Content'
  OBVIOUS
<1>1. PICK d \in WireData :
           /\ ~over /\ wire' = <<BlankLine>>
           /\ d.name = "delta" /\ ~HeldBack(d.block) /\ ~Flush(d)
           /\ out' = out \o Emitted(d, InPlace(d))
           /\ sent' = [sent EXCEPT ![d.block] = @ \o d.text]
           /\ UNCHANGED <<format, reveal, ended, carry, tmpl, over>>
  BY RedactInPlaceDoes
<1>2. InPlace(d) \in Datum /\ Emitted(d, InPlace(d)) \in Seq(Lines) /\ InPlace(d).block = d.block
  BY InPlaceType, EmittedType
<1>3. BlankLine.line = "blank"
  BY DEF BlankLine
<1>4. \A e : ~Unread(wire', e)
  BY <1>1, <1>3, HasOne DEF Unread
<1>5. TextBlocks' = TextBlocks
  BY <1>1 DEF TextBlocks, HeldBack
<1>6. ASSUME NEW b \in TextBlocks PROVE \E p, a, h \in Seq(Characters) : Split(b, p, a, h)'
  <2>1. PICK p \in Seq(Characters), a \in Seq(Characters), h \in Seq(Characters) : Split(b, p, a, h)
    BY DEF Content
  <2>2. b \in Blocks /\ HeldBack(b) /\ b # d.block
    BY <1>1 DEF TextBlocks
  <2>3. TextOf(Emitted(d, InPlace(d)), b) = <<>>
    <3>1. TextIn(InPlace(d), b) = <<>>
      BY <1>2, <2>2 DEF TextIn
    <3>2. TextOf(Emitted(d, InPlace(d)), b) = <<>> \o TextIn(InPlace(d), b)
      BY <1>1, <1>2, <2>2, EmittedText
    <3> QED
      BY <3>1, <3>2, ConcatEmptySeq, EmptySeq
  <2>4. TextOf(out', b) = TextOf(out, b) /\ (Finished(out, b) => Finished(out', b))
    BY <1>1, <1>2, <2>3, WrittenText
  <2>5. NoMore(b) => NoMore(b)'
    BY <1>1, <1>4, NoMoreLasts
  <2>6. sent'[b] = sent[b] /\ Held(b)' = Held(b)
    BY <1>1, <2>2 DEF StreamTypes, Held
  <2>7. Split(b, p, a, h)'
    BY <1>1, <2>1, <2>4, <2>5, <2>6, SplitSame
  <2> QED
    BY <2>7
<1> QED
  BY <1>5, <1>6 DEF Content

LEMMA ContentPassData == OneChoice /\ StreamTypes /\ Order /\ Content /\ PassData => Content'
<1> SUFFICES ASSUME OneChoice, StreamTypes, Order, Content, PassData PROVE Content'
  OBVIOUS
<1>1. PICK d \in WireData :
           /\ ~over /\ wire = <<d, BlankLine>> /\ wire' = <<BlankLine>>
           /\ d.name # "delta"
           /\ out' = out \o Emitted(d, d)
           /\ carry' = IF Flush(d) /\ tmpl # None THEN <<>> ELSE carry
           /\ UNCHANGED <<format, reveal, sent, ended, tmpl, over>>
  BY PassDataDoes
<1>2. d \in Datum /\ Emitted(d, d) \in Seq(Lines)
  BY HeaderType, EmittedType
<1>3. BlankLine.line = "blank" /\ d.line = "data"
  BY DEF BlankLine, WireData
<1>4. \A e : ~Unread(wire', e)
  BY <1>1, <1>3, HasOne DEF Unread
<1>5. WireInOrder(d)
  BY <1>1, <1>3, UnreadShort DEF Order
<1>6. TextBlocks' = TextBlocks /\ WireData' = WireData
  BY <1>1, SameWireData DEF TextBlocks, HeldBack
<1>7. ASSUME NEW b \in TextBlocks PROVE \E p, a, h \in Seq(Characters) : Split(b, p, a, h)'
  <2>1. PICK p \in Seq(Characters), a \in Seq(Characters), h \in Seq(Characters) : Split(b, p, a, h)
    BY <1>7 DEF Content
  <2>2. b \in Blocks
    BY <1>7 DEF TextBlocks
  <2>3. TextOf(Emitted(d, d), b) = IF Flush(d) THEN RedactAs(reveal, Held(b)) ELSE <<>>
    <3>1. PICK x \in Seq(Outputs) : x = IF Flush(d) THEN RedactAs(reveal, Held(b)) ELSE <<>>
      BY RedactType, EmptySeq DEF Held, StreamTypes
    <3>2. TextIn(d, b) = <<>>
      BY <1>1 DEF TextIn
    <3>3. TextOf(Emitted(d, d), b) = x \o TextIn(d, b)
      BY <1>2, <2>2, <3>1, EmittedText
    <3> QED
      BY <3>1, <3>2, <3>3, ConcatEmptySeq
  <2>4. /\ TextOf(out', b) = TextOf(out, b) \o TextOf(Emitted(d, d), b)
        /\ Finished(out, b) => Finished(out', b)
        /\ TextOf(Emitted(d, d), b) = <<>> => TextOf(out', b) = TextOf(out, b)
    BY <1>1, <1>2, WrittenText
  <2>5. CASE Flush(d) /\ Held(b) # <<>>
    <3>1. tmpl = b /\ carry # <<>> /\ b # None
      BY <2>2, <2>5, UsedType DEF Held
    <3>2. b \in Used
      BY <3>1 DEF StreamTypes
    <3>3. b \in ended
      <4>1. CASE d = Done
        BY <1>5, <3>2, <4>1 DEF WireInOrder
      <4>2. CASE d # Done
        <5>1. d.ends
          BY <2>5, <4>2 DEF Flush, IsFlushTrigger
        <5>2. d.block \in Used
          BY <1>1, <5>1 DEF WireData, Names
        <5>3. d.block # None
          BY <5>2, UsedType
        <5> QED
          BY <1>5, <3>1, <5>1, <5>3 DEF WireInOrder
      <4> QED
        BY <4>1, <4>2
    <3>4. NoMore(b)'
      BY <1>1, <1>4, <3>3 DEF NoMore
    <3>5. Held(b)' = <<>>
      BY <1>1, <2>5, <3>1 DEF Held
    <3>6. TextOf(out', b) = TextOf(out, b) \o RedactAs(reveal, Held(b))
      BY <2>3, <2>4, <2>5
    <3>7. sent'[b] = sent[b] /\ reveal \in BOOLEAN
      BY <1>1 DEF StreamTypes
    <3>8. a \o h \in Seq(Characters) /\ <<>> \in Seq(Characters) /\ Split(b, p, a \o h, <<>>)'
      BY <1>1, <2>1, <2>4, <3>4, <3>5, <3>6, <3>7, SplitFlushed
    <3> QED
      BY <3>8
  <2>6. CASE ~(Flush(d) /\ Held(b) # <<>>)
    <3>1. TextOf(Emitted(d, d), b) = <<>>
      BY <2>3, <2>6, RedactEmpty
    <3>2. Held(b)' = Held(b)
      BY <1>1, <2>6 DEF Held
    <3>3. NoMore(b) => NoMore(b)'
      BY <1>1, <1>4, NoMoreLasts
    <3>4. Split(b, p, a, h)'
      BY <1>1, <2>1, <2>4, <3>1, <3>2, <3>3, SplitSame
    <3> QED
      BY <3>4
  <2> QED
    BY <2>5, <2>6
<1> QED
  BY <1>6, <1>7 DEF Content

\* What is released joins what was: f after a.
LEMMA FedRedacted ==
    ASSUME NEW a \in Seq(Characters), NEW f \in Seq(Characters), CutFits(a)
    PROVE  \A r \in BOOLEAN :
              RedactAs(r, a) \o (<<>> \o RedactAs(r, f)) = RedactAs(r, <<>>) \o RedactAs(r, a \o f)
<1> TAKE r \in BOOLEAN
<1>1. PICK q \in Seq(Characters) : q = a \o f
  BY ConcatProperties
<1>2. RedactAs(r, q) = RedactAs(r, a) \o RedactAs(r, f)
  BY <1>1, RedactConcat
<1>3. PICK x \in Seq(Outputs), y \in Seq(Outputs) : x = RedactAs(r, q) /\ y = RedactAs(r, f)
  BY RedactType
<1>4. <<>> \o x = x /\ <<>> \o y = y
  BY ConcatEmptySeq
<1> QED
  BY <1>1, <1>2, <1>3, <1>4, RedactEmpty

\* The last text of a block, before which what is held is flushed.
LEMMA FlushedBefore ==
    ASSUME NEW a \in Seq(Characters), NEW h \in Seq(Characters), NEW f \in Seq(Characters), CutFits(a)
    PROVE  \A r \in BOOLEAN :
              RedactAs(r, a) \o (RedactAs(r, h) \o RedactAs(r, f)) = RedactAs(r, a \o h) \o RedactAs(r, f)
<1> TAKE r \in BOOLEAN
<1>1. RedactAs(r, a \o h) = RedactAs(r, a) \o RedactAs(r, h)
  BY RedactConcat
<1>2. PICK x \in Seq(Outputs), y \in Seq(Outputs), z \in Seq(Outputs) :
           x = RedactAs(r, a) /\ y = RedactAs(r, h) /\ z = RedactAs(r, f)
  BY RedactType
<1>3. (x \o y) \o z = x \o (y \o z)
  BY OutputAssoc
<1> QED
  BY <1>1, <1>2, <1>3

LEMMA ContentFeedText == OneChoice /\ StreamTypes /\ Order /\ Plain /\ Content /\ FeedText => Content'
<1> SUFFICES ASSUME OneChoice, StreamTypes, Order, Plain, Content, FeedText PROVE Content'
  OBVIOUS
<1>1. PICK d \in WireData :
           /\ ~over /\ wire = <<d, BlankLine>> /\ wire' = <<BlankLine>>
           /\ d.name = "delta" /\ HeldBack(d.block)
           /\ out' = out \o Emitted(d, FreedData(d))
           /\ carry' = SubSeq(Joined(d), Release(Joined(d)) + 1, Len(Joined(d)))
           /\ tmpl' = d.block
           /\ sent' = [sent EXCEPT ![d.block] = @ \o d.text]
           /\ UNCHANGED <<format, reveal, ended, over>>
  BY FeedTextDoes
<1>2. FreedData(d) \in Datum /\ Emitted(d, FreedData(d)) \in Seq(Lines)
  BY FreedDataType, EmittedType
<1>3. BlankLine.line = "blank" /\ d.line = "data"
  BY DEF BlankLine, WireData
<1>4. \A e : ~Unread(wire', e)
  BY <1>1, <1>3, HasOne DEF Unread
<1>5. Unread(wire, d)
  BY <1>1, <1>3, UnreadShort
<1>6. d.block \in Used /\ d.block \in Blocks /\ d.block # None
  BY <1>1, UsedType DEF WireData
<1>7. /\ ~Finished(out, d.block) /\ (d.ends <=> d.block \in ended)
      /\ carry # <<>> => tmpl = d.block
  BY <1>5, <1>6 DEF Order, WireInOrder
<1>8. TextBlocks' = TextBlocks
  BY <1>1 DEF TextBlocks, HeldBack
<1>9. ASSUME NEW b \in TextBlocks, b # d.block PROVE \E p, a, h \in Seq(Characters) : Split(b, p, a, h)'
  <2>1. PICK p \in Seq(Characters), a \in Seq(Characters), h \in Seq(Characters) : Split(b, p, a, h)
    BY <1>9 DEF Content
  <2>2. b \in Blocks /\ Held(b) = <<>> /\ Held(b)' = <<>>
    BY <1>1, <1>7, <1>9 DEF TextBlocks, Held
  <2>3. TextOf(Emitted(d, FreedData(d)), b) = <<>>
    <3>1. TextIn(FreedData(d), b) = <<>>
      BY <1>9, FreedDataType DEF TextIn
    <3>2. TextOf(Emitted(d, FreedData(d)), b)
            = (IF Flush(d) THEN RedactAs(reveal, Held(b)) ELSE <<>>) \o TextIn(FreedData(d), b)
      BY <1>2, <2>2, EmittedText
    <3> QED
      BY <2>2, <3>1, <3>2, RedactEmpty, ConcatEmptySeq, EmptySeq
  <2>4. TextOf(out', b) = TextOf(out, b) /\ (Finished(out, b) => Finished(out', b))
    BY <1>1, <1>2, <2>3, WrittenText
  <2>5. NoMore(b) => NoMore(b)'
    BY <1>1, <1>4, NoMoreLasts
  <2>6. sent'[b] = sent[b]
    BY <1>1, <1>9, <2>2 DEF StreamTypes
  <2>7. Split(b, p, a, h)'
    BY <1>1, <2>1, <2>2, <2>4, <2>5, <2>6, SplitSame
  <2> QED
    BY <2>7
<1>10. ASSUME NEW b \in TextBlocks, b = d.block PROVE \E p, a, h \in Seq(Characters) : Split(b, p, a, h)'
  <2>1. PICK p, a, h : p \in Seq(Characters) /\ a \in Seq(Characters) /\ h \in Seq(Characters) /\ Split(b, p, a, h)
    BY <1>10 DEF Content
  <2>14. a \in Seq(Characters) /\ h \in Seq(Characters)
    BY <2>1
  <2>2. ~NoMore(b)
    BY <1>1, <1>5, <1>7, <1>10 DEF NoMore, WireData
  <2>3. p = <<>> /\ CutFits(a) /\ h = Held(b)
    BY <1>1, <1>7, <1>10, <2>1, <2>2 DEF Split
  <2>4. h = carry
    BY <1>7, <1>10, <2>3 DEF Held
  <2>5. PICK f, c, t : f = Freed(d) /\ c = carry' /\ t = d.text
    OBVIOUS
  <2>15. f \in Seq(Characters) /\ c \in Seq(Characters) /\ t \in Seq(Characters)
    BY <1>1, <2>5, JoinedType DEF WireData
  <2>6. Joined(d) = f \o c /\ CutFits(f)
    BY <1>1, <1>5, <2>5, PlainJoined
  <2>7. Joined(d) = IF Flush(d) THEN t ELSE h \o t
    <3>1. tmpl = None => h = <<>>
      BY <1>6, <1>7, <2>4
    <3>2. <<>> \o t = t
      BY <2>15, ConcatEmptySeq
    <3> QED
      BY <2>4, <2>5, <3>1, <3>2 DEF Joined
  <2>8. sent'[b] = (a \o h) \o t
    <3>1. sent'[b] = sent[b] \o t
      BY <1>1, <1>6, <1>10, <2>5 DEF StreamTypes
    <3>2. a \o h \in Seq(Characters) /\ <<>> \o (a \o h) = a \o h
      BY <2>14, ConcatProperties, ConcatEmptySeq
    <3> QED
      BY <2>1, <2>3, <3>1, <3>2 DEF Split
  <2>9. reveal \in BOOLEAN
    BY DEF StreamTypes
  <2>10. TextOf(out', b)
           = RedactAs(reveal, a) \o ((IF Flush(d) THEN RedactAs(reveal, h) ELSE <<>>) \o RedactAs(reveal, f))
    <3>1. TextIn(FreedData(d), b) = RedactAs(reveal, f)
      BY <1>1, <1>10, <2>5, FreedDataType DEF TextIn
    <3>2. TextOf(Emitted(d, FreedData(d)), b)
            = (IF Flush(d) THEN RedactAs(reveal, h) ELSE <<>>) \o RedactAs(reveal, f)
      BY <1>2, <1>6, <1>10, <2>3, <3>1, EmittedText
    <3>3. TextOf(out, b) = RedactAs(reveal, a)
      <4>1. TextOf(out, b) = RedactAs(reveal, <<>>) \o RedactAs(reveal, a)
        BY <2>1, <2>3 DEF Split
      <4> QED
        BY <2>9, <2>14, <4>1, RedactEmpty, RedactType, ConcatEmptySeq
    <3> QED
      BY <1>1, <1>2, <3>2, <3>3, WrittenText
  <2>11. Held(b)' = c /\ reveal' = reveal
    BY <1>1, <1>10, <2>5 DEF Held
  <2>12. CASE Flush(d)
    <3>1. /\ a \o h \in Seq(Characters)
          /\ TextOf(out', b) = RedactAs(reveal, a \o h) \o RedactAs(reveal, f)
      <4>1. CutFits(a) /\ f \in Seq(Characters)
        BY <2>3, <2>15
      <4>3. a \o h \in Seq(Characters)
        BY <2>14, ConcatProperties
      <4>2. RedactAs(reveal, a) \o (RedactAs(reveal, h) \o RedactAs(reveal, f))
                 = RedactAs(reveal, a \o h) \o RedactAs(reveal, f)
        BY <2>9, <2>14, <4>1, FlushedBefore
      <4> QED
        BY <2>10, <2>12, <4>2, <4>3
    <3>2. sent'[b] = (a \o h) \o (f \o c)
      BY <2>6, <2>7, <2>8, <2>12
    <3>5. Finished(out', b)
      <4>1. d.ends
        BY <1>1, <2>12, DeltaFlush DEF IsFlushTrigger
      <4>2. LastText(FreedData(d), b)
        BY <1>1, <1>10, <4>1, FreedDataType DEF LastText
      <4>3. Finished(Emitted(d, FreedData(d)), b)
        BY <1>2, <4>2, EmittedEnds
      <4> QED
        BY <1>1, <1>2, <4>3, EndsConcat DEF StreamTypes
    <3>6. Split(b, a \o h, f, c)'
      BY <2>6, <2>11, <3>1, <3>2, <3>5 DEF Split
    <3> QED
      BY <2>15, <3>1, <3>6
  <2>13. CASE ~Flush(d)
    <3>1. h \o t = f \o c
      BY <2>6, <2>7, <2>13
    <3>5. CutFits(a) /\ CutFits(f)
      BY <2>3, <2>6
    <3>6. a \o f \in Seq(Characters)
      BY <2>14, <2>15, ConcatProperties
    <3>7. CutFits(a \o f)
      BY <2>14, <2>15, <3>5, FitsConcat
    <3>8. (a \o h) \o t = <<>> \o ((a \o f) \o c)
      <4>1. (a \o h) \o t = a \o (h \o t)
        BY <2>14, <2>15, TextAssoc, ZenonT(60)
      <4>2. (a \o f) \o c = a \o (f \o c)
        BY <2>14, <2>15, TextAssoc, SMTT(30)
      <4>3. (a \o f) \o c \in Seq(Characters)
        BY <2>15, <3>6, ConcatProperties
      <4>4. \A s \in Seq(Characters) : <<>> \o s = s
        BY ConcatEmptySeq
      <4> QED
        BY <3>1, <4>1, <4>2, <4>3, <4>4
    <3>9. RedactAs(reveal, a) \o (<<>> \o RedactAs(reveal, f)) = RedactAs(reveal, <<>>) \o RedactAs(reveal, a \o f)
      BY <2>9, <2>14, <2>15, <3>5, FedRedacted
    <3>2. sent'[b] = <<>> \o ((a \o f) \o c)
      BY <2>8, <3>8
    <3>3. TextOf(out', b) = RedactAs(reveal, <<>>) \o RedactAs(reveal, a \o f)
      BY <2>10, <2>13, <3>9
    <3>4. Split(b, <<>>, a \o f, c)'
      BY <2>11, <3>2, <3>3, <3>7 DEF Split
    <3> QED
      BY <2>15, <3>4, <3>6, EmptySeq
  <2> QED
    BY <2>12, <2>13
<1> QED
  BY <1>8, <1>9, <1>10 DEF Content

LEMMA PendingText == ASSUME StreamTypes, NEW b PROVE TextOf(pending, b) = <<>>
<1>1. ASSUME NEW d \in WireData, pending = Header(d) PROVE TextOf(pending, b) = <<>>
  BY <1>1, HeaderText
<1> QED
  BY <1>1, TextNone DEF StreamTypes, WireShape

\* When the body is over what was held has been given to the client.
LEMMA ContentEnd ==
    ASSUME StreamTypes, Order, Content, EndOfBodyDone, NEW t \in Seq(Lines), out' = out \o t,
           \A b \in Blocks : TextOf(t, b) = RedactAs(reveal, Held(b))
    PROVE  Content'
<1>1. carry' = <<>> /\ ~over /\ over' /\ UNCHANGED <<format, reveal, sent>> /\ reveal \in BOOLEAN
  BY DEF EndOfBodyDone, Order, HeldAlive, StreamTypes
<1>2. TextBlocks' = TextBlocks
  BY <1>1 DEF TextBlocks, HeldBack
<1>3. ASSUME NEW b \in TextBlocks PROVE \E p, a, h \in Seq(Characters) : Split(b, p, a, h)'
  <2>1. PICK p \in Seq(Characters), a \in Seq(Characters), h \in Seq(Characters) : Split(b, p, a, h)
    BY <1>3 DEF Content
  <2>2. b \in Blocks
    BY <1>3 DEF TextBlocks
  <2>3. TextOf(out', b) = TextOf(out, b) \o RedactAs(reveal, Held(b)) /\ (Finished(out, b) => Finished(out', b))
    BY <2>2, WrittenText
  <2>4. Held(b)' = <<>> /\ NoMore(b)' /\ sent'[b] = sent[b]
    BY <1>1 DEF Held, NoMore
  <2>5. a \o h \in Seq(Characters) /\ <<>> \in Seq(Characters) /\ Split(b, p, a \o h, <<>>)'
    BY <1>1, <2>1, <2>3, <2>4, SplitFlushed
  <2> QED
    BY <2>5
<1> QED
  BY <1>2, <1>3 DEF Content

LEMMA ContentEndOfBody == OneChoice /\ StreamTypes /\ Order /\ Content /\ EndOfBody => Content'
<1> SUFFICES ASSUME OneChoice, StreamTypes, Order, Content, EndOfBody PROVE Content'
  OBVIOUS
<1>1. PICK f \in Seq(Lines), g \in Seq(Lines) : f = Flushed /\ g = pending
  BY FlushedType, PendingType
<1>2. EndOfBodyDone /\ out' = out \o (f \o g) /\ f \o g \in Seq(Lines)
  BY <1>1, EndOfBodyWrites
<1>3. ASSUME NEW b \in Blocks PROVE TextOf(f \o g, b) = RedactAs(reveal, Held(b))
  <2>1. TextOf(f \o g, b) = TextOf(f, b) \o TextOf(g, b)
    BY TextConcat
  <2>2. TextOf(f, b) = RedactAs(reveal, Held(b)) /\ TextOf(g, b) = <<>>
    BY <1>1, FlushedText, PendingText
  <2>3. TextOf(f, b) \o <<>> = TextOf(f, b)
    BY TextType, ConcatEmptySeq
  <2> QED
    BY <2>1, <2>2, <2>3
<1> QED
  BY <1>2, <1>3, ContentEnd

\* The line that is cut swallows the first line flushed after it: the name of the event,
\* or for OpenAI, which names none, the text itself.
LEMMA ContentEndInside == OneChoice /\ StreamTypes /\ Order /\ Content /\ EndInsideLine => Content'
<1> SUFFICES ASSUME OneChoice, StreamTypes, Order, Content, EndInsideLine PROVE Content'
  OBVIOUS
<1>1. PICK cut \in CutLines, f \in Seq(Lines) :
           /\ EndOfBodyDone
           /\ f = IF Flushed = <<>> THEN <<>> ELSE Tail(Flushed)
           /\ out' = out \o (pending \o (<<cut>> \o f))
           /\ <<cut>> \o f \in Seq(Lines) /\ pending \o (<<cut>> \o f) \in Seq(Lines)
  BY EndInsideLineWrites
<1>2. PICK g \in Seq(Lines), c \in Seq(Lines), k \in Seq(Lines) :
           g = pending /\ c = <<cut>> /\ k = c \o f
  <2>1. cut \in Lines
    BY CutLinesAre
  <2>2. <<cut>> \in Seq(Lines)
    BY <2>1
  <2> QED
    BY <1>1, <2>2, PendingType
<1>3. out' = out \o (g \o k) /\ g \o k \in Seq(Lines)
  BY <1>1, <1>2
<1>4. ASSUME NEW b PROVE TextOf(g \o k, b) = TextOf(f, b)
  <2>1. TextOf(g \o k, b) = TextOf(g, b) \o TextOf(k, b)
    BY TextConcat, SMTT(30)
  <2>5. TextOf(c \o f, b) = TextOf(c, b) \o TextOf(f, b)
    BY TextConcat, SMTT(30)
  <2>2. TextOf(g, b) = <<>>
    BY <1>2, PendingText
  <2>3. TextOf(c, b) = <<>>
    <3>1. cut.line # "data"
      BY CutLinesAre
    <3> QED
      BY <1>2, <3>1, TextOne DEF TextIn
  <2>4. <<>> \o TextOf(f, b) = TextOf(f, b)
    BY TextType, ConcatEmptySeq
  <2> QED
    BY <1>2, <2>1, <2>2, <2>3, <2>4, <2>5
<1>5. CASE format # "openai" \/ Flushed = <<>>
  <2>1. ASSUME NEW b \in Blocks PROVE TextOf(f, b) = RedactAs(reveal, Held(b))
    BY <1>1, <1>5, FlushedText, TextNone, RedactEmpty
  <2> QED
    BY <1>1, <1>3, <1>4, <2>1, ContentEnd, ZenonT(60)
<1>6. CASE format = "openai" /\ Flushed # <<>>
  <2>1. ~over /\ over' /\ UNCHANGED <<format, reveal, sent>>
    BY <1>1 DEF EndOfBodyDone
  <2>2. WasCut(out')
    <3>1. Has(c, cut)
      BY <1>2, HasOne
    <3>2. Has(k, cut)
      BY <1>2, <3>1, HasConcat
    <3>3. Has(g \o k, cut)
      BY <3>2, HasConcat
    <3> QED
      BY <1>3, <3>3, HasConcat DEF StreamTypes, WasCut
  <2>3. TextBlocks' = TextBlocks
    BY <2>1 DEF TextBlocks, HeldBack
  <2>4. ASSUME NEW b \in TextBlocks PROVE \E p, a, h \in Seq(Characters) : Split(b, p, a, h)'
    <3>1. PICK p \in Seq(Characters), a \in Seq(Characters), h \in Seq(Characters) : Split(b, p, a, h)
      BY <2>4 DEF Content
    <3>2. b \in Blocks
      BY <2>4 DEF TextBlocks
    <3>3. TextOf(f, b) = <<>>
      BY <1>1, <1>6, <3>2, FlushedText
    <3>4. TextOf(out', b) = TextOf(out, b) /\ (Finished(out, b) => Finished(out', b))
      BY <1>3, <1>4, <3>3, WrittenText
    <3>5. Split(b, p, a, h)'
      BY <2>1, <2>2, <3>1, <3>4 DEF Split, NoMore
    <3> QED
      BY <3>5
  <2> QED
    BY <2>3, <2>4 DEF Content
<1> QED
  BY <1>5, <1>6

LEMMA ContentStep == OneChoice /\ StreamTypes /\ Order /\ Plain /\ Content /\ [Next]_vars => Content'
<1> SUFFICES ASSUME OneChoice, StreamTypes, Order, Plain, Content, [Next]_vars PROVE Content'
  OBVIOUS
<1>1. ASSUME NEW b \in Blocks, NEW n \in 1..MaxChunk, SendText(b, n) PROVE Content'
  <2>1. MaxChunk \in Nat
    BY StreamAssumption
  <2>2. PICK d \in WireData : Sends(d) /\ Open(b) /\ UNCHANGED ended /\ d.block = b
    BY <1>1, <2>1, SendTextDoes
  <2>3. b \notin ended
    BY <2>2 DEF Open
  <2> QED
    BY <2>2, <2>3, ContentSent
<1>2. ASSUME NEW b \in Blocks, SendEnd(b) PROVE Content'
  <2>1. PICK d \in WireData : Sends(d) /\ Open(b) /\ ended' = ended \cup {b} /\ d.block = b
    BY <1>2, SendEndDoes
  <2>2. b \notin ended /\ ended \subseteq ended'
    BY <2>1 DEF Open
  <2> QED
    BY <2>1, <2>2, ContentSent
<1>3. CASE SendOther \/ SendDone
  <2>1. PICK d \in WireData : Sends(d) /\ UNCHANGED ended /\ d.name # "delta"
    BY <1>3, SendOtherDoes
  <2>2. None \notin ended
    BY UsedType DEF StreamTypes
  <2> QED
    BY <2>1, <2>2, ContentSent
<1>4. CASE UNCHANGED vars
  <2>1. UNCHANGED <<format, reveal, wire, rest, sent, ended, carry, tmpl, out, over>>
    BY <1>4 DEF vars
  <2>2. TextBlocks' = TextBlocks /\ WireData' = WireData
    BY <2>1, SameWireData DEF TextBlocks, HeldBack
  <2>3. \A b, p, a, h : Split(b, p, a, h)' <=> Split(b, p, a, h)
    BY <2>1, <2>2 DEF Split, Held, NoMore
  <2> QED
    BY <2>2, <2>3 DEF Content
<1> QED
  BY <1>1, <1>2, <1>3, <1>4, ContentHoldEvent, ContentPassBlank, ContentPassData, ContentFeedText,
     ContentInPlace, ContentEndOfBody, ContentEndInside DEF Next, HandleLine

-----------------------------------------------------------------------------
LEMMA FinishedIs == ASSUME StreamTypes, NEW b PROVE EndsWithText(b) <=> Finished(out, b)
<1>1. \A i \in 1..Len(out) : out[i] \in Lines
  BY ElementOfSeq DEF StreamTypes
<1> QED
  BY <1>1 DEF EndsWithText, Finished, Has, LastText

\* Two texts and what they were joined to.
LEMMA CutWhereJoined ==
    ASSUME NEW X, NEW s \in Seq(X), NEW t \in Seq(X)
    PROVE  /\ SubSeq(s \o t, 1, Len(s)) = s
           /\ SubSeq(s \o t, Len(s) + 1, Len(s \o t)) = t
           /\ IsPrefix(s, s \o t)
<1>1. PICK m \in Nat, n \in Nat : m = Len(s) /\ n = Len(t)
  BY LenProperties
<1>2. Len(s \o t) = m + n
  BY <1>1, Parts
<1>3. SubSeq(s \o t, 1, m) = s
  <2>1. CASE m = 0
    <3>1. s = <<>>
      BY <1>1, <2>1, EmptySeq
    <3>2. SubSeq(s \o t, 1, 0) = <<>>
      BY SubSeqEmpty
    <3> QED
      BY <2>1, <3>1, <3>2
  <2>2. CASE m # 0
    <3>1. 1 \in 1..Len(s) /\ m \in 1..Len(s)
      BY <1>1, <2>2
    <3>2. SubSeq(s \o t, 1, m) = SubSeq(s, 1, m)
      BY <3>1, SubSeqOfConcat1
    <3> QED
      BY <1>1, <3>2, SubSeqFull
  <2> QED
    BY <2>1, <2>2
<1>4. SubSeq(s \o t, m + 1, m + n) = t
  <2>1. CASE n = 0
    <3>1. t = <<>>
      BY <1>1, <2>1, EmptySeq
    <3>2. SubSeq(s \o t, m + 1, m) = <<>>
      BY SubSeqEmpty
    <3> QED
      BY <2>1, <3>1, <3>2
  <2>2. CASE n # 0
    <3>1. m + 1 \in Len(s) + 1 .. Len(s) + Len(t) /\ m + n \in Len(s) + 1 .. Len(s) + Len(t)
      BY <1>1, <2>2
    <3>2. SubSeq(s \o t, m + 1, m + n) = SubSeq(t, m + 1 - Len(s), m + n - Len(s))
      BY <3>1, SubSeqOfConcat2
    <3>3. m + 1 - Len(s) = 1 /\ m + n - Len(s) = n
      BY <1>1
    <3> QED
      BY <1>1, <3>2, <3>3, SubSeqFull
  <2> QED
    BY <2>1, <2>2
<1>5. IsPrefix(s, s \o t)
  <2>1. SubSeq(s, 1, m) = s
    BY <1>1, SubSeqFull
  <2> QED
    BY <1>1, <1>2, <1>3, <2>1 DEF IsPrefix
<1> QED
  BY <1>1, <1>2, <1>3, <1>4, <1>5

\* What the client has of a block is a beginning of a redaction it is to have, from which
\* the redaction of what is held, or was lost with a broken line, is missing.
LEMMA SeenOf ==
    ASSUME StreamTypes, Content, NEW b \in TextBlocks
    PROVE  \E h \in Seq(Characters) :
              /\ h = Held(b) \/ (over /\ WasCut(out))
              /\ Seen(b) \in Seq(Outputs)
              /\ Seen(b) \o RedactAs(reveal, h) \in Redactions(b)
<1>1. PICK p \in Seq(Characters), a \in Seq(Characters), h \in Seq(Characters) : Split(b, p, a, h)
  BY DEF Content
<1>2. reveal \in BOOLEAN /\ (CutFits(a) \/ h = <<>>)
  BY <1>1 DEF StreamTypes, Split
<1>3. PICK k \in Seq(Characters) : k = a \o h
  BY ConcatProperties
<1>4. RedactAs(reveal, k) = RedactAs(reveal, a) \o RedactAs(reveal, h)
  BY <1>2, <1>3, RedactJoin
<1>5. sent[b] = p \o k /\ Seen(b) = RedactAs(reveal, p) \o RedactAs(reveal, a)
  BY <1>1, <1>3, SeenIs DEF Split
<1>6. PICK x \in Seq(Outputs), y \in Seq(Outputs), z \in Seq(Outputs) :
           x = RedactAs(reveal, p) /\ y = RedactAs(reveal, a) /\ z = RedactAs(reveal, h)
  BY <1>2, RedactType
<1>7. Seen(b) \in Seq(Outputs) /\ Seen(b) \o z = x \o (y \o z)
  <2>1. x \o y \in Seq(Outputs)
    BY ConcatProperties
  <2>2. (x \o y) \o z = x \o (y \o z)
    BY OutputAssoc
  <2> QED
    BY <1>5, <1>6, <2>1, <2>2
<1>8. Seen(b) \o z = RedactAs(reveal, p) \o RedactAs(reveal, k)
  BY <1>4, <1>6, <1>7
<1>9. CASE EndsWithText(b)
  <2>1. PICK text \in Seq(Characters) : text = sent[b]
    BY <1>5, ConcatProperties
  <2>2. PICK n \in Nat : n = Len(p)
    BY LenProperties
  <2>3. SubSeq(text, 1, n) = p /\ SubSeq(text, n + 1, Len(text)) = k
    BY <1>5, <2>1, <2>2, CutWhereJoined
  <2>4. n \in 0..Len(text)
    <3>1. Len(p \o k) = Len(p) + Len(k) /\ Len(k) \in Nat
      BY LenProperties, ConcatProperties
    <3> QED
      BY <1>5, <2>1, <2>2, <3>1
  <2>5. Seen(b) \o z = Redact(SubSeq(text, 1, n)) \o Redact(SubSeq(text, n + 1, Len(text)))
    BY <1>8, <2>3, RedactIs
  <2>6. Seen(b) \o z \in Redactions(b)
    BY <1>9, <2>1, <2>4, <2>5 DEF Redactions
  <2> QED
    BY <1>1, <1>6, <1>7, <2>6 DEF Split
<1>10. CASE ~EndsWithText(b)
  <2>1. p = <<>>
    BY <1>1, <1>10, FinishedIs DEF Split
  <2>2. sent[b] = k
    BY <1>5, <2>1, ConcatEmptySeq
  <2>3. Seen(b) \o z = RedactAs(reveal, k)
    <3>1. RedactAs(reveal, k) \in Seq(Outputs)
      BY <1>2, RedactType
    <3> QED
      BY <1>8, <2>1, <3>1, RedactEmpty, ConcatEmptySeq
  <2>4. Seen(b) \o z \in Redactions(b)
    BY <1>10, <2>2, <2>3, RedactIs DEF Redactions
  <2> QED
    BY <1>1, <1>6, <1>7, <2>4 DEF Split
<1> QED
  BY <1>9, <1>10

\* In answers with one choice whose values have no whitespace in them (no PEM keys, and no
\* cards, IBANs or phone numbers in groups) the data lines give the client, at every moment
\* and however the text was cut into deltas, a beginning of the redaction of the whole text
\* of every block: no value is missed because it was split, and nothing is lost, repeated or
\* reordered (feedText and flushCarry).  It says nothing of the line a broken connection
\* cuts, which is passed on with the text the model sent in it (handleLine).
THEOREM SeenStaysRedacted == ASSUME OneChoice, PlainTexts PROVE Spec => []SeenIsRedacted
<1>1. Init => StreamTypes /\ Order /\ Plain /\ Content
  BY TypesInit, OrderInit, PlainInit, ContentInit
<1>2. StreamTypes /\ Order /\ Plain /\ Content /\ [Next]_vars => (StreamTypes /\ Order /\ Plain /\ Content)'
  BY TypesStep, OrderStep, PlainStep, ContentStep
<1>3. StreamTypes /\ Content => SeenIsRedacted
  <2> SUFFICES ASSUME StreamTypes, Content, NEW b \in TextBlocks
               PROVE  \E text \in Redactions(b) : IsPrefix(Seen(b), text)
    BY DEF SeenIsRedacted
  <2>1. PICK h \in Seq(Characters) :
             Seen(b) \in Seq(Outputs) /\ Seen(b) \o RedactAs(reveal, h) \in Redactions(b)
    BY SeenOf
  <2>2. PICK s \in Seq(Outputs), t \in Seq(Outputs) : s = Seen(b) /\ t = RedactAs(reveal, h)
    BY <2>1, RedactType DEF StreamTypes
  <2>3. IsPrefix(s, s \o t)
    BY CutWhereJoined
  <2> QED
    BY <2>1, <2>2, <2>3
<1> QED
  BY <1>1, <1>2, <1>3, PTL DEF Spec

\* When such an answer is over, also by a connection broken between two lines, the client
\* has the whole redaction of every block: nothing stays in the carry (stream.go: Process).
THEOREM NothingStaysHeld == ASSUME OneChoice, PlainTexts PROVE Spec => []NothingHeldBack
<1>1. Init => StreamTypes /\ Order /\ Plain /\ Content
  BY TypesInit, OrderInit, PlainInit, ContentInit
<1>2. StreamTypes /\ Order /\ Plain /\ Content /\ [Next]_vars => (StreamTypes /\ Order /\ Plain /\ Content)'
  BY TypesStep, OrderStep, PlainStep, ContentStep
<1>3. StreamTypes /\ Order /\ Content => NothingHeldBack
  <2> SUFFICES ASSUME StreamTypes, Order, Content, over, \A i \in 1..Len(out) : out[i].line # "cut",
                      NEW b \in TextBlocks
               PROVE  Seen(b) \in Redactions(b)
    BY DEF NothingHeldBack
  <2>1. PICK h \in Seq(Characters) :
             /\ h = Held(b) \/ (over /\ WasCut(out))
             /\ Seen(b) \in Seq(Outputs) /\ Seen(b) \o RedactAs(reveal, h) \in Redactions(b)
    BY SeenOf
  <2>2. carry = <<>>
    BY DEF Order, HeldAlive
  <2>3. h = <<>>
    BY <2>1, <2>2, CutLinesAre DEF WasCut, Has, Held
  <2>4. Seen(b) \o <<>> = Seen(b)
    BY <2>1, ConcatEmptySeq
  <2> QED
    BY <2>1, <2>3, <2>4, RedactEmpty
<1> QED
  BY <1>1, <1>2, <1>3, PTL DEF Spec

=============================================================================
