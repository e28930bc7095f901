--------------------------- MODULE RoundTripProofs ---------------------------
(***************************************************************************)
(* Proofs about the round trip of a text through the detectors, the vault  *)
(* and back, for every set of values and patterns, every prompt, and any   *)
(* number of requests.  They rest on what one step of a pass does: the     *)
(* text so far stands for the words it was made of (StepKeepsMeaning),     *)
(* and what is no token in it is a copy of what stood there (StepCopies).  *)
(***************************************************************************)
EXTENDS RoundTrip, SequenceTheorems, WellFoundedInduction, TLAPS

-----------------------------------------------------------------------------
(* Induction.  The library's theorems for it take an operator; here a set of   *)
(* numbers takes its place.                                                    *)

LEMMA LeastNumber ==
    ASSUME NEW T, T \subseteq Nat, T # {}
    PROVE  \E m \in T : \A k \in T : m <= k
<1> DEFINE R == OpToRel(<, Nat)
<1>1. \A k \in Nat : \A j \in Nat : k < j => <<k, j>> \in R
  BY DEF OpToRel
<1> HIDE DEF R
<1>2. IsWellFoundedOn(R, Nat)
  BY NatLessThanWellFounded DEF R
<1>3. PICK m \in T : \A k \in T : <<k, m>> \notin R
  BY <1>2, WFMin
<1>4. ASSUME NEW k \in T PROVE m <= k
  <2>1. m \in Nat /\ k \in Nat
    OBVIOUS
  <2>2. ~(k < m)
    BY <1>1, <1>3, <2>1
  <2> QED
    BY <2>1, <2>2
<1> QED
  BY <1>4

LEMMA Induction ==
    ASSUME NEW T, 0 \in T, \A n \in Nat : n \in T => n + 1 \in T
    PROVE  Nat \subseteq T
<1> SUFFICES ASSUME Nat \ T # {} PROVE FALSE
  OBVIOUS
<1>1. PICK m \in Nat \ T : \A k \in Nat \ T : m <= k
  BY LeastNumber
<1>2. m # 0 /\ m - 1 \in Nat /\ m - 1 \in T
  BY <1>1
<1> QED
  BY <1>1, <1>2

-----------------------------------------------------------------------------
(* FlattenSeq is what its recursive definition says *)

\* g follows the recursion for the first n sequences.
FlattensTo(seqs, g, n) ==
    /\ n >= 1 => g[1] = seqs[1]
    /\ \A i \in 2..n : g[i] = g[i - 1] \o seqs[i]

LEMMA FlattensExist ==
    ASSUME NEW seqs
    PROVE  \A n \in Nat : \E g : FlattensTo(seqs, g, n)
<1> DEFINE T == {n \in Nat : \E g : FlattensTo(seqs, g, n)}
<1>1. 0 \in T
  <2>1. FlattensTo(seqs, <<>>, 0)
    BY DEF FlattensTo
  <2> QED
    BY <2>1
<1>2. ASSUME NEW n \in Nat, n \in T PROVE n + 1 \in T
  <2>1. PICK g : FlattensTo(seqs, g, n)
    BY <1>2
  <2> DEFINE h == [i \in 1..(n + 1) |->
                     IF i = 1 THEN seqs[1] ELSE IF i = n + 1 THEN g[n] \o seqs[i] ELSE g[i]]
  <2>2. FlattensTo(seqs, h, n + 1)
    <3>1. /\ h[1] = seqs[1]
          /\ n # 0 => h[n + 1] = g[n] \o seqs[n + 1]
          /\ \A i \in 2..n : h[i] = g[i]
      <4>1. 1 \in 1..(n + 1) /\ n + 1 \in 1..(n + 1) /\ (n # 0 => n + 1 # 1)
        OBVIOUS
      <4>2. \A i \in 2..n : i \in 1..(n + 1) /\ i # 1 /\ i # n + 1
        OBVIOUS
      <4> QED
        BY <4>1, <4>2
    <3>2. n >= 1 => h[1] = g[1]
      BY <2>1, <3>1 DEF FlattensTo
    <3> HIDE DEF h
    <3>3. ASSUME NEW i \in 2..(n + 1) PROVE h[i] = h[i - 1] \o seqs[i]
      <4>1. n >= 1 /\ i - 1 \in 1..n /\ (i - 1 = 1 \/ i - 1 \in 2..n)
        OBVIOUS
      <4>2. h[i - 1] = g[i - 1]
        BY <3>1, <3>2, <4>1
      <4>3. CASE i = n + 1
        <5>1. i - 1 = n /\ n # 0
          BY <4>1, <4>3
        <5>2. h[n] = g[n]
          BY <4>2, <5>1
        <5>3. h[n + 1] = g[n] \o seqs[n + 1]
          BY <3>1, <5>1
        <5> QED
          BY <4>3, <5>1, <5>2, <5>3
      <4>4. CASE i # n + 1
        <5>1. i \in 2..n
          BY <4>4
        <5>2. g[i] = g[i - 1] \o seqs[i]
          BY <2>1, <5>1 DEF FlattensTo
        <5>3. h[i] = g[i]
          BY <3>1, <5>1
        <5> QED
          BY <4>2, <5>2, <5>3
      <4> QED
        BY <4>3, <4>4
    <3> QED
      BY <3>1, <3>3 DEF FlattensTo
  <2> QED
    BY <2>2
<1> HIDE DEF T
<1>3. Nat \subseteq T
  BY <1>1, <1>2, Induction
<1> QED
  BY <1>3 DEF T

LEMMA FlattensAgree ==
    ASSUME NEW s, NEW t, NEW g, NEW h, NEW m \in Nat \ {0}, NEW n \in Nat, m <= n,
           FlattensTo(s, g, m), FlattensTo(t, h, n), \A i \in 1..m : s[i] = t[i]
    PROVE  g[m] = h[m]
<1> DEFINE T == {k \in Nat : k + 1 <= m => g[k + 1] = h[k + 1]}
<1>1. 0 \in T
  BY DEF FlattensTo
<1>2. ASSUME NEW k \in Nat, k \in T PROVE k + 1 \in T
  <2> SUFFICES ASSUME (k + 1) + 1 <= m PROVE g[(k + 1) + 1] = h[(k + 1) + 1]
    OBVIOUS
  <2>1. (k + 1) + 1 \in 2..m /\ (k + 1) + 1 \in 2..n /\ ((k + 1) + 1) - 1 = k + 1 /\ k + 1 <= m
    OBVIOUS
  <2>2. g[k + 1] = h[k + 1] /\ s[(k + 1) + 1] = t[(k + 1) + 1]
    BY <1>2, <2>1
  <2> QED
    BY <2>1, <2>2 DEF FlattensTo
<1> HIDE DEF T
<1>3. Nat \subseteq T
  BY <1>1, <1>2, Induction
<1>4. m - 1 \in Nat /\ (m - 1) + 1 = m
  OBVIOUS
<1>5. m - 1 \in T
  BY <1>3, <1>4
<1> QED
  BY <1>4, <1>5 DEF T

LEMMA FlattenIs ==
    ASSUME NEW seqs, NEW n \in Nat \ {0}, Len(seqs) = n
    PROVE  \E g : FlattensTo(seqs, g, n) /\ FlattenSeq(seqs) = g[n]
<1> DEFINE G(k) == CHOOSE g : FlattensTo(seqs, g, k)
           F == [k \in 1..n |-> G(k)[k]]
<1>1. \A k \in Nat : FlattensTo(seqs, G(k), k)
  BY FlattensExist
<1> HIDE DEF G
<1>0. \A k \in 1..n : F[k] = G(k)[k]
  OBVIOUS
<1>d. DOMAIN F = 1..n /\ F = [k \in 1..n |-> F[k]]
  OBVIOUS
<1> HIDE DEF F
<1>2. F[1] = seqs[1]
  <2>1. 1 \in 1..n /\ 1 \in Nat /\ 1 >= 1
    OBVIOUS
  <2>2. FlattensTo(seqs, G(1), 1)
    BY <1>1, <2>1
  <2>3. G(1)[1] = seqs[1]
    BY <2>1, <2>2 DEF FlattensTo
  <2> QED
    BY <1>0, <2>1, <2>3
<1>3. ASSUME NEW k \in 2..n PROVE F[k] = F[k - 1] \o seqs[k]
  <2>1. /\ k - 1 \in Nat \ {0} /\ k \in Nat /\ k - 1 <= k /\ k \in 1..n /\ k - 1 \in 1..n
        /\ k \in 2..k
    OBVIOUS
  <2>0. FlattensTo(seqs, G(k), k) /\ FlattensTo(seqs, G(k - 1), k - 1)
    BY <1>1, <2>1
  <2>2. G(k - 1)[k - 1] = G(k)[k - 1]
    <3> DEFINE g == G(k - 1)
               h == G(k)
               m == k - 1
    <3>1. FlattensTo(seqs, g, m) /\ FlattensTo(seqs, h, k)
      BY <2>0
    <3> HIDE DEF g, h
    <3>2. g[m] = h[m]
      BY <2>1, <3>1, FlattensAgree
    <3> QED
      BY <3>2 DEF g, h
  <2>3. G(k)[k] = G(k)[k - 1] \o seqs[k]
    BY <2>0, <2>1 DEF FlattensTo
  <2>4. F[k] = G(k)[k] /\ F[k - 1] = G(k - 1)[k - 1]
    BY <1>0, <2>1
  <2> QED
    BY <2>2, <2>3, <2>4
<1>4. F = [k \in 1..n |-> IF k = 1 THEN seqs[k] ELSE F[k - 1] \o seqs[k]]
  <2>1. ASSUME NEW k \in 1..n PROVE F[k] = IF k = 1 THEN seqs[k] ELSE F[k - 1] \o seqs[k]
    <3>1. k # 1 => k \in 2..n
      OBVIOUS
    <3> QED
      BY <1>2, <1>3, <3>1
  <2> QED
    BY <1>d, <2>1
<1>5. PICK f : f = CHOOSE e : e = [k \in 1..n |-> IF k = 1 THEN seqs[k] ELSE e[k - 1] \o seqs[k]]
  OBVIOUS
<1>6. f = [k \in 1..n |-> IF k = 1 THEN seqs[k] ELSE f[k - 1] \o seqs[k]]
  BY <1>4, <1>5
<1>7. FlattenSeq(seqs) = f[n]
  BY <1>5 DEF FlattenSeq
<1>8. FlattensTo(seqs, f, n)
  <2>1. \A k \in 1..n : f[k] = IF k = 1 THEN seqs[k] ELSE f[k - 1] \o seqs[k]
    BY <1>6
  <2>2. 1 \in 1..n /\ \A k \in 2..n : k \in 1..n /\ k # 1
    OBVIOUS
  <2> QED
    BY <2>1, <2>2 DEF FlattensTo
<1> QED
  BY <1>7, <1>8


LEMMA SequenceInduction ==
    ASSUME NEW X, NEW T, <<>> \in T,
           \A s \in Seq(X) : \A x \in X : s \in T => Append(s, x) \in T
    PROVE  Seq(X) \subseteq T
<1> DEFINE N == {n \in Nat : \A s \in Seq(X) : Len(s) = n => s \in T}
<1>1. 0 \in N
  OBVIOUS
<1>2. ASSUME NEW n \in Nat, n \in N PROVE n + 1 \in N
  <2> SUFFICES ASSUME NEW s \in Seq(X), Len(s) = n + 1 PROVE s \in T
    OBVIOUS
  <2>1. s # <<>>
    BY EmptySeq
  <2>2. PICK t \in Seq(X), x \in X : s = Append(t, x)
    BY <2>1, SequenceEmptyOrAppend
  <2>3. Len(t) \in Nat /\ Len(s) = Len(t) + 1
    BY <2>2, AppendProperties, LenProperties
  <2>4. t \in T
    BY <1>2, <2>3
  <2> QED
    BY <2>2, <2>4
<1> HIDE DEF N
<1>3. Nat \subseteq N
  BY <1>1, <1>2, Induction
<1>4. \A s \in Seq(X) : Len(s) \in N
  BY <1>3
<1> QED
  BY <1>4 DEF N

LEMMA FlattenEmpty == FlattenSeq(<<>>) = <<>>
BY DEF FlattenSeq

LEMMA FlattenOne == ASSUME NEW x PROVE FlattenSeq(<<x>>) = x
<1>0. Len(<<x>>) = 1 /\ <<x>>[1] = x /\ 1 \in Nat \ {0}
  OBVIOUS
<1>1. PICK g : FlattensTo(<<x>>, g, 1) /\ FlattenSeq(<<x>>) = g[1]
  BY <1>0, FlattenIs
<1> QED
  BY <1>0, <1>1 DEF FlattensTo

LEMMA FlattenAppend ==
    ASSUME NEW X, NEW s \in Seq(Seq(X)), NEW x \in Seq(X)
    PROVE  FlattenSeq(Append(s, x)) = FlattenSeq(s) \o x
<1>1. CASE s = <<>>
  <2>1. Append(s, x) = <<x>> /\ <<>> \o x = x
    BY <1>1, ConcatEmptySeq
  <2> QED
    BY <1>1, <2>1, FlattenOne, FlattenEmpty
<1>2. CASE s # <<>>
  <2>1. PICK n \in Nat \ {0} : n = Len(s)
    BY <1>2, EmptySeq
  <2> DEFINE t == Append(s, x)
  <2>2. Len(t) = n + 1 /\ t[n + 1] = x /\ \A i \in 1..n : t[i] = s[i]
    BY <2>1, AppendProperties
  <2> HIDE DEF t
  <2>3. n + 1 \in Nat \ {0} /\ n <= n + 1 /\ n + 1 \in 2..(n + 1) /\ (n + 1) - 1 = n
    OBVIOUS
  <2>4. PICK g : FlattensTo(s, g, n) /\ FlattenSeq(s) = g[n]
    BY <2>1, FlattenIs
  <2>5. PICK h : FlattensTo(t, h, n + 1) /\ FlattenSeq(t) = h[n + 1]
    BY <2>2, <2>3, FlattenIs
  <2>6. \A i \in 1..n : s[i] = t[i]
    BY <2>2
  <2>7. g[n] = h[n]
    BY <2>3, <2>4, <2>5, <2>6, FlattensAgree
  <2>8. h[n + 1] = h[n] \o t[n + 1]
    BY <2>3, <2>5 DEF FlattensTo
  <2>9. FlattenSeq(t) = FlattenSeq(s) \o x
    BY <2>2, <2>4, <2>5, <2>7, <2>8
  <2> QED
    BY <2>9 DEF t
<1> QED
  BY <1>1, <1>2

LEMMA FlattenType ==
    ASSUME NEW X, NEW s \in Seq(Seq(X))
    PROVE  FlattenSeq(s) \in Seq(X)
<1> DEFINE T == {t \in Seq(Seq(X)) : FlattenSeq(t) \in Seq(X)}
<1>1. <<>> \in T
  BY FlattenEmpty, EmptySeq
<1>2. ASSUME NEW t \in Seq(Seq(X)), NEW x \in Seq(X), t \in T PROVE Append(t, x) \in T
  <2>1. Append(t, x) \in Seq(Seq(X))
    BY AppendProperties
  <2>2. FlattenSeq(t) \o x \in Seq(X)
    BY <1>2, ConcatProperties
  <2> QED
    BY <2>1, <2>2, FlattenAppend
<1> HIDE DEF T
<1>3. Seq(Seq(X)) \subseteq T
  BY <1>1, <1>2, SequenceInduction
<1> QED
  BY <1>3 DEF T

LEMMA FlattenConcat ==
    ASSUME NEW X, NEW s \in Seq(Seq(X)), NEW t \in Seq(Seq(X))
    PROVE  FlattenSeq(s \o t) = FlattenSeq(s) \o FlattenSeq(t)
<1> DEFINE T == {u \in Seq(Seq(X)) : FlattenSeq(s \o u) = FlattenSeq(s) \o FlattenSeq(u)}
<1>1. <<>> \in T
  BY FlattenEmpty, FlattenType, ConcatEmptySeq, EmptySeq
<1>2. ASSUME NEW u \in Seq(Seq(X)), NEW x \in Seq(X), u \in T PROVE Append(u, x) \in T
  <2>1. /\ Append(u, x) \in Seq(Seq(X)) /\ Append(u, x) = u \o <<x>>
        /\ <<x>> \in Seq(Seq(X)) /\ s \o u \in Seq(Seq(X))
        /\ Append(s \o u, x) = (s \o u) \o <<x>>
    BY AppendProperties, AppendIsConcat, ConcatProperties
  <2>2. s \o Append(u, x) = Append(s \o u, x)
    BY <2>1, ConcatAssociative
  <2>3. FlattenSeq(Append(s \o u, x)) = (FlattenSeq(s) \o FlattenSeq(u)) \o x
    BY <1>2, <2>1, FlattenAppend
  <2>4. @ = FlattenSeq(s) \o (FlattenSeq(u) \o x)
    BY FlattenType, ConcatAssociative, SMTT(30)
  <2>5. @ = FlattenSeq(s) \o FlattenSeq(Append(u, x))
    BY FlattenAppend
  <2> QED
    BY <2>1, <2>2, <2>3, <2>4, <2>5
<1> HIDE DEF T
<1>3. Seq(Seq(X)) \subseteq T
  BY <1>1, <1>2, SequenceInduction
<1> QED
  BY <1>3 DEF T

-----------------------------------------------------------------------------
(* Words and texts *)

\* The words of texts that know n tokens.
WordsTo(n) == Words \cup {Token(k) : k \in 1..n}

AnyWord == Words \cup {Token(k) : k \in Nat \ {0}}

LEMMA WordsAre ==
    ASSUME NEW w \in Words
    PROVE  w \in {Plain, Key, Bearer} \/ w[1] = "word"
<1>1. ASSUME NEW v, NEW i, w = Word(v, i) PROVE w[1] = "word"
  BY <1>1 DEF Word
<1> QED
  BY <1>1 DEF Words

LEMMA WordIsNoToken == \A w \in Words : w[1] # "token"
<1> SUFFICES ASSUME NEW w \in Words PROVE w[1] # "token"
  OBVIOUS
<1>1. Plain[1] = "plain" /\ Key[1] = "key" /\ Bearer[1] = "bearer"
  BY DEF Plain, Key, Bearer
<1>2. w \in {Plain, Key, Bearer} \/ w[1] = "word"
  BY WordsAre
<1> QED
  BY <1>1, <1>2

LEMMA TokenIs == \A k : Token(k)[1] = "token" /\ Token(k)[2] = k
BY DEF Token

LEMMA TokenOrWord ==
    ASSUME NEW w \in AnyWord
    PROVE  \/ w \in Words /\ w[1] # "token"
           \/ \E k \in Nat \ {0} : w = Token(k) /\ w[1] = "token" /\ w[2] = k
<1>1. CASE w \in Words
  BY <1>1, WordIsNoToken
<1>2. CASE w \in {Token(k) : k \in Nat \ {0}}
  BY <1>2, TokenIs
<1> QED
  BY <1>1, <1>2 DEF AnyWord

LEMMA TokenInRange ==
    ASSUME NEW n \in Nat, NEW w \in WordsTo(n)
    PROVE  \/ w \in Words /\ w[1] # "token"
           \/ \E k \in 1..n : w = Token(k) /\ w[1] = "token" /\ w[2] = k
<1>1. CASE w \in Words
  BY <1>1, WordIsNoToken
<1>2. CASE w \in {Token(k) : k \in 1..n}
  BY <1>2, TokenIs
<1> QED
  BY <1>1, <1>2 DEF WordsTo

LEMMA WordsGrow ==
    ASSUME NEW m \in Nat, NEW n \in Nat, m <= n
    PROVE  /\ Words \subseteq WordsTo(m) /\ WordsTo(m) \subseteq WordsTo(n)
           /\ WordsTo(n) \subseteq AnyWord
           /\ \A s \in Seq(Words) : s \in Seq(WordsTo(m))
           /\ \A s \in Seq(WordsTo(m)) : s \in Seq(WordsTo(n))
           /\ \A s \in Seq(WordsTo(n)) : s \in Seq(AnyWord)
<1>1. 1..m \subseteq 1..n /\ 1..n \subseteq Nat \ {0}
  OBVIOUS
<1>2. /\ Words \subseteq WordsTo(m) /\ WordsTo(m) \subseteq WordsTo(n)
      /\ WordsTo(n) \subseteq AnyWord
  BY <1>1 DEF WordsTo, AnyWord
<1> QED
  BY <1>2, SeqMonotonic

LEMMA WordsFit == \A n \in Nat : \A s \in Seq(Words) : s \in Seq(WordsTo(n))
BY WordsGrow

LEMMA TextsFit ==
    \A m \in Nat : \A n \in Nat : m <= n => \A s \in Seq(WordsTo(m)) : s \in Seq(WordsTo(n))
BY WordsGrow

LEMMA TextsAny == \A n \in Nat : \A s \in Seq(WordsTo(n)) : s \in Seq(AnyWord)
BY WordsGrow

-----------------------------------------------------------------------------
(* What a text stands for *)

Image(text, by) ==
    [i \in 1..Len(text) |-> IF text[i][1] = "token" THEN by[text[i][2]] ELSE <<text[i]>>]

\* by has a text for each of the first n tokens.
Known(by, n) == \A k \in 1..n : by[k] \in Seq(Words)

LEMMA ExpandIs == \A text, by : Expand(text, by) = FlattenSeq(Image(text, by))
BY DEF Expand, Image

LEMMA ImageAt ==
    ASSUME NEW n \in Nat, NEW w \in WordsTo(n), NEW by, Known(by, n)
    PROVE  (IF w[1] = "token" THEN by[w[2]] ELSE <<w>>) \in Seq(Words)
<1>1. CASE w \in Words /\ w[1] # "token"
  <2>1. <<w>> \in Seq(Words)
    BY <1>1
  <2> QED
    BY <1>1, <2>1
<1>2. ASSUME NEW k \in 1..n, w = Token(k) /\ w[1] = "token" /\ w[2] = k
      PROVE  (IF w[1] = "token" THEN by[w[2]] ELSE <<w>>) \in Seq(Words)
  BY <1>2 DEF Known
<1> QED
  BY <1>1, <1>2, TokenInRange

LEMMA ImageType ==
    ASSUME NEW n \in Nat, NEW text \in Seq(WordsTo(n)), NEW by, Known(by, n)
    PROVE  /\ Image(text, by) \in Seq(Seq(Words))
           /\ Len(Image(text, by)) = Len(text)
<1> DEFINE e(i) == IF text[i][1] = "token" THEN by[text[i][2]] ELSE <<text[i]>>
<1>1. Len(text) \in Nat /\ \A i \in 1..Len(text) : text[i] \in WordsTo(n)
  BY LenProperties, ElementOfSeq
<1>2. \A i \in 1..Len(text) : e(i) \in Seq(Words)
  BY <1>1, ImageAt
<1> HIDE DEF e
<1>3. [i \in 1..Len(text) |-> e(i)] \in Seq(Seq(Words)) /\ Len([i \in 1..Len(text) |-> e(i)]) = Len(text)
  BY <1>1, <1>2
<1> QED
  BY <1>3 DEF Image, e

LEMMA ExpandType ==
    ASSUME NEW n \in Nat, NEW text \in Seq(WordsTo(n)), NEW by, Known(by, n)
    PROVE  Expand(text, by) \in Seq(Words)
BY ImageType, FlattenType, ExpandIs

LEMMA ExpandEmpty == \A by : Expand(<<>>, by) = <<>>
<1> SUFFICES ASSUME NEW by PROVE Expand(<<>>, by) = <<>>
  OBVIOUS
<1>1. Image(<<>>, by) = <<>>
  BY DEF Image
<1> QED
  BY <1>1, ExpandIs, FlattenEmpty

LEMMA ExpandOne ==
    ASSUME NEW w, NEW by
    PROVE  Expand(<<w>>, by) = IF w[1] = "token" THEN by[w[2]] ELSE <<w>>
<1>1. Image(<<w>>, by) = <<IF w[1] = "token" THEN by[w[2]] ELSE <<w>>>>
  BY DEF Image
<1> QED
  BY <1>1, ExpandIs, FlattenOne

LEMMA ImageConcat ==
    ASSUME NEW n \in Nat, NEW s \in Seq(WordsTo(n)), NEW t \in Seq(WordsTo(n)),
           NEW by, Known(by, n)
    PROVE  Image(s \o t, by) = Image(s, by) \o Image(t, by)
<1>1. PICK k \in Nat, m \in Nat : k = Len(s) /\ m = Len(t)
  BY LenProperties
<1>2. /\ s \o t \in Seq(WordsTo(n)) /\ Len(s \o t) = k + m
      /\ \A i \in 1..(k + m) : (s \o t)[i] = IF i <= k THEN s[i] ELSE t[i - k]
  BY <1>1, ConcatProperties
<1>3. /\ Image(s, by) \in Seq(Seq(Words)) /\ Len(Image(s, by)) = k
      /\ Image(t, by) \in Seq(Seq(Words)) /\ Len(Image(t, by)) = m
      /\ Image(s \o t, by) \in Seq(Seq(Words)) /\ Len(Image(s \o t, by)) = k + m
  BY <1>1, <1>2, ImageType
<1> DEFINE c == Image(s, by) \o Image(t, by)
<1>4. /\ c \in Seq(Seq(Words)) /\ Len(c) = k + m
      /\ \A i \in 1..(k + m) : c[i] = IF i <= k THEN Image(s, by)[i] ELSE Image(t, by)[i - k]
  BY <1>3, ConcatProperties
<1> HIDE DEF c
<1>5. ASSUME NEW i \in 1..(k + m) PROVE Image(s \o t, by)[i] = c[i]
  <2>1. CASE i <= k
    <3>1. i \in 1..k /\ (s \o t)[i] = s[i] /\ c[i] = Image(s, by)[i]
      BY <1>2, <1>4, <2>1
    <3> QED
      BY <1>1, <1>2, <3>1 DEF Image
  <2>2. CASE ~(i <= k)
    <3>1. i - k \in 1..m /\ (s \o t)[i] = t[i - k] /\ c[i] = Image(t, by)[i - k]
      BY <1>2, <1>4, <2>2
    <3> QED
      BY <1>1, <1>2, <3>1 DEF Image
  <2> QED
    BY <2>1, <2>2
<1>6. Image(s \o t, by) = c
  BY <1>3, <1>4, <1>5, SeqEqual
<1> QED
  BY <1>6 DEF c

LEMMA ExpandConcat ==
    ASSUME NEW n \in Nat, NEW s \in Seq(WordsTo(n)), NEW t \in Seq(WordsTo(n)),
           NEW by, Known(by, n)
    PROVE  Expand(s \o t, by) = Expand(s, by) \o Expand(t, by)
<1>1. Image(s, by) \in Seq(Seq(Words)) /\ Image(t, by) \in Seq(Seq(Words))
  BY ImageType
<1>2. FlattenSeq(Image(s, by) \o Image(t, by)) = FlattenSeq(Image(s, by)) \o FlattenSeq(Image(t, by))
  BY <1>1, FlattenConcat
<1> QED
  BY <1>2, ImageConcat, ExpandIs

\* Words stand for themselves.
LEMMA ExpandWords == ASSUME NEW text \in Seq(Words), NEW by PROVE Expand(text, by) = text
<1> DEFINE T == {t \in Seq(Words) : Expand(t, by) = t}
<1>0. Known(by, 0) /\ Words = WordsTo(0) /\ 0 \in Nat
  BY DEF Known, WordsTo
<1>1. <<>> \in T
  BY ExpandEmpty, EmptySeq
<1>2. ASSUME NEW t \in Seq(Words), NEW w \in Words, t \in T PROVE Append(t, w) \in T
  <2>1. Append(t, w) \in Seq(Words) /\ Append(t, w) = t \o <<w>> /\ <<w>> \in Seq(Words)
    BY AppendProperties, AppendIsConcat
  <2>2. Expand(<<w>>, by) = <<w>>
    BY ExpandOne, WordIsNoToken
  <2>3. Expand(t \o <<w>>, by) = Expand(t, by) \o Expand(<<w>>, by)
    BY <1>0, <2>1, ExpandConcat
  <2> QED
    BY <1>2, <2>1, <2>2, <2>3
<1> HIDE DEF T
<1>3. Seq(Words) \subseteq T
  BY <1>1, <1>2, SequenceInduction
<1> QED
  BY <1>3 DEF T

\* Only the tokens of the text matter.
LEMMA ExpandAgree ==
    ASSUME NEW n \in Nat, NEW text \in Seq(WordsTo(n)), NEW by, NEW as,
           \A k \in 1..n : by[k] = as[k]
    PROVE  Expand(text, by) = Expand(text, as)
<1>1. \A i \in 1..Len(text) : text[i] \in WordsTo(n)
  BY ElementOfSeq
<1>2. \A i \in 1..Len(text) : text[i][1] = "token" => text[i][2] \in 1..n
  BY <1>1, TokenInRange
<1>3. Image(text, by) = Image(text, as)
  BY <1>2 DEF Image
<1> QED
  BY <1>3, ExpandIs

-----------------------------------------------------------------------------
(* The vault: each content has one token, and is older than it *)

Kinds == {"SECRET", "PRIVATEKEY", "JWT", "APIKEY", "SSN", "IBAN", "CARD", "IP", "EMAIL", "PHONE",
          "VAT", "AMKA", "TAXID", "NAME", ""} \cup {Shape[v].service : v \in Values}

Entry == [kind : Kinds, content : Seq(AnyWord)]

\* Only what stands behind a label, a keyed secret, is ever a token itself.
Sound(entries) ==
    /\ entries \in Seq(Entry)
    /\ \A n \in 1..Len(entries) : entries[n].content \in Seq(WordsTo(n - 1))
    /\ \A n \in 1..Len(entries) : entries[n].kind # "SECRET" => entries[n].content \in Seq(Words)
    /\ \A m, n \in 1..Len(entries) : entries[m] = entries[n] => m = n

Extends(entries, old) ==
    Len(old) <= Len(entries) /\ \A n \in 1..Len(old) : entries[n] = old[n]

\* g follows the recursion of Stands for the first m tokens.
StandsTo(entries, g, m) == \A n \in 1..m : g[n] = Expand(entries[n].content, g)

LEMMA StandsExist ==
    ASSUME NEW entries, Sound(entries)
    PROVE  \A m \in Nat : m <= Len(entries) => \E g : StandsTo(entries, g, m)
<1> DEFINE T == {m \in Nat : m <= Len(entries) => \E g : StandsTo(entries, g, m)}
<1>0. Len(entries) \in Nat
  BY LenProperties DEF Sound
<1>1. 0 \in T
  <2>1. StandsTo(entries, <<>>, 0)
    BY DEF StandsTo
  <2> QED
    BY <2>1
<1>2. ASSUME NEW m \in Nat, m \in T PROVE m + 1 \in T
  <2> SUFFICES ASSUME m + 1 <= Len(entries) PROVE \E g : StandsTo(entries, g, m + 1)
    OBVIOUS
  <2>1. PICK g : StandsTo(entries, g, m)
    BY <1>0, <1>2
  <2>2. PICK x : x = Expand(entries[m + 1].content, g)
    OBVIOUS
  <2> DEFINE h == [n \in 1..(m + 1) |-> IF n = m + 1 THEN x ELSE g[n]]
  <2>3. h[m + 1] = x /\ \A n \in 1..m : h[n] = g[n]
    <3>1. m + 1 \in 1..(m + 1) /\ \A n \in 1..m : n \in 1..(m + 1) /\ n # m + 1
      OBVIOUS
    <3> QED
      BY <3>1
  <2> HIDE DEF h
  <2>4. ASSUME NEW n \in 1..(m + 1) PROVE h[n] = Expand(entries[n].content, h)
    <3>1. n \in 1..Len(entries) /\ n - 1 \in Nat /\ \A k \in 1..(n - 1) : k \in 1..m
      BY <1>0
    <3>2. entries[n].content \in Seq(WordsTo(n - 1))
      BY <3>1 DEF Sound
    <3>3. \A k \in 1..(n - 1) : h[k] = g[k]
      BY <2>3, <3>1
    <3>4. Expand(entries[n].content, h) = Expand(entries[n].content, g)
      BY <3>1, <3>2, <3>3, ExpandAgree
    <3>5. CASE n = m + 1
      BY <2>2, <2>3, <3>4, <3>5
    <3>6. CASE n # m + 1
      <4>1. n \in 1..m
        BY <3>6
      <4> QED
        BY <2>1, <2>3, <3>4, <4>1 DEF StandsTo
    <3> QED
      BY <3>5, <3>6
  <2> QED
    BY <2>4 DEF StandsTo
<1> HIDE DEF T
<1>3. Nat \subseteq T
  BY <1>1, <1>2, Induction
<1> QED
  BY <1>3 DEF T

LEMMA StandsIs ==
    ASSUME NEW entries, Sound(entries)
    PROVE  StandsTo(entries, Stands(entries), Len(entries))
<1>1. Len(entries) \in Nat
  BY LenProperties DEF Sound
<1>2. PICK g : StandsTo(entries, g, Len(entries))
  BY <1>1, StandsExist
<1> DEFINE F == [n \in 1..Len(entries) |-> g[n]]
<1>0. F = [n \in 1..Len(entries) |-> F[n]] /\ \A n \in 1..Len(entries) : F[n] = g[n]
  OBVIOUS
<1> HIDE DEF F
<1>3. ASSUME NEW n \in 1..Len(entries) PROVE F[n] = Expand(entries[n].content, F)
  <2>1. n - 1 \in Nat /\ \A k \in 1..(n - 1) : k \in 1..Len(entries)
    BY <1>1
  <2>2. entries[n].content \in Seq(WordsTo(n - 1))
    BY DEF Sound
  <2>3. Expand(entries[n].content, F) = Expand(entries[n].content, g)
    BY <1>0, <2>1, <2>2, ExpandAgree
  <2> QED
    BY <1>0, <1>2, <2>3 DEF StandsTo
<1>4. F = [n \in 1..Len(entries) |-> Expand(entries[n].content, F)]
  BY <1>0, <1>3
<1>5. PICK f : f = CHOOSE e : e = [n \in 1..Len(entries) |-> Expand(entries[n].content, e)]
  OBVIOUS
<1>6. f = [n \in 1..Len(entries) |-> Expand(entries[n].content, f)]
  BY <1>4, <1>5
<1>7. Stands(entries) = f
  BY <1>5 DEF Stands
<1> QED
  BY <1>6, <1>7 DEF StandsTo

LEMMA StandsKnown ==
    ASSUME NEW entries, Sound(entries)
    PROVE  Known(Stands(entries), Len(entries))
<1> DEFINE T == {m \in Nat : m <= Len(entries) => Known(Stands(entries), m)}
<1>0. Len(entries) \in Nat
  BY LenProperties DEF Sound
<1>1. 0 \in T
  BY DEF Known
<1>2. ASSUME NEW m \in Nat, m \in T PROVE m + 1 \in T
  <2> SUFFICES ASSUME m + 1 <= Len(entries) PROVE Known(Stands(entries), m + 1)
    OBVIOUS
  <2>1. m + 1 \in 1..Len(entries) /\ (m + 1) - 1 = m /\ m <= Len(entries)
    BY <1>0
  <2>2. Known(Stands(entries), m)
    BY <1>2, <2>1
  <2>3. entries[m + 1].content \in Seq(WordsTo(m))
    BY <2>1 DEF Sound
  <2>4. Stands(entries)[m + 1] = Expand(entries[m + 1].content, Stands(entries))
    BY <2>1, StandsIs DEF StandsTo
  <2>5. Stands(entries)[m + 1] \in Seq(Words)
    BY <2>2, <2>3, <2>4, ExpandType
  <2>6. \A k \in 1..(m + 1) : k = m + 1 \/ k \in 1..m
    OBVIOUS
  <2> QED
    BY <2>2, <2>5, <2>6 DEF Known
<1> HIDE DEF T
<1>3. Nat \subseteq T
  BY <1>1, <1>2, Induction
<1> QED
  BY <1>0, <1>3 DEF T

\* What a token stands for does not change when others are assigned.
LEMMA StandsGrow ==
    ASSUME NEW old, NEW entries, Sound(old), Sound(entries), Extends(entries, old)
    PROVE  \A n \in 1..Len(old) : Stands(entries)[n] = Stands(old)[n]
<1> DEFINE S(e) == Stands(e)
           T == {m \in Nat : m <= Len(old) => \A n \in 1..m : S(entries)[n] = S(old)[n]}
<1>0. Len(old) \in Nat /\ Len(entries) \in Nat /\ Len(old) <= Len(entries)
  BY LenProperties DEF Sound, Extends
<1>1. 0 \in T
  OBVIOUS
<1>2. ASSUME NEW m \in Nat, m \in T PROVE m + 1 \in T
  <2> SUFFICES ASSUME m + 1 <= Len(old) PROVE \A n \in 1..(m + 1) : S(entries)[n] = S(old)[n]
    OBVIOUS
  <2>1. /\ m + 1 \in 1..Len(old) /\ m + 1 \in 1..Len(entries)
        /\ (m + 1) - 1 = m /\ m <= Len(old)
    BY <1>0
  <2>2. \A n \in 1..m : S(entries)[n] = S(old)[n]
    BY <1>2, <2>1
  <2>3. /\ old[m + 1].content \in Seq(WordsTo(m))
        /\ entries[m + 1].content = old[m + 1].content
    BY <2>1 DEF Sound, Extends
  <2>4. /\ S(old)[m + 1] = Expand(old[m + 1].content, S(old))
        /\ S(entries)[m + 1] = Expand(entries[m + 1].content, S(entries))
    BY <2>1, StandsIs DEF StandsTo
  <2> HIDE DEF S
  <2>5. S(entries)[m + 1] = S(old)[m + 1]
    BY <2>2, <2>3, <2>4, ExpandAgree
  <2>6. \A k \in 1..(m + 1) : k = m + 1 \/ k \in 1..m
    OBVIOUS
  <2> QED
    BY <2>2, <2>5, <2>6
<1> HIDE DEF T
<1>3. Nat \subseteq T
  BY <1>1, <1>2, Induction
<1> QED
  BY <1>0, <1>3 DEF T

LEMMA MeaningGrows ==
    ASSUME NEW old, NEW entries, Sound(old), Sound(entries), Extends(entries, old),
           NEW text \in Seq(WordsTo(Len(old)))
    PROVE  Meaning(text, entries) = Meaning(text, old)
<1>1. Len(old) \in Nat
  BY LenProperties DEF Sound
<1> QED
  BY <1>1, StandsGrow, ExpandAgree DEF Meaning

\* Meaning is a homomorphism.
LEMMA MeaningConcat ==
    ASSUME NEW entries, Sound(entries),
           NEW s \in Seq(WordsTo(Len(entries))), NEW t \in Seq(WordsTo(Len(entries)))
    PROVE  /\ Meaning(s \o t, entries) = Meaning(s, entries) \o Meaning(t, entries)
           /\ Meaning(s, entries) \in Seq(Words) /\ Meaning(t, entries) \in Seq(Words)
<1>1. Len(entries) \in Nat
  BY LenProperties DEF Sound
<1> QED
  BY <1>1, StandsKnown, ExpandConcat, ExpandType DEF Meaning

LEMMA AssignDoes ==
    ASSUME NEW entries, Sound(entries), NEW kind \in Kinds,
           NEW content \in Seq(WordsTo(Len(entries))),
           kind # "SECRET" => content \in Seq(Words),
           NEW new, new = Assign(entries, kind, content)
    PROVE  /\ Sound(new) /\ Extends(new, entries)
           /\ Place(new, kind, content) # {}
           /\ \A n \in Place(new, kind, content) : n \in 1..Len(new) /\ new[n].content = content
<1> DEFINE e == [kind |-> kind, content |-> content]
<1>0. Len(entries) \in Nat /\ entries \in Seq(Entry)
  BY LenProperties DEF Sound
<1>1. \A n \in Place(new, kind, content) : n \in 1..Len(new) /\ new[n].content = content
  BY DEF Place
<1>2. CASE Place(entries, kind, content) # {}
  <2>1. new = entries
    BY <1>2 DEF Assign
  <2> QED
    BY <1>0, <1>1, <1>2, <2>1 DEF Extends
<1>3. CASE Place(entries, kind, content) = {}
  <2>1. new = Append(entries, e)
    BY <1>3 DEF Assign
  <2>2. content \in Seq(AnyWord)
    BY <1>0, WordsGrow
  <2>3. e \in Entry
    BY <2>2 DEF Entry
  <2>4. /\ new \in Seq(Entry) /\ Len(new) = Len(entries) + 1 /\ new[Len(entries) + 1] = e
        /\ \A n \in 1..Len(entries) : new[n] = entries[n]
    BY <1>0, <2>1, <2>3, AppendProperties
  <2>5. /\ e.kind = kind /\ e.content = content
        /\ \A n \in 1..Len(new) : n \in 1..Len(entries) \/ n = Len(entries) + 1
        /\ Len(entries) + 1 \in 1..Len(new) /\ (Len(entries) + 1) - 1 = Len(entries)
    BY <1>0, <2>4
  <2>6. Extends(new, entries)
    BY <1>0, <2>4 DEF Extends
  <2>7. Len(entries) + 1 \in Place(new, kind, content)
    BY <2>4, <2>5 DEF Place
  <2> HIDE DEF e
  <2>8. Sound(new)
    <3>1. ASSUME NEW n \in 1..Len(new)
          PROVE  /\ new[n].content \in Seq(WordsTo(n - 1))
                 /\ new[n].kind # "SECRET" => new[n].content \in Seq(Words)
      <4>1. CASE n \in 1..Len(entries)
        BY <2>4, <4>1 DEF Sound
      <4>2. CASE n = Len(entries) + 1
        BY <2>4, <2>5, <4>2
      <4> QED
        BY <2>5, <4>1, <4>2
    <3>2. \A n \in 1..Len(entries) : entries[n] # e
      BY <1>3 DEF Place, e
    <3>3. \A m, n \in 1..Len(new) : new[m] = new[n] => m = n
      BY <2>4, <2>5, <3>2 DEF Sound
    <3> QED
      BY <2>4, <3>1, <3>3 DEF Sound
  <2> QED
    BY <1>1, <2>6, <2>7, <2>8
<1> QED
  BY <1>2, <1>3

LEMMA ExtendsTrans ==
    ASSUME NEW a, NEW b, NEW c, Sound(a), Sound(b), Sound(c), Extends(b, a), Extends(c, b)
    PROVE  Extends(c, a)
<1>1. Len(a) \in Nat /\ Len(b) \in Nat /\ Len(c) \in Nat
  BY LenProperties DEF Sound
<1>2. \A n \in 1..Len(a) : n \in 1..Len(b)
  BY <1>1 DEF Extends
<1> QED
  BY <1>1, <1>2 DEF Extends

-----------------------------------------------------------------------------
(* What a detector matches *)

Detectors ==
    {d \in [how : {"pattern", "keyed", "bearer", "entities"}, kind : Kinds, found : SUBSET Values] :
        /\ d.how \in {"keyed", "bearer"} => d.kind = "SECRET"
        /\ d.how # "entities" => d.found = {}}

MatchEnd(m, i) == i + Len(m.label) + m.len - 1
Content(m, text, i) == SubSeq(text, i + Len(m.label), MatchEnd(m, i))

LEMMA ShapeIs ==
    ASSUME NEW v \in Values
    PROVE  /\ Size(v) \in Nat \ {0} /\ Shape[v].service \in Kinds
           /\ Shape[v].valid \subseteq Shape[v].kinds
BY ShapeAssumption DEF Kinds, Size

LEMMA WholeType ==
    ASSUME NEW v \in Values
    PROVE  /\ Whole(v) \in Seq(Words) /\ Len(Whole(v)) = Size(v)
           /\ \A i \in 1..Size(v) : Whole(v)[i] = Word(v, i)
<1>1. Size(v) \in Nat /\ \A i \in 1..Size(v) : Word(v, i) \in Words
  BY ShapeIs DEF Words
<1> QED
  BY <1>1 DEF Whole

\* A match is the word behind a label, or a value; only a pattern's match can be rejected.
OfValue(d, text, i, m, v, kind, ok) ==
    /\ StandsAt(text, i, v)
    /\ m = [label |-> <<>>, len |-> Size(v), kind |-> kind, valid |-> ok]
    /\ ok = FALSE => d.how = "pattern" /\ d.kind \in Shape[v].kinds \ Shape[v].valid

LEMMA MatchIs ==
    ASSUME NEW d \in Detectors, NEW text, NEW i, NEW m \in Matches(d, text, i)
    PROVE  \/ /\ AfterLabel(d, text, i)
              /\ m = [label |-> <<text[i]>>, len |-> 1, kind |-> "SECRET", valid |-> TRUE]
           \/ \E v \in Values : \E kind \in Kinds : \E ok \in BOOLEAN :
                 OfValue(d, text, i, m, v, kind, ok)
<1>1. d.found \subseteq Values /\ d.kind \in Kinds
  BY DEF Detectors
<1>2. CASE /\ AfterLabel(d, text, i)
           /\ m = [label |-> <<text[i]>>, len |-> 1, kind |-> d.kind, valid |-> TRUE]
  <2>1. d.kind = "SECRET"
    BY <1>2 DEF AfterLabel, Detectors
  <2> QED
    BY <1>2, <2>1
<1>3. ASSUME NEW v \in Values, StandsAt(text, i, v), d.how = "pattern", d.kind \in Shape[v].kinds,
             m = [label |-> <<>>, len |-> Size(v), kind |-> d.kind,
                  valid |-> d.kind \in Shape[v].valid]
      PROVE  \E u \in Values : \E kind \in Kinds : \E ok \in BOOLEAN :
                 OfValue(d, text, i, m, u, kind, ok)
  <2>1. CASE d.kind \in Shape[v].valid
    <3>1. (d.kind \in Shape[v].valid) = TRUE
      BY <2>1
    <3>2. m = [label |-> <<>>, len |-> Size(v), kind |-> d.kind, valid |-> TRUE]
      BY <1>3, <3>1, Zenon
    <3>3. OfValue(d, text, i, m, v, d.kind, TRUE)
      BY <1>3, <3>2 DEF OfValue
    <3> QED
      BY <1>1, <3>3
  <2>2. CASE d.kind \notin Shape[v].valid
    <3>1. (d.kind \in Shape[v].valid) = FALSE
      BY <2>2
    <3>2. m = [label |-> <<>>, len |-> Size(v), kind |-> d.kind, valid |-> FALSE]
      BY <1>3, <3>1, Zenon
    <3>3. OfValue(d, text, i, m, v, d.kind, FALSE)
      BY <1>3, <2>2, <3>2 DEF OfValue
    <3> QED
      BY <1>1, <3>3
  <2> QED
    BY <2>1, <2>2
<1>4. ASSUME NEW v \in Values, StandsAt(text, i, v),
             m = [label |-> <<>>, len |-> Size(v), kind |-> Shape[v].service, valid |-> TRUE]
      PROVE  \E u \in Values : \E kind \in Kinds : \E ok \in BOOLEAN :
                 OfValue(d, text, i, m, u, kind, ok)
  <2>1. OfValue(d, text, i, m, v, Shape[v].service, TRUE)
    BY <1>4 DEF OfValue
  <2> QED
    BY <2>1, ShapeIs
<1>5. \/ /\ AfterLabel(d, text, i)
         /\ m = [label |-> <<text[i]>>, len |-> 1, kind |-> d.kind, valid |-> TRUE]
      \/ \E v \in Values :
            /\ StandsAt(text, i, v) /\ d.how = "pattern" /\ d.kind \in Shape[v].kinds
            /\ m = [label |-> <<>>, len |-> Size(v), kind |-> d.kind,
                    valid |-> d.kind \in Shape[v].valid]
      \/ \E v \in Values :
            /\ StandsAt(text, i, v)
            /\ m = [label |-> <<>>, len |-> Size(v), kind |-> Shape[v].service, valid |-> TRUE]
  BY <1>1, Zenon DEF Matches
<1> QED
  BY <1>2, <1>3, <1>4, <1>5

\* A rejected match is a value that the pattern of d matches.
LEMMA RejectedIs ==
    ASSUME NEW d \in Detectors, NEW text, NEW i, NEW m \in Matches(d, text, i), ~m.valid
    PROVE  /\ d.how = "pattern"
           /\ \E u \in Values : /\ d.kind \in Shape[u].kinds \ Shape[u].valid
                               /\ StandsAt(text, i, u) /\ m.label = <<>> /\ m.len = Size(u)
<1>1. CASE m = [label |-> <<text[i]>>, len |-> 1, kind |-> "SECRET", valid |-> TRUE]
  BY <1>1
<1>2. ASSUME NEW v \in Values, NEW kind \in Kinds, NEW ok \in BOOLEAN,
             OfValue(d, text, i, m, v, kind, ok)
      PROVE  /\ d.how = "pattern"
             /\ \E u \in Values : /\ d.kind \in Shape[u].kinds \ Shape[u].valid
                                 /\ StandsAt(text, i, u) /\ m.label = <<>> /\ m.len = Size(u)
  <2>1. m.valid = ok /\ m.label = <<>> /\ m.len = Size(v)
    BY <1>2 DEF OfValue
  <2>2. ok = FALSE
    BY <2>1
  <2> QED
    BY <1>2, <2>1, <2>2 DEF OfValue
<1> QED
  BY <1>1, <1>2, MatchIs

\* A match that is not rejected stands behind a label, or is a value the pattern accepts.
LEMMA AcceptedIs ==
    ASSUME NEW d \in Detectors, d.how # "entities", NEW text, NEW i,
           NEW m \in Matches(d, text, i), m.valid, ~AfterLabel(d, text, i)
    PROVE  d.how = "pattern" /\ \E v \in Values : d.kind \in Shape[v].valid /\ StandsAt(text, i, v)
<1>1. d.found = {}
  BY DEF Detectors
<1>2. PICK v \in Values :
          /\ StandsAt(text, i, v) /\ d.how = "pattern"
          /\ m = [label |-> <<>>, len |-> Size(v), kind |-> d.kind,
                  valid |-> d.kind \in Shape[v].valid]
  BY <1>1, Zenon DEF Matches
<1>3. CASE d.kind \in Shape[v].valid
  BY <1>2, <1>3
<1>4. CASE d.kind \notin Shape[v].valid
  <2>1. (d.kind \in Shape[v].valid) = FALSE
    BY <1>4
  <2>2. m = [label |-> <<>>, len |-> Size(v), kind |-> d.kind, valid |-> FALSE]
    BY <1>2, <2>1, Zenon
  <2> QED
    BY <2>2
<1> QED
  BY <1>3, <1>4

\* A match lies in the text, and is words unless a label stands before it.
LEMMA MatchFacts ==
    ASSUME NEW d \in Detectors, NEW text \in Seq(AnyWord), NEW i \in 1..Len(text),
           NEW m \in Matches(d, text, i)
    PROVE  /\ m.kind \in Kinds /\ m.valid \in BOOLEAN /\ m.len \in Nat
           /\ \/ m.label = <<>>
              \/ m.label = <<text[i]>> /\ text[i] \in {Key, Bearer}
           /\ i + Len(m.label) \in Nat /\ MatchEnd(m, i) \in Nat
           /\ i <= i + Len(m.label) /\ i + Len(m.label) <= MatchEnd(m, i)
           /\ MatchEnd(m, i) <= Len(text)
           /\ m.kind # "SECRET" => Content(m, text, i) \in Seq(Words)
<1>0. Len(text) \in Nat /\ i \in Nat
  BY LenProperties
<1>1. CASE /\ AfterLabel(d, text, i)
           /\ m = [label |-> <<text[i]>>, len |-> 1, kind |-> "SECRET", valid |-> TRUE]
  <2>1. m.label = <<text[i]>> /\ m.len = 1 /\ m.kind = "SECRET" /\ Len(m.label) = 1
    BY <1>1
  <2>2. i < Len(text) /\ text[i] \in {Key, Bearer}
    BY <1>1 DEF AfterLabel
  <2>3. i + Len(m.label) = i + 1 /\ MatchEnd(m, i) = i + 1
    BY <1>0, <2>1 DEF MatchEnd
  <2>4. i + 1 \in Nat /\ i <= i + 1 /\ i + 1 <= Len(text)
    BY <1>0, <2>2
  <2>5. /\ m.kind \in Kinds /\ (m.kind # "SECRET" => Content(m, text, i) \in Seq(Words))
        /\ m.valid \in BOOLEAN /\ m.len \in Nat
    BY <1>1, <2>1 DEF Kinds
  <2>6. /\ i + Len(m.label) \in Nat /\ MatchEnd(m, i) \in Nat
        /\ i <= i + Len(m.label) /\ i + Len(m.label) <= MatchEnd(m, i)
        /\ MatchEnd(m, i) <= Len(text)
    BY <1>0, <2>3, <2>4
  <2>7. m.label = <<text[i]>> /\ text[i] \in {Key, Bearer}
    BY <2>1, <2>2
  <2> QED
    BY <2>5, <2>6, <2>7, Zenon
<1>2. ASSUME NEW v \in Values, NEW kind \in Kinds, NEW ok \in BOOLEAN,
             OfValue(d, text, i, m, v, kind, ok)
      PROVE  /\ m.kind \in Kinds /\ m.label = <<>> /\ m.valid \in BOOLEAN /\ m.len \in Nat
             /\ i + Len(m.label) \in Nat /\ MatchEnd(m, i) \in Nat
             /\ i <= i + Len(m.label) /\ i + Len(m.label) <= MatchEnd(m, i)
             /\ MatchEnd(m, i) <= Len(text)
             /\ Content(m, text, i) \in Seq(Words)
  <2>0. StandsAt(text, i, v)
    BY <1>2 DEF OfValue
  <2>1. /\ m.label = <<>> /\ m.len = Size(v) /\ m.kind = kind /\ Len(m.label) = 0
        /\ m.valid = ok
    BY <1>2 DEF OfValue
  <2>2. i + Size(v) - 1 <= Len(text) /\ Size(v) \in Nat \ {0}
    BY <2>0, ShapeIs DEF StandsAt
  <2>3. i + Len(m.label) = i /\ MatchEnd(m, i) = i + Size(v) - 1
    BY <1>0, <2>1, <2>2 DEF MatchEnd
  <2>4. Content(m, text, i) = Whole(v)
    BY <2>0, <2>3 DEF Content, StandsAt
  <2> QED
    BY <1>0, <2>1, <2>2, <2>3, <2>4, WholeType
<1>3. \/ /\ AfterLabel(d, text, i)
         /\ m = [label |-> <<text[i]>>, len |-> 1, kind |-> "SECRET", valid |-> TRUE]
      \/ \E v \in Values : \E kind \in Kinds : \E ok \in BOOLEAN :
            OfValue(d, text, i, m, v, kind, ok)
  BY MatchIs
<1>4. CASE \E v \in Values : \E kind \in Kinds : \E ok \in BOOLEAN :
            OfValue(d, text, i, m, v, kind, ok)
  <2>1. PICK v \in Values, kind \in Kinds, ok \in BOOLEAN : OfValue(d, text, i, m, v, kind, ok)
    BY <1>4
  <2>2. /\ m.kind \in Kinds /\ m.label = <<>> /\ m.valid \in BOOLEAN /\ m.len \in Nat
        /\ i + Len(m.label) \in Nat /\ MatchEnd(m, i) \in Nat
        /\ i <= i + Len(m.label) /\ i + Len(m.label) <= MatchEnd(m, i)
        /\ MatchEnd(m, i) <= Len(text)
        /\ Content(m, text, i) \in Seq(Words)
    BY <1>2, <2>1
  <2> QED
    BY <2>2, Zenon
<1> QED
  BY <1>1, <1>3, <1>4, Zenon

\* Of the matches at a position there is a longest.
LEMMA LongestIs ==
    ASSUME NEW d \in Detectors, NEW text \in Seq(AnyWord), NEW i \in 1..Len(text),
           Matches(d, text, i) # {}
    PROVE  (CHOOSE m \in Longest(Matches(d, text, i)) : TRUE) \in Matches(d, text, i)
<1> DEFINE found == Matches(d, text, i)
           rest(m) == Len(text) - m.len
           T == {rest(m) : m \in found}
<1>0. Len(text) \in Nat /\ i \in Nat /\ i >= 1
  BY LenProperties
<1>1. ASSUME NEW m \in found PROVE m.len \in Nat /\ rest(m) \in Nat
  <2>1. /\ m.len \in Nat /\ MatchEnd(m, i) <= Len(text)
        /\ m.label = <<>> \/ m.label = <<text[i]>>
    BY MatchFacts
  <2>2. Len(m.label) \in {0, 1}
    <3>1. Len(<<>>) = 0 /\ Len(<<text[i]>>) = 1
      OBVIOUS
    <3> QED
      BY <2>1, <3>1
  <2>3. i + Len(m.label) + m.len - 1 <= Len(text) /\ m.len \in Nat
    BY <2>1, MatchFacts DEF MatchEnd
  <2> QED
    BY <1>0, <2>2, <2>3
<1> HIDE DEF found, rest
<1>2. T \subseteq Nat /\ T # {}
  BY <1>1 DEF found
<1> HIDE DEF T
<1>3. PICK l \in T : \A k \in T : l <= k
  BY <1>2, LeastNumber
<1>4. PICK m \in found : l = rest(m)
  BY DEF T
<1>5. ASSUME NEW x \in found PROVE x.len <= m.len
  <2>1. rest(m) <= rest(x)
    BY <1>3, <1>4 DEF T
  <2> QED
    BY <1>0, <1>1, <2>1 DEF rest
<1>6. m \in Longest(found)
  BY <1>5 DEF Longest
<1>7. Longest(found) \subseteq found
  BY DEF Longest
<1> QED
  BY <1>6, <1>7 DEF found

-----------------------------------------------------------------------------
(* One step of a pass *)

Scanned == [text : Seq(AnyWord), vault : Seq(Entry), next : Nat, kept : Nat]

\* Position i is copied; after a rejected match all is, up to its end.
Copies(d, text, r, i, new) ==
    /\ new = [text |-> Append(r.text, text[i]), vault |-> r.vault, next |-> i + 1,
              kept |-> new.kept]
    /\ \/ (i <= r.kept \/ Matches(d, text, i) = {}) /\ new.kept = r.kept
       \/ \E m \in Matches(d, text, i) : ~m.valid /\ new.kept = MatchEnd(m, i)

\* A match m at i becomes its label and the token n.
Takes(d, text, r, i, m, n, new) ==
    /\ ~(i <= r.kept) /\ m \in Matches(d, text, i) /\ m.valid
    /\ n \in Place(new.vault, m.kind, Content(m, text, i))
    /\ new = [text  |-> r.text \o Append(m.label, Token(n)),
              vault |-> Assign(r.vault, m.kind, Content(m, text, i)),
              next  |-> MatchEnd(m, i) + 1, kept |-> r.kept]

LEMMA StepIs ==
    ASSUME NEW d \in Detectors, NEW text \in Seq(AnyWord), NEW i \in 1..Len(text),
           NEW r \in Scanned, Sound(r.vault), text \in Seq(WordsTo(Len(r.vault))),
           NEW new, new = Step(d, text, r, i)
    PROVE  \/ i < r.next /\ new = r
           \/ ~(i < r.next) /\ Copies(d, text, r, i, new)
           \/ ~(i < r.next) /\ \E m, n : Takes(d, text, r, i, m, n, new)
<1>1. CASE i < r.next
  BY <1>1 DEF Step
<1> DEFINE copied == [text |-> Append(r.text, text[i]), vault |-> r.vault, next |-> i + 1,
                      kept |-> r.kept]
<1>2. CASE ~(i < r.next) /\ (i <= r.kept \/ Matches(d, text, i) = {})
  <2>1. new = [r EXCEPT !.text = Append(@, text[i]), !.next = i + 1]
    BY <1>2 DEF Step
  <2>2. new = copied /\ new.kept = r.kept
    BY <2>1 DEF Scanned
  <2> QED
    BY <1>2, <2>2 DEF Copies
<1>3. CASE ~(i < r.next) /\ ~(i <= r.kept) /\ Matches(d, text, i) # {}
  <2>1. PICK m \in Matches(d, text, i) : m = CHOOSE x \in Longest(Matches(d, text, i)) : TRUE
    BY <1>3, LongestIs
  <2>2. PICK entries : entries = Assign(r.vault, m.kind, Content(m, text, i))
    OBVIOUS
  <2>3. PICK n : n = CHOOSE k \in Place(entries, m.kind, Content(m, text, i)) : TRUE
    OBVIOUS
  <2>c. CASE ~m.valid
    <3>1. PICK a : a = [r EXCEPT !.text = Append(@, text[i]), !.next = i + 1]
      OBVIOUS
    <3>2. new = [a EXCEPT !.kept = MatchEnd(m, i)]
      BY <1>3, <2>1, <2>c, <3>1 DEF Step, MatchEnd
    <3>4. a = copied
      BY <3>1 DEF Scanned
    <3>5. PICK end : end = MatchEnd(m, i)
      OBVIOUS
    <3>3. /\ new = [text |-> Append(r.text, text[i]), vault |-> r.vault, next |-> i + 1,
                    kept |-> new.kept]
          /\ new.kept = MatchEnd(m, i)
      BY <3>2, <3>4, <3>5
    <3> QED
      BY <1>3, <2>c, <3>3, Zenon DEF Copies
  <2> SUFFICES ASSUME m.valid PROVE \E p, k : Takes(d, text, r, i, p, k, new)
    BY <1>3, <2>c, Zenon
  <2>4. new = [text |-> r.text \o Append(m.label, Token(n)), vault |-> entries,
               next |-> MatchEnd(m, i) + 1, kept |-> r.kept]
    <3>1. new = [r EXCEPT !.text = @ \o Append(m.label, Token(n)), !.vault = entries,
                          !.next = MatchEnd(m, i) + 1]
      BY <1>3, <2>1, <2>2, <2>3 DEF Step, Content, MatchEnd, Replaced
    <3> QED
      BY <3>1 DEF Scanned
  <2>5. /\ m.kind \in Kinds /\ (m.kind # "SECRET" => Content(m, text, i) \in Seq(Words))
        /\ Content(m, text, i) \in Seq(WordsTo(Len(r.vault)))
    <3>1. /\ i + Len(m.label) \in Nat /\ MatchEnd(m, i) \in Nat
          /\ i <= i + Len(m.label) /\ MatchEnd(m, i) <= Len(text)
          /\ m.kind \in Kinds /\ (m.kind # "SECRET" => Content(m, text, i) \in Seq(Words))
      BY MatchFacts
    <3>2. \A k \in (i + Len(m.label))..MatchEnd(m, i) : k \in 1..Len(text)
      BY <3>1, LenProperties
    <3>3. \A k \in (i + Len(m.label))..MatchEnd(m, i) : text[k] \in WordsTo(Len(r.vault))
      BY <3>2, ElementOfSeq
    <3>4. Content(m, text, i) \in Seq(WordsTo(Len(r.vault)))
      BY <3>1, <3>3, SubSeqProperties DEF Content
    <3> QED
      BY <3>1, <3>4
  <2>6. Place(entries, m.kind, Content(m, text, i)) # {}
    BY <2>2, <2>5, AssignDoes
  <2>7. n \in Place(entries, m.kind, Content(m, text, i))
    BY <2>3, <2>6
  <2>8. new.vault = entries
    BY <2>4
  <2>9. Takes(d, text, r, i, m, n, new)
    BY <1>3, <2>1, <2>2, <2>4, <2>7, <2>8, Zenon DEF Takes
  <2> QED
    BY <2>9, Zenon
<1> QED
  BY <1>1, <1>2, <1>3, Zenon

\* What a match takes, and what it becomes.
Taken(text, r, i, m, n, new) ==
    /\ new \in Scanned /\ Sound(new.vault) /\ Extends(new.vault, r.vault)
    /\ MatchEnd(m, i) \in i..Len(text) /\ new.next - 1 = MatchEnd(m, i)
    /\ new.next \in (i + 1)..(Len(text) + 1)
    /\ n \in 1..Len(new.vault) /\ new.vault[n].content = Content(m, text, i)
    /\ m.label \in Seq(Words)
    /\ m.label = <<>> \/ (m.label = <<text[i]>> /\ text[i] \in {Key, Bearer})
    /\ Content(m, text, i) \in Seq(WordsTo(Len(r.vault)))
    /\ SubSeq(text, i, MatchEnd(m, i)) = m.label \o Content(m, text, i)
    /\ new.text = r.text \o (m.label \o <<Token(n)>>)
    /\ new.text \in Seq(WordsTo(Len(new.vault)))

LEMMA TakesDoes ==
    ASSUME NEW d \in Detectors, NEW text \in Seq(AnyWord), NEW i \in 1..Len(text),
           NEW r \in Scanned, Sound(r.vault), text \in Seq(WordsTo(Len(r.vault))),
           r.text \in Seq(WordsTo(Len(r.vault))), r.next = i,
           NEW m, NEW n, NEW new, Takes(d, text, r, i, m, n, new)
    PROVE  Taken(text, r, i, m, n, new)
<1> DEFINE c == Content(m, text, i)
           last == MatchEnd(m, i)
<1>0. /\ Len(text) \in Nat /\ i \in Nat /\ Len(r.vault) \in Nat
      /\ \A k \in 1..Len(text) : text[k] \in WordsTo(Len(r.vault))
  BY LenProperties, ElementOfSeq DEF Sound
<1>1. /\ m \in Matches(d, text, i)
      /\ n \in Place(new.vault, m.kind, c)
      /\ new = [text  |-> r.text \o Append(m.label, Token(n)),
                vault |-> Assign(r.vault, m.kind, c), next |-> last + 1, kept |-> r.kept]
  BY DEF Takes
<1>2. /\ m.kind \in Kinds
      /\ \/ m.label = <<>>
         \/ m.label = <<text[i]>> /\ text[i] \in {Key, Bearer}
      /\ i + Len(m.label) \in Nat /\ last \in Nat
      /\ i <= i + Len(m.label) /\ i + Len(m.label) <= last
      /\ last <= Len(text)
      /\ m.kind # "SECRET" => c \in Seq(Words)
  BY <1>1, MatchFacts
<1>3. c \in Seq(WordsTo(Len(r.vault)))
  <2>1. \A k \in (i + Len(m.label))..last : k \in 1..Len(text)
    BY <1>0, <1>2
  <2>2. \A k \in (i + Len(m.label))..last : text[k] \in WordsTo(Len(r.vault))
    BY <1>0, <2>1
  <2> HIDE DEF last
  <2>3. SubSeq(text, i + Len(m.label), last) \in Seq(WordsTo(Len(r.vault)))
    BY <1>2, <2>2, SubSeqProperties
  <2> QED
    BY <2>3 DEF Content, last
<1>4. new.vault = Assign(r.vault, m.kind, c) /\ new.next = last + 1
      /\ new.text = r.text \o Append(m.label, Token(n))
  BY <1>1
<1> HIDE DEF c
<1>5. /\ Sound(new.vault) /\ Extends(new.vault, r.vault)
      /\ n \in 1..Len(new.vault) /\ new.vault[n].content = c
  BY <1>1, <1>2, <1>3, <1>4, AssignDoes
<1>6. m.label \in Seq(Words)
  <2>1. <<>> \in Seq(Words)
    BY EmptySeq
  <2>2. CASE m.label = <<text[i]>> /\ text[i] \in {Key, Bearer}
    <3>1. text[i] \in Words
      BY <2>2 DEF Words
    <3>2. <<text[i]>> \in Seq(Words)
      BY <3>1
    <3> QED
      BY <2>2, <3>2
  <2> QED
    BY <1>2, <2>1, <2>2
<1>7. SubSeq(text, i, last) = m.label \o c
  <2>1. CASE m.label = <<>>
    <3>1. Len(m.label) = 0 /\ i + Len(m.label) = i
      BY <1>0, <2>1
    <3>2. c = SubSeq(text, i, last) /\ <<>> \o c = c
      BY <1>3, <3>1, ConcatEmptySeq DEF c, Content
    <3> QED
      BY <2>1, <3>2
  <2>2. CASE m.label = <<text[i]>>
    <3>1. Len(m.label) = 1 /\ i + Len(m.label) = i + 1 /\ last \in i..Len(text)
      BY <1>0, <1>2, <2>2
    <3>2. SubSeq(text, i, last) = <<text[i]>> \o SubSeq(text, i + 1, last)
      BY <3>1, SubSeqRecursiveFirst
    <3> QED
      BY <2>2, <3>1, <3>2 DEF c, Content
  <2> QED
    BY <1>2, <2>1, <2>2
<1>8. /\ Append(m.label, Token(n)) = m.label \o <<Token(n)>>
      /\ m.label \o <<Token(n)>> \in Seq(WordsTo(Len(new.vault)))
      /\ Len(new.vault) \in Nat /\ Len(r.vault) <= Len(new.vault)
  <2>1. Len(new.vault) \in Nat /\ Len(r.vault) <= Len(new.vault)
    BY <1>5, LenProperties DEF Sound, Extends
  <2>2. m.label \in Seq(WordsTo(Len(new.vault)))
    BY <1>6, <2>1, WordsFit
  <2>3. Token(n) \in WordsTo(Len(new.vault))
    BY <1>5 DEF WordsTo
  <2> DEFINE W == WordsTo(Len(new.vault))
  <2> HIDE DEF W
  <2>4. m.label \in Seq(W) /\ Token(n) \in W
    BY <2>2, <2>3 DEF W
  <2>5. Append(m.label, Token(n)) = m.label \o <<Token(n)>> /\ Append(m.label, Token(n)) \in Seq(W)
    BY <2>4, AppendProperties, AppendIsConcat
  <2> QED
    BY <2>1, <2>5 DEF W
<1>9. new.text \in Seq(WordsTo(Len(new.vault)))
  <2>1. r.text \in Seq(WordsTo(Len(new.vault)))
    BY <1>0, <1>8, TextsFit
  <2> QED
    BY <1>4, <1>8, <2>1, ConcatProperties
<1>10. new \in Scanned
  <2>1. new.text \in Seq(AnyWord)
    BY <1>8, <1>9, TextsAny
  <2>2. new.vault \in Seq(Entry)
    BY <1>5 DEF Sound
  <2>3. last + 1 \in Nat
    BY <1>2
  <2> HIDE DEF last
  <2> QED
    BY <1>1, <1>4, <2>1, <2>2, <2>3 DEF Scanned
<1> HIDE DEF last
<1>11. /\ new.next - 1 = last /\ last \in i..Len(text)
       /\ new.next \in (i + 1)..(Len(text) + 1)
  <2>1. new.next = last + 1
    BY <1>4
  <2>2. /\ Len(text) \in Nat /\ i \in Nat /\ last \in Nat /\ last <= Len(text)
        /\ i + Len(m.label) \in Nat /\ i <= i + Len(m.label) /\ i + Len(m.label) <= last
    BY <1>0, <1>2
  <2>3. i <= last
    <3>1. PICK k : k = i + Len(m.label)
      OBVIOUS
    <3>2. k \in Nat /\ i <= k /\ k <= last
      BY <2>2, <3>1
    <3> QED
      BY <2>2, <3>2
  <2> QED
    BY <2>1, <2>2, <2>3
<1>12. /\ new.vault[n].content = Content(m, text, i)
       /\ new.next - 1 = MatchEnd(m, i) /\ MatchEnd(m, i) \in i..Len(text)
       /\ Content(m, text, i) \in Seq(WordsTo(Len(r.vault)))
       /\ SubSeq(text, i, MatchEnd(m, i)) = m.label \o Content(m, text, i)
  BY <1>3, <1>5, <1>7, <1>11, Zenon DEF c, last
<1>13. new.text = r.text \o (m.label \o <<Token(n)>>)
  BY <1>4, <1>8, Zenon
<1> QED
  BY <1>2, <1>5, <1>6, <1>9, <1>10, <1>11, <1>12, <1>13, Zenon DEF Taken

\* After position i of a pass over text, begun with the vault start: the text so far
\* stands for what was read.
PassInv(text, start, r, i) ==
    /\ r \in Scanned /\ r.next \in (i + 1)..(Len(text) + 1)
    /\ Sound(r.vault) /\ Extends(r.vault, start)
    /\ r.text \in Seq(WordsTo(Len(r.vault)))
    /\ Meaning(r.text, r.vault) = Meaning(SubSeq(text, 1, r.next - 1), r.vault)

LEMMA StepKeepsMeaning ==
    ASSUME NEW d \in Detectors, NEW start, Sound(start),
           NEW text \in Seq(WordsTo(Len(start))), NEW i \in 1..Len(text),
           NEW r, PassInv(text, start, r, i - 1)
    PROVE  PassInv(text, start, Step(d, text, r, i), i)
<1> DEFINE new == Step(d, text, r, i)
<1>0. /\ Len(text) \in Nat /\ i \in Nat /\ Len(start) \in Nat
      /\ r \in Scanned /\ r.next \in Nat /\ i <= r.next /\ r.next <= Len(text) + 1
      /\ Sound(r.vault) /\ Extends(r.vault, start)
      /\ Len(r.vault) \in Nat /\ Len(start) <= Len(r.vault)
  <2>1. Len(text) \in Nat /\ Len(start) \in Nat /\ i \in Nat /\ (i - 1) + 1 = i
    BY LenProperties DEF Sound
  <2>2. r \in Scanned /\ r.next \in i..(Len(text) + 1) /\ Sound(r.vault) /\ Extends(r.vault, start)
    BY <2>1 DEF PassInv
  <2>3. Len(r.vault) \in Nat
    BY <2>2, LenProperties DEF Sound
  <2>4. r.next \in Nat /\ i <= r.next /\ r.next <= Len(text) + 1
    BY <2>1, <2>2
  <2> QED
    BY <2>1, <2>2, <2>3, <2>4 DEF Extends
<1>1. /\ text \in Seq(WordsTo(Len(r.vault))) /\ text \in Seq(AnyWord)
      /\ r.text \in Seq(WordsTo(Len(r.vault)))
      /\ \A k \in 0..Len(text) : SubSeq(text, 1, k) \in Seq(WordsTo(Len(r.vault)))
  <2>1. text \in Seq(WordsTo(Len(r.vault))) /\ text \in Seq(AnyWord)
    BY <1>0, WordsGrow
  <2>2. \A k \in 0..Len(text) : \A j \in 1..k : text[j] \in WordsTo(Len(r.vault))
    BY <1>0, <2>1, ElementOfSeq
  <2>3. \A k \in 0..Len(text) : SubSeq(text, 1, k) \in Seq(WordsTo(Len(r.vault)))
    BY <1>0, <2>2, SubSeqProperties
  <2> QED
    BY <2>1, <2>3 DEF PassInv
<1>2. CASE i < r.next
  <2>1. new = r
    BY <1>2 DEF Step
  <2>2. r.next \in (i + 1)..(Len(text) + 1)
    BY <1>0, <1>2
  <2> QED
    BY <2>1, <2>2 DEF PassInv
<1>3. CASE ~(i < r.next) /\ Copies(d, text, r, i, new)
  <2>0. /\ new = [text |-> Append(r.text, text[i]), vault |-> r.vault, next |-> i + 1,
                  kept |-> new.kept]
        /\ new.kept \in Nat
    BY <1>0, <1>1, <1>3, MatchFacts DEF Copies, Scanned
  <2>1. r.next = i /\ i - 1 \in 0..Len(text) /\ new.next = i + 1 /\ new.next - 1 = i
        /\ new.text = Append(r.text, text[i]) /\ new.vault = r.vault
    BY <1>0, <1>3, <2>0
  <2> HIDE DEF new
  <2>2. /\ text[i] \in WordsTo(Len(r.vault)) /\ <<text[i]>> \in Seq(WordsTo(Len(r.vault)))
        /\ new.text \in Seq(WordsTo(Len(r.vault))) /\ new.text = r.text \o <<text[i]>>
    <3> DEFINE W == WordsTo(Len(r.vault))
    <3>1. text[i] \in W /\ r.text \in Seq(W)
      BY <1>1, ElementOfSeq
    <3> HIDE DEF W
    <3>2. Append(r.text, text[i]) \in Seq(W)
      BY <3>1, AppendProperties
    <3>3. Append(r.text, text[i]) = r.text \o <<text[i]>>
      BY <3>1, AppendIsConcat
    <3>4. <<text[i]>> \in Seq(W)
      BY <3>1
    <3> QED
      BY <2>1, <3>1, <3>2, <3>3, <3>4 DEF W
  <2>3. SubSeq(text, 1, i) = SubSeq(text, 1, i - 1) \o <<text[i]>>
    <3>1. 1 \in 1..Len(text) /\ i \in 1..Len(text)
      BY <1>0
    <3> QED
      BY <3>1, SubSeqRecursiveSecond
  <2>4. SubSeq(text, 1, i - 1) \in Seq(WordsTo(Len(r.vault)))
    BY <1>1, <2>1
  <2>5. /\ Meaning(new.text, r.vault) = Meaning(r.text, r.vault) \o Meaning(<<text[i]>>, r.vault)
        /\ Meaning(SubSeq(text, 1, i), r.vault)
              = Meaning(SubSeq(text, 1, i - 1), r.vault) \o Meaning(<<text[i]>>, r.vault)
    BY <1>0, <1>1, <2>2, <2>3, <2>4, MeaningConcat
  <2>6. Meaning(new.text, new.vault) = Meaning(SubSeq(text, 1, new.next - 1), new.vault)
    BY <2>1, <2>5 DEF PassInv
  <2>7. new \in Scanned
    <3>1. new.text \in Seq(AnyWord)
      BY <1>0, <2>2, TextsAny
    <3>2. i + 1 \in Nat
      BY <1>0
    <3> QED
      BY <1>0, <2>0, <2>1, <3>1, <3>2 DEF Scanned
  <2>8. new.next \in (i + 1)..(Len(text) + 1)
    BY <1>0, <2>1
  <2> QED
    BY <1>0, <2>1, <2>2, <2>6, <2>7, <2>8 DEF PassInv, new
<1>4. ASSUME ~(i < r.next), NEW m, NEW n, Takes(d, text, r, i, m, n, new)
      PROVE  PassInv(text, start, new, i)
  <2> DEFINE c == Content(m, text, i)
             last == MatchEnd(m, i)
             V == new.vault
  <2>1. r.next = i /\ i - 1 \in 0..Len(text)
    BY <1>0, <1>4
  <2> HIDE DEF new
  <2>2. Taken(text, r, i, m, n, new)
    BY <1>0, <1>1, <1>4, <2>1, TakesDoes, Zenon
  <2>3. /\ new \in Scanned /\ Sound(V) /\ Extends(V, r.vault)
        /\ last \in i..Len(text) /\ new.next - 1 = last
        /\ new.next \in (i + 1)..(Len(text) + 1)
        /\ n \in 1..Len(V) /\ V[n].content = c
        /\ m.label \in Seq(Words)
        /\ c \in Seq(WordsTo(Len(r.vault)))
        /\ SubSeq(text, i, last) = m.label \o c
        /\ new.text = r.text \o (m.label \o <<Token(n)>>)
        /\ new.text \in Seq(WordsTo(Len(V)))
    BY <2>2, Zenon DEF Taken
  <2> HIDE DEF c, last, V
  <2>4. Len(V) \in Nat /\ Len(r.vault) <= Len(V)
    BY <2>3, LenProperties DEF Sound, Extends
  <2>5. /\ c \in Seq(WordsTo(Len(V))) /\ m.label \in Seq(WordsTo(Len(V)))
        /\ r.text \in Seq(WordsTo(Len(V)))
        /\ SubSeq(text, 1, i - 1) \in Seq(WordsTo(Len(r.vault)))
        /\ SubSeq(text, 1, i - 1) \in Seq(WordsTo(Len(V)))
        /\ <<Token(n)>> \in Seq(WordsTo(Len(V)))
    <3>1. Token(n) \in WordsTo(Len(V))
      BY <2>3 DEF WordsTo
    <3>2. <<Token(n)>> \in Seq(WordsTo(Len(V)))
      BY <3>1
    <3>3. SubSeq(text, 1, i - 1) \in Seq(WordsTo(Len(r.vault)))
      BY <1>1, <2>1
    <3>4. c \in Seq(WordsTo(Len(V))) /\ r.text \in Seq(WordsTo(Len(V)))
      BY <1>0, <1>1, <2>3, <2>4, TextsFit
    <3>5. SubSeq(text, 1, i - 1) \in Seq(WordsTo(Len(V)))
      BY <1>0, <2>4, <3>3, TextsFit
    <3>6. m.label \in Seq(WordsTo(Len(V)))
      BY <2>3, <2>4, WordsFit
    <3> QED
      BY <3>2, <3>3, <3>4, <3>5, <3>6, Zenon
  <2>6. /\ m.label \o <<Token(n)>> \in Seq(WordsTo(Len(V)))
        /\ m.label \o c \in Seq(WordsTo(Len(V)))
    <3> DEFINE W == WordsTo(Len(V))
    <3> HIDE DEF W
    <3>1. m.label \in Seq(W) /\ c \in Seq(W) /\ <<Token(n)>> \in Seq(W)
      BY <2>5 DEF W
    <3>2. m.label \o <<Token(n)>> \in Seq(W) /\ m.label \o c \in Seq(W)
      BY <3>1, ConcatProperties
    <3> QED
      BY <3>2 DEF W
  <2>7. SubSeq(text, 1, last) = SubSeq(text, 1, i - 1) \o SubSeq(text, i, last)
    <3>1. /\ 1 \in 1..(Len(text) + 1) /\ i - 1 \in (1 - 1)..Len(text)
          /\ last \in (i - 1)..Len(text) /\ (i - 1) + 1 = i
      <4>1. Len(text) \in Nat /\ last \in i..Len(text) /\ i \in 1..Len(text)
        BY <1>0, <2>3
      <4> QED
        BY <4>1
    <3> QED
      BY <3>1, ConcatAdjacentSubSeq
  <2>8. Meaning(r.text, V) = Meaning(SubSeq(text, 1, i - 1), V)
    <3>1. Meaning(r.text, r.vault) = Meaning(SubSeq(text, 1, i - 1), r.vault)
      BY <2>1 DEF PassInv
    <3> QED
      BY <1>0, <1>1, <2>3, <2>5, <3>1, MeaningGrows
  <2>9. Meaning(<<Token(n)>>, V) = Meaning(c, V)
    <3>1. Meaning(<<Token(n)>>, V) = Stands(V)[n]
      BY ExpandOne, TokenIs DEF Meaning
    <3>2. Stands(V)[n] = Expand(V[n].content, Stands(V))
      BY <2>3, StandsIs DEF StandsTo
    <3> QED
      BY <2>3, <3>1, <3>2 DEF Meaning
  <2>10. /\ Meaning(m.label \o <<Token(n)>>, V) = Meaning(m.label, V) \o Meaning(<<Token(n)>>, V)
         /\ Meaning(m.label \o c, V) = Meaning(m.label, V) \o Meaning(c, V)
         /\ Meaning(r.text \o (m.label \o <<Token(n)>>), V)
               = Meaning(r.text, V) \o Meaning(m.label \o <<Token(n)>>, V)
         /\ Meaning(SubSeq(text, 1, i - 1) \o (m.label \o c), V)
               = Meaning(SubSeq(text, 1, i - 1), V) \o Meaning(m.label \o c, V)
    BY <2>3, <2>5, <2>6, MeaningConcat
  <2>11. Meaning(new.text, V) = Meaning(SubSeq(text, 1, new.next - 1), V)
    BY <2>3, <2>7, <2>8, <2>9, <2>10
  <2>12. Extends(V, start)
    BY <1>0, <2>3, ExtendsTrans
  <2> QED
    BY <2>3, <2>11, <2>12 DEF PassInv, V
<1>5. \/ i < r.next
      \/ ~(i < r.next) /\ Copies(d, text, r, i, new)
      \/ ~(i < r.next) /\ \E m, n : Takes(d, text, r, i, m, n, new)
  BY <1>0, <1>1, StepIs
<1> QED
  BY <1>2, <1>3, <1>4, <1>5

-----------------------------------------------------------------------------
(* What a pass leaves is what stood there *)

\* What d leaves at position q of the text, as it matches nothing there or as the position
\* is in a match that it rejects.
Leaves(d, text, q) ==
    \/ Matches(d, text, q) = {}
    \/ \E j \in 1..q : \E m \in Matches(d, text, j) : ~m.valid /\ q <= MatchEnd(m, j)

\* What r keeps of the text is left.
Keeps(d, text, r) == \A q \in Nat : (r.next <= q /\ q <= r.kept) => Leaves(d, text, q)

\* src tells where each word of out that is no token stood in the text, of which
\* next - 1 words are read: in one piece from token to token, and where the detector
\* left it, but for the label of a token.
CopiedFrom(src, d, text, out, next) ==
    \A p \in 1..Len(out) : out[p][1] # "token" =>
        /\ src[p] \in 1..(next - 1) /\ out[p] = text[src[p]]
        /\ p = Len(out) => src[p] = next - 1
        /\ (p < Len(out) /\ out[p + 1][1] # "token") => src[p + 1] = src[p] + 1
        /\ \/ Leaves(d, text, src[p])
           \/ p < Len(out) /\ out[p + 1][1] = "token" /\ out[p] \in {Key, Bearer}

\* What stands before a word in out stands for what stood before it in the text.
Aligned(src, text, out, entries) ==
    \A p \in 1..Len(out) : out[p][1] # "token" =>
        Meaning(Before(out, p), entries) = Meaning(Before(text, src[p]), entries)

Copied(d, text, out, next, entries) ==
    \E src : CopiedFrom(src, d, text, out, next) /\ Aligned(src, text, out, entries)

\* What more stands in out comes from position i.
From(src, out, more, i) == [p \in 1..Len(out \o more) |-> IF p <= Len(out) THEN src[p] ELSE i]

LEMMA Pieces ==
    ASSUME NEW x \in AnyWord, NEW y \in AnyWord
    PROVE  /\ <<y>> \in Seq(AnyWord) /\ Len(<<y>>) \in Nat \ {0}
           /\ <<x, y>> \in Seq(AnyWord) /\ Len(<<x, y>>) \in Nat \ {0}
           /\ <<>> \o <<y>> = <<y>> /\ <<x>> \o <<y>> = <<x, y>>
<1>1. <<x>> \in Seq(AnyWord) /\ <<y>> \in Seq(AnyWord) /\ <<x, y>> \in Seq(AnyWord)
  OBVIOUS
<1>2. Len(<<y>>) = 1 /\ Len(<<x>>) = 1 /\ Len(<<x, y>>) = 2
  OBVIOUS
<1>3. <<>> \o <<y>> = <<y>>
  BY <1>1, ConcatEmptySeq
<1>4. \A i \in 1..2 : (<<x>> \o <<y>>)[i] = <<x, y>>[i]
  BY <1>1, <1>2, ConcatProperties
<1>5. <<x>> \o <<y>> \in Seq(AnyWord) /\ Len(<<x>> \o <<y>>) = 2
  BY <1>1, <1>2, ConcatProperties
<1>6. <<x>> \o <<y>> = <<x, y>>
  BY <1>1, <1>2, <1>4, <1>5, SeqEqual
<1>7. Len(<<y>>) \in Nat \ {0} /\ Len(<<x, y>>) \in Nat \ {0}
  BY <1>2
<1> QED
  BY <1>1, <1>3, <1>6, <1>7

LEMMA CopiesMore ==
    ASSUME NEW d, NEW text, NEW out \in Seq(AnyWord), NEW i \in Nat \ {0},
           NEW src, CopiedFrom(src, d, text, out, i),
           NEW more \in Seq(AnyWord), NEW next \in Nat, i < next,
           Len(more) \in Nat \ {0},
           \/ more = <<text[i]>> /\ Leaves(d, text, i) /\ next = i + 1
           \/ \E n : more = <<Token(n)>>
           \/ \E n : more = <<text[i], Token(n)>> /\ text[i] \in {Key, Bearer}
    PROVE  CopiedFrom(From(src, out, more, i), d, text, out \o more, next)
<1>1. CopiedFrom(src, d, text, out, i)
  OBVIOUS
<1> DEFINE new == out \o more
           k == Len(out)
           from == From(src, out, more, i)
<1>2. /\ k \in Nat /\ Len(new) = k + Len(more)
      /\ \A p \in 1..Len(new) : new[p] = IF p <= k THEN out[p] ELSE more[p - k]
  BY LenProperties, ConcatProperties
<1>3. \A p \in 1..Len(new) : from[p] = IF p <= k THEN src[p] ELSE i
  BY DEF From
<1> HIDE DEF from
<1>4. \/ Len(more) = 1 /\ more[1] = text[i] /\ Leaves(d, text, i) /\ next = i + 1
      \/ Len(more) = 1 /\ more[1][1] = "token"
      \/ Len(more) = 2 /\ more[1] = text[i] /\ more[2][1] = "token" /\ text[i] \in {Key, Bearer}
  BY TokenIs
<1> HIDE DEF new, k
<1>5. ASSUME NEW p \in 1..Len(new), new[p][1] # "token"
      PROVE  /\ from[p] \in 1..(next - 1) /\ new[p] = text[from[p]]
             /\ p = Len(new) => from[p] = next - 1
             /\ (p < Len(new) /\ new[p + 1][1] # "token") => from[p + 1] = from[p] + 1
             /\ \/ Leaves(d, text, from[p])
                \/ p < Len(new) /\ new[p + 1][1] = "token" /\ new[p] \in {Key, Bearer}
  <2>0. p \in Nat /\ p >= 1 /\ Len(new) \in Nat
    BY <1>2
  <2>1. CASE p < k
    <3>1. /\ p \in 1..k /\ p + 1 \in 1..k /\ p # k /\ p < Len(new)
          /\ p + 1 \in 1..Len(new) /\ p # Len(new)
      BY <1>2, <2>0, <2>1
    <3>2. new[p] = out[p] /\ new[p + 1] = out[p + 1] /\ from[p] = src[p] /\ from[p + 1] = src[p + 1]
      BY <1>2, <1>3, <3>1
    <3>3. /\ src[p] \in 1..(i - 1) /\ out[p] = text[src[p]]
          /\ out[p + 1][1] # "token" => src[p + 1] = src[p] + 1
          /\ \/ Leaves(d, text, src[p])
             \/ out[p + 1][1] = "token" /\ out[p] \in {Key, Bearer}
      BY <1>1, <1>5, <2>1, <3>1, <3>2 DEF CopiedFrom, k
    <3>4. src[p] \in 1..(next - 1)
      BY <3>3
    <3> QED
      BY <3>1, <3>2, <3>3, <3>4
  <2>2. CASE p = k
    <3>1. /\ p \in 1..k /\ p < Len(new) /\ p + 1 \in 1..Len(new) /\ p # Len(new)
          /\ ~(p + 1 <= k) /\ (p + 1) - k = 1 /\ ~(p < k)
      BY <1>2, <2>0, <2>2
    <3>2. new[p] = out[p] /\ new[p + 1] = more[1] /\ from[p] = src[p] /\ from[p + 1] = i
      BY <1>2, <1>3, <3>1
    <3>3. /\ src[p] \in 1..(i - 1) /\ out[p] = text[src[p]] /\ src[p] = i - 1
          /\ Leaves(d, text, src[p])
      BY <1>1, <1>5, <2>2, <3>1, <3>2 DEF CopiedFrom, k
    <3>4. src[p] \in 1..(next - 1) /\ i = src[p] + 1
      BY <3>3
    <3> QED
      BY <3>1, <3>2, <3>3, <3>4
  <2>3. CASE p > k
    <3>1. ~(p <= k) /\ p - k \in 1..Len(more)
      BY <1>2, <2>0, <2>3
    <3>2. new[p] = more[p - k] /\ from[p] = i
      BY <1>2, <1>3, <3>1
    <3>3. p - k = 1
      BY <1>4, <1>5, <3>1, <3>2
    <3>4. p = k + 1
      BY <1>2, <2>0, <3>3
    <3>5. new[p] = text[i] /\ i \in 1..(next - 1)
      BY <1>4, <1>5, <3>2, <3>3
    <3>6. CASE Len(more) = 1 /\ Leaves(d, text, i) /\ next = i + 1
      <4>1. ~(p < Len(new)) /\ from[p] = next - 1
        BY <1>2, <3>2, <3>4, <3>6
      <4> QED
        BY <3>2, <3>5, <3>6, <4>1
    <3>7. CASE Len(more) = 2 /\ more[2][1] = "token" /\ text[i] \in {Key, Bearer}
      <4>1. p < Len(new) /\ p # Len(new) /\ p + 1 \in 1..Len(new) /\ ~(p + 1 <= k) /\ (p + 1) - k = 2
        BY <1>2, <3>4, <3>7
      <4>2. new[p + 1] = more[2]
        BY <1>2, <4>1
      <4> QED
        BY <3>2, <3>5, <3>7, <4>1, <4>2
    <3> QED
      BY <1>4, <1>5, <3>2, <3>3, <3>6, <3>7
  <2> QED
    BY <1>2, <2>0, <2>1, <2>2, <2>3
<1>6. CopiedFrom(from, d, text, new, next)
  BY <1>5, Zenon DEF CopiedFrom
<1> QED
  BY <1>6 DEF from, new

\* The positions of an old part stay aligned when the vault grows, and the first new word
\* is aligned when all before it is.
LEMMA AlignsMore ==
    ASSUME NEW old, NEW entries, Sound(old), Sound(entries), Extends(entries, old),
           NEW text \in Seq(WordsTo(Len(old))), NEW out \in Seq(WordsTo(Len(old))),
           NEW i \in 1..Len(text), NEW d, NEW src, CopiedFrom(src, d, text, out, i),
           Aligned(src, text, out, old),
           Meaning(out, old) = Meaning(Before(text, i), old),
           NEW more \in Seq(AnyWord), Len(more) \in Nat \ {0},
           \A k \in 2..Len(more) : more[k][1] = "token"
    PROVE  Aligned(From(src, out, more, i), text, out \o more, entries)
<1> DEFINE new == out \o more
           k == Len(out)
           from == From(src, out, more, i)
<1>1. /\ Len(old) \in Nat /\ Len(text) \in Nat /\ i \in Nat /\ k \in Nat
      /\ text \in Seq(AnyWord) /\ out \in Seq(AnyWord)
  BY LenProperties, TextsAny DEF Sound
<1>2. /\ Len(new) = k + Len(more)
      /\ \A p \in 1..Len(new) : new[p] = IF p <= k THEN out[p] ELSE more[p - k]
  BY <1>1, ConcatProperties
<1>3. \A p \in 1..Len(new) : from[p] = IF p <= k THEN src[p] ELSE i
  BY DEF From
<1> HIDE DEF from
<1>4. ASSUME NEW s \in Seq(WordsTo(Len(old))), NEW p \in 1..(Len(s) + 1)
      PROVE  Before(s, p) \in Seq(WordsTo(Len(old)))
  <2>1. Len(s) \in Nat /\ p - 1 \in Int /\ \A j \in 1..(p - 1) : j \in 1..Len(s)
    BY LenProperties
  <2>2. \A j \in 1..(p - 1) : s[j] \in WordsTo(Len(old))
    BY <2>1, ElementOfSeq
  <2> QED
    BY <2>1, <2>2, SubSeqProperties DEF Before
<1>5. ASSUME NEW s \in Seq(WordsTo(Len(old))), NEW p \in 1..(Len(s) + 1)
      PROVE  Meaning(Before(s, p), entries) = Meaning(Before(s, p), old)
  BY <1>4, MeaningGrows
<1>6. ASSUME NEW p \in 1..(k + 1), p \in 1..Len(new) PROVE Before(new, p) = Before(out, p)
  <2>1. CASE p = 1
    BY <2>1, SubSeqEmpty DEF Before
  <2>2. CASE p # 1
    <3>1. 1 \in 1..Len(out) /\ p - 1 \in 1..Len(out)
      BY <1>1, <2>2
    <3> QED
      BY <1>1, <3>1, SubSeqOfConcat1 DEF Before
  <2> QED
    BY <2>1, <2>2
<1>7. Before(out, k + 1) = out
  <2>1. (k + 1) - 1 = k
    BY <1>1
  <2> QED
    BY <2>1, SubSeqFull DEF Before
<1> HIDE DEF new
<1>8. ASSUME NEW p \in 1..Len(new), new[p][1] # "token"
      PROVE  Meaning(Before(new, p), entries) = Meaning(Before(text, from[p]), entries)
  <2>0. p \in Nat /\ p >= 1 /\ k \in Nat
    BY <1>1, <1>2
  <2>1. CASE p <= k
    <3>1. p \in 1..Len(out) /\ p \in 1..(k + 1) /\ new[p] = out[p] /\ from[p] = src[p]
      BY <1>1, <1>2, <1>3, <2>0, <2>1
    <3>2. src[p] \in 1..(i - 1)
      BY <1>8, <3>1 DEF CopiedFrom
    <3>3. src[p] \in 1..(Len(text) + 1)
      BY <1>1, <3>2
    <3>4. Meaning(Before(out, p), old) = Meaning(Before(text, src[p]), old)
      BY <1>8, <3>1 DEF Aligned
    <3> QED
      BY <1>5, <1>6, <3>1, <3>3, <3>4
  <2>2. CASE p > k
    <3>1. p - k \in 1..Len(more) /\ ~(p <= k) /\ new[p] = more[p - k] /\ from[p] = i
      BY <1>1, <1>2, <1>3, <2>0, <2>2
    <3>2. p - k \notin 2..Len(more)
      BY <1>8, <3>1
    <3>3. p = k + 1 /\ p \in 1..(k + 1) /\ i \in 1..(Len(text) + 1) /\ k + 1 \in 1..(k + 1)
      BY <1>1, <2>0, <3>1, <3>2
    <3>4. Before(new, p) = out
      BY <1>6, <1>7, <3>3
    <3>5. Meaning(out, entries) = Meaning(out, old)
      BY MeaningGrows
    <3> QED
      BY <1>5, <3>1, <3>3, <3>4, <3>5
  <2> QED
    BY <2>0, <1>1, <2>1, <2>2
<1> QED
  BY <1>8 DEF Aligned, from, new

LEMMA StepCopies ==
    ASSUME NEW d \in Detectors, NEW start, Sound(start),
           NEW text \in Seq(WordsTo(Len(start))), NEW i \in 1..Len(text),
           NEW r, PassInv(text, start, r, i - 1),
           Copied(d, text, r.text, r.next, r.vault), Keeps(d, text, r),
           NEW new, new = Step(d, text, r, i)
    PROVE  Copied(d, text, new.text, new.next, new.vault) /\ Keeps(d, text, new)
<1>1. /\ Len(text) \in Nat /\ i \in Nat \ {0} /\ Len(start) \in Nat /\ text \in Seq(AnyWord)
      /\ r \in Scanned /\ r.next \in Nat /\ r.kept \in Nat /\ i <= r.next
      /\ Sound(r.vault) /\ text \in Seq(WordsTo(Len(r.vault)))
      /\ r.text \in Seq(AnyWord) /\ r.text \in Seq(WordsTo(Len(r.vault)))
  <2>1. Len(text) \in Nat /\ Len(start) \in Nat /\ i \in Nat \ {0} /\ (i - 1) + 1 = i
    BY LenProperties DEF Sound
  <2>2. /\ r \in Scanned /\ r.next \in i..(Len(text) + 1) /\ Sound(r.vault)
        /\ Extends(r.vault, start) /\ r.text \in Seq(WordsTo(Len(r.vault)))
    BY <2>1 DEF PassInv
  <2>3. Len(r.vault) \in Nat /\ Len(start) <= Len(r.vault)
    BY <2>2, LenProperties DEF Sound, Extends
  <2>4. text \in Seq(WordsTo(Len(r.vault))) /\ text \in Seq(AnyWord)
    BY <2>1, <2>3, WordsGrow
  <2>5. r.text \in Seq(AnyWord) /\ r.kept \in Nat
    BY <2>2 DEF Scanned
  <2>6. r.next \in Nat /\ i <= r.next
    BY <2>1, <2>2
  <2> QED
    BY <2>1, <2>2, <2>4, <2>5, <2>6
<1>a. PICK src : CopiedFrom(src, d, text, r.text, r.next) /\ Aligned(src, text, r.text, r.vault)
  BY DEF Copied
<1>2. CASE i < r.next /\ new = r
  BY <1>2
<1>3. CASE ~(i < r.next) /\ Copies(d, text, r, i, new)
  <2>1. /\ r.next = i /\ new.next = i + 1 /\ new.text = Append(r.text, text[i])
        /\ new.vault = r.vault
        /\ text[i] \in AnyWord /\ i + 1 \in Nat /\ i < i + 1
    BY <1>1, <1>3, ElementOfSeq DEF Copies
  <2>2. \/ (i <= r.kept \/ Matches(d, text, i) = {}) /\ new.kept = r.kept
        \/ \E m \in Matches(d, text, i) : ~m.valid /\ new.kept = MatchEnd(m, i)
    BY <1>3 DEF Copies
  <2>3. Leaves(d, text, i) /\ Keeps(d, text, new)
    <3>1. CASE (i <= r.kept \/ Matches(d, text, i) = {}) /\ new.kept = r.kept
      <4>1. Leaves(d, text, i)
        BY <1>1, <2>1, <3>1 DEF Keeps, Leaves
      <4>2. \A q \in Nat : i + 1 <= q => i <= q
        BY <1>1
      <4>3. Keeps(d, text, new)
        BY <2>1, <3>1, <4>2 DEF Keeps
      <4> QED
        BY <4>1, <4>3
    <3>2. CASE \E m \in Matches(d, text, i) : ~m.valid /\ new.kept = MatchEnd(m, i)
      <4>1. PICK m \in Matches(d, text, i) : ~m.valid /\ new.kept = MatchEnd(m, i)
        BY <3>2
      <4>2. i <= MatchEnd(m, i)
        <5>1. /\ i + Len(m.label) \in Nat /\ MatchEnd(m, i) \in Nat
              /\ i <= i + Len(m.label) /\ i + Len(m.label) <= MatchEnd(m, i)
          BY <1>1, MatchFacts
        <5>2. PICK k : k = i + Len(m.label)
          OBVIOUS
        <5> QED
          BY <1>1, <5>1, <5>2
      <4>3. ASSUME NEW q \in Nat, i <= q, q <= MatchEnd(m, i) PROVE Leaves(d, text, q)
        <5>1. i \in 1..q
          BY <1>1, <4>3
        <5> QED
          BY <4>1, <4>3, <5>1 DEF Leaves
      <4>4. i <= i /\ \A q \in Nat : i + 1 <= q => i <= q
        BY <1>1
      <4> QED
        BY <1>1, <2>1, <4>1, <4>2, <4>3, <4>4 DEF Keeps
    <3> QED
      BY <2>2, <3>1, <3>2
  <2>4. new.text = r.text \o <<text[i]>>
    BY <1>1, <2>1, AppendIsConcat
  <2>5. PICK more : more = <<text[i]>>
    OBVIOUS
  <2>6. more \in Seq(AnyWord) /\ Len(more) \in Nat \ {0} /\ Len(more) = 1
    BY <2>1, <2>5
  <2>7. CopiedFrom(From(src, r.text, more, i), d, text, r.text \o more, i + 1)
    BY <1>1, <1>a, <2>1, <2>3, <2>5, <2>6, CopiesMore
  <2>8. Meaning(r.text, r.vault) = Meaning(Before(text, i), r.vault)
    BY <2>1 DEF PassInv, Before
  <2>9. Extends(r.vault, r.vault) /\ \A k \in 2..Len(more) : more[k][1] = "token"
    <3>1. Len(r.vault) \in Nat
      BY <1>1, LenProperties DEF Sound
    <3> QED
      BY <2>6, <3>1 DEF Extends
  <2>10. Aligned(From(src, r.text, more, i), text, r.text \o more, r.vault)
    BY <1>1, <1>a, <2>1, <2>6, <2>8, <2>9, AlignsMore
  <2> QED
    BY <2>1, <2>3, <2>4, <2>5, <2>7, <2>10 DEF Copied
<1>4. ASSUME ~(i < r.next), NEW m, NEW n, Takes(d, text, r, i, m, n, new)
      PROVE  Copied(d, text, new.text, new.next, new.vault) /\ Keeps(d, text, new)
  <2> DEFINE more == m.label \o <<Token(n)>>
  <2>1. r.next = i
    BY <1>1, <1>4
  <2>2. Taken(text, r, i, m, n, new)
    BY <1>1, <1>4, <2>1, TakesDoes, Zenon
  <2>3. /\ new \in Scanned /\ Sound(new.vault) /\ new.next \in (i + 1)..(Len(text) + 1)
        /\ Extends(new.vault, r.vault) /\ n \in 1..Len(new.vault)
        /\ m.label = <<>> \/ (m.label = <<text[i]>> /\ text[i] \in {Key, Bearer})
        /\ new.text = r.text \o more
    BY <2>2, Zenon DEF Taken
  <2>4. Len(new.vault) \in Nat /\ Token(n) \in AnyWord /\ text[i] \in AnyWord
    <3>1. Len(new.vault) \in Nat
      BY <2>3, LenProperties DEF Sound
    <3>2. n \in Nat \ {0}
      BY <2>3, <3>1
    <3> QED
      BY <1>1, <3>1, <3>2, ElementOfSeq DEF AnyWord
  <2>5. \/ more = <<Token(n)>>
        \/ more = <<text[i], Token(n)>> /\ text[i] \in {Key, Bearer}
    BY <2>3, <2>4, Pieces
  <2> HIDE DEF more
  <2>6. more \in Seq(AnyWord) /\ Len(more) \in Nat \ {0}
    BY <2>4, <2>5, Pieces
  <2>7. new.next \in Nat /\ i < new.next
    BY <1>1, <2>3
  <2>8. CopiedFrom(From(src, r.text, more, i), d, text, r.text \o more, new.next)
    BY <1>1, <1>a, <2>1, <2>5, <2>6, <2>7, CopiesMore
  <2>9. Meaning(r.text, r.vault) = Meaning(Before(text, i), r.vault)
    BY <2>1 DEF PassInv, Before
  <2>10. \A k \in 2..Len(more) : more[k][1] = "token"
    BY <2>5, TokenIs
  <2>11. Aligned(From(src, r.text, more, i), text, r.text \o more, new.vault)
    BY <1>1, <1>a, <2>1, <2>3, <2>6, <2>9, <2>10, AlignsMore
  <2>12. Keeps(d, text, new)
    <3>1. new.kept = r.kept /\ ~(i <= r.kept)
      BY <1>4 DEF Takes
    <3> QED
      BY <1>1, <2>7, <3>1 DEF Keeps
  <2> QED
    BY <2>3, <2>8, <2>11, <2>12 DEF Copied
<1>5. \/ i < r.next /\ new = r
      \/ ~(i < r.next) /\ Copies(d, text, r, i, new)
      \/ ~(i < r.next) /\ \E m, n : Takes(d, text, r, i, m, n, new)
  BY <1>1, StepIs
<1> QED
  BY <1>2, <1>3, <1>4, <1>5

-----------------------------------------------------------------------------
(* A whole pass *)

ScanStart(s) == [text |-> <<>>, vault |-> s.vault, next |-> 1, kept |-> 0]

\* g follows the recursion of Apply for the first m positions.
ScanTo(d, s, g, m) ==
    g[0] = ScanStart(s) /\ \A i \in 1..m : g[i] = Step(d, s.text, g[i - 1], i)

LEMMA ScansExist ==
    ASSUME NEW d, NEW s
    PROVE  \A m \in Nat : \E g : ScanTo(d, s, g, m)
<1> DEFINE T == {m \in Nat : \E g : ScanTo(d, s, g, m)}
<1>1. 0 \in T
  <2>1. PICK g : g = [i \in {0} |-> ScanStart(s)]
    OBVIOUS
  <2>2. ScanTo(d, s, g, 0)
    BY <2>1 DEF ScanTo
  <2> QED
    BY <2>2
<1>2. ASSUME NEW m \in Nat, m \in T PROVE m + 1 \in T
  <2>1. PICK g : ScanTo(d, s, g, m)
    BY <1>2
  <2>2. PICK x : x = Step(d, s.text, g[m], m + 1)
    OBVIOUS
  <2> DEFINE h == [i \in 0..(m + 1) |-> IF i = m + 1 THEN x ELSE g[i]]
  <2>3. h[m + 1] = x /\ \A i \in 0..m : h[i] = g[i]
    <3>1. m + 1 \in 0..(m + 1) /\ \A i \in 0..m : i \in 0..(m + 1) /\ i # m + 1
      OBVIOUS
    <3> QED
      BY <3>1
  <2> HIDE DEF h
  <2>4. h[0] = ScanStart(s)
    BY <2>1, <2>3 DEF ScanTo
  <2>5. ASSUME NEW i \in 1..(m + 1) PROVE h[i] = Step(d, s.text, h[i - 1], i)
    <3>1. i - 1 \in 0..m /\ (i = m + 1 \/ (i \in 1..m /\ i \in 0..m))
      OBVIOUS
    <3>2. h[i - 1] = g[i - 1]
      BY <2>3, <3>1
    <3>3. CASE i = m + 1
      <4>1. i - 1 = m
        BY <3>3
      <4> QED
        BY <2>2, <2>3, <3>2, <3>3, <4>1
    <3>4. CASE i \in 1..m /\ i \in 0..m
      BY <2>1, <2>3, <3>2, <3>4 DEF ScanTo
    <3> QED
      BY <3>1, <3>3, <3>4
  <2> QED
    BY <2>4, <2>5 DEF ScanTo
<1> HIDE DEF T
<1>3. Nat \subseteq T
  BY <1>1, <1>2, Induction
<1> QED
  BY <1>3 DEF T

LEMMA ApplyIs ==
    ASSUME NEW d, NEW s, Len(s.text) \in Nat
    PROVE  \/ /\ \A i \in 1..Len(s.text) : Matches(d, s.text, i) = {}
              /\ Apply(d, s) = s
           \/ \E g : /\ ScanTo(d, s, g, Len(s.text))
                     /\ Apply(d, s) = [text  |-> g[Len(s.text)].text,
                                       vault |-> g[Len(s.text)].vault]
<1> DEFINE N == Len(s.text)
<1>1. PICK g : ScanTo(d, s, g, N)
  BY ScansExist
<1> DEFINE F == [i \in 0..N |-> g[i]]
<1>2. F = [i \in 0..N |-> F[i]] /\ \A i \in 0..N : F[i] = g[i]
  OBVIOUS
<1> HIDE DEF F
<1>3. ASSUME NEW i \in 0..N
      PROVE  F[i] = IF i = 0 THEN ScanStart(s) ELSE Step(d, s.text, F[i - 1], i)
  <2>1. CASE i = 0
    BY <1>1, <1>2, <2>1 DEF ScanTo
  <2>2. CASE i # 0
    <3>1. i \in 1..N /\ i - 1 \in 0..N
      BY <2>2
    <3> QED
      BY <1>1, <1>2, <2>2, <3>1 DEF ScanTo
  <2> QED
    BY <2>1, <2>2
<1>4. F = [i \in 0..N |-> IF i = 0 THEN ScanStart(s) ELSE Step(d, s.text, F[i - 1], i)]
  BY <1>2, <1>3
<1>5. PICK f : f = CHOOSE e :
          e = [i \in 0..N |-> IF i = 0 THEN ScanStart(s) ELSE Step(d, s.text, e[i - 1], i)]
  OBVIOUS
<1>6. f = [i \in 0..N |-> IF i = 0 THEN ScanStart(s) ELSE Step(d, s.text, f[i - 1], i)]
  BY <1>4, <1>5
<1>7. ScanTo(d, s, f, N)
  <2>1. 0 \in 0..N /\ \A i \in 1..N : i \in 0..N /\ i # 0
    OBVIOUS
  <2> HIDE DEF N
  <2> QED
    BY <1>6, <2>1 DEF ScanTo
<1>8. Apply(d, s) = IF \A i \in 1..N : Matches(d, s.text, i) = {} THEN s
                    ELSE [text |-> f[N].text, vault |-> f[N].vault]
  BY <1>5 DEF Apply, ScanStart
<1> QED
  BY <1>7, <1>8

CopiedAll(d, text, out, entries) == Copied(d, text, out, Len(text) + 1, entries)

\* What a pass makes of s: a text that stands for the same words, and copies of the
\* words it left.
Passed(d, s, new) ==
    /\ Sound(new.vault) /\ Extends(new.vault, s.vault)
    /\ new.text \in Seq(WordsTo(Len(new.vault)))
    /\ Meaning(new.text, new.vault) = Meaning(s.text, new.vault)
    /\ CopiedAll(d, s.text, new.text, new.vault)

\* Position m of the scan g.
ScanInv(d, s, r, m) ==
    /\ PassInv(s.text, s.vault, r, m) /\ Copied(d, s.text, r.text, r.next, r.vault)
    /\ Keeps(d, s.text, r)

LEMMA ScanDoes ==
    ASSUME NEW d \in Detectors, NEW s, Sound(s.vault), s.text \in Seq(WordsTo(Len(s.vault))),
           NEW g, ScanTo(d, s, g, Len(s.text))
    PROVE  \A m \in Nat : m <= Len(s.text) => ScanInv(d, s, g[m], m)
<1> DEFINE T == {m \in Nat : m <= Len(s.text) => ScanInv(d, s, g[m], m)}
<1>0. Len(s.text) \in Nat /\ Len(s.vault) \in Nat
  BY LenProperties DEF Sound
<1>1. 0 \in T
  <2>1. /\ g[0] = ScanStart(s) /\ g[0].text = <<>> /\ g[0].vault = s.vault /\ g[0].next = 1
        /\ g[0].kept = 0
    BY DEF ScanTo, ScanStart
  <2>2. <<>> \in Seq(AnyWord) /\ <<>> \in Seq(WordsTo(Len(s.vault))) /\ s.vault \in Seq(Entry)
    BY EmptySeq DEF Sound
  <2>3. g[0] \in Scanned
    BY <2>1, <2>2 DEF Scanned, ScanStart
  <2>4. Extends(s.vault, s.vault)
    BY <1>0 DEF Extends
  <2>5. 1 - 1 = 0 /\ 1 \in (0 + 1)..(Len(s.text) + 1)
    BY <1>0
  <2>6. SubSeq(s.text, 1, 0) = <<>>
    OBVIOUS
  <2>7. PassInv(s.text, s.vault, g[0], 0)
    BY <2>1, <2>2, <2>3, <2>4, <2>5, <2>6 DEF PassInv
  <2>8. CopiedFrom(<<>>, d, s.text, <<>>, 1) /\ Aligned(<<>>, s.text, <<>>, s.vault)
    BY DEF CopiedFrom, Aligned
  <2>9. Keeps(d, s.text, g[0])
    BY <2>1 DEF Keeps
  <2> QED
    BY <2>1, <2>7, <2>8, <2>9 DEF Copied, ScanInv
<1>2. ASSUME NEW m \in Nat, m \in T PROVE m + 1 \in T
  <2> SUFFICES ASSUME m + 1 <= Len(s.text) PROVE ScanInv(d, s, g[m + 1], m + 1)
    OBVIOUS
  <2>1. m + 1 \in 1..Len(s.text) /\ (m + 1) - 1 = m /\ m <= Len(s.text)
    BY <1>0
  <2>2. /\ PassInv(s.text, s.vault, g[m], m) /\ Keeps(d, s.text, g[m])
        /\ Copied(d, s.text, g[m].text, g[m].next, g[m].vault)
    BY <1>2, <2>1 DEF ScanInv
  <2>3. g[m + 1] = Step(d, s.text, g[m], m + 1)
    BY <2>1 DEF ScanTo
  <2> HIDE DEF T
  <2>4. PassInv(s.text, s.vault, g[m + 1], m + 1)
    BY <2>1, <2>2, <2>3, StepKeepsMeaning
  <2>5. /\ Copied(d, s.text, g[m + 1].text, g[m + 1].next, g[m + 1].vault)
        /\ Keeps(d, s.text, g[m + 1])
    BY <2>1, <2>2, <2>3, StepCopies
  <2> QED
    BY <2>4, <2>5 DEF ScanInv
<1> HIDE DEF T
<1>3. Nat \subseteq T
  BY <1>1, <1>2, Induction
<1> QED
  BY <1>3 DEF T

LEMMA ApplyDoes ==
    ASSUME NEW d \in Detectors, NEW s, Sound(s.vault), s.text \in Seq(WordsTo(Len(s.vault)))
    PROVE  Passed(d, s, Apply(d, s))
<1>0. Len(s.text) \in Nat /\ Len(s.vault) \in Nat
  BY LenProperties DEF Sound
<1>1. CASE (\A i \in 1..Len(s.text) : Matches(d, s.text, i) = {}) /\ Apply(d, s) = s
  <2>1. Extends(s.vault, s.vault)
    BY <1>0 DEF Extends
  <2> DEFINE src == [i \in 1..Len(s.text) |-> i]
  <2>2. \A i \in 1..Len(s.text) : src[i] = i
    OBVIOUS
  <2> HIDE DEF src
  <2>3. ASSUME NEW p \in 1..Len(s.text)
        PROVE  /\ src[p] \in 1..((Len(s.text) + 1) - 1) /\ src[p] = p
               /\ p = Len(s.text) => src[p] = (Len(s.text) + 1) - 1
               /\ p < Len(s.text) => src[p + 1] = src[p] + 1
    <3>1. (Len(s.text) + 1) - 1 = Len(s.text) /\ (p < Len(s.text) => p + 1 \in 1..Len(s.text))
      BY <1>0
    <3> QED
      BY <2>2, <3>1
  <2>4. /\ CopiedFrom(src, d, s.text, s.text, Len(s.text) + 1)
        /\ Aligned(src, s.text, s.text, s.vault)
    BY <1>1, <2>3 DEF CopiedFrom, Leaves, Aligned
  <2> QED
    BY <1>1, <2>1, <2>4 DEF Passed, CopiedAll, Copied
<1>2. ASSUME NEW g, ScanTo(d, s, g, Len(s.text)),
             Apply(d, s) = [text |-> g[Len(s.text)].text, vault |-> g[Len(s.text)].vault]
      PROVE  Passed(d, s, Apply(d, s))
  <2> DEFINE r == g[Len(s.text)]
  <2>1. /\ PassInv(s.text, s.vault, r, Len(s.text))
        /\ Copied(d, s.text, r.text, r.next, r.vault)
    BY <1>0, <1>2, ScanDoes DEF ScanInv
  <2> HIDE DEF r
  <2>2. Apply(d, s).text = r.text /\ Apply(d, s).vault = r.vault
    BY <1>2 DEF r
  <2>3. r.next \in (Len(s.text) + 1)..(Len(s.text) + 1)
    BY <2>1 DEF PassInv
  <2>4. r.next = Len(s.text) + 1 /\ r.next - 1 = Len(s.text)
    BY <1>0, <2>3
  <2>5. SubSeq(s.text, 1, Len(s.text)) = s.text
    BY SubSeqFull
  <2> QED
    BY <2>1, <2>2, <2>4, <2>5 DEF Passed, CopiedAll, PassInv
<1> QED
  BY <1>0, <1>1, <1>2, ApplyIs

-----------------------------------------------------------------------------
(* Where a value stood *)

\* src tells for each word of out that is no token where it stood in the text: in one piece
\* from token to token.
CameFrom(src, text, out) ==
    \A p \in 1..Len(out) : out[p][1] # "token" =>
        /\ src[p] \in 1..Len(text) /\ out[p] = text[src[p]]
        /\ (p < Len(out) /\ out[p + 1][1] # "token") => src[p + 1] = src[p] + 1

Came(text, out, entries) == \E src : CameFrom(src, text, out) /\ Aligned(src, text, out, entries)

LEMMA CopiesCame ==
    ASSUME NEW d, NEW text \in Seq(AnyWord), NEW out, NEW src,
           CopiedFrom(src, d, text, out, Len(text) + 1)
    PROVE  CameFrom(src, text, out)
<1>1. (Len(text) + 1) - 1 = Len(text)
  BY LenProperties
<1> QED
  BY <1>1 DEF CopiedFrom, CameFrom

\* A value that stands whole in what came from a text stood whole in the text.
LEMMA StoodBefore ==
    ASSUME NEW text \in Seq(AnyWord), NEW out \in Seq(AnyWord), NEW src, CameFrom(src, text, out),
           NEW v \in Values, NEW p \in 1..Len(out), StandsAt(out, p, v)
    PROVE  /\ src[p] \in 1..Len(text) /\ StandsAt(text, src[p], v)
           /\ out[p][1] # "token" /\ out[p] \notin {Key, Bearer}
           /\ \A j \in 0..(Size(v) - 1) : src[p + j] = src[p] + j
<1> DEFINE n == Size(v)
           i == src[p]
<1>2. n \in Nat \ {0} /\ Len(text) \in Nat /\ Len(out) \in Nat /\ p \in Nat
  BY ShapeIs, LenProperties
<1>3. p + n - 1 <= Len(out) /\ SubSeq(out, p, p + n - 1) = Whole(v)
  BY DEF StandsAt
<1> HIDE DEF n
<1>4. ASSUME NEW j \in 0..(n - 1)
      PROVE  /\ p + j \in 1..Len(out) /\ out[p + j] = Word(v, j + 1)
             /\ out[p + j][1] # "token" /\ out[p + j] \notin {Key, Bearer}
  <2>1. /\ p + j \in 1..Len(out) /\ j + 1 \in 1..n /\ p + (j + 1) - 1 = p + j
        /\ p + n - 1 \in Nat /\ p + n - 1 <= Len(out) /\ (p + n - 1) - p + 1 = n
    BY <1>2, <1>3
  <2>2. SubSeq(out, p, p + n - 1)[j + 1] = out[p + (j + 1) - 1]
    <3>1. \A k \in p..(p + n - 1) : k \in 1..Len(out)
      BY <1>2, <2>1
    <3>2. \A k \in p..(p + n - 1) : out[k] \in AnyWord
      BY <3>1, ElementOfSeq
    <3>3. p \in Nat /\ p + n - 1 \in Nat /\ j + 1 \in 1..((p + n - 1) - p + 1)
      BY <1>2, <2>1
    <3> QED
      BY <2>1, <3>2, <3>3, SubSeqProperties
  <2>3. Whole(v)[j + 1] = Word(v, j + 1)
    BY <2>1, WholeType DEF n
  <2>4. out[p + j] = Word(v, j + 1)
    BY <1>3, <2>1, <2>2, <2>3
  <2>5. Word(v, j + 1)[1] = "word" /\ Word(v, j + 1) \notin {Key, Bearer}
    <3>1. Word(v, j + 1)[1] = "word" /\ Key[1] = "key" /\ Bearer[1] = "bearer"
      BY DEF Word, Key, Bearer
    <3> QED
      BY <3>1
  <2> QED
    BY <2>1, <2>4, <2>5
<1> DEFINE T == {j \in Nat : j < n => src[p + j] = i + j}
<1>5. /\ 0 \in 0..(n - 1) /\ p + 0 = p /\ i \in 1..Len(text)
      /\ out[p][1] # "token" /\ out[p] \notin {Key, Bearer}
  <2>1. 0 \in 0..(n - 1) /\ p + 0 = p
    BY <1>2
  <2>2. out[p][1] # "token" /\ out[p] \notin {Key, Bearer}
    BY <1>4, <2>1
  <2> QED
    BY <1>2, <2>1, <2>2 DEF CameFrom
<1>6. 0 \in T
  BY <1>5
<1>7. ASSUME NEW j \in Nat, j \in T PROVE j + 1 \in T
  <2> SUFFICES ASSUME j + 1 < n PROVE src[p + (j + 1)] = i + (j + 1)
    OBVIOUS
  <2>1. /\ j \in 0..(n - 1) /\ j + 1 \in 0..(n - 1) /\ j < n
        /\ p + (j + 1) = (p + j) + 1 /\ (i + j) + 1 = i + (j + 1)
    BY <1>2, <1>5
  <2>2. src[p + j] = i + j
    BY <1>7, <2>1
  <2>3. /\ p + j \in 1..Len(out) /\ out[p + j][1] # "token"
        /\ (p + j) + 1 \in 1..Len(out) /\ out[(p + j) + 1][1] # "token"
    BY <1>4, <2>1
  <2>4. p + j < Len(out)
    BY <1>2, <2>1, <2>3
  <2>5. src[(p + j) + 1] = src[p + j] + 1
    BY <2>3, <2>4 DEF CameFrom
  <2> QED
    BY <2>1, <2>2, <2>5
<1> HIDE DEF T
<1>8. Nat \subseteq T
  BY <1>6, <1>7, Induction
<1>9. ASSUME NEW j \in 0..(n - 1)
      PROVE  /\ i + j \in 1..Len(text) /\ text[i + j] = Word(v, j + 1)
             /\ src[p + j] = i + j
  <2>1. j \in Nat /\ j < n
    BY <1>2
  <2>2. src[p + j] = i + j
    BY <1>8, <2>1 DEF T
  <2>3. src[p + j] \in 1..Len(text) /\ out[p + j] = text[src[p + j]]
    BY <1>4 DEF CameFrom
  <2> QED
    BY <1>2, <1>4, <2>2, <2>3
<1>e. /\ src[p] \in 1..Len(text) /\ out[p][1] # "token" /\ out[p] \notin {Key, Bearer}
      /\ \A j \in 0..(n - 1) : src[p + j] = src[p] + j
  BY <1>5, <1>9
<1> HIDE DEF i
<1>10. /\ i + n - 1 <= Len(text) /\ i \in Nat /\ i + n - 1 \in Nat
       /\ i + (n - 1) = i + n - 1 /\ (i + n - 1) - i + 1 = n
       /\ \A k \in i..(i + n - 1) : k \in 1..Len(text)
  <2>1. n - 1 \in 0..(n - 1)
    BY <1>2
  <2>2. i + (n - 1) \in 1..Len(text)
    BY <1>9, <2>1
  <2> QED
    BY <1>2, <1>5, <2>2
<1>11. SubSeq(text, i, i + n - 1) = Whole(v)
  <2> DEFINE a == SubSeq(text, i, i + n - 1)
  <2>1. \A k \in i..(i + n - 1) : text[k] \in AnyWord
    BY <1>10, ElementOfSeq
  <2>2. a \in Seq(AnyWord) /\ i <= i + n - 1
    BY <1>2, <1>10, <2>1, SubSeqProperties
  <2>3. Len(a) = n /\ \A k \in 1..n : a[k] = text[i + k - 1]
    BY <1>2, <1>10, <2>1, <2>2, SubSeqProperties
  <2> HIDE DEF a
  <2>4. ASSUME NEW k \in 1..n PROVE a[k] = Whole(v)[k]
    <3>1. k - 1 \in 0..(n - 1) /\ i + (k - 1) = i + k - 1 /\ (k - 1) + 1 = k
      BY <1>2, <1>10
    <3>2. text[i + (k - 1)] = Word(v, (k - 1) + 1)
      BY <1>9, <3>1
    <3> QED
      BY <2>3, <3>1, <3>2, WholeType DEF n
  <2>5. Whole(v) \in Seq(Words) /\ Len(Whole(v)) = n
    BY WholeType DEF n
  <2>6. Whole(v) \in Seq(AnyWord)
    BY <2>5, WordsFit, TextsAny
  <2> QED
    BY <2>2, <2>3, <2>4, <2>5, <2>6, SeqEqual DEF a
<1>12. StandsAt(text, i, v)
  BY <1>10, <1>11 DEF StandsAt, n
<1> QED
  BY <1>12, <1>e DEF n, i

\* So a value that came in a rejected match did so already in the text.
LEMMA SwallowedBefore ==
    ASSUME NEW text \in Seq(AnyWord), NEW out \in Seq(AnyWord), NEW src, CameFrom(src, text, out),
           NEW v \in Values, NEW kind, NEW p \in 1..Len(out), SwallowedAt(v, kind, out, p)
    PROVE  src[p] \in 1..Len(text) /\ SwallowedAt(v, kind, text, src[p])
<1>0. p \in Nat /\ Len(text) \in Nat /\ StandsAt(out, p, v)
  BY LenProperties DEF SwallowedAt
<1>1. PICK u \in Values, j \in 1..p : /\ kind \in Shape[u].kinds \ Shape[u].valid
                                     /\ StandsAt(out, j, u) /\ p <= j + Size(u) - 1
  BY DEF SwallowedAt
<1>2. src[p] \in 1..Len(text) /\ StandsAt(text, src[p], v)
  BY <1>0, StoodBefore
<1>3. j \in 1..Len(out) /\ Size(u) \in Nat
  BY <1>0, ShapeIs
<1>4. /\ src[j] \in 1..Len(text) /\ StandsAt(text, src[j], u)
      /\ \A k \in 0..(Size(u) - 1) : src[j + k] = src[j] + k
  BY <1>1, <1>3, StoodBefore
<1>5. PICK k : k = p - j
  OBVIOUS
<1>6. k \in 0..(Size(u) - 1) /\ j + k = p
  BY <1>0, <1>1, <1>3, <1>5
<1>7. src[p] = src[j] + k
  BY <1>4, <1>6
<1>8. src[j] \in 1..src[p] /\ src[p] <= src[j] + Size(u) - 1
  BY <1>2, <1>3, <1>4, <1>6, <1>7
<1> QED
  BY <1>1, <1>2, <1>4, <1>8 DEF SwallowedAt

\* What stands before a position is a text of the same words.
LEMMA BeforeGrows ==
    ASSUME NEW old, NEW entries, Sound(old), Sound(entries), Extends(entries, old),
           NEW text \in Seq(WordsTo(Len(old))), NEW p \in 1..Len(text)
    PROVE  Meaning(Before(text, p), entries) = Meaning(Before(text, p), old)
<1>1. Len(text) \in Nat /\ p - 1 \in Int /\ \A j \in 1..(p - 1) : j \in 1..Len(text)
  BY LenProperties
<1>2. \A j \in 1..(p - 1) : text[j] \in WordsTo(Len(old))
  BY <1>1, ElementOfSeq
<1>3. Before(text, p) \in Seq(WordsTo(Len(old)))
  BY <1>1, <1>2, SubSeqProperties DEF Before
<1> QED
  BY <1>3, MeaningGrows

\* What came from a text that came from what was given.
LEMMA CameThrough ==
    ASSUME NEW old, NEW entries, Sound(old), Sound(entries), Extends(entries, old),
           NEW first \in Seq(WordsTo(Len(old))), NEW text \in Seq(WordsTo(Len(old))),
           NEW out \in Seq(WordsTo(Len(entries))),
           Came(first, text, old), Came(text, out, entries)
    PROVE  Came(first, out, entries)
<1>1. PICK a : CameFrom(a, first, text) /\ Aligned(a, first, text, old)
  BY DEF Came
<1>2. PICK b : CameFrom(b, text, out) /\ Aligned(b, text, out, entries)
  BY DEF Came
<1>0. Len(out) \in Nat /\ Len(text) \in Nat
  BY LenProperties
<1> DEFINE src == [p \in 1..Len(out) |-> a[b[p]]]
<1>3. \A p \in 1..Len(out) : src[p] = a[b[p]]
  OBVIOUS
<1> HIDE DEF src
<1>4. ASSUME NEW p \in 1..Len(out), out[p][1] # "token"
      PROVE  /\ src[p] \in 1..Len(first) /\ out[p] = first[src[p]]
             /\ (p < Len(out) /\ out[p + 1][1] # "token") => src[p + 1] = src[p] + 1
             /\ Meaning(Before(out, p), entries) = Meaning(Before(first, src[p]), entries)
  <2>1. /\ b[p] \in 1..Len(text) /\ out[p] = text[b[p]]
        /\ Meaning(Before(out, p), entries) = Meaning(Before(text, b[p]), entries)
    BY <1>2, <1>4 DEF CameFrom, Aligned
  <2>2. /\ a[b[p]] \in 1..Len(first) /\ text[b[p]] = first[a[b[p]]]
        /\ Meaning(Before(text, b[p]), old) = Meaning(Before(first, a[b[p]]), old)
    BY <1>1, <1>4, <2>1 DEF CameFrom, Aligned
  <2>3. ASSUME p < Len(out), out[p + 1][1] # "token" PROVE src[p + 1] = src[p] + 1
    <3>1. p + 1 \in 1..Len(out) /\ b[p + 1] = b[p] + 1
      BY <1>0, <1>2, <1>4, <2>3 DEF CameFrom
    <3>2. b[p] + 1 \in 1..Len(text) /\ out[p + 1] = text[b[p] + 1]
      BY <1>2, <2>3, <3>1 DEF CameFrom
    <3>3. b[p] < Len(text)
      BY <1>0, <2>1, <3>2
    <3>4. a[b[p] + 1] = a[b[p]] + 1
      BY <1>1, <1>4, <2>1, <2>3, <3>2, <3>3 DEF CameFrom
    <3> QED
      BY <1>3, <3>1, <3>4
  <2>4. /\ Meaning(Before(text, b[p]), entries) = Meaning(Before(text, b[p]), old)
        /\ Meaning(Before(first, a[b[p]]), entries) = Meaning(Before(first, a[b[p]]), old)
    BY <2>1, <2>2, BeforeGrows
  <2> QED
    BY <1>3, <2>1, <2>2, <2>3, <2>4
<1>5. CameFrom(src, first, out) /\ Aligned(src, first, out, entries)
  BY <1>4 DEF CameFrom, Aligned
<1> QED
  BY <1>5 DEF Came

\* The value v at position p of the text came in a rejected match in what was given.
Excused(v, kind, first, text, p, entries) ==
    \E j \in 1..Len(first) :
        /\ SwallowedAt(v, kind, first, j)
        /\ Meaning(Before(text, p), entries) = Meaning(Before(first, j), entries)

\* What the pattern of d accepts stands in the text only where it is excused; and nothing
\* stands there for d behind "bearer".
Clear(d, first, text, entries) ==
    /\ d.how = "pattern" =>
          \A v \in Values : \A p \in 1..Len(text) :
              (d.kind \in Shape[v].valid /\ StandsAt(text, p, v)) =>
                  Excused(v, d.kind, first, text, p, entries)
    /\ d.how = "bearer" => \A p \in 1..Len(text) : ~AfterLabel(d, text, p)

\* After a pass of d, what it accepts stands only where it had come in a rejected match.
LEMMA LeftIsSwallowed ==
    ASSUME NEW d \in Detectors, d.how = "pattern", NEW text \in Seq(AnyWord), NEW q \in 1..Len(text),
           NEW v \in Values, d.kind \in Shape[v].valid, StandsAt(text, q, v), Leaves(d, text, q)
    PROVE  SwallowedAt(v, d.kind, text, q)
<1>0. Len(text) \in Nat /\ q \in Nat /\ d.kind \in Shape[v].kinds
  BY ShapeIs, LenProperties
<1>1. [label |-> <<>>, len |-> Size(v), kind |-> d.kind, valid |-> d.kind \in Shape[v].valid]
         \in Matches(d, text, q)
  BY <1>0 DEF Matches
<1>2. PICK j \in 1..q : \E m \in Matches(d, text, j) : ~m.valid /\ q <= MatchEnd(m, j)
  BY <1>1 DEF Leaves
<1>3. PICK m \in Matches(d, text, j) : ~m.valid /\ q <= MatchEnd(m, j)
  BY <1>2
<1>4. PICK u \in Values : /\ d.kind \in Shape[u].kinds \ Shape[u].valid
                          /\ StandsAt(text, j, u) /\ m.label = <<>> /\ m.len = Size(u)
  BY <1>3, RejectedIs
<1>5. Len(m.label) = 0 /\ Size(u) \in Nat
  BY <1>4, ShapeIs
<1>6. q <= j + Size(u) - 1
  BY <1>0, <1>3, <1>4, <1>5 DEF MatchEnd
<1> QED
  BY <1>4, <1>6 DEF SwallowedAt

\* What stands for d behind "bearer" stood there before.
LEMMA LabelledBefore ==
    ASSUME NEW d, d.how = "bearer", NEW text \in Seq(AnyWord), NEW out \in Seq(AnyWord),
           NEW src, CameFrom(src, text, out), NEW p \in 1..Len(out), AfterLabel(d, out, p)
    PROVE  src[p] \in 1..Len(text) /\ AfterLabel(d, text, src[p])
<1>0. Len(text) \in Nat /\ Len(out) \in Nat
  BY LenProperties
<1>1. p < Len(out) /\ out[p] = Bearer /\ out[p + 1][1] = "word" /\ p + 1 \in 1..Len(out)
  BY <1>0 DEF AfterLabel
<1>2. out[p][1] # "token" /\ out[p + 1][1] # "token"
  BY <1>1 DEF Bearer
<1>3. /\ src[p] \in 1..Len(text) /\ out[p] = text[src[p]] /\ src[p + 1] = src[p] + 1
      /\ src[p + 1] \in 1..Len(text) /\ out[p + 1] = text[src[p + 1]]
  BY <1>1, <1>2 DEF CameFrom
<1>4. src[p] < Len(text)
  BY <1>0, <1>3
<1> QED
  BY <1>1, <1>3, <1>4 DEF AfterLabel

-----------------------------------------------------------------------------
(* All passes *)

\* The passes that do not depend on what the NER service finds.
Fixed(eu) == (IF eu THEN EUDetectors ELSE <<>>) \o Builtins \o CustomTerms

FixedDetectors == {d \in Detectors : d.how # "entities"}

LEMMA PatternType == \A kind \in Kinds : Pattern(kind) \in FixedDetectors
BY DEF Pattern, FixedDetectors, Detectors

LEMMA FixedType ==
    ASSUME NEW eu \in BOOLEAN
    PROVE  Fixed(eu) \in Seq(FixedDetectors) /\ Len(Fixed(eu)) \in Nat
<1>1. /\ "VAT" \in Kinds /\ "AMKA" \in Kinds /\ "TAXID" \in Kinds /\ "PRIVATEKEY" \in Kinds
      /\ "JWT" \in Kinds /\ "APIKEY" \in Kinds /\ "SSN" \in Kinds /\ "IBAN" \in Kinds
      /\ "CARD" \in Kinds /\ "IP" \in Kinds /\ "EMAIL" \in Kinds /\ "PHONE" \in Kinds
      /\ "NAME" \in Kinds /\ "SECRET" \in Kinds
  BY DEF Kinds
<1>2. Keyed \in FixedDetectors /\ AfterBearer \in FixedDetectors
  BY <1>1 DEF Keyed, AfterBearer, FixedDetectors, Detectors
<1> DEFINE D == FixedDetectors
<1>3. /\ Pattern("VAT") \in D /\ Pattern("AMKA") \in D /\ Pattern("TAXID") \in D
      /\ Pattern("PRIVATEKEY") \in D /\ Pattern("JWT") \in D /\ Pattern("APIKEY") \in D
      /\ Pattern("SSN") \in D /\ Pattern("IBAN") \in D /\ Pattern("CARD") \in D
      /\ Pattern("IP") \in D /\ Pattern("EMAIL") \in D /\ Pattern("PHONE") \in D
      /\ Pattern("NAME") \in D /\ Keyed \in D /\ AfterBearer \in D
  BY <1>1, <1>2, PatternType
<1> HIDE DEF D
<1>4. EUDetectors \in Seq(D) /\ Builtins \in Seq(D) /\ CustomTerms \in Seq(D)
  BY <1>3 DEF EUDetectors, Builtins, CustomTerms
<1>5. (IF eu THEN EUDetectors ELSE <<>>) \in Seq(D)
  BY <1>4, EmptySeq
<1>6. Fixed(eu) \in Seq(D)
  BY <1>4, <1>5, ConcatProperties DEF Fixed
<1> QED
  BY <1>6, LenProperties DEF D

LEMMA PassesAre ==
    ASSUME NEW eu \in BOOLEAN, NEW vs \in SUBSET Values
    PROVE  /\ Len(Passes(eu, vs)) = Len(Fixed(eu)) + 1
           /\ \A k \in 1..Len(Fixed(eu)) : Passes(eu, vs)[k] = Fixed(eu)[k]
           /\ Passes(eu, vs)[Len(Fixed(eu)) + 1] = Entities(vs)
           /\ Entities(vs) \in Detectors /\ Entities(vs).how = "entities"
           /\ \A k \in 1..Len(Passes(eu, vs)) : Passes(eu, vs)[k] \in Detectors
<1>1. Entities(vs) \in Detectors /\ Entities(vs).how = "entities"
  BY DEF Entities, Detectors, Kinds
<1> DEFINE P == Passes(eu, vs)
<1>2. /\ Fixed(eu) \in Seq(Detectors) /\ <<Entities(vs)>> \in Seq(Detectors)
      /\ Len(Fixed(eu)) \in Nat /\ \A k \in 1..Len(Fixed(eu)) : Fixed(eu)[k] \in Detectors
  <2>1. FixedDetectors \subseteq Detectors
    BY DEF FixedDetectors
  <2>2. Fixed(eu) \in Seq(Detectors)
    BY <2>1, FixedType, SeqMonotonic
  <2>3. \A d \in Detectors : <<d>> \in Seq(Detectors)
    OBVIOUS
  <2> QED
    BY <1>1, <2>2, <2>3, FixedType, ElementOfSeq
<1>3. P = Fixed(eu) \o <<Entities(vs)>>
  BY DEF Passes, Fixed
<1>4. Len(<<Entities(vs)>>) = 1 /\ <<Entities(vs)>>[1] = Entities(vs)
  OBVIOUS
<1> HIDE DEF P
<1>5. /\ Len(P) = Len(Fixed(eu)) + 1
      /\ \A k \in 1..(Len(Fixed(eu)) + 1) :
            P[k] = IF k <= Len(Fixed(eu)) THEN Fixed(eu)[k] ELSE <<Entities(vs)>>[k - Len(Fixed(eu))]
  BY <1>2, <1>3, <1>4, ConcatProperties
<1>6. \A k \in 1..Len(Fixed(eu)) : P[k] = Fixed(eu)[k]
  BY <1>2, <1>5
<1>7. P[Len(Fixed(eu)) + 1] = Entities(vs)
  BY <1>2, <1>4, <1>5
<1>8. \A k \in 1..Len(P) : P[k] \in Detectors
  <2>1. \A k \in 1..Len(P) : k \in 1..Len(Fixed(eu)) \/ k = Len(Fixed(eu)) + 1
    BY <1>2, <1>5
  <2> QED
    BY <1>1, <1>2, <1>6, <1>7, <2>1
<1> QED
  BY <1>1, <1>5, <1>6, <1>7, <1>8 DEF P

\* g follows the recursion of Redact for the first m passes.
PassesTo(passes, s, g, m) == g[0] = s /\ \A k \in 1..m : g[k] = Apply(passes[k], g[k - 1])

LEMMA PassesExist ==
    ASSUME NEW passes, NEW s
    PROVE  \A m \in Nat : \E g : PassesTo(passes, s, g, m)
<1> DEFINE T == {m \in Nat : \E g : PassesTo(passes, s, g, m)}
<1>1. 0 \in T
  <2>1. PICK g : g = [i \in {0} |-> s]
    OBVIOUS
  <2>2. PassesTo(passes, s, g, 0)
    BY <2>1 DEF PassesTo
  <2> QED
    BY <2>2
<1>2. ASSUME NEW m \in Nat, m \in T PROVE m + 1 \in T
  <2>1. PICK g : PassesTo(passes, s, g, m)
    BY <1>2
  <2>2. PICK x : x = Apply(passes[m + 1], g[m])
    OBVIOUS
  <2> DEFINE h == [i \in 0..(m + 1) |-> IF i = m + 1 THEN x ELSE g[i]]
  <2>3. h[m + 1] = x /\ \A i \in 0..m : h[i] = g[i]
    <3>1. m + 1 \in 0..(m + 1) /\ \A i \in 0..m : i \in 0..(m + 1) /\ i # m + 1
      OBVIOUS
    <3> QED
      BY <3>1
  <2> HIDE DEF h
  <2>4. h[0] = s
    BY <2>1, <2>3 DEF PassesTo
  <2>5. ASSUME NEW i \in 1..(m + 1) PROVE h[i] = Apply(passes[i], h[i - 1])
    <3>1. i - 1 \in 0..m /\ (i = m + 1 \/ (i \in 1..m /\ i \in 0..m))
      OBVIOUS
    <3>2. h[i - 1] = g[i - 1]
      BY <2>3, <3>1
    <3>3. CASE i = m + 1
      <4>1. i - 1 = m
        BY <3>3
      <4> QED
        BY <2>2, <2>3, <3>2, <3>3, <4>1
    <3>4. CASE i \in 1..m /\ i \in 0..m
      BY <2>1, <2>3, <3>2, <3>4 DEF PassesTo
    <3> QED
      BY <3>1, <3>3, <3>4
  <2> QED
    BY <2>4, <2>5 DEF PassesTo
<1> HIDE DEF T
<1>3. Nat \subseteq T
  BY <1>1, <1>2, Induction
<1> QED
  BY <1>3 DEF T

LEMMA RedactIs ==
    ASSUME NEW text, NEW entries, NEW eu \in BOOLEAN, NEW vs \in SUBSET Values
    PROVE  \E g : /\ PassesTo(Passes(eu, vs), [text |-> text, vault |-> entries], g,
                              Len(Passes(eu, vs)))
                  /\ Redact(text, entries, eu, vs) = g[Len(Passes(eu, vs))]
<1> DEFINE P == Passes(eu, vs)
           N == Len(P)
           s == [text |-> text, vault |-> entries]
<1>0. N \in Nat
  BY PassesAre, FixedType
<1> HIDE DEF N
<1>1. PICK g : PassesTo(P, s, g, N)
  BY <1>0, PassesExist
<1> DEFINE F == [k \in 0..N |-> g[k]]
<1>2. F = [k \in 0..N |-> F[k]] /\ \A k \in 0..N : F[k] = g[k]
  OBVIOUS
<1> HIDE DEF F
<1>3. ASSUME NEW k \in 0..N PROVE F[k] = IF k = 0 THEN s ELSE Apply(P[k], F[k - 1])
  <2>1. CASE k = 0
    BY <1>1, <1>2, <2>1 DEF PassesTo
  <2>2. CASE k # 0
    <3>1. k \in 1..N /\ k - 1 \in 0..N
      BY <1>0, <2>2
    <3> QED
      BY <1>1, <1>2, <2>2, <3>1 DEF PassesTo
  <2> QED
    BY <2>1, <2>2
<1>4. F = [k \in 0..N |-> IF k = 0 THEN s ELSE Apply(P[k], F[k - 1])]
  BY <1>2, <1>3
<1>5. PICK f : f = CHOOSE e : e = [k \in 0..N |-> IF k = 0 THEN s ELSE Apply(P[k], e[k - 1])]
  OBVIOUS
<1>6. f = [k \in 0..N |-> IF k = 0 THEN s ELSE Apply(P[k], f[k - 1])]
  BY <1>4, <1>5
<1>7. PassesTo(P, s, f, N)
  <2>1. 0 \in 0..N /\ \A k \in 1..N : k \in 0..N /\ k # 0
    BY <1>0
  <2> QED
    BY <1>6, <2>1 DEF PassesTo
<1>8. Redact(text, entries, eu, vs) = f[N]
  BY <1>5 DEF Redact, N
<1> QED
  BY <1>7, <1>8 DEF N

LEMMA PassClears ==
    ASSUME NEW d \in Detectors, NEW s, Sound(s.vault), s.text \in Seq(WordsTo(Len(s.vault))),
           NEW first \in Seq(WordsTo(Len(s.vault))), Came(first, s.text, s.vault),
           NEW new, Passed(d, s, new)
    PROVE  /\ Came(first, new.text, new.vault)
           /\ Clear(d, first, new.text, new.vault)
           /\ \A e : Clear(e, first, s.text, s.vault) => Clear(e, first, new.text, new.vault)
<1>0. /\ Sound(new.vault) /\ Extends(new.vault, s.vault)
      /\ new.text \in Seq(WordsTo(Len(new.vault)))
      /\ Len(s.vault) \in Nat /\ Len(new.vault) \in Nat
      /\ s.text \in Seq(AnyWord) /\ new.text \in Seq(AnyWord) /\ first \in Seq(AnyWord)
  BY LenProperties, TextsAny DEF Passed, Sound
<1>1. PICK src : /\ CopiedFrom(src, d, s.text, new.text, Len(s.text) + 1)
                 /\ Aligned(src, s.text, new.text, new.vault)
  BY DEF Passed, CopiedAll, Copied
<1>2. CameFrom(src, s.text, new.text)
  BY <1>0, <1>1, CopiesCame
<1>3. Came(first, new.text, new.vault)
  BY <1>0, <1>1, <1>2, CameThrough DEF Came
<1>4. PICK a : CameFrom(a, first, s.text) /\ Aligned(a, first, s.text, s.vault)
  BY DEF Came
<1>5. ASSUME NEW p \in 1..Len(new.text), new.text[p][1] # "token", src[p] \in 1..Len(s.text)
      PROVE  Meaning(Before(new.text, p), new.vault) = Meaning(Before(s.text, src[p]), new.vault)
  BY <1>1, <1>5 DEF Aligned
<1>6. ASSUME NEW kind, NEW v \in Values, NEW p \in 1..Len(new.text), StandsAt(new.text, p, v),
             NEW j \in 1..Len(first), SwallowedAt(v, kind, first, j),
             Meaning(Before(s.text, src[p]), s.vault) = Meaning(Before(first, j), s.vault)
      PROVE  Excused(v, kind, first, new.text, p, new.vault)
  <2>1. src[p] \in 1..Len(s.text) /\ new.text[p][1] # "token"
    BY <1>0, <1>2, <1>6, StoodBefore
  <2>2. /\ Meaning(Before(s.text, src[p]), new.vault) = Meaning(Before(s.text, src[p]), s.vault)
        /\ Meaning(Before(first, j), new.vault) = Meaning(Before(first, j), s.vault)
    BY <1>0, <2>1, BeforeGrows
  <2>3. Meaning(Before(new.text, p), new.vault) = Meaning(Before(first, j), new.vault)
    BY <1>5, <1>6, <2>1, <2>2
  <2> QED
    BY <1>6, <2>3 DEF Excused
<1>7. Clear(d, first, new.text, new.vault)
  <2>1. ASSUME d.how = "pattern", NEW v \in Values, NEW p \in 1..Len(new.text),
               d.kind \in Shape[v].valid, StandsAt(new.text, p, v)
        PROVE  Excused(v, d.kind, first, new.text, p, new.vault)
    <3>1. /\ src[p] \in 1..Len(s.text) /\ StandsAt(s.text, src[p], v)
          /\ new.text[p][1] # "token" /\ new.text[p] \notin {Key, Bearer}
      BY <1>0, <1>2, <2>1, StoodBefore
    <3>2. Leaves(d, s.text, src[p])
      BY <1>1, <3>1 DEF CopiedFrom
    <3>3. SwallowedAt(v, d.kind, s.text, src[p])
      BY <1>0, <2>1, <3>1, <3>2, LeftIsSwallowed
    <3>4. a[src[p]] \in 1..Len(first) /\ SwallowedAt(v, d.kind, first, a[src[p]])
      BY <1>0, <1>4, <3>1, <3>3, SwallowedBefore
    <3>5. s.text[src[p]][1] # "token"
      BY <1>2, <3>1 DEF CameFrom
    <3>6. Meaning(Before(s.text, src[p]), s.vault) = Meaning(Before(first, a[src[p]]), s.vault)
      BY <1>4, <3>1, <3>5 DEF Aligned
    <3> QED
      BY <1>6, <2>1, <3>4, <3>6
  <2>2. ASSUME d.how = "bearer", NEW p \in 1..Len(new.text), AfterLabel(d, new.text, p)
        PROVE  FALSE
    <3>1. src[p] \in 1..Len(s.text) /\ AfterLabel(d, s.text, src[p])
      BY <1>0, <1>2, <2>2, LabelledBefore
    <3>2. Matches(d, s.text, src[p]) # {}
      BY <3>1 DEF Matches
    <3>3. ~Leaves(d, s.text, src[p])
      BY <2>2, <3>2, RejectedIs DEF Leaves
    <3>4. /\ p < Len(new.text) /\ new.text[p] = Bearer /\ new.text[p + 1][1] = "word"
          /\ new.text[p][1] # "token"
      BY <2>2 DEF AfterLabel, Bearer
    <3>5. new.text[p + 1][1] # "token"
      BY <3>4
    <3> QED
      BY <1>1, <3>3, <3>4, <3>5 DEF CopiedFrom
  <2> QED
    BY <2>1, <2>2 DEF Clear
<1>8. ASSUME NEW e, Clear(e, first, s.text, s.vault) PROVE Clear(e, first, new.text, new.vault)
  <2>1. ASSUME e.how = "pattern", NEW v \in Values, NEW p \in 1..Len(new.text),
               e.kind \in Shape[v].valid, StandsAt(new.text, p, v)
        PROVE  Excused(v, e.kind, first, new.text, p, new.vault)
    <3>1. src[p] \in 1..Len(s.text) /\ StandsAt(s.text, src[p], v)
      BY <1>0, <1>2, <2>1, StoodBefore
    <3>2. Excused(v, e.kind, first, s.text, src[p], s.vault)
      BY <1>8, <2>1, <3>1 DEF Clear
    <3> QED
      BY <1>6, <2>1, <3>2 DEF Excused
  <2>2. ASSUME e.how = "bearer", NEW p \in 1..Len(new.text), AfterLabel(e, new.text, p)
        PROVE  FALSE
    <3>1. src[p] \in 1..Len(s.text) /\ AfterLabel(e, s.text, src[p])
      BY <1>0, <1>2, <2>2, LabelledBefore
    <3> QED
      BY <1>8, <2>2, <3>1 DEF Clear
  <2> QED
    BY <2>1, <2>2 DEF Clear
<1> QED
  BY <1>3, <1>7, <1>8

\* What the passes make of a text.
Redacted(text, entries, eu, new) ==
    /\ Sound(new.vault) /\ Extends(new.vault, entries)
    /\ new.text \in Seq(WordsTo(Len(new.vault)))
    /\ Meaning(new.text, new.vault) = Meaning(text, new.vault)
    /\ \A k \in 1..Len(Fixed(eu)) : Clear(Fixed(eu)[k], text, new.text, new.vault)

PassesInv(text, entries, passes, m, s) ==
    /\ Sound(s.vault) /\ Extends(s.vault, entries)
    /\ s.text \in Seq(WordsTo(Len(s.vault)))
    /\ Meaning(s.text, s.vault) = Meaning(text, s.vault)
    /\ Came(text, s.text, s.vault)
    /\ \A k \in 1..m : Clear(passes[k], text, s.text, s.vault)

LEMMA PassKeeps ==
    ASSUME NEW entries, Sound(entries), NEW text \in Seq(WordsTo(Len(entries))),
           NEW passes, NEW m \in Nat, NEW s, PassesInv(text, entries, passes, m, s),
           passes[m + 1] \in Detectors
    PROVE  PassesInv(text, entries, passes, m + 1, Apply(passes[m + 1], s))
<1> DEFINE d == passes[m + 1]
           new == Apply(d, s)
<1>1. /\ Sound(s.vault) /\ Extends(s.vault, entries)
      /\ s.text \in Seq(WordsTo(Len(s.vault)))
      /\ Meaning(s.text, s.vault) = Meaning(text, s.vault)
      /\ Came(text, s.text, s.vault)
      /\ \A k \in 1..m : Clear(passes[k], text, s.text, s.vault)
  BY DEF PassesInv
<1>2. Passed(d, s, new)
  BY <1>1, ApplyDoes
<1> HIDE DEF new
<1>3. /\ Sound(new.vault) /\ Extends(new.vault, s.vault)
      /\ new.text \in Seq(WordsTo(Len(new.vault)))
      /\ Meaning(new.text, new.vault) = Meaning(s.text, new.vault)
  BY <1>2 DEF Passed
<1>4. Len(entries) \in Nat /\ Len(s.vault) \in Nat /\ Len(new.vault) \in Nat
  BY <1>1, <1>3, LenProperties DEF Sound
<1>5. Extends(new.vault, entries)
  BY <1>1, <1>3, ExtendsTrans
<1>6. text \in Seq(WordsTo(Len(s.vault)))
  BY <1>1, <1>4, TextsFit DEF Extends
<1>7. /\ Meaning(s.text, new.vault) = Meaning(s.text, s.vault)
      /\ Meaning(text, new.vault) = Meaning(text, s.vault)
  BY <1>1, <1>3, <1>6, MeaningGrows
<1>9. /\ Came(text, new.text, new.vault) /\ Clear(d, text, new.text, new.vault)
      /\ \A e : Clear(e, text, s.text, s.vault) => Clear(e, text, new.text, new.vault)
  BY <1>1, <1>2, <1>6, PassClears
<1>10. \A k \in 1..(m + 1) : Clear(passes[k], text, new.text, new.vault)
  <2>1. \A k \in 1..(m + 1) : k \in 1..m \/ k = m + 1
    OBVIOUS
  <2> HIDE DEF d
  <2>2. Clear(passes[m + 1], text, new.text, new.vault)
    BY <1>9 DEF d
  <2> QED
    BY <1>1, <1>9, <2>1, <2>2
<1> QED
  BY <1>1, <1>3, <1>5, <1>7, <1>9, <1>10 DEF PassesInv, new

LEMMA RedactDoes ==
    ASSUME NEW entries, Sound(entries), NEW text \in Seq(WordsTo(Len(entries))),
           NEW eu \in BOOLEAN, NEW vs \in SUBSET Values
    PROVE  Redacted(text, entries, eu, Redact(text, entries, eu, vs))
<1> DEFINE P == Passes(eu, vs)
           s == [text |-> text, vault |-> entries]
           N == Len(Fixed(eu))
<1>0. /\ N \in Nat /\ Len(P) = N + 1
      /\ \A k \in 1..N : P[k] = Fixed(eu)[k]
      /\ \A k \in 1..Len(P) : P[k] \in Detectors
  BY FixedType, PassesAre
<1>1. PICK g : PassesTo(P, s, g, Len(P)) /\ Redact(text, entries, eu, vs) = g[Len(P)]
  BY RedactIs
<1>2. s.text = text /\ s.vault = entries
  OBVIOUS
<1> HIDE DEF P, s, N
<1> DEFINE T == {m \in Nat : m <= Len(P) => PassesInv(text, entries, P, m, g[m])}
<1>3. 0 \in T
  <2>1. g[0] = s
    BY <1>1 DEF PassesTo
  <2>2. Len(entries) \in Nat
    BY LenProperties DEF Sound
  <2>3. Extends(entries, entries)
    BY <2>2 DEF Extends
  <2>4. Came(text, text, entries)
    <3> DEFINE src == [p \in 1..Len(text) |-> p]
    <3>1. \A p \in 1..Len(text) : src[p] = p
      OBVIOUS
    <3> HIDE DEF src
    <3>2. \A p \in 1..Len(text) : p < Len(text) => p + 1 \in 1..Len(text)
      BY LenProperties
    <3>3. CameFrom(src, text, text) /\ Aligned(src, text, text, entries)
      BY <3>1, <3>2 DEF CameFrom, Aligned
    <3> QED
      BY <3>3 DEF Came
  <2>5. PassesInv(text, entries, P, 0, g[0])
    BY <1>2, <2>1, <2>3, <2>4 DEF PassesInv
  <2> QED
    BY <2>5
<1>4. ASSUME NEW m \in Nat, m \in T PROVE m + 1 \in T
  <2> SUFFICES ASSUME m + 1 <= Len(P) PROVE PassesInv(text, entries, P, m + 1, g[m + 1])
    OBVIOUS
  <2>1. m + 1 \in 1..Len(P) /\ m <= Len(P) /\ (m + 1) - 1 = m
    BY <1>0
  <2>2. g[m + 1] = Apply(P[m + 1], g[m])
    BY <1>1, <2>1 DEF PassesTo
  <2>3. PassesInv(text, entries, P, m, g[m])
    BY <1>4, <2>1
  <2>4. P[m + 1] \in Detectors
    BY <1>0, <2>1
  <2> HIDE DEF T
  <2> QED
    BY <2>2, <2>3, <2>4, PassKeeps
<1> HIDE DEF T
<1>5. Nat \subseteq T
  BY <1>3, <1>4, Induction
<1>6. PassesInv(text, entries, P, Len(P), g[Len(P)])
  BY <1>0, <1>5 DEF T
<1>7. \A k \in 1..N : k \in 1..Len(P) /\ P[k] = Fixed(eu)[k]
  BY <1>0
<1>8. Redacted(text, entries, eu, g[Len(P)])
  BY <1>6, <1>7 DEF Redacted, PassesInv, N
<1> QED
  BY <1>1, <1>8

\* A pass that accepts nothing leaves a text as it is.
LEMMA NothingAccepted ==
    ASSUME NEW d \in Detectors, NEW s, Sound(s.vault), s.text \in Seq(WordsTo(Len(s.vault))),
           s = [text |-> s.text, vault |-> s.vault],
           \A i \in 1..Len(s.text) : \A m \in Matches(d, s.text, i) : ~m.valid
    PROVE  Apply(d, s) = s
<1> DEFINE N == Len(s.text)
<1>0. N \in Nat /\ Len(s.vault) \in Nat /\ s.text \in Seq(AnyWord)
  BY LenProperties, TextsAny DEF Sound
<1>1. ASSUME NEW g, ScanTo(d, s, g, N) PROVE g[N].text = s.text /\ g[N].vault = s.vault
  <2> DEFINE Copy(r, m) == /\ r.text = SubSeq(s.text, 1, m) /\ r.vault = s.vault
                           /\ r.next = m + 1 /\ r \in Scanned
             T == {m \in Nat : m <= N => Copy(g[m], m)}
  <2>1. Copy(g[0], 0)
    <3>1. g[0] = [text |-> <<>>, vault |-> s.vault, next |-> 1, kept |-> 0]
      BY <1>1 DEF ScanTo, ScanStart
    <3>2. SubSeq(s.text, 1, 0) = <<>>
      OBVIOUS
    <3>3. <<>> \in Seq(AnyWord) /\ s.vault \in Seq(Entry) /\ 1 \in Nat /\ 0 \in Nat
      BY EmptySeq DEF Sound
    <3>4. g[0] \in Scanned
      BY <3>1, <3>3 DEF Scanned
    <3> QED
      BY <3>1, <3>2, <3>4
  <2>2. ASSUME NEW m \in Nat, m + 1 <= N, Copy(g[m], m) PROVE Copy(g[m + 1], m + 1)
    <3>1. m + 1 \in 1..N /\ m <= N /\ (m + 1) - 1 = m
      BY <1>0, <2>2
    <3>2. Copy(g[m], m)
      BY <2>2
    <3>3. PICK r, new : r = g[m] /\ new = g[m + 1] /\ new = Step(d, s.text, r, m + 1)
      BY <1>1, <3>1 DEF ScanTo
    <3>4. ~(m + 1 < r.next) /\ r.vault = s.vault /\ r \in Scanned
      BY <3>2, <3>3
    <3>5. \/ Copies(d, s.text, r, m + 1, new)
          \/ \E p, n : Takes(d, s.text, r, m + 1, p, n, new)
      BY <1>0, <3>1, <3>3, <3>4, StepIs
    <3>6. CASE Copies(d, s.text, r, m + 1, new)
      <4>1. /\ new = [text |-> Append(r.text, s.text[m + 1]), vault |-> r.vault,
                      next |-> (m + 1) + 1, kept |-> new.kept]
            /\ new.kept \in Nat
        BY <1>0, <3>1, <3>4, <3>6, MatchFacts DEF Copies, Scanned
      <4>2. /\ r.text = SubSeq(s.text, 1, m) /\ r.text \in Seq(AnyWord)
            /\ s.text[m + 1] \in AnyWord
        BY <1>0, <3>1, <3>2, <3>3, ElementOfSeq DEF Scanned
      <4>3. /\ Append(r.text, s.text[m + 1]) = r.text \o <<s.text[m + 1]>>
            /\ Append(r.text, s.text[m + 1]) \in Seq(AnyWord)
        BY <4>2, AppendIsConcat, AppendProperties
      <4>4. SubSeq(s.text, 1, m + 1) = SubSeq(s.text, 1, m) \o <<s.text[m + 1]>>
        <5>1. 1 \in 1..N /\ m + 1 \in 1..N
          BY <1>0, <3>1
        <5> QED
          BY <1>0, <3>1, <5>1, SubSeqRecursiveSecond
      <4>5. /\ new.text = Append(r.text, s.text[m + 1]) /\ new.vault = s.vault
            /\ new.next = (m + 1) + 1
        BY <3>4, <4>1
      <4>6. new.text = SubSeq(s.text, 1, m + 1)
        BY <4>2, <4>3, <4>4, <4>5
      <4>7. new \in Scanned
        <5>1. s.vault \in Seq(Entry) /\ (m + 1) + 1 \in Nat
          BY DEF Sound
        <5>2. new.text \in Seq(AnyWord)
          BY <4>3, <4>5
        <5>3. new = [text |-> new.text, vault |-> new.vault, next |-> new.next, kept |-> new.kept]
          BY <4>1
        <5> QED
          BY <4>1, <4>5, <5>1, <5>2, <5>3 DEF Scanned
      <4> QED
        BY <3>3, <4>5, <4>6, <4>7
    <3>7. CASE \E p, n : Takes(d, s.text, r, m + 1, p, n, new)
      <4>1. PICK p, n : Takes(d, s.text, r, m + 1, p, n, new)
        BY <3>7
      <4>2. p \in Matches(d, s.text, m + 1) /\ p.valid
        BY <4>1 DEF Takes
      <4> QED
        BY <3>1, <4>2
    <3> QED
      BY <3>5, <3>6, <3>7
  <2> HIDE DEF Copy, N
  <2>6. 0 \in T
    BY <2>1
  <2>7. ASSUME NEW m \in Nat, m \in T PROVE m + 1 \in T
    BY <1>0, <2>2, <2>7
  <2> HIDE DEF T
  <2>3. Nat \subseteq T
    BY <2>6, <2>7, Induction
  <2>4. Copy(g[N], N)
    BY <1>0, <2>3 DEF T
  <2>5. SubSeq(s.text, 1, N) = s.text
    BY <1>0, SubSeqFull DEF N
  <2> QED
    BY <2>4, <2>5 DEF Copy, N
<1>2. \/ Apply(d, s) = s
      \/ \E g : /\ ScanTo(d, s, g, N)
                /\ Apply(d, s) = [text |-> g[N].text, vault |-> g[N].vault]
  BY <1>0, ApplyIs
<1> QED
  BY <1>1, <1>2

\* When no pass but the last finds anything, that alone changes a text.
LEMMA LastPassOnly ==
    ASSUME NEW text, NEW entries, NEW eu \in BOOLEAN, NEW vs \in SUBSET Values,
           NEW s, s = [text |-> text, vault |-> entries],
           \A k \in 1..Len(Fixed(eu)) : Apply(Fixed(eu)[k], s) = s
    PROVE  Redact(text, entries, eu, vs) = Apply(Entities(vs), s)
<1> DEFINE P == Passes(eu, vs)
           N == Len(Fixed(eu))
<1>0. /\ N \in Nat /\ Len(P) = N + 1 /\ P[N + 1] = Entities(vs)
      /\ \A k \in 1..N : P[k] = Fixed(eu)[k]
  BY FixedType, PassesAre
<1>1. PICK g : PassesTo(P, s, g, Len(P)) /\ Redact(text, entries, eu, vs) = g[Len(P)]
  BY RedactIs
<1>2. \A k \in 1..N : Apply(P[k], s) = s
  BY <1>0
<1> HIDE DEF P, N
<1> DEFINE T == {m \in Nat : m <= N => g[m] = s}
<1>4. 0 \in T
  BY <1>1 DEF PassesTo
<1>5. ASSUME NEW m \in Nat, m \in T PROVE m + 1 \in T
  <2> SUFFICES ASSUME m + 1 <= N PROVE g[m + 1] = s
    OBVIOUS
  <2>1. m + 1 \in 1..N /\ m + 1 \in 1..Len(P) /\ m <= N /\ (m + 1) - 1 = m
    BY <1>0
  <2>2. g[m + 1] = Apply(P[m + 1], s)
    BY <1>1, <1>5, <2>1 DEF PassesTo
  <2> QED
    BY <1>2, <2>1, <2>2
<1> HIDE DEF T
<1>6. Nat \subseteq T
  BY <1>4, <1>5, Induction
<1>7. g[N] = s /\ N + 1 \in 1..Len(P) /\ (N + 1) - 1 = N
  BY <1>0, <1>6 DEF T
<1>8. g[N + 1] = Apply(P[N + 1], s)
  BY <1>1, <1>7 DEF PassesTo
<1> QED
  BY <1>0, <1>1, <1>8

-----------------------------------------------------------------------------
(* The conversation *)

\* What holds after every request and answer: all texts are of words and of tokens the
\* vault knows, what was redacted stands for what was given, and no pass but the keyed
\* one accepts anything in it that had not come in a rejected match.
RTInv ==
    /\ euPack \in BOOLEAN /\ autoReveal \in BOOLEAN
    /\ Sound(vault)
    /\ given \in Seq(WordsTo(Len(vault)))
    /\ result \in Seq(WordsTo(Len(vault)))
    /\ shown \in Seq(WordsTo(Len(vault)))
    /\ Meaning(result, vault) = Meaning(given, vault)
    /\ \A k \in 1..Len(Fixed(euPack)) : Clear(Fixed(euPack)[k], given, result, vault)

LEMMA InitInv == Init => RTInv
<1> SUFFICES ASSUME Init PROVE RTInv
  OBVIOUS
<1>1. /\ vault = <<>> /\ given = <<>> /\ result = <<>> /\ shown = <<>>
      /\ euPack \in BOOLEAN /\ autoReveal \in BOOLEAN
  BY DEF Init
<1>2. <<>> \in Seq(WordsTo(Len(vault))) /\ <<>> \in Seq(Entry)
  BY EmptySeq
<1>3. Len(<<>>) = 0 /\ \A n \in 1..0 : FALSE
  OBVIOUS
<1>4. Sound(vault)
  BY <1>1, <1>2, <1>3 DEF Sound
<1>5. \A d : Clear(d, given, result, vault)
  BY <1>1, <1>3 DEF Clear
<1> QED
  BY <1>1, <1>2, <1>4, <1>5 DEF RTInv

\* What a client is shown are words, and tokens older than those it is shown for.
LEMMA RevealType ==
    ASSUME NEW entries, Sound(entries), NEW text \in Seq(WordsTo(Len(entries)))
    PROVE  Reveal(text, entries) \in Seq(WordsTo(Len(entries)))
<1> DEFINE W == WordsTo(Len(entries))
           e(i) == IF text[i][1] = "token" /\ entries[text[i][2]].kind \in Lettered
                   THEN entries[text[i][2]].content ELSE <<text[i]>>
<1>1. Len(entries) \in Nat /\ Len(text) \in Nat /\ \A i \in 1..Len(text) : text[i] \in W
  BY LenProperties, ElementOfSeq DEF Sound
<1>2. ASSUME NEW n \in 1..Len(entries) PROVE entries[n].content \in Seq(W)
  <2>1. n - 1 \in Nat /\ n - 1 <= Len(entries)
    BY <1>1
  <2>2. entries[n].content \in Seq(WordsTo(n - 1))
    BY DEF Sound
  <2> QED
    BY <1>1, <2>1, <2>2, TextsFit
<1>3. ASSUME NEW i \in 1..Len(text) PROVE e(i) \in Seq(W)
  <2>1. text[i] \in WordsTo(Len(entries))
    BY <1>1
  <2>2. text[i][1] = "token" => text[i][2] \in 1..Len(entries)
    BY <1>1, <2>1, TokenInRange
  <2> HIDE DEF W
  <2>3. <<text[i]>> \in Seq(W)
    BY <1>1
  <2> QED
    BY <1>2, <2>2, <2>3
<1> HIDE DEF W, e
<1>4. [i \in 1..Len(text) |-> e(i)] \in Seq(Seq(W))
  BY <1>1, <1>3
<1>5. FlattenSeq([i \in 1..Len(text) |-> e(i)]) \in Seq(W)
  BY <1>4, FlattenType
<1> QED
  BY <1>5 DEF Reveal, W, e

\* Redacting a text that knows no other tokens than those of the vault.
LEMMA GivenKeeps ==
    ASSUME RTInv, NEW text \in Seq(WordsTo(Len(vault))), NEW vs \in SUBSET Values,
           RedactGiven(text, vs), euPack' = euPack
    PROVE  /\ Sound(vault') /\ Extends(vault', vault)
           /\ given' \in Seq(WordsTo(Len(vault'))) /\ result' \in Seq(WordsTo(Len(vault')))
           /\ \A s \in Seq(WordsTo(Len(vault))) : s \in Seq(WordsTo(Len(vault')))
           /\ Meaning(result', vault') = Meaning(given', vault')
           /\ \A k \in 1..Len(Fixed(euPack')) : Clear(Fixed(euPack')[k], given', result', vault')
<1> DEFINE new == Redact(text, vault, euPack, vs)
<1>1. Sound(vault) /\ euPack \in BOOLEAN
  BY DEF RTInv
<1>2. Redacted(text, vault, euPack, new)
  BY <1>1, RedactDoes
<1>3. given' = text /\ result' = new.text /\ vault' = new.vault
  BY DEF RedactGiven
<1> HIDE DEF new
<1>4. /\ Sound(vault') /\ Extends(vault', vault) /\ result' \in Seq(WordsTo(Len(vault')))
      /\ Meaning(result', vault') = Meaning(given', vault')
      /\ \A k \in 1..Len(Fixed(euPack)) : Clear(Fixed(euPack)[k], given', result', vault')
  BY <1>2, <1>3 DEF Redacted
<1>5. Len(vault) \in Nat /\ Len(vault') \in Nat /\ Len(vault) <= Len(vault')
  BY <1>1, <1>4, LenProperties DEF Sound, Extends
<1>6. \A s \in Seq(WordsTo(Len(vault))) : s \in Seq(WordsTo(Len(vault')))
  BY <1>5, TextsFit
<1> QED
  BY <1>3, <1>4, <1>6

LEMMA AskKeeps ==
    ASSUME RTInv, NEW prompt \in Prompts, NEW vs \in Findings(shown \o prompt), Ask(prompt, vs)
    PROVE  RTInv' /\ Extends(vault', vault)
<1>1. /\ Sound(vault) /\ shown \in Seq(WordsTo(Len(vault))) /\ Len(vault) \in Nat
      /\ euPack \in BOOLEAN /\ autoReveal \in BOOLEAN
  BY LenProperties DEF RTInv, Sound
<1>2. prompt \in Seq(WordsTo(Len(vault)))
  BY <1>1, PromptsAssumption, WordsFit
<1>3. shown \o prompt \in Seq(WordsTo(Len(vault)))
  BY <1>1, <1>2, ConcatProperties
<1>4. vs \in SUBSET Values
  BY DEF Findings
<1>5. /\ RedactGiven(shown \o prompt, vs)
      /\ euPack' = euPack /\ autoReveal' = autoReveal /\ shown' = shown
  BY DEF Ask
<1>6. /\ Sound(vault') /\ Extends(vault', vault)
      /\ given' \in Seq(WordsTo(Len(vault'))) /\ result' \in Seq(WordsTo(Len(vault')))
      /\ \A s \in Seq(WordsTo(Len(vault))) : s \in Seq(WordsTo(Len(vault')))
      /\ Meaning(result', vault') = Meaning(given', vault')
      /\ \A k \in 1..Len(Fixed(euPack')) : Clear(Fixed(euPack')[k], given', result', vault')
  BY <1>3, <1>4, <1>5, GivenKeeps
<1>7. shown' \in Seq(WordsTo(Len(vault')))
  BY <1>1, <1>5, <1>6
<1> QED
  BY <1>1, <1>5, <1>6, <1>7 DEF RTInv

\* An answer is made of what the model was sent.
LEMMA EchoesType ==
    ASSUME NEW n \in Nat, NEW text \in Seq(WordsTo(n)),
           NEW words \in Echoes(text) \cup {<<Key>> \o w : w \in Echoes(text)}
    PROVE  words \in Seq(WordsTo(n))
<1> DEFINE W == WordsTo(n)
<1>1. ASSUME NEW w \in Echoes(text) PROVE w \in Seq(W)
  <2>1. PICK i \in 0..Len(text), j \in 0..Len(text) : w = SubSeq(text, i + 1, j)
    BY DEF Echoes, SubSeqs
  <2>2. Len(text) \in Nat /\ i + 1 \in Nat /\ j \in Nat /\ \A k \in (i + 1)..j : k \in 1..Len(text)
    BY LenProperties
  <2>3. \A k \in (i + 1)..j : text[k] \in W
    BY <2>2, ElementOfSeq
  <2> HIDE DEF W
  <2>4. SubSeq(text, i + 1, j) \in Seq(W)
    BY <2>2, <2>3, SubSeqProperties
  <2> QED
    BY <2>1, <2>4
<1>2. Key \in W
  BY DEF WordsTo, Words
<1> HIDE DEF W
<1>3. <<Key>> \in Seq(W)
  BY <1>2
<1>4. \A w \in Seq(W) : <<Key>> \o w \in Seq(W)
  BY <1>3, ConcatProperties
<1>5. words \in Seq(W)
  BY <1>1, <1>4
<1> QED
  BY <1>5 DEF W

LEMMA AnswerKeeps ==
    ASSUME RTInv, NEW words \in Echoes(result) \cup {<<Key>> \o w : w \in Echoes(result)},
           NEW vs \in Findings(words), Answer(words, vs)
    PROVE  RTInv' /\ Extends(vault', vault)
<1>1. /\ result \in Seq(WordsTo(Len(vault))) /\ Len(vault) \in Nat
      /\ euPack \in BOOLEAN /\ autoReveal \in BOOLEAN
  BY LenProperties DEF RTInv, Sound
<1>2. words \in Seq(WordsTo(Len(vault)))
  BY <1>1, EchoesType
<1>3. vs \in SUBSET Values
  BY DEF Findings
<1>4. /\ RedactGiven(words, vs) /\ euPack' = euPack /\ autoReveal' = autoReveal
      /\ shown' = IF autoReveal THEN Reveal(result', vault') ELSE result'
  BY DEF Answer
<1>5. /\ Sound(vault') /\ Extends(vault', vault)
      /\ given' \in Seq(WordsTo(Len(vault'))) /\ result' \in Seq(WordsTo(Len(vault')))
      /\ Meaning(result', vault') = Meaning(given', vault')
      /\ \A k \in 1..Len(Fixed(euPack')) : Clear(Fixed(euPack')[k], given', result', vault')
  BY <1>2, <1>3, <1>4, GivenKeeps
<1>6. Reveal(result', vault') \in Seq(WordsTo(Len(vault')))
  BY <1>5, RevealType
<1>7. shown' \in Seq(WordsTo(Len(vault')))
  BY <1>4, <1>5, <1>6
<1> QED
  BY <1>1, <1>4, <1>5, <1>7 DEF RTInv

LEMMA NextKeeps == RTInv /\ [Next]_vars => RTInv' /\ Extends(vault', vault)
<1> SUFFICES ASSUME RTInv, [Next]_vars PROVE RTInv' /\ Extends(vault', vault)
  OBVIOUS
<1>1. ASSUME NEW prompt \in Prompts, NEW vs \in Findings(shown \o prompt), Ask(prompt, vs)
      PROVE  RTInv' /\ Extends(vault', vault)
  BY <1>1, AskKeeps
<1>2. ASSUME NEW words \in Echoes(result) \cup {<<Key>> \o w : w \in Echoes(result)},
             NEW vs \in Findings(words), Answer(words, vs)
      PROVE  RTInv' /\ Extends(vault', vault)
  BY <1>2, AnswerKeeps
<1>3. CASE UNCHANGED vars
  <2>1. Len(vault) \in Nat
    BY LenProperties DEF RTInv, Sound
  <2>2. Extends(vault, vault)
    BY <2>1 DEF Extends
  <2>3. vault' = vault
    BY <1>3 DEF vars
  <2>4. RTInv'
    BY <1>3 DEF vars, RTInv
  <2> QED
    BY <2>2, <2>3, <2>4
<1> QED
  BY <1>1, <1>2, <1>3 DEF Next

\* Every text of a conversation is of words and of tokens that the vault has assigned; no
\* two tokens are for the same, and a token's content is older than the token: what is
\* sent and shown can always be resolved (Vault.Assign, Vault.Reveal).
THEOREM TokensResolve == Spec => []RTInv
<1>1. Init => RTInv
  BY InitInv
<1>2. RTInv /\ [Next]_vars => RTInv'
  BY NextKeeps
<1> QED
  BY <1>1, <1>2, PTL DEF Spec

\* What a token stands for never changes: assignments are only added (Vault.Assign).
THEOREM TokensStay == Spec => [][Extends(vault', vault)]_vars
<1>1. RTInv /\ [Next]_vars => [Extends(vault', vault)]_vars
  BY NextKeeps
<1> QED
  BY <1>1, TokensResolve, PTL DEF Spec

\* However often a text is redacted, it still stands for the words it was given as
\* (detector.apply, Redactor.Redact).
THEOREM MeaningIsKept == Spec => []MeaningKept
<1>1. RTInv => MeaningKept
  BY DEF RTInv, MeaningKept
<1> QED
  BY <1>1, TokensResolve, PTL

LEMMA RevealsMeaning ==
    ASSUME NEW entries, Sound(entries), NEW text \in Seq(WordsTo(Len(entries))),
           \A i \in 1..Len(text) : text[i][1] = "token" =>
              entries[text[i][2]].kind \in Lettered \ {"SECRET"}
    PROVE  Reveal(text, entries) = Meaning(text, entries)
<1> DEFINE e(i) == IF text[i][1] = "token" /\ entries[text[i][2]].kind \in Lettered
                   THEN entries[text[i][2]].content ELSE <<text[i]>>
           f(i) == IF text[i][1] = "token" THEN Stands(entries)[text[i][2]] ELSE <<text[i]>>
<1>1. Len(entries) \in Nat /\ Len(text) \in Nat /\ \A i \in 1..Len(text) : text[i] \in WordsTo(Len(entries))
  BY LenProperties, ElementOfSeq DEF Sound
<1>2. ASSUME NEW i \in 1..Len(text) PROVE e(i) = f(i)
  <2>1. CASE text[i][1] = "token"
    <3>1. text[i][2] \in 1..Len(entries)
      BY <1>1, <2>1, TokenInRange
    <3>2. PICK n \in 1..Len(entries) : n = text[i][2]
      BY <3>1
    <3>3. entries[n].kind \in Lettered /\ entries[n].kind # "SECRET"
      BY <2>1, <3>2
    <3>4. entries[n].content \in Seq(Words)
      BY <3>3 DEF Sound
    <3>5. Stands(entries)[n] = Expand(entries[n].content, Stands(entries))
      BY StandsIs DEF StandsTo
    <3>6. Stands(entries)[n] = entries[n].content
      BY <3>4, <3>5, ExpandWords
    <3> QED
      BY <2>1, <3>2, <3>3, <3>6
  <2>2. CASE text[i][1] # "token"
    BY <2>2
  <2> QED
    BY <2>1, <2>2
<1> HIDE DEF e, f
<1>3. [i \in 1..Len(text) |-> e(i)] = [i \in 1..Len(text) |-> f(i)]
  BY <1>2
<1>4. Reveal(text, entries) = FlattenSeq([i \in 1..Len(text) |-> e(i)])
  BY DEF Reveal, e
<1>5. Meaning(text, entries) = FlattenSeq([i \in 1..Len(text) |-> f(i)])
  BY DEF Meaning, Expand, f
<1> QED
  BY <1>3, <1>4, <1>5

\* One Reveal gives back all of a text whose tokens are of kinds Reveal knows and not of
\* keyed secrets, in any round (Vault.Reveal).
THEOREM RevealIsExact == Spec => []RevealExactOutsideSecrets
<1>1. RTInv => RevealExactOutsideSecrets
  <2> SUFFICES ASSUME RTInv,
                      \A i \in 1..Len(result) : result[i][1] = "token" =>
                         vault[result[i][2]].kind \in Lettered \ {"SECRET"}
               PROVE  Reveal(result, vault) = Meaning(given, vault)
    BY DEF RevealExactOutsideSecrets
  <2>1. /\ Sound(vault) /\ result \in Seq(WordsTo(Len(vault)))
        /\ Meaning(result, vault) = Meaning(given, vault)
    BY DEF RTInv
  <2>2. Reveal(result, vault) = Meaning(result, vault)
    BY <2>1, RevealsMeaning
  <2> QED
    BY <2>1, <2>2
<1> QED
  BY <1>1, TokensResolve, PTL

\* The kinds the patterns look for are those of the fixed passes.
LEMMA KindsAre ==
    ASSUME NEW eu \in BOOLEAN
    PROVE  PatternKinds(eu) =
              {Fixed(eu)[k].kind : k \in {j \in 1..Len(Fixed(eu)) : Fixed(eu)[j].how = "pattern"}}
<1> DEFINE P == Passes(eu, {})
           N == Len(Fixed(eu))
<1>1. /\ N \in Nat /\ Len(P) = N + 1 /\ \A k \in 1..N : P[k] = Fixed(eu)[k]
      /\ P[N + 1].how = "entities"
  <2>1. {} \in SUBSET Values
    OBVIOUS
  <2> QED
    BY <2>1, FixedType, PassesAre
<1> HIDE DEF P, N
<1>2. \A k \in 1..Len(P) : P[k].how = "pattern" => k \in 1..N
  <2>1. \A k \in 1..Len(P) : k \in 1..N \/ k = N + 1
    BY <1>1
  <2> QED
    BY <1>1, <2>1
<1>3. \A k \in 1..N : k \in 1..Len(P)
  BY <1>1
<1>4. {P[k].kind : k \in {j \in 1..Len(P) : P[j].how = "pattern"}} =
      {Fixed(eu)[k].kind : k \in {j \in 1..N : Fixed(eu)[j].how = "pattern"}}
  BY <1>1, <1>2, <1>3
<1> QED
  BY <1>4 DEF PatternKinds, P, N

\* No value that a pattern of the configuration accepts is left whole, whatever the other
\* passes replaced around it, but where it came in a longer match that the validator
\* rejected (Redactor.Redact, detector.apply).
THEOREM NothingWholeIsLeft == Spec => []NothingWholeLeft
<1>1. RTInv => NothingWholeLeft
  <2> SUFFICES ASSUME RTInv, NEW v \in Values, NEW i \in 1..Len(result), StandsAt(result, i, v),
                      NEW kind \in Shape[v].valid \cap PatternKinds(euPack)
               PROVE  Excused(v, kind, given, result, i, vault)
    BY DEF NothingWholeLeft, Excused
  <2>1. euPack \in BOOLEAN
    BY DEF RTInv
  <2>2. PICK k \in 1..Len(Fixed(euPack)) :
            Fixed(euPack)[k].how = "pattern" /\ Fixed(euPack)[k].kind = kind
    BY <2>1, KindsAre
  <2>3. Clear(Fixed(euPack)[k], given, result, vault)
    BY DEF RTInv
  <2> QED
    BY <2>2, <2>3 DEF Clear
<1> QED
  BY <1>1, TokensResolve, PTL

\* A redacted text without a keyed label, of which nothing came in a rejected match, is
\* sent again as it is, but for what the NER service finds in it (Redactor.Redact,
\* detector.apply, Vault.Assign).
THEOREM RedactedTextStays == Spec => []RedactedStays
<1>1. RTInv => RedactedStays
  <2> SUFFICES ASSUME RTInv, ~Has(result, Key), NEW vs \in Findings(result),
                      \A v \in Values, i \in 1..Len(given) :
                         \A kind \in Shape[v].valid \cap PatternKinds(euPack) :
                            ~SwallowedAt(v, kind, given, i)
               PROVE  Redact(result, vault, euPack, vs)
                         = Apply(Entities(vs), [text |-> result, vault |-> vault])
    BY DEF RedactedStays
  <2> DEFINE s == [text |-> result, vault |-> vault]
  <2>1. /\ euPack \in BOOLEAN /\ Sound(vault) /\ result \in Seq(WordsTo(Len(vault)))
        /\ vs \in SUBSET Values
    BY DEF RTInv, Findings
  <2>2. ASSUME NEW k \in 1..Len(Fixed(euPack)) PROVE Apply(Fixed(euPack)[k], s) = s
    <3>1. PICK d \in FixedDetectors : d = Fixed(euPack)[k]
      BY <2>1, FixedType, ElementOfSeq
    <3>2. d \in Detectors /\ d.how # "entities" /\ d.how \in {"pattern", "keyed", "bearer"}
      BY DEF FixedDetectors, Detectors
    <3>3. Clear(d, given, result, vault)
      BY <3>1 DEF RTInv
    <3>4. ASSUME NEW i \in 1..Len(result), NEW m \in Matches(d, result, i), m.valid
          PROVE  FALSE
      <4>1. CASE AfterLabel(d, result, i)
        <5>1. CASE d.how = "keyed"
          BY <4>1, <5>1 DEF AfterLabel, Has
        <5>2. CASE d.how = "bearer"
          BY <3>3, <4>1, <5>2 DEF Clear
        <5> QED
          BY <4>1, <5>1, <5>2 DEF AfterLabel
      <4>2. CASE ~AfterLabel(d, result, i)
        <5>1. PICK v \in Values :
                  d.how = "pattern" /\ d.kind \in Shape[v].valid /\ StandsAt(result, i, v)
          BY <3>2, <3>4, <4>2, AcceptedIs
        <5>2. d.kind \in PatternKinds(euPack)
          BY <2>1, <3>1, <5>1, KindsAre
        <5>3. Excused(v, d.kind, given, result, i, vault)
          BY <3>3, <5>1 DEF Clear
        <5> QED
          BY <5>1, <5>2, <5>3 DEF Excused
      <4> QED
        BY <4>1, <4>2
    <3>5. s.text = result /\ s.vault = vault /\ s = [text |-> s.text, vault |-> s.vault]
      OBVIOUS
    <3> HIDE DEF s
    <3>6. /\ Sound(s.vault) /\ s.text \in Seq(WordsTo(Len(s.vault)))
          /\ \A i \in 1..Len(s.text) : \A m \in Matches(d, s.text, i) : ~m.valid
      BY <2>1, <3>4, <3>5
    <3>7. Apply(d, s) = s
      BY <3>2, <3>5, <3>6, NothingAccepted
    <3> QED
      BY <3>1, <3>7
  <2> HIDE DEF s
  <2> QED
    BY <2>1, <2>2, LastPassOnly DEF s
<1> QED
  BY <1>1, TokensResolve, PTL

=============================================================================
