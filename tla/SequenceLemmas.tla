-------------------------- MODULE SequenceLemmas --------------------------
(***************************************************************************)
(* Facts about sequences, suffixes and least elements that the proofs of   *)
(* this project share.                                                     *)
(***************************************************************************)
EXTENDS SequenceTheorems, WellFoundedInduction, TLAPS

\* A non-empty set of naturals has a least element.
LEMMA LeastNatural ==
  ASSUME NEW T \in SUBSET Nat, T # {}
  PROVE  \E m \in T : \A i \in T : m <= i
<1> DEFINE R == {ss \in Nat \X Nat : ss[1] < ss[2]}
<1>1. IsWellFoundedOn(R, Nat)
  BY NatLessThanWellFounded, Zenon DEF OpToRel
<1>2. \A x, y \in Nat : x < y => <<x, y>> \in R
  OBVIOUS
<1> HIDE DEF R
<1>3. PICK x \in T : \A y \in T : ~ (<<y, x>> \in R)
  BY <1>1, WFMin, Zenon
<1>4. \A i \in T : ~ (i < x)
  BY <1>2, <1>3, Zenon
<1>5. \A i \in T : i \in Nat /\ x \in Nat
  BY Zenon
<1> QED
  BY <1>4, <1>5

\* Appending to the last of three concatenated sequences appends to the whole.
LEMMA AppendToConcat ==
  ASSUME NEW S, NEW a \in Seq(S), NEW b \in Seq(S), NEW e \in S
  PROVE  a \o Append(b, e) = Append(a \o b, e)
<1>1. /\ a \o Append(b, e) \in Seq(S)
      /\ Append(a \o b, e) \in Seq(S)
      /\ Len(a \o Append(b, e)) = Len(Append(a \o b, e))
  BY ConcatProperties, AppendProperties
<1>2. ASSUME NEW i \in 1..Len(a \o Append(b, e))
      PROVE  (a \o Append(b, e))[i] = Append(a \o b, e)[i]
  <2>1. /\ Append(b, e) \in Seq(S)
        /\ Len(Append(b, e)) = Len(b) + 1
        /\ \A k \in 1..Len(b) : Append(b, e)[k] = b[k]
        /\ Append(b, e)[Len(b) + 1] = e
        /\ Len(a) \in Nat /\ Len(b) \in Nat
    BY AppendProperties, LenProperties
  <2>2. /\ a \o b \in Seq(S)
        /\ Len(a \o b) = Len(a) + Len(b)
        /\ \A k \in 1..Len(a) + Len(b) :
             (a \o b)[k] = IF k <= Len(a) THEN a[k] ELSE b[k - Len(a)]
    BY ConcatProperties
  <2>3. /\ Len(a \o Append(b, e)) = Len(a) + Len(b) + 1
        /\ (a \o Append(b, e))[i] = IF i <= Len(a) THEN a[i] ELSE Append(b, e)[i - Len(a)]
    BY <2>1, ConcatProperties
  <2>4. Append(a \o b, e)[i] = IF i <= Len(a) + Len(b) THEN (a \o b)[i] ELSE e
    <3>0. \A c \in Seq(S) : /\ \A k \in 1..Len(c) : Append(c, e)[k] = c[k]
                            /\ Append(c, e)[Len(c) + 1] = e
      BY AppendProperties
    <3>1. /\ \A k \in 1..Len(a \o b) : Append(a \o b, e)[k] = (a \o b)[k]
          /\ Append(a \o b, e)[Len(a \o b) + 1] = e
      BY <2>2, <3>0, Zenon
    <3>2. i \in 1..Len(a) + Len(b) + 1
      BY <2>3
    <3> QED
      BY <2>1, <2>2, <3>1, <3>2
  <2> QED
    BY <2>1, <2>2, <2>3, <2>4
<1> QED
  BY <1>1, <1>2, SeqEqual

\* Moving the head of the second sequence to the end of the first.
LEMMA MoveHead ==
  ASSUME NEW S, NEW a \in Seq(S), NEW b \in Seq(S), b # <<>>
  PROVE  Append(a, Head(b)) \o Tail(b) = a \o b
<1>1. /\ Head(b) \in S /\ Head(b) = b[1]
      /\ Tail(b) \in Seq(S)
      /\ Len(Tail(b)) = Len(b) - 1
      /\ Len(b) \in Nat \ {0}
      /\ \A i \in 1..Len(Tail(b)) : Tail(b)[i] = b[i + 1]
  BY HeadTailProperties, EmptySeq
<1>2. /\ Append(a, Head(b)) \in Seq(S)
      /\ Len(Append(a, Head(b))) = Len(a) + 1
      /\ \A i \in 1..Len(a) : Append(a, Head(b))[i] = a[i]
      /\ Append(a, Head(b))[Len(a) + 1] = b[1]
  BY <1>1, AppendProperties
<1>3. ASSUME NEW i \in 1..Len(a \o b)
      PROVE  (Append(a, Head(b)) \o Tail(b))[i] = (a \o b)[i]
  BY <1>1, <1>2, ConcatProperties
<1> QED
  BY <1>1, <1>2, <1>3, ConcatProperties, SeqEqual

\* A suffix of a log grows with it.
LEMMA SuffixOfAppend ==
  ASSUME NEW S, NEW l \in Seq(S), NEW e \in S, NEW f \in 1..Len(l) + 1
  PROVE  SubSeq(Append(l, e), f, Len(Append(l, e))) = Append(SubSeq(l, f, Len(l)), e)
<1> DEFINE m == Append(l, e)
<1>1. /\ m \in Seq(S) /\ Len(m) = Len(l) + 1 /\ Len(l) \in Nat
      /\ \A i \in 1..Len(l) : m[i] = l[i]
      /\ m[Len(l) + 1] = e
  BY AppendProperties, LenProperties
<1> HIDE DEF m
<1>2. /\ SubSeq(m, f, Len(m)) \in Seq(S)
      /\ Len(SubSeq(m, f, Len(m))) = Len(l) - f + 2
      /\ \A i \in 1..Len(l) - f + 2 : SubSeq(m, f, Len(m))[i] = m[f + i - 1]
  <2>1. \A i \in f..Len(m) : m[i] \in S
    BY <1>1, ElementOfSeq
  <2> QED
    BY <1>1, <2>1, SubSeqProperties
<1>3. /\ SubSeq(l, f, Len(l)) \in Seq(S)
      /\ Len(SubSeq(l, f, Len(l))) = Len(l) - f + 1
      /\ \A i \in 1..Len(l) - f + 1 : SubSeq(l, f, Len(l))[i] = l[f + i - 1]
  <2>1. \A i \in f..Len(l) : l[i] \in S
    BY <1>1, ElementOfSeq
  <2> QED
    BY <1>1, <2>1, SubSeqProperties
<1>4. /\ Append(SubSeq(l, f, Len(l)), e) \in Seq(S)
      /\ Len(Append(SubSeq(l, f, Len(l)), e)) = Len(l) - f + 2
      /\ \A i \in 1..Len(l) - f + 1 : Append(SubSeq(l, f, Len(l)), e)[i] = l[f + i - 1]
      /\ Append(SubSeq(l, f, Len(l)), e)[Len(l) - f + 2] = e
  BY <1>1, <1>3, AppendProperties
<1>5. \A i \in 1..Len(l) - f + 2 :
        SubSeq(m, f, Len(m))[i] = Append(SubSeq(l, f, Len(l)), e)[i]
  BY <1>1, <1>2, <1>4
<1>6. SubSeq(m, f, Len(m)) = Append(SubSeq(l, f, Len(l)), e)
  BY <1>2, <1>4, <1>5, SeqEqual
<1> QED
  BY <1>6 DEF m

\* A suffix of a suffix is a suffix.
LEMMA SuffixOfSuffix ==
  ASSUME NEW S, NEW l \in Seq(S), NEW t \in Seq(S), NEW p \in 1..Len(l) + 1,
         t = SubSeq(l, p, Len(l)), NEW q \in 1..Len(t) + 1
  PROVE  /\ SubSeq(t, q, Len(t)) = SubSeq(l, p + q - 1, Len(l))
         /\ SubSeq(t, q, Len(t)) \in Seq(S)
         /\ Len(SubSeq(t, q, Len(t))) = Len(l) - (p + q - 1) + 1
<1>1. Len(l) \in Nat /\ \A i \in 1..Len(l) : l[i] \in S
  BY LenProperties, ElementOfSeq
<1>2. Len(t) = Len(l) - p + 1 /\ \A i \in 1..Len(t) : t[i] = l[p + i - 1]
  BY <1>1, SubSeqProperties
<1>3. \A i \in 1..Len(t) : t[i] \in S
  BY ElementOfSeq
<1>4. /\ SubSeq(t, q, Len(t)) \in Seq(S)
      /\ Len(SubSeq(t, q, Len(t))) = Len(t) - q + 1
      /\ \A i \in 1..Len(t) - q + 1 : SubSeq(t, q, Len(t))[i] = t[q + i - 1]
  BY <1>1, <1>2, <1>3, SubSeqProperties
<1>5. /\ SubSeq(l, p + q - 1, Len(l)) \in Seq(S)
      /\ Len(SubSeq(l, p + q - 1, Len(l))) = Len(t) - q + 1
      /\ \A i \in 1..Len(t) - q + 1 : SubSeq(l, p + q - 1, Len(l))[i] = l[p + q - 1 + i - 1]
  BY <1>1, <1>2, SubSeqProperties
<1>6. \A i \in 1..Len(t) - q + 1 : SubSeq(t, q, Len(t))[i] = SubSeq(l, p + q - 1, Len(l))[i]
  BY <1>1, <1>2, <1>4, <1>5
<1>7. SubSeq(t, q, Len(t)) = SubSeq(l, p + q - 1, Len(l))
  BY <1>4, <1>5, <1>6, SeqEqual
<1>8. Len(t) - q + 1 = Len(l) - (p + q - 1) + 1
  BY <1>1, <1>2
<1> QED
  BY <1>4, <1>7, <1>8, Zenon

\* Sliding a window that ends at the end of a log: drop its first event, append
\* the new one.
LEMMA SlideWindow ==
  ASSUME NEW S, NEW l \in Seq(S), NEW e \in S, NEW n \in 1..Len(l)
  PROVE  /\ Append(Tail(SubSeq(l, n, Len(l))), e) \in Seq(S)
         /\ Len(Append(Tail(SubSeq(l, n, Len(l))), e)) = Len(l) - n + 1
         /\ Append(Tail(SubSeq(l, n, Len(l))), e)
              = SubSeq(Append(l, e), n + 1, Len(Append(l, e)))
<1>1. Len(l) \in Nat /\ \A i \in 1..Len(l) : l[i] \in S
  BY LenProperties, ElementOfSeq
<1>2. Tail(SubSeq(l, n, Len(l))) = SubSeq(l, n + 1, Len(l))
  BY <1>1, HeadTailOfSubSeq
<1> DEFINE u == SubSeq(l, n + 1, Len(l))
<1>3. u \in Seq(S) /\ Len(u) = Len(l) - n
  BY <1>1, SubSeqProperties
<1>4. SubSeq(Append(l, e), n + 1, Len(Append(l, e))) = Append(u, e)
  <2>1. \A f \in 1..Len(l) + 1 :
          SubSeq(Append(l, e), f, Len(Append(l, e))) = Append(SubSeq(l, f, Len(l)), e)
    BY SuffixOfAppend
  <2>2. n + 1 \in 1..Len(l) + 1
    BY <1>1
  <2> QED
    BY <2>1, <2>2, Zenon
<1> HIDE DEF u
<1>5. Append(u, e) \in Seq(S) /\ Len(Append(u, e)) = Len(l) - n + 1
  BY <1>1, <1>3, AppendProperties, SMTT(30)
<1> QED
  BY <1>2, <1>4, <1>5, Zenon DEF u
=============================================================================
