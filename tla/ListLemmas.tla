------------------------------ MODULE ListLemmas ------------------------------
(***************************************************************************)
(* Lists that change in place, as the catalog and the comment threads do:  *)
(* what InsertAt, RemoveAt and Append do to the elements, to their places  *)
(* and to a list that repeats nothing.                                     *)
(***************************************************************************)
EXTENDS Integers, FiniteSets, Sequences, SequencesExt, FiniteSetTheorems, SequenceTheorems,
        WellFoundedInduction, TLAPS

\* Every set of places that is not empty has a first one.
LEMMA FirstPlace ==
  ASSUME NEW T, T \subseteq Nat, T # {}
  PROVE  \E m \in T : \A n \in T : m <= n
<1> DEFINE R == OpToRel(<, Nat)
<1>1. IsWellFoundedOn(R, Nat)
  BY NatLessThanWellFounded
<1>2. \A m, n \in Nat : n < m => <<n, m>> \in R
  BY DEF OpToRel
<1> HIDE DEF R
<1>3. PICK m \in T : \A n \in T : ~(<<n, m>> \in R)
  BY <1>1, WFMin
<1>4. ASSUME NEW n \in T PROVE m <= n
  <2>1. ~(n < m)
    BY <1>2, <1>3
  <2> QED BY <2>1
<1> QED BY <1>4

\* Inserting and removing an element, index by index.
LEMMA InsertAtIndexes ==
  ASSUME NEW S, NEW s \in Seq(S), NEW d \in S, NEW i \in 1..(Len(s) + 1)
  PROVE  /\ InsertAt(s, i, d) \in Seq(S)
         /\ Len(InsertAt(s, i, d)) = Len(s) + 1
         /\ \A j \in 1..(Len(s) + 1) :
              InsertAt(s, i, d)[j] = IF j < i THEN s[j] ELSE IF j = i THEN d ELSE s[j - 1]
<1> DEFINE a == SubSeq(s, 1, i - 1)
           b == SubSeq(s, i, Len(s))
<1>0. \A j \in 1..Len(s) : s[j] \in S
  BY ElementOfSeq
<1>1. a \in Seq(S) /\ Len(a) = i - 1 /\ \A j \in 1..(i - 1) : a[j] = s[j]
  BY <1>0, SubSeqProperties
<1>2. b \in Seq(S) /\ Len(b) = Len(s) - i + 1
      /\ \A j \in 1..(Len(s) - i + 1) : b[j] = s[i + j - 1]
  BY <1>0, SubSeqProperties
<1> HIDE DEF a, b
<1>3. <<d>> \in Seq(S) /\ Len(<<d>>) = 1 /\ <<d>>[1] = d
  OBVIOUS
<1>4. /\ a \o <<d>> \in Seq(S)
      /\ Len(a \o <<d>>) = i
      /\ \A j \in 1..i : (a \o <<d>>)[j] = IF j <= i - 1 THEN a[j] ELSE <<d>>[j - (i - 1)]
  BY <1>1, <1>3, ConcatProperties
<1>5. /\ (a \o <<d>>) \o b \in Seq(S)
      /\ Len((a \o <<d>>) \o b) = Len(s) + 1
      /\ \A j \in 1..(Len(s) + 1) :
           ((a \o <<d>>) \o b)[j] = IF j <= i THEN (a \o <<d>>)[j] ELSE b[j - i]
  BY <1>2, <1>4, ConcatProperties
<1>6. InsertAt(s, i, d) = (a \o <<d>>) \o b
  BY DEF InsertAt, a, b
<1>7. ASSUME NEW j \in 1..(Len(s) + 1)
      PROVE  ((a \o <<d>>) \o b)[j] = IF j < i THEN s[j] ELSE IF j = i THEN d ELSE s[j - 1]
  <2>1. CASE j < i BY <2>1, <1>1, <1>4, <1>5
  <2>2. CASE j = i BY <2>2, <1>1, <1>3, <1>4, <1>5
  <2>3. CASE j > i
    <3>0. ~(j <= i)
      BY <2>3
    <3>1. ((a \o <<d>>) \o b)[j] = b[j - i]
      BY <3>0, <1>5, Zenon
    <3>2. b[j - i] = s[i + (j - i) - 1]
      BY <2>3, <1>2
    <3>3. i + (j - i) - 1 = j - 1
      BY <2>3
    <3>4. ~(j < i) /\ ~(j = i)
      BY <2>3
    <3> QED BY <3>1, <3>2, <3>3, <3>4
  <2>4. j < i \/ j = i \/ j > i
    OBVIOUS
  <2> QED BY <2>1, <2>2, <2>3, <2>4
<1> QED BY <1>5, <1>6, <1>7

LEMMA RemoveAtIndexes ==
  ASSUME NEW S, NEW s \in Seq(S), NEW i \in 1..Len(s)
  PROVE  /\ RemoveAt(s, i) \in Seq(S)
         /\ Len(RemoveAt(s, i)) = Len(s) - 1
         /\ \A j \in 1..(Len(s) - 1) :
              RemoveAt(s, i)[j] = IF j < i THEN s[j] ELSE s[j + 1]
<1> DEFINE a == SubSeq(s, 1, i - 1)
           b == SubSeq(s, i + 1, Len(s))
<1>0. \A j \in 1..Len(s) : s[j] \in S
  BY ElementOfSeq
<1>1. a \in Seq(S) /\ Len(a) = i - 1 /\ \A j \in 1..(i - 1) : a[j] = s[j]
  BY <1>0, SubSeqProperties
<1>2. b \in Seq(S) /\ Len(b) = Len(s) - i
      /\ \A j \in 1..(Len(s) - i) : b[j] = s[i + j]
  <2>1. /\ SubSeq(s, i + 1, Len(s)) \in Seq(S)
        /\ Len(SubSeq(s, i + 1, Len(s))) = IF i + 1 <= Len(s) THEN Len(s) - (i + 1) + 1 ELSE 0
        /\ \A j \in 1..(Len(s) - (i + 1) + 1) : SubSeq(s, i + 1, Len(s))[j] = s[(i + 1) + j - 1]
    BY <1>0, SubSeqProperties
  <2> QED BY <2>1
<1> HIDE DEF a, b
<1>3. Len(a) + Len(b) = Len(s) - 1
  BY <1>1, <1>2
<1>4. /\ a \o b \in Seq(S)
      /\ Len(a \o b) = Len(a) + Len(b)
      /\ \A j \in 1..(Len(a) + Len(b)) :
           (a \o b)[j] = IF j <= Len(a) THEN a[j] ELSE b[j - Len(a)]
  BY <1>1, <1>2, ConcatProperties
<1>5. RemoveAt(s, i) = a \o b
  BY DEF RemoveAt, a, b
<1>6. ASSUME NEW j \in 1..(Len(s) - 1)
      PROVE  (a \o b)[j] = IF j < i THEN s[j] ELSE s[j + 1]
  <2>1. CASE j < i BY <2>1, <1>1, <1>3, <1>4
  <2>2. CASE j >= i
    <3>1. (a \o b)[j] = b[j - (i - 1)]
      BY <2>2, <1>1, <1>3, <1>4
    <3>2. j - (i - 1) \in 1..(Len(s) - i)
      BY <2>2
    <3>3. b[j - (i - 1)] = s[i + (j - (i - 1))]
      BY <3>2, <1>2
    <3>4. i + (j - (i - 1)) = j + 1
      BY <2>2
    <3>5. ~(j < i)
      BY <2>2
    <3> QED BY <3>1, <3>3, <3>4, <3>5
  <2>3. j < i \/ j >= i
    OBVIOUS
  <2> QED BY <2>1, <2>2, <2>3
<1> QED BY <1>3, <1>4, <1>5, <1>6

\* A sequence that repeats nothing is as long as the set of its elements.
LEMMA InjectiveLength ==
  ASSUME NEW S, NEW s \in Seq(S), IsInjective(s)
  PROVE  IsFiniteSet(ToSet(s)) /\ Cardinality(ToSet(s)) = Len(s)
<1>1. Len(s) \in Nat /\ s \in [1..Len(s) -> S] /\ DOMAIN s = 1..Len(s)
  BY LenProperties
<1>2. ToSet(s) = {s[i] : i \in 1..Len(s)}
  BY <1>1 DEF ToSet
<1>3. s \in [1..Len(s) -> ToSet(s)]
  BY <1>1, <1>2
<1>4. s \in Bijection(1..Len(s), ToSet(s))
  BY <1>1, <1>2, <1>3 DEF Bijection, Injection, Surjection, IsInjective
<1>5. ExistsBijection(1..Len(s), ToSet(s))
  BY <1>4 DEF ExistsBijection
<1>6. IsFiniteSet(1..Len(s))
  BY <1>1, FS_Interval
<1> QED BY <1>1, <1>5, <1>6, FS_Bijection, FS_CountingElements

\* Inserting something new and removing an element keep a sequence free of
\* repetitions.
LEMMA InsertAtSet ==
  ASSUME NEW S, NEW s \in Seq(S), NEW d \in S \ ToSet(s), NEW i \in 1..(Len(s) + 1),
         IsInjective(s)
  PROVE  /\ IsInjective(InsertAt(s, i, d))
         /\ ToSet(InsertAt(s, i, d)) = ToSet(s) \cup {d}
<1> DEFINE t == InsertAt(s, i, d)
<1>1. Len(s) \in Nat /\ DOMAIN s = 1..Len(s)
  BY LenProperties
<1>2. /\ t \in Seq(S) /\ Len(t) = Len(s) + 1
      /\ \A j \in 1..(Len(s) + 1) : t[j] = IF j < i THEN s[j] ELSE IF j = i THEN d ELSE s[j - 1]
  BY InsertAtIndexes
<1>3. DOMAIN t = 1..(Len(s) + 1)
  BY <1>2, LenProperties
<1> HIDE DEF t
<1>4. \A j \in 1..Len(s) : s[j] \in ToSet(s)
  BY <1>1 DEF ToSet
<1>5. \A j, k \in 1..Len(s) : s[j] = s[k] => j = k
  BY <1>1 DEF IsInjective
<1>6. ASSUME NEW j \in 1..(Len(s) + 1)
      PROVE  \/ j < i /\ j \in 1..Len(s) /\ t[j] = s[j]
             \/ j = i /\ t[j] = d
             \/ j > i /\ j - 1 \in 1..Len(s) /\ t[j] = s[j - 1]
  BY <1>1, <1>2
<1>7. ASSUME NEW j \in 1..(Len(s) + 1), NEW k \in 1..(Len(s) + 1), t[j] = t[k]
      PROVE  j = k
  <2>1. CASE t[j] = d
    BY <2>1, <1>1, <1>4, <1>6, <1>7
  <2>2. CASE t[j] # d
    BY <2>2, <1>1, <1>5, <1>6, <1>7
  <2> QED BY <2>1, <2>2
<1>8. IsInjective(t)
  BY <1>3, <1>7 DEF IsInjective
<1>9. ToSet(t) = {t[j] : j \in 1..(Len(s) + 1)}
  BY <1>3 DEF ToSet
<1>10. ToSet(t) \subseteq ToSet(s) \cup {d}
  BY <1>4, <1>6, <1>9
<1>11. ASSUME NEW x \in ToSet(s) PROVE x \in ToSet(t)
  <2>1. PICK j \in 1..Len(s) : x = s[j]
    BY <1>1 DEF ToSet
  <2>2. CASE j < i
    BY <2>1, <2>2, <1>1, <1>2, <1>9
  <2>3. CASE j >= i
    <3>1. j + 1 \in 1..(Len(s) + 1) /\ j + 1 > i /\ (j + 1) - 1 = j
      BY <2>3, <1>1
    <3>2. t[j + 1] = s[j]
      BY <3>1, <1>2
    <3> QED BY <2>1, <3>1, <3>2, <1>9
  <2> QED BY <1>1, <2>2, <2>3
<1>12. d \in ToSet(t)
  BY <1>1, <1>2, <1>9
<1> QED BY <1>8, <1>10, <1>11, <1>12 DEF t

LEMMA RemoveAtSet ==
  ASSUME NEW S, NEW s \in Seq(S), NEW i \in 1..Len(s), IsInjective(s)
  PROVE  /\ IsInjective(RemoveAt(s, i))
         /\ ToSet(RemoveAt(s, i)) \subseteq ToSet(s)
         /\ ToSet(s) \subseteq ToSet(RemoveAt(s, i)) \cup {s[i]}
<1> DEFINE t == RemoveAt(s, i)
<1>1. Len(s) \in Nat /\ DOMAIN s = 1..Len(s)
  BY LenProperties
<1>2. /\ t \in Seq(S) /\ Len(t) = Len(s) - 1
      /\ \A j \in 1..(Len(s) - 1) : t[j] = IF j < i THEN s[j] ELSE s[j + 1]
  BY RemoveAtIndexes
<1>3. DOMAIN t = 1..(Len(s) - 1)
  BY <1>2, LenProperties
<1> HIDE DEF t
<1>4. \A j \in 1..Len(s) : s[j] \in ToSet(s)
  BY <1>1 DEF ToSet
<1>5. \A j, k \in 1..Len(s) : s[j] = s[k] => j = k
  BY <1>1 DEF IsInjective
<1>6. ASSUME NEW j \in 1..(Len(s) - 1)
      PROVE  \/ j < i /\ j \in 1..Len(s) /\ t[j] = s[j]
             \/ j >= i /\ j + 1 \in 1..Len(s) /\ t[j] = s[j + 1]
  BY <1>1, <1>2
<1>7. ASSUME NEW j \in 1..(Len(s) - 1), NEW k \in 1..(Len(s) - 1), t[j] = t[k]
      PROVE  j = k
  BY <1>1, <1>5, <1>6, <1>7
<1>8. IsInjective(t)
  BY <1>3, <1>7 DEF IsInjective
<1>9. ToSet(t) = {t[j] : j \in 1..(Len(s) - 1)}
  BY <1>3 DEF ToSet
<1>10. ToSet(t) \subseteq ToSet(s)
  BY <1>4, <1>6, <1>9
<1>11. ASSUME NEW x \in ToSet(s), x # s[i] PROVE x \in ToSet(t)
  <2>1. PICK j \in 1..Len(s) : x = s[j]
    BY <1>1 DEF ToSet
  <2>2. CASE j < i
    BY <2>1, <2>2, <1>1, <1>2, <1>9
  <2>3. CASE j > i
    <3>1. j - 1 \in 1..(Len(s) - 1) /\ ~(j - 1 < i) /\ (j - 1) + 1 = j
      BY <2>3, <1>1
    <3>2. t[j - 1] = s[j]
      BY <3>1, <1>2
    <3> QED BY <2>1, <3>1, <3>2, <1>9
  <2>4. j # i
    BY <2>1, <1>11
  <2> QED BY <1>1, <2>2, <2>3, <2>4
<1> QED BY <1>8, <1>10, <1>11 DEF t

\* So does adding something new at the end, which moves nothing.
LEMMA AppendSet ==
  ASSUME NEW S, NEW s \in Seq(S), NEW d \in S \ ToSet(s), IsInjective(s)
  PROVE  /\ Append(s, d) \in Seq(S) /\ Len(Append(s, d)) = Len(s) + 1
         /\ \A j \in 1..Len(s) : Append(s, d)[j] = s[j]
         /\ Append(s, d)[Len(s) + 1] = d
         /\ IsInjective(Append(s, d))
         /\ ToSet(Append(s, d)) = ToSet(s) \cup {d}
<1> DEFINE t == Append(s, d)
<1>1. Len(s) \in Nat /\ DOMAIN s = 1..Len(s)
  BY LenProperties
<1>2. /\ t \in Seq(S) /\ Len(t) = Len(s) + 1
      /\ \A j \in 1..Len(s) : t[j] = s[j]
      /\ t[Len(s) + 1] = d
  BY AppendProperties
<1>3. DOMAIN t = 1..(Len(s) + 1)
  BY <1>2, LenProperties
<1> HIDE DEF t
<1>4. \A j \in 1..Len(s) : s[j] # d
  BY <1>1 DEF ToSet
<1>5. \A j, k \in 1..Len(s) : s[j] = s[k] => j = k
  BY <1>1 DEF IsInjective
<1>6. \A j \in 1..(Len(s) + 1) : j \in 1..Len(s) \/ j = Len(s) + 1
  BY <1>1
<1>7. IsInjective(t)
  <2>1. ASSUME NEW j \in 1..(Len(s) + 1), NEW k \in 1..(Len(s) + 1), t[j] = t[k]
        PROVE  j = k
    BY <2>1, <1>2, <1>4, <1>5, <1>6
  <2> QED BY <2>1, <1>3 DEF IsInjective
<1>8. ToSet(t) = ToSet(s) \cup {d}
  <2>1. ToSet(t) = {t[j] : j \in 1..(Len(s) + 1)} /\ ToSet(s) = {s[j] : j \in 1..Len(s)}
    BY <1>1, <1>3 DEF ToSet
  <2>2. 1..(Len(s) + 1) = 1..Len(s) \cup {Len(s) + 1}
    BY <1>1
  <2> QED BY <1>2, <2>1, <2>2
<1> QED BY <1>2, <1>7, <1>8 DEF t

\* As many elements as places, also of a first part of such a list.
LEMMA InjectivePrefix ==
  ASSUME NEW S, NEW s \in Seq(S), IsInjective(s), NEW n \in 0..Len(s)
  PROVE  /\ IsFiniteSet({s[i] : i \in 1..n})
         /\ Cardinality({s[i] : i \in 1..n}) = n
<1> DEFINE t == SubSeq(s, 1, n)
<1>1. Len(s) \in Nat /\ DOMAIN s = 1..Len(s)
  BY LenProperties
<1>2. \A i \in 1..n : s[i] \in S
  BY <1>1, ElementOfSeq
<1>3. t \in Seq(S) /\ Len(t) = n /\ \A i \in 1..n : t[i] = s[i]
  BY <1>1, <1>2, SubSeqProperties
<1>4. DOMAIN t = 1..n
  BY <1>3, LenProperties
<1> HIDE DEF t
<1>5. IsInjective(t)
  BY <1>1, <1>3, <1>4 DEF IsInjective
<1>6. ToSet(t) = {s[i] : i \in 1..n}
  BY <1>3, <1>4 DEF ToSet
<1> QED BY <1>3, <1>5, <1>6, InjectiveLength

=============================================================================
