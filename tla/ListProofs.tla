----------------------------- MODULE ListProofs ------------------------------
(***************************************************************************)
(* What Picked, Removed and Count return, for lists of any length; and     *)
(* induction over the positions of a list, as facts about sets of numbers. *)
(***************************************************************************)
EXTENDS Lists, Integers, FiniteSetTheorems, FunctionTheorems,
        SequenceTheorems, WellFoundedInduction, TLAPS

\* The positions of a list, and sets of them, are finite.
LEMMA PositionsFinite ==
    ASSUME NEW n \in Nat, NEW I \in SUBSET (1..n)
    PROVE  /\ IsFiniteSet(I) /\ Cardinality(I) \in Nat
           /\ Cardinality(I) <= n
<1>1. IsFiniteSet(1..n) /\ Cardinality(1..n) = n
      BY FS_Interval
<1>2. IsFiniteSet(I) /\ Cardinality(I) <= n BY <1>1, FS_Subset
<1> QED BY <1>2, FS_CardinalityType

\* Ranks grow with the positions, from 1 to the number of positions.
LEMMA RankBounds ==
    ASSUME NEW n \in Nat, NEW I \in SUBSET (1..n), NEW i \in I
    PROVE  Rank(I, i) \in 1..Cardinality(I)
<1> DEFINE B == {j \in I : j <= i}
<1>1. IsFiniteSet(I) /\ Cardinality(I) \in Nat BY PositionsFinite
<1>2. IsFiniteSet(B) /\ Cardinality(B) <= Cardinality(I) BY <1>1, FS_Subset
<1>3. i \in B OBVIOUS
<1>4. Cardinality(B) \in Nat /\ Cardinality(B) # 0
      BY <1>2, <1>3, FS_CardinalityType, FS_EmptySet
<1> HIDE DEF B
<1>5. Cardinality(B) \in 1..Cardinality(I) BY <1>1, <1>2, <1>4
<1> QED BY <1>5 DEF B, Rank

LEMMA RankGrows ==
    ASSUME NEW n \in Nat, NEW I \in SUBSET (1..n), NEW i \in I, NEW j \in I,
           i < j
    PROVE  Rank(I, i) < Rank(I, j)
<1> DEFINE B == {k \in I : k <= i}
           C == {k \in I : k <= j}
<1>1. IsFiniteSet(I) BY PositionsFinite
<1>2. IsFiniteSet(B) /\ IsFiniteSet(C) BY <1>1, FS_Subset
<1>3. \A k \in I : k \in Nat /\ (k <= i => k <= j) OBVIOUS
<1>4. B \in SUBSET C /\ j \in C /\ j \notin B
  <2>1. B \in SUBSET C BY <1>3
  <2>2. j <= j /\ ~(j <= i) OBVIOUS
  <2> QED BY <2>1, <2>2
<1> HIDE DEF B, C
<1>5. Cardinality(B) <= Cardinality(C) /\ Cardinality(B) # Cardinality(C)
      BY <1>2, <1>4, FS_Subset
<1>6. Cardinality(B) \in Nat /\ Cardinality(C) \in Nat
      BY <1>2, FS_CardinalityType
<1>7. Cardinality(B) < Cardinality(C) BY <1>5, <1>6
<1> QED BY <1>7 DEF B, C, Rank

\* Each number up to that of the positions is the rank of exactly one: an
\* injection between finite sets of one size is onto.
LEMMA RankOnto ==
    ASSUME NEW n \in Nat, NEW I \in SUBSET (1..n), NEW k \in 1..Cardinality(I)
    PROVE  \E i \in I : Rank(I, i) = k
<1> DEFINE T == 1..Cardinality(I)
           f == [i \in I |-> Rank(I, i)]
<1>1. IsFiniteSet(I) /\ Cardinality(I) \in Nat BY PositionsFinite
<1>2. IsFiniteSet(T) /\ Cardinality(T) = Cardinality(I) BY <1>1, FS_Interval
<1>3. f \in [I -> T] BY RankBounds
<1>4. ASSUME NEW i \in I, NEW j \in I, f[i] = f[j] PROVE i = j
  <2>1. Rank(I, i) = Rank(I, j) BY <1>4
  <2>2. Rank(I, i) \in Nat
    <3>1. Rank(I, i) \in 1..Cardinality(I) BY RankBounds
    <3> QED BY <1>1, <3>1
  <2>3. i < j => Rank(I, i) < Rank(I, j) BY RankGrows
  <2>4. j < i => Rank(I, j) < Rank(I, i) BY RankGrows
  <2>5. i \in Nat /\ j \in Nat OBVIOUS
  <2> QED BY <2>1, <2>2, <2>3, <2>4, <2>5
<1>5. f \in Injection(I, T) BY <1>3, <1>4 DEF Injection, IsInjective
<1>6. f \in Surjection(I, T) BY <1>1, <1>2, <1>5, FS_Injection
<1>7. \E i \in I : f[i] = k BY <1>6 DEF Surjection
<1> QED BY <1>7

\* The list of picked items, and where each of them comes from.
LEMMA PickedList ==
    ASSUME NEW S, NEW s \in Seq(S), NEW I \in SUBSET (1..Len(s))
    PROVE  /\ Picked(s, I) \in Seq(S)
           /\ Len(Picked(s, I)) = Cardinality(I)
           /\ \A k \in 1..Cardinality(I) :
                 \E i \in I : Rank(I, i) = k /\ Picked(s, I)[k] = s[i]
           /\ \A i \in I : /\ Rank(I, i) \in 1..Cardinality(I)
                           /\ Picked(s, I)[Rank(I, i)] = s[i]
<1> DEFINE C == Cardinality(I)
           P == Picked(s, I)
           at(k) == CHOOSE i \in I : Rank(I, i) = k
<1>1. C \in Nat /\ Len(s) \in Nat BY PositionsFinite
<1>2. \A k \in 1..C : at(k) \in I /\ Rank(I, at(k)) = k BY <1>1, RankOnto
<1>3. P = [k \in 1..C |-> s[at(k)]] BY DEF Picked
<1> HIDE DEF C, P, at
<1>4. P \in [1..C -> S]
  <2>1. \A k \in 1..C : at(k) \in 1..Len(s) BY <1>2
  <2>2. \A i \in 1..Len(s) : s[i] \in S OBVIOUS
  <2>3. \A k \in 1..C : s[at(k)] \in S BY <2>1, <2>2
  <2> QED BY <1>3, <2>3
<1>5. P \in Seq(S) /\ Len(P) = C BY <1>1, <1>4
<1>6. ASSUME NEW i \in I
      PROVE  Rank(I, i) \in 1..C /\ P[Rank(I, i)] = s[i]
  <2>1. Rank(I, i) \in 1..C BY <1>1, RankBounds DEF C
  <2>2. at(Rank(I, i)) \in I /\ Rank(I, at(Rank(I, i))) = Rank(I, i)
        BY <1>2, <2>1
  <2> DEFINE j == at(Rank(I, i))
  <2> HIDE DEF j
  <2>3. j \in I /\ Rank(I, j) = Rank(I, i) BY <2>2 DEF j
  <2>4. i < j => Rank(I, i) < Rank(I, j) BY <1>1, <2>3, RankGrows
  <2>5. j < i => Rank(I, j) < Rank(I, i) BY <1>1, <2>3, RankGrows
  <2>6. i \in Nat /\ j \in Nat /\ Rank(I, i) \in Nat BY <1>1, <2>1, <2>3
  <2>7. i = j BY <2>3, <2>4, <2>5, <2>6
  <2> QED BY <1>3, <2>1, <2>7 DEF j
<1>7. \A k \in 1..C : \E i \in I : Rank(I, i) = k /\ P[k] = s[i]
      BY <1>2, <1>3
<1> QED BY <1>5, <1>6, <1>7 DEF C, P

\* A list without repetitions has none after items are taken out.
LEMMA PickedDistinct ==
    ASSUME NEW S, NEW s \in Seq(S), NEW I \in SUBSET (1..Len(s)),
           \A i, j \in 1..Len(s) : s[i] = s[j] => i = j
    PROVE  \A k, l \in 1..Cardinality(I) :
              Picked(s, I)[k] = Picked(s, I)[l] => k = l
<1> DEFINE P == Picked(s, I)
<1>1. \A k \in 1..Cardinality(I) : \E i \in I : Rank(I, i) = k /\ P[k] = s[i]
  BY PickedList
<1>2. \A i \in I : i \in 1..Len(s)
  OBVIOUS
<1> HIDE DEF P
<1> SUFFICES ASSUME NEW k \in 1..Cardinality(I), NEW l \in 1..Cardinality(I),
                    P[k] = P[l]
             PROVE  k = l
  BY DEF P
<1>3. PICK i \in I : Rank(I, i) = k /\ P[k] = s[i]
  BY <1>1
<1>4. PICK j \in I : Rank(I, j) = l /\ P[l] = s[j]
  BY <1>1
<1>5. i = j
  BY <1>2, <1>3, <1>4
<1> QED
  BY <1>3, <1>4, <1>5

\* Removed takes out all x, and nothing else.
LEMMA RemovedList ==
    ASSUME NEW S, NEW s \in Seq(S), NEW x
    PROVE  LET r == Removed(s, x)
           IN  /\ r \in Seq(S) /\ Len(r) <= Len(s)
               /\ \A k \in 1..Len(r) : r[k] # x /\ \E i \in 1..Len(s) : s[i] = r[k]
               /\ \A i \in 1..Len(s) : s[i] # x => \E k \in 1..Len(r) : r[k] = s[i]
<1> DEFINE I == {i \in 1..Len(s) : s[i] # x}
<1>1. I \in SUBSET (1..Len(s)) OBVIOUS
<1>2. Len(s) \in Nat OBVIOUS
<1>3. Cardinality(I) \in Nat /\ Cardinality(I) <= Len(s)
      BY <1>1, <1>2, PositionsFinite
<1>4. Removed(s, x) = Picked(s, I) BY DEF Removed
<1>5. \A i \in I : s[i] # x /\ i \in 1..Len(s) OBVIOUS
<1>6. \A i \in 1..Len(s) : s[i] # x => i \in I OBVIOUS
<1> HIDE DEF I
<1> DEFINE r == Picked(s, I)
<1>7. /\ r \in Seq(S) /\ Len(r) = Cardinality(I)
      /\ \A k \in 1..Cardinality(I) : \E i \in I : r[k] = s[i]
      /\ \A i \in I : \E k \in 1..Cardinality(I) : r[k] = s[i]
      BY <1>1, PickedList
<1> HIDE DEF r
<1>8. \A k \in 1..Len(r) : r[k] # x /\ \E i \in 1..Len(s) : s[i] = r[k]
      BY <1>5, <1>7
<1>9. \A i \in 1..Len(s) : s[i] # x => \E k \in 1..Len(r) : r[k] = s[i]
      BY <1>6, <1>7
<1>10. Len(r) <= Len(s) BY <1>3, <1>7
<1> QED BY <1>4, <1>7, <1>8, <1>9, <1>10 DEF r

\* It leaves the items distinct.
LEMMA RemovedDistinct ==
    ASSUME NEW S, NEW s \in Seq(S), NEW x,
           \A i, j \in 1..Len(s) : s[i] = s[j] => i = j
    PROVE  \A k, l \in 1..Len(Removed(s, x)) :
              Removed(s, x)[k] = Removed(s, x)[l] => k = l
<1> DEFINE I == {i \in 1..Len(s) : s[i] # x}
<1>1. I \in SUBSET (1..Len(s)) OBVIOUS
<1> QED BY <1>1, PickedList, PickedDistinct DEF Removed

-----------------------------------------------------------------------------
(* Counting. *)

Spots(s, T) == {i \in 1..Len(s) : s[i] \in T}

LEMMA CountType ==
    ASSUME NEW S, NEW s \in Seq(S), NEW T
    PROVE  /\ IsFiniteSet(Spots(s, T)) /\ Count(s, T) = Cardinality(Spots(s, T))
           /\ Count(s, T) \in Nat
<1>1. Spots(s, T) \in SUBSET (1..Len(s)) /\ Len(s) \in Nat BY DEF Spots
<1>2. Count(s, T) = Cardinality(Spots(s, T)) BY DEF Count, Spots
<1> QED BY <1>1, <1>2, PositionsFinite

\* What stands in a list is counted.
LEMMA CountSeen ==
    ASSUME NEW S, NEW s \in Seq(S), NEW T, NEW i \in 1..Len(s), s[i] \in T
    PROVE  Count(s, T) > 0
<1>1. i \in Spots(s, T) BY DEF Spots
<1>2. Spots(s, T) # {} BY <1>1
<1>3. Cardinality(Spots(s, T)) # 0 BY <1>2, CountType, FS_EmptySet
<1> QED BY <1>3, CountType

LEMMA CountEmpty == \A T : Count(<< >>, T) = 0
<1>1. \A T : Spots(<< >>, T) = {} BY DEF Spots
<1> QED BY <1>1, FS_EmptySet DEF Count, Spots

\* The counts of two lists, one after the other, add up.
LEMMA CountAdd ==
    ASSUME NEW S, NEW s \in Seq(S), NEW t \in Seq(S), NEW T
    PROVE  Count(s \o t, T) = Count(s, T) + Count(t, T)
<1> DEFINE n == Len(s)
           far == {i \in (n + 1)..(n + Len(t)) : t[i - n] \in T}
           shift == [i \in Spots(t, T) |-> i + n]
<1>1. n \in Nat /\ Len(t) \in Nat OBVIOUS
<1>2. s \o t \in Seq(S) /\ Len(s \o t) = n + Len(t) OBVIOUS
<1>3. \A i \in 1..(n + Len(t)) : (s \o t)[i] = IF i <= n THEN s[i] ELSE t[i - n]
      BY ConcatProperties
<1>4. Spots(s \o t, T) = Spots(s, T) \cup far
  <2>1. ASSUME NEW i \in 1..(n + Len(t))
        PROVE  i \in Spots(s \o t, T) <=> i \in Spots(s, T) \cup far
    <3>1. CASE i <= n BY <1>1, <1>2, <1>3, <3>1 DEF Spots
    <3>2. CASE i > n BY <1>1, <1>2, <1>3, <3>2 DEF Spots
    <3> QED BY <3>1, <3>2, <1>1
  <2>2. Spots(s \o t, T) \subseteq 1..(n + Len(t)) BY <1>2 DEF Spots
  <2>3. Spots(s, T) \cup far \subseteq 1..(n + Len(t)) BY <1>1 DEF Spots
  <2> QED BY <2>1, <2>2, <2>3
<1>5. Spots(s, T) \cap far = {} BY <1>1 DEF Spots
<1>6. shift \in Bijection(Spots(t, T), far)
  <2>1. shift \in [Spots(t, T) -> far] BY <1>1 DEF Spots
  <2>2. \A a, b \in Spots(t, T) : shift[a] = shift[b] => a = b
        BY <1>1 DEF Spots
  <2>3. \A j \in far : \E i \in Spots(t, T) : shift[i] = j
    <3>1. TAKE j \in far
    <3>2. j - n \in Spots(t, T) /\ shift[j - n] = j BY <1>1 DEF Spots
    <3> QED BY <3>2
  <2> HIDE DEF shift, far
  <2> QED BY <2>1, <2>2, <2>3, Fun_IsBij
<1>7. IsFiniteSet(far) /\ Cardinality(far) = Cardinality(Spots(t, T))
  <2>1. IsFiniteSet(Spots(t, T)) BY CountType
  <2>2. ExistsBijection(Spots(t, T), far) BY <1>6, Fun_ExistsBij
  <2> HIDE DEF far
  <2> QED BY <2>1, <2>2, FS_Bijection
<1>8. Cardinality(Spots(s, T) \cup far) = Cardinality(Spots(s, T)) + Cardinality(far)
  <2>1. IsFiniteSet(Spots(s, T)) /\ Cardinality(Spots(s, T)) \in Nat BY CountType
  <2>2. Cardinality(far) \in Nat BY <1>7, FS_CardinalityType
  <2> HIDE DEF far
  <2>3. Cardinality(Spots(s, T) \cap far) = 0 BY <1>5, FS_EmptySet
  <2>4. Cardinality(Spots(s, T) \cup far) =
           Cardinality(Spots(s, T)) + Cardinality(far)
              - Cardinality(Spots(s, T) \cap far)
        BY <2>1, <1>7, FS_Union
  <2> QED BY <2>1, <2>2, <2>3, <2>4
<1> QED BY <1>2, <1>4, <1>7, <1>8, CountType

LEMMA CountOne ==
    ASSUME NEW S, NEW x \in S, NEW T
    PROVE  Count(<< x >>, T) = IF x \in T THEN 1 ELSE 0
<1>0. << x >> \in Seq(S) /\ Len(<< x >>) = 1 /\ << x >>[1] = x OBVIOUS
<1>1. CASE x \in T
  <2>1. Spots(<< x >>, T) = {1}
    <3>1. \A i \in 1..1 : i = 1 OBVIOUS
    <3> QED BY <1>0, <1>1, <3>1 DEF Spots
  <2>2. Cardinality({1}) = 1 BY FS_Singleton
  <2>3. Count(<< x >>, T) = Cardinality(Spots(<< x >>, T)) BY DEF Count, Spots
  <2> QED BY <1>1, <2>1, <2>2, <2>3
<1>2. CASE x \notin T
  <2>1. Spots(<< x >>, T) = {} BY <1>0, <1>2 DEF Spots
  <2> QED BY <1>0, <1>2, <2>1, CountType, FS_EmptySet
<1> QED BY <1>1, <1>2

LEMMA CountAppend ==
    ASSUME NEW S, NEW s \in Seq(S), NEW x \in S, NEW T
    PROVE  Count(Append(s, x), T) = Count(s, T) + IF x \in T THEN 1 ELSE 0
<1>1. << x >> \in Seq(S) /\ Append(s, x) = s \o << x >> OBVIOUS
<1>2. Count(s \o << x >>, T) = Count(s, T) + Count(<< x >>, T)
      BY <1>1, CountAdd
<1>3. Count(<< x >>, T) = IF x \in T THEN 1 ELSE 0 BY CountOne
<1> QED BY <1>1, <1>2, <1>3

\* A list cut at u: the counts of the two parts.
LEMMA CountCut ==
    ASSUME NEW S, NEW s \in Seq(S), NEW u \in 0..Len(s), NEW T
    PROVE  /\ SubSeq(s, 1, u) \in Seq(S) /\ SubSeq(s, u + 1, Len(s)) \in Seq(S)
           /\ Count(s, T) = Count(SubSeq(s, 1, u), T)
                            + Count(SubSeq(s, u + 1, Len(s)), T)
<1>1. SubSeq(s, 1, u) \in Seq(S) /\ SubSeq(s, u + 1, Len(s)) \in Seq(S)
  <2>1. \A i \in 1..Len(s) : s[i] \in S OBVIOUS
  <2>2. \A i \in 1..u : i \in 1..Len(s) OBVIOUS
  <2>3. \A i \in (u + 1)..Len(s) : i \in 1..Len(s) OBVIOUS
  <2> QED BY <2>1, <2>2, <2>3, SubSeqProperties
<1>2. s = SubSeq(s, 1, u) \o SubSeq(s, u + 1, Len(s))
  <2>1. SubSeq(s, 1, Len(s)) = s BY SubSeqFull
  <2>2. 1 \in 1..(Len(s) + 1) /\ u \in (1 - 1)..Len(s)
        /\ Len(s) \in u..Len(s) OBVIOUS
  <2> QED BY <2>1, <2>2, ConcatAdjacentSubSeq
<1> DEFINE a == SubSeq(s, 1, u)
           b == SubSeq(s, u + 1, Len(s))
<1>3. a \in Seq(S) /\ b \in Seq(S) /\ s = a \o b BY <1>1, <1>2
<1> HIDE DEF a, b
<1>4. Count(a \o b, T) = Count(a, T) + Count(b, T) BY <1>3, CountAdd
<1>5. Count(s, T) = Count(a, T) + Count(b, T) BY <1>3, <1>4
<1> QED BY <1>1, <1>5 DEF a, b

\* A part counts no less than the positions one knows in it.
LEMMA CountAtLeast ==
    ASSUME NEW S, NEW s \in Seq(S), NEW T, NEW I \in SUBSET Spots(s, T)
    PROVE  Cardinality(I) <= Count(s, T)
<1> QED BY CountType, FS_Subset

LEMMA CountTail ==
    ASSUME NEW S, NEW s \in Seq(S), s # << >>, NEW T
    PROVE  /\ Tail(s) \in Seq(S) /\ Len(Tail(s)) = Len(s) - 1
           /\ Count(s, T) = Count(Tail(s), T) + IF Head(s) \in T THEN 1 ELSE 0
<1>1. /\ Tail(s) \in Seq(S) /\ Len(Tail(s)) = Len(s) - 1
      /\ Head(s) \in S BY HeadTailProperties
<1>2. << Head(s) >> \in Seq(S) /\ s = << Head(s) >> \o Tail(s)
  <2>1. << Head(s) >> \in Seq(S) /\ Len(<< Head(s) >>) = 1 BY <1>1
  <2> DEFINE t == << Head(s) >> \o Tail(s)
  <2>2. t \in Seq(S) /\ Len(t) = Len(s) BY <1>1, <2>1, ConcatProperties
  <2>3. \A i \in 1..Len(s) : s[i] = t[i]
    <3>1. ASSUME NEW i \in 1..Len(s) PROVE s[i] = t[i]
      <4>1. CASE i = 1
        <5>1. t[1] = Head(s) /\ Head(s) = s[1] BY <1>1, <2>1, ConcatProperties
        <5> QED BY <4>1, <5>1
      <4>2. CASE i # 1
        <5>1. t[i] = Tail(s)[i - 1] BY <1>1, <2>1, <4>2, ConcatProperties
        <5>2. i - 1 \in 1..Len(Tail(s)) BY <1>1, <4>2
        <5>3. Tail(s)[i - 1] = s[(i - 1) + 1] BY <5>2, HeadTailProperties
        <5> QED BY <5>1, <5>3
      <4> QED BY <4>1, <4>2
    <3> QED BY <3>1
  <2> HIDE DEF t
  <2>4. s = t BY <2>2, <2>3, SeqEqual
  <2> QED BY <2>1, <2>4 DEF t
<1> DEFINE a == << Head(s) >>
           b == Tail(s)
<1>a. a \in Seq(S) /\ b \in Seq(S) /\ s = a \o b BY <1>1, <1>2
<1> HIDE DEF a, b
<1>b. Count(a \o b, T) = Count(a, T) + Count(b, T) BY <1>a, CountAdd
<1>c. Count(s, T) = Count(a, T) + Count(b, T) BY <1>a, <1>b
<1>3. Count(s, T) = Count(<< Head(s) >>, T) + Count(Tail(s), T)
      BY <1>c DEF a, b
<1>4. Count(Tail(s), T) \in Nat BY <1>1, CountType
<1> QED BY <1>1, <1>3, <1>4, CountOne

-----------------------------------------------------------------------------
(* Induction and loops. *)

\* A set of numbers with 0 and, below n, with the successor of each has all
\* numbers up to n: of those that it lacks, one would be the least.
LEMMA UpTo ==
    ASSUME NEW n \in Nat, NEW T, 0 \in T,
           \A k \in Nat : k < n /\ k \in T => k + 1 \in T
    PROVE  0..n \subseteq T
<1> DEFINE M == {k \in 0..n : k \notin T}
<1> SUFFICES ASSUME M # {} PROVE FALSE
  OBVIOUS
<1>1. M \subseteq Nat
  OBVIOUS
<1>2. PICK k \in M : \A l \in M : ~(<< l, k >> \in OpToRel(<, Nat))
  <2> HIDE DEF M
  <2> QED
    BY <1>1, NatLessThanWellFounded, WFMin, Zenon
<1>3. k \in 0..n /\ k \notin T /\ k # 0
  OBVIOUS
<1>4. k - 1 \in Nat /\ k - 1 < n /\ k - 1 \in 0..n /\ k - 1 < k /\ (k - 1) + 1 = k
  BY <1>3
<1>5. k - 1 \in M => << k - 1, k >> \in OpToRel(<, Nat)
  BY <1>4, SMT DEF OpToRel
<1>6. k - 1 \in T
  BY <1>2, <1>4, <1>5
<1> QED
  BY <1>3, <1>4, <1>6

\* A loop over the positions 1..n, whose step takes a state and a position: the
\* states it goes through are a function, the one its recursion describes.
IsLoop(f, n, start, step) ==
    f = [i \in 0..n |-> IF i = 0 THEN start ELSE step[<< f[i - 1], i >>]]

LEMMA LoopStates ==
    ASSUME NEW n \in Nat, NEW S, NEW start \in S, NEW step \in [S \X (1..n) -> S]
    PROVE  \E f \in [0..n -> S] : IsLoop(f, n, start, step)
<1> DEFINE Runs(m, f) == /\ f \in [0..m -> S] /\ f[0] = start
                         /\ \A i \in 1..m : f[i] = step[<< f[i - 1], i >>]
           T == {m \in Nat : m <= n => \E r : Runs(m, r)}
<1>1. 0 \in T
  <2> DEFINE g == [i \in 0..0 |-> start]
  <2>1. g \in [0..0 -> S] /\ g[0] = start /\ \A i \in 1..0 : FALSE
    OBVIOUS
  <2>2. Runs(0, g)
    BY <2>1
  <2>3. \E r : Runs(0, r)
    BY <2>2
  <2> HIDE DEF g, Runs
  <2> QED
    BY <2>3
<1>2. ASSUME NEW k \in Nat, k < n, k \in T PROVE k + 1 \in T
  <2>1. \E r : Runs(k, r)
    <3> HIDE DEF Runs
    <3> QED
      BY <1>2
  <2>2. PICK f : Runs(k, f)
    BY <2>1
  <2> DEFINE g == [i \in 0..(k + 1) |-> IF i = k + 1 THEN step[<< f[k], k + 1 >>] ELSE f[i]]
  <2>3. f[k] \in S /\ k + 1 \in 1..n
    BY <1>2, <2>2
  <2>4. step[<< f[k], k + 1 >>] \in S
    BY <2>3
  <2>5. g \in [0..(k + 1) -> S] /\ g[0] = start
    BY <2>2, <2>4
  <2>6. ASSUME NEW i \in 1..(k + 1) PROVE g[i] = step[<< g[i - 1], i >>]
    <3>1. g[i - 1] = f[i - 1]
      OBVIOUS
    <3>2. CASE i = k + 1
      <4>1. g[k + 1] = step[<< f[k], k + 1 >>] /\ i - 1 = k
        BY <3>2
      <4> HIDE DEF g
      <4>2. g[i] = step[<< f[i - 1], i >>]
        BY <3>2, <4>1
      <4> QED
        BY <3>1, <4>2
    <3>3. CASE i # k + 1
      BY <2>2, <3>1, <3>3
    <3> QED
      BY <3>2, <3>3
  <2>7. Runs(k + 1, g)
    BY <2>5, <2>6
  <2>8. \E r : Runs(k + 1, r)
    BY <2>7
  <2> HIDE DEF g, Runs
  <2> QED
    BY <2>8
<1>3. \E r : Runs(n, r)
  <2> HIDE DEF T
  <2>1. 0..n \subseteq T
    BY <1>1, <1>2, UpTo
  <2>2. n \in T
    BY <2>1
  <2> HIDE DEF Runs
  <2> QED
    BY <2>2 DEF T
<1>4. PICK f : Runs(n, f)
  BY <1>3
<1>5. \A i \in 0..n : f[i] = IF i = 0 THEN start ELSE step[<< f[i - 1], i >>]
  BY <1>4
<1>6. f \in [0..n -> S] /\ IsLoop(f, n, start, step)
  BY <1>4, <1>5 DEF IsLoop
<1> QED
  BY <1>6

\* A list of which all is picked is the list itself.
LEMMA PickedAll ==
    ASSUME NEW S, NEW s \in Seq(S)
    PROVE  Picked(s, 1..Len(s)) = s
<1> DEFINE n == Len(s)
<1>1. n \in Nat
  OBVIOUS
<1> HIDE DEF n
<1>a. \A m \in Nat : Cardinality(1..m) = m
  BY FS_Interval
<1>2. \A k \in 1..n : Rank(1..n, k) = k
  <2>1. TAKE k \in 1..n
  <2>2. {j \in 1..n : j <= k} = 1..k
    BY <1>1
  <2>3. k \in Nat /\ Cardinality(1..k) = k
    BY <1>1, <1>a
  <2> QED
    BY <2>2, <2>3 DEF Rank
<1>3. Cardinality(1..n) = n
  BY <1>1, <1>a
<1> DEFINE P == Picked(s, 1..n)
<1>4. P \in Seq(S) /\ Len(P) = n /\ \A k \in 1..n : P[Rank(1..n, k)] = s[k]
  BY <1>1, <1>3, PickedList DEF n
<1> HIDE DEF P
<1>5. \A k \in 1..n : P[k] = s[k]
  BY <1>2, <1>4
<1>6. P = s
  BY <1>4, <1>5, SeqEqual DEF n
<1> QED
  BY <1>6 DEF P, n

=============================================================================
