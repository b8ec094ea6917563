------------------------------ MODULE ListProofs ------------------------------
(***************************************************************************)
(* Lemmas on the lists and dicts the modules are built from: slices and    *)
(* deques with a maxlen, sorts, comprehensions with a condition, and the   *)
(* dict of active faults in insertion order.                               *)
(***************************************************************************)
EXTENDS StableSort, FaultRegistry, SequenceTheorems, FiniteSetTheorems, FunctionTheorems, TLAPS

------------------------------------------------------------------------------
(* LastOf, what a deque with a maxlen retains.                             *)

\* A deque with room retains the whole sequence.
LEMMA LastOfShort ==
  ASSUME NEW S, NEW s \in Seq(S), NEW n \in Nat, Len(s) <= n
  PROVE  LastOf(n, s) = s
<1>1. Len(s) \in Nat
  BY LenProperties
<1>2. LastOf(n, s) = SubSeq(s, 1, Len(s))
  <2>1. ~(n < Len(s))
    BY <1>1
  <2> QED BY <2>1, Zenon DEF LastOf
<1> QED BY <1>2, SubSeqFull

\* A full one retains the last n elements, in their order.
LEMMA LastOfLong ==
  ASSUME NEW S, NEW s \in Seq(S), NEW n \in Nat, n > 0, n <= Len(s)
  PROVE  /\ LastOf(n, s) \in Seq(S)
         /\ Len(LastOf(n, s)) = n
         /\ \A i \in 1..n : LastOf(n, s)[i] = s[Len(s) - n + i]
<1> DEFINE first == Len(s) - n + 1
<1>1. Len(s) \in Nat /\ \A i \in 1..Len(s) : s[i] \in S
  BY LenProperties, ElementOfSeq
<1>2. first \in Int /\ first >= 1 /\ first <= Len(s) /\ Len(s) - first + 1 = n
  BY <1>1
<1>3. LastOf(n, s) = SubSeq(s, first, Len(s))
  <2>1. CASE n < Len(s)
    BY <2>1 DEF LastOf
  <2>2. CASE n = Len(s)
    BY <1>1, <2>2 DEF LastOf
  <2> QED BY <1>1, <2>1, <2>2
<1>4. \A i \in 1..n : first + i - 1 = Len(s) - n + i
  BY <1>1
<1>5. \A i \in first..Len(s) : s[i] \in S
  BY <1>1, <1>2
<1> HIDE DEF first
<1>6. /\ SubSeq(s, first, Len(s)) \in Seq(S)
      /\ Len(SubSeq(s, first, Len(s))) = n
      /\ \A i \in 1..n : SubSeq(s, first, Len(s))[i] = s[first + i - 1]
  BY <1>1, <1>2, <1>5, SubSeqProperties
<1> QED BY <1>3, <1>4, <1>6

\* Either way it is a sequence of at most n of the elements.
LEMMA LastOfType ==
  ASSUME NEW S, NEW s \in Seq(S), NEW n \in Nat, n > 0
  PROVE  LastOf(n, s) \in Seq(S) /\ Len(LastOf(n, s)) <= n
<1>1. Len(s) \in Nat
  BY LenProperties
<1>2. CASE Len(s) <= n
  BY <1>2, LastOfShort
<1>3. CASE n <= Len(s)
  BY <1>3, LastOfLong
<1> QED BY <1>1, <1>2, <1>3

\* Dropping what a full deque drops, batch after batch, retains the same as
\* keeping everything and dropping at the end.
LEMMA LastOfConcat ==
  ASSUME NEW S, NEW s \in Seq(S), NEW t \in Seq(S), NEW n \in Nat, n > 0
  PROVE  LastOf(n, LastOf(n, s) \o t) = LastOf(n, s \o t)
<1>1. Len(s) \in Nat /\ Len(t) \in Nat
  BY LenProperties
<1>2. CASE Len(s) <= n
  BY <1>2, LastOfShort
<1>3. CASE n <= Len(s)
  <2> DEFINE kept  == LastOf(n, s)
             some  == kept \o t
             all   == s \o t
             left  == LastOf(n, some)
             right == LastOf(n, all)
  <2>1. kept \in Seq(S) /\ Len(kept) = n /\ \A i \in 1..n : kept[i] = s[Len(s) - n + i]
    BY <1>3, LastOfLong
  <2> HIDE DEF kept
  <2>2. /\ some \in Seq(S) /\ Len(some) = n + Len(t)
        /\ \A i \in 1..(n + Len(t)) :
             some[i] = IF i <= n THEN kept[i] ELSE t[i - n]
    BY <2>1, ConcatProperties
  <2>3. /\ all \in Seq(S) /\ Len(all) = Len(s) + Len(t)
        /\ \A i \in 1..(Len(s) + Len(t)) :
             all[i] = IF i <= Len(s) THEN s[i] ELSE t[i - Len(s)]
    BY ConcatProperties
  <2> HIDE DEF some, all
  <2>4. /\ left \in Seq(S) /\ Len(left) = n
        /\ \A i \in 1..n : left[i] = some[Len(some) - n + i]
    <3>1. n <= Len(some)
      BY <1>1, <2>2
    <3>2. some \in Seq(S)
      BY <2>2
    <3> HIDE DEF left, right
    <3>3. /\ LastOf(n, some) \in Seq(S) /\ Len(LastOf(n, some)) = n
          /\ \A i \in 1..n : LastOf(n, some)[i] = some[Len(some) - n + i]
      BY <3>1, <3>2, LastOfLong
    <3> QED BY <3>3 DEF left
  <2>5. /\ right \in Seq(S) /\ Len(right) = n
        /\ \A i \in 1..n : right[i] = all[Len(all) - n + i]
    <3>1. n <= Len(all)
      BY <1>1, <1>3, <2>3
    <3> QED BY <2>3, <3>1, LastOfLong
  <2> HIDE DEF left, right
  <2>6. ASSUME NEW i \in 1..n PROVE left[i] = right[i]
    <3>1. left[i] = some[Len(t) + i]
      <4>1. Len(some) - n + i = Len(t) + i
        BY <1>1, <2>2
      <4> QED BY <2>4, <4>1
    <3>2. right[i] = all[Len(s) + Len(t) - n + i]
      BY <2>3, <2>5
    <3>3. Len(t) + i \in 1..(n + Len(t)) /\ Len(s) + Len(t) - n + i \in 1..(Len(s) + Len(t))
      BY <1>1, <1>3
    <3>4. CASE Len(t) + i <= n
      <4>1. left[i] = s[Len(s) - n + (Len(t) + i)]
        BY <1>1, <2>1, <2>2, <3>1, <3>3, <3>4
      <4>2. Len(s) + Len(t) - n + i <= Len(s)
        BY <1>1, <3>4
      <4>3. right[i] = s[Len(s) + Len(t) - n + i]
        BY <2>3, <3>2, <3>3, <4>2
      <4> QED BY <1>1, <4>1, <4>3
    <3>5. CASE ~(Len(t) + i <= n)
      <4>1. left[i] = t[Len(t) + i - n]
        BY <2>2, <3>1, <3>3, <3>5
      <4>2. ~(Len(s) + Len(t) - n + i <= Len(s))
        BY <1>1, <3>5
      <4>3. right[i] = t[Len(s) + Len(t) - n + i - Len(s)]
        BY <2>3, <3>2, <3>3, <4>2
      <4> QED BY <1>1, <4>1, <4>3
    <3> QED BY <3>4, <3>5
  <2>7. left = right
    BY <2>4, <2>5, <2>6, SeqEqual
  <2> QED BY <2>7 DEF left, right, some, all, kept
<1> QED BY <1>1, <1>2, <1>3

------------------------------------------------------------------------------
(* Kept.  An element's place in the result is its rank; ranks of different *)
(* places differ, and there are as many ranks as places, so that every one *)
(* is taken.                                                               *)

LEMMA KeptPlaceType ==
  ASSUME NEW n \in Nat, NEW places \in SUBSET (1..n)
  PROVE  /\ IsFiniteSet(places) /\ Cardinality(places) \in Nat
         /\ \A i \in places : KeptPlace(places, i) \in 1..Cardinality(places)
<1>1. IsFiniteSet(places)
  <2>1. IsFiniteSet(1..n)
    BY FS_Interval
  <2> QED BY <2>1, FS_Subset
<1>2. Cardinality(places) \in Nat
  BY <1>1, FS_CardinalityType
<1>3. ASSUME NEW i \in places PROVE KeptPlace(places, i) \in 1..Cardinality(places)
  <2> DEFINE upTo == {j \in places : j <= i}
  <2>1. IsFiniteSet(upTo) /\ Cardinality(upTo) <= Cardinality(places)
    BY <1>1, FS_Subset
  <2>2. Cardinality(upTo) \in Nat
    BY <2>1, FS_CardinalityType
  <2>3. upTo # {}
    <3>1. i \in upTo
      OBVIOUS
    <3> QED BY <3>1
  <2>4. Cardinality(upTo) # 0
    BY <2>1, <2>3, FS_EmptySet
  <2> QED BY <1>2, <2>1, <2>2, <2>4 DEF KeptPlace
<1> QED BY <1>1, <1>2, <1>3

LEMMA KeptPlaceIncreases ==
  ASSUME NEW n \in Nat, NEW places \in SUBSET (1..n), NEW i \in places, NEW j \in places, i < j
  PROVE  KeptPlace(places, i) # KeptPlace(places, j)
<1> DEFINE upToI == {x \in places : x <= i}
           upToJ == {x \in places : x <= j}
<1>1. IsFiniteSet(places)
  BY KeptPlaceType
<1>2. IsFiniteSet(upToJ)
  BY <1>1, FS_Subset
<1>3. upToI \in SUBSET upToJ
  <2>1. ASSUME NEW x \in upToI PROVE x \in upToJ
    <3>1. x \in Int /\ i \in Int /\ j \in Int
      OBVIOUS
    <3> QED BY <3>1
  <2> QED BY <2>1
<1>4. j \in upToJ /\ j \notin upToI
  OBVIOUS
<1>5. Cardinality(upToJ) # Cardinality(upToI)
  BY <1>2, <1>3, <1>4, FS_Subset
<1> QED BY <1>5 DEF KeptPlace

\* Every element of the result is one of the kept, no two are from one place, and
\* every place kept is in the result.
LEMMA KeptShape ==
  ASSUME NEW T, NEW s \in Seq(T), NEW places \in SUBSET (DOMAIN s)
  PROVE  /\ Kept(s, places) \in Seq(T)
         /\ Len(Kept(s, places)) = Cardinality(places)
         /\ \E f \in [DOMAIN Kept(s, places) -> places] :
              /\ \A k \in DOMAIN Kept(s, places) : Kept(s, places)[k] = s[f[k]]
              /\ \A k, l \in DOMAIN Kept(s, places) : k # l => f[k] # f[l]
              /\ \A i \in places : \E k \in DOMAIN Kept(s, places) : f[k] = i
<1> DEFINE m == Cardinality(places)
           rank == [i \in places |-> KeptPlace(places, i)]
           f == [k \in 1..m |-> CHOOSE i \in places : KeptPlace(places, i) = k]
<1>0. places \in SUBSET (1..Len(s)) /\ Len(s) \in Nat
  OBVIOUS
<1>1. IsFiniteSet(places) /\ m \in Nat /\ rank \in [places -> 1..m]
  BY <1>0, KeptPlaceType
<1>2. ASSUME NEW i \in places, NEW j \in places, rank[i] = rank[j] PROVE i = j
  <2>1. i \in Int /\ j \in Int
    BY <1>0
  <2>2. KeptPlace(places, i) = KeptPlace(places, j)
    BY <1>2
  <2>3. ~(i < j)
    BY <1>0, <2>2, KeptPlaceIncreases
  <2>4. ~(j < i)
    BY <1>0, <2>2, KeptPlaceIncreases
  <2> QED BY <2>1, <2>3, <2>4
<1>3. rank \in Injection(places, 1..m)
  BY <1>1, <1>2, Fun_IsInj
<1>4. IsFiniteSet(1..m) /\ Cardinality(1..m) = m
  BY <1>1, FS_Interval
<1>5. rank \in Surjection(places, 1..m)
  BY <1>1, <1>3, <1>4, FS_Injection
<1>6. \A k \in 1..m : \E i \in places : KeptPlace(places, i) = k
  <2>1. \A k \in 1..m : \E i \in places : rank[i] = k
    <3> HIDE DEF rank, m
    <3> QED BY <1>5, Fun_SurjectionProperties
  <2> QED BY <2>1
<1>7. \A k \in 1..m : f[k] \in places /\ KeptPlace(places, f[k]) = k
  BY <1>6
<1>8. f \in [1..m -> places]
  BY <1>7
<1>9. \A i \in places : f[KeptPlace(places, i)] = i
  BY <1>1, <1>2, <1>7
<1>10. Kept(s, places) = [k \in 1..m |-> s[f[k]]]
  BY DEF Kept
<1>11. \A k \in 1..m : s[f[k]] \in T
  BY <1>0, <1>7
<1>12. Kept(s, places) \in Seq(T) /\ Len(Kept(s, places)) = m /\ DOMAIN Kept(s, places) = 1..m
  <2> DEFINE t == [k \in 1..m |-> s[f[k]]]
  <2>1. t \in [1..m -> T]
    BY <1>11
  <2> HIDE DEF t
  <2>2. t \in Seq(T) /\ Len(t) = m /\ DOMAIN t = 1..m
    BY <1>1, <2>1
  <2> QED BY <1>10, <2>2 DEF t
<1> HIDE DEF f
<1>13. \A k \in 1..m : Kept(s, places)[k] = s[f[k]]
  BY <1>10
<1>14. \A k, l \in 1..m : k # l => f[k] # f[l]
  BY <1>7
<1>15. \A i \in places : \E k \in 1..m : f[k] = i
  BY <1>1, <1>9
<1>16. /\ f \in [DOMAIN Kept(s, places) -> places]
       /\ \A k \in DOMAIN Kept(s, places) : Kept(s, places)[k] = s[f[k]]
       /\ \A k, l \in DOMAIN Kept(s, places) : k # l => f[k] # f[l]
       /\ \A i \in places : \E k \in DOMAIN Kept(s, places) : f[k] = i
  BY <1>8, <1>12, <1>13, <1>14, <1>15
<1> QED BY <1>12, <1>16

------------------------------------------------------------------------------
(* Sorts.  In a strict total order each element has a place of its own,    *)
(* there are as many places as elements, and so every place is taken.      *)

StrictOrder(S, R) ==
  /\ \A x \in S : <<x, x>> \notin R
  /\ \A x, y \in S : x # y => <<x, y>> \in R \/ <<y, x>> \in R
  /\ \A x, y, z \in S : <<x, y>> \in R /\ <<y, z>> \in R => <<x, z>> \in R

Rank(S, R, x) == 1 + Cardinality({y \in S : <<y, x>> \in R})

LEMMA FunctionIsSeq ==
  ASSUME NEW n \in Nat, NEW S, NEW t \in [1..n -> S]
  PROVE  t \in Seq(S) /\ Len(t) = n /\ DOMAIN t = 1..n
  OBVIOUS

LEMMA RankType ==
  ASSUME NEW S, IsFiniteSet(S), NEW R, StrictOrder(S, R)
  PROVE  /\ Cardinality(S) \in Nat
         /\ \A x \in S : Rank(S, R, x) \in 1..Cardinality(S)
<1>1. Cardinality(S) \in Nat
  BY FS_CardinalityType
<1>2. ASSUME NEW x \in S PROVE Rank(S, R, x) \in 1..Cardinality(S)
  <2> DEFINE before == {y \in S : <<y, x>> \in R}
  <2>1. before \in SUBSET S /\ x \notin before
    BY DEF StrictOrder
  <2> HIDE DEF before
  <2>2. IsFiniteSet(before) /\ Cardinality(before) < Cardinality(S)
    <3>1. before # S
      BY <2>1
    <3> QED BY <2>1, <3>1, FS_Subset, FS_CardinalityType
  <2>3. Cardinality(before) \in Nat
    BY <2>2, FS_CardinalityType
  <2> QED BY <1>1, <2>2, <2>3 DEF Rank, before
<1> QED BY <1>1, <1>2

LEMMA RankRises ==
  ASSUME NEW S, IsFiniteSet(S), NEW R, StrictOrder(S, R), NEW x \in S, NEW y \in S, <<x, y>> \in R
  PROVE  Rank(S, R, x) < Rank(S, R, y)
<1> DEFINE beforeX == {z \in S : <<z, x>> \in R}
           beforeY == {z \in S : <<z, y>> \in R}
<1>1. beforeX \in SUBSET beforeY
  BY DEF StrictOrder
<1>2. x \in beforeY /\ x \notin beforeX
  BY DEF StrictOrder
<1>3. IsFiniteSet(beforeY)
  BY FS_Subset
<1>4. IsFiniteSet(beforeX) /\ Cardinality(beforeX) < Cardinality(beforeY)
  <2> HIDE DEF beforeX, beforeY
  <2>1. beforeX # beforeY
    BY <1>2
  <2> QED BY <1>1, <1>3, <2>1, FS_Subset, FS_CardinalityType
<1>5. Cardinality(beforeX) \in Nat /\ Cardinality(beforeY) \in Nat
  BY <1>3, <1>4, FS_CardinalityType
<1> QED BY <1>4, <1>5 DEF Rank

LEMMA RankShape ==
  ASSUME NEW S, IsFiniteSet(S), NEW R, StrictOrder(S, R)
  PROVE  /\ \A x, y \in S : Rank(S, R, x) < Rank(S, R, y) <=> <<x, y>> \in R
         /\ \A x, y \in S : Rank(S, R, x) = Rank(S, R, y) => x = y
         /\ \A k \in 1..Cardinality(S) : \E x \in S : Rank(S, R, x) = k
<1> DEFINE m == Cardinality(S)
           rank == [x \in S |-> Rank(S, R, x)]
<1>1. m \in Nat /\ \A x \in S : Rank(S, R, x) \in 1..m
  BY RankType
<1>2. \A x, y \in S : <<x, y>> \in R => Rank(S, R, x) < Rank(S, R, y)
  BY RankRises
<1>3. ASSUME NEW x \in S, NEW y \in S, Rank(S, R, x) < Rank(S, R, y) PROVE <<x, y>> \in R
  <2>1. Rank(S, R, x) \in Int /\ Rank(S, R, y) \in Int
    BY <1>1
  <2>2. x # y /\ ~(Rank(S, R, y) < Rank(S, R, x))
    BY <1>3, <2>1
  <2> QED BY <1>2, <2>2 DEF StrictOrder
<1>4. ASSUME NEW x \in S, NEW y \in S, Rank(S, R, x) = Rank(S, R, y) PROVE x = y
  <2>1. Rank(S, R, x) \in Int /\ Rank(S, R, y) \in Int
    BY <1>1
  <2>2. ~(Rank(S, R, x) < Rank(S, R, y)) /\ ~(Rank(S, R, y) < Rank(S, R, x))
    BY <1>4, <2>1
  <2> QED BY <1>2, <2>2 DEF StrictOrder
<1>5. rank \in [S -> 1..m] /\ \A x, y \in S : rank[x] = rank[y] => x = y
  BY <1>1, <1>4
<1>6. rank \in Injection(S, 1..m)
  <2> HIDE DEF rank, m
  <2> QED BY <1>5, Fun_IsInj
<1>7. IsFiniteSet(1..m) /\ Cardinality(1..m) = m
  BY <1>1, FS_Interval
<1>8. rank \in Surjection(S, 1..m)
  <2> HIDE DEF rank
  <2> QED BY <1>6, <1>7, FS_Injection
<1>9. \A k \in 1..m : \E x \in S : rank[x] = k
  <2> HIDE DEF rank, m
  <2> QED BY <1>8, Fun_SurjectionProperties
<1> QED BY <1>2, <1>3, <1>4, <1>9

\* The list of a set's elements, each at its place; and what is first of it.
IsSort(t, S, R) ==
  t \in [1..Cardinality(S) -> S] /\ \A k \in 1..Cardinality(S) : Rank(S, R, t[k]) = k

Leads(top, S, R, n) ==
  /\ top \in Seq(S)
  /\ Len(top) = IF Cardinality(S) < n THEN Cardinality(S) ELSE n
  /\ \A k, l \in DOMAIN top : k < l => <<top[k], top[l]>> \in R
  /\ \A k \in DOMAIN top : \A x \in S :
       (\A l \in DOMAIN top : top[l] # x) => <<top[k], x>> \in R

LEMMA SortedShape ==
  ASSUME NEW S, IsFiniteSet(S), NEW R, StrictOrder(S, R),
         NEW t, IsSort(t, S, R)
  PROVE  /\ t \in Seq(S) /\ Len(t) = Cardinality(S) /\ Cardinality(S) \in Nat
         /\ DOMAIN t = 1..Cardinality(S)
         /\ \A k, l \in DOMAIN t : k < l <=> <<t[k], t[l]>> \in R
         /\ \A x \in S : \E k \in DOMAIN t : t[k] = x
<1> DEFINE m == Cardinality(S)
<1>1. m \in Nat /\ \A x \in S : Rank(S, R, x) \in 1..m
  BY RankType
<1>2. \A k \in 1..m : t[k] \in S /\ Rank(S, R, t[k]) = k
  BY DEF IsSort
<1>3. t \in Seq(S) /\ Len(t) = m /\ DOMAIN t = 1..m
  <2> HIDE DEF m
  <2>1. t \in [1..m -> S]
    BY DEF m, IsSort
  <2> QED BY <1>1, <2>1, Zenon, FunctionIsSeq
<1>4. ASSUME NEW k \in DOMAIN t, NEW l \in DOMAIN t PROVE k < l <=> <<t[k], t[l]>> \in R
  <2>1. t[k] \in S /\ t[l] \in S /\ Rank(S, R, t[k]) = k /\ Rank(S, R, t[l]) = l
    BY <1>2, <1>3
  <2>2. Rank(S, R, t[k]) < Rank(S, R, t[l]) <=> <<t[k], t[l]>> \in R
    BY <2>1, RankShape
  <2> QED BY <2>1, <2>2
<1>5. ASSUME NEW x \in S PROVE \E k \in DOMAIN t : t[k] = x
  <2>1. Rank(S, R, x) \in DOMAIN t
    BY <1>1, <1>3
  <2>2. t[Rank(S, R, x)] \in S /\ Rank(S, R, t[Rank(S, R, x)]) = Rank(S, R, x)
    BY <1>2, <1>3, <2>1
  <2>3. t[Rank(S, R, x)] = x
    BY <2>2, RankShape
  <2> QED BY <2>1, <2>3
<1> QED BY <1>1, <1>3, <1>4, <1>5

\* The first n of a list, or all of a shorter one.
LEMMA FirstOfShape ==
  ASSUME NEW S, NEW s \in Seq(S), NEW n \in Nat
  PROVE  /\ FirstOf(n, s) \in Seq(S)
         /\ Len(FirstOf(n, s)) = IF Len(s) < n THEN Len(s) ELSE n
         /\ \A k \in DOMAIN FirstOf(n, s) : k \in DOMAIN s /\ FirstOf(n, s)[k] = s[k]
<1> DEFINE last == IF Len(s) < n THEN Len(s) ELSE n
<1>0. Len(s) \in Nat /\ DOMAIN s = 1..Len(s)
  BY LenProperties
<1>1. Len(s) \in Nat /\ DOMAIN s = 1..Len(s) /\ last \in 0..Len(s) /\ last \in Int
  BY <1>0
<1>2. FirstOf(n, s) = SubSeq(s, 1, last)
  BY <1>0 DEF FirstOf
<1> HIDE DEF last
<1>3. last \in Int /\ (IF 1 <= last THEN last - 1 + 1 ELSE 0) = last
  BY <1>1
<1>4. \A i \in 1..last : s[i] \in S
  <2>1. \A i \in 1..last : i \in 1..Len(s)
    BY <1>1
  <2>2. \A i \in 1..Len(s) : s[i] \in S
    BY ElementOfSeq
  <2> QED BY <2>1, <2>2
<1>5. /\ SubSeq(s, 1, last) \in Seq(S) /\ Len(SubSeq(s, 1, last)) = last
      /\ \A i \in 1..(last - 1 + 1) : SubSeq(s, 1, last)[i] = s[1 + i - 1]
  BY <1>3, <1>4, SubSeqProperties
<1>6. \A i \in 1..last : i \in DOMAIN s /\ SubSeq(s, 1, last)[i] = s[i]
  BY <1>1, <1>3, <1>5
<1>7. DOMAIN SubSeq(s, 1, last) = 1..last
  BY <1>5
<1> QED BY <1>2, <1>5, <1>6, <1>7 DEF last

\* The first n of it come before the rest of the set.
LEMMA TopShape ==
  ASSUME NEW S, IsFiniteSet(S), NEW R, StrictOrder(S, R), NEW n \in Nat,
         NEW t, IsSort(t, S, R)
  PROVE  Leads(FirstOf(n, t), S, R, n)
<1> DEFINE m == Cardinality(S)
           top  == FirstOf(n, t)
           last == IF m < n THEN m ELSE n
<1>1. /\ t \in Seq(S) /\ Len(t) = m /\ m \in Nat /\ DOMAIN t = 1..m
      /\ \A k, l \in DOMAIN t : k < l <=> <<t[k], t[l]>> \in R
      /\ \A x \in S : \E k \in DOMAIN t : t[k] = x
  <2>1. /\ t \in Seq(S) /\ Len(t) = Cardinality(S) /\ Cardinality(S) \in Nat
        /\ DOMAIN t = 1..Cardinality(S)
        /\ \A k, l \in DOMAIN t : k < l <=> <<t[k], t[l]>> \in R
        /\ \A x \in S : \E k \in DOMAIN t : t[k] = x
    BY SortedShape
  <2> QED BY <2>1 DEF m
<1> HIDE DEF m, top
<1>2. last \in 0..m
  BY <1>1
<1>3. /\ top \in Seq(S) /\ Len(top) = last /\ DOMAIN top = 1..last
      /\ \A k \in 1..last : top[k] = t[k]
  <2>1. /\ top \in Seq(S) /\ Len(top) = last
        /\ \A k \in DOMAIN top : top[k] = t[k]
    BY <1>1, FirstOfShape DEF top
  <2>2. DOMAIN top = 1..last
    BY <2>1
  <2> QED BY <2>1, <2>2
<1>4. ASSUME NEW k \in DOMAIN top, NEW x \in S, \A l \in DOMAIN top : top[l] # x
      PROVE  <<top[k], x>> \in R
  <2>1. PICK l \in DOMAIN t : t[l] = x
    BY <1>1
  <2>2. l \notin 1..last
    BY <1>3, <1>4, <2>1
  <2>3. k \in DOMAIN t /\ k < l /\ top[k] = t[k]
    BY <1>1, <1>2, <1>3, <2>2
  <2> QED BY <1>1, <2>1, <2>3
<1>5. ASSUME NEW k \in DOMAIN top, NEW l \in DOMAIN top, k < l PROVE <<top[k], top[l]>> \in R
  <2>1. k \in DOMAIN t /\ l \in DOMAIN t /\ top[k] = t[k] /\ top[l] = t[l]
    BY <1>1, <1>2, <1>3
  <2> QED BY <1>1, <1>5, <2>1
<1> QED BY <1>3, <1>4, <1>5 DEF last, m, top, Leads

LEMMA FirstOfFinite ==
  ASSUME NEW S, IsFiniteSet(S), S # {}, NEW R, StrictOrder(S, R)
  PROVE  \E x \in S : \A y \in S : x # y => <<x, y>> \in R
<1>1. Cardinality(S) \in Nat /\ Cardinality(S) # 0
  BY FS_CardinalityType, FS_EmptySet
<1>2. 1 \in 1..Cardinality(S)
  BY <1>1
<1>3. PICK x \in S : Rank(S, R, x) = 1
  BY <1>2, RankShape
<1>4. ASSUME NEW y \in S, x # y PROVE <<x, y>> \in R
  <2>1. Rank(S, R, y) \in 1..Cardinality(S)
    BY RankType
  <2>2. ~(Rank(S, R, y) < Rank(S, R, x))
    BY <1>1, <1>3, <2>1
  <2>3. <<y, x>> \notin R
    BY <2>2, RankShape
  <2> QED BY <1>4, <2>3 DEF StrictOrder
<1> QED BY <1>4

\* A finite set of numbers that is not empty has a least.
LEMMA LeastOfFinite ==
  ASSUME NEW S \in SUBSET Int, IsFiniteSet(S), S # {}
  PROVE  \E x \in S : \A y \in S : x <= y
<1> DEFINE R == {p \in S \X S : p[1] < p[2]}
<1>1. StrictOrder(S, R)
  BY DEF StrictOrder
<1>2. \A x, y \in S : <<x, y>> \in R => x < y
  OBVIOUS
<1> HIDE DEF R
<1>3. PICK x \in S : \A y \in S : x # y => <<x, y>> \in R
  BY <1>1, FirstOfFinite
<1>4. ASSUME NEW y \in S PROVE x <= y
  <2>1. x \in Int /\ y \in Int
    OBVIOUS
  <2>2. CASE x # y
    <3>1. x < y
      BY <1>2, <1>3, <2>2
    <3> QED BY <2>1, <3>1
  <2> QED BY <2>1, <2>2
<1> QED BY <1>4
------------------------------------------------------------------------------
(* The registry's dict: types, and one entry per experiment. *)

Distinct(faults) == \A i, j \in DOMAIN faults : i # j => faults[i].id # faults[j].id

LEMMA KeptFaults ==
  ASSUME NEW T, NEW faults \in Seq(T), NEW places \in SUBSET (DOMAIN faults), Distinct(faults)
  PROVE  Kept(faults, places) \in Seq(T) /\ Distinct(Kept(faults, places))
<1>1. PICK f \in [DOMAIN Kept(faults, places) -> places] :
        /\ \A k \in DOMAIN Kept(faults, places) : Kept(faults, places)[k] = faults[f[k]]
        /\ \A k, l \in DOMAIN Kept(faults, places) : k # l => f[k] # f[l]
  BY KeptShape
<1>2. Kept(faults, places) \in Seq(T)
  BY KeptShape
<1> QED BY <1>1, <1>2 DEF Distinct

LEMMA LiveFaultsType ==
  ASSUME NEW T, NEW faults \in Seq(T), Distinct(faults)
  PROVE  Live(faults) \in Seq(T) /\ Distinct(Live(faults))
  BY KeptFaults DEF Live

LEMMA StoppedType ==
  ASSUME NEW T, NEW faults \in Seq(T), Distinct(faults), NEW id
  PROVE  Stopped(faults, id) \in Seq(T) /\ Distinct(Stopped(faults, id))
  BY KeptFaults DEF Stopped

LEMMA StartedType ==
  ASSUME NEW T, NEW faults \in Seq(T), Distinct(faults), NEW fault \in T
  PROVE  Started(faults, fault) \in Seq(T) /\ Distinct(Started(faults, fault))
<1>1. CASE \E i \in DOMAIN faults : faults[i].id = fault.id
  <2> DEFINE t == [i \in DOMAIN faults |-> IF faults[i].id = fault.id THEN fault ELSE faults[i]]
  <2>1. Started(faults, fault) = t
    BY <1>1 DEF Started
  <2>2. t \in Seq(T)
    OBVIOUS
  <2>3. ASSUME NEW i \in DOMAIN t, NEW j \in DOMAIN t, i # j PROVE t[i].id # t[j].id
    BY <2>3 DEF Distinct
  <2> QED BY <2>1, <2>2, <2>3 DEF Distinct
<1>2. CASE ~\E i \in DOMAIN faults : faults[i].id = fault.id
  <2>1. Started(faults, fault) = Append(faults, fault)
    BY <1>2 DEF Started
  <2> QED BY <1>2, <2>1 DEF Distinct
<1> QED BY <1>1, <1>2

LEMMA AgedType ==
  ASSUME NEW ids, NEW faults \in Seq(FaultRecords(ids))
  PROVE  /\ Aged(faults) \in Seq(FaultRecords(ids))
         /\ DOMAIN Aged(faults) = DOMAIN faults
         /\ \A i \in DOMAIN faults : /\ Aged(faults)[i].id = faults[i].id
                                     /\ Aged(faults)[i].kind = faults[i].kind
<1> DEFINE aged(fault) == [fault EXCEPT !.left = IF @ > 0 THEN @ - 1 ELSE 0]
<1>1. Aged(faults) = [i \in DOMAIN faults |-> aged(faults[i])]
  BY DEF Aged
<1>2. ASSUME NEW fault \in FaultRecords(ids)
      PROVE  aged(fault) \in FaultRecords(ids) /\ aged(fault).id = fault.id /\ aged(fault).kind = fault.kind
  BY DEF FaultRecords
<1>3. \A i \in DOMAIN faults : faults[i] \in FaultRecords(ids)
  OBVIOUS
<1> HIDE DEF aged
<1> QED BY <1>1, <1>2, <1>3


------------------------------------------------------------------------------
(* What of it is alive. *)

LiveOf(faults) == {faults[i] : i \in {j \in DOMAIN faults : IsLive(faults[j])}}

\* What a list keeps it had.
LEMMA KeptElements ==
  ASSUME NEW T, NEW faults \in Seq(T), NEW places \in SUBSET (DOMAIN faults),
         NEW k \in DOMAIN Kept(faults, places)
  PROVE  \E i \in places : Kept(faults, places)[k] = faults[i]
<1>1. PICK f \in [DOMAIN Kept(faults, places) -> places] :
        \A l \in DOMAIN Kept(faults, places) : Kept(faults, places)[l] = faults[f[l]]
  BY KeptShape
<1> QED BY <1>1

\* A live fault of a registry is a fault record with time left.
LEMMA LiveOfType ==
  ASSUME NEW ids, NEW faults \in Seq(FaultRecords(ids))
  PROVE  \A fault \in LiveOf(faults) :
           fault \in FaultRecords(ids) /\ fault.left \in Nat /\ fault.left > 0
<1> SUFFICES ASSUME NEW i \in DOMAIN faults, IsLive(faults[i])
             PROVE  faults[i] \in FaultRecords(ids) /\ faults[i].left \in Nat /\ faults[i].left > 0
  BY DEF LiveOf
<1>1. faults[i] \in FaultRecords(ids)
  OBVIOUS
<1> QED BY <1>1 DEF FaultRecords, IsLive

\* And what it is to keep it keeps.
LEMMA KeptAll ==
  ASSUME NEW T, NEW faults \in Seq(T), NEW places \in SUBSET (DOMAIN faults), NEW i \in places
  PROVE  \E k \in DOMAIN Kept(faults, places) : Kept(faults, places)[k] = faults[i]
<1>1. PICK f \in [DOMAIN Kept(faults, places) -> places] :
        /\ \A k \in DOMAIN Kept(faults, places) : Kept(faults, places)[k] = faults[f[k]]
        /\ \A k, l \in DOMAIN Kept(faults, places) : k # l => f[k] # f[l]
        /\ \A j \in places : \E k \in DOMAIN Kept(faults, places) : f[k] = j
  BY KeptShape
<1> QED BY <1>1

\* What is alive of a list of which some places are kept.
LEMMA LiveOfKept ==
  ASSUME NEW T, NEW faults \in Seq(T), NEW places \in SUBSET (DOMAIN faults)
  PROVE  LiveOf(Kept(faults, places)) = {faults[i] : i \in {j \in places : IsLive(faults[j])}}
<1> DEFINE kept == Kept(faults, places)
<1>1. ASSUME NEW k \in DOMAIN kept, IsLive(kept[k])
      PROVE  kept[k] \in {faults[i] : i \in {j \in places : IsLive(faults[j])}}
  <2>1. PICK i \in places : kept[k] = faults[i]
    BY KeptElements
  <2> QED BY <1>1, <2>1
<1>2. ASSUME NEW i \in places, IsLive(faults[i])
      PROVE  faults[i] \in LiveOf(kept)
  <2>1. PICK k \in DOMAIN kept : kept[k] = faults[i]
    BY KeptAll
  <2> HIDE DEF kept
  <2> QED BY <1>2, <2>1 DEF LiveOf
<1> HIDE DEF kept
<1>3. LiveOf(kept) \subseteq {faults[i] : i \in {j \in places : IsLive(faults[j])}}
  BY <1>1 DEF LiveOf
<1>4. LiveOf(kept) = {faults[i] : i \in {j \in places : IsLive(faults[j])}}
  BY <1>2, <1>3
<1> QED BY <1>4 DEF kept

LEMMA LiveOfLive ==
  ASSUME NEW T, NEW faults \in Seq(T)
  PROVE  LiveOf(Live(faults)) = LiveOf(faults)
<1> DEFINE places == {j \in DOMAIN faults : IsLive(faults[j])}
<1>1. LiveOf(Kept(faults, places)) = {faults[i] : i \in {j \in places : IsLive(faults[j])}}
  <2>1. places \in SUBSET (DOMAIN faults)
    OBVIOUS
  <2> HIDE DEF places
  <2> QED BY <2>1, LiveOfKept
<1>2. Live(faults) = Kept(faults, places)
  BY DEF Live
<1>3. {faults[i] : i \in {j \in places : IsLive(faults[j])}} = LiveOf(faults)
  BY DEF LiveOf
<1> HIDE DEF places
<1> QED BY <1>1, <1>2, <1>3

LEMMA LiveOfStopped ==
  ASSUME NEW T, NEW faults \in Seq(T), NEW id
  PROVE  LiveOf(Stopped(faults, id)) = {fault \in LiveOf(faults) : fault.id # id}
<1> DEFINE places == {j \in DOMAIN faults : faults[j].id # id}
<1>1. LiveOf(Kept(faults, places)) = {faults[i] : i \in {j \in places : IsLive(faults[j])}}
  <2>1. places \in SUBSET (DOMAIN faults)
    OBVIOUS
  <2> HIDE DEF places
  <2> QED BY <2>1, LiveOfKept
<1>2. Stopped(faults, id) = Kept(faults, places)
  BY DEF Stopped
<1>3. {faults[i] : i \in {j \in places : IsLive(faults[j])}} = {fault \in LiveOf(faults) : fault.id # id}
  BY DEF LiveOf
<1> HIDE DEF places
<1> QED BY <1>1, <1>2, <1>3

\* A fault that is started takes the place of the one its experiment had.
LEMMA LiveOfStarted ==
  ASSUME NEW T, NEW faults \in Seq(T), NEW new \in T, IsLive(new)
  PROVE  LiveOf(Started(faults, new)) = {fault \in LiveOf(faults) : fault.id # new.id} \cup {new}
<1>1. CASE \E i \in DOMAIN faults : faults[i].id = new.id
  <2>1. Started(faults, new) =
          [i \in DOMAIN faults |-> IF faults[i].id = new.id THEN new ELSE faults[i]]
    BY <1>1 DEF Started
  <2> QED BY <1>1, <2>1 DEF LiveOf
<1>2. CASE ~\E i \in DOMAIN faults : faults[i].id = new.id
  <2>1. Started(faults, new) = Append(faults, new)
    BY <1>2 DEF Started
  <2>2. /\ \A i \in DOMAIN Append(faults, new) :
             Append(faults, new)[i] = new \/ (i \in DOMAIN faults /\ Append(faults, new)[i] = faults[i])
        /\ \A i \in DOMAIN faults : i \in DOMAIN Append(faults, new) /\ Append(faults, new)[i] = faults[i]
        /\ \E i \in DOMAIN Append(faults, new) : Append(faults, new)[i] = new
    <3>1. /\ Len(faults) + 1 \in DOMAIN Append(faults, new)
          /\ Append(faults, new)[Len(faults) + 1] = new
      OBVIOUS
    <3> QED BY <3>1
  <2> DEFINE longer == Append(faults, new)
  <2> HIDE DEF longer
  <2>3. LiveOf(longer) \subseteq {fault \in LiveOf(faults) : fault.id # new.id} \cup {new}
    BY <1>2, <2>2 DEF LiveOf, longer
  <2>4. {fault \in LiveOf(faults) : fault.id # new.id} \subseteq LiveOf(longer)
    BY <2>2 DEF LiveOf, longer
  <2>5. new \in LiveOf(longer)
    BY <2>2 DEF LiveOf, longer
  <2> QED BY <2>1, <2>3, <2>4, <2>5 DEF longer
<1> QED BY <1>1, <1>2

LEMMA LiveOfAged ==
  ASSUME NEW ids, NEW faults \in Seq(FaultRecords(ids))
  PROVE  \A fault \in LiveOf(Aged(faults)) :
           \E old \in LiveOf(faults) : old.id = fault.id /\ old.left = fault.left + 1
<1> SUFFICES ASSUME NEW i \in DOMAIN Aged(faults), IsLive(Aged(faults)[i])
             PROVE  \E old \in LiveOf(faults) : /\ old.id = Aged(faults)[i].id
                                                /\ old.left = Aged(faults)[i].left + 1
  BY DEF LiveOf
<1> DEFINE new == Aged(faults)[i]
<1>1. i \in DOMAIN faults /\ faults[i] \in FaultRecords(ids)
  BY DEF Aged
<1>2. new = [faults[i] EXCEPT !.left = IF @ > 0 THEN @ - 1 ELSE 0]
  BY <1>1 DEF Aged
<1>3. /\ new.id = faults[i].id
      /\ new.left = IF faults[i].left > 0 THEN faults[i].left - 1 ELSE 0
      /\ faults[i].left \in Nat
  BY <1>1, <1>2 DEF FaultRecords
<1>4. new.left > 0
  BY DEF IsLive
<1>5. faults[i].left = new.left + 1 /\ IsLive(faults[i])
  BY <1>3, <1>4 DEF IsLive
<1>6. faults[i] \in LiveOf(faults)
  BY <1>1, <1>5 DEF LiveOf
<1> QED BY <1>3, <1>5, <1>6

\* What has more than one unit left outlives one.
LEMMA LiveOfAgedKept ==
  ASSUME NEW ids, NEW faults \in Seq(FaultRecords(ids)), NEW old \in LiveOf(faults), old.left > 1
  PROVE  \E fault \in LiveOf(Aged(faults)) : fault.id = old.id /\ fault.left = old.left - 1
<1>1. PICK i \in DOMAIN faults : old = faults[i]
  BY DEF LiveOf
<1> DEFINE new == Aged(faults)[i]
<1>2. i \in DOMAIN Aged(faults) /\ old \in FaultRecords(ids)
  BY <1>1 DEF Aged
<1>3. new = [old EXCEPT !.left = IF @ > 0 THEN @ - 1 ELSE 0]
  BY <1>1 DEF Aged
<1>4. new.id = old.id /\ new.left = old.left - 1 /\ old.left \in Nat
  BY <1>2, <1>3 DEF FaultRecords
<1>5. new \in LiveOf(Aged(faults))
  <2>1. IsLive(new)
    BY <1>4 DEF IsLive
  <2> QED BY <1>2, <2>1 DEF LiveOf
<1> QED BY <1>4, <1>5
===============================================================================
