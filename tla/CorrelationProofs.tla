-------------------------- MODULE CorrelationProofs --------------------------
(***************************************************************************)
(* Lemmas about the operators of module Correlation: what each selects,    *)
(* orders or bounds, for every list of evidence and every time.  The       *)
(* theorems about an analysis (AnalysisProofs) and about the incidents     *)
(* that the service keeps (DiagnosisProofs) cite them.                     *)
(***************************************************************************)
EXTENDS Correlation, EvidenceStore, ListProofs

------------------------------------------------------------------------------
(* Percentiles.  The sample a selection lands on is known by how many      *)
(* samples do not exceed it, and how few do not exceed a smaller one.      *)

\* A finite list of integers, as a function from places.
IsSamples(samples) ==
  /\ DOMAIN samples \in SUBSET Int /\ IsFiniteSet(DOMAIN samples)
  /\ \A i \in DOMAIN samples : samples[i] \in Int

AtMost(samples, v) == Cardinality({i \in DOMAIN samples : samples[i] <= v})

\* The place of the k-th smallest sample, and of the k-th largest.
Smallest(samples, k) ==
  CHOOSE y \in DOMAIN samples : 1 + Cardinality({i \in DOMAIN samples : Rising(samples, i, y)}) = k
LargestAt(samples, k) ==
  CHOOSE y \in DOMAIN samples : 1 + Cardinality({i \in DOMAIN samples : Falling(samples, i, y)}) = k

\* How many samples a sort puts before them.
LEMMA RisingPlace ==
  ASSUME NEW samples, IsSamples(samples), NEW k \in 1..Cardinality(DOMAIN samples), NEW x,
         x = Smallest(samples, k)
  PROVE  /\ x \in DOMAIN samples
         /\ Cardinality({i \in DOMAIN samples : Rising(samples, i, x)}) = k - 1
<1> DEFINE S == DOMAIN samples
           R == {p \in S \X S : Rising(samples, p[1], p[2])}
<1>1. StrictOrder(S, R)
  <2>1. \A y, z \in S : <<y, z>> \in R <=> Rising(samples, y, z)
    OBVIOUS
  <2>2. /\ \A y \in S : ~Rising(samples, y, y)
        /\ \A y, z \in S : y # z => Rising(samples, y, z) \/ Rising(samples, z, y)
        /\ \A u, y, z \in S :
             Rising(samples, u, y) /\ Rising(samples, y, z) => Rising(samples, u, z)
    BY DEF Rising, IsSamples
  <2> HIDE DEF R, S
  <2> QED BY <2>1, <2>2 DEF StrictOrder
<1>2. \A y \in S : {i \in S : <<i, y>> \in R} = {i \in S : Rising(samples, i, y)}
  OBVIOUS
<1>3. IsFiniteSet(S)
  BY DEF IsSamples
<1> HIDE DEF R, S
<1>4. \A j \in 1..Cardinality(S) : \E y \in S : Rank(S, R, y) = j
  BY <1>1, <1>3, RankShape
<1>5. \E y \in S : Rank(S, R, y) = k
  BY <1>4 DEF S
<1>6. \E y \in S : 1 + Cardinality({i \in S : Rising(samples, i, y)}) = k
  BY <1>2, <1>5 DEF Rank
<1>7. x \in S /\ 1 + Cardinality({i \in S : Rising(samples, i, x)}) = k
  BY <1>6 DEF S, Smallest
<1>8. IsFiniteSet({i \in S : Rising(samples, i, x)})
  BY <1>3, FS_Subset
<1>9. Cardinality({i \in S : Rising(samples, i, x)}) \in Nat
  BY <1>8, FS_CardinalityType
<1> QED BY <1>7, <1>9 DEF S

\* The same of a sort with reverse=True, and of nlargest.
LEMMA FallingPlace ==
  ASSUME NEW samples, IsSamples(samples), NEW k \in 1..Cardinality(DOMAIN samples), NEW x,
         x = LargestAt(samples, k)
  PROVE  /\ x \in DOMAIN samples
         /\ Cardinality({i \in DOMAIN samples : Falling(samples, i, x)}) = k - 1
<1> DEFINE S == DOMAIN samples
           R == {p \in S \X S : Falling(samples, p[1], p[2])}
<1>1. StrictOrder(S, R)
  <2>1. \A y, z \in S : <<y, z>> \in R <=> Falling(samples, y, z)
    OBVIOUS
  <2>2. /\ \A y \in S : ~Falling(samples, y, y)
        /\ \A y, z \in S : y # z => Falling(samples, y, z) \/ Falling(samples, z, y)
        /\ \A u, y, z \in S :
             Falling(samples, u, y) /\ Falling(samples, y, z) => Falling(samples, u, z)
    BY DEF Falling, IsSamples
  <2> HIDE DEF R, S
  <2> QED BY <2>1, <2>2 DEF StrictOrder
<1>2. \A y \in S : {i \in S : <<i, y>> \in R} = {i \in S : Falling(samples, i, y)}
  OBVIOUS
<1>3. IsFiniteSet(S)
  BY DEF IsSamples
<1> HIDE DEF R, S
<1>4. \A j \in 1..Cardinality(S) : \E y \in S : Rank(S, R, y) = j
  BY <1>1, <1>3, RankShape
<1>5. \E y \in S : Rank(S, R, y) = k
  BY <1>4 DEF S
<1>6. \E y \in S : 1 + Cardinality({i \in S : Falling(samples, i, y)}) = k
  BY <1>2, <1>5 DEF Rank
<1>7. x \in S /\ 1 + Cardinality({i \in S : Falling(samples, i, x)}) = k
  BY <1>6 DEF S, LargestAt
<1>8. IsFiniteSet({i \in S : Falling(samples, i, x)})
  BY <1>3, FS_Subset
<1>9. Cardinality({i \in S : Falling(samples, i, x)}) \in Nat
  BY <1>8, FS_CardinalityType
<1> QED BY <1>7, <1>9 DEF S

LEMMA AtMostType ==
  ASSUME NEW samples, IsSamples(samples)
  PROVE  /\ Cardinality(DOMAIN samples) \in Nat
         /\ \A v : AtMost(samples, v) \in Nat
<1>1. IsFiniteSet(DOMAIN samples)
  BY DEF IsSamples
<1>2. Cardinality(DOMAIN samples) \in Nat
  BY <1>1, FS_CardinalityType
<1>3. ASSUME NEW v PROVE AtMost(samples, v) \in Nat
  <2>1. IsFiniteSet({i \in DOMAIN samples : samples[i] <= v})
    BY <1>1, FS_Subset
  <2> QED BY <2>1, FS_CardinalityType DEF AtMost
<1> QED BY <1>2, <1>3

\* Of the k-th smallest sample, and of the k-th largest.
LEMMA KthSmallest ==
  ASSUME NEW samples, IsSamples(samples), NEW k \in 1..Cardinality(DOMAIN samples),
         NEW x \in DOMAIN samples,
         Cardinality({i \in DOMAIN samples : Rising(samples, i, x)}) = k - 1
  PROVE  /\ AtMost(samples, samples[x]) >= k
         /\ \A w \in Int : w < samples[x] => AtMost(samples, w) < k
<1> DEFINE S == DOMAIN samples
           before == {i \in S : Rising(samples, i, x)}
           upTo(v) == {i \in S : samples[i] <= v}
<1>1. IsFiniteSet(S)
  BY DEF IsSamples
<1>2. Cardinality(S) \in Nat /\ k \in Int
  BY <1>1, FS_CardinalityType
<1>3. IsFiniteSet(before) /\ x \notin before
  BY <1>1, FS_Subset DEF Rising, IsSamples
<1>4. Cardinality(before \cup {x}) = k
  <2> HIDE DEF before
  <2>1. Cardinality(before \cup {x}) = Cardinality(before) + 1
    BY <1>3, FS_AddElement
  <2> QED BY <1>2, <2>1 DEF before
<1>5. before \cup {x} \in SUBSET upTo(samples[x])
  BY DEF Rising, IsSamples
<1>6. \A v : IsFiniteSet(upTo(v)) /\ Cardinality(upTo(v)) \in Nat
  <2>1. \A v : upTo(v) \in SUBSET S
    OBVIOUS
  <2>2. \A v : IsFiniteSet(upTo(v))
    BY <1>1, <2>1, FS_Subset
  <2> HIDE DEF upTo
  <2> QED BY <2>2, FS_CardinalityType
<1>7. Cardinality(upTo(samples[x])) >= k
  <2> HIDE DEF before, upTo
  <2>1. Cardinality(before \cup {x}) <= Cardinality(upTo(samples[x]))
    BY <1>5, <1>6, FS_Subset
  <2> QED BY <1>4, <2>1, <1>6, <1>2
<1>8. ASSUME NEW w \in Int, w < samples[x] PROVE Cardinality(upTo(w)) < k
  <2>1. upTo(w) \in SUBSET before
    BY <1>8 DEF Rising, IsSamples
  <2> HIDE DEF upTo
  <2>2. Cardinality(upTo(w)) <= Cardinality(before)
    <3> HIDE DEF before
    <3> QED BY <1>3, <2>1, FS_Subset
  <2> QED BY <1>2, <1>6, <2>2
<1> QED BY <1>7, <1>8 DEF AtMost

\* The sample with k - 1 larger ones before it, counted from the other end.
LEMMA KthLargest ==
  ASSUME NEW samples, IsSamples(samples), NEW k \in 1..Cardinality(DOMAIN samples),
         NEW x \in DOMAIN samples,
         Cardinality({i \in DOMAIN samples : Falling(samples, i, x)}) = Cardinality(DOMAIN samples) - k
  PROVE  /\ AtMost(samples, samples[x]) >= k
         /\ \A w \in Int : w < samples[x] => AtMost(samples, w) < k
<1> DEFINE S == DOMAIN samples
           before == {i \in S : Falling(samples, i, x)}
           upTo(v) == {i \in S : samples[i] <= v}
<1>1. IsFiniteSet(S)
  BY DEF IsSamples
<1>2. Cardinality(S) \in Nat /\ k \in Int
  BY <1>1, FS_CardinalityType
<1>3. IsFiniteSet(before) /\ x \notin before /\ before \in SUBSET S
  BY <1>1, FS_Subset DEF Falling, IsSamples
<1>4. Cardinality(S \ before) = k /\ IsFiniteSet(S \ before)
  <2>1. S \cap before = before
    BY <1>3
  <2>2. Cardinality(before) = Cardinality(S) - k
    OBVIOUS
  <2> HIDE DEF before, S
  <2>3. IsFiniteSet(S \ before) /\ Cardinality(S \ before) = Cardinality(S) - Cardinality(S \cap before)
    BY <1>1, FS_Difference
  <2> QED BY <1>2, <2>1, <2>2, <2>3
<1>5. S \ before \in SUBSET upTo(samples[x])
  BY DEF Falling, IsSamples
<1>6. \A v : IsFiniteSet(upTo(v)) /\ Cardinality(upTo(v)) \in Nat
  <2>1. \A v : upTo(v) \in SUBSET S
    OBVIOUS
  <2>2. \A v : IsFiniteSet(upTo(v))
    BY <1>1, <2>1, FS_Subset
  <2> HIDE DEF upTo
  <2> QED BY <2>2, FS_CardinalityType
<1>7. Cardinality(upTo(samples[x])) >= k
  <2> HIDE DEF before, upTo, S
  <2>1. Cardinality(S \ before) <= Cardinality(upTo(samples[x]))
    BY <1>5, <1>6, FS_Subset
  <2> QED BY <1>4, <2>1, <1>6, <1>2
<1>8. ASSUME NEW w \in Int, w < samples[x] PROVE Cardinality(upTo(w)) < k
  <2>1. upTo(w) \in SUBSET ((S \ before) \ {x})
    BY <1>8 DEF Falling, IsSamples
  <2>2. x \in S \ before
    BY <1>3
  <2> HIDE DEF before, upTo, S
  <2>3. Cardinality((S \ before) \ {x}) = k - 1 /\ IsFiniteSet((S \ before) \ {x})
    BY <1>4, <2>2, FS_RemoveElement
  <2>4. Cardinality(upTo(w)) <= Cardinality((S \ before) \ {x})
    BY <2>1, <2>3, FS_Subset
  <2> QED BY <1>2, <1>6, <2>3, <2>4
<1> QED BY <1>7, <1>8 DEF AtMost

\* What a share of the samples comes to: q of n is at least a when a reaches the
\* ceiling, which lies in 1..n.
LEMMA ShareOf ==
  ASSUME NEW n \in Nat, n > 0, NEW q \in Nat, NEW d \in Nat, 0 < q, q <= d,
         NEW k, k = (q * n + d - 1) \div d
  PROVE  /\ k \in 1..n
         /\ \A a \in Int : a * d >= q * n <=> a >= k
<1> DEFINE p == q * n
<1>1. p \in Nat /\ p >= 1
  OBVIOUS
<1>2. p <= d * n
  OBVIOUS
<1>3. k = (p + d - 1) \div d
  OBVIOUS
<1> HIDE DEF p
<1>4. k \in Int /\ \A a \in Int : a * d >= p <=> a >= k
  BY <1>1, <1>3
<1>5. n * d >= p /\ ~(0 * d >= p)
  BY <1>1, <1>2
<1>6. n >= k /\ ~(0 >= k)
  BY <1>4, <1>5
<1> QED BY <1>4, <1>6 DEF p

\* The two branches of percentile(), and the answer for no samples.
LEMMA PercentileBranches ==
  ASSUME NEW samples, NEW quantile, NEW n, n = Cardinality(DOMAIN samples), n \in Nat, n > 0,
         NEW index, index = QuantileIndex(n, quantile)
  PROVE  \/ Percentile(samples, quantile) = samples[LargestAt(samples, n - index)]
         \/ Percentile(samples, quantile) = samples[Smallest(samples, index + 1)]
<1>1. CASE n - index <= n \div 4
  <2>1. Percentile(samples, quantile) =
          samples[CHOOSE y \in DOMAIN samples :
                    1 + Cardinality({i \in DOMAIN samples : Falling(samples, i, y)}) = n - index]
    BY <1>1 DEF Percentile, AtPlace, Place
  <2> QED BY <2>1, Zenon DEF LargestAt
<1>2. CASE ~(n - index <= n \div 4)
  <2>1. Percentile(samples, quantile) =
          samples[CHOOSE y \in DOMAIN samples :
                    1 + Cardinality({i \in DOMAIN samples : Rising(samples, i, y)}) = index + 1]
    BY <1>2 DEF Percentile, AtPlace, Place
  <2> QED BY <2>1, Zenon DEF Smallest
<1> QED BY <1>1, <1>2

LEMMA PercentileOfNone ==
  ASSUME NEW samples, NEW quantile, Cardinality(DOMAIN samples) = 0
  PROVE  Percentile(samples, quantile) = 0
  BY DEF Percentile, AtPlace, Place

\* percentile() answers a sample that the quantile's share of the samples do not
\* exceed, and that is the least such number.
LEMMA PercentileShape ==
  ASSUME NEW samples, IsSamples(samples), DOMAIN samples # {},
         NEW q \in Nat, NEW d \in Nat, 0 < q, q <= d,
         NEW v, v = Percentile(samples, <<q, d>>)
  PROVE  /\ \E x \in DOMAIN samples : v = samples[x]
         /\ AtMost(samples, v) * d >= q * Cardinality(DOMAIN samples)
         /\ \A w \in Int : w < v => ~(AtMost(samples, w) * d >= q * Cardinality(DOMAIN samples))
<1> DEFINE n == Cardinality(DOMAIN samples)
           k == (q * n + d - 1) \div d
           index == QuantileIndex(n, <<q, d>>)
<1>1. n \in Nat /\ n > 0
  BY FS_CardinalityType, FS_EmptySet DEF IsSamples
<1> HIDE DEF n
<1>2. k \in 1..n /\ \A a \in Int : a * d >= q * n <=> a >= k
  BY <1>1, ShareOf
<1>3. index = k - 1
  <2>1. index = IF k > 0 THEN k - 1 ELSE 0
    BY DEF QuantileIndex
  <2> HIDE DEF k, index
  <2> QED BY <1>2, <2>1
<1> HIDE DEF k, index
<1>4. k \in Int /\ n - index \in 1..n /\ (n - index) - 1 = n - k /\ index + 1 = k
  BY <1>1, <1>2, <1>3
<1>5. PICK x : /\ v = samples[x]
               /\ x = LargestAt(samples, n - index) \/ x = Smallest(samples, k)
  BY <1>1, <1>4, PercentileBranches DEF n, index
<1>6. /\ x \in DOMAIN samples
      /\ AtMost(samples, samples[x]) >= k
      /\ \A w \in Int : w < samples[x] => AtMost(samples, w) < k
  <2>1. CASE x = LargestAt(samples, n - index)
    <3>1. /\ x \in DOMAIN samples
          /\ Cardinality({i \in DOMAIN samples : Falling(samples, i, x)}) = (n - index) - 1
      BY <1>4, <2>1, FallingPlace DEF n
    <3> QED BY <1>2, <1>4, <3>1, KthLargest DEF n
  <2>2. CASE x = Smallest(samples, k)
    <3>1. /\ x \in DOMAIN samples
          /\ Cardinality({i \in DOMAIN samples : Rising(samples, i, x)}) = k - 1
      BY <1>2, <2>2, RisingPlace DEF n
    <3> QED BY <1>2, <3>1, KthSmallest DEF n
  <2> QED BY <1>5, <2>1, <2>2
<1>7. \A u : AtMost(samples, u) \in Int
  BY AtMostType
<1>8. AtMost(samples, v) * d >= q * n
  BY <1>2, <1>5, <1>6, <1>7
<1>9. \A w \in Int : w < v => ~(AtMost(samples, w) * d >= q * n)
  <2>1. \A w \in Int : w < v => AtMost(samples, w) < k
    BY <1>5, <1>6
  <2> HIDE DEF n
  <2>2. ASSUME NEW w \in Int, w < v PROVE ~(AtMost(samples, w) * d >= q * n)
    <3>1. AtMost(samples, w) \in Int /\ AtMost(samples, w) < k
      BY <1>7, <2>1, <2>2
    <3> QED BY <1>2, <1>4, <3>1
  <2> QED BY <2>2
<1> QED BY <1>5, <1>6, <1>8, <1>9 DEF n

\* At quantile 0 percentile() answers the least sample.
LEMMA PercentileLeast ==
  ASSUME NEW samples, IsSamples(samples), DOMAIN samples # {}, NEW d \in Nat, d > 0,
         NEW v, v = Percentile(samples, <<0, d>>)
  PROVE  /\ \E x \in DOMAIN samples : v = samples[x]
         /\ \A y \in DOMAIN samples : ~(samples[y] < v)
<1> DEFINE n == Cardinality(DOMAIN samples)
           index == QuantileIndex(n, <<0, d>>)
<1>1. n \in Nat /\ n > 0
  BY FS_CardinalityType, FS_EmptySet DEF IsSamples
<1>2. index = 0
  <2>1. (0 * n + d - 1) \div d = 0
    BY <1>1
  <2> HIDE DEF n
  <2> QED BY <2>1 DEF QuantileIndex
<1> HIDE DEF n, index
<1>3. PICK x : /\ v = samples[x]
               /\ x = LargestAt(samples, n) \/ x = Smallest(samples, 1)
  <2>1. n - index = n /\ index + 1 = 1
    BY <1>1, <1>2
  <2> QED BY <1>1, <2>1, PercentileBranches DEF n, index
<1>4. /\ x \in DOMAIN samples
      /\ \A w \in Int : w < samples[x] => AtMost(samples, w) < 1
  <2>1. CASE x = LargestAt(samples, n)
    <3>1. /\ x \in DOMAIN samples
          /\ Cardinality({i \in DOMAIN samples : Falling(samples, i, x)}) = n - 1
      BY <1>1, <2>1, FallingPlace DEF n
    <3> QED BY <1>1, <3>1, KthLargest DEF n
  <2>2. CASE x = Smallest(samples, 1)
    <3>1. /\ x \in DOMAIN samples
          /\ Cardinality({i \in DOMAIN samples : Rising(samples, i, x)}) = 1 - 1
      BY <1>1, <2>2, RisingPlace DEF n
    <3> QED BY <1>1, <3>1, KthSmallest DEF n
  <2> QED BY <1>3, <2>1, <2>2
<1>5. ASSUME NEW y \in DOMAIN samples, samples[y] < v PROVE FALSE
  <2> DEFINE below == {i \in DOMAIN samples : samples[i] <= samples[y]}
  <2>1. samples[y] \in Int /\ y \in below
    BY DEF IsSamples
  <2>2. IsFiniteSet(below)
    BY FS_Subset DEF IsSamples
  <2>3. Cardinality(below) \in Nat /\ Cardinality(below) # 0
    <3> HIDE DEF below
    <3> QED BY <2>1, <2>2, FS_CardinalityType, FS_EmptySet
  <2>4. Cardinality(below) < 1
    BY <1>3, <1>4, <1>5, <2>1 DEF AtMost
  <2> QED BY <2>3, <2>4
<1> QED BY <1>3, <1>4, <1>5

\* Which is what nearest rank means.
LEMMA PercentileNearest ==
  ASSUME NEW samples, IsSamples(samples),
         NEW q \in Nat, NEW d \in Nat, 0 < d, q <= d
  PROVE  Percentile(samples, <<q, d>>) = NearestRank(samples, <<q, d>>)
<1>1. CASE DOMAIN samples = {}
  <2>1. Percentile(samples, <<q, d>>) = 0
    BY <1>1, FS_EmptySet, PercentileOfNone
  <2>2. {samples[i] : i \in DOMAIN samples} = {}
    BY <1>1
  <2>3. NearestRank(samples, <<q, d>>) = 0
    BY <2>2, Zenon DEF NearestRank
  <2> QED BY <2>1, <2>3
<1>2. CASE DOMAIN samples # {}
  <2> DEFINE v == Percentile(samples, <<q, d>>)
             values == {samples[i] : i \in DOMAIN samples}
             Enough(u) == AtMost(samples, u) * d >= q * Cardinality(DOMAIN samples)
             w == CHOOSE u \in values : Enough(u) /\ \A t \in values : t < u => ~Enough(t)
  <2>1. values # {} /\ values \in SUBSET Int
    BY <1>2 DEF IsSamples
  <2>2. v \in values /\ Enough(v) /\ \A t \in values : t < v => ~Enough(t)
    <3> HIDE DEF v
    <3>1. v = Percentile(samples, <<q, d>>)
      BY DEF v
    <3>2. CASE q = 0
      <4>1. v \in values /\ \A t \in values : ~(t < v)
        BY <1>2, <3>1, <3>2, PercentileLeast
      <4>2. Enough(v)
        <5>1. AtMost(samples, v) \in Nat /\ Cardinality(DOMAIN samples) \in Nat
          BY AtMostType
        <5> QED BY <3>2, <5>1
      <4> QED BY <4>1, <4>2
    <3>3. CASE q # 0
      <4>1. v \in values /\ Enough(v) /\ \A t \in Int : t < v => ~Enough(t)
        BY <1>2, <3>1, <3>3, PercentileShape
      <4> HIDE DEF Enough, values
      <4> QED BY <2>1, <4>1
    <3> QED BY <3>2, <3>3
  <2>3. NearestRank(samples, <<q, d>>) = w
    BY <2>1, Zenon DEF NearestRank, AtMost
  <2> HIDE DEF v, values, Enough
  <2>4. v \in values /\ Enough(v) /\ \A t \in values : t < v => ~Enough(t)
    BY <2>1, <2>2
  <2>5. w \in values /\ Enough(w) /\ \A t \in values : t < w => ~Enough(t)
    BY <2>4
  <2> HIDE DEF w
  <2>6. v \in Int /\ w \in Int /\ ~(v < w) /\ ~(w < v)
    BY <2>1, <2>4, <2>5
  <2>7. v = w
    BY <2>6
  <2> QED BY <2>3, <2>7 DEF v
<1> QED BY <1>1, <1>2

------------------------------------------------------------------------------
(* Lists of evidence, and the lists filtered from them. *)

IsList(list) ==
  /\ DOMAIN list \in SUBSET Int /\ IsFiniteSet(DOMAIN list)
  /\ \A i \in DOMAIN list : list[i].timestamp \in Int /\ list[i].value \in Int

PartOf(part, list) ==
  DOMAIN part \in SUBSET (DOMAIN list) /\ \A i \in DOMAIN part : part[i] = list[i]

\* Part of a list is a list, and cites what the list cites.
LEMMA PartIsList ==
  ASSUME NEW list, IsList(list), NEW part, PartOf(part, list)
  PROVE  IsList(part) /\ Ids(part) \in SUBSET Ids(list)
<1>1. IsFiniteSet(DOMAIN part)
  BY FS_Subset DEF IsList, PartOf
<1>2. IsList(part)
  BY <1>1 DEF IsList, PartOf
<1>3. Ids(part) \in SUBSET Ids(list)
  BY DEF Ids, PartOf
<1> QED BY <1>2, <1>3

LEMMA PartOfPart ==
  ASSUME NEW a, NEW b, NEW c, PartOf(a, b), PartOf(b, c)
  PROVE  PartOf(a, c)
  BY DEF PartOf

LEMMA SizeType ==
  ASSUME NEW list, IsList(list)
  PROVE  Size(list) \in Nat /\ (Size(list) = 0 <=> DOMAIN list = {})
  BY FS_CardinalityType, FS_EmptySet DEF IsList, Size

LEMMA ValuesAreSamples ==
  ASSUME NEW list, IsList(list)
  PROVE  /\ IsSamples(Values(list)) /\ DOMAIN Values(list) = DOMAIN list
         /\ \A i \in DOMAIN list : Values(list)[i] = list[i].value
<1>1. DOMAIN Values(list) = DOMAIN list /\ \A i \in DOMAIN list : Values(list)[i] = list[i].value
  BY DEF Values
<1> QED BY <1>1 DEF IsList, IsSamples

\* What each filter leaves of a list.
LEMMA OfKindShape ==
  ASSUME NEW list, NEW kind
  PROVE  /\ PartOf(OfKind(list, kind), list)
         /\ \A i \in DOMAIN list : i \in DOMAIN OfKind(list, kind) <=> list[i].kind = kind
  BY DEF PartOf, OfKind, RestrictValues, Restrict

LEMMA OfServiceShape ==
  ASSUME NEW list, NEW name
  PROVE  /\ PartOf(OfService(list, name), list)
         /\ \A i \in DOMAIN list : i \in DOMAIN OfService(list, name) <=> list[i].service = name
  BY DEF PartOf, OfService, RestrictValues, Restrict

LEMMA BetweenShape ==
  ASSUME NEW list, NEW first, NEW last
  PROVE  /\ PartOf(Between(list, first, last), list)
         /\ \A i \in DOMAIN list :
              i \in DOMAIN Between(list, first, last) <=>
                first <= list[i].timestamp /\ list[i].timestamp <= last
  BY DEF PartOf, Between, RestrictValues, Restrict

LEMMA RequestSpansShape ==
  ASSUME NEW list, NEW service
  PROVE  /\ PartOf(RequestSpans(list, service), list)
         /\ \A i \in DOMAIN list :
              i \in DOMAIN RequestSpans(list, service) <=>
                /\ list[i].service = service
                /\ list[i].kind \in SpanKinds
                /\ list[i].span_kind = "SERVER"
  BY DEF PartOf, RequestSpans, RestrictValues, Restrict

LEMMA QueriesShape ==
  ASSUME NEW list
  PROVE  /\ PartOf(Queries(list), list)
         /\ \A i \in DOMAIN list : i \in DOMAIN Queries(list) <=> list[i].kind = "span" /\ list[i].db
  BY DEF PartOf, Queries, RestrictValues, Restrict

LEMMA OtherParts ==
  ASSUME NEW list, NEW n, NEW name
  PROVE  /\ PartOf(Metric(list, name), list)
         /\ PartOf(FailedCalls(list), list)
         /\ PartOf(Latest(n, list), list)
         /\ PartOf(Largest(n, list), list)
<1>1. PartOf(Metric(list, name), list)
  BY DEF PartOf, Metric, RestrictValues, Restrict
<1>2. PartOf(FailedCalls(list), list)
  BY DEF PartOf, FailedCalls, RestrictValues, Restrict
<1>3. PartOf(Latest(n, list), list)
  BY DEF PartOf, Latest, Restrict, Foremost, Place
<1>4. PartOf(Largest(n, list), list)
  BY DEF PartOf, Largest, Restrict, Foremost, Place
<1> QED BY <1>1, <1>2, <1>3, <1>4

------------------------------------------------------------------------------
(* Burn alerts. *)

\* Whatever the objective, a burn rate is the bad fraction times 1000 or 100.
LEMMA BurnRate ==
  ASSUME NEW k \in DOMAIN DefaultSlos
  PROVE  \E budget \in {100, 1000} :
           \A bad, total \in Int : Times(<<bad, total>>, DefaultSlos[k]) = <<bad * budget, total>>
<1>1. DOMAIN DefaultSlos = 1..3
  BY DEF DefaultSlos
<1>2. k \in {1, 2, 3}
  BY <1>1
<1>3. \E budget \in {100, 1000} : AllowedBad(DefaultSlos[k]) = <<1, budget>>
  <2>1. DefaultSlos[k].target \in {<<99, 100>>, <<999, 1000>>}
    <3>1. DefaultSlos[1].target = Frac(999, 1000)
      BY DEF DefaultSlos
    <3>2. DefaultSlos[2].target = Frac(99, 100)
      BY DEF DefaultSlos
    <3>3. DefaultSlos[3].target = Frac(99, 100)
      BY DEF DefaultSlos
    <3>4. DefaultSlos[k].target \in {Frac(99, 100), Frac(999, 1000)}
      BY <1>2, <3>1, <3>2, <3>3
    <3> QED BY <3>4 DEF Frac
  <2> QED BY <2>1 DEF AllowedBad, Frac
<1>4. ASSUME NEW budget \in {100, 1000}, AllowedBad(DefaultSlos[k]) = <<1, budget>>,
             NEW bad \in Int, NEW total \in Int
      PROVE  Times(<<bad, total>>, DefaultSlos[k]) = <<bad * budget, total>>
  BY <1>4 DEF Times, TimesFrac, Frac
<1> QED BY <1>3, <1>4

\* A rate above a limit, and what it takes for one window.
LEMMA BurnsAtShape ==
  ASSUME NEW short, NEW long, Alerting(short, long)
  PROVE  /\ LessFrac(<<6, 1>>, short) \/ LessFrac(<<144, 10>>, short)
         /\ LessFrac(<<6, 1>>, long) \/ LessFrac(<<144, 10>>, long)
  BY DEF Alerting, BurnsAt, FastBurn, SlowBurn, Frac, Whole

LEMMA BurnMeansBad ==
  ASSUME NEW k \in DOMAIN DefaultSlos, NEW bad \in Nat, NEW total \in Nat, NEW rate,
         rate = Times(BadFraction(bad, total), DefaultSlos[k]),
         LessFrac(<<6, 1>>, rate) \/ LessFrac(<<144, 10>>, rate)
  PROVE  bad > 0 /\ LessFrac(Whole(1), rate)
<1>1. PICK budget \in {100, 1000} :
        \A b, t \in Int : Times(<<b, t>>, DefaultSlos[k]) = <<b * budget, t>>
  BY BurnRate
<1>2. CASE total = 0
  <2>1. BadFraction(bad, total) = <<0, 1>>
    BY <1>2 DEF BadFraction, Whole
  <2>2. rate = <<0 * budget, 1>>
    BY <1>1, <2>1
  <2>3. rate[1] = 0 /\ rate[2] = 1
    BY <2>2
  <2> QED BY <2>3 DEF LessFrac
<1>3. CASE total # 0
  <2>1. BadFraction(bad, total) = <<bad, total>>
    BY <1>3 DEF BadFraction, Frac
  <2>2. rate = <<bad * budget, total>>
    BY <1>1, <2>1
  <2>3. rate[1] \in Nat /\ rate[1] = bad * budget /\ rate[2] = total
    BY <2>2
  <2>4. rate[2] < rate[1]
    BY <1>3, <2>3 DEF LessFrac
  <2>5. bad # 0
    BY <2>3, <2>4
  <2> QED BY <2>3, <2>4, <2>5 DEF LessFrac, Whole
<1> QED BY <1>2, <1>3

\* A count of bad events above zero has one of them behind it.
LEMMA BadCountShape ==
  ASSUME NEW list, IsList(list), NEW slo
  PROVE  /\ BadCount(slo, list) \in Nat
         /\ BadCount(slo, list) > 0 => \E i \in DOMAIN list : IsBad(slo, list[i])
<1> DEFINE bad == {i \in DOMAIN list : IsBad(slo, list[i])}
<1>1. BadCount(slo, list) = Cardinality(bad)
  BY DEF BadCount, Size, RestrictValues, Restrict
<1>2. IsFiniteSet(bad)
  BY FS_Subset DEF IsList
<1>3. Cardinality(bad) \in Nat /\ (Cardinality(bad) = 0 <=> bad = {})
  <2> HIDE DEF bad
  <2> QED BY <1>2, FS_CardinalityType, FS_EmptySet
<1> QED BY <1>1, <1>3

\* An alert means that the budget is gone and that a recent request was bad.
LEMMA AlertShape ==
  ASSUME NEW list, IsList(list), NEW now \in Int, NEW k \in DOMAIN SloStatuses(list, now),
         SloStatuses(list, now)[k].alerting
  PROVE  /\ k \in DOMAIN DefaultSlos
         /\ SloStatuses(list, now)[k].budget_remaining = Whole(0)
         /\ \E i \in DOMAIN list : /\ list[i].service = DefaultSlos[k].service
                                   /\ IsBad(DefaultSlos[k], list[i])
                                   /\ list[i].timestamp >= now - ShortWindow
<1> DEFINE slo   == DefaultSlos[k]
           long  == RequestSpans(list, slo.service)
           short == Between(long, now - ShortWindow, now)
           longRate  == Times(BadFraction(BadCount(slo, long), Size(long)), slo)
           shortRate == Times(BadFraction(BadCount(slo, short), Size(short)), slo)
           status == SloStatuses(list, now)[k]
<1>1. k \in DOMAIN DefaultSlos
  BY DEF SloStatuses
<1>2. /\ status.alerting = Alerting(shortRate, longRate)
      /\ status.budget_remaining = BudgetRemaining(longRate)
  BY <1>1 DEF SloStatuses, CalculateSlo
<1>3. /\ PartOf(long, list) /\ IsList(long)
      /\ \A i \in DOMAIN long : list[i].service = slo.service
  <2>1. PartOf(long, list) /\ \A i \in DOMAIN long : list[i].service = slo.service
    <3>1. PartOf(long, list)
      BY RequestSpansShape
    <3>2. \A i \in DOMAIN list : i \in DOMAIN long => list[i].service = slo.service
      BY RequestSpansShape
    <3> HIDE DEF long, slo
    <3> QED BY <3>1, <3>2 DEF PartOf
  <2> HIDE DEF long
  <2> QED BY <2>1, PartIsList
<1>4. /\ PartOf(short, long) /\ IsList(short)
      /\ \A i \in DOMAIN short : now - ShortWindow <= long[i].timestamp
  <2>1. PartOf(short, long) /\ \A i \in DOMAIN long : i \in DOMAIN short => now - ShortWindow <= long[i].timestamp
    BY BetweenShape
  <2> HIDE DEF long, short
  <2>2. IsList(short)
    BY <1>3, <2>1, PartIsList
  <2> QED BY <2>1, <2>2 DEF PartOf
<1>5. /\ BadCount(slo, long) \in Nat /\ Size(long) \in Nat
      /\ BadCount(slo, short) \in Nat /\ Size(short) \in Nat
  <2> HIDE DEF long, short
  <2> QED BY <1>3, <1>4, BadCountShape, SizeType
<1>6. /\ LessFrac(<<6, 1>>, shortRate) \/ LessFrac(<<144, 10>>, shortRate)
      /\ LessFrac(<<6, 1>>, longRate) \/ LessFrac(<<144, 10>>, longRate)
  <2> HIDE DEF longRate, shortRate
  <2> QED BY <1>2, BurnsAtShape
<1>7. LessFrac(Whole(1), longRate)
  BY <1>1, <1>5, <1>6, BurnMeansBad
<1>8. BudgetRemaining(longRate) = Whole(0)
  <2> HIDE DEF longRate
  <2> QED BY <1>7 DEF BudgetRemaining
<1>9. BadCount(slo, short) > 0
  BY <1>1, <1>5, <1>6, BurnMeansBad
<1>10. PICK i \in DOMAIN short : IsBad(slo, short[i])
  <2> HIDE DEF short
  <2> QED BY <1>4, <1>9, BadCountShape
<1> HIDE DEF long, short
<1>11. i \in DOMAIN long /\ short[i] = long[i] /\ now - ShortWindow <= long[i].timestamp
  BY <1>4 DEF PartOf
<1>12. i \in DOMAIN list /\ long[i] = list[i] /\ list[i].service = slo.service
  BY <1>3, <1>11 DEF PartOf
<1>13. list[i].timestamp >= now - ShortWindow
  BY <1>11, <1>12, WindowsAssumption DEF IsList
<1>14. IsBad(slo, list[i])
  BY <1>10, <1>11, <1>12
<1> QED BY <1>1, <1>2, <1>8, <1>12, <1>13, <1>14

------------------------------------------------------------------------------
(* The windows of an analysis. *)

LEMMA WindowConstants ==
  /\ LongWindow \in Nat /\ ShortWindow \in Nat /\ MarkerWindow \in Nat /\ CurrentWindow \in Nat
  /\ BaselineReach \in Nat /\ MinBaselineWidth \in Nat /\ DeploymentWindow \in Nat
  /\ AlertLead \in Nat \ {0} /\ Gap \in Nat \ {0} /\ MinSpans \in Nat \ {0} /\ CpuSaturation \in Nat
  /\ MarkerWindow < CurrentWindow /\ CurrentWindow < BaselineReach
  /\ BaselineReach < LongWindow /\ ShortWindow < LongWindow
  /\ CurrentWindow + MinBaselineWidth <= BaselineReach
  /\ 2 * MarkerWindow <= BaselineReach
  BY WindowsAssumption

\* The current window ends now, the baseline ends a gap before the current window
\* and is as wide as promised, and both lie in the last hour.
LEMMA WindowsShape ==
  ASSUME NEW hour, IsList(hour), NEW now \in Int,
         \A i \in DOMAIN hour : hour[i].timestamp <= now,
         NEW w, w = Windows(hour, now)
  PROVE  /\ w.current_start \in Int /\ w.baseline_start \in Int /\ w.baseline_end \in Int
         /\ w.current_start <= now /\ w.current_start >= now - CurrentWindow
         /\ w.baseline_end = w.current_start - Gap
         /\ w.current_start - w.baseline_start >= MinBaselineWidth
         /\ w.baseline_start >= now - LongWindow
<1> DEFINE marked == {j \in DOMAIN hour : /\ hour[j].kind \in MarkerKinds
                                          /\ hour[j].timestamp >= now - MarkerWindow}
           recent == {hour[i].timestamp : i \in marked}
           start  == Least(recent)
<1>1. CASE recent = {}
  <2>1. w = [current_start  |-> now - CurrentWindow,
             baseline_start |-> now - BaselineReach,
             baseline_end   |-> now - CurrentWindow - Gap]
    BY <1>1 DEF Windows
  <2> QED BY <2>1, WindowConstants
<1>2. CASE recent # {}
  <2>1. w = [current_start  |-> start,
             baseline_start |-> start - Greater(MinBaselineWidth, now - start),
             baseline_end   |-> start - Gap]
    BY <1>2 DEF Windows
  <2>2. IsFiniteSet(recent) /\ recent \in SUBSET Int
    <3> DEFINE f == [i \in marked |-> hour[i].timestamp]
    <3>1. IsFiniteSet(marked)
      BY FS_Subset DEF IsList
    <3>2. f \in Surjection(marked, recent)
      BY DEF Surjection
    <3> HIDE DEF f, marked, recent
    <3>3. IsFiniteSet(recent)
      BY <3>1, <3>2, FS_Surjection
    <3> QED BY <3>3 DEF recent, IsList, marked
  <2>3. start \in recent
    <3> HIDE DEF recent
    <3>1. \E x \in recent : \A y \in recent : x <= y
      BY <1>2, <2>2, LeastOfFinite
    <3> QED BY <3>1 DEF Least
  <2>4. start \in Int /\ start <= now /\ start >= now - MarkerWindow
    BY <2>3 DEF IsList
  <2> HIDE DEF start
  <2>5. /\ Greater(MinBaselineWidth, now - start) \in Int
        /\ Greater(MinBaselineWidth, now - start) >= MinBaselineWidth
        /\ Greater(MinBaselineWidth, now - start) <= MinBaselineWidth \/
           Greater(MinBaselineWidth, now - start) <= MarkerWindow
    BY <2>4, WindowConstants DEF Greater
  <2> QED BY <2>1, <2>4, <2>5, WindowConstants
<1> QED BY <1>1, <1>2

\* The lists an analysis at a time works on, and that they are parts of the store.
LEMMA HourShape ==
  ASSUME NEW list, IsList(list), NEW now \in Int, NEW hour, hour = Between(list, now - LongWindow, now)
  PROVE  /\ IsList(hour) /\ PartOf(hour, list)
         /\ \A i \in DOMAIN list :
              i \in DOMAIN hour <=> now - LongWindow <= list[i].timestamp /\ list[i].timestamp <= now
         /\ \A i \in DOMAIN hour : hour[i].timestamp <= now
<1>1. PartOf(hour, list)
  BY BetweenShape
<1>2. \A i \in DOMAIN list :
        i \in DOMAIN hour <=> now - LongWindow <= list[i].timestamp /\ list[i].timestamp <= now
  BY BetweenShape
<1>3. IsList(hour)
  BY <1>1, PartIsList
<1>4. \A i \in DOMAIN hour : hour[i].timestamp <= now
  BY <1>1, <1>2 DEF PartOf
<1> QED BY <1>1, <1>2, <1>3, <1>4

\* What the current window and the baseline hold of the store.
LEMMA HalvesShape ==
  ASSUME NEW list, IsList(list), NEW now \in Int, NEW hour, hour = Between(list, now - LongWindow, now),
         NEW w, w = Windows(hour, now),
         NEW current, current = Current(hour, now), NEW baseline, baseline = Baseline(hour, now)
  PROVE  /\ IsList(current) /\ PartOf(current, hour) /\ PartOf(current, list)
         /\ IsList(baseline) /\ PartOf(baseline, hour) /\ PartOf(baseline, list)
         /\ \A i \in DOMAIN list :
              /\ i \in DOMAIN current <=>
                   w.current_start <= list[i].timestamp /\ list[i].timestamp <= now
              /\ i \in DOMAIN baseline <=>
                   w.baseline_start <= list[i].timestamp /\ list[i].timestamp <= w.baseline_end
<1>1. /\ IsList(hour) /\ PartOf(hour, list)
      /\ \A i \in DOMAIN list :
           i \in DOMAIN hour <=> now - LongWindow <= list[i].timestamp /\ list[i].timestamp <= now
      /\ \A i \in DOMAIN hour : hour[i].timestamp <= now
  BY HourShape
<1>2. /\ w.current_start \in Int /\ w.baseline_start \in Int /\ w.baseline_end \in Int
      /\ w.current_start <= now /\ w.current_start >= now - CurrentWindow
      /\ w.baseline_end = w.current_start - Gap
      /\ w.baseline_start >= now - LongWindow
  BY <1>1, WindowsShape
<1>3. current = Between(hour, w.current_start, now)
  BY DEF Current
<1>4. baseline = Between(hour, w.baseline_start, w.baseline_end)
  BY DEF Baseline
<1>5. /\ PartOf(current, hour)
      /\ \A i \in DOMAIN hour :
           i \in DOMAIN current <=>
             w.current_start <= hour[i].timestamp /\ hour[i].timestamp <= now
  BY <1>3, BetweenShape
<1>6. /\ PartOf(baseline, hour)
      /\ \A i \in DOMAIN hour :
           i \in DOMAIN baseline <=>
             w.baseline_start <= hour[i].timestamp /\ hour[i].timestamp <= w.baseline_end
  BY <1>4, BetweenShape
<1>7. IsList(current) /\ PartOf(current, list) /\ IsList(baseline) /\ PartOf(baseline, list)
  BY <1>1, <1>5, <1>6, PartIsList, PartOfPart
<1>8. ASSUME NEW i \in DOMAIN list
      PROVE  /\ i \in DOMAIN current <=>
                  w.current_start <= list[i].timestamp /\ list[i].timestamp <= now
             /\ i \in DOMAIN baseline <=>
                  w.baseline_start <= list[i].timestamp /\ list[i].timestamp <= w.baseline_end
  <2>1. list[i].timestamp \in Int
    BY DEF IsList
  <2>2. CASE i \in DOMAIN hour
    <3>1. hour[i] = list[i]
      BY <1>1, <2>2 DEF PartOf
    <3> QED BY <1>5, <1>6, <2>2, <3>1
  <2>3. CASE i \notin DOMAIN hour
    <3>1. i \notin DOMAIN current /\ i \notin DOMAIN baseline
      BY <1>5, <1>6, <2>3 DEF PartOf
    <3>2. ~(now - LongWindow <= list[i].timestamp /\ list[i].timestamp <= now)
      BY <1>1, <2>3
    <3> QED BY <1>2, <2>1, <3>1, <3>2, WindowConstants
  <2> QED BY <2>2, <2>3
<1> QED BY <1>5, <1>6, <1>7, <1>8

------------------------------------------------------------------------------
(* Fractions, as far as scores need them. *)

FractionType == Int \X (Nat \ {0})

LEMMA FractionParts ==
  ASSUME NEW x \in FractionType
  PROVE  x[1] \in Int /\ x[2] \in Int /\ x[2] > 0
  BY DEF FractionType

\* Comparing fractions by cross-multiplication is transitive.
LEMMA LessIsTransitive ==
  ASSUME NEW a \in Int, NEW b \in Int, NEW c \in Int, NEW p \in Int, NEW q \in Int, NEW r \in Int,
         p > 0, q > 0, r > 0
  PROVE  /\ a * q < b * p /\ b * r < c * q => a * r < c * p
         /\ a * q = b * p /\ b * r < c * q => a * r < c * p
         /\ a * q < b * p /\ b * r = c * q => a * r < c * p
         /\ a * q = b * p /\ b * r = c * q => a * r = c * p
<1>1. ASSUME a * q < b * p, b * r < c * q PROVE a * r < c * p
  BY <1>1
<1>2. ASSUME a * q = b * p, b * r < c * q PROVE a * r < c * p
  BY <1>2
<1>3. ASSUME a * q < b * p, b * r = c * q PROVE a * r < c * p
  BY <1>3
<1>4. ASSUME a * q = b * p, b * r = c * q PROVE a * r = c * p
  BY <1>4
<1> QED BY <1>1, <1>2, <1>3, <1>4

\* The caps of the score table are halves.
AtMostHalves(x, halves) == 2 * x[1] <= halves * x[2]

LEMMA HalvesOfLarger ==
  ASSUME NEW x \in FractionType, NEW g \in Int, NEW h \in Int, g <= h, AtMostHalves(x, g)
  PROVE  AtMostHalves(x, h)
<1>1. ASSUME NEW a \in Int, NEW b \in Int, b > 0, 2 * a <= g * b PROVE 2 * a <= h * b
  BY <1>1
<1> QED BY <1>1, FractionParts DEF AtMostHalves

LEMMA HalvesOfSum ==
  ASSUME NEW x \in FractionType, NEW y \in FractionType, NEW g \in Int, NEW h \in Int,
         AtMostHalves(x, g), AtMostHalves(y, h)
  PROVE  PlusFrac(x, y) \in FractionType /\ AtMostHalves(PlusFrac(x, y), g + h)
<1>1. /\ x[1] \in Int /\ x[2] \in Int /\ x[2] > 0 /\ 2 * x[1] <= g * x[2]
      /\ y[1] \in Int /\ y[2] \in Int /\ y[2] > 0 /\ 2 * y[1] <= h * y[2]
  BY FractionParts DEF AtMostHalves
<1>2. CASE x[2] = y[2]
  <2>1. PlusFrac(x, y) = <<x[1] + y[1], x[2]>>
    BY <1>2 DEF PlusFrac
  <2>2. 2 * (x[1] + y[1]) <= (g + h) * x[2]
    BY <1>1, <1>2
  <2> QED BY <1>1, <2>1, <2>2 DEF AtMostHalves, FractionType
<1>3. CASE x[2] # y[2]
  <2>1. PlusFrac(x, y) = <<x[1] * y[2] + y[1] * x[2], x[2] * y[2]>>
    BY <1>3 DEF PlusFrac
  <2>2. ASSUME NEW a \in Int, NEW b \in Int, NEW p \in Int, NEW q \in Int, p > 0, q > 0,
               2 * a <= g * p, 2 * b <= h * q
        PROVE  2 * (a * q + b * p) <= (g + h) * (p * q) /\ p * q > 0
    BY <2>2
  <2>3. /\ 2 * (x[1] * y[2] + y[1] * x[2]) <= (g + h) * (x[2] * y[2])
        /\ x[2] * y[2] > 0 /\ x[2] * y[2] \in Int /\ x[1] * y[2] + y[1] * x[2] \in Int
    BY <1>1, <2>2
  <2>4. PlusFrac(x, y)[1] = x[1] * y[2] + y[1] * x[2] /\ PlusFrac(x, y)[2] = x[2] * y[2]
    BY <2>1
  <2>5. PlusFrac(x, y) \in FractionType
    BY <2>1, <2>3 DEF FractionType
  <2> QED BY <2>3, <2>4, <2>5 DEF AtMostHalves
<1> QED BY <1>2, <1>3

LEMMA WholeShape ==
  ASSUME NEW n \in Nat
  PROVE  Whole(n) \in FractionType /\ AtMostHalves(Whole(n), 2 * n)
  BY DEF Whole, FractionType, AtMostHalves

LEMMA CapShape ==
  ASSUME NEW n \in Nat, NEW x \in FractionType
  PROVE  CapFrac(Whole(n), x) \in FractionType /\ AtMostHalves(CapFrac(Whole(n), x), 2 * n)
<1>1. CASE LeqFrac(Whole(n), x)
  BY <1>1, WholeShape DEF CapFrac
<1>2. CASE ~LeqFrac(Whole(n), x)
  <2>1. x[1] \in Int /\ x[2] \in Int /\ x[2] > 0
    BY FractionParts
  <2>2. ~(n * x[2] <= x[1] * 1)
    BY <1>2 DEF LeqFrac, Whole
  <2>3. 2 * x[1] <= (2 * n) * x[2]
    BY <2>1, <2>2
  <2> QED BY <1>2, <2>3 DEF CapFrac, AtMostHalves
<1> QED BY <1>1, <1>2

------------------------------------------------------------------------------
(* Contributions: what they cite and how many points they give. *)

RuleNames ==
  {"database_latency_factor", "service_latency_factor", "recent_deployment", "no_cpu_saturation",
   "concurrent_errors", "memory_growth", "concurrent_latency", "failed_client_spans"}

\* Ones that cite among the given ids.
ContributionsFrom(ids) == [rule : RuleNames, points : FractionType, evidence_ids : SUBSET ids]

\* The i-th is worth at most caps[i] halves, and there are at most n of them.
Capped(s, n, caps) == Len(s) <= n /\ \A i \in 1..Len(s) : AtMostHalves(s[i].points, caps[i])

CapList == {caps \in [1..4 -> Nat] : \A i, j \in 1..4 : i <= j => caps[j] <= caps[i]}

\* A rule that may or may not apply adds at most one contribution.
LEMMA WhenAdds ==
  ASSUME NEW ids, NEW caps \in CapList, NEW n \in 0..3,
         NEW s \in Seq(ContributionsFrom(ids)), Capped(s, n, caps),
         NEW c \in ContributionsFrom(ids), AtMostHalves(c.points, caps[n + 1]), NEW applies \in BOOLEAN
  PROVE  /\ s \o When(applies, c) \in Seq(ContributionsFrom(ids))
         /\ Capped(s \o When(applies, c), n + 1, caps)
<1>1. Len(s) \in Nat /\ Len(s) <= n
  BY DEF Capped
<1>2. CASE ~applies
  <2>1. s \o When(applies, c) = s
    BY <1>2, ConcatEmptySeq DEF When
  <2> QED BY <1>1, <2>1 DEF Capped
<1>3. CASE applies
  <2> DEFINE t == s \o <<c>>
  <2>1. s \o When(applies, c) = t
    BY <1>3 DEF When
  <2>2. /\ t \in Seq(ContributionsFrom(ids)) /\ Len(t) = Len(s) + 1
        /\ \A i \in 1..Len(s) : t[i] = s[i]
        /\ t[Len(s) + 1] = c
    <3> DEFINE C == ContributionsFrom(ids)
    <3> HIDE DEF C
    <3>1. s \in Seq(C) /\ c \in C
      BY DEF C
    <3>2. t \in Seq(C) /\ Len(t) = Len(s) + 1 /\ (\A i \in 1..Len(s) : t[i] = s[i]) /\ t[Len(s) + 1] = c
      BY <3>1
    <3> QED BY <3>2 DEF C
  <2>3. AtMostHalves(c.points, caps[Len(s) + 1])
    <3>1. caps[n + 1] \in Int /\ caps[Len(s) + 1] \in Int /\ caps[n + 1] <= caps[Len(s) + 1]
      BY <1>1 DEF CapList
    <3>2. c.points \in FractionType
      BY DEF ContributionsFrom
    <3> QED BY <3>1, <3>2, HalvesOfLarger
  <2> HIDE DEF t
  <2>4. Capped(t, n + 1, caps)
    <3>1. Len(t) <= n + 1
      BY <1>1, <2>2
    <3>2. ASSUME NEW i \in 1..Len(t) PROVE AtMostHalves(t[i].points, caps[i])
      <4>1. CASE i \in 1..Len(s)
        BY <2>2, <4>1 DEF Capped
      <4>2. CASE i = Len(s) + 1
        BY <2>2, <2>3, <4>2
      <4> QED BY <1>1, <2>2, <4>1, <4>2
    <3> QED BY <3>1, <3>2 DEF Capped
  <2> QED BY <2>1, <2>2, <2>4
<1> QED BY <1>2, <1>3

\* A score is a fraction and at most the sum of the caps.
LEMMA ScoreShape ==
  ASSUME NEW ids, NEW caps \in [1..4 -> Nat],
         NEW s \in Seq(ContributionsFrom(ids)), Capped(s, 4, caps)
  PROVE  /\ Score(s) \in FractionType
         /\ AtMostHalves(Score(s), caps[1] + caps[2] + caps[3] + caps[4])
<1> DEFINE Points(i) == IF i \in DOMAIN s THEN s[i].points ELSE Whole(0)
<1>1. ASSUME NEW i \in 1..4 PROVE Points(i) \in FractionType /\ AtMostHalves(Points(i), caps[i])
  <2>1. CASE i \in DOMAIN s
    <3>1. s[i] \in ContributionsFrom(ids) /\ i \in 1..Len(s)
      BY <2>1
    <3>2. s[i].points \in FractionType
      BY <3>1 DEF ContributionsFrom
    <3> QED BY <2>1, <3>1, <3>2 DEF Capped
  <2>2. CASE i \notin DOMAIN s
    <3>1. Whole(0) \in FractionType /\ AtMostHalves(Whole(0), 0)
      BY WholeShape
    <3>2. AtMostHalves(Whole(0), caps[i])
      BY <3>1, HalvesOfLarger
    <3> QED BY <2>2, <3>1, <3>2
  <2> QED BY <2>1, <2>2
<1>2. Score(s) = PlusFrac(PlusFrac(PlusFrac(Points(1), Points(2)), Points(3)), Points(4))
  BY Zenon DEF Score
<1> HIDE DEF Points
<1>3. PlusFrac(Points(1), Points(2)) \in FractionType
      /\ AtMostHalves(PlusFrac(Points(1), Points(2)), caps[1] + caps[2])
  BY <1>1, HalvesOfSum
<1>4. PlusFrac(PlusFrac(Points(1), Points(2)), Points(3)) \in FractionType
      /\ AtMostHalves(PlusFrac(PlusFrac(Points(1), Points(2)), Points(3)), caps[1] + caps[2] + caps[3])
  BY <1>1, <1>3, HalvesOfSum
<1>5. Score(s) \in FractionType /\ AtMostHalves(Score(s), caps[1] + caps[2] + caps[3] + caps[4])
  BY <1>1, <1>2, <1>4, HalvesOfSum
<1> QED BY <1>5

------------------------------------------------------------------------------
(* The rules. *)

LEMMA P99Type ==
  ASSUME NEW list, IsList(list)
  PROVE  P99(Values(list)) \in Int
<1> DEFINE samples == Values(list)
<1>1. IsSamples(samples) /\ \A i \in DOMAIN samples : samples[i] \in Int
  BY ValuesAreSamples DEF IsSamples
<1> HIDE DEF samples
<1>2. CASE DOMAIN samples = {}
  <2>1. Percentile(samples, <<99, 100>>) = 0
    BY <1>2, FS_EmptySet, PercentileOfNone
  <2> QED BY <2>1 DEF P99, samples
<1>3. CASE DOMAIN samples # {}
  <2>1. ASSUME NEW v, v = Percentile(samples, <<99, 100>>) PROVE v \in Int
    <3>1. \E x \in DOMAIN samples : v = samples[x]
      BY <1>1, <1>3, <2>1, PercentileShape
    <3> QED BY <1>1, <3>1
  <2> QED BY <2>1 DEF P99, samples
<1> QED BY <1>2, <1>3

\* A growth factor is a fraction and rests on samples of the current window.
LEMMA FactorShape ==
  ASSUME NEW current, IsList(current), NEW baseline, IsList(baseline)
  PROVE  /\ Factor(current, baseline).growth \in FractionType
         /\ Factor(current, baseline).largest = Largest(3, current)
         /\ Ids(Factor(current, baseline).largest) \in SUBSET Ids(current)
<1>1. P99(Values(current)) \in Int /\ P99(Values(baseline)) \in Int
  BY P99Type
<1>2. Greater(1, P99(Values(baseline))) \in Nat \ {0}
  BY <1>1 DEF Greater
<1>3. /\ Frac(P99(Values(current)), Greater(1, P99(Values(baseline)))) \in FractionType
      /\ Whole(0) \in FractionType
  BY <1>1, <1>2, WholeShape DEF Frac, FractionType
<1>4. Factor(current, baseline).growth \in FractionType
  BY <1>3, Zenon DEF Factor
<1>5. Factor(current, baseline).largest = Largest(3, current)
  BY Zenon DEF Factor
<1>6. Ids(Largest(3, current)) \in SUBSET Ids(current)
  BY OtherParts, PartIsList
<1> QED BY <1>4, <1>5, <1>6

LEMMA ContributionShape ==
  ASSUME NEW ids, NEW rule \in RuleNames, NEW points \in FractionType, NEW cited, Ids(cited) \in SUBSET ids,
         NEW halves, AtMostHalves(points, halves), NEW c, c = Contribution(rule, points, cited)
  PROVE  c \in ContributionsFrom(ids) /\ AtMostHalves(c.points, halves)
<1>1. c.points = points
  BY DEF Contribution
<1>2. c \in ContributionsFrom(ids)
  BY DEF Contribution, ContributionsFrom
<1> QED BY <1>1, <1>2

LEMMA OneContribution ==
  ASSUME NEW ids, NEW caps \in CapList, NEW c \in ContributionsFrom(ids), AtMostHalves(c.points, caps[1])
  PROVE  <<c>> \in Seq(ContributionsFrom(ids)) /\ Capped(<<c>>, 1, caps)
  BY DEF Capped

\* Four caps as a list.
Caps(a, b, c, d) == [i \in 1..4 |-> IF i = 1 THEN a ELSE IF i = 2 THEN b ELSE IF i = 3 THEN c ELSE d]

LEMMA CapsShape ==
  ASSUME NEW a \in Nat, NEW b \in Nat, NEW c \in Nat, NEW d \in Nat, d <= c, c <= b, b <= a
  PROVE  /\ Caps(a, b, c, d) \in CapList /\ Caps(a, b, c, d) \in [1..4 -> Nat]
         /\ Caps(a, b, c, d)[1] = a /\ Caps(a, b, c, d)[2] = b
         /\ Caps(a, b, c, d)[3] = c /\ Caps(a, b, c, d)[4] = d
  BY DEF Caps, CapList

\* What the rules are given: lists, and a latency factor that cites some of them.
Given(current, baseline, deployments, latency, ids) ==
  /\ IsList(current) /\ IsList(baseline) /\ IsList(deployments)
  /\ ids = Ids(current) \cup Ids(deployments)
  /\ latency.growth \in FractionType /\ Ids(latency.largest) \in SUBSET ids

\* What each kind of hypothesis may cite, and the caps of its rules in halves.
LEMMA DatabaseRulesShape ==
  ASSUME NEW current, NEW baseline, NEW deployments, NEW latency, NEW ids,
         Given(current, baseline, deployments, latency, ids),
         NEW s, s = DatabaseRules(current, baseline, deployments, latency)
  PROVE  /\ s \in Seq(ContributionsFrom(ids)) /\ Capped(s, 4, Caps(8, 6, 3, 1))
         /\ s # <<>> => SlowQueries(Factor(Queries(current), Queries(baseline)))
<1> DEFINE db   == Factor(Queries(current), Queries(baseline))
           cpu  == Metric(current, "process.cpu.utilization")
           idle == \A i \in DOMAIN cpu : cpu[i].value < CpuSaturation
           half == Frac(db.growth[1], 2 * db.growth[2])
           caps == Caps(8, 6, 3, 1)
           c1 == Contribution("database_latency_factor", CapFrac(Whole(4), half), db.largest)
           c2 == Contribution("service_latency_factor", CapFrac(Whole(3), latency.growth), latency.largest)
           c3 == Contribution("recent_deployment", Frac(3, 2), Latest(2, deployments))
           c4 == Contribution("no_cpu_saturation", Frac(1, 2), Latest(3, cpu))
           s1 == <<c1>>
           s2 == s1 \o When(SawLatency(latency), c2)
           s3 == s2 \o When(Size(deployments) > 0, c3)
           s4 == s3 \o When(idle, c4)
<1>1. caps \in CapList /\ caps[1] = 8 /\ caps[2] = 6 /\ caps[3] = 3 /\ caps[4] = 1
  BY CapsShape
<1>2. CASE ~SlowQueries(db)
  <2>1. s = <<>>
    BY <1>2 DEF DatabaseRules
  <2> QED BY <2>1 DEF Capped
<1>3. CASE SlowQueries(db)
  <2>1. s = s4
    BY <1>3, Zenon DEF DatabaseRules
  <2>2. IsList(Queries(current)) /\ IsList(Queries(baseline)) /\ Ids(Queries(current)) \in SUBSET ids
    BY QueriesShape, PartIsList DEF Given
  <2>3. db.growth \in FractionType /\ Ids(db.largest) \in SUBSET ids
    BY <2>2, FactorShape
  <2>4. half \in FractionType
    <3> HIDE DEF db
    <3> QED BY <2>3 DEF FractionType, Frac
  <2>5. /\ Ids(Latest(2, deployments)) \in SUBSET ids
        /\ Ids(Latest(3, cpu)) \in SUBSET ids
    <3>1. IsList(cpu) /\ Ids(cpu) \in SUBSET ids
      BY OtherParts, PartIsList DEF Given
    <3> HIDE DEF cpu
    <3> QED BY <3>1, OtherParts, PartIsList DEF Given
  <2>6. /\ Frac(3, 2) \in FractionType /\ AtMostHalves(Frac(3, 2), 3)
        /\ Frac(1, 2) \in FractionType /\ AtMostHalves(Frac(1, 2), 1)
    BY DEF Frac, FractionType, AtMostHalves
  <2>7. /\ c1 \in ContributionsFrom(ids) /\ AtMostHalves(c1.points, caps[1])
        /\ c2 \in ContributionsFrom(ids) /\ AtMostHalves(c2.points, caps[2])
        /\ c3 \in ContributionsFrom(ids) /\ AtMostHalves(c3.points, caps[3])
        /\ c4 \in ContributionsFrom(ids) /\ AtMostHalves(c4.points, caps[4])
    <3> HIDE DEF half, db, cpu, caps
    <3>1. CapFrac(Whole(4), half) \in FractionType /\ AtMostHalves(CapFrac(Whole(4), half), 8)
      BY <2>4, CapShape
    <3>2. CapFrac(Whole(3), latency.growth) \in FractionType
          /\ AtMostHalves(CapFrac(Whole(3), latency.growth), 6)
      BY CapShape DEF Given
    <3>3. c1 \in ContributionsFrom(ids) /\ AtMostHalves(c1.points, caps[1])
      <4>1. c1 = Contribution("database_latency_factor", CapFrac(Whole(4), half), db.largest)
        OBVIOUS
      <4> HIDE DEF c1
      <4>2. "database_latency_factor" \in RuleNames
        BY DEF RuleNames
      <4>3. c1 \in ContributionsFrom(ids) /\ AtMostHalves(c1.points, 8)
        BY <2>3, <3>1, <4>1, <4>2, ContributionShape
      <4> QED BY <1>1, <4>3
    <3>4. c2 \in ContributionsFrom(ids) /\ AtMostHalves(c2.points, caps[2])
      <4>1. c2 = Contribution("service_latency_factor", CapFrac(Whole(3), latency.growth), latency.largest)
        OBVIOUS
      <4> HIDE DEF c2
      <4>2. "service_latency_factor" \in RuleNames
        BY DEF RuleNames
      <4>3. Ids(latency.largest) \in SUBSET ids
        BY DEF Given
      <4>4. c2 \in ContributionsFrom(ids) /\ AtMostHalves(c2.points, 6)
        BY <3>2, <4>1, <4>2, <4>3, ContributionShape
      <4> QED BY <1>1, <4>4
    <3>5. c3 \in ContributionsFrom(ids) /\ AtMostHalves(c3.points, caps[3])
      <4>1. c3 = Contribution("recent_deployment", Frac(3, 2), Latest(2, deployments))
        OBVIOUS
      <4> HIDE DEF c3
      <4>2. "recent_deployment" \in RuleNames
        BY DEF RuleNames
      <4>3. /\ Frac(3, 2) \in FractionType /\ AtMostHalves(Frac(3, 2), 3)
            /\ Ids(Latest(2, deployments)) \in SUBSET ids
        BY <2>5, <2>6
      <4>4. c3 \in ContributionsFrom(ids) /\ AtMostHalves(c3.points, 3)
        BY <4>1, <4>2, <4>3, ContributionShape
      <4> QED BY <1>1, <4>4
    <3>6. c4 \in ContributionsFrom(ids) /\ AtMostHalves(c4.points, caps[4])
      <4>1. c4 = Contribution("no_cpu_saturation", Frac(1, 2), Latest(3, cpu))
        OBVIOUS
      <4> HIDE DEF c4
      <4>2. "no_cpu_saturation" \in RuleNames
        BY DEF RuleNames
      <4>3. /\ Frac(1, 2) \in FractionType /\ AtMostHalves(Frac(1, 2), 1)
            /\ Ids(Latest(3, cpu)) \in SUBSET ids
        BY <2>5, <2>6
      <4>4. c4 \in ContributionsFrom(ids) /\ AtMostHalves(c4.points, 1)
        BY <4>1, <4>2, <4>3 DEF Contribution, ContributionsFrom
      <4> QED BY <1>1, <4>4
    <3> QED BY <3>3, <3>4, <3>5, <3>6
  <2> HIDE DEF c1, c2, c3, c4, caps
  <2>8. s1 \in Seq(ContributionsFrom(ids)) /\ Capped(s1, 1, caps)
    BY <1>1, <2>7, OneContribution
  <2> HIDE DEF s1
  <2>9. s2 \in Seq(ContributionsFrom(ids)) /\ Capped(s2, 2, caps)
    <3>1. SawLatency(latency) \in BOOLEAN
      BY DEF SawLatency, LeqFrac
    <3>2. 1 \in 0..3 /\ 1 + 1 = 2
      OBVIOUS
    <3> QED BY <1>1, <2>7, <2>8, <3>1, <3>2, WhenAdds
  <2> HIDE DEF s2
  <2>10. s3 \in Seq(ContributionsFrom(ids)) /\ Capped(s3, 3, caps)
    <3>1. (Size(deployments) > 0) \in BOOLEAN
      OBVIOUS
    <3>2. 2 \in 0..3 /\ 2 + 1 = 3
      OBVIOUS
    <3> QED BY <1>1, <2>7, <2>9, <3>1, <3>2, WhenAdds
  <2> HIDE DEF s3
  <2>11. s4 \in Seq(ContributionsFrom(ids)) /\ Capped(s4, 4, caps)
    <3>1. idle \in BOOLEAN
      OBVIOUS
    <3> HIDE DEF idle
    <3>2. 3 \in 0..3 /\ 3 + 1 = 4
      OBVIOUS
    <3> QED BY <1>1, <2>7, <2>10, <3>1, <3>2, WhenAdds
  <2> HIDE DEF s4
  <2> QED BY <1>3, <2>1, <2>11 DEF caps
<1> QED BY <1>2, <1>3

LEMMA DeploymentRulesShape ==
  ASSUME NEW current, NEW baseline, NEW deployments, NEW latency, NEW ids,
         Given(current, baseline, deployments, latency, ids),
         NEW s, s = DeploymentRules(current, deployments)
  PROVE  s \in Seq(ContributionsFrom(ids)) /\ Capped(s, 4, Caps(6, 6, 0, 0))
<1> DEFINE errors == OfKind(current, "error")
           many == Frac(Size(errors), 2)
           caps == Caps(6, 6, 0, 0)
           c1 == Contribution("recent_deployment", Whole(3), Latest(2, deployments))
           c2 == Contribution("concurrent_errors", CapFrac(Whole(3), many), Latest(5, errors))
           s1 == <<c1>>
           s2 == s1 \o When(Size(errors) > 0, c2)
<1>1. caps \in CapList /\ caps[1] = 6 /\ caps[2] = 6
  BY CapsShape
<1>2. s = <<>> \/ s = s2
  BY Zenon DEF DeploymentRules
<1>3. IsList(errors) /\ Ids(errors) \in SUBSET ids
  BY OfKindShape, PartIsList DEF Given
<1> HIDE DEF errors
<1>4. Ids(Latest(2, deployments)) \in SUBSET ids /\ Ids(Latest(5, errors)) \in SUBSET ids
  BY <1>3, OtherParts, PartIsList DEF Given
<1>5. many \in FractionType
  BY <1>3, SizeType DEF Frac, FractionType
<1> HIDE DEF many, caps
<1>6. /\ Whole(3) \in FractionType /\ AtMostHalves(Whole(3), 6)
      /\ CapFrac(Whole(3), many) \in FractionType /\ AtMostHalves(CapFrac(Whole(3), many), 6)
  BY <1>5, WholeShape, CapShape
<1>7. c1 \in ContributionsFrom(ids) /\ AtMostHalves(c1.points, caps[1])
  <2>1. c1 = Contribution("recent_deployment", Whole(3), Latest(2, deployments))
    OBVIOUS
  <2> HIDE DEF c1
  <2>2. "recent_deployment" \in RuleNames
    BY DEF RuleNames
  <2>3. c1 \in ContributionsFrom(ids) /\ AtMostHalves(c1.points, 6)
    BY <1>4, <1>6, <2>1, <2>2, ContributionShape
  <2> QED BY <1>1, <2>3
<1>8. c2 \in ContributionsFrom(ids) /\ AtMostHalves(c2.points, caps[2])
  <2>1. c2 = Contribution("concurrent_errors", CapFrac(Whole(3), many), Latest(5, errors))
    OBVIOUS
  <2> HIDE DEF c2
  <2>2. "concurrent_errors" \in RuleNames
    BY DEF RuleNames
  <2>3. c2 \in ContributionsFrom(ids) /\ AtMostHalves(c2.points, 6)
    BY <1>4, <1>6, <2>1, <2>2, ContributionShape
  <2> QED BY <1>1, <2>3
<1> HIDE DEF c1, c2
<1>9. s1 \in Seq(ContributionsFrom(ids)) /\ Capped(s1, 1, caps)
  BY <1>1, <1>7, OneContribution
<1> HIDE DEF s1
<1>10. s2 \in Seq(ContributionsFrom(ids)) /\ Capped(s2, 2, caps)
  <2>1. (Size(errors) > 0) \in BOOLEAN
    OBVIOUS
  <2>2. 1 \in 0..3 /\ 1 + 1 = 2
    OBVIOUS
  <2> QED BY <1>1, <1>8, <1>9, <2>1, <2>2, WhenAdds
<1> HIDE DEF s2
<1>11. CASE s = <<>>
  BY <1>11 DEF Capped
<1>12. CASE s = s2
  <2>1. Len(s2) \in Nat
    BY <1>10
  <2> QED BY <1>10, <1>12, <2>1 DEF Capped, caps
<1> QED BY <1>2, <1>11, <1>12

LEMMA MemoryRulesShape ==
  ASSUME NEW current, NEW baseline, NEW deployments, NEW latency, NEW ids,
         Given(current, baseline, deployments, latency, ids),
         NEW s, s = MemoryRules(current, baseline, latency)
  PROVE  s \in Seq(ContributionsFrom(ids)) /\ Capped(s, 4, Caps(8, 6, 0, 0))
<1> DEFINE memory == Factor(Metric(current, "process.memory.usage"),
                            Metric(baseline, "process.memory.usage"))
           caps == Caps(8, 6, 0, 0)
           c1 == Contribution("memory_growth", CapFrac(Whole(4), memory.growth), memory.largest)
           c2 == Contribution("concurrent_latency", CapFrac(Whole(3), latency.growth), latency.largest)
           s2 == <<c1, c2>>
<1>1. caps[1] = 8 /\ caps[2] = 6
  BY CapsShape
<1>2. s = <<>> \/ s = s2
  BY Zenon DEF MemoryRules
<1>3. memory.growth \in FractionType /\ Ids(memory.largest) \in SUBSET ids
  <2>1. /\ IsList(Metric(current, "process.memory.usage"))
        /\ IsList(Metric(baseline, "process.memory.usage"))
        /\ Ids(Metric(current, "process.memory.usage")) \in SUBSET ids
    BY OtherParts, PartIsList DEF Given
  <2> QED BY <2>1, FactorShape
<1> HIDE DEF memory, caps
<1>4. latency.growth \in FractionType /\ Ids(latency.largest) \in SUBSET ids
  BY DEF Given
<1>5. /\ CapFrac(Whole(4), memory.growth) \in FractionType
      /\ AtMostHalves(CapFrac(Whole(4), memory.growth), 8)
      /\ CapFrac(Whole(3), latency.growth) \in FractionType
      /\ AtMostHalves(CapFrac(Whole(3), latency.growth), 6)
  BY <1>3, <1>4, CapShape
<1>6. c1 \in ContributionsFrom(ids) /\ AtMostHalves(c1.points, 8)
  <2>1. c1 = Contribution("memory_growth", CapFrac(Whole(4), memory.growth), memory.largest)
    OBVIOUS
  <2> HIDE DEF c1
  <2>2. "memory_growth" \in RuleNames
    BY DEF RuleNames
  <2> QED BY <1>3, <1>5, <2>1, <2>2, ContributionShape
<1>7. c2 \in ContributionsFrom(ids) /\ AtMostHalves(c2.points, 6)
  <2>1. c2 = Contribution("concurrent_latency", CapFrac(Whole(3), latency.growth), latency.largest)
    OBVIOUS
  <2> HIDE DEF c2
  <2>2. "concurrent_latency" \in RuleNames
    BY DEF RuleNames
  <2> QED BY <1>4, <1>5, <2>1, <2>2, ContributionShape
<1> HIDE DEF c1, c2
<1>8. s2 \in Seq(ContributionsFrom(ids)) /\ Len(s2) = 2 /\ s2[1] = c1 /\ s2[2] = c2
  BY <1>6, <1>7
<1> HIDE DEF s2
<1>9. CASE s = <<>>
  BY <1>9 DEF Capped
<1>10. CASE s = s2
  <2>1. ASSUME NEW i \in 1..Len(s2) PROVE AtMostHalves(s2[i].points, caps[i])
    <3>1. i = 1 \/ i = 2
      BY <1>8
    <3> QED BY <1>1, <1>6, <1>7, <1>8, <3>1
  <2>2. Capped(s2, 4, caps)
    BY <1>8, <2>1 DEF Capped
  <2> QED BY <1>8, <1>10, <2>2 DEF caps
<1> QED BY <1>2, <1>9, <1>10

LEMMA DependencyRulesShape ==
  ASSUME NEW current, NEW baseline, NEW deployments, NEW latency, NEW ids,
         Given(current, baseline, deployments, latency, ids),
         NEW s, s = DependencyRules(current)
  PROVE  s \in Seq(ContributionsFrom(ids)) /\ Capped(s, 4, Caps(12, 0, 0, 0))
<1> DEFINE failed == FailedCalls(current)
           many == Frac(3 * Size(failed), 2)
           caps == Caps(12, 0, 0, 0)
           c1 == Contribution("failed_client_spans", CapFrac(Whole(6), many), Latest(5, failed))
           s1 == <<c1>>
<1>1. caps \in CapList /\ caps[1] = 12
  BY CapsShape
<1>2. s = <<>> \/ s = s1
  BY Zenon DEF DependencyRules, When
<1>3. IsList(failed) /\ Ids(failed) \in SUBSET ids
  BY OtherParts, PartIsList DEF Given
<1> HIDE DEF failed
<1>4. Ids(Latest(5, failed)) \in SUBSET ids
  BY <1>3, OtherParts, PartIsList
<1>5. many \in FractionType
  BY <1>3, SizeType DEF Frac, FractionType
<1> HIDE DEF many, caps
<1>6. CapFrac(Whole(6), many) \in FractionType /\ AtMostHalves(CapFrac(Whole(6), many), 12)
  BY <1>5, CapShape
<1>7. c1 \in ContributionsFrom(ids) /\ AtMostHalves(c1.points, caps[1])
  <2>1. c1 = Contribution("failed_client_spans", CapFrac(Whole(6), many), Latest(5, failed))
    OBVIOUS
  <2> HIDE DEF c1
  <2>2. "failed_client_spans" \in RuleNames
    BY DEF RuleNames
  <2>3. c1 \in ContributionsFrom(ids) /\ AtMostHalves(c1.points, 12)
    BY <1>4, <1>6, <2>1, <2>2, ContributionShape
  <2> QED BY <1>1, <2>3
<1> HIDE DEF c1
<1>8. s1 \in Seq(ContributionsFrom(ids)) /\ Capped(s1, 1, caps)
  BY <1>1, <1>7, OneContribution
<1> HIDE DEF s1
<1>9. CASE s = <<>>
  BY <1>9 DEF Capped
<1>10. CASE s = s1
  <2>1. Len(s1) \in Nat
    BY <1>8
  <2> QED BY <1>8, <1>10, <2>1 DEF Capped, caps
<1> QED BY <1>2, <1>9, <1>10

------------------------------------------------------------------------------
(* Candidates: the j-th rule set of the n-th service, if it applies. *)

TitleAt(j) ==
  IF j = 0 THEN "Database interaction regression"
  ELSE IF j = 1 THEN "Bad deployment"
  ELSE IF j = 2 THEN "Memory pressure causing processing degradation"
  ELSE "Downstream dependency outage"

\* Their caps sum to 9, 6, 7 and 6 points.
CapsAt(j) ==
  IF j = 0 THEN Caps(8, 6, 3, 1) ELSE IF j = 1 THEN Caps(6, 6, 0, 0)
  ELSE IF j = 2 THEN Caps(8, 6, 0, 0) ELSE Caps(12, 0, 0, 0)
HalvesAt(j) == IF j = 0 THEN 18 ELSE IF j = 2 THEN 14 ELSE 12

LatencyOf(service, baseline, current) ==
  Factor(OfKind(OfService(current, service), "span"), OfKind(OfService(baseline, service), "span"))

RulesAt(j, service, baseline, current, hour, now) ==
  IF j = 0 THEN DatabaseRules(OfService(current, service), OfService(baseline, service),
                              RecentDeployments(service, hour, now),
                              LatencyOf(service, baseline, current))
  ELSE IF j = 1 THEN DeploymentRules(OfService(current, service), RecentDeployments(service, hour, now))
  ELSE IF j = 2 THEN MemoryRules(OfService(current, service), OfService(baseline, service),
                                 LatencyOf(service, baseline, current))
  ELSE DependencyRules(OfService(current, service))

\* What a hypothesis about a service may cite.
Citable(service, current, hour, now) ==
  Ids(OfService(current, service)) \cup Ids(RecentDeployments(service, hour, now))

\* A candidate is found at the j-th place of the n-th service.
FoundAt(c, n, j, baseline, current, hour, now) ==
  /\ RulesAt(j, ServiceOrder[n], baseline, current, hour, now) # <<>>
  /\ c = [found |-> 4 * n + j, title |-> TitleAt(j), service |-> ServiceOrder[n],
          score |-> Score(RulesAt(j, ServiceOrder[n], baseline, current, hour, now)),
          contributions |-> RulesAt(j, ServiceOrder[n], baseline, current, hour, now)]

LEMMA HypothesisShape ==
  ASSUME NEW found, NEW title, NEW service, NEW contributions,
         NEW c \in Hypothesis(found, title, service, contributions)
  PROVE  /\ contributions # <<>>
         /\ c = [found |-> found, title |-> title, service |-> service,
                 score |-> Score(contributions), contributions |-> contributions]
  BY Zenon DEF Hypothesis

\* Every candidate was found by one of the four rule sets of one service.
LEMMA CandidateOrigin ==
  ASSUME NEW baseline, NEW current, NEW hour, NEW now, NEW c \in Candidates(baseline, current, hour, now)
  PROVE  \E n \in DOMAIN ServiceOrder, j \in 0..3 : FoundAt(c, n, j, baseline, current, hour, now)
<1>1. PICK n \in DOMAIN ServiceOrder :
        c \in CandidatesOf(n, ServiceOrder[n], baseline, current, hour, now)
  BY DEF Candidates
<1> DEFINE Rules(j) == RulesAt(j, ServiceOrder[n], baseline, current, hour, now)
<1>2. n \in Nat
  BY ServicesAssumption
<1>3. \/ c \in Hypothesis(4 * n, "Database interaction regression", ServiceOrder[n], Rules(0))
      \/ c \in Hypothesis(4 * n + 1, "Bad deployment", ServiceOrder[n], Rules(1))
      \/ c \in Hypothesis(4 * n + 2, "Memory pressure causing processing degradation",
                          ServiceOrder[n], Rules(2))
      \/ c \in Hypothesis(4 * n + 3, "Downstream dependency outage", ServiceOrder[n], Rules(3))
  <2>1. /\ Rules(0) = DatabaseRules(OfService(current, ServiceOrder[n]), OfService(baseline, ServiceOrder[n]),
                                    RecentDeployments(ServiceOrder[n], hour, now),
                                    LatencyOf(ServiceOrder[n], baseline, current))
        /\ Rules(1) = DeploymentRules(OfService(current, ServiceOrder[n]),
                                      RecentDeployments(ServiceOrder[n], hour, now))
        /\ Rules(2) = MemoryRules(OfService(current, ServiceOrder[n]), OfService(baseline, ServiceOrder[n]),
                                  LatencyOf(ServiceOrder[n], baseline, current))
        /\ Rules(3) = DependencyRules(OfService(current, ServiceOrder[n]))
    BY DEF RulesAt
  <2> HIDE DEF Rules
  <2> QED BY <1>1, <2>1, Zenon DEF CandidatesOf, LatencyOf
<1> HIDE DEF Rules
<1>4. /\ TitleAt(0) = "Database interaction regression" /\ TitleAt(1) = "Bad deployment"
      /\ TitleAt(2) = "Memory pressure causing processing degradation"
      /\ TitleAt(3) = "Downstream dependency outage"
  BY DEF TitleAt
<1>5. \E j \in 0..3 : c \in Hypothesis(4 * n + j, TitleAt(j), ServiceOrder[n], Rules(j))
  <2>1. CASE c \in Hypothesis(4 * n, "Database interaction regression", ServiceOrder[n], Rules(0))
    <3>1. 4 * n + 0 = 4 * n /\ 0 \in 0..3
      BY <1>2
    <3> QED BY <1>4, <2>1, <3>1
  <2>2. CASE ~(c \in Hypothesis(4 * n, "Database interaction regression", ServiceOrder[n], Rules(0)))
    <3>1. 1 \in 0..3 /\ 2 \in 0..3 /\ 3 \in 0..3
      OBVIOUS
    <3> QED BY <1>3, <1>4, <2>2, <3>1, Zenon
  <2> QED BY <2>1, <2>2
<1>6. PICK j \in 0..3 : c \in Hypothesis(4 * n + j, TitleAt(j), ServiceOrder[n], Rules(j))
  BY <1>5
<1>7. /\ Rules(j) # <<>>
      /\ c = [found |-> 4 * n + j, title |-> TitleAt(j), service |-> ServiceOrder[n],
              score |-> Score(Rules(j)), contributions |-> Rules(j)]
  BY <1>6, HypothesisShape
<1> QED BY <1>7 DEF FoundAt, Rules

LEMMA RulesShape ==
  ASSUME NEW baseline, IsList(baseline), NEW current, IsList(current), NEW hour, IsList(hour),
         NEW now, NEW service, NEW j \in 0..3,
         NEW s, s = RulesAt(j, service, baseline, current, hour, now)
  PROVE  /\ s \in Seq(ContributionsFrom(Citable(service, current, hour, now)))
         /\ Capped(s, 4, CapsAt(j))
         /\ j = 0 /\ s # <<>> => SlowQueries(Factor(Queries(OfService(current, service)),
                                                    Queries(OfService(baseline, service))))
<1> DEFINE cur  == OfService(current, service)
           base == OfService(baseline, service)
           deployments == RecentDeployments(service, hour, now)
           latency == LatencyOf(service, baseline, current)
           ids  == Ids(cur) \cup Ids(deployments)
<1>1. IsList(cur) /\ IsList(base)
  BY OfServiceShape, PartIsList
<1>2. IsList(deployments)
  <2> DEFINE markers == OfKind(hour, "deployment")
             late == Between(markers, now - DeploymentWindow, now)
  <2>1. IsList(markers)
    BY OfKindShape, PartIsList
  <2> HIDE DEF markers
  <2>2. IsList(late)
    BY <2>1, BetweenShape, PartIsList
  <2>3. deployments = OfService(late, service)
    BY DEF RecentDeployments, markers
  <2> HIDE DEF late
  <2> QED BY <2>2, <2>3, OfServiceShape, PartIsList
<1>3. latency.growth \in FractionType /\ Ids(latency.largest) \in SUBSET Ids(cur)
  <2>1. /\ IsList(OfKind(cur, "span")) /\ IsList(OfKind(base, "span"))
        /\ Ids(OfKind(cur, "span")) \in SUBSET Ids(cur)
    BY <1>1, OfKindShape, PartIsList
  <2>2. latency = Factor(OfKind(cur, "span"), OfKind(base, "span"))
    BY DEF LatencyOf
  <2> HIDE DEF latency, cur, base
  <2> QED BY <2>1, <2>2, FactorShape
<1>4. Given(cur, base, deployments, latency, ids)
  BY <1>1, <1>2, <1>3 DEF Given
<1>5. ids = Citable(service, current, hour, now)
  BY DEF Citable
<1>6. CASE j = 0
  <2>1. s = DatabaseRules(cur, base, deployments, latency) /\ CapsAt(j) = Caps(8, 6, 3, 1)
    BY <1>6 DEF RulesAt, CapsAt
  <2> HIDE DEF cur, base, deployments, latency, ids
  <2>2. /\ s \in Seq(ContributionsFrom(ids)) /\ Capped(s, 4, Caps(8, 6, 3, 1))
        /\ s # <<>> => SlowQueries(Factor(Queries(cur), Queries(base)))
    BY <1>4, <2>1, DatabaseRulesShape
  <2> QED BY <1>5, <2>1, <2>2 DEF cur, base
<1>7. CASE j = 1
  <2>1. s = DeploymentRules(cur, deployments) /\ CapsAt(j) = Caps(6, 6, 0, 0)
    BY <1>7 DEF RulesAt, CapsAt
  <2> HIDE DEF cur, base, deployments, latency, ids
  <2>2. s \in Seq(ContributionsFrom(ids)) /\ Capped(s, 4, Caps(6, 6, 0, 0))
    BY <1>4, <2>1, DeploymentRulesShape
  <2> QED BY <1>5, <1>7, <2>1, <2>2
<1>8. CASE j = 2
  <2>1. s = MemoryRules(cur, base, latency) /\ CapsAt(j) = Caps(8, 6, 0, 0)
    BY <1>8 DEF RulesAt, CapsAt
  <2> HIDE DEF cur, base, deployments, latency, ids
  <2>2. s \in Seq(ContributionsFrom(ids)) /\ Capped(s, 4, Caps(8, 6, 0, 0))
    BY <1>4, <2>1, MemoryRulesShape
  <2> QED BY <1>5, <1>8, <2>1, <2>2
<1>9. CASE j = 3
  <2>1. s = DependencyRules(cur) /\ CapsAt(j) = Caps(12, 0, 0, 0)
    BY <1>9 DEF RulesAt, CapsAt
  <2> HIDE DEF cur, base, deployments, latency, ids
  <2>2. s \in Seq(ContributionsFrom(ids)) /\ Capped(s, 4, Caps(12, 0, 0, 0))
    BY <1>4, <2>1, DependencyRulesShape
  <2> QED BY <1>5, <1>9, <2>1, <2>2
<1> QED BY <1>6, <1>7, <1>8, <1>9

\* What a candidate is made of: it cites evidence of its own service only, and
\* its score is at most the cap of its title.
LEMMA CandidateShape ==
  ASSUME NEW baseline, IsList(baseline), NEW current, IsList(current), NEW hour, IsList(hour),
         NEW now, NEW c \in Candidates(baseline, current, hour, now)
  PROVE  \E n \in DOMAIN ServiceOrder, j \in 0..3 :
           /\ FoundAt(c, n, j, baseline, current, hour, now)
           /\ c.found = 4 * n + j /\ c.title = TitleAt(j) /\ c.service = ServiceOrder[n]
           /\ c.score \in FractionType /\ AtMostHalves(c.score, HalvesAt(j))
           /\ CitedBy(c) \in SUBSET Citable(c.service, current, hour, now)
           /\ j = 0 => SlowQueries(Factor(Queries(OfService(current, c.service)),
                                          Queries(OfService(baseline, c.service))))
<1>1. PICK n \in DOMAIN ServiceOrder, j \in 0..3 : FoundAt(c, n, j, baseline, current, hour, now)
  BY CandidateOrigin
<1> DEFINE s   == RulesAt(j, ServiceOrder[n], baseline, current, hour, now)
           ids == Citable(ServiceOrder[n], current, hour, now)
<1>2. /\ c.found = 4 * n + j /\ c.title = TitleAt(j) /\ c.service = ServiceOrder[n]
      /\ c.score = Score(s) /\ c.contributions = s /\ s # <<>>
  BY <1>1 DEF FoundAt
<1>3. /\ s \in Seq(ContributionsFrom(ids)) /\ Capped(s, 4, CapsAt(j))
      /\ j = 0 /\ s # <<>> => SlowQueries(Factor(Queries(OfService(current, ServiceOrder[n])),
                                                 Queries(OfService(baseline, ServiceOrder[n]))))
  BY RulesShape
<1> HIDE DEF s, ids
<1>4. /\ CapsAt(j) \in [1..4 -> Nat]
      /\ CapsAt(j)[1] + CapsAt(j)[2] + CapsAt(j)[3] + CapsAt(j)[4] = HalvesAt(j)
  BY DEF CapsAt, HalvesAt, Caps
<1>5. c.score \in FractionType /\ AtMostHalves(c.score, HalvesAt(j))
  BY <1>2, <1>3, <1>4, ScoreShape
<1>6. CitedBy(c) \in SUBSET ids
  <2>1. \A i \in DOMAIN s : s[i].evidence_ids \in SUBSET ids
    <3>1. \A i \in DOMAIN s : s[i] \in ContributionsFrom(ids)
      BY <1>3
    <3> QED BY <3>1 DEF ContributionsFrom
  <2> QED BY <1>2, <2>1 DEF CitedBy
<1> QED BY <1>1, <1>2, <1>3, <1>5, <1>6 DEF ids

\* The place where a candidate was found tells it from the others.
LEMMA FoundTells ==
  ASSUME NEW baseline, NEW current, NEW hour, NEW now,
         NEW c \in Candidates(baseline, current, hour, now),
         NEW d \in Candidates(baseline, current, hour, now)
  PROVE  /\ c.found \in 0..(4 * Len(ServiceOrder) + 3)
         /\ c.found = d.found => c = d
<1>1. PICK n \in DOMAIN ServiceOrder, j \in 0..3 : FoundAt(c, n, j, baseline, current, hour, now)
  BY CandidateOrigin
<1>2. PICK m \in DOMAIN ServiceOrder, k \in 0..3 : FoundAt(d, m, k, baseline, current, hour, now)
  BY CandidateOrigin
<1>3. n \in 1..Len(ServiceOrder) /\ m \in 1..Len(ServiceOrder) /\ Len(ServiceOrder) \in Nat
  BY ServicesAssumption
<1>4. c.found = 4 * n + j /\ d.found = 4 * m + k
  BY <1>1, <1>2 DEF FoundAt
<1>5. c.found = d.found => n = m /\ j = k
  <2>1. \A a, b \in Int, g, h \in 0..3 : 4 * a + g = 4 * b + h => a = b /\ g = h
    OBVIOUS
  <2>2. n \in Int /\ m \in Int
    BY <1>3
  <2> QED BY <1>4, <2>1, <2>2
<1>6. n = m /\ j = k => c = d
  BY <1>1, <1>2 DEF FoundAt
<1> QED BY <1>3, <1>4, <1>5, <1>6

\* Candidates are told apart by a number below a bound, hence there are finitely many.
LEMMA CandidatesFinite ==
  ASSUME NEW baseline, NEW current, NEW hour, NEW now
  PROVE  IsFiniteSet(Candidates(baseline, current, hour, now))
<1> DEFINE S == Candidates(baseline, current, hour, now)
           bound == 4 * Len(ServiceOrder) + 3
           f == [c \in S |-> c.found]
<1>1. bound \in Nat
  BY ServicesAssumption
<1>2. f \in [S -> 0..bound] /\ \A c, d \in S : f[c] = f[d] => c = d
  BY FoundTells
<1> HIDE DEF S, f, bound
<1>3. f \in Injection(S, 0..bound)
  BY <1>2, Fun_IsInj
<1>4. IsFiniteSet(0..bound)
  BY <1>1, FS_Interval
<1> QED BY <1>3, <1>4, FS_Injection DEF S

\* The engine's order of candidates is a strict total order.
BetterOrder(S) == {p \in S \X S : Better(p[1], p[2])}

\* Candidates at different places are strictly and totally ordered by Better.
LEMMA BetterIsOrder ==
  ASSUME NEW S, \A c \in S : c.score \in FractionType /\ c.found \in Int,
         \A c, d \in S : c.found = d.found => c = d
  PROVE  /\ StrictOrder(S, BetterOrder(S))
         /\ \A c, d \in S : <<c, d>> \in BetterOrder(S) <=> Better(c, d)
         /\ \A c, d \in S : Better(c, d) => LeqFrac(d.score, c.score)
<1>1. \A c, d \in S : <<c, d>> \in BetterOrder(S) <=> Better(c, d)
  BY DEF BetterOrder
<1>2. \A c \in S : /\ c.score[1] \in Int /\ c.score[2] \in Int /\ c.score[2] > 0 /\ c.found \in Int
  BY FractionParts
<1>3. \A c \in S : ~Better(c, c)
  BY <1>2 DEF Better, LessFrac, EqFrac
<1>4. ASSUME NEW c \in S, NEW d \in S, c # d PROVE Better(c, d) \/ Better(d, c)
  <2>1. c.found # d.found
    BY <1>4
  <2>2. \A a, b \in Int : a < b \/ b < a \/ a = b
    OBVIOUS
  <2>3. c.score[1] * d.score[2] \in Int /\ d.score[1] * c.score[2] \in Int
    BY <1>2
  <2> QED BY <1>2, <2>1, <2>2, <2>3 DEF Better, LessFrac, EqFrac
<1>5. ASSUME NEW c \in S, NEW d \in S, NEW e \in S, Better(c, d), Better(d, e) PROVE Better(c, e)
  <2> DEFINE a == c.score[1]
             p == c.score[2]
             b == d.score[1]
             q == d.score[2]
             h == e.score[1]
             r == e.score[2]
  <2>1. /\ a \in Int /\ b \in Int /\ h \in Int /\ p \in Int /\ q \in Int /\ r \in Int
        /\ p > 0 /\ q > 0 /\ r > 0
    BY <1>2
  <2>2. /\ b * p < a * q \/ (a * q = b * p /\ c.found < d.found)
        /\ h * q < b * r \/ (b * r = h * q /\ d.found < e.found)
    BY <1>5 DEF Better, LessFrac, EqFrac
  <2>3. Better(c, e) <=> h * p < a * r \/ (a * r = h * p /\ c.found < e.found)
    BY DEF Better, LessFrac, EqFrac
  <2>4. c.found \in Int /\ d.found \in Int /\ e.found \in Int
    BY <1>2
  <2> HIDE DEF a, b, h, p, q, r
  <2>5. h * p < a * r \/ a * r = h * p
    <3>1. /\ h * q < b * r /\ b * p < a * q => h * p < a * r
          /\ h * q = b * r /\ b * p < a * q => h * p < a * r
          /\ h * q < b * r /\ b * p = a * q => h * p < a * r
          /\ h * q = b * r /\ b * p = a * q => h * p = a * r
      BY <2>1, LessIsTransitive
    <3> QED BY <2>2, <3>1
  <2>6. a * r = h * p => c.found < e.found
    <3>1. /\ h * q < b * r /\ b * p < a * q => h * p < a * r
          /\ h * q = b * r /\ b * p < a * q => h * p < a * r
          /\ h * q < b * r /\ b * p = a * q => h * p < a * r
      BY <2>1, LessIsTransitive
    <3>2. a * r \in Int /\ h * p \in Int
      BY <2>1
    <3>3. ~(h * p < a * r /\ a * r = h * p)
      BY <3>2
    <3>4. a * r = h * p => c.found < d.found /\ d.found < e.found
      BY <2>2, <3>1, <3>3
    <3> QED BY <2>4, <3>4
  <2> QED BY <2>3, <2>5, <2>6
<1>6. \A c, d \in S : Better(c, d) => LeqFrac(d.score, c.score)
  BY <1>2 DEF Better, LessFrac, EqFrac, LeqFrac
<1>7. StrictOrder(S, BetterOrder(S))
  <2> HIDE DEF BetterOrder
  <2>1. \A x \in S : <<x, x>> \notin BetterOrder(S)
    BY <1>1, <1>3
  <2>2. \A x, y \in S : x # y => <<x, y>> \in BetterOrder(S) \/ <<y, x>> \in BetterOrder(S)
    BY <1>1, <1>4
  <2>3. \A x, y, z \in S : <<x, y>> \in BetterOrder(S) /\ <<y, z>> \in BetterOrder(S)
                             => <<x, z>> \in BetterOrder(S)
    BY <1>1, <1>5
  <2> QED BY <2>1, <2>2, <2>3 DEF StrictOrder
<1> QED BY <1>1, <1>6, <1>7

LEMMA BetterOrdered ==
  ASSUME NEW S, IsFiniteSet(S), StrictOrder(S, BetterOrder(S)), NEW t, t = Ordered(S, Better)
  PROVE  IsSort(t, S, BetterOrder(S))
<1> DEFINE BestAt(k) == CHOOSE x \in S : 1 + Cardinality({y \in S : Better(y, x)}) = k
<1>1. t = [k \in 1..Cardinality(S) |-> BestAt(k)]
  BY DEF Ordered, AtPlace, Place
<1>2. \A x \in S : {y \in S : <<y, x>> \in BetterOrder(S)} = {y \in S : Better(y, x)}
  BY DEF BetterOrder
<1>3. \A x \in S : Rank(S, BetterOrder(S), x) = 1 + Cardinality({y \in S : Better(y, x)})
  BY <1>2 DEF Rank
<1>4. ASSUME NEW k \in 1..Cardinality(S)
      PROVE  BestAt(k) \in S /\ Rank(S, BetterOrder(S), BestAt(k)) = k
  <2>1. \E x \in S : Rank(S, BetterOrder(S), x) = k
    BY RankShape
  <2>2. \E x \in S : 1 + Cardinality({y \in S : Better(y, x)}) = k
    BY <1>3, <2>1
  <2>3. BestAt(k) \in S /\ 1 + Cardinality({y \in S : Better(y, BestAt(k))}) = k
    BY <2>2, Zenon
  <2> QED BY <1>3, <2>3
<1> HIDE DEF BestAt
<1> QED BY <1>1, <1>4 DEF IsSort

\* The hypotheses are the five best candidates, or all when they are fewer.
KeepsBest(kept, all) ==
  /\ kept \in Seq(all)
  /\ Len(kept) = IF Cardinality(all) < 5 THEN Cardinality(all) ELSE 5
  /\ \A k, l \in DOMAIN kept : k <= l => LeqFrac(kept[l].score, kept[k].score)
  /\ \A k \in DOMAIN kept : \A c \in all :
       (\A l \in DOMAIN kept : kept[l] # c) => LeqFrac(c.score, kept[k].score)

\* The candidates in the order of their sort.
LEMMA CandidatesSorted ==
  ASSUME NEW baseline, IsList(baseline), NEW current, IsList(current), NEW hour, IsList(hour), NEW now,
         NEW all, all = Candidates(baseline, current, hour, now)
  PROVE  /\ IsFiniteSet(all)
         /\ \A c \in all : c.score \in FractionType /\ c.found \in Int
         /\ \A c, d \in all : c.found = d.found => c = d
         /\ StrictOrder(all, BetterOrder(all))
         /\ \A c, d \in all : <<c, d>> \in BetterOrder(all) => LeqFrac(d.score, c.score)
         /\ IsSort(Ordered(all, Better), all, BetterOrder(all))
<1> DEFINE R == BetterOrder(all)
<1>1. IsFiniteSet(all)
  BY CandidatesFinite
<1>2. \A c \in all : c.score \in FractionType /\ c.found \in Int
  <2>1. \A c \in all : c.score \in FractionType
    BY CandidateShape
  <2>2. \A c \in all : c.found \in 0..(4 * Len(ServiceOrder) + 3)
    BY FoundTells
  <2> QED BY <2>1, <2>2
<1>3. \A c, d \in all : c.found = d.found => c = d
  BY FoundTells
<1>4. /\ StrictOrder(all, R)
      /\ \A c, d \in all : <<c, d>> \in R => LeqFrac(d.score, c.score)
  BY <1>2, <1>3, BetterIsOrder
<1>5. IsSort(Ordered(all, Better), all, R)
  BY <1>1, <1>4, BetterOrdered
<1> QED BY <1>1, <1>2, <1>3, <1>4, <1>5

\* The ranking keeps the five best candidates, or all.
LEMMA HypothesesShape ==
  ASSUME NEW baseline, IsList(baseline), NEW current, IsList(current), NEW hour, IsList(hour), NEW now,
         NEW all, all = Candidates(baseline, current, hour, now),
         NEW kept, kept = RankHypotheses(baseline, current, hour, now)
  PROVE  KeepsBest(kept, all)
<1> DEFINE R == BetterOrder(all)
           t == Ordered(all, Better)
<1>1. IsFiniteSet(all)
  BY CandidatesFinite
<1>2. \A c \in all : c.score \in FractionType /\ c.found \in Int
  BY CandidatesSorted
<1>4. /\ StrictOrder(all, R)
      /\ \A c, d \in all : <<c, d>> \in R => LeqFrac(d.score, c.score)
  BY CandidatesSorted
<1>5. IsSort(t, all, R)
  BY CandidatesSorted
<1>6. kept = FirstOf(5, t)
  BY DEF RankHypotheses
<1> HIDE DEF R, t
<1>7. /\ kept \in Seq(all)
      /\ Len(kept) = IF Cardinality(all) < 5 THEN Cardinality(all) ELSE 5
      /\ \A k, l \in DOMAIN kept : k < l => <<kept[k], kept[l]>> \in R
      /\ \A k \in DOMAIN kept : \A x \in all :
           (\A l \in DOMAIN kept : kept[l] # x) => <<kept[k], x>> \in R
  <2>1. Leads(FirstOf(5, t), all, R, 5)
    BY <1>1, <1>4, <1>5, TopShape
  <2> QED BY <1>6, <2>1 DEF Leads
<1>8. \A k \in DOMAIN kept : k \in Int /\ kept[k] \in all
  BY <1>7, ElementOfSeq
<1>9. ASSUME NEW k \in DOMAIN kept, NEW l \in DOMAIN kept, k <= l
      PROVE  LeqFrac(kept[l].score, kept[k].score)
  <2>1. CASE k = l
    <3>1. kept[k].score[1] \in Int /\ kept[k].score[2] \in Int
      BY <1>2, <1>8, FractionParts
    <3> QED BY <2>1, <3>1 DEF LeqFrac
  <2>2. CASE k # l
    <3>1. k < l
      BY <1>8, <1>9, <2>2
    <3> QED BY <1>4, <1>7, <1>8, <3>1
  <2> QED BY <2>1, <2>2
<1>10. ASSUME NEW k \in DOMAIN kept, NEW c \in all, \A l \in DOMAIN kept : kept[l] # c
       PROVE  LeqFrac(c.score, kept[k].score)
  BY <1>4, <1>7, <1>8, <1>10
<1> QED BY <1>7, <1>9, <1>10 DEF KeepsBest

LEMMA QueriesOfPart ==
  ASSUME NEW list, NEW part, IsList(part), PartOf(part, list), NEW service
  PROVE  /\ IsList(Queries(OfService(part, service))) /\ PartOf(Queries(OfService(part, service)), list)
         /\ \A i \in DOMAIN list : i \in DOMAIN Queries(OfService(part, service)) <=>
              /\ list[i].db /\ list[i].kind = "span" /\ list[i].service = service
              /\ i \in DOMAIN part
<1> DEFINE mine == OfService(part, service)
           queries == Queries(mine)
<1>1. PartOf(mine, part) /\ \A i \in DOMAIN part : i \in DOMAIN mine <=> part[i].service = service
  BY OfServiceShape
<1>2. IsList(mine)
  BY <1>1, PartIsList
<1>3. PartOf(queries, mine) /\ \A i \in DOMAIN mine : i \in DOMAIN queries <=> mine[i].kind = "span" /\ mine[i].db
  BY QueriesShape
<1> HIDE DEF mine
<1>4. IsList(queries)
  BY <1>2, <1>3, PartIsList
<1> HIDE DEF queries
<1>5. PartOf(queries, list)
  BY <1>1, <1>3, PartOfPart
<1>6. ASSUME NEW i \in DOMAIN list
      PROVE  i \in DOMAIN queries <=>
               /\ list[i].db /\ list[i].kind = "span" /\ list[i].service = service
               /\ i \in DOMAIN part
  BY <1>1, <1>3, <1>6 DEF PartOf
<1> QED BY <1>4, <1>5, <1>6 DEF queries, mine

------------------------------------------------------------------------------
(* The timeline. *)

MarkerEvents(part) ==
  {Event(part[i].timestamp, i, "marker", {part[i].evidence_id}) :
     i \in {j \in DOMAIN part : part[j].kind \in MarkerKinds}}

AlertEvents(n, now, statuses) ==
  IF \E k \in DOMAIN statuses : statuses[k].alerting
  THEN {Event(now - AlertLead, n + 1, "burn alert", {})} ELSE {}

CauseEvents(n, now, hypotheses) ==
  IF hypotheses # <<>>
  THEN {Event(now + Gap, n + 3, "suspected root cause", CitedBy(Head(hypotheses)))} ELSE {}

TimelineEvents(n, baseline, current, hypotheses, now, statuses) ==
  UNION {MarkerEvents(baseline), MarkerEvents(current), AlertEvents(n, now, statuses),
         {Event(now, n + 2, "incident created", {})}, CauseEvents(n, now, hypotheses)}

\* An event of the timeline: where it was found tells what it is.
IsEvent(e, list, n, now, cited) ==
  \/ /\ e.found \in 1..n
     /\ e = Event(list[e.found].timestamp, e.found, "marker", {list[e.found].evidence_id})
     /\ list[e.found].timestamp \in Int /\ list[e.found].timestamp <= now
  \/ e = Event(now - AlertLead, n + 1, "burn alert", {})
  \/ e = Event(now, n + 2, "incident created", {})
  \/ e = Event(now + Gap, n + 3, "suspected root cause", cited)

\* The events the code collects are of the four kinds.
LEMMA MarkerShape ==
  ASSUME NEW list, NEW n, NEW now \in Int, NEW cited, DOMAIN list = 1..n,
         NEW part, PartOf(part, list),
         \A i \in DOMAIN part : part[i].timestamp \in Int /\ part[i].timestamp <= now,
         NEW e \in MarkerEvents(part)
  PROVE  IsEvent(e, list, n, now, cited)
<1>1. PICK i \in DOMAIN part : e = Event(part[i].timestamp, i, "marker", {part[i].evidence_id})
  BY DEF MarkerEvents
<1>2. i \in 1..n /\ part[i] = list[i]
  BY DEF PartOf
<1>3. e.found = i
  BY <1>1 DEF Event
<1> QED BY <1>1, <1>2, <1>3 DEF IsEvent

LEMMA EventShape ==
  ASSUME NEW list, NEW n \in Nat, NEW now \in Int, DOMAIN list = 1..n,
         NEW baseline, PartOf(baseline, list),
         \A i \in DOMAIN baseline : baseline[i].timestamp \in Int /\ baseline[i].timestamp <= now,
         NEW current, PartOf(current, list),
         \A i \in DOMAIN current : current[i].timestamp \in Int /\ current[i].timestamp <= now,
         NEW hypotheses, NEW statuses,
         NEW e \in TimelineEvents(n, baseline, current, hypotheses, now, statuses)
  PROVE  IsEvent(e, list, n, now, CitedBy(Head(hypotheses)))
<1>1. \/ e \in MarkerEvents(baseline) \/ e \in MarkerEvents(current)
      \/ e \in AlertEvents(n, now, statuses)
      \/ e \in {Event(now, n + 2, "incident created", {})}
      \/ e \in CauseEvents(n, now, hypotheses)
  BY Zenon DEF TimelineEvents
<1>2. CASE e \in MarkerEvents(baseline)
  BY <1>2, MarkerShape
<1>3. CASE e \in MarkerEvents(current)
  BY <1>3, MarkerShape
<1>4. CASE e \in AlertEvents(n, now, statuses)
  BY <1>4, Zenon DEF AlertEvents, IsEvent
<1>5. CASE e \in {Event(now, n + 2, "incident created", {})}
  BY <1>5, Zenon DEF IsEvent
<1>6. CASE e \in CauseEvents(n, now, hypotheses)
  BY <1>6, Zenon DEF CauseEvents, IsEvent
<1> QED BY <1>1, <1>2, <1>3, <1>4, <1>5, <1>6

EventAt(i, list, n, now, cited) ==
  IF i <= n THEN Event(list[i].timestamp, i, "marker", {list[i].evidence_id})
  ELSE IF i = n + 1 THEN Event(now - AlertLead, n + 1, "burn alert", {})
  ELSE IF i = n + 2 THEN Event(now, n + 2, "incident created", {})
  ELSE Event(now + Gap, n + 3, "suspected root cause", cited)

IsPlaced(e, list, n, now, cited) == e = EventAt(e.found, list, n, now, cited)

IsKnown(e, n, now) ==
  \/ e.found \in 1..n /\ e.event = "marker" /\ e.timestamp \in Int /\ e.timestamp <= now
  \/ e.found = n + 1 /\ e.event = "burn alert" /\ e.timestamp = now - AlertLead
  \/ e.found = n + 2 /\ e.event = "incident created" /\ e.timestamp = now
  \/ e.found = n + 3 /\ e.event = "suspected root cause" /\ e.timestamp = now + Gap

\* What the place tells.
LEMMA EventParts ==
  ASSUME NEW list, NEW n \in Nat, NEW now \in Int, NEW cited, NEW e, IsEvent(e, list, n, now, cited)
  PROVE  IsPlaced(e, list, n, now, cited) /\ IsKnown(e, n, now)
<1>0. ~(n + 1 <= n) /\ ~(n + 2 <= n) /\ ~(n + 3 <= n) /\ n + 2 # n + 1 /\ n + 3 # n + 1 /\ n + 3 # n + 2
  OBVIOUS
<1>1. CASE e.found \in 1..n /\ e = Event(list[e.found].timestamp, e.found, "marker", {list[e.found].evidence_id})
           /\ list[e.found].timestamp \in Int /\ list[e.found].timestamp <= now
  <2>1. e.event = "marker" /\ e.timestamp = list[e.found].timestamp /\ e.found <= n
    BY <1>1 DEF Event
  <2>2. IsPlaced(e, list, n, now, cited)
    BY <1>1, <2>1, Zenon DEF EventAt, IsPlaced
  <2> QED BY <1>1, <2>1, <2>2 DEF IsKnown
<1>2. CASE e = Event(now - AlertLead, n + 1, "burn alert", {})
  <2>1. e.event = "burn alert" /\ e.timestamp = now - AlertLead /\ e.found = n + 1
    BY <1>2 DEF Event
  <2>2. IsPlaced(e, list, n, now, cited)
    BY <1>0, <1>2, <2>1, Zenon DEF EventAt, IsPlaced
  <2> QED BY <2>1, <2>2 DEF IsKnown
<1>3. CASE e = Event(now, n + 2, "incident created", {})
  <2>1. e.event = "incident created" /\ e.timestamp = now /\ e.found = n + 2
    BY <1>3 DEF Event
  <2>2. IsPlaced(e, list, n, now, cited)
    BY <1>0, <1>3, <2>1, Zenon DEF EventAt, IsPlaced
  <2> QED BY <2>1, <2>2 DEF IsKnown
<1>4. CASE e = Event(now + Gap, n + 3, "suspected root cause", cited)
  <2>1. e.event = "suspected root cause" /\ e.timestamp = now + Gap /\ e.found = n + 3
    BY <1>4 DEF Event
  <2>2. IsPlaced(e, list, n, now, cited)
    BY <1>0, <1>4, <2>1, Zenon DEF EventAt, IsPlaced
  <2> QED BY <2>1, <2>2 DEF IsKnown
<1> QED BY <1>1, <1>2, <1>3, <1>4 DEF IsEvent

LEMMA EventTypes ==
  ASSUME NEW list, NEW n \in Nat, NEW now \in Int, NEW cited, NEW e, IsEvent(e, list, n, now, cited)
  PROVE  e.timestamp \in Int /\ e.found \in 1..(n + 3)
<1>1. AlertLead \in Nat /\ Gap \in Nat
  BY WindowConstants
<1>2. \/ e.found \in 1..n /\ e.event = "marker" /\ e.timestamp \in Int /\ e.timestamp <= now
      \/ e.found = n + 1 /\ e.event = "burn alert" /\ e.timestamp = now - AlertLead
      \/ e.found = n + 2 /\ e.event = "incident created" /\ e.timestamp = now
      \/ e.found = n + 3 /\ e.event = "suspected root cause" /\ e.timestamp = now + Gap
  BY EventParts DEF IsKnown
<1>3. /\ n + 1 \in 1..(n + 3) /\ n + 2 \in 1..(n + 3) /\ n + 3 \in 1..(n + 3)
      /\ \A i \in 1..n : i \in 1..(n + 3)
      /\ now - AlertLead \in Int /\ now + Gap \in Int
  BY <1>1
<1> QED BY <1>2, <1>3, Zenon

\* Events of one set: two found at one place are one.
AreEvents(S, list, n, now, cited) == \A e \in S : IsEvent(e, list, n, now, cited)

LEMMA EventsDiffer ==
  ASSUME NEW list, NEW n \in Nat, NEW now \in Int, NEW cited, NEW S, AreEvents(S, list, n, now, cited)
  PROVE  /\ \A d, e \in S : d.found = e.found => d = e
         /\ IsFiniteSet(S)
<1>1. ASSUME NEW d \in S, NEW e \in S, d.found = e.found PROVE d = e
  <2>1. IsEvent(d, list, n, now, cited) /\ IsEvent(e, list, n, now, cited)
    BY DEF AreEvents
  <2>2. d = EventAt(d.found, list, n, now, cited)
    BY <2>1, EventParts DEF IsPlaced
  <2>3. e = EventAt(e.found, list, n, now, cited)
    BY <2>1, EventParts DEF IsPlaced
  <2> QED BY <1>1, <2>2, <2>3
<1> DEFINE f == [e \in S |-> e.found]
<1>2. f \in [S -> 1..(n + 3)]
  <2>1. \A e \in S : e.found \in 1..(n + 3)
    BY EventTypes DEF AreEvents
  <2> QED BY <2>1
<1>3. \A d, e \in S : f[d] = f[e] => d = e
  BY <1>1
<1> HIDE DEF f
<1>4. f \in Injection(S, 1..(n + 3))
  BY <1>2, <1>3, Fun_IsInj
<1>5. IsFiniteSet(1..(n + 3))
  <2>1. n + 3 \in Nat
    OBVIOUS
  <2> QED BY <2>1, FS_Interval
<1> QED BY <1>1, <1>4, <1>5, FS_Injection

\* The order of the timeline is a strict total order.
EarlierOrder(S) == {p \in S \X S : Earlier(p[1], p[2])}

\* Events found at different places are strictly and totally ordered by Earlier.
LEMMA EarlierIsOrder ==
  ASSUME NEW S, \A e \in S : e.timestamp \in Int /\ e.found \in Int,
         \A d, e \in S : d.found = e.found => d = e
  PROVE  StrictOrder(S, EarlierOrder(S))
<1>1. \A d, e \in S : <<d, e>> \in EarlierOrder(S) <=> Earlier(d, e)
  BY DEF EarlierOrder
<1>2. \A e \in S : ~Earlier(e, e)
  BY DEF Earlier
<1>3. \A d, e \in S : d # e => Earlier(d, e) \/ Earlier(e, d)
  BY DEF Earlier
<1>4. \A c, d, e \in S : Earlier(c, d) /\ Earlier(d, e) => Earlier(c, e)
  BY DEF Earlier
<1> QED BY <1>1, <1>2, <1>3, <1>4 DEF StrictOrder

LEMMA EarlierOrdered ==
  ASSUME NEW S, IsFiniteSet(S), StrictOrder(S, EarlierOrder(S)), NEW t, t = Ordered(S, Earlier)
  PROVE  IsSort(t, S, EarlierOrder(S))
<1> DEFINE FirstAt(k) == CHOOSE x \in S : 1 + Cardinality({y \in S : Earlier(y, x)}) = k
<1>1. t = [k \in 1..Cardinality(S) |-> FirstAt(k)]
  BY DEF Ordered, AtPlace, Place
<1>2. \A x \in S : {y \in S : <<y, x>> \in EarlierOrder(S)} = {y \in S : Earlier(y, x)}
  BY DEF EarlierOrder
<1>3. \A x \in S : Rank(S, EarlierOrder(S), x) = 1 + Cardinality({y \in S : Earlier(y, x)})
  BY <1>2 DEF Rank
<1>4. ASSUME NEW k \in 1..Cardinality(S)
      PROVE  FirstAt(k) \in S /\ Rank(S, EarlierOrder(S), FirstAt(k)) = k
  <2>1. \E x \in S : Rank(S, EarlierOrder(S), x) = k
    BY RankShape
  <2>2. \E x \in S : 1 + Cardinality({y \in S : Earlier(y, x)}) = k
    BY <1>3, <2>1
  <2>3. FirstAt(k) \in S /\ 1 + Cardinality({y \in S : Earlier(y, FirstAt(k))}) = k
    BY <2>2, Zenon
  <2> QED BY <1>3, <2>3
<1> HIDE DEF FirstAt
<1> QED BY <1>1, <1>4 DEF IsSort

\* Events of an incident so ordered are in time order, markers and the burn alert
\* come before the incident, and the suspected root cause comes last.
TellsStory(t, explained) ==
  /\ \A k \in 1..(Len(t) - 1) : t[k].timestamp <= t[k + 1].timestamp
  /\ \E created \in DOMAIN t :
       /\ t[created].event = "incident created"
       /\ \A k \in DOMAIN t : t[k].event \in {"marker", "burn alert"} => k < created
  /\ explained => t[Len(t)].event = "suspected root cause"

LeadsUp(event) == event \in {"marker", "burn alert"}
IsIncident(e, n, now) == e.event = "incident created" /\ e.timestamp = now /\ e.found = n + 2
IsCause(e, n, now) == e.event = "suspected root cause" /\ e.timestamp = now + Gap /\ e.found = n + 3

LEMMA MarkerFirst ==
  ASSUME NEW n \in Nat, NEW now \in Int, NEW e, IsKnown(e, n, now), LeadsUp(e.event),
         NEW d, IsIncident(d, n, now)
  PROVE  Earlier(e, d)
<1>1. AlertLead \in Nat /\ AlertLead > 0
  BY WindowConstants
<1>2. d.timestamp = now /\ d.found = n + 2
  BY DEF IsIncident
<1>3. \/ e.found \in 1..n /\ e.timestamp \in Int /\ e.timestamp <= now
      \/ e.found = n + 1 /\ e.timestamp = now - AlertLead
  BY DEF IsKnown, LeadsUp
<1> QED BY <1>1, <1>2, <1>3 DEF Earlier

\* The suspected root cause is dated after everything else, hence sorted last.
LEMMA CauseLast ==
  ASSUME NEW n \in Nat, NEW now \in Int, NEW e, IsKnown(e, n, now), NEW d, IsCause(d, n, now)
  PROVE  ~Earlier(d, e)
<1>1. AlertLead \in Nat /\ Gap \in Nat /\ Gap > 0
  BY WindowConstants
<1>2. d.timestamp = now + Gap /\ d.found = n + 3
  BY DEF IsCause
<1>3. \/ e.timestamp \in Int /\ e.timestamp <= now
      \/ e.timestamp = now - AlertLead
      \/ e.timestamp = now
      \/ e.timestamp = now + Gap /\ e.found = n + 3
  BY Zenon DEF IsKnown
<1> QED BY <1>1, <1>2, <1>3 DEF Earlier

LEMMA SortTellsStory ==
  ASSUME NEW list, NEW n \in Nat, NEW now \in Int, NEW cited, NEW S, AreEvents(S, list, n, now, cited),
         NEW incident \in S, IsIncident(incident, n, now), NEW cause, IsCause(cause, n, now),
         NEW explained \in BOOLEAN, explained => cause \in S,
         NEW t, IsSort(t, S, EarlierOrder(S))
  PROVE  TellsStory(t, explained)
<1> DEFINE R == EarlierOrder(S)
           m == Len(t)
<1>1. AlertLead \in Nat /\ AlertLead > 0 /\ Gap \in Nat /\ Gap > 0
  BY WindowConstants
<1>2. IsFiniteSet(S) /\ \A d, e \in S : d.found = e.found => d = e
  BY EventsDiffer
<1>3. \A e \in S : e.timestamp \in Int /\ e.found \in 1..(n + 3)
  BY EventTypes DEF AreEvents
<1>4. \A e \in S : IsKnown(e, n, now)
  BY EventParts DEF AreEvents
<1>5. StrictOrder(S, R)
  <2>1. \A e \in S : e.timestamp \in Int /\ e.found \in Int
    BY <1>3
  <2> QED BY <1>2, <2>1, EarlierIsOrder
<1>6. /\ m \in Nat /\ DOMAIN t = 1..m /\ \A k \in 1..m : t[k] \in S
      /\ \A k, l \in 1..m : k < l <=> Earlier(t[k], t[l])
      /\ \A x \in S : \E k \in 1..m : t[k] = x
  <2>1. /\ t \in Seq(S) /\ Len(t) = Cardinality(S) /\ Cardinality(S) \in Nat
        /\ DOMAIN t = 1..Cardinality(S)
        /\ \A k, l \in DOMAIN t : k < l <=> <<t[k], t[l]>> \in R
        /\ \A x \in S : \E k \in DOMAIN t : t[k] = x
    BY <1>2, <1>5, SortedShape
  <2>4. m \in Nat /\ DOMAIN t = 1..m
    BY <2>1
  <2>5. \A k \in 1..m : t[k] \in S
    BY <2>1, ElementOfSeq
  <2>2. m \in Nat /\ DOMAIN t = 1..m /\ \A k \in 1..m : t[k] \in S
    BY <2>4, <2>5
  <2>3. \A k, l \in 1..m : <<t[k], t[l]>> \in R <=> Earlier(t[k], t[l])
    BY <2>2 DEF EarlierOrder
  <2> HIDE DEF m
  <2> QED BY <2>1, <2>2, <2>3
<1> HIDE DEF m
<1>7. m \in Nat
  BY <1>6
<1>8. ASSUME NEW k \in 1..(m - 1) PROVE t[k].timestamp <= t[k + 1].timestamp
  <2>1. k \in 1..m /\ k + 1 \in 1..m /\ k < k + 1
    BY <1>7
  <2>2. Earlier(t[k], t[k + 1])
    BY <1>6, <2>1
  <2>4. \A d, e \in S : Earlier(d, e) => d.timestamp <= e.timestamp
    BY <1>3 DEF Earlier
  <2> QED BY <1>6, <2>1, <2>2, <2>4
<1>9. PICK created \in 1..m : t[created] = incident
  BY <1>6
<1>11. ASSUME NEW k \in 1..m, LeadsUp(t[k].event) PROVE k < created
  <2>1. IsKnown(t[k], n, now)
    BY <1>4, <1>6
  <2>2. Earlier(t[k], t[created])
    BY <1>9, <1>11, <2>1, MarkerFirst
  <2> QED BY <1>6, <2>2
<1>12. ASSUME cause \in S PROVE t[m].event = "suspected root cause"
  <2>1. PICK k \in 1..m : t[k] = cause
    BY <1>6, <1>12
  <2>2. m \in 1..m /\ k <= m
    BY <1>7
  <2>3. IsKnown(t[m], n, now)
    BY <1>4, <1>6, <2>2
  <2>4. ~Earlier(t[k], t[m])
    BY <2>1, <2>3, CauseLast
  <2>5. ~(k < m)
    BY <1>6, <2>2, <2>4
  <2>6. k = m
    BY <1>7, <2>2, <2>5
  <2> QED BY <2>1, <2>6 DEF IsCause
<1>13. explained => t[m].event = "suspected root cause"
  BY <1>12
<1>14. t[created].event = "incident created"
  BY <1>9 DEF IsIncident
<1> QED BY <1>8, <1>11, <1>13, <1>14, <1>6 DEF TellsStory, LeadsUp, m

LEMMA TimelineShape ==
  ASSUME NEW list, NEW n \in Nat, NEW now \in Int, DOMAIN list = 1..n,
         NEW baseline, PartOf(baseline, list),
         \A i \in DOMAIN baseline : baseline[i].timestamp \in Int /\ baseline[i].timestamp <= now,
         NEW current, PartOf(current, list),
         \A i \in DOMAIN current : current[i].timestamp \in Int /\ current[i].timestamp <= now,
         NEW hypotheses, NEW statuses,
         NEW t, t = Timeline(n, baseline, current, hypotheses, now, statuses)
  PROVE  TellsStory(t, hypotheses # <<>>)
<1> DEFINE S == TimelineEvents(n, baseline, current, hypotheses, now, statuses)
           cited == CitedBy(Head(hypotheses))
<1>1. t = Ordered(S, Earlier)
  BY DEF Timeline, TimelineEvents, MarkerEvents, AlertEvents, CauseEvents
<1>2. Event(now, n + 2, "incident created", {}) \in S
  BY Zenon DEF TimelineEvents
<1>3. hypotheses # <<>> => Event(now + Gap, n + 3, "suspected root cause", cited) \in S
  BY Zenon DEF TimelineEvents, CauseEvents
<1>4. AreEvents(S, list, n, now, cited)
  <2>1. \A e \in S : IsEvent(e, list, n, now, CitedBy(Head(hypotheses)))
    BY EventShape
  <2> QED BY <2>1 DEF AreEvents
<1> HIDE DEF S, cited
<1>5. IsFiniteSet(S) /\ \A d, e \in S : d.found = e.found => d = e
  BY <1>4, EventsDiffer
<1>6. \A e \in S : e.timestamp \in Int /\ e.found \in Int
  <2>1. \A e \in S : e.timestamp \in Int /\ e.found \in 1..(n + 3)
    BY <1>4, EventTypes DEF AreEvents
  <2> QED BY <2>1
<1>7. IsSort(t, S, EarlierOrder(S))
  <2>1. StrictOrder(S, EarlierOrder(S))
    BY <1>5, <1>6, EarlierIsOrder
  <2> QED BY <1>1, <1>5, <2>1, EarlierOrdered
<1> DEFINE incident == Event(now, n + 2, "incident created", {})
           cause == Event(now + Gap, n + 3, "suspected root cause", cited)
<1>8. IsIncident(incident, n, now) /\ IsCause(cause, n, now)
  BY DEF Event, IsIncident, IsCause
<1>9. incident \in S /\ (hypotheses # <<>> => cause \in S)
  BY <1>2, <1>3
<1> HIDE DEF incident, cause
<1> QED BY <1>4, <1>7, <1>8, <1>9, SortTellsStory

------------------------------------------------------------------------------
(* A database is suspected for a query twice as slow as its 99th percentile  *)
(* was: at most one in a hundred of the earlier queries took more than half. *)

\* A growth of two, as a statement about how many queries took how long.
LEMMA SlowQueryShape ==
  ASSUME NEW cur, IsList(cur), NEW base, IsList(base), SlowQueries(Factor(cur, base))
  PROVE  \E x \in DOMAIN cur :
           /\ cur[x].value >= 2
           /\ 100 * Cardinality({j \in DOMAIN base : 2 * base[j].value > cur[x].value})
                <= Cardinality(DOMAIN base)
<1> DEFINE slow == P99(Values(cur))
           old == P99(Values(base))
           growth == Factor(cur, base).growth
<1>1. slow \in Int /\ old \in Int /\ Size(cur) \in Nat
  BY P99Type, SizeType
<1>2. 2 * growth[2] <= growth[1]
  <2>1. growth \in FractionType
    BY FactorShape
  <2>2. LeqFrac(Whole(2), growth)
    BY DEF SlowQueries
  <2> HIDE DEF growth
  <2> QED BY <2>1, <2>2, FractionParts DEF LeqFrac, Whole
<1>3. growth = IF Size(cur) = 0 THEN Whole(0) ELSE Frac(slow, Greater(1, old))
  BY Zenon DEF Factor
<1> HIDE DEF growth
<1>4. Size(cur) # 0
  <2>1. CASE Size(cur) = 0
    <3>1. growth[1] = 0 /\ growth[2] = 1
      BY <1>3, <2>1 DEF Whole
    <3> QED BY <1>2, <3>1
  <2> QED BY <2>1
<1>5. growth[1] = slow /\ growth[2] = Greater(1, old)
  <2> HIDE DEF slow, old
  <2> QED BY <1>3, <1>4 DEF Frac
<1>6. 2 * old <= slow /\ 2 <= slow
  <2> HIDE DEF slow, old
  <2>1. Greater(1, old) \in Int /\ old <= Greater(1, old) /\ 1 <= Greater(1, old)
    BY <1>1 DEF Greater
  <2> QED BY <1>1, <1>2, <1>5, <2>1
<1>7. PICK x \in DOMAIN cur : slow = cur[x].value
  <2>1. DOMAIN cur # {}
    BY <1>4, SizeType
  <2>2. IsSamples(Values(cur)) /\ DOMAIN Values(cur) = DOMAIN cur
        /\ \A i \in DOMAIN cur : Values(cur)[i] = cur[i].value
    BY ValuesAreSamples
  <2>3. \E x \in DOMAIN Values(cur) : slow = Values(cur)[x]
    BY <2>1, <2>2, PercentileShape DEF P99
  <2> QED BY <2>2, <2>3
<1> DEFINE n == Cardinality(DOMAIN base)
           longer == {j \in DOMAIN base : 2 * base[j].value > cur[x].value}
           usual == {j \in DOMAIN base : base[j].value <= old}
<1>8. n \in Nat
  BY FS_CardinalityType DEF IsList
<1>9. Cardinality(usual) \in Int /\ 100 * Cardinality(usual) >= 99 * n
  <2>1. IsSamples(Values(base)) /\ DOMAIN Values(base) = DOMAIN base
        /\ \A i \in DOMAIN base : Values(base)[i] = base[i].value
    BY ValuesAreSamples
  <2>2. AtMost(Values(base), old) = Cardinality(usual)
    <3>1. {i \in DOMAIN Values(base) : Values(base)[i] <= old} = usual
      <4> HIDE DEF old
      <4> QED BY <2>1
    <3> QED BY <3>1 DEF AtMost
  <2>3. Cardinality(usual) \in Int
    <3>1. IsFiniteSet(usual)
      BY FS_Subset DEF IsList
    <3> QED BY <3>1, FS_CardinalityType
  <2>4. CASE DOMAIN base = {}
    <3>1. n = 0 /\ Cardinality(usual) = 0
      <4>1. usual = {}
        BY <2>4
      <4> QED BY <2>4, <4>1, FS_EmptySet
    <3> QED BY <3>1
  <2>5. CASE DOMAIN base # {}
    <3>1. AtMost(Values(base), old) * 100 >= 99 * Cardinality(DOMAIN Values(base))
      BY <2>1, <2>5, PercentileShape DEF P99
    <3> HIDE DEF usual, n
    <3>2. Cardinality(usual) * 100 >= 99 * n
      BY <2>1, <2>2, <3>1 DEF n
    <3> QED BY <1>8, <2>3, <3>2
  <2> QED BY <2>3, <2>4, <2>5
<1>10. longer \in SUBSET (DOMAIN base \ usual)
  <2>1. ASSUME NEW j \in DOMAIN base, 2 * base[j].value > cur[x].value PROVE ~(base[j].value <= old)
    <3>1. base[j].value \in Int
      BY DEF IsList
    <3> HIDE DEF slow, old
    <3> QED BY <1>1, <1>6, <1>7, <2>1, <3>1
  <2> QED BY <2>1
<1>11. /\ IsFiniteSet(DOMAIN base) /\ usual \in SUBSET (DOMAIN base)
  BY DEF IsList
<1> HIDE DEF longer, usual
<1>12. Cardinality(DOMAIN base \ usual) = n - Cardinality(usual) /\ IsFiniteSet(DOMAIN base \ usual)
  <2>1. IsFiniteSet(DOMAIN base \ usual)
    BY <1>11, FS_Subset
  <2>2. IsFiniteSet(usual) /\ DOMAIN base \ (DOMAIN base \ usual) = usual
    BY <1>11, FS_Subset
  <2>3. Cardinality(DOMAIN base \ usual) = n - Cardinality(DOMAIN base \cap usual)
    BY <1>11, FS_Difference, <2>2
  <2>4. DOMAIN base \cap usual = usual
    BY <1>11
  <2> QED BY <2>1, <2>3, <2>4
<1>13. Cardinality(longer) <= Cardinality(DOMAIN base \ usual) /\ Cardinality(longer) \in Nat
  <2>1. IsFiniteSet(longer) /\ Cardinality(longer) <= Cardinality(DOMAIN base \ usual)
    BY <1>10, <1>12, FS_Subset
  <2> QED BY <2>1, FS_CardinalityType
<1>14. 100 * Cardinality(longer) <= n
  <2> HIDE DEF n
  <2> QED BY <1>8, <1>9, <1>12, <1>13
<1>15. cur[x].value >= 2
  <2> HIDE DEF slow
  <2> QED BY <1>1, <1>6, <1>7
<1> QED BY <1>14, <1>15 DEF longer

------------------------------------------------------------------------------
(* The incident. *)

\* When an analysis raises an incident, and of which title.
Checkout(part) == RequestSpans(part, "checkout-api")
Slow(base, cur) == LatencyTriggered(P99(Values(Checkout(cur))), P99(Values(Checkout(base))))
Erring(cur) == 100 * Size(OfKind(Checkout(cur), "error")) > Size(Checkout(cur))
Quiet(base, cur) == Size(Checkout(cur)) < MinSpans \/ ~(Slow(base, cur) \/ Erring(cur))

\* What an analysis finds, its hypotheses and timeline given.
Outcome(found, base, cur, hypotheses, timeline) ==
  /\ Quiet(base, cur) <=> found = NoIncident
  /\ ~Quiet(base, cur) =>
       /\ found.title = IF Slow(base, cur) THEN "Checkout latency increased"
                        ELSE "Checkout errors increased"
       /\ found.hypotheses = hypotheses /\ found.timeline = timeline

LEMMA AnalyzeOutcome ==
  ASSUME NEW list, NEW now, NEW hour, hour = Between(list, now - LongWindow, now),
         NEW base, base = Baseline(hour, now), NEW cur, cur = Current(hour, now),
         NEW hypotheses, hypotheses = RankHypotheses(base, cur, hour, now)
  PROVE  Outcome(AnalyzeAt(list, now), base, cur, hypotheses,
                 Timeline(Len(list), base, cur, hypotheses, now, SloStatuses(hour, now)))
<1> DEFINE found == AnalyzeAt(list, now)
           title == IF Slow(base, cur) THEN "Checkout latency increased" ELSE "Checkout errors increased"
           timeline == Timeline(Len(list), base, cur, hypotheses, now, SloStatuses(hour, now))
           raised == [title |-> title, created_at |-> now, status |-> "firing", hypotheses |-> hypotheses,
                      timeline |-> timeline, slo |-> SloStatuses(hour, now)]
<1>1. found = IF Quiet(base, cur) THEN NoIncident ELSE raised
  BY Zenon DEF AnalyzeAt, Quiet, Slow, Erring, Checkout
<1> HIDE DEF found, title, timeline
<1>2. /\ raised.status = "firing" /\ raised.title = title
      /\ raised.hypotheses = hypotheses /\ raised.timeline = timeline
  OBVIOUS
<1>3. NoIncident.status = "none"
  BY DEF NoIncident
<1> HIDE DEF raised
<1>4. raised # NoIncident
  BY <1>2, <1>3
<1>5. Outcome(found, base, cur, hypotheses, timeline)
  BY <1>1, <1>2, <1>4 DEF Outcome, title
<1> QED BY <1>5 DEF found, timeline

\* The hypotheses and the timeline of an incident are those of its windows.
LEMMA AnalyzeShape ==
  ASSUME NEW list, NEW now, NEW hour, hour = Between(list, now - LongWindow, now),
         NEW incident, incident = AnalyzeAt(list, now), incident # NoIncident
  PROVE  /\ incident.hypotheses = RankHypotheses(Baseline(hour, now), Current(hour, now), hour, now)
         /\ incident.timeline = Timeline(Len(list), Baseline(hour, now), Current(hour, now),
                                         incident.hypotheses, now, SloStatuses(hour, now))
<1> DEFINE base == Baseline(hour, now)
           cur == Current(hour, now)
           hypotheses == RankHypotheses(base, cur, hour, now)
           timeline == Timeline(Len(list), base, cur, hypotheses, now, SloStatuses(hour, now))
<1>1. Outcome(incident, base, cur, hypotheses, timeline)
  BY AnalyzeOutcome
<1> HIDE DEF base, cur, hypotheses, timeline
<1>2. incident.hypotheses = hypotheses /\ incident.timeline = timeline
  BY <1>1 DEF Outcome
<1> QED BY <1>2 DEF base, cur, hypotheses, timeline

\* An id that a hypothesis may cite is that of an item of the store, of the
\* service, current or a recent deployment.
LEMMA CitableShape ==
  ASSUME NEW list, IsList(list), NEW now \in Int, NEW hour, hour = Between(list, now - LongWindow, now),
         NEW service, NEW id \in Citable(service, Current(hour, now), hour, now)
  PROVE  \E i \in DOMAIN list :
           /\ list[i].evidence_id = id /\ list[i].service = service
           /\ \/ list[i].timestamp \in Windows(hour, now).current_start .. now
              \/ list[i].kind = "deployment" /\ list[i].timestamp \in (now - DeploymentWindow) .. now
<1> DEFINE current == Current(hour, now)
           mine == OfService(current, service)
           markers == OfKind(hour, "deployment")
           late == Between(markers, now - DeploymentWindow, now)
           deployments == OfService(late, service)
           start == Windows(hour, now).current_start
<1>1. /\ IsList(hour) /\ PartOf(hour, list) /\ \A i \in DOMAIN hour : hour[i].timestamp <= now
  BY HourShape
<1>2. start \in Int
  BY <1>1, WindowsShape
<1>3. DeploymentWindow \in Nat
  BY WindowConstants
<1>4. CASE id \in Ids(mine)
  <2>1. /\ PartOf(current, list)
        /\ \A i \in DOMAIN list :
             i \in DOMAIN current <=> start <= list[i].timestamp /\ list[i].timestamp <= now
    BY HalvesShape
  <2>2. PartOf(mine, current) /\ \A i \in DOMAIN current : i \in DOMAIN mine <=> current[i].service = service
    BY OfServiceShape
  <2>3. PICK i \in DOMAIN mine : id = mine[i].evidence_id
    BY <1>4 DEF Ids
  <2> HIDE DEF current, mine, start
  <2>4. i \in DOMAIN current /\ mine[i] = current[i] /\ current[i].service = service
    BY <2>2 DEF PartOf
  <2>5. i \in DOMAIN list /\ current[i] = list[i]
    BY <2>1, <2>4 DEF PartOf
  <2>6. list[i].timestamp \in Int /\ start <= list[i].timestamp /\ list[i].timestamp <= now
    BY <2>1, <2>4, <2>5 DEF IsList
  <2>7. list[i].timestamp \in start .. now
    BY <1>2, <2>6
  <2> QED BY <2>3, <2>4, <2>5, <2>7 DEF start
<1>5. CASE id \in Ids(deployments)
  <2>1. PartOf(markers, hour) /\ \A i \in DOMAIN hour : i \in DOMAIN markers <=> hour[i].kind = "deployment"
    BY OfKindShape
  <2>2. /\ PartOf(late, markers)
        /\ \A i \in DOMAIN markers : i \in DOMAIN late <=>
             now - DeploymentWindow <= markers[i].timestamp /\ markers[i].timestamp <= now
    BY BetweenShape
  <2>3. PartOf(deployments, late) /\ \A i \in DOMAIN late : i \in DOMAIN deployments <=> late[i].service = service
    BY OfServiceShape
  <2>4. PICK i \in DOMAIN deployments : id = deployments[i].evidence_id
    BY <1>5 DEF Ids
  <2> HIDE DEF markers, late, deployments
  <2>5. i \in DOMAIN late /\ deployments[i] = late[i] /\ late[i].service = service
    BY <2>3 DEF PartOf
  <2>6. /\ i \in DOMAIN markers /\ late[i] = markers[i]
        /\ now - DeploymentWindow <= markers[i].timestamp /\ markers[i].timestamp <= now
    BY <2>2, <2>5 DEF PartOf
  <2>7. i \in DOMAIN hour /\ markers[i] = hour[i] /\ hour[i].kind = "deployment"
    BY <2>1, <2>6 DEF PartOf
  <2>8. i \in DOMAIN list /\ hour[i] = list[i]
    BY <1>1, <2>7 DEF PartOf
  <2>9. list[i].timestamp \in Int
    BY <2>8 DEF IsList
  <2>10. list[i].timestamp \in (now - DeploymentWindow) .. now
    BY <1>3, <2>6, <2>7, <2>8, <2>9
  <2> QED BY <2>4, <2>5, <2>6, <2>7, <2>8, <2>10
<1>6. id \in Ids(mine) \/ id \in Ids(deployments)
  BY DEF Citable, RecentDeployments
<1> QED BY <1>4, <1>5, <1>6

\* Whatever an incident cites was in the store that was analysed.
LEMMA AnalysisCites ==
  ASSUME NEW list, IsList(list), NEW now \in Int, NEW incident, incident = AnalyzeAt(list, now),
         incident # NoIncident, NEW k \in DOMAIN incident.hypotheses,
         NEW id \in CitedBy(incident.hypotheses[k])
  PROVE  id \in Ids(list)
<1> DEFINE hour == Between(list, now - LongWindow, now)
           baseline == Baseline(hour, now)
           current == Current(hour, now)
           all == Candidates(baseline, current, hour, now)
           h == incident.hypotheses[k]
<1>1. IsList(hour) /\ IsList(baseline) /\ IsList(current)
  BY HourShape, HalvesShape
<1>2. incident.hypotheses = RankHypotheses(baseline, current, hour, now)
  BY AnalyzeShape
<1> DEFINE kept == incident.hypotheses
<1>3. KeepsBest(kept, all)
  <2> HIDE DEF hour, baseline, current, kept
  <2> QED BY <1>1, <1>2, HypothesesShape DEF kept
<1>4. h \in all
  <2> HIDE DEF all
  <2>1. kept \in Seq(all)
    BY <1>3 DEF KeepsBest
  <2> QED BY <2>1
<1>5. CitedBy(h) \in SUBSET Citable(h.service, current, hour, now)
  <2> HIDE DEF hour, baseline, current, h
  <2> QED BY <1>1, <1>4, CandidateShape
<1>6. id \in CitedBy(h)
  OBVIOUS
<1> HIDE DEF h
<1>7. id \in Citable(h.service, current, hour, now)
  BY <1>5, <1>6
<1>8. \E i \in DOMAIN list : list[i].evidence_id = id
  BY <1>7, CitableShape
<1> QED BY <1>8 DEF Ids

------------------------------------------------------------------------------
(* The evidence store under every operation on it. *)

\* Adding a batch, adding one item and clearing keep the promise.
LEMMA StoreStep ==
  ASSUME NEW S, items \in Seq(S), accepted \in Seq(S), StoreHoldsNewest,
         \/ \E batch \in Seq(S) : AddMany(batch)
         \/ \E e \in S : Add(e)
         \/ Clear
  PROVE  StoreHoldsNewest' /\ items' \in Seq(S) /\ accepted' \in Seq(S)
<1>0. MaxItems \in Nat /\ MaxItems > 0
  BY MaxItemsAssumption
<1>1. ASSUME NEW batch \in Seq(S), AddMany(batch)
      PROVE  StoreHoldsNewest' /\ items' \in Seq(S) /\ accepted' \in Seq(S)
  <2>1. accepted' \in Seq(S) /\ items \o batch \in Seq(S)
    BY <1>1 DEF AddMany
  <2>2. items' \in Seq(S)
    <3>1. LastOf(MaxItems, items \o batch) \in Seq(S)
      BY <1>0, <2>1, LastOfType
    <3> QED BY <1>1, <3>1 DEF AddMany, Retained
  <2>3. StoreHoldsNewest'
    BY <1>0, <1>1, LastOfConcat DEF AddMany, Retained, StoreHoldsNewest
  <2> QED BY <2>1, <2>2, <2>3
<1>2. ASSUME NEW e \in S, Add(e)
      PROVE  StoreHoldsNewest' /\ items' \in Seq(S) /\ accepted' \in Seq(S)
  <2>1. Append(items, e) = items \o <<e>> /\ Append(accepted, e) = accepted \o <<e>>
    OBVIOUS
  <2>2. AddMany(<<e>>) /\ <<e>> \in Seq(S)
    BY <1>2, <2>1 DEF Add, AddMany
  <2> QED BY <2>2, <1>1
<1>3. ASSUME Clear PROVE StoreHoldsNewest' /\ items' \in Seq(S) /\ accepted' \in Seq(S)
  <2>1. <<>> \in Seq(S) /\ Len(<<>>) <= MaxItems
    BY <1>0
  <2>2. LastOf(MaxItems, <<>>) = <<>>
    BY <1>0, <2>1, LastOfShort
  <2> QED BY <1>3, <2>1, <2>2 DEF Clear, StoreHoldsNewest
<1> QED BY <1>1, <1>2, <1>3
===============================================================================
