------------------------------ MODULE Percentile ------------------------------
(***************************************************************************)
(* correlation.percentile: the sample a quantile falls on, read from a     *)
(* partial selection of the largest samples when few are needed and from   *)
(* the full sort otherwise.  The samples are a function from the places of *)
(* a list to numbers, a quantile is a fraction in [0, 1].                  *)
(***************************************************************************)
EXTENDS Fractions, StableSort

\* Mutant: int() for ceil().
QuantileIndexTruncated(n, quantile) ==
  LET floor == (quantile[1] * n) \div quantile[2]
  IN  IF floor > 0 THEN floor - 1 ELSE 0

\* max(0, ceil(quantile * n) - 1), an index that counts from 0.
QuantileIndex(n, quantile) ==
  LET ceiling == (quantile[1] * n + quantile[2] - 1) \div quantile[2]
  IN  IF ceiling > 0 THEN ceiling - 1 ELSE 0

Percentile(samples, quantile) ==
  LET places     == DOMAIN samples
      n          == Cardinality(places)
      index      == QuantileIndex(n, quantile)
      upper      == n - index
      Up(i, j)   == Rising(samples, i, j)
      Down(i, j) == Falling(samples, i, j)
  IN  CASE n = 0                         -> 0
        [] n > 0 /\ upper <= n \div 4    -> samples[AtPlace(places, Down, upper)]
        [] n > 0 /\ ~(upper <= n \div 4) -> samples[AtPlace(places, Up, index + 1)]

P99(samples) == Percentile(samples, <<99, 100>>)

\* The reference definition (nearest rank, docs/root-cause-ranking.md): the
\* least sample that at least the quantile's share of the samples do not exceed.
NearestRank(samples, quantile) ==
  LET values    == {samples[i] : i \in DOMAIN samples}
      AtMost(v) == Cardinality({i \in DOMAIN samples : samples[i] <= v})
      Enough(v) == AtMost(v) * quantile[2] >= quantile[1] * Cardinality(DOMAIN samples)
  IN  IF values = {} THEN 0
      ELSE CHOOSE v \in values : Enough(v) /\ \A w \in values : w < v => ~Enough(w)
===============================================================================
