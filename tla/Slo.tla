--------------------------------- MODULE Slo ---------------------------------
(***************************************************************************)
(* slo.py: the three service-level objectives and the multi-window burn    *)
(* alert computed from counts of bad events.                               *)
(*                                                                         *)
(* The code divides by 1 - target in IEEE doubles.  1 - 0.99 and 1 - 0.999 *)
(* come out slightly above 1/100 and 1/1000, so a bad fraction of exactly  *)
(* six (or 14.4) times the budget yields a quotient just below the limit:  *)
(* for both targets in use, the code's >= is the rational >.               *)
(***************************************************************************)
EXTENDS Fractions, Sequences

DefaultSlos ==
  << [name |-> "Checkout availability", service |-> "checkout-api",
      target |-> Frac(999, 1000), indicator |-> "availability", threshold_ms |-> 0],
     [name |-> "Checkout p99 latency", service |-> "checkout-api",
      target |-> Frac(99, 100), indicator |-> "latency", threshold_ms |-> 300],
     [name |-> "Payment success rate", service |-> "payment-service",
      target |-> Frac(99, 100), indicator |-> "availability", threshold_ms |-> 0] >>

FastBurn == Frac(144, 10)
SlowBurn == Whole(6)

AllowedBad(slo) == Frac(slo.target[2] - slo.target[1], slo.target[2])
Times(fraction, slo) == LET bad == AllowedBad(slo) IN TimesFrac(fraction, Frac(bad[2], bad[1]))

\* An empty window has no bad fraction.
BadFraction(bad, total) == IF total = 0 THEN Whole(0) ELSE Frac(bad, total)

\* Mutant: one window is enough.
BurnsAtEither(rate, short, long) == LessFrac(rate, short) \/ LessFrac(rate, long)

BurnsAt(rate, short, long) == LessFrac(rate, short) /\ LessFrac(rate, long)

Alerting(short, long) == BurnsAt(FastBurn, short, long) \/ BurnsAt(SlowBurn, short, long)

\* Mutant: the remaining budget is not floored at zero.
BudgetUnfloored(consumed) == MinusFrac(Whole(1), consumed)

BudgetRemaining(consumed) ==
  IF LessFrac(Whole(1), consumed) THEN Whole(0) ELSE MinusFrac(Whole(1), consumed)

CalculateSlo(slo, total_events, bad_events, short_bad_fraction, long_bad_fraction) ==
  LET consumed == Times(BadFraction(bad_events, total_events), slo)
      short    == Times(short_bad_fraction, slo)
      long     == Times(long_bad_fraction, slo)
  IN  [name             |-> slo.name,
       total_events     |-> total_events,
       bad_events       |-> bad_events,
       budget_consumed  |-> consumed,
       budget_remaining |-> BudgetRemaining(consumed),
       short_burn_rate  |-> short,
       long_burn_rate   |-> long,
       alerting         |-> Alerting(short, long)]
==============================================================================
