------------------------------ MODULE Fractions ------------------------------
(***************************************************************************)
(* Rationals as pairs <<numerator, denominator>>, for the                  *)
(* ratios the rules compare: burn rates, growth factors and scores.        *)
(*                                                                         *)
(* The program computes them in IEEE doubles.  Where a double comparison   *)
(* disagrees with the rational one (only at the burn-rate thresholds, see  *)
(* module Slo) the model states what the doubles do.                       *)
(***************************************************************************)
EXTENDS Integers

Frac(n, d) == <<n, d>>
Whole(n)   == <<n, 1>>

LessFrac(a, b) == a[1] * b[2] < b[1] * a[2]
LeqFrac(a, b)  == a[1] * b[2] <= b[1] * a[2]
EqFrac(a, b)   == a[1] * b[2] = b[1] * a[2]

\* The sum keeps the denominator when the two agree: TLC's integers are 32 bits.
PlusFrac(a, b) ==
  IF a[2] = b[2]
  THEN <<a[1] + b[1], a[2]>>
  ELSE <<a[1] * b[2] + b[1] * a[2], a[2] * b[2]>>

TimesFrac(a, b) == <<a[1] * b[1], a[2] * b[2]>>
MinusFrac(a, b) == <<a[1] * b[2] - b[1] * a[2], a[2] * b[2]>>

\* Python's min(cap, x) on the points of a rule.
CapFrac(cap, x) == IF LeqFrac(cap, x) THEN cap ELSE x
==============================================================================
