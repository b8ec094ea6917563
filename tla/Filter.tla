-------------------------------- MODULE Filter --------------------------------
(***************************************************************************)
(* A comprehension with a condition, [x for x in s if ...]: the elements   *)
(* of a sequence at some of its places, in their order.  SelectSeq is      *)
(* recursive; this says of each element which place it takes, so that its  *)
(* properties have proofs without induction (ListProofs).                  *)
(***************************************************************************)
EXTENDS Integers, FiniteSets, Sequences

\* The place of s[i] among those kept.
KeptPlace(places, i) == Cardinality({j \in places : j <= i})

Kept(s, places) ==
  [k \in 1..Cardinality(places) |-> s[CHOOSE i \in places : KeptPlace(places, i) = k]]
===============================================================================
