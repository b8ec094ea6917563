------------------------------ MODULE StableSort ------------------------------
(***************************************************************************)
(* What Python's sorted() and heapq.nlargest() promise, and list slices.   *)
(* A sort is defined by the place each element takes, rather than by an    *)
(* algorithm: one after everything that precedes it.  Precedes is a strict *)
(* total order of the elements: a key, and where keys are equal the order  *)
(* of the input, since both sorts are stable.                              *)
(***************************************************************************)
EXTENDS Integers, FiniteSets, Sequences

Place(S, Precedes(_, _), x)   == 1 + Cardinality({y \in S : Precedes(y, x)})
AtPlace(S, Precedes(_, _), k) == CHOOSE x \in S : Place(S, Precedes, x) = k

\* The whole sort, and the set of its first n elements.
Ordered(S, Precedes(_, _))     == [k \in 1..Cardinality(S) |-> AtPlace(S, Precedes, k)]
Foremost(n, S, Precedes(_, _)) == {x \in S : Place(S, Precedes, x) <= n}

\* The order of places by their keys, as sorted() puts them and as it does
\* with reverse=True (and nlargest).
Rising(key, i, j)  == key[i] < key[j] \/ (key[i] = key[j] /\ i < j)
Falling(key, i, j) == key[i] > key[j] \/ (key[i] = key[j] /\ i < j)

FirstOf(n, s) == SubSeq(s, 1, IF n < Len(s) THEN n ELSE Len(s))
LastOf(n, s)  == SubSeq(s, IF n < Len(s) THEN Len(s) - n + 1 ELSE 1, Len(s))
===============================================================================
