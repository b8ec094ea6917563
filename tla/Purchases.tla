------------------------------ MODULE Purchases ------------------------------
(***************************************************************************)
(* What the checkout chain promises a customer, without saying how three   *)
(* services, a database and lost answers bring it about: a purchase is     *)
(* charged at most once and never before it was asked for, a charge is     *)
(* never undone, and it is accepted only when it has been charged.  It may *)
(* be refused and charged all the same, before or after the refusal.       *)
(***************************************************************************)
CONSTANT Purchase

VARIABLES
  told,      \* what the customer knows of each purchase
  charged    \* how often each was charged

purchasesVars == <<told, charged>>

Init ==
  /\ told = [k \in Purchase |-> "nothing"]
  /\ charged = [k \in Purchase |-> 0]

Ask(k) ==
  /\ told[k] = "nothing"
  /\ told' = [told EXCEPT ![k] = "asked"]
  /\ UNCHANGED charged

Charge(k) ==
  /\ told[k] # "nothing" /\ charged[k] = 0
  /\ charged' = [charged EXCEPT ![k] = 1]
  /\ UNCHANGED told

Accept(k) ==
  /\ told[k] = "asked" /\ charged[k] = 1
  /\ told' = [told EXCEPT ![k] = "accepted"]
  /\ UNCHANGED charged

\* The service may fail many customers at once, when it restarts.
Refuse(some) ==
  /\ \A k \in some : told[k] = "asked"
  /\ told' = [k \in Purchase |-> IF k \in some THEN "refused" ELSE told[k]]
  /\ UNCHANGED charged

Next ==
  \/ \E k \in Purchase : Ask(k) \/ Charge(k) \/ Accept(k)
  \/ \E some \in SUBSET Purchase : Refuse(some)

Spec == Init /\ [][Next]_purchasesVars
==============================================================================
