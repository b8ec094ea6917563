---------------------------- MODULE EvidenceStore ----------------------------
(***************************************************************************)
(* model.py: EvidenceStore, a lock around a deque with a maximal length.   *)
(* Every method holds the lock throughout, so each is one step.  A full    *)
(* deque drops from its left what is appended on its right.                *)
(***************************************************************************)
EXTENDS StableSort

CONSTANT MaxItems    \* 100 000: the deque's maxlen

ASSUME MaxItemsAssumption == MaxItems \in Nat \ {0}

VARIABLES
  items,      \* the deque
  accepted    \* history: everything added since the store was last cleared

storeVars == <<items, accepted>>

StoreInit == items = <<>> /\ accepted = <<>>

\* Mutants: a full deque refuses the new instead of dropping the old; it starts
\* over; the deque has no maxlen.
KeepOldest(s) == FirstOf(MaxItems, s)
StartOver(s)  == IF Len(s) > MaxItems THEN LastOf(1, s) ELSE s
KeepAll(s)    == s

Retained(s) == LastOf(MaxItems, s)

Add(evidence) ==
  /\ items' = Retained(Append(items, evidence))
  /\ accepted' = Append(accepted, evidence)

AddMany(batch) ==
  /\ items' = Retained(items \o batch)
  /\ accepted' = accepted \o batch

Clear == items' = <<>> /\ accepted' = <<>>

\* The analysis sees the newest MaxItems of what was accepted, whatever the
\* sizes of the batches that brought them.
StoreHoldsNewest == items = LastOf(MaxItems, accepted)
==============================================================================
