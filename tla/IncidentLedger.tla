---------------------------- MODULE IncidentLedger ----------------------------
(***************************************************************************)
(* What the diagnosis service promises about incidents, without saying how *)
(* it finds duplicates: an incident enters the ledger only when none of    *)
(* the same fingerprint entered it within the last Window units of time.   *)
(* Entries are never changed or withdrawn; a restart loses them all.       *)
(***************************************************************************)
EXTENDS Integers

CONSTANT Window

VARIABLES
  clock,
  ledger    \* a set of [fingerprint, at] entries

ledgerVars == <<clock, ledger>>

Init == clock \in Nat /\ ledger = {}

Raise ==
  \E new \in ledger' :
    /\ ledger' = ledger \cup {new}
    /\ new.at = clock
    /\ \A old \in ledger : old.fingerprint = new.fingerprint => clock - old.at > Window
    /\ UNCHANGED clock

Pass == clock' > clock /\ UNCHANGED ledger

Lose == ledger' = {} /\ UNCHANGED clock

Next == Raise \/ Pass \/ Lose

Spec == Init /\ [][Next]_ledgerVars
===============================================================================
