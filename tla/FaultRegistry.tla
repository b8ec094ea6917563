---------------------------- MODULE FaultRegistry ----------------------------
(***************************************************************************)
(* faults.py: FaultRegistry, as operators over its dict of active faults   *)
(* in insertion order.  A fault is a record                                *)
(*   [id, kind, left]                                                      *)
(* where left is ends_at minus the clock, and 0 once that time has come.   *)
(* Measuring from the clock keeps the state finite however long time runs. *)
(***************************************************************************)
EXTENDS Filter

\* FaultType, by what a fault of the kind does to a request.
SleepingKinds   == {"latency", "memory_pressure"}
FailingKinds    == {"http_500", "drop"}
BurningKinds    == {"cpu_pressure"}
DependencyKinds == {"dependency_timeout", "database_slowdown"}
RequestKinds    == SleepingKinds \cup FailingKinds \cup BurningKinds
FaultKinds      == RequestKinds \cup DependencyKinds

FaultRecords(ids) == [id : ids, kind : FaultKinds, left : Nat]

IsLive(fault) == fault.left > 0

\* Mutant: an experiment started again is a second entry.
AlwaysAppended(active, fault) == Append(active, fault)

\* Mutant: an experiment started again keeps the fault it had.
KeptFirst(active, fault) ==
  IF \E i \in DOMAIN active : active[i].id = fault.id THEN active ELSE Append(active, fault)

\* A dict keeps the place of a key that is assigned again.
Started(active, fault) ==
  IF \E i \in DOMAIN active : active[i].id = fault.id
  THEN [i \in DOMAIN active |-> IF active[i].id = fault.id THEN fault ELSE active[i]]
  ELSE Append(active, fault)

Stopped(active, id) == Kept(active, {i \in DOMAIN active : active[i].id # id})

\* Mutant: nothing is ever found expired.
NeverExpired(active) == active

\* active(): expired faults are dropped whenever somebody asks, and only then.
Live(active) == Kept(active, {i \in DOMAIN active : IsLive(active[i])})

\* One unit of time passes.
Aged(faults) ==
  [i \in DOMAIN faults |-> [faults[i] EXCEPT !.left = IF @ > 0 THEN @ - 1 ELSE 0]]
==============================================================================
