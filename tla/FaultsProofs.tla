----------------------------- MODULE FaultsProofs -----------------------------
(***************************************************************************)
(* Theorems about module Faults, for any experiments, requests, durations  *)
(* and pauses.                                                             *)
(*                                                                         *)
(* A request's fate is decided when it arrives: it is doomed exactly when  *)
(* the list it was given holds a failing fault, and from then on it is     *)
(* that list that matters, not the registry.                               *)
(***************************************************************************)
EXTENDS Faults, ListProofs

TaskType == [phase : Phases, todo : Seq(FaultType), wait : Nat, burnt : Nat]

RequestFaults(todo) == \A i \in DOMAIN todo : todo[i].kind \in RequestKinds
Fails(todo) == \E i \in DOMAIN todo : todo[i].kind \in FailingKinds

\* Request r is doomed when the list it still has before it holds a failing fault,
\* or when it has met that fault; no other request is.
Fate(r, task, dead) ==
  IF task.phase = "faults"
  THEN RequestFaults(task.todo) /\ (r \in dead <=> Fails(task.todo))
  ELSE r \in dead <=> task.phase \in {"dropping", "failed"}

\* Strengthening of the two safety properties: neither says of a request that
\* sleeps what its list has left.
FateOK == \A r \in Requests : Fate(r, tasks[r], doomed)

USE DEF SleepingKinds, FailingKinds, BurningKinds, RequestKinds

------------------------------------------------------------------------------
(* What a request is given *)

\* What a request is given when it arrives: the live faults of its kinds, and all
\* of them.
LEMMA GivenFaults ==
  ASSUME NEW faults \in Seq(FaultType), NEW kinds
  PROVE  LET given == Concerning(Live(faults), kinds)
         IN  /\ given \in Seq(FaultType)
             /\ \A k \in DOMAIN given :
                  \E i \in DOMAIN faults : IsLive(faults[i]) /\ given[k] = faults[i]
             /\ \A k \in DOMAIN given : given[k].kind \in kinds
             /\ \A i \in DOMAIN faults : IsLive(faults[i]) /\ faults[i].kind \in kinds
                  => \E k \in DOMAIN given : given[k] = faults[i]
<1> DEFINE live  == Live(faults)
           alive == {i \in DOMAIN faults : IsLive(faults[i])}
           given == Concerning(live, kinds)
           meant == {i \in DOMAIN live : live[i].kind \in kinds}
<1>0. alive \in SUBSET (DOMAIN faults) /\ live = Kept(faults, alive)
  BY DEF Live
<1>b. \A i \in DOMAIN faults : i \in alive <=> IsLive(faults[i])
  OBVIOUS
<1> HIDE DEF live, alive
<1>1. live \in Seq(FaultType)
  BY <1>0, KeptShape
<1>2. PICK f \in [DOMAIN live -> alive] :
        /\ \A k \in DOMAIN live : live[k] = faults[f[k]]
        /\ \A i \in alive : \E k \in DOMAIN live : f[k] = i
  BY <1>0, KeptShape
<1>a. meant \in SUBSET (DOMAIN live) /\ given = Kept(live, meant)
  BY DEF Concerning
<1>c. \A i \in DOMAIN live : i \in meant <=> live[i].kind \in kinds
  OBVIOUS
<1> HIDE DEF given, meant
<1>3. given \in Seq(FaultType)
  BY <1>1, <1>a, KeptShape
<1>4. PICK g \in [DOMAIN given -> meant] :
        /\ \A k \in DOMAIN given : given[k] = live[g[k]]
        /\ \A i \in meant : \E k \in DOMAIN given : g[k] = i
  BY <1>1, <1>a, KeptShape
<1>5. \A k \in DOMAIN given : given[k].kind \in kinds
  BY <1>4, <1>a, <1>c
<1>6. ASSUME NEW k \in DOMAIN given
      PROVE  \E i \in DOMAIN faults : IsLive(faults[i]) /\ given[k] = faults[i]
  BY <1>0, <1>2, <1>4, <1>a, <1>b
<1>7. ASSUME NEW i \in DOMAIN faults, IsLive(faults[i]), faults[i].kind \in kinds
      PROVE  \E k \in DOMAIN given : given[k] = faults[i]
  <2>1. PICK l \in DOMAIN live : f[l] = i
    BY <1>2, <1>7, <1>b
  <2>2. l \in meant /\ live[l] = faults[i]
    BY <1>2, <1>7, <1>c, <2>1
  <2> QED BY <1>4, <2>2
<1> QED BY <1>3, <1>5, <1>6, <1>7 DEF given, live

------------------------------------------------------------------------------
(* A request's way through its list *)

LEMMA ApplyStep ==
  ASSUME NEW todo \in Seq(FaultType), RequestFaults(todo), NEW burnt \in Nat
  PROVE  LET task == Apply(todo, burnt)
         IN  /\ task \in TaskType
             /\ task.phase \in {"faults", "called", "dropping", "failed"}
             /\ task.phase = "faults" => /\ RequestFaults(task.todo)
                                         /\ Fails(todo) <=> Fails(task.todo)
             /\ task.phase # "faults" => (Fails(todo) <=> task.phase \in {"dropping", "failed"})
<1>1. CASE todo = <<>>
  <2>1. Apply(todo, burnt) = Task("called", <<>>, 0, burnt)
    BY <1>1 DEF Apply
  <2>2. ~Fails(todo)
    BY <1>1 DEF Fails
  <2>3. /\ Task("called", <<>>, 0, burnt) \in TaskType
        /\ Task("called", <<>>, 0, burnt).phase = "called"
    BY DEF Task, TaskType, Phases
  <2> QED BY <2>1, <2>2, <2>3
<1>2. CASE todo # <<>>
  <2> DEFINE kind == Head(todo).kind
  <2>1. /\ kind \in RequestKinds /\ Pause[kind] \in Nat
        /\ Head(todo) = todo[1] /\ 1 \in DOMAIN todo
        /\ Tail(todo) \in Seq(FaultType)
        /\ \A i \in DOMAIN Tail(todo) : i + 1 \in DOMAIN todo /\ Tail(todo)[i] = todo[i + 1]
        /\ \A i \in DOMAIN todo : i # 1 => i - 1 \in DOMAIN Tail(todo)
    BY <1>2, FaultsAssumption DEF RequestFaults, FaultKinds
  <2>2. RequestFaults(Tail(todo))
    BY <2>1 DEF RequestFaults
  <2>3. CASE kind \in SleepingKinds \cup BurningKinds
    <3>1. PICK n \in Nat : Apply(todo, burnt) = Task("faults", Tail(todo), Pause[kind], n)
      BY <1>2, <2>3 DEF Apply
    <3>2. Fails(todo) <=> Fails(Tail(todo))
      <4>1. Fails(Tail(todo)) => Fails(todo)
        BY <2>1 DEF Fails
      <4>2. ASSUME Fails(todo) PROVE Fails(Tail(todo))
        <5>1. PICK i \in DOMAIN todo : todo[i].kind \in FailingKinds
          BY <4>2 DEF Fails
        <5>2. i # 1
          BY <2>1, <2>3, <5>1
        <5>3. i - 1 \in DOMAIN Tail(todo) /\ Tail(todo)[i - 1] = todo[i]
          BY <2>1, <5>2
        <5> QED BY <5>1, <5>3 DEF Fails
      <4> QED BY <4>1, <4>2
    <3>3. /\ Task("faults", Tail(todo), Pause[kind], n) \in TaskType
          /\ Task("faults", Tail(todo), Pause[kind], n).phase = "faults"
          /\ Task("faults", Tail(todo), Pause[kind], n).todo = Tail(todo)
      BY <2>1 DEF Task, TaskType, Phases
    <3> QED BY <2>2, <3>1, <3>2, <3>3
  <2>4. CASE kind \in FailingKinds
    <3>1. \/ Apply(todo, burnt) = Task("failed", <<>>, 0, burnt)
          \/ Apply(todo, burnt) = Task("dropping", <<>>, Pause[kind], burnt)
      BY <1>2, <2>4 DEF Apply
    <3>2. Fails(todo)
      BY <2>1, <2>4 DEF Fails
    <3>3. ASSUME NEW phase \in {"failed", "dropping"}, NEW wait \in Nat
          PROVE  /\ Task(phase, <<>>, wait, burnt) \in TaskType
                 /\ Task(phase, <<>>, wait, burnt).phase = phase
      BY DEF Task, TaskType, Phases
    <3> QED BY <2>1, <3>1, <3>2, <3>3
  <2> QED BY <2>1, <2>3, <2>4
<1> QED BY <1>1, <1>2

LEMMA DelayType ==
  ASSUME NEW todo \in Seq(FaultType), NEW burnt \in Nat
  PROVE  /\ Delay(todo, burnt) \in TaskType
         /\ Delay(todo, burnt).phase \in {"delayed", "answered"}
  BY FaultsAssumption DEF Delay, Task, TaskType, Phases, FaultKinds

------------------------------------------------------------------------------
(* The inductive invariant *)

\* A step that moves one request.
LEMMA OneMoves ==
  ASSUME TypeOK, FateOK,
         NEW r \in Requests, NEW task \in TaskType,
         tasks' = [tasks EXCEPT ![r] = task],
         doomed' \subseteq Requests, \A s \in Requests \ {r} : s \in doomed' <=> s \in doomed,
         Fate(r, task, doomed')
  PROVE  tasks' \in [Requests -> TaskType] /\ FateOK'
<1>1. tasks' \in [Requests -> TaskType]
  BY DEF TypeOK, TaskType
<1>2. ASSUME NEW s \in Requests PROVE Fate(s, tasks'[s], doomed')
  <2>1. CASE s = r
    BY <2>1 DEF TypeOK
  <2>2. CASE s # r
    <3>1. tasks'[s] = tasks[s] /\ (s \in doomed' <=> s \in doomed)
      BY <2>2 DEF TypeOK
    <3>2. Fate(s, tasks[s], doomed)
      BY DEF FateOK
    <3> QED BY <3>1, <3>2 DEF Fate
  <2> QED BY <2>1, <2>2
<1> QED BY <1>1, <1>2 DEF FateOK

LEMMA FateInit == Init => TypeOK /\ FateOK
<1> SUFFICES ASSUME Init PROVE TypeOK /\ FateOK
  OBVIOUS
<1>1. Idle \in TaskType /\ Idle.phase = "idle"
  BY DEF Idle, Task, TaskType, Phases
<1>2. TypeOK
  BY <1>1 DEF Init, TypeOK, TaskType
<1>3. FateOK
  BY <1>1 DEF Init, FateOK, Fate
<1> QED BY <1>2, <1>3

\* The registry alone changes.
LEMMA RegistryStep ==
  ASSUME TypeOK, FateOK, UNCHANGED <<tasks, holder, doomed>>,
         active' \in Seq(FaultType), Distinct(active')
  PROVE  TypeOK' /\ FateOK'
  BY DEF TypeOK, FateOK, Distinct

LEMMA ArriveStep ==
  ASSUME TypeOK, FateOK, NEW r \in Requests, Arrive(r)
  PROVE  TypeOK' /\ FateOK'
<1> DEFINE given == Concerning(Live(active), RequestKinds)
           task  == Apply(given, 0)
<1>1. active \in Seq(FaultType) /\ Distinct(active)
  BY DEF TypeOK, Distinct
<1>2. /\ given \in Seq(FaultType)
      /\ RequestFaults(given)
      /\ Fails(given) <=> \E i \in DOMAIN active : IsLive(active[i]) /\ active[i].kind \in FailingKinds
  <2>1. /\ given \in Seq(FaultType)
        /\ \A k \in DOMAIN given :
             \E i \in DOMAIN active : IsLive(active[i]) /\ given[k] = active[i]
        /\ \A k \in DOMAIN given : given[k].kind \in RequestKinds
        /\ \A i \in DOMAIN active : IsLive(active[i]) /\ active[i].kind \in RequestKinds
             => \E k \in DOMAIN given : given[k] = active[i]
    <3> HIDE DEF SleepingKinds, FailingKinds, BurningKinds, RequestKinds
    <3> QED BY <1>1, GivenFaults
  <2> HIDE DEF given
  <2> QED BY <2>1 DEF RequestFaults, Fails
<1>3. /\ task \in TaskType
      /\ task.phase \in {"faults", "called", "dropping", "failed"}
      /\ task.phase = "faults" => /\ RequestFaults(task.todo)
                                  /\ Fails(given) <=> Fails(task.todo)
      /\ task.phase # "faults" => (Fails(given) <=> task.phase \in {"dropping", "failed"})
  <2> HIDE DEF given
  <2> QED BY <1>2, ApplyStep
<1>4. /\ tasks' = [tasks EXCEPT ![r] = task]
      /\ holder' \in Requests \cup {Nobody}
      /\ active' = Live(active)
  BY DEF Arrive, Run
<1>5. r \notin doomed
  BY DEF Arrive, FateOK, Fate
<1>6. /\ doomed' \subseteq Requests
      /\ \A s \in Requests \ {r} : s \in doomed' <=> s \in doomed
      /\ r \in doomed' <=> Fails(given)
  BY <1>2, <1>5 DEF Arrive, TypeOK
<1> HIDE DEF task, given
<1>7. Fate(r, task, doomed')
  BY <1>3, <1>6 DEF Fate
<1>8. tasks' \in [Requests -> TaskType] /\ FateOK'
  BY <1>3, <1>4, <1>6, <1>7, OneMoves
<1>9. active' \in Seq(FaultType) /\ Distinct(active')
  BY <1>1, <1>4, LiveFaultsType
<1> QED BY <1>4, <1>6, <1>8, <1>9 DEF TypeOK, TaskType, Distinct

\* What a request does once it is in: its own doom stays as it was until it goes.
LEMMA RequestStep ==
  ASSUME TypeOK, FateOK, NEW r \in Requests, Step(r)
  PROVE  TypeOK' /\ FateOK'
<1>1. active \in Seq(FaultType) /\ Distinct(active) /\ tasks[r] \in TaskType /\ Fate(r, tasks[r], doomed)
  BY DEF TypeOK, Distinct, TaskType, FateOK
<1>2. CASE Resume(r)
  <2> DEFINE task == Apply(tasks[r].todo, tasks[r].burnt)
  <2>1. tasks[r].phase = "faults" /\ tasks[r].todo \in Seq(FaultType) /\ tasks[r].burnt \in Nat
    BY <1>1, <1>2 DEF Resume, TaskType
  <2>2. RequestFaults(tasks[r].todo) /\ (r \in doomed <=> Fails(tasks[r].todo))
    BY <1>1, <2>1 DEF Fate
  <2>3. /\ task \in TaskType
        /\ task.phase = "faults" => /\ RequestFaults(task.todo)
                                    /\ Fails(tasks[r].todo) <=> Fails(task.todo)
        /\ task.phase # "faults" => (Fails(tasks[r].todo) <=> task.phase \in {"dropping", "failed"})
    BY <2>1, <2>2, ApplyStep
  <2>4. /\ tasks' = [tasks EXCEPT ![r] = task]
        /\ holder' \in Requests \cup {Nobody}
        /\ active' = active /\ doomed' = doomed
    BY <1>2 DEF Resume, Run, Remaining
  <2> HIDE DEF task
  <2>5. Fate(r, task, doomed')
    BY <2>2, <2>3, <2>4 DEF Fate
  <2>6. tasks' \in [Requests -> TaskType] /\ FateOK'
    BY <2>3, <2>4, <2>5, OneMoves DEF TypeOK
  <2> QED BY <1>1, <2>4, <2>6 DEF TypeOK, TaskType
<1>3. CASE Drop(r)
  <2> DEFINE task == Task("failed", <<>>, 0, tasks[r].burnt)
  <2>1. task \in TaskType /\ task.phase = "failed"
    BY <1>1 DEF Task, TaskType, Phases
  <2>2. /\ tasks' = [tasks EXCEPT ![r] = task]
        /\ UNCHANGED <<active, holder, doomed>>
        /\ r \in doomed
    BY <1>1, <1>3 DEF Drop, Fate
  <2> HIDE DEF task
  <2>3. Fate(r, task, doomed')
    BY <2>1, <2>2 DEF Fate
  <2>4. tasks' \in [Requests -> TaskType] /\ FateOK'
    BY <2>1, <2>2, <2>3, OneMoves DEF TypeOK
  <2> QED BY <2>2, <2>4 DEF TypeOK, TaskType
<1>4. CASE Handle(r)
  <2> DEFINE given == Concerning(Live(active), {DelayKind})
             task  == Delay(given, tasks[r].burnt)
  <2>1. given \in Seq(FaultType)
    BY <1>1, GivenFaults
  <2>2. /\ tasks' = [tasks EXCEPT ![r] = task]
        /\ active' = Live(active) /\ UNCHANGED <<holder, doomed>>
        /\ r \notin doomed /\ tasks[r].burnt \in Nat
    BY <1>1, <1>4 DEF Handle, Fate, TaskType
  <2> HIDE DEF given
  <2>3. task \in TaskType /\ task.phase \in {"delayed", "answered"}
    BY <2>1, <2>2, DelayType
  <2> HIDE DEF task
  <2>4. Fate(r, task, doomed')
    BY <2>2, <2>3 DEF Fate
  <2>5. tasks' \in [Requests -> TaskType] /\ FateOK'
    BY <2>2, <2>3, <2>4, OneMoves DEF TypeOK
  <2>6. active' \in Seq(FaultType) /\ Distinct(active')
    BY <1>1, <2>2, LiveFaultsType
  <2> QED BY <2>2, <2>5, <2>6 DEF TypeOK, TaskType, Distinct
<1>5. CASE HandleOn(r)
  <2> DEFINE task == Delay(tasks[r].todo, tasks[r].burnt)
  <2>1. /\ tasks' = [tasks EXCEPT ![r] = task]
        /\ UNCHANGED <<active, holder, doomed>>
        /\ r \notin doomed
    BY <1>1, <1>5 DEF HandleOn, Fate
  <2>2. task \in TaskType /\ task.phase \in {"delayed", "answered"}
    BY <1>1, DelayType DEF TaskType
  <2> HIDE DEF task
  <2>3. Fate(r, task, doomed')
    BY <2>1, <2>2 DEF Fate
  <2>4. tasks' \in [Requests -> TaskType] /\ FateOK'
    BY <2>1, <2>2, <2>3, OneMoves DEF TypeOK
  <2> QED BY <2>1, <2>4 DEF TypeOK, TaskType
<1>6. CASE Finish(r)
  <2>1. /\ tasks' = [tasks EXCEPT ![r] = Idle]
        /\ UNCHANGED <<active, holder>> /\ doomed' = doomed \ {r}
    BY <1>6 DEF Finish
  <2>2. Idle \in TaskType /\ Idle.phase = "idle"
    BY DEF Idle, Task, TaskType, Phases
  <2>3. Fate(r, Idle, doomed')
    BY <2>1, <2>2 DEF Fate
  <2>4. tasks' \in [Requests -> TaskType] /\ FateOK'
    BY <2>1, <2>2, <2>3, OneMoves DEF TypeOK
  <2> QED BY <2>1, <2>4 DEF TypeOK, TaskType
<1> QED BY <1>2, <1>3, <1>4, <1>5, <1>6 DEF Step

\* Time passes: what is left of every fault changes, what kind it is does not.
LEMMA TickStep ==
  ASSUME TypeOK, FateOK, Tick
  PROVE  TypeOK' /\ FateOK'
<1>1. active' \in Seq(FaultType) /\ Distinct(active')
  <2>1. active \in Seq(FaultType) /\ Distinct(active) /\ active' = Aged(active)
    BY DEF TypeOK, Distinct, Tick
  <2> QED BY <2>1, AgedType DEF Distinct, FaultType
<1>2. ASSUME NEW r \in Requests
      PROVE  tasks'[r] \in TaskType /\ Fate(r, tasks'[r], doomed')
  <2> DEFINE task == tasks[r]
             left == IF task.wait > 0 THEN task.wait - 1 ELSE 0
             next == [task EXCEPT !.todo = Aged(@), !.wait = IF @ > 0 THEN @ - 1 ELSE 0]
  <2>1. task \in TaskType /\ Fate(r, task, doomed) /\ tasks'[r] = next /\ doomed' = doomed
    BY DEF TypeOK, TaskType, FateOK, Tick
  <2> HIDE DEF task
  <2>2. task.todo \in Seq(FaultType) /\ left \in Nat
    BY <2>1 DEF TaskType
  <2>3. /\ Aged(task.todo) \in Seq(FaultType)
        /\ DOMAIN Aged(task.todo) = DOMAIN task.todo
        /\ \A i \in DOMAIN task.todo : Aged(task.todo)[i].kind = task.todo[i].kind
    BY <2>2, AgedType DEF FaultType
  <2>4. /\ next \in TaskType
        /\ next.phase = task.phase /\ next.todo = Aged(task.todo)
    BY <2>1, <2>2, <2>3 DEF TaskType
  <2>5. /\ RequestFaults(task.todo) => RequestFaults(Aged(task.todo))
        /\ Fails(task.todo) <=> Fails(Aged(task.todo))
    BY <2>3 DEF RequestFaults, Fails
  <2> HIDE DEF next
  <2>6. Fate(r, next, doomed)
    BY <2>1, <2>4, <2>5 DEF Fate
  <2> QED BY <2>1, <2>4, <2>6
<1>3. tasks' \in [Requests -> TaskType]
  <2>1. tasks' = [r \in Requests |-> tasks'[r]]
    BY DEF Tick
  <2> QED BY <1>2, <2>1
<1> QED BY <1>1, <1>2, <1>3 DEF TypeOK, TaskType, Distinct, FateOK, Tick

LEMMA FateInductive ==
  ASSUME TypeOK, FateOK, [Next]_vars
  PROVE  TypeOK' /\ FateOK'
<1>a. active \in Seq(FaultType) /\ Distinct(active)
  BY DEF TypeOK, Distinct
<1>1. ASSUME NEW r \in Requests, Arrive(r) PROVE TypeOK' /\ FateOK'
  BY <1>1, ArriveStep
<1>2. ASSUME NEW r \in Requests, Step(r) PROVE TypeOK' /\ FateOK'
  BY <1>2, RequestStep
<1>3. ASSUME NEW id \in Experiments, NEW kind \in OfferedKinds, NEW d \in Durations,
             StartFault(id, kind, d)
      PROVE  TypeOK' /\ FateOK'
  <2> DEFINE fault == [id |-> id, kind |-> kind, left |-> d]
  <2>1. fault \in FaultType
    BY FaultsAssumption DEF FaultType, FaultRecords
  <2>2. active' = Started(active, fault) /\ UNCHANGED <<tasks, holder, doomed>>
    BY <1>3 DEF StartFault
  <2> HIDE DEF fault
  <2> QED BY <1>a, <2>1, <2>2, StartedType, RegistryStep
<1>4. ASSUME NEW id \in Experiments, StopFault(id) PROVE TypeOK' /\ FateOK'
  BY <1>4, <1>a, StoppedType, RegistryStep DEF StopFault
<1>5. CASE ListFaults
  BY <1>5, <1>a, LiveFaultsType, RegistryStep DEF ListFaults
<1>6. CASE Tick
  BY <1>6, TickStep
<1>7. CASE Restart
  <2>1. Idle \in TaskType /\ Idle.phase = "idle"
    BY DEF Idle, Task, TaskType, Phases
  <2>2. TypeOK'
    BY <1>7, <2>1 DEF Restart, TypeOK, TaskType
  <2>3. FateOK'
    BY <1>7, <2>1 DEF Restart, FateOK, Fate
  <2> QED BY <2>2, <2>3
<1>8. CASE UNCHANGED vars
  BY <1>8, <1>a, RegistryStep DEF vars
<1> QED BY <1>1, <1>2, <1>3, <1>4, <1>5, <1>6, <1>7, <1>8 DEF Next, Starting

LEMMA FateInvariant == Spec => [](TypeOK /\ FateOK)
<1>1. TypeOK /\ FateOK /\ [Next]_vars => (TypeOK /\ FateOK)'
  BY FateInductive
<1> QED BY <1>1, FateInit, PTL DEF Spec

------------------------------------------------------------------------------
\* The registry holds at most one fault per experiment, whatever is started,
\* stopped, asked for and run out (faults.py: FaultRegistry).
THEOREM FaultsTypeCorrect == Spec => []TypeOK
  BY FateInvariant, PTL

\* A request that meets a live failing fault on arrival fails, whatever delays it
\* first and whatever is stopped or replaced meanwhile (faults.py:
\* apply_request_faults over one answer of active()).
THEOREM FailureTheorem == Spec => []FailureNotSkipped
<1>1. TypeOK /\ FateOK => FailureNotSkipped
  BY DEF TypeOK, FateOK, Fate, FailureNotSkipped
<1> QED BY <1>1, FateInvariant, PTL

\* No other request fails: a failing fault that is started while a request sleeps
\* does not reach it.
THEOREM ExplainedTheorem == Spec => []FailuresExplained
<1>1. TypeOK /\ FateOK => FailuresExplained
  BY DEF FateOK, Fate, FailuresExplained
<1> QED BY <1>1, FateInvariant, PTL
===============================================================================
