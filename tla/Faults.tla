-------------------------------- MODULE Faults --------------------------------
(***************************************************************************)
(* One service of the checkout chain as far as faults go: the registry,    *)
(* the control endpoints, and the requests it delays and fails             *)
(* (service_factory.inject_faults, FaultRegistry.apply_request_faults and  *)
(* dependency_delay).                                                      *)
(*                                                                         *)
(* The service is one event loop.  A request runs from one await to the    *)
(* next in one step, iterating the list of faults that active() returned   *)
(* when it began.  CPU pressure does not await: it holds the loop.         *)
(***************************************************************************)
EXTENDS FaultRegistry

CONSTANTS
  Experiments,     \* experiment ids
  Requests,        \* requests the service may have at a time
  Nobody,
  OfferedKinds,    \* the kinds of fault that are started
  Durations,       \* and for how long
  DelayKind,       \* what delays the handler: its database's or its dependency's fault
  Pause            \* how long a fault of each kind keeps a request

ASSUME FaultsAssumption ==
  /\ Nobody \notin Requests
  /\ OfferedKinds \subseteq FaultKinds
  /\ Durations \subseteq Nat \ {0}
  /\ DelayKind \in DependencyKinds
  /\ Pause \in [FaultKinds -> Nat \ {0}]

VARIABLES
  active,   \* the registry
  tasks,    \* what each request is doing
  holder,   \* the request that burns CPU, or Nobody
  doomed    \* history: the requests that met a live failing fault on arrival

vars == <<active, tasks, holder, doomed>>

\* A request is not there (idle); between two faults; about to be dropped; past
\* the middleware; in its handler's dependency_delay; past it; or failed.
Phases == {"idle", "faults", "dropping", "called", "delayed", "answered", "failed"}

\* burnt counts the CPU bursts of the request.
Task(phase, todo, wait, burnt) == [phase |-> phase, todo |-> todo, wait |-> wait, burnt |-> burnt]
Idle == Task("idle", <<>>, 0, 0)

Init ==
  /\ active = <<>>
  /\ tasks = [r \in Requests |-> Idle]
  /\ holder = Nobody
  /\ doomed = {}

\* Mutant: a fault that is none of the request's business ends the loop.
UpToForeign(faults, kinds) ==
  LET foreign == {i \in DOMAIN faults : faults[i].kind \notin kinds}
      first   == CHOOSE i \in foreign : \A j \in foreign : i <= j
  IN  IF foreign = {} THEN faults ELSE SubSeq(faults, 1, first - 1)

\* The faults of a list that matter to a request; the others are skipped.
Concerning(faults, kinds) == Kept(faults, {i \in DOMAIN faults : faults[i].kind \in kinds})

\* apply_request_faults from the head of todo to the next await, raise or burst.
Apply(todo, burnt) ==
  LET kind == Head(todo).kind
  IN  CASE todo = <<>>                               -> Task("called", <<>>, 0, burnt)
        [] todo # <<>> /\ kind \in SleepingKinds     -> Task("faults", Tail(todo), Pause[kind], burnt)
        [] todo # <<>> /\ kind \in BurningKinds      -> Task("faults", Tail(todo), Pause[kind], burnt + 1)
        [] todo # <<>> /\ kind = "http_500"          -> Task("failed", <<>>, 0, burnt)
        [] todo # <<>> /\ kind = "drop"              -> Task("dropping", <<>>, Pause[kind], burnt)

Burns(todo) == todo # <<>> /\ Head(todo).kind \in BurningKinds

Run(r, todo, burnt) ==
  /\ tasks' = [tasks EXCEPT ![r] = Apply(todo, burnt)]
  /\ holder' = IF Burns(todo) THEN r ELSE Nobody

\* A request comes in and enters inject_faults.
Arrive(r) ==
  /\ holder = Nobody /\ tasks[r].phase = "idle"
  /\ Run(r, Concerning(Live(active), RequestKinds), 0)
  /\ active' = Live(active)
  /\ doomed' = IF \E i \in DOMAIN active : IsLive(active[i]) /\ active[i].kind \in FailingKinds
               THEN doomed \cup {r} ELSE doomed

\* Mutant: the registry is asked again after every fault.
AskedAgain(r) == Concerning(Live(active), RequestKinds)

\* What is left of the list the request began with.
Remaining(r) == tasks[r].todo

\* A sleep or a burst is over: on to the next fault.
Resume(r) ==
  /\ holder \in {Nobody, r}
  /\ tasks[r].phase = "faults" /\ tasks[r].wait = 0
  /\ Run(r, Remaining(r), tasks[r].burnt)
  /\ UNCHANGED <<active, doomed>>

\* A dropped request is failed after its sleep.
Drop(r) ==
  /\ holder = Nobody
  /\ tasks[r].phase = "dropping" /\ tasks[r].wait = 0
  /\ tasks' = [tasks EXCEPT ![r] = Task("failed", <<>>, 0, @.burnt)]
  /\ UNCHANGED <<active, holder, doomed>>

\* dependency_delay from the head of todo to the next await, or to its end.
Delay(todo, burnt) ==
  IF todo = <<>> THEN Task("answered", <<>>, 0, burnt)
                 ELSE Task("delayed", Tail(todo), Pause[DelayKind], burnt)

\* The handler asks the registry again, for the faults of its dependency.
Handle(r) ==
  /\ holder = Nobody
  /\ tasks[r].phase = "called"
  /\ tasks' = [tasks EXCEPT ![r] = Delay(Concerning(Live(active), {DelayKind}), @.burnt)]
  /\ active' = Live(active)
  /\ UNCHANGED <<holder, doomed>>

HandleOn(r) ==
  /\ holder = Nobody
  /\ tasks[r].phase = "delayed" /\ tasks[r].wait = 0
  /\ tasks' = [tasks EXCEPT ![r] = Delay(@.todo, @.burnt)]
  /\ UNCHANGED <<active, holder, doomed>>

\* The answer, or the error, is sent.
Finish(r) ==
  /\ holder = Nobody
  /\ tasks[r].phase \in {"answered", "failed"}
  /\ tasks' = [tasks EXCEPT ![r] = Idle]
  /\ doomed' = doomed \ {r}
  /\ UNCHANGED <<active, holder>>

------------------------------------------------------------------------------
(* The control endpoints, which inject_faults lets pass untouched.         *)

StartFault(id, kind, duration) ==
  /\ holder = Nobody
  /\ active' = Started(active, [id |-> id, kind |-> kind, left |-> duration])
  /\ UNCHANGED <<tasks, holder, doomed>>

StopFault(id) ==
  /\ holder = Nobody
  /\ active' = Stopped(active, id)
  /\ UNCHANGED <<tasks, holder, doomed>>

ListFaults ==
  /\ holder = Nobody
  /\ active' = Live(active)
  /\ UNCHANGED <<tasks, holder, doomed>>

------------------------------------------------------------------------------
Tick ==
  /\ active' = Aged(active)
  /\ tasks' = [r \in Requests |->
                 [tasks[r] EXCEPT !.todo = Aged(@), !.wait = IF @ > 0 THEN @ - 1 ELSE 0]]
  /\ UNCHANGED <<holder, doomed>>

\* The container restarts: faults and requests are gone.
Restart == active' = <<>> /\ tasks' = [r \in Requests |-> Idle] /\ holder' = Nobody /\ doomed' = {}

Starting == \E id \in Experiments, kind \in OfferedKinds, d \in Durations : StartFault(id, kind, d)

Step(r) == Resume(r) \/ Drop(r) \/ Handle(r) \/ HandleOn(r) \/ Finish(r)

Next ==
  \/ \E r \in Requests : Arrive(r) \/ Step(r)
  \/ Starting
  \/ \E id \in Experiments : StopFault(id)
  \/ ListFaults
  \/ Tick
  \/ Restart

Spec == Init /\ [][Next]_vars

\* Time passes, and the event loop runs what is ready in the order in which it
\* became ready: what can run again and again does run, also when others hold
\* the loop in between.  Nothing obliges clients or operators to do anything.
Fairness == WF_vars(Tick) /\ \A r \in Requests : SF_vars(Step(r))

FairSpec == Spec /\ Fairness

------------------------------------------------------------------------------
FaultType == FaultRecords(Experiments)

TypeOK ==
  /\ active \in Seq(FaultType)
  /\ \A i, j \in DOMAIN active : i # j => active[i].id # active[j].id
  /\ tasks \in [Requests -> [phase : Phases, todo : Seq(FaultType), wait : Nat, burnt : Nat]]
  /\ holder \in Requests \cup {Nobody}
  /\ doomed \subseteq Requests

\* tests/test_faults.py (test_http_error_fault_is_deterministic): a failing
\* fault fails every request that meets it, however many faults delay the
\* request first and whatever the operator stops meanwhile.
FailureNotSkipped ==
  \A r \in doomed : tasks[r].phase \in {"faults", "dropping", "failed"}

\* The middleware fails only requests that met a failing fault: one that is started,
\* or put in the place of another, while a request sleeps does not concern it.
FailuresExplained ==
  \A r \in Requests : tasks[r].phase \in {"dropping", "failed"} => r \in doomed

\* Every request is answered, also when experiments are started without end:
\* the list of faults it goes through does not grow under it.
Answered ==
  \A r \in Requests : tasks[r].phase # "idle" ~> tasks[r].phase = "idle"

\* Faults end by themselves (ADR 0002: "time-bounded"): once no more are
\* started the service is in the end unharmed for good, though nobody stops one.
Unharmed ==
  /\ Live(active) = <<>>
  /\ \A r \in Requests : tasks[r].todo = <<>> /\ tasks[r].wait = 0
Recovery == <>[][~Starting]_vars => <>[]Unharmed

------------------------------------------------------------------------------
\* docs/chaos-testing.md: "per-request CPU work is capped at 100 ms", one burst.
CpuCapped == \A r \in Requests : tasks[r].burnt <= 1
==============================================================================
