-------------------------------- MODULE Chaos --------------------------------
(***************************************************************************)
(* The chaos controller (chaos_service.py) and the fault registries of the *)
(* services it drives over HTTP (service_factory.start_fault, stop_fault). *)
(*                                                                         *)
(* An endpoint of the controller runs up to its call, awaits it, and runs  *)
(* on with what it held before.  A call may be refused, served without its *)
(* answer arriving, or served after the controller gave it up.  Times are  *)
(* relative: left is what remains until an end time, 0 once it has come.   *)
(***************************************************************************)
EXTENDS FaultRegistry

CONSTANTS
  Services,     \* TARGETS
  Replicas,     \* the processes that serve them
  ReplicasOf,   \* which of them each service has
  Ids,          \* experiment ids
  Clients,      \* requests to the controller at a time
  Durations,
  CallTime,     \* what a call takes at most: the sum of httpx's timeouts
  MaxLate       \* bound on the given-up calls still on their way

ASSUME ChaosAssumption ==
  /\ ReplicasOf \in [Services -> (SUBSET Replicas) \ {{}}]
  /\ Durations \subseteq Nat \ {0}
  /\ IsFiniteSet(Clients)
  /\ CallTime \in Nat \ {0}
  /\ MaxLate \in Nat

VARIABLES
  experiments,   \* the controller's dict of records
  calls,         \* what each request to the controller awaits
  late,          \* given-up calls that still may be served
  registries,    \* the registry of every replica
  doubtful,      \* history: ids whose faults the controller has lost track of
  cut            \* history: ids whose fault may have ended before the time on record

vars == <<experiments, calls, late, registries, doubtful, cut>>

Statuses == {"running", "completed", "stopped"}

Record  == [service : Services, left : Nat, status : Statuses]
Message == [verb : {"start"}, id : Ids, service : Services, duration : Durations]
             \cup [verb : {"stop"}, id : Ids, service : Services]

\* left runs to the end_time computed before the call, wait to its timeout.  A
\* stop holds the record it found: holds is whether the dict still has that one.
Call == [sent : BOOLEAN, msg : Message, left : Nat, wait : Nat, holds : BOOLEAN]
None == [sent |-> FALSE]

Init ==
  /\ experiments = [id \in {} |-> 0]
  /\ calls = [c \in Clients |-> None]
  /\ late = {}
  /\ registries = [p \in Replicas |-> <<>>]
  /\ doubtful = {} /\ cut = {}

Awaiting(c) == calls[c] # None
Open(c)     == Awaiting(c) /\ calls[c].sent

Starts(id) == {c \in Clients : Awaiting(c) /\ calls[c].msg.verb = "start" /\ calls[c].msg.id = id}
LateStarts(id) == {m \in late : m.verb = "start" /\ m.id = id}

Put(id, record) ==
  [i \in DOMAIN experiments \cup {id} |-> IF i = id THEN record ELSE experiments[i]]

Pending(msg, left, holds) ==
  [sent |-> TRUE, msg |-> msg, left |-> left, wait |-> CallTime, holds |-> holds]

LiveFaults(p)   == {registries[p][i] : i \in {j \in DOMAIN registries[p] : IsLive(registries[p][j])}}
HasFault(p, id) == \E f \in LiveFaults(p) : f.id = id
Present(id)     == \E p \in Replicas : HasFault(p, id)

------------------------------------------------------------------------------
(* Endpoints.  An unknown service (422) and an unknown id (404) change     *)
(* nothing.                                                                *)

\* start_experiment up to its call.
StartExperiment(c, id, service, duration) ==
  /\ ~Awaiting(c)
  /\ LET msg == [verb |-> "start", id |-> id, service |-> service, duration |-> duration]
     IN  calls' = [calls EXCEPT ![c] = Pending(msg, duration, FALSE)]
  /\ LET overlapped == {i \in {id} : Starts(i) \cup LateStarts(i) # {}}
     IN  doubtful' = doubtful \cup overlapped /\ cut' = cut \cup overlapped
  /\ UNCHANGED <<experiments, late, registries>>

\* stop_experiment up to its call.
StopExperiment(c, id) ==
  /\ ~Awaiting(c)
  /\ id \in DOMAIN experiments
  /\ LET msg == [verb |-> "stop", id |-> id, service |-> experiments[id].service]
     IN  calls' = [calls EXCEPT ![c] = Pending(msg, 0, TRUE)]
  /\ UNCHANGED <<experiments, late, registries, doubtful, cut>>

\* What a target does with a call.
Served(registry, msg) ==
  IF msg.verb = "start"
  THEN Started(registry, [id |-> msg.id, kind |-> "http_500", left |-> msg.duration])
  ELSE Stopped(registry, msg.id)

\* A call ends or replaces the fault its target has under the id.  A start that
\* nothing overlaps is followed by the record of the fault it begins.
CutBy(msg, p) == IF HasFault(p, msg.id) THEN cut \cup {msg.id} ELSE cut

Serve(c, p) ==
  /\ Open(c)
  /\ p \in ReplicasOf[calls[c].msg.service]
  /\ registries' = [registries EXCEPT ![p] = Served(@, calls[c].msg)]
  /\ calls' = [calls EXCEPT ![c].sent = FALSE]
  /\ LET msg == calls[c].msg
     IN  cut' = IF Starts(msg.id) = {c} /\ LateStarts(msg.id) = {}
                THEN cut \ {msg.id} ELSE CutBy(msg, p)
  /\ UNCHANGED <<experiments, late, doubtful>>

ServeLate(msg, p) ==
  /\ msg \in late
  /\ p \in ReplicasOf[msg.service]
  /\ registries' = [registries EXCEPT ![p] = Served(@, msg)]
  /\ late' = late \ {msg}
  /\ cut' = CutBy(msg, p)
  /\ UNCHANGED <<experiments, calls, doubtful>>

\* Mutant: the end time counts from the answer.
EndFromAnswer(call) == call.msg.duration

\* The end time counts from before the call.
EndOf(call) == call.left

\* The answer to a start: the record is written, over whatever the id had.
ExperimentStarted(c) ==
  /\ Awaiting(c) /\ ~Open(c) /\ calls[c].msg.verb = "start"
  /\ LET id     == calls[c].msg.id
         record == [service |-> calls[c].msg.service, left |-> EndOf(calls[c]), status |-> "running"]
         moved  == id \in DOMAIN experiments /\ experiments[id].service # record.service
     IN  /\ experiments' = Put(id, record)
         /\ calls' = [d \in Clients |->
                        IF d = c THEN None
                        ELSE IF Awaiting(d) /\ calls[d].msg.id = id THEN [calls[d] EXCEPT !.holds = FALSE]
                        ELSE calls[d]]
         /\ doubtful' = IF moved THEN doubtful \cup {id} ELSE doubtful
  /\ UNCHANGED <<late, registries, cut>>

\* Mutant: the record is looked up again after the await.
LookedUpAgain(call) == call.msg.id \in DOMAIN experiments

\* The record found before the await is the one that is changed after it.
Holds(call) == call.holds

\* The answer to a stop, whatever its status.
ExperimentStopped(c) ==
  /\ Awaiting(c) /\ ~Open(c) /\ calls[c].msg.verb = "stop"
  /\ experiments' = IF Holds(calls[c])
                    THEN [experiments EXCEPT ![calls[c].msg.id].status = "stopped",
                                             ![calls[c].msg.id].left = 0]
                    ELSE experiments
  /\ calls' = [calls EXCEPT ![c] = None]
  /\ UNCHANGED <<late, registries, doubtful, cut>>

\* An httpx error (502 to a start, 500 to a stop): refused, broken or timed out.
\* What was sent may still be served.
GiveUp(c) ==
  /\ Awaiting(c)
  /\ calls' = [calls EXCEPT ![c] = None]
  /\ \/ UNCHANGED late
     \/ Open(c) /\ Cardinality(late) < MaxLate /\ late' = late \cup {calls[c].msg}
  /\ LET unrecorded == {m \in {calls[c].msg} : m.verb = "start"}
         ids        == {m.id : m \in unrecorded}
     IN  /\ doubtful' = doubtful \cup ids
         /\ cut' = IF Open(c) THEN cut ELSE cut \cup ids
  /\ UNCHANGED <<experiments, registries>>

\* Mutant: completed experiments are forgotten.
Forgotten(records) ==
  [id \in {i \in DOMAIN records : records[i].left > 0} |-> records[id]]

\* list_experiments: what is over is completed, also what was stopped.
Listed(records) ==
  [id \in DOMAIN records |->
     IF records[id].left = 0 THEN [records[id] EXCEPT !.status = "completed"] ELSE records[id]]

ListExperiments ==
  /\ experiments' = Listed(experiments)
  /\ UNCHANGED <<calls, late, registries, doubtful, cut>>

------------------------------------------------------------------------------
\* A request passes a replica's middleware, which drops its expired faults.
Visit(p) ==
  /\ registries' = [registries EXCEPT ![p] = Live(@)]
  /\ UNCHANGED <<experiments, calls, late, doubtful, cut>>

\* No call outlasts its timeouts.  Doubts about an id end with its faults.
Tick ==
  /\ \A c \in Clients : Awaiting(c) => calls[c].wait > 0
  /\ experiments' = [id \in DOMAIN experiments |->
                       [experiments[id] EXCEPT !.left = IF @ > 0 THEN @ - 1 ELSE 0]]
  /\ calls' = [c \in Clients |->
                 IF Awaiting(c)
                 THEN [calls[c] EXCEPT !.wait = @ - 1, !.left = IF @ > 0 THEN @ - 1 ELSE 0]
                 ELSE calls[c]]
  /\ registries' = [p \in Replicas |-> Aged(registries[p])]
  /\ doubtful' = {id \in doubtful : Present(id)' \/ Starts(id) \cup LateStarts(id) # {}}
  /\ UNCHANGED <<late, cut>>

RestartTarget(p) ==
  /\ registries' = [registries EXCEPT ![p] = <<>>]
  /\ cut' = cut \cup {f.id : f \in LiveFaults(p)}
  /\ UNCHANGED <<experiments, calls, late, doubtful>>

RestartController ==
  /\ experiments' = [id \in {} |-> 0]
  /\ calls' = [c \in Clients |-> None]
  /\ \E lost \in SUBSET {calls[c].msg : c \in {d \in Clients : Open(d)}} :
       /\ Cardinality(late \cup lost) <= MaxLate
       /\ late' = late \cup lost
  /\ doubtful' = doubtful \cup {id \in Ids : Present(id) \/ Starts(id) # {}}
  /\ UNCHANGED <<registries, cut>>

Next ==
  \/ \E c \in Clients :
       \/ \E id \in Ids, service \in Services, d \in Durations : StartExperiment(c, id, service, d)
       \/ \E id \in Ids : StopExperiment(c, id)
       \/ \E p \in Replicas : Serve(c, p)
       \/ ExperimentStarted(c)
       \/ ExperimentStopped(c)
       \/ GiveUp(c)
  \/ \E p \in Replicas : (\E msg \in late : ServeLate(msg, p)) \/ Visit(p) \/ RestartTarget(p)
  \/ ListExperiments
  \/ Tick
  \/ RestartController

Spec == Init /\ [][Next]_vars

------------------------------------------------------------------------------
TypeOK ==
  /\ DOMAIN experiments \subseteq Ids
  /\ \A id \in DOMAIN experiments : experiments[id] \in Record
  /\ calls \in [Clients -> Call \cup {None}]
  /\ late \subseteq Message /\ Cardinality(late) <= MaxLate
  /\ registries \in [Replicas -> Seq(FaultRecords(Ids))]
  /\ \A p \in Replicas : \A i, j \in DOMAIN registries[p] :
       i # j => registries[p][i].id # registries[p][j].id
  /\ doubtful \subseteq Ids /\ cut \subseteq Ids

\* The ids the controller knows about: no start of theirs is under way, overlapped
\* another, went unanswered or moved to another service, since they last had a fault.
Clear == {id \in Ids \ doubtful : Starts(id) = {}}

FaultsOf(id) ==
  {f \in UNION {LiveFaults(p) : p \in ReplicasOf[experiments[id].service]} : f.id = id}

\* While a fault is live, the end that GET /experiments gives is not later than its
\* own and not earlier by more than the time of a call, also when the record is
\* already completed.
RecordTellsEnd ==
  \A id \in Clear \cap DOMAIN experiments : experiments[id].status # "stopped" =>
    \A f \in FaultsOf(id) : f.left - experiments[id].left \in 0..CallTime

\* And while that end is still to come and no start of the id is under way, the
\* service does have the fault, unless it was cut: by a restart of its process, by a
\* stop (whose answer may be lost, or which may come so late that it ends the fault
\* of a newer record), or by a start that overlapped another or got no answer.
RunningMeansLive ==
  \A id \in DOMAIN experiments \ cut :
    Starts(id) = {} /\ experiments[id].left > 0 => FaultsOf(id) # {}

\* docs/chaos-testing.md ("Stop an experiment early with DELETE"): when the record
\* says stopped the fault is gone from the service, whatever starts and stops of the
\* id ran meanwhile.
StoppedIsOver ==
  \A id \in Clear \cap DOMAIN experiments : experiments[id].status = "stopped" => FaultsOf(id) = {}

\* A fault whose experiment the controller has not lost track of is on record,
\* with the service that has it, until it is over.
KnownFaultsRecorded ==
  \A p \in Replicas : \A f \in LiveFaults(p) :
    f.id \in Clear => f.id \in DOMAIN experiments /\ p \in ReplicasOf[experiments[f.id].service]

==============================================================================
