----------------------------- MODULE ChaosProofs -----------------------------
(***************************************************************************)
(* Theorems about module Chaos, for any services, experiments, concurrent  *)
(* requests, durations and late calls.                                     *)
(*                                                                         *)
(* What the controller says of a fault is right because of two things it   *)
(* keeps across a call: the end time it computed before a start, and the   *)
(* record it found before a stop.  One argument follows a live fault: it   *)
(* is of a start that was served and whose answer is still to come, or it  *)
(* is the one on record.  The other follows the end on record back to the  *)
(* fault that lasts until then.                                            *)
(***************************************************************************)
EXTENDS Chaos, ListProofs

\* Docker Compose runs one process of each service.
OneReplica == \A s \in Services : \E p \in Replicas : ReplicasOf[s] = {p}

ServedStarts(id) == {c \in Starts(id) : ~calls[c].sent}

\* Stops that were served and will mark the record as stopped.
ServedStops(id) ==
  {c \in Clients : /\ Awaiting(c) /\ ~calls[c].sent /\ calls[c].holds
                   /\ calls[c].msg.verb = "stop" /\ calls[c].msg.id = id}

\* The fault a start has put into service, and whose record is to be written.
OfStart(p, fault) ==
  \E c \in ServedStarts(fault.id) :
    /\ p \in ReplicasOf[calls[c].msg.service]
    /\ OneReplica => fault.left - calls[c].left \in 0..CallTime

\* The fault the record is about: not stopped, not about to be, and not where a
\* start has been served since.
OnRecord(p, fault) ==
  /\ fault.id \in DOMAIN experiments
  /\ p \in ReplicasOf[experiments[fault.id].service]
  /\ OneReplica =>
       /\ experiments[fault.id].status # "stopped"
       /\ fault.left - experiments[fault.id].left \in 0..CallTime
       /\ ServedStops(fault.id) = {}
       /\ \A c \in ServedStarts(fault.id) : p \notin ReplicasOf[calls[c].msg.service]

\* While a start is on its way its end time is early by what has passed since.
CallOK(c) ==
  /\ calls[c].wait <= CallTime
  /\ calls[c].msg.verb = "start" =>
       /\ ~calls[c].holds
       /\ calls[c].sent => calls[c].msg.duration - calls[c].left \in 0..(CallTime - calls[c].wait)
  /\ calls[c].holds => /\ calls[c].msg.id \in DOMAIN experiments
                       /\ experiments[calls[c].msg.id].service = calls[c].msg.service

KnownOK(id) ==
  /\ LateStarts(id) = {}
  /\ \A c, d \in Starts(id) : c = d
  /\ \A p \in Replicas : \A fault \in LiveFaults(p) :
       fault.id = id => OfStart(p, fault) \/ OnRecord(p, fault)

ControlOK ==
  /\ \A c \in Clients : Awaiting(c) => CallOK(c)
  /\ \A id \in Ids \ doubtful : KnownOK(id)

------------------------------------------------------------------------------
(* Types *)

RegistriesOK ==
  /\ registries \in [Replicas -> Seq(FaultRecords(Ids))]
  /\ \A p \in Replicas : Distinct(registries[p])

\* The bound on late calls needs that they can be counted.
ChaosTypes == TypeOK /\ IsFiniteSet(late)

LEMMA MessageFields ==
  ASSUME NEW msg \in Message
  PROVE  /\ msg.id \in Ids /\ msg.service \in Services /\ msg.verb \in {"start", "stop"}
         /\ msg.verb = "start" => msg.duration \in Nat \ {0}
  BY ChaosAssumption DEF Message

LEMMA CallFields ==
  ASSUME NEW call \in Call
  PROVE  /\ call # None
         /\ call.sent \in BOOLEAN /\ call.msg \in Message
         /\ call.left \in Nat /\ call.wait \in Nat /\ call.holds \in BOOLEAN
<1>1. DOMAIN call = {"sent", "msg", "left", "wait", "holds"}
  BY DEF Call
<1>2. DOMAIN None = {"sent"}
  BY DEF None
<1> QED BY <1>1, <1>2 DEF Call

LEMMA AwaitedCall ==
  ASSUME TypeOK, NEW c \in Clients, Awaiting(c)
  PROVE  calls[c] \in Call
  BY DEF TypeOK, Awaiting

LEMMA PendingType ==
  ASSUME NEW msg \in Message, NEW left \in Nat, NEW holds \in BOOLEAN
  PROVE  Pending(msg, left, holds) \in Call
  BY ChaosAssumption DEF Pending, Call

LEMMA AgedCall ==
  ASSUME NEW call \in Call, call.wait > 0
  PROVE  [call EXCEPT !.wait = @ - 1, !.left = IF @ > 0 THEN @ - 1 ELSE 0] \in Call
<1>1. call.wait \in Nat /\ call.left \in Nat
  BY CallFields
<1>2. call.wait - 1 \in Nat /\ (IF call.left > 0 THEN call.left - 1 ELSE 0) \in Nat
  BY <1>1
<1> QED BY <1>2 DEF Call

LEMMA ServedType ==
  ASSUME NEW registry \in Seq(FaultRecords(Ids)), Distinct(registry), NEW msg \in Message
  PROVE  Served(registry, msg) \in Seq(FaultRecords(Ids)) /\ Distinct(Served(registry, msg))
<1>1. CASE msg.verb = "start"
  <2> DEFINE new == [id |-> msg.id, kind |-> "http_500", left |-> msg.duration]
  <2>1. "http_500" \in FaultKinds
    BY DEF FaultKinds, RequestKinds, FailingKinds
  <2>2. new \in FaultRecords(Ids)
    BY <1>1, <2>1, MessageFields DEF FaultRecords
  <2>3. Served(registry, msg) = Started(registry, new)
    BY <1>1 DEF Served
  <2> HIDE DEF new
  <2> QED BY <2>2, <2>3, StartedType
<1>2. CASE msg.verb # "start"
  BY <1>2, StoppedType DEF Served
<1> QED BY <1>1, <1>2

\* One replica's registry changes.
LEMMA RegistryChanges ==
  ASSUME RegistriesOK, NEW p \in Replicas, NEW registry \in Seq(FaultRecords(Ids)), Distinct(registry),
         registries' = [registries EXCEPT ![p] = registry]
  PROVE  RegistriesOK'
  BY DEF RegistriesOK

LEMMA TypesInit == Init => ChaosTypes
<1> SUFFICES ASSUME Init PROVE ChaosTypes
  OBVIOUS
<1>1. Cardinality({}) = 0 /\ IsFiniteSet({})
  BY FS_EmptySet
<1>2. TypeOK
  BY <1>1, ChaosAssumption DEF Init, TypeOK
<1> QED BY <1>1, <1>2 DEF Init, ChaosTypes

RecordsOK == DOMAIN experiments \subseteq Ids /\ \A id \in DOMAIN experiments : experiments[id] \in Record

LateOK == late \subseteq Message /\ Cardinality(late) <= MaxLate /\ IsFiniteSet(late)

HistoryOK == doubtful \subseteq Ids /\ cut \subseteq Ids

LEMMA TypeParts ==
  ChaosTypes <=> /\ RecordsOK /\ LateOK /\ RegistriesOK
                 /\ calls \in [Clients -> Call \cup {None}] /\ HistoryOK
  BY DEF ChaosTypes, TypeOK, RecordsOK, LateOK, RegistriesOK, HistoryOK, Distinct

LEMMA TypesStep ==
  ASSUME ChaosTypes, [Next]_vars
  PROVE  ChaosTypes'
<1> DEFINE CallsOK == calls \in [Clients -> Call \cup {None}]
<1>a. RecordsOK /\ LateOK /\ RegistriesOK /\ CallsOK /\ HistoryOK
  BY TypeParts
<1>b. TypeOK
  BY DEF ChaosTypes
<1> SUFFICES RecordsOK' /\ LateOK' /\ RegistriesOK' /\ CallsOK' /\ HistoryOK'
  <2>1. ChaosTypes' <=> /\ RecordsOK' /\ LateOK' /\ RegistriesOK' /\ CallsOK' /\ HistoryOK'
    BY DEF ChaosTypes, TypeOK, RecordsOK, LateOK, RegistriesOK, HistoryOK, Distinct
  <2> QED BY <2>1
<1>c. (UNCHANGED experiments => RecordsOK') /\ (UNCHANGED late => LateOK')
      /\ (UNCHANGED registries => RegistriesOK') /\ (UNCHANGED <<doubtful, cut>> => HistoryOK')
  BY <1>a DEF RecordsOK, LateOK, RegistriesOK, HistoryOK
<1>d. ASSUME NEW msg \in Message, NEW p \in Replicas, cut' \subseteq CutBy(msg, p), UNCHANGED doubtful
      PROVE  HistoryOK'
  BY <1>a, <1>d, MessageFields DEF CutBy, HistoryOK
<1>1. ASSUME NEW c \in Clients, NEW id \in Ids, NEW service \in Services, NEW d \in Durations,
             StartExperiment(c, id, service, d)
      PROVE  RecordsOK' /\ LateOK' /\ RegistriesOK' /\ CallsOK' /\ HistoryOK'
  <2> DEFINE msg == [verb |-> "start", id |-> id, service |-> service, duration |-> d]
  <2>1. msg \in Message /\ d \in Nat
    BY ChaosAssumption DEF Message
  <2>2. /\ calls' = [calls EXCEPT ![c] = Pending(msg, d, FALSE)]
        /\ UNCHANGED <<experiments, late, registries>>
        /\ HistoryOK'
    BY <1>1, <1>a DEF StartExperiment, HistoryOK
  <2>3. Pending(msg, d, FALSE) \in Call
    BY <2>1, PendingType
  <2> QED BY <1>a, <1>c, <2>2, <2>3
<1>2. ASSUME NEW c \in Clients, NEW id \in Ids, StopExperiment(c, id)
      PROVE  RecordsOK' /\ LateOK' /\ RegistriesOK' /\ CallsOK' /\ HistoryOK'
  <2> DEFINE msg == [verb |-> "stop", id |-> id, service |-> experiments[id].service]
  <2>1. msg \in Message
    BY <1>2, <1>a DEF StopExperiment, RecordsOK, Record, Message
  <2>2. /\ calls' = [calls EXCEPT ![c] = Pending(msg, 0, TRUE)]
        /\ UNCHANGED <<experiments, late, registries, doubtful, cut>>
    BY <1>2 DEF StopExperiment
  <2>3. Pending(msg, 0, TRUE) \in Call
    BY <2>1, PendingType
  <2> QED BY <1>a, <1>c, <2>2, <2>3
<1>3. ASSUME NEW c \in Clients, NEW p \in Replicas, Serve(c, p)
      PROVE  RecordsOK' /\ LateOK' /\ RegistriesOK' /\ CallsOK' /\ HistoryOK'
  <2>1. calls[c] \in Call /\ calls[c].msg \in Message
    BY <1>3, <1>b, AwaitedCall, CallFields DEF Serve, Open
  <2>2. CallsOK'
    <3>1. [calls[c] EXCEPT !.sent = FALSE] \in Call
      BY <2>1 DEF Call
    <3>2. calls' = [calls EXCEPT ![c] = [calls[c] EXCEPT !.sent = FALSE]]
      BY <1>3 DEF Serve
    <3> QED BY <1>a, <3>1, <3>2
  <2>3. RegistriesOK'
    <3>1. registries[p] \in Seq(FaultRecords(Ids)) /\ Distinct(registries[p])
      BY <1>a DEF RegistriesOK
    <3>2. /\ Served(registries[p], calls[c].msg) \in Seq(FaultRecords(Ids))
          /\ Distinct(Served(registries[p], calls[c].msg))
      BY <2>1, <3>1, ServedType
    <3>3. registries' = [registries EXCEPT ![p] = Served(registries[p], calls[c].msg)]
      BY <1>3 DEF Serve
    <3> QED BY <1>a, <3>2, <3>3, RegistryChanges
  <2>4. HistoryOK'
    <3>1. cut' \subseteq CutBy(calls[c].msg, p) /\ UNCHANGED doubtful
      BY <1>3 DEF Serve, CutBy
    <3> QED BY <1>d, <2>1, <3>1
  <2> QED BY <1>3, <1>a, <1>c, <2>2, <2>3, <2>4 DEF Serve
<1>4. ASSUME NEW p \in Replicas, NEW msg \in late, ServeLate(msg, p)
      PROVE  RecordsOK' /\ LateOK' /\ RegistriesOK' /\ CallsOK' /\ HistoryOK'
  <2>1. LateOK'
    <3>1. IsFiniteSet(late') /\ Cardinality(late') = Cardinality(late) - 1 /\ Cardinality(late) \in Nat
      BY <1>4, <1>a, FS_RemoveElement, FS_CardinalityType DEF ServeLate, LateOK
    <3> QED BY <1>4, <1>a, <3>1, ChaosAssumption DEF ServeLate, LateOK
  <2>2. RegistriesOK'
    <3>1. registries[p] \in Seq(FaultRecords(Ids)) /\ Distinct(registries[p]) /\ msg \in Message
      BY <1>a DEF RegistriesOK, LateOK
    <3>2. Served(registries[p], msg) \in Seq(FaultRecords(Ids)) /\ Distinct(Served(registries[p], msg))
      BY <3>1, ServedType
    <3>3. registries' = [registries EXCEPT ![p] = Served(registries[p], msg)]
      BY <1>4 DEF ServeLate
    <3> QED BY <1>a, <3>2, <3>3, RegistryChanges
  <2>3. HistoryOK'
    <3>1. msg \in Message /\ cut' = CutBy(msg, p) /\ UNCHANGED doubtful
      BY <1>4, <1>a DEF ServeLate, LateOK
    <3> QED BY <1>d, <3>1
  <2> QED BY <1>4, <1>a, <1>c, <2>1, <2>2, <2>3 DEF ServeLate
<1>5. ASSUME NEW c \in Clients, ExperimentStarted(c)
      PROVE  RecordsOK' /\ LateOK' /\ RegistriesOK' /\ CallsOK' /\ HistoryOK'
  <2> DEFINE id == calls[c].msg.id
             record == [service |-> calls[c].msg.service, left |-> EndOf(calls[c]), status |-> "running"]
  <2>1. id \in Ids /\ record \in Record
    <3>1. calls[c].msg \in Message /\ calls[c].left \in Nat
      BY <1>5, <1>b, AwaitedCall, CallFields DEF ExperimentStarted
    <3> QED BY <3>1, MessageFields DEF Record, Statuses, EndOf
  <2>2. /\ experiments' = Put(id, record)
        /\ calls' = [d \in Clients |->
                       IF d = c THEN None
                       ELSE IF Awaiting(d) /\ calls[d].msg.id = id THEN [calls[d] EXCEPT !.holds = FALSE]
                       ELSE calls[d]]
        /\ UNCHANGED <<late, registries>>
        /\ doubtful' \subseteq doubtful \cup {id} /\ cut' = cut
    BY <1>5 DEF ExperimentStarted
  <2>3. CallsOK'
    <3>1. ASSUME NEW d \in Clients, Awaiting(d) PROVE [calls[d] EXCEPT !.holds = FALSE] \in Call
      BY <1>b, <3>1, AwaitedCall DEF Call
    <3>2. \A d \in Clients : calls[d] \in Call \cup {None}
      BY <1>a
    <3> QED BY <2>2, <3>1, <3>2
  <2> HIDE DEF id, record
  <2>4. RecordsOK'
    BY <1>a, <2>1, <2>2 DEF RecordsOK, Put
  <2>5. HistoryOK'
    BY <1>a, <2>1, <2>2 DEF HistoryOK
  <2> QED BY <1>a, <1>c, <2>2, <2>3, <2>4, <2>5
<1>6. ASSUME NEW c \in Clients, ExperimentStopped(c)
      PROVE  RecordsOK' /\ LateOK' /\ RegistriesOK' /\ CallsOK' /\ HistoryOK'
  <2>1. /\ \/ UNCHANGED experiments
           \/ experiments' = [experiments EXCEPT ![calls[c].msg.id].status = "stopped",
                                                 ![calls[c].msg.id].left = 0]
        /\ calls' = [calls EXCEPT ![c] = None]
        /\ UNCHANGED <<late, registries, doubtful, cut>>
    BY <1>6 DEF ExperimentStopped
  <2>2. RecordsOK'
    BY <1>a, <2>1 DEF RecordsOK, Record, Statuses
  <2> QED BY <1>a, <1>c, <2>1, <2>2
<1>7. ASSUME NEW c \in Clients, GiveUp(c)
      PROVE  RecordsOK' /\ LateOK' /\ RegistriesOK' /\ CallsOK' /\ HistoryOK'
  <2>1. calls[c].msg \in Message
    BY <1>7, <1>b, AwaitedCall, CallFields DEF GiveUp
  <2>2. /\ calls' = [calls EXCEPT ![c] = None]
        /\ UNCHANGED <<experiments, registries>>
        /\ HistoryOK'
    BY <1>7, <1>a, <2>1, MessageFields DEF GiveUp, HistoryOK
  <2>3. LateOK'
    <3>1. CASE UNCHANGED late
      BY <1>c, <3>1
    <3>2. CASE Cardinality(late) < MaxLate /\ late' = late \cup {calls[c].msg}
      <4>1. /\ IsFiniteSet(late') /\ Cardinality(late') <= Cardinality(late) + 1
            /\ Cardinality(late) \in Nat
        <5>1. IsFiniteSet(late) /\ Cardinality(late) \in Nat
          BY <1>a, FS_CardinalityType DEF LateOK
        <5>2. /\ IsFiniteSet(late')
              /\ Cardinality(late') = IF calls[c].msg \in late THEN Cardinality(late) ELSE Cardinality(late) + 1
          BY <3>2, <5>1, FS_AddElement
        <5> QED BY <5>1, <5>2
      <4>2. Cardinality(late') \in Nat
        BY <4>1, FS_CardinalityType
      <4> QED BY <1>a, <2>1, <3>2, <4>1, <4>2, ChaosAssumption DEF LateOK
    <3> QED BY <1>7, <3>1, <3>2 DEF GiveUp
  <2> QED BY <1>a, <1>c, <2>2, <2>3
<1>8. CASE ListExperiments
  <2>1. experiments' = Listed(experiments) /\ UNCHANGED <<calls, late, registries, doubtful, cut>>
    BY <1>8 DEF ListExperiments
  <2>2. RecordsOK'
    BY <1>a, <2>1 DEF RecordsOK, Listed, Record, Statuses
  <2> QED BY <1>a, <1>c, <2>1, <2>2
<1>9. ASSUME NEW p \in Replicas, Visit(p) \/ RestartTarget(p)
      PROVE  RecordsOK' /\ LateOK' /\ RegistriesOK' /\ CallsOK' /\ HistoryOK'
  <2>1. registries[p] \in Seq(FaultRecords(Ids)) /\ Distinct(registries[p])
    BY <1>a DEF RegistriesOK
  <2>2. PICK registry \in Seq(FaultRecords(Ids)) :
          Distinct(registry) /\ registries' = [registries EXCEPT ![p] = registry]
    <3>1. CASE Visit(p)
      <4>1. Live(registries[p]) \in Seq(FaultRecords(Ids)) /\ Distinct(Live(registries[p]))
        BY <2>1, LiveFaultsType
      <4> QED BY <3>1, <4>1 DEF Visit
    <3>2. CASE RestartTarget(p)
      <4>1. <<>> \in Seq(FaultRecords(Ids)) /\ Distinct(<<>>)
        BY DEF Distinct
      <4> QED BY <3>2, <4>1 DEF RestartTarget
    <3> QED BY <1>9, <3>1, <3>2
  <2>3. RegistriesOK'
    BY <1>a, <2>2, RegistryChanges
  <2>4. HistoryOK'
    <3>1. {f.id : f \in LiveFaults(p)} \subseteq Ids
      <4>1. \A i \in DOMAIN registries[p] : registries[p][i].id \in Ids
        <5>1. \A i \in DOMAIN registries[p] : registries[p][i] \in FaultRecords(Ids)
          BY <2>1
        <5> QED BY <5>1 DEF FaultRecords
      <4> QED BY <4>1 DEF LiveFaults
    <3> QED BY <1>9, <1>a, <3>1 DEF Visit, RestartTarget, HistoryOK
  <2> QED BY <1>9, <1>a, <1>c, <2>3, <2>4 DEF Visit, RestartTarget
<1>10. CASE Tick
  <2>1. RecordsOK'
    <3>1. \A id \in DOMAIN experiments :
            [experiments[id] EXCEPT !.left = IF @ > 0 THEN @ - 1 ELSE 0] \in Record
      BY <1>a DEF RecordsOK, Record
    <3> QED BY <1>10, <1>a, <3>1 DEF Tick, RecordsOK
  <2>2. CallsOK'
    <3>1. ASSUME NEW c \in Clients, Awaiting(c)
          PROVE  [calls[c] EXCEPT !.wait = @ - 1, !.left = IF @ > 0 THEN @ - 1 ELSE 0] \in Call
      <4>1. calls[c] \in Call /\ calls[c].wait > 0
        BY <1>10, <1>b, <3>1, AwaitedCall DEF Tick
      <4> QED BY <4>1, AgedCall
    <3>2. \A c \in Clients : calls[c] \in Call \cup {None}
      BY <1>a
    <3> QED BY <1>10, <3>1, <3>2 DEF Tick
  <2>3. RegistriesOK'
    <3>1. ASSUME NEW p \in Replicas
          PROVE  Aged(registries[p]) \in Seq(FaultRecords(Ids)) /\ Distinct(Aged(registries[p]))
      <4>1. registries[p] \in Seq(FaultRecords(Ids)) /\ Distinct(registries[p])
        BY <1>a DEF RegistriesOK
      <4> QED BY <4>1, AgedType DEF Distinct
    <3>2. registries' = [p \in Replicas |-> Aged(registries[p])]
      BY <1>10 DEF Tick
    <3> QED BY <3>1, <3>2 DEF RegistriesOK
  <2>4. HistoryOK'
    BY <1>10, <1>a DEF Tick, HistoryOK
  <2> QED BY <1>10, <1>c, <2>1, <2>2, <2>3, <2>4 DEF Tick
<1>11. CASE RestartController
  <2>1. RecordsOK' /\ CallsOK' /\ UNCHANGED registries /\ HistoryOK'
    BY <1>11, <1>a DEF RestartController, RecordsOK, HistoryOK
  <2>2. LateOK'
    <3>1. PICK lost \in SUBSET {calls[c].msg : c \in {d \in Clients : Open(d)}} :
            Cardinality(late \cup lost) <= MaxLate /\ late' = late \cup lost
      BY <1>11 DEF RestartController
    <3>2. lost \subseteq Message
      <4>1. \A c \in Clients : Open(c) => calls[c].msg \in Message
        BY <1>b, AwaitedCall, CallFields DEF Open
      <4> QED BY <4>1
    <3>3. IsFiniteSet(lost)
      <4> DEFINE open == {d \in Clients : Open(d)}
                 f == [c \in open |-> calls[c].msg]
                 sent == {calls[c].msg : c \in open}
      <4>1. IsFiniteSet(open)
        BY ChaosAssumption, FS_Subset
      <4>2. f \in Surjection(open, sent)
        BY Fun_IsSurj
      <4>3. IsFiniteSet(sent)
        BY <4>1, <4>2, FS_Surjection
      <4> QED BY <4>3, FS_Subset
    <3>4. IsFiniteSet(late \cup lost)
      BY <1>a, <3>3, FS_Union DEF LateOK
    <3> QED BY <1>a, <3>1, <3>2, <3>4 DEF LateOK
  <2> QED BY <1>c, <2>1, <2>2
<1>12. CASE UNCHANGED vars
  BY <1>12, <1>a, <1>c DEF vars
<1> QED BY <1>1, <1>2, <1>3, <1>4, <1>5, <1>6, <1>7, <1>8, <1>9, <1>10, <1>11, <1>12 DEF Next

LEMMA TypesInvariant == Spec => []ChaosTypes
<1>1. ChaosTypes /\ [Next]_vars => ChaosTypes'
  BY TypesStep
<1> QED BY <1>1, TypesInit, PTL DEF Spec

------------------------------------------------------------------------------
(* Control *)

LEMMA LiveFaultsOf ==
  \A p \in Replicas : /\ LiveFaults(p) = LiveOf(registries[p])
                      /\ LiveFaults(p)' = LiveOf(registries'[p])
  BY DEF LiveFaults, LiveOf

\* An id that a step leaves alone but for stops that go and faults that go.
LEMMA KnownKept ==
  ASSUME NEW id \in Ids, KnownOK(id),
         LateStarts(id)' = {}, \A c, d \in Starts(id)' : c = d,
         ServedStarts(id)' = ServedStarts(id), \A c \in ServedStarts(id) : calls'[c] = calls[c],
         ServedStops(id)' \subseteq ServedStops(id),
         id \in DOMAIN experiments => id \in DOMAIN experiments' /\ experiments'[id] = experiments[id],
         \A p \in Replicas : \A fault \in LiveFaults(p)' : fault.id = id => fault \in LiveFaults(p)
  PROVE  KnownOK(id)'
<1>1. ASSUME NEW p \in Replicas, NEW fault \in LiveFaults(p)', fault.id = id
      PROVE  OfStart(p, fault)' \/ OnRecord(p, fault)'
  <2>1. OfStart(p, fault) \/ OnRecord(p, fault)
    BY <1>1 DEF KnownOK
  <2>2. CASE OfStart(p, fault)
    BY <1>1, <2>2 DEF OfStart, OneReplica
  <2>3. CASE OnRecord(p, fault)
    BY <1>1, <2>3 DEF OnRecord, OneReplica
  <2> QED BY <2>1, <2>2, <2>3
<1> QED BY <1>1 DEF KnownOK

\* A step of the replicas alone.
LEMMA FaultsGo ==
  ASSUME ControlOK, UNCHANGED <<experiments, calls, doubtful>>, late' \subseteq late,
         \A p \in Replicas : \A fault \in LiveFaults(p)' :
           fault.id \in doubtful \/ fault \in LiveFaults(p)
  PROVE  ControlOK'
<1>1. ASSUME NEW c \in Clients, Awaiting(c)' PROVE CallOK(c)'
  BY <1>1 DEF ControlOK, CallOK, Awaiting
<1>2. ASSUME NEW id \in Ids \ doubtful' PROVE KnownOK(id)'
  <2>1. KnownOK(id) /\ id \notin doubtful
    BY DEF ControlOK
  <2>2. LateStarts(id)' = {}
    BY <2>1 DEF KnownOK, LateStarts
  <2>3. Starts(id)' = Starts(id) /\ ServedStarts(id)' = ServedStarts(id)
        /\ ServedStops(id)' = ServedStops(id)
    BY DEF Starts, ServedStarts, ServedStops, Awaiting
  <2>4. \A c, d \in Starts(id)' : c = d
    BY <2>1, <2>3 DEF KnownOK
  <2> QED BY <2>1, <2>2, <2>3, <2>4, KnownKept
<1> QED BY <1>1, <1>2 DEF ControlOK

LEMMA ControlInit == Init => ControlOK
<1> SUFFICES ASSUME Init PROVE ControlOK
  OBVIOUS
<1>1. \A c \in Clients : ~Awaiting(c)
  BY DEF Init, Awaiting
<1>2. ASSUME NEW id \in Ids PROVE KnownOK(id)
  <2>1. LateStarts(id) = {} /\ Starts(id) = {}
    BY <1>1 DEF Init, LateStarts, Starts
  <2>2. \A p \in Replicas : LiveFaults(p) = {}
    BY DEF Init, LiveFaults
  <2> QED BY <2>1, <2>2 DEF KnownOK
<1> QED BY <1>1, <1>2 DEF ControlOK

LEMMA StartExperimentControl ==
  ASSUME ChaosTypes, ControlOK,
         NEW c \in Clients, NEW id \in Ids, NEW service \in Services, NEW d \in Durations,
         StartExperiment(c, id, service, d)
  PROVE  ControlOK'
<1> DEFINE msg == [verb |-> "start", id |-> id, service |-> service, duration |-> d]
<1>1. /\ ~Awaiting(c) /\ calls' = [calls EXCEPT ![c] = Pending(msg, d, FALSE)]
      /\ UNCHANGED <<experiments, late, registries>>
      /\ doubtful' = doubtful \cup {i \in {id} : Starts(i) \cup LateStarts(i) # {}}
      /\ calls \in [Clients -> Call \cup {None}]
  BY DEF StartExperiment, ChaosTypes, TypeOK
<1>2. /\ calls'[c] = Pending(msg, d, FALSE) /\ Pending(msg, d, FALSE).sent
      /\ Pending(msg, d, FALSE).msg = msg /\ msg.verb = "start" /\ msg.id = id
      /\ \A b \in Clients \ {c} : calls'[b] = calls[b]
  BY <1>1 DEF Pending
<1>3. ASSUME NEW b \in Clients, Awaiting(b)' PROVE CallOK(b)'
  <2>1. CASE b = c
    BY <1>1, <2>1, ChaosAssumption DEF Pending, CallOK
  <2>2. CASE b # c
    BY <1>1, <1>2, <1>3, <2>2 DEF ControlOK, CallOK, Awaiting
  <2> QED BY <2>1, <2>2
<1> HIDE DEF msg
<1>4. ASSUME NEW i \in Ids \ doubtful' PROVE KnownOK(i)'
  <2>1. KnownOK(i)
    BY <1>1 DEF ControlOK
  <2>2. ServedStarts(i)' = ServedStarts(i) /\ c \notin ServedStarts(i)
    BY <1>1, <1>2 DEF ServedStarts, Starts, Awaiting
  <2>3. ServedStops(i)' = ServedStops(i)
    BY <1>1, <1>2 DEF ServedStops, Awaiting
  <2>4. LateStarts(i)' = {}
    BY <1>1, <2>1 DEF LateStarts, KnownOK
  <2>5. \A a, b \in Starts(i)' : a = b
    <3>1. CASE i = id
      <4>1. Starts(i) = {}
        BY <1>1, <3>1
      <4>2. Starts(i)' \subseteq {c}
        BY <1>2, <4>1 DEF Starts, Awaiting
      <4> QED BY <4>2
    <3>2. CASE i # id
      <4>1. Starts(i)' = Starts(i)
        BY <1>1, <1>2, <3>2 DEF Starts, Awaiting
      <4> QED BY <2>1, <4>1 DEF KnownOK
    <3> QED BY <3>1, <3>2
  <2>6. \A b \in ServedStarts(i) : calls'[b] = calls[b]
    BY <1>2, <2>2 DEF ServedStarts, Starts
  <2>7. \A p \in Replicas : LiveFaults(p)' = LiveFaults(p)
    BY <1>1 DEF LiveFaults
  <2> QED BY <1>1, <2>1, <2>2, <2>3, <2>4, <2>5, <2>6, <2>7, KnownKept
<1> QED BY <1>3, <1>4 DEF ControlOK

LEMMA StopExperimentControl ==
  ASSUME ChaosTypes, ControlOK, NEW c \in Clients, NEW id \in Ids, StopExperiment(c, id)
  PROVE  ControlOK'
<1> DEFINE msg == [verb |-> "stop", id |-> id, service |-> experiments[id].service]
<1>1. /\ ~Awaiting(c) /\ id \in DOMAIN experiments
      /\ calls' = [calls EXCEPT ![c] = Pending(msg, 0, TRUE)]
      /\ UNCHANGED <<experiments, late, registries, doubtful>>
      /\ calls \in [Clients -> Call \cup {None}]
  BY DEF StopExperiment, ChaosTypes, TypeOK
<1>2. /\ calls'[c] = Pending(msg, 0, TRUE) /\ Pending(msg, 0, TRUE).sent
      /\ Pending(msg, 0, TRUE).msg = msg /\ msg.verb = "stop"
      /\ \A b \in Clients \ {c} : calls'[b] = calls[b]
  BY <1>1 DEF Pending
<1>3. ASSUME NEW b \in Clients, Awaiting(b)' PROVE CallOK(b)'
  <2>1. CASE b = c
    BY <1>1, <2>1, ChaosAssumption DEF Pending, CallOK
  <2>2. CASE b # c
    BY <1>1, <1>2, <1>3, <2>2 DEF ControlOK, CallOK, Awaiting
  <2> QED BY <2>1, <2>2
<1> HIDE DEF msg
<1>4. ASSUME NEW i \in Ids \ doubtful' PROVE KnownOK(i)'
  <2>1. KnownOK(i)
    BY <1>1 DEF ControlOK
  <2>2. ServedStarts(i)' = ServedStarts(i) /\ c \notin ServedStarts(i) /\ Starts(i)' = Starts(i)
    BY <1>1, <1>2 DEF ServedStarts, Starts, Awaiting
  <2>3. ServedStops(i)' = ServedStops(i)
    BY <1>1, <1>2 DEF ServedStops, Awaiting
  <2>4. LateStarts(i)' = {}
    BY <1>1, <2>1 DEF LateStarts, KnownOK
  <2>5. \A a, b \in Starts(i)' : a = b
    BY <2>1, <2>2 DEF KnownOK
  <2>6. \A b \in ServedStarts(i) : calls'[b] = calls[b]
    BY <1>2, <2>2 DEF ServedStarts, Starts
  <2>7. \A p \in Replicas : LiveFaults(p)' = LiveFaults(p)
    BY <1>1 DEF LiveFaults
  <2> QED BY <1>1, <2>1, <2>2, <2>3, <2>4, <2>5, <2>6, <2>7, KnownKept
<1> QED BY <1>3, <1>4 DEF ControlOK

\* What a call leaves alive: of its own id nothing but the fault it starts.
LEMMA LiveOfServed ==
  ASSUME NEW registry \in Seq(FaultRecords(Ids)), NEW msg \in Message
  PROVE  \A fault \in LiveOf(Served(registry, msg)) :
           \/ fault \in LiveOf(registry) /\ fault.id # msg.id
           \/ msg.verb = "start" /\ fault.id = msg.id /\ fault.left = msg.duration
<1>1. CASE msg.verb = "start"
  <2> DEFINE new == [id |-> msg.id, kind |-> "http_500", left |-> msg.duration]
  <2>1. "http_500" \in FaultKinds
    BY DEF FaultKinds, RequestKinds, FailingKinds
  <2>2. new \in FaultRecords(Ids) /\ new.id = msg.id /\ new.left = msg.duration /\ IsLive(new)
    BY <1>1, <2>1, MessageFields DEF FaultRecords, IsLive
  <2>3. Served(registry, msg) = Started(registry, new)
    BY <1>1 DEF Served
  <2> HIDE DEF new
  <2> QED BY <1>1, <2>2, <2>3, LiveOfStarted
<1>2. CASE msg.verb # "start"
  BY <1>2, LiveOfStopped DEF Served
<1> QED BY <1>1, <1>2

LEMMA ServeControl ==
  ASSUME ChaosTypes, ControlOK, NEW c \in Clients, NEW p \in Replicas, Serve(c, p)
  PROVE  ControlOK'
<1> DEFINE msg == calls[c].msg
<1>1. calls[c] \in Call /\ msg \in Message /\ calls[c].sent /\ Awaiting(c) /\ calls[c].left \in Nat
      /\ calls[c].wait \in Nat
  BY AwaitedCall, CallFields DEF Serve, Open, ChaosTypes
<1>2. /\ calls'[c].sent = FALSE /\ calls'[c].msg = msg /\ calls'[c].left = calls[c].left
      /\ calls'[c].wait = calls[c].wait /\ calls'[c].holds = calls[c].holds
      /\ \A b \in Clients \ {c} : calls'[b] = calls[b]
      /\ UNCHANGED <<experiments, late, doubtful>>
      /\ p \in ReplicasOf[msg.service]
      /\ calls'[c] # None
  <2>1. /\ calls' = [calls EXCEPT ![c] = [calls[c] EXCEPT !.sent = FALSE]]
        /\ calls \in [Clients -> Call \cup {None}]
        /\ UNCHANGED <<experiments, late, doubtful>> /\ p \in ReplicasOf[msg.service]
    BY DEF Serve, ChaosTypes, TypeOK
  <2>2. [calls[c] EXCEPT !.sent = FALSE] \in Call
    BY <1>1 DEF Call
  <2> QED BY <1>1, <2>1, <2>2, CallFields DEF Call
<1>3. /\ \A fault \in LiveFaults(p)' :
           \/ fault \in LiveFaults(p) /\ fault.id # msg.id
           \/ msg.verb = "start" /\ fault.id = msg.id /\ fault.left = msg.duration
      /\ \A q \in Replicas \ {p} : LiveFaults(q)' = LiveFaults(q)
  <2>1. /\ registries' = [registries EXCEPT ![p] = Served(registries[p], msg)]
        /\ registries \in [Replicas -> Seq(FaultRecords(Ids))]
    BY DEF Serve, ChaosTypes, TypeOK
  <2>2. registries'[p] = Served(registries[p], msg) /\ registries[p] \in Seq(FaultRecords(Ids))
    BY <2>1
  <2>3. \A q \in Replicas \ {p} : registries'[q] = registries[q]
    BY <2>1
  <2>4. \A fault \in LiveOf(registries'[p]) :
           \/ fault \in LiveOf(registries[p]) /\ fault.id # msg.id
           \/ msg.verb = "start" /\ fault.id = msg.id /\ fault.left = msg.duration
    BY <1>1, <2>2, LiveOfServed
  <2> HIDE DEF msg
  <2> QED BY <2>3, <2>4, LiveFaultsOf
<1>4. ASSUME NEW b \in Clients, Awaiting(b)' PROVE CallOK(b)'
  <2>1. CallOK(b)
    BY <1>1, <1>2, <1>4 DEF ControlOK, Awaiting
  <2>2. CASE b = c
    BY <1>2, <2>1, <2>2 DEF CallOK
  <2>3. CASE b # c
    BY <1>2, <2>1, <2>3 DEF CallOK
  <2> QED BY <2>2, <2>3
<1>5. CallOK(c) /\ msg.id \in Ids /\ msg.service \in Services /\ msg.verb \in {"start", "stop"}
      /\ (msg.verb = "start" => msg.duration \in Nat)
  BY <1>1, MessageFields DEF ControlOK
<1>6. \A i \in Ids : Starts(i)' = Starts(i)
  BY <1>1, <1>2 DEF Starts, Awaiting
<1> HIDE DEF msg
<1>m. msg = calls[c].msg
  BY DEF msg
<1>7. ASSUME NEW i \in Ids \ doubtful' PROVE KnownOK(i)'
  <2>1. KnownOK(i) /\ LateStarts(i)' = {} /\ \A a, b \in Starts(i)' : a = b
    BY <1>2, <1>6 DEF ControlOK, KnownOK, LateStarts
  <2>2. CASE i # msg.id
    <3>1. ServedStarts(i)' = ServedStarts(i) /\ c \notin ServedStarts(i)
      BY <1>m, <1>2, <1>6, <2>2 DEF ServedStarts, Starts
    <3>2. ServedStops(i)' \subseteq ServedStops(i)
      BY <1>1, <1>2, <2>2 DEF ServedStops, Awaiting
    <3>3. \A b \in ServedStarts(i) : calls'[b] = calls[b]
      BY <1>2, <3>1 DEF ServedStarts, Starts
    <3>4. \A q \in Replicas : \A fault \in LiveFaults(q)' : fault.id = i => fault \in LiveFaults(q)
      BY <1>3, <2>2
    <3> QED BY <1>2, <2>1, <3>1, <3>2, <3>3, <3>4, KnownKept
  <2>3. CASE i = msg.id /\ msg.verb = "start"
    <3>1. c \in Starts(i) /\ c \notin ServedStarts(i) /\ ServedStarts(i) = {}
      BY <1>m, <1>1, <2>1, <2>3 DEF Starts, ServedStarts, KnownOK
    <3>2. ServedStarts(i)' = {c}
      BY <1>2, <1>6, <2>1, <3>1 DEF ServedStarts
    <3>3. ServedStops(i)' \subseteq ServedStops(i)
      BY <1>1, <1>2, <2>3 DEF ServedStops, Awaiting
    <3>4. ASSUME NEW q \in Replicas, NEW fault \in LiveFaults(q)', fault.id = i
          PROVE  OfStart(q, fault)' \/ OnRecord(q, fault)'
      <4>1. CASE q = p
        <5>1. fault.left = msg.duration
          BY <1>3, <2>3, <3>4, <4>1
        <5>2. msg.duration - calls[c].left \in 0..(CallTime - calls[c].wait)
          BY <1>m, <1>1, <1>5, <2>3 DEF CallOK
        <5>3. fault.left - calls[c].left \in 0..CallTime
          BY <1>1, <1>5, <2>3, <5>1, <5>2, ChaosAssumption
        <5> QED BY <1>2, <3>2, <3>4, <4>1, <5>3 DEF OfStart
      <4>2. CASE q # p
        <5>1. fault \in LiveFaults(q)
          BY <1>3, <4>2
        <5>2. OnRecord(q, fault)
          BY <2>1, <3>1, <3>4, <5>1 DEF KnownOK, OfStart
        <5>3. OneReplica => q \notin ReplicasOf[msg.service]
          BY <1>2, <1>5, <4>2 DEF OneReplica
        <5> QED BY <1>2, <3>2, <3>3, <3>4, <5>2, <5>3 DEF OnRecord, OneReplica
      <4> QED BY <4>1, <4>2
    <3> QED BY <2>1, <3>4 DEF KnownOK
  <2>4. CASE i = msg.id /\ msg.verb = "stop"
    <3>1. ServedStarts(i)' = ServedStarts(i) /\ c \notin ServedStarts(i)
      BY <1>m, <1>2, <1>6, <2>4 DEF ServedStarts, Starts
    <3>2. ServedStops(i)' \subseteq ServedStops(i) \cup {c}
      BY <1>1, <1>2 DEF ServedStops, Awaiting
    <3>3. ASSUME NEW q \in Replicas, NEW fault \in LiveFaults(q)', fault.id = i
          PROVE  OfStart(q, fault)' \/ OnRecord(q, fault)'
      <4>1. q # p /\ fault \in LiveFaults(q)
        BY <1>3, <2>4, <3>3
      <4>2. CASE OfStart(q, fault)
        <5>1. \A b \in ServedStarts(i) : calls'[b] = calls[b]
          BY <1>2, <3>1 DEF ServedStarts, Starts
        <5> QED BY <3>1, <3>3, <4>2, <5>1 DEF OfStart, OneReplica
      <4>3. CASE OnRecord(q, fault)
        <5>1. OneReplica => q \notin ReplicasOf[msg.service]
          BY <1>2, <1>5, <4>1 DEF OneReplica
        <5>2. OneReplica => c \notin ServedStops(i)'
          BY <1>m, <1>2, <1>5, <2>4, <3>3, <4>3, <5>1 DEF OnRecord, CallOK, ServedStops
        <5>3. \A b \in ServedStarts(i) : calls'[b] = calls[b]
          BY <1>2, <3>1 DEF ServedStarts, Starts
        <5> QED BY <1>2, <3>1, <3>2, <3>3, <4>3, <5>2, <5>3 DEF OnRecord, OneReplica
      <4> QED BY <2>1, <3>3, <4>1, <4>2, <4>3 DEF KnownOK
    <3> QED BY <2>1, <3>3 DEF KnownOK
  <2> QED BY <1>5, <2>2, <2>3, <2>4
<1> QED BY <1>4, <1>7 DEF ControlOK

LEMMA ReplicaControl ==
  ASSUME ChaosTypes, ControlOK, NEW p \in Replicas,
         (\E msg \in late : ServeLate(msg, p)) \/ Visit(p) \/ RestartTarget(p)
  PROVE  ControlOK'
<1>1. registries \in [Replicas -> Seq(FaultRecords(Ids))] /\ late \subseteq Message
  BY DEF ChaosTypes, TypeOK
<1>2. UNCHANGED <<experiments, calls, doubtful>> /\ late' \subseteq late
  BY DEF ServeLate, Visit, RestartTarget
<1>3. PICK registry :
        /\ registries' = [registries EXCEPT ![p] = registry]
        /\ \A fault \in LiveOf(registry) : fault.id \in doubtful \/ fault \in LiveOf(registries[p])
  <2>1. ASSUME NEW msg \in late, ServeLate(msg, p)
        PROVE  \A fault \in LiveOf(Served(registries[p], msg)) :
                 fault.id \in doubtful \/ fault \in LiveOf(registries[p])
    <3>1. registries[p] \in Seq(FaultRecords(Ids)) /\ msg \in Message
      BY <1>1
    <3>2. msg.verb = "start" => msg.id \in doubtful
      <4>1. msg.verb = "start" => msg \in LateStarts(msg.id) /\ msg.id \in Ids
        BY <3>1, MessageFields DEF LateStarts
      <4> QED BY <4>1 DEF ControlOK, KnownOK
    <3> QED BY <3>1, <3>2, LiveOfServed
  <2>2. CASE \E msg \in late : ServeLate(msg, p)
    BY <2>1, <2>2 DEF ServeLate
  <2>3. CASE Visit(p)
    BY <1>1, <2>3, LiveOfLive DEF Visit
  <2>4. CASE RestartTarget(p)
    <3>1. LiveOf(<<>>) = {}
      BY DEF LiveOf
    <3> QED BY <2>4, <3>1 DEF RestartTarget
  <2> QED BY <2>2, <2>3, <2>4
<1>4. registries'[p] = registry /\ \A q \in Replicas \ {p} : registries'[q] = registries[q]
  BY <1>1, <1>3
<1>5. \A q \in Replicas : \A fault \in LiveFaults(q)' : fault.id \in doubtful \/ fault \in LiveFaults(q)
  BY <1>3, <1>4, LiveFaultsOf
<1> QED BY <1>2, <1>5, FaultsGo

\* The record a start writes ends with what its call measured, and every stop that
\* held the old one now holds none.
LEMMA ExperimentStartedControl ==
  ASSUME ChaosTypes, ControlOK, NEW c \in Clients, ExperimentStarted(c)
  PROVE  ControlOK'
<1> DEFINE id == calls[c].msg.id
           service == calls[c].msg.service
           record == [service |-> service, left |-> calls[c].left, status |-> "running"]
<1>1. calls[c] \in Call /\ Awaiting(c) /\ ~calls[c].sent /\ calls[c].msg.verb = "start"
      /\ id \in Ids /\ service \in Services /\ calls[c].left \in Nat
  <2>1. calls[c] \in Call /\ Awaiting(c) /\ ~calls[c].sent /\ calls[c].msg.verb = "start"
    BY AwaitedCall DEF ExperimentStarted, Open, ChaosTypes
  <2>2. calls[c].msg \in Message /\ calls[c].left \in Nat
    BY <2>1, CallFields
  <2> QED BY <2>1, <2>2, MessageFields
<1>2. /\ experiments' = Put(id, record)
      /\ calls' = [d \in Clients |->
                     IF d = c THEN None
                     ELSE IF Awaiting(d) /\ calls[d].msg.id = id THEN [calls[d] EXCEPT !.holds = FALSE]
                     ELSE calls[d]]
      /\ doubtful' = IF id \in DOMAIN experiments /\ experiments[id].service # service
                     THEN doubtful \cup {id} ELSE doubtful
      /\ UNCHANGED <<late, registries>>
  BY DEF ExperimentStarted, EndOf
<1>3. /\ id \in DOMAIN experiments' /\ experiments'[id] = record
      /\ record.service = service /\ record.left = calls[c].left /\ record.status # "stopped"
      /\ \A i \in DOMAIN experiments : i \in DOMAIN experiments'
      /\ \A i \in DOMAIN experiments \ {id} : experiments'[i] = experiments[i]
  BY <1>2 DEF Put
<1>4. ~Awaiting(c)'
  BY <1>2 DEF Awaiting
<1>5. ASSUME NEW d \in Clients \ {c}, Awaiting(d), calls[d].msg.id = id
      PROVE  /\ Awaiting(d)' /\ calls'[d].holds = FALSE
             /\ calls'[d].sent = calls[d].sent /\ calls'[d].msg = calls[d].msg
             /\ calls'[d].left = calls[d].left /\ calls'[d].wait = calls[d].wait
  <2>1. calls[d] \in Call
    BY <1>5, AwaitedCall DEF ChaosTypes
  <2>2. calls'[d] = [calls[d] EXCEPT !.holds = FALSE]
    BY <1>2, <1>5
  <2>3. calls'[d] \in Call
    BY <2>1, <2>2 DEF Call
  <2> QED BY <2>1, <2>2, <2>3, CallFields DEF Call, Awaiting
<1>6. ASSUME NEW d \in Clients \ {c}, ~(Awaiting(d) /\ calls[d].msg.id = id)
      PROVE  calls'[d] = calls[d] /\ (Awaiting(d)' <=> Awaiting(d))
  BY <1>2, <1>6 DEF Awaiting
<1> HIDE DEF id, service, record
<1>i. id = calls[c].msg.id /\ service = calls[c].msg.service
  BY DEF id, service
<1>9. ASSUME NEW d \in Clients \ {c}
      PROVE  /\ Awaiting(d)' <=> Awaiting(d)
             /\ Awaiting(d) => calls'[d].sent = calls[d].sent /\ calls'[d].msg = calls[d].msg
  <2>1. CASE Awaiting(d) /\ calls[d].msg.id = id
    BY <1>5, <2>1
  <2>2. CASE ~(Awaiting(d) /\ calls[d].msg.id = id)
    BY <1>6, <2>2
  <2> QED BY <2>1, <2>2
<1>7. ASSUME NEW b \in Clients, Awaiting(b)' PROVE CallOK(b)'
  <2>1. b # c
    BY <1>4, <1>7
  <2>2. CASE Awaiting(b) /\ calls[b].msg.id = id
    BY <1>5, <2>1, <2>2 DEF CallOK, ControlOK
  <2>3. CASE ~(Awaiting(b) /\ calls[b].msg.id = id)
    <3>1. calls'[b] = calls[b] /\ Awaiting(b)
      BY <1>6, <1>7, <2>1, <2>3
    <3> QED BY <1>3, <2>3, <3>1 DEF CallOK, ControlOK
  <2> QED BY <2>2, <2>3
<1>8. ASSUME NEW i \in Ids \ doubtful' PROVE KnownOK(i)'
  <2>1. KnownOK(i) /\ LateStarts(i)' = {} /\ i \notin doubtful
    BY <1>2, <1>8 DEF ControlOK, KnownOK, LateStarts
  <2>2. \A p \in Replicas : LiveFaults(p)' = LiveFaults(p)
    BY <1>2 DEF LiveFaults
  <2>3. CASE i # id
    <3>1. Starts(i)' = Starts(i) /\ ServedStarts(i)' = ServedStarts(i)
          /\ \A b \in ServedStarts(i) : calls'[b] = calls[b]
      <4>1. Starts(i)' = Starts(i) /\ c \notin Starts(i)
        BY <1>i, <1>4, <1>9, <2>3 DEF Starts
      <4>2. \A b \in Starts(i) : calls'[b] = calls[b]
        BY <1>6, <2>3, <4>1 DEF Starts
      <4> QED BY <4>1, <4>2 DEF ServedStarts
    <3>2. ServedStops(i)' \subseteq ServedStops(i)
      BY <1>4, <1>5, <1>6, <2>3 DEF ServedStops
    <3>3. \A a, b \in Starts(i)' : a = b
      BY <2>1, <3>1 DEF KnownOK
    <3> QED BY <1>3, <2>1, <2>2, <2>3, <3>1, <3>2, <3>3, KnownKept
  <2>4. CASE i = id
    <3>1. ServedStarts(i) = {c} /\ Starts(i) = {c}
      BY <1>i, <1>1, <2>1, <2>4 DEF KnownOK, Starts, ServedStarts
    <3>2. Starts(i)' = {} /\ ServedStarts(i)' = {}
      <4>1. \A d \in Clients : d \in Starts(i)' => d # c /\ d \in Starts(i)
        BY <1>4, <1>9 DEF Starts
      <4>2. Starts(i)' \subseteq Clients
        BY DEF Starts
      <4>3. Starts(i)' = {}
        BY <3>1, <4>1, <4>2
      <4> QED BY <4>3 DEF ServedStarts
    <3>3. ServedStops(i)' = {}
      BY <1>4, <1>5, <1>6, <2>4 DEF ServedStops
    <3>4. ASSUME NEW p \in Replicas, NEW fault \in LiveFaults(p)', fault.id = i
          PROVE  OnRecord(p, fault)'
      <4>1. OfStart(p, fault) \/ OnRecord(p, fault)
        BY <2>1, <2>2, <3>4 DEF KnownOK
      <4>2. CASE OfStart(p, fault)
        BY <1>i, <1>3, <2>4, <3>1, <3>2, <3>3, <3>4, <4>2 DEF OfStart, OnRecord, OneReplica
      <4>3. CASE OnRecord(p, fault)
        <5>1. id \in DOMAIN experiments /\ p \in ReplicasOf[experiments[id].service]
          BY <2>4, <3>4, <4>3 DEF OnRecord
        <5>2. experiments[id].service = service
          BY <1>2, <1>8, <2>4, <5>1
        <5>3. ~OneReplica
          BY <1>i, <2>4, <3>1, <3>4, <4>3, <5>1, <5>2 DEF OnRecord
        <5> QED BY <1>3, <2>4, <3>4, <5>1, <5>2, <5>3 DEF OnRecord, OneReplica
      <4> QED BY <4>1, <4>2, <4>3
    <3> QED BY <2>1, <3>2, <3>4 DEF KnownOK
  <2> QED BY <2>3, <2>4
<1> QED BY <1>7, <1>8 DEF ControlOK

\* A stop marks the record it found before its call, or none.
LEMMA ExperimentStoppedControl ==
  ASSUME ChaosTypes, ControlOK, NEW c \in Clients, ExperimentStopped(c)
  PROVE  ControlOK'
<1> DEFINE id == calls[c].msg.id
<1>1. /\ Awaiting(c) /\ ~calls[c].sent /\ calls[c].msg.verb = "stop"
      /\ calls' = [calls EXCEPT ![c] = None]
      /\ UNCHANGED <<late, registries, doubtful>>
      /\ CallOK(c)
      /\ calls \in [Clients -> Call \cup {None}]
  BY DEF ExperimentStopped, Open, ControlOK, ChaosTypes, TypeOK
<1>2. ~Awaiting(c)' /\ \A b \in Clients \ {c} : calls'[b] = calls[b]
  BY <1>1 DEF Awaiting
<1>3. /\ DOMAIN experiments' = DOMAIN experiments
      /\ \A i \in DOMAIN experiments : experiments'[i].service = experiments[i].service
      /\ \A i \in DOMAIN experiments \ {id} : experiments'[i] = experiments[i]
      /\ ~calls[c].holds => experiments' = experiments
  <2>1. CASE calls[c].holds
    <3>1. experiments' = [experiments EXCEPT ![id].status = "stopped", ![id].left = 0]
      BY <2>1 DEF ExperimentStopped, Holds
    <3>2. \A i \in DOMAIN experiments : experiments[i] \in Record
      BY DEF ChaosTypes, TypeOK
    <3> HIDE DEF id
    <3> QED BY <2>1, <3>1, <3>2 DEF Record
  <2>2. CASE ~calls[c].holds
    BY <2>2 DEF ExperimentStopped, Holds
  <2> QED BY <2>1, <2>2
<1>4. ASSUME NEW b \in Clients, Awaiting(b)' PROVE CallOK(b)'
  <2>1. b # c /\ calls'[b] = calls[b] /\ Awaiting(b)
    BY <1>2, <1>4 DEF Awaiting
  <2> QED BY <1>3, <2>1 DEF ControlOK, CallOK
<1>5. ASSUME NEW i \in Ids \ doubtful' PROVE KnownOK(i)'
  <2>1. KnownOK(i) /\ LateStarts(i)' = {}
    BY <1>1 DEF ControlOK, KnownOK, LateStarts
  <2>2. \A p \in Replicas : LiveFaults(p)' = LiveFaults(p)
    BY <1>1 DEF LiveFaults
  <2>3. Starts(i)' = Starts(i) /\ ServedStarts(i)' = ServedStarts(i)
        /\ \A b \in ServedStarts(i) : calls'[b] = calls[b]
    BY <1>1, <1>2 DEF Starts, ServedStarts, Awaiting
  <2>4. ServedStops(i)' \subseteq ServedStops(i)
    BY <1>2 DEF ServedStops, Awaiting
  <2>5. \A a, b \in Starts(i)' : a = b
    BY <2>1, <2>3 DEF KnownOK
  <2>6. CASE i # id \/ ~calls[c].holds
    BY <1>3, <2>1, <2>2, <2>3, <2>4, <2>5, <2>6, KnownKept
  <2>7. CASE i = id /\ calls[c].holds
    <3>1. c \in ServedStops(i)
      BY <1>1, <2>7 DEF ServedStops
    <3>2. ASSUME NEW p \in Replicas, NEW fault \in LiveFaults(p)', fault.id = i
          PROVE  OfStart(p, fault)' \/ OnRecord(p, fault)'
      <4>1. OfStart(p, fault) \/ OnRecord(p, fault)
        BY <2>1, <2>2, <3>2 DEF KnownOK
      <4>2. CASE OfStart(p, fault)
        BY <2>3, <3>2, <4>2 DEF OfStart, OneReplica
      <4>3. CASE OnRecord(p, fault)
        <5>1. ~OneReplica
          BY <3>1, <3>2, <4>3 DEF OnRecord
        <5> QED BY <1>3, <4>3, <5>1 DEF OnRecord, OneReplica
      <4> QED BY <4>1, <4>2, <4>3
    <3> QED BY <2>1, <2>5, <3>2 DEF KnownOK
  <2> QED BY <2>6, <2>7
<1> QED BY <1>4, <1>5 DEF ControlOK

\* Giving up on a start makes its id doubtful; giving up on a stop changes no record.
LEMMA GiveUpControl ==
  ASSUME ChaosTypes, ControlOK, NEW c \in Clients, GiveUp(c)
  PROVE  ControlOK'
<1>1. /\ Awaiting(c) /\ calls' = [calls EXCEPT ![c] = None]
      /\ late' \subseteq late \cup {calls[c].msg}
      /\ UNCHANGED <<experiments, registries>>
      /\ doubtful' = doubtful \cup {m.id : m \in {n \in {calls[c].msg} : n.verb = "start"}}
      /\ calls \in [Clients -> Call \cup {None}]
  BY DEF GiveUp, ChaosTypes, TypeOK
<1>2. ~Awaiting(c)' /\ \A b \in Clients \ {c} : calls'[b] = calls[b]
  BY <1>1 DEF Awaiting
<1>3. ASSUME NEW b \in Clients, Awaiting(b)' PROVE CallOK(b)'
  <2>1. b # c /\ calls'[b] = calls[b] /\ Awaiting(b)
    BY <1>2, <1>3 DEF Awaiting
  <2> QED BY <1>1, <2>1 DEF ControlOK, CallOK
<1>4. ASSUME NEW i \in Ids \ doubtful' PROVE KnownOK(i)'
  <2>1. KnownOK(i) /\ ~(calls[c].msg.verb = "start" /\ calls[c].msg.id = i)
    BY <1>1 DEF ControlOK
  <2>2. LateStarts(i)' = {}
    BY <1>1, <2>1 DEF KnownOK, LateStarts
  <2>3. Starts(i)' = Starts(i) /\ ServedStarts(i)' = ServedStarts(i)
        /\ \A b \in ServedStarts(i) : calls'[b] = calls[b]
    BY <1>1, <1>2, <2>1 DEF Starts, ServedStarts, Awaiting
  <2>4. ServedStops(i)' \subseteq ServedStops(i)
    BY <1>2 DEF ServedStops, Awaiting
  <2>5. \A a, b \in Starts(i)' : a = b
    BY <2>1, <2>3 DEF KnownOK
  <2>6. \A p \in Replicas : LiveFaults(p)' = LiveFaults(p)
    BY <1>1 DEF LiveFaults
  <2> QED BY <1>1, <2>1, <2>2, <2>3, <2>4, <2>5, <2>6, KnownKept
<1> QED BY <1>3, <1>4 DEF ControlOK

\* Listing changes what a record says, never to stopped.
LEMMA ListControl ==
  ASSUME ChaosTypes, ControlOK, ListExperiments
  PROVE  ControlOK'
<1>1. experiments' = Listed(experiments) /\ UNCHANGED <<calls, late, registries, doubtful>>
  BY DEF ListExperiments
<1>2. /\ DOMAIN experiments' = DOMAIN experiments
      /\ \A i \in DOMAIN experiments :
           /\ experiments'[i].service = experiments[i].service
           /\ experiments'[i].left = experiments[i].left
           /\ experiments[i].status # "stopped" => experiments'[i].status # "stopped"
  BY <1>1 DEF Listed, ChaosTypes, TypeOK, Record
<1>3. ASSUME NEW b \in Clients, Awaiting(b)' PROVE CallOK(b)'
  BY <1>1, <1>2, <1>3 DEF ControlOK, CallOK, Awaiting
<1>4. ASSUME NEW i \in Ids \ doubtful' PROVE KnownOK(i)'
  <2>1. KnownOK(i)
    BY <1>1 DEF ControlOK
  <2>2. /\ Starts(i)' = Starts(i) /\ ServedStarts(i)' = ServedStarts(i)
        /\ ServedStops(i)' = ServedStops(i) /\ LateStarts(i)' = LateStarts(i)
    BY <1>1 DEF Starts, ServedStarts, ServedStops, LateStarts, Awaiting
  <2>3. ASSUME NEW p \in Replicas, NEW fault \in LiveFaults(p)', fault.id = i
        PROVE  OfStart(p, fault)' \/ OnRecord(p, fault)'
    <3>1. OfStart(p, fault) \/ OnRecord(p, fault)
      BY <1>1, <2>1, <2>3 DEF KnownOK, LiveFaults
    <3>2. CASE OfStart(p, fault)
      BY <1>1, <2>2, <2>3, <3>2 DEF OfStart, OneReplica
    <3>3. CASE OnRecord(p, fault)
      BY <1>1, <1>2, <2>2, <2>3, <3>3 DEF OnRecord, OneReplica
    <3> QED BY <3>1, <3>2, <3>3
  <2> QED BY <2>1, <2>2, <2>3 DEF KnownOK
<1> QED BY <1>3, <1>4 DEF ControlOK

\* A live fault and the end time it is compared with come nearer together.
LEMMA TickControl ==
  ASSUME ChaosTypes, ControlOK, Tick
  PROVE  ControlOK'
<1> DEFINE less(n) == IF n > 0 THEN n - 1 ELSE 0
<1>1. /\ UNCHANGED late
      /\ \A c \in Clients : Awaiting(c) => calls[c].wait > 0
      /\ calls' = [c \in Clients |->
                     IF Awaiting(c)
                     THEN [calls[c] EXCEPT !.wait = @ - 1, !.left = IF @ > 0 THEN @ - 1 ELSE 0]
                     ELSE calls[c]]
      /\ experiments' = [id \in DOMAIN experiments |->
                           [experiments[id] EXCEPT !.left = IF @ > 0 THEN @ - 1 ELSE 0]]
      /\ registries' = [p \in Replicas |-> Aged(registries[p])]
      /\ doubtful' = {id \in doubtful : Present(id)' \/ Starts(id) \cup LateStarts(id) # {}}
  BY DEF Tick
<1>2. ASSUME NEW c \in Clients, Awaiting(c)
      PROVE  /\ Awaiting(c)'
             /\ calls'[c].sent = calls[c].sent /\ calls'[c].msg = calls[c].msg
             /\ calls'[c].holds = calls[c].holds
             /\ calls'[c].wait = calls[c].wait - 1 /\ calls'[c].left = less(calls[c].left)
             /\ calls[c].left \in Nat /\ calls[c].wait \in Nat /\ calls[c].wait > 0
             /\ calls[c].msg \in Message
  <2>1. calls[c] \in Call /\ calls[c].wait > 0
    BY <1>1, <1>2, AwaitedCall DEF ChaosTypes
  <2>2. calls'[c] = [calls[c] EXCEPT !.wait = @ - 1, !.left = IF @ > 0 THEN @ - 1 ELSE 0]
    BY <1>1, <1>2
  <2>3. calls'[c] \in Call
    BY <2>1, <2>2, AgedCall
  <2> QED BY <2>1, <2>2, <2>3, CallFields DEF Call, Awaiting
<1>3. \A c \in Clients : Awaiting(c)' <=> Awaiting(c)
  <2>1. ASSUME NEW c \in Clients, ~Awaiting(c) PROVE ~Awaiting(c)'
    BY <1>1, <2>1 DEF Awaiting
  <2> QED BY <1>2, <2>1
<1>4. /\ DOMAIN experiments' = DOMAIN experiments
      /\ \A i \in DOMAIN experiments :
           /\ experiments'[i].service = experiments[i].service
           /\ experiments'[i].status = experiments[i].status
           /\ experiments'[i].left = less(experiments[i].left) /\ experiments[i].left \in Nat
  BY <1>1 DEF ChaosTypes, TypeOK, Record
<1>5. ASSUME NEW p \in Replicas, NEW fault \in LiveFaults(p)'
      PROVE  \E old \in LiveFaults(p) : /\ old.id = fault.id /\ old.left = fault.left + 1
                                        /\ fault.left \in Nat /\ fault.left > 0
  <2>1. registries[p] \in Seq(FaultRecords(Ids)) /\ registries'[p] = Aged(registries[p])
    BY <1>1 DEF ChaosTypes, TypeOK
  <2>2. fault \in LiveOf(Aged(registries[p]))
    BY <1>5, <2>1, LiveFaultsOf
  <2>3. fault.left \in Nat /\ fault.left > 0
    <3>1. Aged(registries[p]) \in Seq(FaultRecords(Ids))
      BY <2>1, AgedType
    <3> QED BY <2>2, <3>1, LiveOfType
  <2> QED BY <2>1, <2>2, <2>3, LiveOfAged, LiveFaultsOf
<1>6. ASSUME NEW n \in Nat, n > 0, NEW m \in Nat, (n + 1) - m \in 0..CallTime
      PROVE  n - less(m) \in 0..CallTime
  BY <1>6, ChaosAssumption
<1>7. ASSUME NEW c \in Clients, Awaiting(c)' PROVE CallOK(c)'
  <2>1. CallOK(c) /\ Awaiting(c)
    BY <1>3, <1>7 DEF ControlOK
  <2>2. calls'[c].wait <= CallTime
    BY <1>2, <2>1, ChaosAssumption DEF CallOK
  <2>3. ASSUME calls'[c].msg.verb = "start"
        PROVE  /\ ~calls'[c].holds
               /\ calls'[c].sent =>
                    calls'[c].msg.duration - calls'[c].left \in 0..(CallTime - calls'[c].wait)
    <3>1. calls[c].msg.verb = "start" /\ calls[c].msg.duration \in Nat
      BY <1>2, <2>1, <2>3, MessageFields
    <3>2. calls[c].sent => calls[c].msg.duration - calls[c].left \in 0..(CallTime - calls[c].wait)
      BY <2>1, <3>1 DEF CallOK
    <3>3. calls[c].sent =>
            calls[c].msg.duration - less(calls[c].left) \in 0..(CallTime - (calls[c].wait - 1))
      BY <1>2, <2>1, <3>1, <3>2, ChaosAssumption
    <3> HIDE DEF less
    <3> QED BY <1>2, <2>1, <3>1, <3>3 DEF CallOK
  <2>4. calls'[c].holds => /\ calls'[c].msg.id \in DOMAIN experiments'
                           /\ experiments'[calls'[c].msg.id].service = calls'[c].msg.service
    BY <1>2, <1>4, <2>1 DEF CallOK
  <2> QED BY <2>2, <2>3, <2>4 DEF CallOK
<1>8. ASSUME NEW i \in Ids
      PROVE  /\ Starts(i)' = Starts(i) /\ ServedStarts(i)' = ServedStarts(i)
             /\ ServedStops(i)' = ServedStops(i) /\ LateStarts(i)' = LateStarts(i)
  <2>1. Starts(i)' = Starts(i)
    BY <1>2, <1>3 DEF Starts
  <2>2. ServedStarts(i)' = ServedStarts(i)
    BY <1>2, <2>1 DEF ServedStarts, Starts
  <2>3. ServedStops(i)' = ServedStops(i)
    BY <1>2, <1>3 DEF ServedStops
  <2> QED BY <1>1, <2>1, <2>2, <2>3 DEF LateStarts
<1> HIDE DEF less
<1>9. ASSUME NEW i \in Ids \ doubtful' PROVE KnownOK(i)'
  <2>1. CASE i \in doubtful
    <3>1. ~Present(i)' /\ Starts(i) = {} /\ LateStarts(i) = {}
      BY <1>1, <1>9, <2>1
    <3> QED BY <1>8, <3>1 DEF KnownOK, Present, HasFault
  <2>2. CASE i \notin doubtful
    <3>1. KnownOK(i)
      BY <2>2 DEF ControlOK
    <3>2. ASSUME NEW p \in Replicas, NEW fault \in LiveFaults(p)', fault.id = i
          PROVE  OfStart(p, fault)' \/ OnRecord(p, fault)'
      <4>1. PICK old \in LiveFaults(p) : /\ old.id = i /\ old.left = fault.left + 1
                                         /\ fault.left \in Nat /\ fault.left > 0
        BY <1>5, <3>2
      <4>2. OfStart(p, old) \/ OnRecord(p, old)
        BY <3>1, <4>1 DEF KnownOK
      <4>3. CASE OfStart(p, old)
        <5>1. PICK c \in ServedStarts(i) : /\ p \in ReplicasOf[calls[c].msg.service]
                                           /\ OneReplica => old.left - calls[c].left \in 0..CallTime
          BY <4>1, <4>3 DEF OfStart
        <5>2. c \in Clients /\ Awaiting(c)
          BY DEF ServedStarts, Starts
        <5>3. OneReplica => fault.left - calls'[c].left \in 0..CallTime
          BY <1>2, <1>6, <4>1, <5>1, <5>2
        <5> QED BY <1>2, <1>8, <3>2, <5>1, <5>2, <5>3 DEF OfStart, OneReplica
      <4>4. CASE OnRecord(p, old)
        <5>1. i \in DOMAIN experiments /\ p \in ReplicasOf[experiments[i].service]
          BY <4>1, <4>4 DEF OnRecord
        <5>2. OneReplica => /\ experiments[i].status # "stopped"
                            /\ old.left - experiments[i].left \in 0..CallTime
                            /\ ServedStops(i) = {}
                            /\ \A c \in ServedStarts(i) : p \notin ReplicasOf[calls[c].msg.service]
          BY <4>1, <4>4 DEF OnRecord
        <5>3. OneReplica => fault.left - experiments'[i].left \in 0..CallTime
          BY <1>4, <1>6, <4>1, <5>1, <5>2
        <5>4. \A c \in ServedStarts(i) : calls'[c].msg = calls[c].msg
          BY <1>2 DEF ServedStarts, Starts
        <5> QED BY <1>4, <1>8, <3>2, <5>1, <5>2, <5>3, <5>4 DEF OnRecord, OneReplica
      <4> QED BY <4>2, <4>3, <4>4
    <3> QED BY <1>8, <3>1, <3>2 DEF KnownOK
  <2> QED BY <2>1, <2>2
<1> QED BY <1>7, <1>9 DEF ControlOK

LEMMA RestartControl ==
  ASSUME ChaosTypes, ControlOK, RestartController
  PROVE  ControlOK'
<1>1. /\ calls' = [c \in Clients |-> None]
      /\ late' \subseteq late \cup {calls[c].msg : c \in {d \in Clients : Open(d)}}
      /\ doubtful' = doubtful \cup {id \in Ids : Present(id) \/ Starts(id) # {}}
      /\ UNCHANGED registries
  BY DEF RestartController
<1>2. \A c \in Clients : ~Awaiting(c)'
  BY <1>1 DEF Awaiting
<1>3. ASSUME NEW i \in Ids \ doubtful' PROVE KnownOK(i)'
  <2>1. KnownOK(i) /\ Starts(i) = {} /\ ~Present(i)
    BY <1>1, <1>3 DEF ControlOK
  <2>2. LateStarts(i)' = {}
    <3>1. ASSUME NEW c \in Clients, Open(c) PROVE ~(calls[c].msg.verb = "start" /\ calls[c].msg.id = i)
      BY <2>1, <3>1 DEF Open, Starts
    <3> QED BY <1>1, <2>1, <3>1 DEF KnownOK, LateStarts
  <2>3. Starts(i)' = {}
    BY <1>2 DEF Starts
  <2>4. \A p \in Replicas : \A fault \in LiveFaults(p)' : fault.id # i
    BY <1>1, <2>1 DEF Present, HasFault, LiveFaults
  <2> QED BY <2>2, <2>3, <2>4 DEF KnownOK
<1> QED BY <1>2, <1>3 DEF ControlOK

LEMMA ControlStep ==
  ASSUME ChaosTypes, ControlOK, [Next]_vars
  PROVE  ControlOK'
<1>1. ASSUME NEW c \in Clients,
             \/ \E id \in Ids, service \in Services, d \in Durations : StartExperiment(c, id, service, d)
             \/ \E id \in Ids : StopExperiment(c, id)
             \/ \E p \in Replicas : Serve(c, p)
             \/ ExperimentStarted(c) \/ ExperimentStopped(c) \/ GiveUp(c)
      PROVE  ControlOK'
  BY <1>1, StartExperimentControl, StopExperimentControl, ServeControl, ExperimentStartedControl,
     ExperimentStoppedControl, GiveUpControl
<1>2. ASSUME NEW p \in Replicas, (\E msg \in late : ServeLate(msg, p)) \/ Visit(p) \/ RestartTarget(p)
      PROVE  ControlOK'
  BY <1>2, ReplicaControl
<1>3. CASE ListExperiments
  BY <1>3, ListControl
<1>4. CASE Tick
  BY <1>4, TickControl
<1>5. CASE RestartController
  BY <1>5, RestartControl
<1>6. CASE UNCHANGED vars
  <2>1. \A p \in Replicas : LiveFaults(p)' = LiveFaults(p)
    BY <1>6 DEF vars, LiveFaults
  <2> QED BY <1>6, <2>1, FaultsGo DEF vars
<1> QED BY <1>1, <1>2, <1>3, <1>4, <1>5, <1>6 DEF Next

LEMMA ControlInvariant == Spec => [](ChaosTypes /\ ControlOK)
<1>1. ChaosTypes /\ ControlOK /\ [Next]_vars => (ChaosTypes /\ ControlOK)'
  BY TypesStep, ControlStep
<1> QED BY <1>1, TypesInit, ControlInit, PTL DEF Spec

------------------------------------------------------------------------------
(* What is running is live.  The argument follows a time that is still to  *)
(* come: first the one a served start measures, then the one on record.    *)
(* Only what cuts an id ends the fault behind that time any sooner.        *)

\* The service has a fault of the experiment that is live for at least so long.
Backed(service, id, left) ==
  left > 0 => \E p \in ReplicasOf[service] : \E fault \in LiveFaults(p) : fault.id = id /\ fault.left >= left

StartsBacked(id) == \A c \in ServedStarts(id) : Backed(calls[c].msg.service, id, calls[c].left)
RecordBacked(id) == id \in DOMAIN experiments => Backed(experiments[id].service, id, experiments[id].left)

TimeBacked(id) == StartsBacked(id) /\ (ServedStarts(id) = {} => RecordBacked(id))

LiveOK == \A id \in Ids \ cut : TimeBacked(id)

LEMMA StartFields ==
  ASSUME ChaosTypes, NEW id, NEW c \in Starts(id)
  PROVE  /\ Awaiting(c) /\ calls[c] \in Call /\ calls[c].left \in Nat
         /\ calls[c].msg.service \in Services /\ calls[c].msg.duration \in Nat
<1>1. c \in Clients /\ Awaiting(c) /\ calls[c].msg.verb = "start"
  BY DEF Starts
<1>2. calls[c] \in Call
  BY <1>1, AwaitedCall DEF ChaosTypes
<1>3. calls[c].msg \in Message /\ calls[c].left \in Nat
  BY <1>2, CallFields
<1> QED BY <1>1, <1>2, <1>3, MessageFields

\* An id whose calls and faults stay, and whose record stays or runs out.
LEMMA LiveKept ==
  ASSUME ChaosTypes, LiveOK, NEW id \in Ids \ cut,
         \A p \in Replicas : \A fault \in LiveFaults(p) : fault.id = id => fault \in LiveFaults(p)',
         ServedStarts(id)' = ServedStarts(id),
         \A c \in ServedStarts(id) : calls'[c].msg = calls[c].msg /\ calls'[c].left = calls[c].left,
         id \in DOMAIN experiments' =>
           /\ id \in DOMAIN experiments /\ experiments'[id].service = experiments[id].service
           /\ experiments'[id].left = experiments[id].left \/ experiments'[id].left = 0
  PROVE  TimeBacked(id)'
<1>1. \A s \in Services : \A p \in ReplicasOf[s] : p \in Replicas
  BY ChaosAssumption
<1>2. TimeBacked(id)
  BY DEF LiveOK
<1>3. StartsBacked(id)'
  <2> SUFFICES ASSUME NEW c \in ServedStarts(id), calls[c].left > 0
               PROVE  \E p \in ReplicasOf[calls[c].msg.service] : \E fault \in LiveFaults(p)' :
                        fault.id = id /\ fault.left >= calls[c].left
    BY DEF StartsBacked, Backed
  <2>1. calls[c].msg.service \in Services
    BY StartFields DEF ServedStarts
  <2> QED BY <1>1, <1>2, <2>1 DEF TimeBacked, StartsBacked, Backed
<1>4. ASSUME ServedStarts(id)' = {} PROVE RecordBacked(id)'
  <2> SUFFICES ASSUME id \in DOMAIN experiments', experiments'[id].left > 0
               PROVE  \E p \in ReplicasOf[experiments'[id].service] : \E fault \in LiveFaults(p)' :
                        fault.id = id /\ fault.left >= experiments'[id].left
    BY DEF RecordBacked, Backed
  <2>1. /\ id \in DOMAIN experiments /\ experiments'[id].service = experiments[id].service
        /\ experiments'[id].left = experiments[id].left
    OBVIOUS
  <2>2. experiments[id].service \in Services
    BY <2>1 DEF ChaosTypes, TypeOK, Record
  <2>3. RecordBacked(id)
    BY <1>2, <1>4 DEF TimeBacked
  <2> QED BY <1>1, <2>1, <2>2, <2>3 DEF RecordBacked, Backed
<1> QED BY <1>3, <1>4 DEF TimeBacked

\* A step that leaves the calls' times and the records alone, and ends only faults it cuts.
LEMMA OthersStay ==
  ASSUME ChaosTypes, LiveOK, cut \subseteq cut',
         \A p \in Replicas : \A fault \in LiveFaults(p) : fault.id \in cut' \/ fault \in LiveFaults(p)',
         UNCHANGED <<experiments, calls>>
  PROVE  LiveOK'
<1> SUFFICES ASSUME NEW id \in Ids \ cut' PROVE TimeBacked(id)'
  BY DEF LiveOK
<1>1. ServedStarts(id)' = ServedStarts(id)
  BY DEF ServedStarts, Starts, Awaiting
<1> QED BY <1>1, LiveKept

LEMMA LiveInit == Init => LiveOK
<1> SUFFICES ASSUME Init PROVE LiveOK
  OBVIOUS
<1>1. \A c \in Clients : ~Awaiting(c)
  BY DEF Init, Awaiting
<1>2. DOMAIN experiments = {}
  BY DEF Init
<1> QED BY <1>1, <1>2 DEF LiveOK, TimeBacked, StartsBacked, RecordBacked, ServedStarts, Starts

\* A step of one client that changes no replica and no record.
LEMMA ClientLive ==
  ASSUME ChaosTypes, LiveOK, NEW c \in Clients,
         \/ \E id \in Ids, service \in Services, d \in Durations : StartExperiment(c, id, service, d)
         \/ \E id \in Ids : StopExperiment(c, id)
         \/ GiveUp(c)
  PROVE  LiveOK'
<1>1. /\ UNCHANGED <<experiments, registries>>
      /\ cut \subseteq cut'
      /\ \A b \in Clients \ {c} : calls'[b] = calls[b]
      /\ \/ ~Awaiting(c) /\ calls'[c].sent
         \/ ~Awaiting(c)' /\ (Awaiting(c) /\ calls[c].msg.verb = "start" /\ ~calls[c].sent =>
                                calls[c].msg.id \in cut')
  <2>1. calls \in [Clients -> Call \cup {None}]
    BY DEF ChaosTypes, TypeOK
  <2>2. CASE \E id \in Ids, service \in Services, d \in Durations : StartExperiment(c, id, service, d)
    BY <2>1, <2>2 DEF StartExperiment, Pending
  <2>3. CASE \E id \in Ids : StopExperiment(c, id)
    BY <2>1, <2>3 DEF StopExperiment, Pending
  <2>4. CASE GiveUp(c)
    <3>1. calls' = [calls EXCEPT ![c] = None] /\ UNCHANGED <<experiments, registries>>
      BY <2>4 DEF GiveUp
    <3>2. ~Awaiting(c)' /\ \A b \in Clients \ {c} : calls'[b] = calls[b]
      BY <2>1, <3>1 DEF Awaiting
    <3>3. /\ cut \subseteq cut'
          /\ Awaiting(c) /\ calls[c].msg.verb = "start" /\ ~calls[c].sent => calls[c].msg.id \in cut'
      BY <2>4 DEF GiveUp, Open
    <3> QED BY <3>1, <3>2, <3>3
  <2> QED BY <2>2, <2>3, <2>4
<1> SUFFICES ASSUME NEW id \in Ids \ cut' PROVE TimeBacked(id)'
  BY DEF LiveOK
<1>2. c \notin ServedStarts(id) /\ c \notin ServedStarts(id)'
  BY <1>1 DEF ServedStarts, Starts
<1>3. ServedStarts(id)' = ServedStarts(id) /\ \A b \in ServedStarts(id) : calls'[b] = calls[b]
  <2>1. \A b \in Clients \ {c} : b \in ServedStarts(id)' <=> b \in ServedStarts(id)
    BY <1>1 DEF ServedStarts, Starts, Awaiting
  <2>2. ServedStarts(id) \subseteq Clients /\ ServedStarts(id)' \subseteq Clients
    BY DEF ServedStarts, Starts
  <2> QED BY <1>1, <1>2, <2>1, <2>2
<1>4. \A p \in Replicas : LiveFaults(p)' = LiveFaults(p)
  BY <1>1 DEF LiveFaults
<1> QED BY <1>1, <1>3, <1>4, LiveKept

\* A call leaves alive every fault of another id, and what it starts.
LEMMA LiveOfServedKept ==
  ASSUME NEW registry \in Seq(FaultRecords(Ids)), NEW msg \in Message
  PROVE  /\ \A fault \in LiveOf(registry) : fault.id # msg.id => fault \in LiveOf(Served(registry, msg))
         /\ msg.verb = "start" => \E fault \in LiveOf(Served(registry, msg)) :
                                    fault.id = msg.id /\ fault.left = msg.duration
<1>1. CASE msg.verb = "start"
  <2> DEFINE new == [id |-> msg.id, kind |-> "http_500", left |-> msg.duration]
  <2>1. "http_500" \in FaultKinds
    BY DEF FaultKinds, RequestKinds, FailingKinds
  <2>2. new \in FaultRecords(Ids) /\ new.id = msg.id /\ new.left = msg.duration /\ IsLive(new)
    BY <1>1, <2>1, MessageFields DEF FaultRecords, IsLive
  <2>3. Served(registry, msg) = Started(registry, new)
    BY <1>1 DEF Served
  <2> HIDE DEF new
  <2> QED BY <1>1, <2>2, <2>3, LiveOfStarted
<1>2. CASE msg.verb # "start"
  BY <1>2, LiveOfStopped DEF Served
<1> QED BY <1>1, <1>2

\* A call that finds no fault of its id at the replica ends none.
LEMMA ServedLive ==
  ASSUME ChaosTypes, NEW p \in Replicas, NEW msg \in Message,
         registries' = [registries EXCEPT ![p] = Served(registries[p], msg)]
  PROVE  /\ \A q \in Replicas : \A fault \in LiveFaults(q) :
              \/ fault.id = msg.id /\ HasFault(p, msg.id)
              \/ fault \in LiveFaults(q)'
         /\ msg.verb = "start" => \E fault \in LiveFaults(p)' : fault.id = msg.id /\ fault.left = msg.duration
<1>1. registries \in [Replicas -> Seq(FaultRecords(Ids))]
  BY DEF ChaosTypes, TypeOK
<1>2. registries[p] \in Seq(FaultRecords(Ids)) /\ registries'[p] = Served(registries[p], msg)
      /\ \A q \in Replicas \ {p} : registries'[q] = registries[q]
  BY <1>1
<1>3. LiveFaults(p)' = LiveOf(Served(registries[p], msg)) /\ LiveFaults(p) = LiveOf(registries[p])
      /\ \A q \in Replicas \ {p} : LiveFaults(q)' = LiveFaults(q)
  BY <1>2, LiveFaultsOf
<1>4. \A fault \in LiveFaults(p) : fault.id # msg.id => fault \in LiveFaults(p)'
  BY <1>2, <1>3, LiveOfServedKept
<1>5. msg.verb = "start" => \E fault \in LiveFaults(p)' : fault.id = msg.id /\ fault.left = msg.duration
  BY <1>2, <1>3, LiveOfServedKept
<1> QED BY <1>3, <1>4, <1>5 DEF HasFault

LEMMA ServeLive ==
  ASSUME ChaosTypes, ControlOK, LiveOK, NEW c \in Clients, NEW p \in Replicas, Serve(c, p)
  PROVE  LiveOK'
<1> DEFINE msg == calls[c].msg
<1>1. calls[c] \in Call /\ msg \in Message /\ calls[c].sent /\ Awaiting(c) /\ calls[c].left \in Nat
      /\ calls[c].wait \in Nat /\ p \in ReplicasOf[msg.service] /\ UNCHANGED experiments
  BY AwaitedCall, CallFields DEF Serve, Open, ChaosTypes
<1>2. /\ calls'[c].sent = FALSE /\ calls'[c].msg = msg /\ calls'[c].left = calls[c].left
      /\ \A b \in Clients \ {c} : calls'[b] = calls[b]
      /\ calls'[c] # None
  <2>1. calls' = [calls EXCEPT ![c] = [calls[c] EXCEPT !.sent = FALSE]]
        /\ calls \in [Clients -> Call \cup {None}]
    BY DEF Serve, ChaosTypes, TypeOK
  <2>2. [calls[c] EXCEPT !.sent = FALSE] \in Call
    BY <1>1 DEF Call
  <2> QED BY <1>1, <2>1, <2>2, CallFields DEF Call
<1>3. cut' = IF Starts(msg.id) = {c} /\ LateStarts(msg.id) = {} THEN cut \ {msg.id} ELSE CutBy(msg, p)
  BY DEF Serve
<1>4. /\ \A q \in Replicas : \A fault \in LiveFaults(q) :
           \/ fault.id = msg.id /\ HasFault(p, msg.id)
           \/ fault \in LiveFaults(q)'
      /\ msg.verb = "start" => \E fault \in LiveFaults(p)' : fault.id = msg.id /\ fault.left = msg.duration
  BY <1>1, ServedLive DEF Serve
<1>5. \A i \in Ids : Starts(i)' = Starts(i)
  BY <1>1, <1>2 DEF Starts, Awaiting
<1>6. msg.verb = "start" => msg.duration \in Nat /\ msg.duration >= calls[c].left
  <2>1. CallOK(c)
    BY <1>1 DEF ControlOK
  <2>2. msg.verb = "start" => msg.duration \in Nat /\ msg.duration - calls[c].left >= 0
    BY <1>1, <2>1, MessageFields, ChaosAssumption DEF CallOK
  <2> QED BY <1>1, <2>2
<1> HIDE DEF msg
<1>m. msg = calls[c].msg
  BY DEF msg
<1> SUFFICES ASSUME NEW id \in Ids \ cut' PROVE TimeBacked(id)'
  BY DEF LiveOK
<1>7. CASE id = msg.id /\ msg.verb = "start"
  <2>1. c \in Starts(id) /\ c \notin ServedStarts(id) /\ c \in ServedStarts(id)'
    BY <1>m, <1>1, <1>2, <1>5, <1>7 DEF Starts, ServedStarts
  <2>2. ASSUME NEW b \in ServedStarts(id)', calls'[b].left > 0
        PROVE  \E q \in ReplicasOf[calls'[b].msg.service] : \E fault \in LiveFaults(q)' :
                 fault.id = id /\ fault.left >= calls'[b].left
    <3>1. CASE b = c
      <4>1. PICK fault \in LiveFaults(p)' : fault.id = id /\ fault.left = msg.duration
        BY <1>4, <1>7
      <4>2. fault.left >= calls'[b].left
        BY <1>2, <1>6, <1>7, <3>1, <4>1
      <4> QED BY <1>1, <1>2, <3>1, <4>1, <4>2
    <3>2. CASE b # c
      <4>1. b \in ServedStarts(id) /\ calls'[b] = calls[b] /\ b \in Starts(id)
        BY <1>2, <1>5, <2>2, <3>2 DEF ServedStarts, Starts
      <4>2. id \notin cut /\ ~HasFault(p, id)
        BY <1>3, <1>7, <3>2, <4>1 DEF CutBy
      <4>3. TimeBacked(id) /\ calls[b].msg.service \in Services
        BY <4>1, <4>2, StartFields DEF LiveOK
      <4>4. PICK q \in ReplicasOf[calls[b].msg.service] : \E fault \in LiveFaults(q) :
                   fault.id = id /\ fault.left >= calls[b].left
        BY <2>2, <4>1, <4>3 DEF TimeBacked, StartsBacked, Backed
      <4>5. q \in Replicas
        BY <4>3, <4>4, ChaosAssumption
      <4> QED BY <1>4, <1>7, <4>1, <4>2, <4>4, <4>5
    <3> QED BY <3>1, <3>2
  <2>3. StartsBacked(id)'
    BY <2>2 DEF StartsBacked, Backed
  <2> QED BY <2>1, <2>3 DEF TimeBacked
<1>8. CASE ~(id = msg.id /\ msg.verb = "start")
  <2>1. ServedStarts(id)' = ServedStarts(id) /\ c \notin ServedStarts(id)
    BY <1>m, <1>1, <1>2, <1>5, <1>8 DEF ServedStarts, Starts
  <2>2. id \notin cut /\ (id = msg.id => ~HasFault(p, msg.id))
    <3>1. CASE id # msg.id
      BY <1>3, <3>1 DEF CutBy
    <3>2. CASE id = msg.id
      <4>1. c \notin Starts(id)
        BY <1>m, <1>8, <3>2 DEF Starts
      <4> QED BY <1>3, <3>2, <4>1 DEF CutBy
    <3> QED BY <3>1, <3>2
  <2>3. \A b \in ServedStarts(id) : calls'[b] = calls[b]
    BY <1>2, <2>1 DEF ServedStarts, Starts
  <2>4. \A q \in Replicas : \A fault \in LiveFaults(q) : fault.id = id => fault \in LiveFaults(q)'
    BY <1>4, <2>2
  <2> QED BY <1>1, <2>1, <2>2, <2>3, <2>4, LiveKept
<1> QED BY <1>7, <1>8

LEMMA ReplicaLive ==
  ASSUME ChaosTypes, LiveOK, NEW p \in Replicas,
         (\E msg \in late : ServeLate(msg, p)) \/ Visit(p) \/ RestartTarget(p)
  PROVE  LiveOK'
<1>1. registries \in [Replicas -> Seq(FaultRecords(Ids))] /\ late \subseteq Message
  BY DEF ChaosTypes, TypeOK
<1>2. UNCHANGED <<experiments, calls>> /\ cut \subseteq cut'
  BY DEF ServeLate, Visit, RestartTarget, CutBy
<1>3. \A q \in Replicas : \A fault \in LiveFaults(q) : fault.id \in cut' \/ fault \in LiveFaults(q)'
  <2>1. ASSUME NEW msg \in late, ServeLate(msg, p)
        PROVE  \A q \in Replicas : \A fault \in LiveFaults(q) : fault.id \in cut' \/ fault \in LiveFaults(q)'
    <3>1. /\ msg \in Message /\ cut' = CutBy(msg, p)
          /\ registries' = [registries EXCEPT ![p] = Served(registries[p], msg)]
      BY <1>1, <2>1 DEF ServeLate
    <3> QED BY <3>1, ServedLive DEF CutBy
  <2>2. CASE Visit(p)
    <3>1. registries'[p] = Live(registries[p]) /\ \A q \in Replicas \ {p} : registries'[q] = registries[q]
      BY <1>1, <2>2 DEF Visit
    <3>2. LiveOf(Live(registries[p])) = LiveOf(registries[p])
      BY <1>1, LiveOfLive
    <3> QED BY <3>1, <3>2, LiveFaultsOf
  <2>3. CASE RestartTarget(p)
    <3>1. \A q \in Replicas \ {p} : registries'[q] = registries[q]
      BY <1>1, <2>3 DEF RestartTarget
    <3>2. \A fault \in LiveFaults(p) : fault.id \in cut'
      BY <2>3 DEF RestartTarget
    <3> QED BY <3>1, <3>2, LiveFaultsOf
  <2> QED BY <2>1, <2>2, <2>3
<1> QED BY <1>2, <1>3, OthersStay

\* The record takes over the time of the start it is written for.
LEMMA ExperimentStartedLive ==
  ASSUME ChaosTypes, LiveOK, NEW c \in Clients, ExperimentStarted(c)
  PROVE  LiveOK'
<1> DEFINE id == calls[c].msg.id
           service == calls[c].msg.service
           record == [service |-> service, left |-> calls[c].left, status |-> "running"]
<1>1. Awaiting(c) /\ ~calls[c].sent /\ calls[c].msg.verb = "start"
  BY DEF ExperimentStarted, Open
<1>2. /\ experiments' = Put(id, record)
      /\ calls' = [d \in Clients |->
                     IF d = c THEN None
                     ELSE IF Awaiting(d) /\ calls[d].msg.id = id THEN [calls[d] EXCEPT !.holds = FALSE]
                     ELSE calls[d]]
      /\ UNCHANGED <<registries, cut>>
  BY DEF ExperimentStarted, EndOf
<1>3. /\ experiments'[id] = record /\ record.service = service /\ record.left = calls[c].left
      /\ \A i \in DOMAIN experiments' \ {id} : i \in DOMAIN experiments /\ experiments'[i] = experiments[i]
  BY <1>2 DEF Put
<1>4. ~Awaiting(c)'
  BY <1>2 DEF Awaiting
<1>5. ASSUME NEW d \in Clients \ {c}
      PROVE  /\ Awaiting(d)' <=> Awaiting(d)
             /\ Awaiting(d) => /\ calls'[d].sent = calls[d].sent /\ calls'[d].msg = calls[d].msg
                               /\ calls'[d].left = calls[d].left
  <2>1. CASE Awaiting(d) /\ calls[d].msg.id = id
    <3>1. calls[d] \in Call
      BY <2>1, AwaitedCall DEF ChaosTypes
    <3>2. calls'[d] = [calls[d] EXCEPT !.holds = FALSE]
      BY <1>2, <2>1
    <3>3. calls'[d] \in Call
      BY <3>1, <3>2 DEF Call
    <3> QED BY <2>1, <3>1, <3>2, <3>3, CallFields DEF Call, Awaiting
  <2>2. CASE ~(Awaiting(d) /\ calls[d].msg.id = id)
    BY <1>2, <2>2 DEF Awaiting
  <2> QED BY <2>1, <2>2
<1> HIDE DEF id, service, record
<1>i. id = calls[c].msg.id /\ service = calls[c].msg.service
  BY DEF id, service
<1> SUFFICES ASSUME NEW i \in Ids \ cut' PROVE TimeBacked(i)'
  BY DEF LiveOK
<1>6. i \notin cut /\ TimeBacked(i) /\ \A p \in Replicas : LiveFaults(p)' = LiveFaults(p)
  BY <1>2 DEF LiveOK, LiveFaults
<1>7. /\ ServedStarts(i)' = ServedStarts(i) \ {c}
      /\ \A d \in ServedStarts(i)' : calls'[d].msg = calls[d].msg /\ calls'[d].left = calls[d].left
  <2>1. \A d \in Clients \ {c} : d \in ServedStarts(i)' <=> d \in ServedStarts(i)
    BY <1>5 DEF ServedStarts, Starts
  <2>2. ServedStarts(i) \subseteq Clients /\ ServedStarts(i)' \subseteq Clients /\ c \notin ServedStarts(i)'
    BY <1>4 DEF ServedStarts, Starts
  <2>3. ServedStarts(i)' = ServedStarts(i) \ {c}
    BY <2>1, <2>2
  <2> QED BY <1>5, <2>3 DEF ServedStarts, Starts
<1>8. CASE i # id
  <2>1. c \notin ServedStarts(i)
    BY <1>i, <1>8 DEF ServedStarts, Starts
  <2> QED BY <1>3, <1>6, <1>7, <1>8, <2>1, LiveKept
<1>9. CASE i = id
  <2>1. c \in ServedStarts(i)
    BY <1>i, <1>1, <1>9 DEF ServedStarts, Starts
  <2>2. \A s \in Services : \A p \in ReplicasOf[s] : p \in Replicas
    BY ChaosAssumption
  <2>3. ASSUME NEW d \in ServedStarts(i), calls[d].left > 0
        PROVE  \E p \in ReplicasOf[calls[d].msg.service] : \E fault \in LiveFaults(p)' :
                 fault.id = i /\ fault.left >= calls[d].left
    <3>1. calls[d].msg.service \in Services
      BY StartFields DEF ServedStarts
    <3> QED BY <1>6, <2>2, <2>3, <3>1 DEF TimeBacked, StartsBacked, Backed
  <2>4. StartsBacked(i)'
    BY <1>7, <2>3 DEF StartsBacked, Backed
  <2>5. RecordBacked(i)'
    BY <1>i, <1>3, <1>9, <2>1, <2>3 DEF RecordBacked, Backed
  <2> QED BY <2>4, <2>5 DEF TimeBacked
<1> QED BY <1>8, <1>9

\* A record that is stopped has no time left; listing leaves times alone.
LEMMA RecordsLive ==
  ASSUME ChaosTypes, LiveOK, (\E c \in Clients : ExperimentStopped(c)) \/ ListExperiments
  PROVE  LiveOK'
<1>1. \A i \in DOMAIN experiments : experiments[i] \in Record
  BY DEF ChaosTypes, TypeOK
<1>2. /\ DOMAIN experiments' = DOMAIN experiments
      /\ \A i \in DOMAIN experiments :
           /\ experiments'[i].service = experiments[i].service
           /\ experiments'[i].left = experiments[i].left \/ experiments'[i].left = 0
  <2>1. ASSUME NEW c \in Clients, ExperimentStopped(c), calls[c].holds
        PROVE  /\ DOMAIN experiments' = DOMAIN experiments
               /\ \A i \in DOMAIN experiments :
                    /\ experiments'[i].service = experiments[i].service
                    /\ experiments'[i].left = experiments[i].left \/ experiments'[i].left = 0
    <3> DEFINE id == calls[c].msg.id
    <3>1. experiments' = [experiments EXCEPT ![id].status = "stopped", ![id].left = 0]
      BY <2>1 DEF ExperimentStopped, Holds
    <3> HIDE DEF id
    <3> QED BY <1>1, <3>1 DEF Record
  <2>2. ASSUME NEW c \in Clients, ExperimentStopped(c), ~calls[c].holds PROVE experiments' = experiments
    BY <2>2 DEF ExperimentStopped, Holds
  <2>3. CASE ListExperiments
    BY <1>1, <2>3 DEF ListExperiments, Listed, Record
  <2> QED BY <2>1, <2>2, <2>3
<1>3. UNCHANGED <<registries, cut>>
  BY DEF ExperimentStopped, ListExperiments
<1>4. ASSUME NEW i \in Ids
      PROVE  ServedStarts(i)' = ServedStarts(i) /\ \A b \in ServedStarts(i) : calls'[b] = calls[b]
  <2>1. ASSUME NEW c \in Clients, ExperimentStopped(c)
        PROVE  ServedStarts(i)' = ServedStarts(i) /\ \A b \in ServedStarts(i) : calls'[b] = calls[b]
    <3>1. Awaiting(c) /\ calls[c].msg.verb = "stop" /\ calls' = [calls EXCEPT ![c] = None]
          /\ calls \in [Clients -> Call \cup {None}]
      BY <2>1 DEF ExperimentStopped, ChaosTypes, TypeOK
    <3>2. ~Awaiting(c)' /\ \A b \in Clients \ {c} : calls'[b] = calls[b]
      BY <3>1 DEF Awaiting
    <3> QED BY <3>1, <3>2 DEF ServedStarts, Starts, Awaiting
  <2>2. CASE ListExperiments
    BY <2>2 DEF ListExperiments, ServedStarts, Starts, Awaiting
  <2> QED BY <2>1, <2>2
<1>5. \A p \in Replicas : LiveFaults(p)' = LiveFaults(p)
  BY <1>3 DEF LiveFaults
<1> SUFFICES ASSUME NEW i \in Ids \ cut' PROVE TimeBacked(i)'
  BY DEF LiveOK
<1> QED BY <1>2, <1>3, <1>4, <1>5, LiveKept

\* A fault and the time it backs lose one unit together.
LEMMA TickLive ==
  ASSUME ChaosTypes, LiveOK, Tick
  PROVE  LiveOK'
<1> DEFINE less(n) == IF n > 0 THEN n - 1 ELSE 0
<1>1. /\ UNCHANGED cut
      /\ \A c \in Clients : Awaiting(c) => calls[c].wait > 0
      /\ calls' = [c \in Clients |->
                     IF Awaiting(c)
                     THEN [calls[c] EXCEPT !.wait = @ - 1, !.left = IF @ > 0 THEN @ - 1 ELSE 0]
                     ELSE calls[c]]
      /\ experiments' = [id \in DOMAIN experiments |->
                           [experiments[id] EXCEPT !.left = IF @ > 0 THEN @ - 1 ELSE 0]]
      /\ registries' = [p \in Replicas |-> Aged(registries[p])]
  BY DEF Tick
<1>2. ASSUME NEW c \in Clients, Awaiting(c)
      PROVE  /\ Awaiting(c)'
             /\ calls'[c].sent = calls[c].sent /\ calls'[c].msg = calls[c].msg
             /\ calls'[c].left = less(calls[c].left)
  <2>1. calls[c] \in Call /\ calls[c].wait > 0
    BY <1>1, <1>2, AwaitedCall DEF ChaosTypes
  <2>2. calls'[c] = [calls[c] EXCEPT !.wait = @ - 1, !.left = IF @ > 0 THEN @ - 1 ELSE 0]
    BY <1>1, <1>2
  <2>3. calls'[c] \in Call
    BY <2>1, <2>2, AgedCall
  <2> QED BY <2>1, <2>2, <2>3, CallFields DEF Call, Awaiting
<1>3. ASSUME NEW c \in Clients, ~Awaiting(c) PROVE ~Awaiting(c)'
  BY <1>1, <1>3 DEF Awaiting
<1>4. /\ DOMAIN experiments' = DOMAIN experiments
      /\ \A i \in DOMAIN experiments :
           /\ experiments[i].service \in Services /\ experiments'[i].service = experiments[i].service
           /\ experiments'[i].left = less(experiments[i].left) /\ experiments[i].left \in Nat
  BY <1>1 DEF ChaosTypes, TypeOK, Record
<1> SUFFICES ASSUME NEW id \in Ids \ cut PROVE TimeBacked(id)'
  BY <1>1 DEF LiveOK
<1>5. ASSUME NEW service \in Services, NEW left \in Nat, less(left) > 0, Backed(service, id, left)
      PROVE  \E p \in ReplicasOf[service] : \E fault \in LiveFaults(p)' : fault.id = id /\ fault.left >= less(left)
  <2>1. PICK p \in ReplicasOf[service] : \E fault \in LiveFaults(p) : fault.id = id /\ fault.left >= left
    BY <1>5 DEF Backed
  <2>2. PICK old \in LiveFaults(p) : old.id = id /\ old.left >= left
    BY <2>1
  <2>3. p \in Replicas
    BY <2>1, ChaosAssumption
  <2>4. registries[p] \in Seq(FaultRecords(Ids)) /\ registries'[p] = Aged(registries[p])
    BY <1>1, <2>3 DEF ChaosTypes, TypeOK
  <2>5. old.left \in Nat /\ old.left > 1
    BY <1>5, <2>2, <2>3, <2>4, LiveFaultsOf, LiveOfType
  <2>6. \E fault \in LiveOf(Aged(registries[p])) : fault.id = old.id /\ fault.left = old.left - 1
    BY <2>2, <2>3, <2>4, <2>5, LiveFaultsOf, LiveOfAgedKept
  <2>7. PICK fault \in LiveFaults(p)' : fault.id = id /\ fault.left = old.left - 1
    BY <2>2, <2>3, <2>4, <2>6, LiveFaultsOf
  <2>8. fault.left >= less(left)
    BY <1>5, <2>2, <2>5, <2>7
  <2> QED BY <2>7, <2>8
<1> HIDE DEF less
<1>6. ServedStarts(id)' = ServedStarts(id)
  BY <1>2, <1>3 DEF ServedStarts, Starts
<1>7. TimeBacked(id)
  BY DEF LiveOK
<1>8. StartsBacked(id)'
  <2> SUFFICES ASSUME NEW c \in ServedStarts(id), calls'[c].left > 0
               PROVE  \E p \in ReplicasOf[calls'[c].msg.service] : \E fault \in LiveFaults(p)' :
                        fault.id = id /\ fault.left >= calls'[c].left
    BY <1>6 DEF StartsBacked, Backed
  <2>1. c \in Clients /\ Awaiting(c) /\ calls[c].left \in Nat /\ calls[c].msg.service \in Services
    BY StartFields DEF ServedStarts, Starts
  <2>2. Backed(calls[c].msg.service, id, calls[c].left)
    BY <1>7 DEF TimeBacked, StartsBacked
  <2>3. calls'[c].left = less(calls[c].left) /\ calls'[c].msg = calls[c].msg
    BY <1>2, <2>1
  <2> QED BY <1>5, <2>1, <2>2, <2>3
<1>9. ASSUME ServedStarts(id)' = {} PROVE RecordBacked(id)'
  <2> SUFFICES ASSUME id \in DOMAIN experiments', experiments'[id].left > 0
               PROVE  \E p \in ReplicasOf[experiments'[id].service] : \E fault \in LiveFaults(p)' :
                        fault.id = id /\ fault.left >= experiments'[id].left
    BY DEF RecordBacked, Backed
  <2>1. Backed(experiments[id].service, id, experiments[id].left)
    BY <1>4, <1>6, <1>7, <1>9 DEF TimeBacked, RecordBacked
  <2> QED BY <1>4, <1>5, <2>1
<1> QED BY <1>8, <1>9 DEF TimeBacked

LEMMA LiveStep ==
  ASSUME ChaosTypes, ControlOK, LiveOK, [Next]_vars
  PROVE  LiveOK'
<1>1. ASSUME NEW c \in Clients,
             \/ \E id \in Ids, service \in Services, d \in Durations : StartExperiment(c, id, service, d)
             \/ \E id \in Ids : StopExperiment(c, id)
             \/ \E p \in Replicas : Serve(c, p)
             \/ ExperimentStarted(c) \/ ExperimentStopped(c) \/ GiveUp(c)
      PROVE  LiveOK'
  BY <1>1, ClientLive, ServeLive, ExperimentStartedLive, RecordsLive
<1>2. ASSUME NEW p \in Replicas, (\E msg \in late : ServeLate(msg, p)) \/ Visit(p) \/ RestartTarget(p)
      PROVE  LiveOK'
  BY <1>2, ReplicaLive
<1>3. CASE ListExperiments
  BY <1>3, RecordsLive
<1>4. CASE Tick
  BY <1>4, TickLive
<1>5. CASE RestartController
  <2>1. DOMAIN experiments' = {} /\ \A c \in Clients : ~Awaiting(c)'
    BY <1>5 DEF RestartController, Awaiting
  <2> QED BY <2>1 DEF LiveOK, TimeBacked, StartsBacked, RecordBacked, ServedStarts, Starts
<1>6. CASE UNCHANGED vars
  <2>1. \A p \in Replicas : LiveFaults(p)' = LiveFaults(p)
    BY <1>6 DEF vars, LiveFaults
  <2> QED BY <1>6, <2>1, OthersStay DEF vars
<1> QED BY <1>1, <1>2, <1>3, <1>4, <1>5, <1>6 DEF Next

LEMMA LiveInvariant == Spec => [](ChaosTypes /\ LiveOK)
<1>1. ChaosTypes /\ ControlOK /\ LiveOK /\ [Next]_vars => LiveOK'
  BY LiveStep
<1> QED BY <1>1, LiveInit, ControlInvariant, PTL DEF Spec

------------------------------------------------------------------------------
(* Theorems *)

LEMMA KnownFault ==
  ASSUME ControlOK, NEW p \in Replicas, NEW fault \in LiveFaults(p), fault.id \in Clear
  PROVE  OnRecord(p, fault)
<1>1. KnownOK(fault.id) /\ Starts(fault.id) = {}
  BY DEF ControlOK, Clear
<1> QED BY <1>1 DEF KnownOK, OfStart, ServedStarts

\* Calls, records and registries keep their types, no registry holds two faults of one
\* experiment, and the late calls stay within their bound (chaos_service.py, faults.py).
THEOREM ChaosTypeCorrect == Spec => []TypeOK
<1>1. ChaosTypes => TypeOK
  BY DEF ChaosTypes
<1> QED BY <1>1, ControlInvariant, PTL

\* With any number of replicas: every live fault is on record with the service that has
\* it, unless the controller cannot know (chaos_service.py: start_experiment).
THEOREM RecordedTheorem == Spec => []KnownFaultsRecorded
<1>1. ControlOK => KnownFaultsRecorded
  BY KnownFault DEF KnownFaultsRecorded, OnRecord
<1> QED BY <1>1, ControlInvariant, PTL

\* One process per service: while a fault is live it ends at the time on record or at
\* most the time of a call later (chaos_service.py: end_time is computed before the call).
THEOREM EndTheorem == OneReplica => (Spec => []RecordTellsEnd)
<1> SUFFICES ASSUME OneReplica PROVE Spec => []RecordTellsEnd
  OBVIOUS
<1>1. ASSUME ChaosTypes, ControlOK PROVE RecordTellsEnd
  <2> SUFFICES ASSUME NEW id \in Clear \cap DOMAIN experiments, NEW fault \in FaultsOf(id)
               PROVE  fault.left - experiments[id].left \in 0..CallTime
    BY DEF RecordTellsEnd
  <2>1. PICK p \in ReplicasOf[experiments[id].service] : fault \in LiveFaults(p)
    BY DEF FaultsOf
  <2>2. fault.id = id /\ p \in Replicas
    BY <1>1, <2>1, ChaosAssumption DEF FaultsOf, ChaosTypes, TypeOK, Record
  <2>3. OnRecord(p, fault)
    BY <1>1, <2>1, <2>2, KnownFault
  <2> QED BY <2>2, <2>3 DEF OnRecord
<1>2. ChaosTypes /\ ControlOK => RecordTellsEnd
  BY <1>1
<1> QED BY <1>2, ControlInvariant, PTL

\* With any number of replicas: while the end on record is still to come and no start is
\* under way, the service has the fault, unless a restart of its process, a stop, or
\* starts that overlapped or went unanswered cut it (chaos_service.py: start_experiment writes the record after
\* the target has the fault, with an end time computed before).
THEOREM RunningTheorem == Spec => []RunningMeansLive
<1>1. ASSUME ChaosTypes, LiveOK PROVE RunningMeansLive
  <2> SUFFICES ASSUME NEW id \in DOMAIN experiments \ cut, Starts(id) = {}, experiments[id].left > 0
               PROVE  FaultsOf(id) # {}
    BY DEF RunningMeansLive
  <2>1. id \in Ids \ cut /\ ServedStarts(id) = {}
    BY <1>1 DEF ChaosTypes, TypeOK, ServedStarts
  <2>2. PICK p \in ReplicasOf[experiments[id].service] : \E fault \in LiveFaults(p) : fault.id = id
    BY <1>1, <2>1 DEF LiveOK, TimeBacked, RecordBacked, Backed
  <2> QED BY <2>2 DEF FaultsOf
<1>2. ChaosTypes /\ LiveOK => RunningMeansLive
  BY <1>1
<1> QED BY <1>2, LiveInvariant, PTL

\* One process per service: what the record says is stopped has no fault left, whatever
\* starts and stops overlapped (chaos_service.py: stop_experiment, whose record may be
\* replaced while it awaits).  With two processes it is false (run chaos_replicas).
THEOREM StoppedTheorem == OneReplica => (Spec => []StoppedIsOver)
<1> SUFFICES ASSUME OneReplica PROVE Spec => []StoppedIsOver
  OBVIOUS
<1>1. ASSUME ChaosTypes, ControlOK PROVE StoppedIsOver
  <2> SUFFICES ASSUME NEW id \in Clear \cap DOMAIN experiments, experiments[id].status = "stopped",
                      NEW fault \in FaultsOf(id)
               PROVE  FALSE
    BY DEF StoppedIsOver
  <2>1. PICK p \in ReplicasOf[experiments[id].service] : fault \in LiveFaults(p)
    BY DEF FaultsOf
  <2>2. fault.id = id /\ p \in Replicas
    BY <1>1, <2>1, ChaosAssumption DEF FaultsOf, ChaosTypes, TypeOK, Record
  <2>3. OnRecord(p, fault)
    BY <1>1, <2>1, <2>2, KnownFault
  <2> QED BY <2>2, <2>3 DEF OnRecord
<1>2. ChaosTypes /\ ControlOK => StoppedIsOver
  BY <1>1
<1> QED BY <1>2, ControlInvariant, PTL
===============================================================================
