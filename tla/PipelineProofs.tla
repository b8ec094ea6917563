---------------------------- MODULE PipelineProofs ----------------------------
(***************************************************************************)
(* Theorems about module Pipeline, for any services, requests, queues,     *)
(* losses and crashes.                                                     *)
(*                                                                         *)
(* Each instrument is the size of a set of requests.  A step of the        *)
(* middleware moves one request from one set to another; a restart of the  *)
(* service empties the sets and zeroes the instruments together.           *)
(*                                                                         *)
(* The copies of a span in a queue are counted by the places that hold it. *)
(* Whatever moves a sequence or a part of it moves the places with it, so  *)
(* that each action balances what it takes and what it adds.               *)
(***************************************************************************)
EXTENDS Pipeline, ListProofs, FiniteSetTheorems, FunctionTheorems, TLAPS

Serving(s) == {r \in Requests : ServedBy(r) = s /\ outcome[r] = "open"}

\* The requests service s ended since it last started, by how they ended.
EndedAs(s, results) == {r \in since : ServedBy(r) = s /\ outcome[r] \in results}

\* The property counts sets that the instruments do not count; these are the ones
\* that they do.
InstrumentsOK ==
  \A s \in Services :
    /\ IsFiniteSet(Serving(s)) /\ depth[s] = Cardinality(Serving(s))
    /\ \A results \in SUBSET Ended : IsFiniteSet(EndedAs(s, results))
    /\ requests[s] = Cardinality(EndedAs(s, Answered))
    /\ errors[s] = Cardinality(EndedAs(s, {"failed", "raised"}))

RequestsOK ==
  /\ outcome \in [Requests \cup Foreign -> Outcomes]
  /\ since \subseteq Requests
  /\ \A r \in since : outcome[r] \in Ended /\ (outcome[r] = "raised" => r \notin Probes)
  /\ depth \in [Services -> Nat] /\ requests \in [Services -> Nat] /\ errors \in [Services -> Nat]

CountsOK == RequestsOK /\ InstrumentsOK

USE DEF Answered, Ended, Outcomes, Spans

------------------------------------------------------------------------------
LEMMA DisjointSum ==
  ASSUME NEW S, IsFiniteSet(S), NEW T, IsFiniteSet(T), S \cap T = {}
  PROVE  Cardinality(S \cup T) = Cardinality(S) + Cardinality(T)
<1>1. Cardinality(S \cup T) = Cardinality(S) + Cardinality(T) - Cardinality(S \cap T)
  BY FS_Union
<1>2. Cardinality(S) \in Nat /\ Cardinality(T) \in Nat /\ Cardinality(S \cap T) = 0
  BY FS_CardinalityType, FS_EmptySet
<1> QED BY <1>1, <1>2

LEMMA CountsInit == Init => CountsOK
<1> SUFFICES ASSUME Init PROVE CountsOK
  OBVIOUS
<1>1. RequestsOK
  BY DEF Init, RequestsOK
<1>2. ASSUME NEW s \in Services
      PROVE  Serving(s) = {} /\ \A results \in SUBSET Ended : EndedAs(s, results) = {}
  BY DEF Init, Serving, EndedAs
<1>3. InstrumentsOK
  BY <1>2, FS_EmptySet DEF Init, InstrumentsOK
<1> QED BY <1>1, <1>3 DEF CountsOK

\* A step that is none of the middleware's.
LEMMA NotMiddleware ==
  ASSUME CountsOK, UNCHANGED <<outcome, instruments>>
  PROVE  CountsOK'
<1>1. RequestsOK'
  BY DEF CountsOK, RequestsOK, instruments
<1>2. \A s \in Services : Serving(s)' = Serving(s)
  BY DEF Serving, instruments
<1>3. \A s \in Services : \A results \in SUBSET Ended : EndedAs(s, results)' = EndedAs(s, results)
  BY DEF EndedAs, instruments
<1>4. InstrumentsOK'
  BY <1>2, <1>3 DEF CountsOK, InstrumentsOK, instruments
<1> QED BY <1>1, <1>4 DEF CountsOK

\* A foreign span is no request.
LEMMA ForeignSteps ==
  ASSUME CountsOK, NEW x \in Foreign, ForeignExport(x)
  PROVE  CountsOK'
<1>1. x \notin Requests /\ UNCHANGED instruments /\ outcome' = [outcome EXCEPT ![x] = "ok"]
  BY PipelineAssumption DEF ForeignExport
<1>2. RequestsOK'
  BY <1>1 DEF CountsOK, RequestsOK, instruments
<1>3. \A r \in Requests : outcome'[r] = outcome[r]
  BY <1>1 DEF CountsOK, RequestsOK
<1>4. \A s \in Services : Serving(s)' = Serving(s)
  BY <1>3 DEF Serving
<1>5. \A s \in Services : \A results \in SUBSET Ended : EndedAs(s, results)' = EndedAs(s, results)
  BY <1>1, <1>3 DEF EndedAs, instruments, CountsOK, RequestsOK
<1>6. InstrumentsOK'
  BY <1>1, <1>4, <1>5 DEF CountsOK, InstrumentsOK, instruments
<1> QED BY <1>2, <1>6 DEF CountsOK

LEMMA ArriveCounts ==
  ASSUME CountsOK, NEW r \in Requests, Arrive(r)
  PROVE  CountsOK'
<1>1. /\ outcome[r] = "new" /\ outcome' = [outcome EXCEPT ![r] = "open"]
      /\ depth' = [depth EXCEPT ![ServedBy(r)] = @ + 1]
      /\ UNCHANGED <<requests, errors, since>>
      /\ ServedBy(r) \in Services /\ r \notin since
  BY PipelineAssumption DEF Arrive, CountsOK, RequestsOK
<1>2. RequestsOK'
  BY <1>1 DEF CountsOK, RequestsOK
<1>3. ASSUME NEW s \in Services
      PROVE  IsFiniteSet(Serving(s))' /\ depth'[s] = Cardinality(Serving(s))'
  <2>1. IsFiniteSet(Serving(s)) /\ depth[s] = Cardinality(Serving(s))
    BY DEF CountsOK, InstrumentsOK
  <2>2. CASE s = ServedBy(r)
    <3>1. Serving(s)' = Serving(s) \cup {r} /\ r \notin Serving(s)
      BY <1>1, <2>2 DEF Serving, CountsOK, RequestsOK
    <3>2. depth'[s] = depth[s] + 1
      BY <1>1, <2>2 DEF CountsOK, RequestsOK
    <3> QED BY <2>1, <3>1, <3>2, FS_AddElement
  <2>3. CASE s # ServedBy(r)
    <3>1. Serving(s)' = Serving(s) /\ depth'[s] = depth[s]
      BY <1>1, <2>3 DEF Serving, CountsOK, RequestsOK
    <3> QED BY <2>1, <3>1
  <2> QED BY <2>2, <2>3
<1>4. \A s \in Services : \A results \in SUBSET Ended : EndedAs(s, results)' = EndedAs(s, results)
  BY <1>1 DEF EndedAs, CountsOK, RequestsOK
<1>5. InstrumentsOK'
  BY <1>1, <1>3, <1>4 DEF CountsOK, InstrumentsOK
<1> QED BY <1>2, <1>5 DEF CountsOK

\* The request leaves the set depth counts and enters those of its result.
LEMMA EndCounts ==
  ASSUME CountsOK, NEW r \in Requests, NEW result \in Ended, End(r, result)
  PROVE  CountsOK'
<1> DEFINE PlusIf(n, condition) == IF condition THEN n + 1 ELSE n
           here == ServedBy(r)
<1>1. /\ outcome[r] = "open" /\ outcome' = [outcome EXCEPT ![r] = result]
      /\ result = "raised" => r \notin Probes
      /\ since' = since \cup {r} /\ r \notin since
      /\ depth' = [depth EXCEPT ![here] = @ - 1]
      /\ requests' = [requests EXCEPT ![here] = PlusIf(@, result \in Answered)]
      /\ errors' = [errors EXCEPT ![here] = PlusIf(@, result \in {"failed", "raised"})]
      /\ here \in Services
  BY PipelineAssumption DEF End, Counted, Decremented, CountsOK, RequestsOK
<1> HIDE DEF here
<1>a. here = ServedBy(r)
  BY DEF here
<1>2. ASSUME NEW s \in Services
      PROVE  IsFiniteSet(Serving(s))' /\ depth'[s] = Cardinality(Serving(s))' /\ depth'[s] \in Nat
  <2>1. IsFiniteSet(Serving(s)) /\ depth[s] = Cardinality(Serving(s))
    BY DEF CountsOK, InstrumentsOK
  <2>2. CASE s = here
    <3>1. Serving(s)' = Serving(s) \ {r} /\ r \in Serving(s)
      BY <1>1, <1>a, <2>2 DEF Serving, CountsOK, RequestsOK
    <3>2. depth'[s] = depth[s] - 1
      BY <1>1, <2>2 DEF CountsOK, RequestsOK
    <3>3. IsFiniteSet(Serving(s) \ {r}) /\ Cardinality(Serving(s) \ {r}) = Cardinality(Serving(s)) - 1
      BY <2>1, <3>1, FS_RemoveElement
    <3>4. Cardinality(Serving(s) \ {r}) \in Nat
      BY <3>3, FS_CardinalityType
    <3> QED BY <2>1, <3>1, <3>2, <3>3, <3>4
  <2>3. CASE s # here
    <3>1. Serving(s)' = Serving(s) /\ depth'[s] = depth[s] /\ depth[s] \in Nat
      BY <1>1, <1>a, <2>3 DEF Serving, CountsOK, RequestsOK
    <3> QED BY <2>1, <3>1
  <2> QED BY <2>2, <2>3
<1>3. ASSUME NEW s \in Services, NEW results \in SUBSET Ended
      PROVE  /\ IsFiniteSet(EndedAs(s, results))'
             /\ Cardinality(EndedAs(s, results))'
                  = PlusIf(Cardinality(EndedAs(s, results)), s = here /\ result \in results)
  <2>1. IsFiniteSet(EndedAs(s, results))
    BY DEF CountsOK, InstrumentsOK
  <2>2. CASE s = here /\ result \in results
    <3>1. EndedAs(s, results)' = EndedAs(s, results) \cup {r} /\ r \notin EndedAs(s, results)
      BY <1>1, <1>a, <2>2 DEF EndedAs, CountsOK, RequestsOK
    <3> QED BY <2>1, <2>2, <3>1, FS_AddElement
  <2>3. CASE ~(s = here /\ result \in results)
    <3>1. EndedAs(s, results)' = EndedAs(s, results)
      BY <1>1, <1>a, <2>3 DEF EndedAs, CountsOK, RequestsOK
    <3> QED BY <2>1, <2>3, <3>1
  <2> QED BY <2>2, <2>3
<1>4. ASSUME NEW s \in Services
      PROVE  /\ requests'[s] = PlusIf(requests[s], s = here /\ result \in Answered)
             /\ errors'[s] = PlusIf(errors[s], s = here /\ result \in {"failed", "raised"})
  BY <1>1 DEF CountsOK, RequestsOK
<1>5. RequestsOK'
  <2>1. depth' \in [Services -> Nat]
    BY <1>1, <1>2 DEF CountsOK, RequestsOK
  <2>2. requests' \in [Services -> Nat] /\ errors' \in [Services -> Nat]
    BY <1>1 DEF CountsOK, RequestsOK
  <2>3. /\ outcome' \in [Requests \cup Foreign -> Outcomes]
        /\ since' \subseteq Requests
        /\ \A q \in since' : outcome'[q] \in Ended /\ (outcome'[q] = "raised" => q \notin Probes)
    BY <1>1 DEF CountsOK, RequestsOK
  <2> QED BY <2>1, <2>2, <2>3 DEF RequestsOK
<1>6. ASSUME NEW s \in Services
      PROVE  /\ requests'[s] = Cardinality(EndedAs(s, Answered))'
             /\ errors'[s] = Cardinality(EndedAs(s, {"failed", "raised"}))'
  <2>1. /\ requests[s] = Cardinality(EndedAs(s, Answered))
        /\ errors[s] = Cardinality(EndedAs(s, {"failed", "raised"}))
    BY DEF CountsOK, InstrumentsOK
  <2>2. Answered \in SUBSET Ended /\ {"failed", "raised"} \in SUBSET Ended
    OBVIOUS
  <2> HIDE DEF PlusIf, Answered, Ended
  <2> QED BY <1>3, <1>4, <2>1, <2>2
<1>7. InstrumentsOK'
  BY <1>2, <1>3, <1>6 DEF InstrumentsOK
<1> QED BY <1>5, <1>7 DEF CountsOK

LEMMA RestartCounts ==
  ASSUME CountsOK, NEW s \in Services, RestartService(s)
  PROVE  CountsOK'
<1>1. /\ outcome' = [r \in DOMAIN outcome |->
                       IF r \in {q \in Requests : ServedBy(q) = s} /\ outcome[r] = "open"
                       THEN "cut" ELSE outcome[r]]
      /\ since' = {r \in since : ServedBy(r) # s}
      /\ depth' = [depth EXCEPT ![s] = 0]
      /\ requests' = [requests EXCEPT ![s] = 0]
      /\ errors' = [errors EXCEPT ![s] = 0]
  BY DEF RestartService, CountsOK, RequestsOK
<1>2. /\ \A r \in Requests : ServedBy(r) = s => outcome'[r] # "open"
      /\ \A r \in Requests : ServedBy(r) # s => outcome'[r] = outcome[r]
  BY <1>1 DEF CountsOK, RequestsOK
<1>3. RequestsOK'
  <2>1. depth' \in [Services -> Nat] /\ requests' \in [Services -> Nat] /\ errors' \in [Services -> Nat]
    BY <1>1 DEF CountsOK, RequestsOK
  <2>2. /\ outcome' \in [Requests \cup Foreign -> Outcomes]
        /\ since' \subseteq Requests
    BY <1>1 DEF CountsOK, RequestsOK
  <2>3. \A r \in since' : outcome'[r] \in Ended /\ (outcome'[r] = "raised" => r \notin Probes)
    BY <1>1, <1>2 DEF CountsOK, RequestsOK
  <2> QED BY <2>1, <2>2, <2>3 DEF RequestsOK
<1>4. ASSUME NEW t \in Services, t # s
      PROVE  /\ Serving(t)' = Serving(t)
             /\ \A results \in SUBSET Ended : EndedAs(t, results)' = EndedAs(t, results)
             /\ depth'[t] = depth[t] /\ requests'[t] = requests[t] /\ errors'[t] = errors[t]
  <2>1. Serving(t)' = Serving(t)
    BY <1>2, <1>4 DEF Serving
  <2>2. \A results \in SUBSET Ended : EndedAs(t, results)' = EndedAs(t, results)
    BY <1>1, <1>2, <1>4 DEF EndedAs, CountsOK, RequestsOK
  <2> QED BY <1>1, <1>4, <2>1, <2>2 DEF CountsOK, RequestsOK
<1>5. /\ Serving(s)' = {}
      /\ \A results \in SUBSET Ended : EndedAs(s, results)' = {}
      /\ depth'[s] = 0 /\ requests'[s] = 0 /\ errors'[s] = 0
  BY <1>1, <1>2 DEF Serving, EndedAs, CountsOK, RequestsOK
<1>6. InstrumentsOK'
  <2> SUFFICES ASSUME NEW t \in Services
               PROVE  /\ IsFiniteSet(Serving(t))' /\ depth'[t] = Cardinality(Serving(t))'
                      /\ \A results \in SUBSET Ended : IsFiniteSet(EndedAs(t, results))'
                      /\ requests'[t] = Cardinality(EndedAs(t, Answered))'
                      /\ errors'[t] = Cardinality(EndedAs(t, {"failed", "raised"}))'
    BY DEF InstrumentsOK
  <2>1. CASE t = s
    BY <1>5, <2>1, FS_EmptySet
  <2>2. CASE t # s
    BY <1>4, <2>2 DEF CountsOK, InstrumentsOK
  <2> QED BY <2>1, <2>2
<1> QED BY <1>3, <1>6 DEF CountsOK

LEMMA CountsStep ==
  ASSUME CountsOK, [Next]_vars
  PROVE  CountsOK'
<1>1. ASSUME NEW r \in Requests, Arrive(r) PROVE CountsOK'
  BY <1>1, ArriveCounts
<1>2. ASSUME NEW r \in Requests, NEW result \in Ended, End(r, result) PROVE CountsOK'
  BY <1>2, EndCounts
<1>3. ASSUME NEW s \in Services, RestartService(s) PROVE CountsOK'
  BY <1>3, RestartCounts
<1>4. ASSUME NEW x \in Foreign, ForeignExport(x) PROVE CountsOK'
  BY <1>4, ForeignSteps
<1>5. ASSUME NEW s \in Services,
             TakeBatch(s) \/ GiveUpExport(s) \/ \E answered \in BOOLEAN : Export(s, answered)
      PROVE  CountsOK'
  <2>1. UNCHANGED <<outcome, instruments>>
    BY <1>5 DEF TakeBatch, GiveUpExport, Export
  <2> QED BY <2>1, NotMiddleware
<1>6. ASSUME NEW i \in DOMAIN sending, GiveUpBatch(i) \/ \E answered \in BOOLEAN : Post(i, answered)
      PROVE  CountsOK'
  <2>1. UNCHANGED <<outcome, instruments>>
    BY <1>6 DEF GiveUpBatch, Post
  <2> QED BY <2>1, NotMiddleware
<1>7. CASE HandOver \/ RestartCollector \/ RestartDiagnosis \/ UNCHANGED vars
  <2>1. UNCHANGED <<outcome, instruments>>
    BY <1>7 DEF HandOver, RestartCollector, RestartDiagnosis, vars
  <2> QED BY <2>1, NotMiddleware
<1> QED BY <1>1, <1>2, <1>3, <1>4, <1>5, <1>6, <1>7 DEF Next

LEMMA CountsInvariant == Spec => []CountsOK
<1>1. CountsOK /\ [Next]_vars => CountsOK'
  BY CountsStep
<1> QED BY <1>1, CountsInit, PTL DEF Spec

------------------------------------------------------------------------------
\* The queue depth is the number of requests being served, also after injected
\* failures, crashes and restarts (telemetry.py: dispatch decrements it in finally).
THEOREM BacklogTheorem == Spec => []DepthIsBacklog
<1>1. CountsOK => DepthIsBacklog
  BY DEF CountsOK, InstrumentsOK, DepthIsBacklog, Serving
<1> QED BY <1>1, CountsInvariant, PTL

\* The counters differ from the spans by exactly the probes, which have no span, and
\* the injected failures, which are counted as errors only (telemetry.py: dispatch).
THEOREM CountersTheorem == Spec => []CountersExplained
<1>1. ASSUME CountsOK, NEW s \in Services
      PROVE  LET ended  == {r \in since : ServedBy(r) = s}
                 spans  == ended \ Probes
                 raised == {r \in spans : outcome[r] = "raised"}
             IN  /\ requests[s] = Cardinality(spans) + Cardinality(ended \cap Probes) - Cardinality(raised)
                 /\ errors[s] = Cardinality({r \in ended : outcome[r] # "ok"})
  <2> DEFINE ended  == {r \in since : ServedBy(r) = s}
             spans  == ended \ Probes
             probes == ended \cap Probes
             raised == {r \in spans : outcome[r] = "raised"}
             served == EndedAs(s, Answered)
  <2>1. IsFiniteSet(ended)
    <3>1. ended = EndedAs(s, Ended)
      BY <1>1 DEF EndedAs, CountsOK, RequestsOK
    <3> QED BY <1>1, <3>1 DEF CountsOK, InstrumentsOK
  <2>2. ended = spans \cup probes /\ spans \cap probes = {}
    OBVIOUS
  <2>3. ended = served \cup raised /\ served \cap raised = {}
    BY <1>1 DEF EndedAs, CountsOK, RequestsOK
  <2>4. errors[s] = Cardinality({r \in ended : outcome[r] # "ok"})
    <3>1. {r \in ended : outcome[r] # "ok"} = EndedAs(s, {"failed", "raised"})
      BY <1>1 DEF EndedAs, CountsOK, RequestsOK
    <3> QED BY <1>1, <3>1 DEF CountsOK, InstrumentsOK
  <2>5. requests[s] = Cardinality(served)
    BY <1>1 DEF CountsOK, InstrumentsOK
  <2> HIDE DEF ended, spans, probes, raised, served
  <2>6. /\ IsFiniteSet(spans) /\ IsFiniteSet(probes) /\ IsFiniteSet(raised) /\ IsFiniteSet(served)
    BY <2>1, <2>2, <2>3, FS_Subset
  <2>7. Cardinality(ended) = Cardinality(spans) + Cardinality(probes)
    BY <2>2, <2>6, DisjointSum
  <2>8. Cardinality(ended) = Cardinality(served) + Cardinality(raised)
    BY <2>3, <2>6, DisjointSum
  <2>9. /\ Cardinality(spans) \in Nat /\ Cardinality(probes) \in Nat
        /\ Cardinality(raised) \in Nat /\ Cardinality(served) \in Nat
    BY <2>6, FS_CardinalityType
  <2>10. requests[s] = Cardinality(spans) + Cardinality(probes) - Cardinality(raised)
    BY <2>5, <2>7, <2>8, <2>9
  <2> QED BY <2>4, <2>10 DEF ended, spans, probes, raised
<1>2. CountsOK => CountersExplained
  BY <1>1 DEF CountersExplained
<1> QED BY <1>2, CountsInvariant, PTL

------------------------------------------------------------------------------
(* Counting the copies of a span                                           *)

HIDE DEF Answered, Ended, Outcomes, Spans

\* The places of a span in a sequence, and in a family of sequences.
At(e, s)             == {i \in DOMAIN s : s[i] = e}
Places(e, seqs)      == UNION {{k} \X At(e, seqs[k]) : k \in DOMAIN seqs}
Elsewhere(e, seqs, k) == UNION {{j} \X At(e, seqs[j]) : j \in DOMAIN seqs \ {k}}

LEMMA HeldType ==
  ASSUME NEW T, NEW s \in Seq(T), NEW e
  PROVE  /\ IsFiniteSet(At(e, s)) /\ At(e, s) \subseteq Nat
         /\ Held(e, s) = Cardinality(At(e, s)) /\ Held(e, s) \in Nat
<1>1. DOMAIN s = 1..Len(s) /\ Len(s) \in Nat
  OBVIOUS
<1>2. IsFiniteSet(1..Len(s))
  BY <1>1, FS_Interval
<1>3. At(e, s) \in SUBSET (1..Len(s))
  BY <1>1 DEF At
<1>4. IsFiniteSet(At(e, s))
  BY <1>2, <1>3, FS_Subset
<1> QED BY <1>1, <1>3, <1>4, FS_CardinalityType DEF Held, At

LEMMA HeldNothing == \A e : Held(e, <<>>) = 0
<1>1. \A e : At(e, <<>>) = {}
  BY DEF At
<1> QED BY <1>1, FS_EmptySet DEF Held, At

LEMMA HeldOne == \A e, x : Held(e, <<x>>) = IF x = e THEN 1 ELSE 0
<1> SUFFICES ASSUME NEW e, NEW x PROVE Held(e, <<x>>) = IF x = e THEN 1 ELSE 0
  OBVIOUS
<1>1. At(e, <<x>>) = IF x = e THEN {1} ELSE {}
  BY DEF At
<1>2. Held(e, <<x>>) = Cardinality(At(e, <<x>>))
  BY DEF Held, At
<1> QED BY <1>1, <1>2, FS_EmptySet, FS_Singleton

Shift(S, n) == {i + n : i \in S}

LEMMA Shifted ==
  ASSUME NEW S \in SUBSET Int, IsFiniteSet(S), NEW n \in Int
  PROVE  IsFiniteSet(Shift(S, n)) /\ Cardinality(Shift(S, n)) = Cardinality(S)
<1> DEFINE shifted == {i + n : i \in S}
           f == [i \in S |-> i + n]
<1>1. f \in [S -> shifted]
  OBVIOUS
<1>2. IsInjective(f)
  BY DEF IsInjective
<1>3. \A y \in shifted : \E i \in S : f[i] = y
  OBVIOUS
<1>4. f \in Bijection(S, shifted)
  BY <1>1, <1>2, <1>3 DEF Bijection, Injection, Surjection
<1> QED BY <1>4, FS_Bijection DEF ExistsBijection, Shift

LEMMA HeldConcat ==
  ASSUME NEW T, NEW s \in Seq(T), NEW t \in Seq(T), NEW e
  PROVE  Held(e, s \o t) = Held(e, s) + Held(e, t)
<1> DEFINE later == Shift(At(e, t), Len(s))
<1>1. Len(s) \in Nat /\ Len(t) \in Nat /\ DOMAIN s = 1..Len(s) /\ DOMAIN t = 1..Len(t)
  OBVIOUS
<1>2. /\ s \o t \in Seq(T) /\ DOMAIN (s \o t) = 1..(Len(s) + Len(t))
      /\ \A i \in 1..(Len(s) + Len(t)) : (s \o t)[i] = IF i <= Len(s) THEN s[i] ELSE t[i - Len(s)]
  BY <1>1, ConcatProperties, LenProperties
<1> DEFINE all == s \o t
<1> HIDE DEF all
<1>3. At(e, all) = At(e, s) \cup later
  <2>1. ASSUME NEW i \in At(e, all) PROVE i \in At(e, s) \cup later
    <3>1. i \in 1..(Len(s) + Len(t)) /\ (IF i <= Len(s) THEN s[i] ELSE t[i - Len(s)]) = e
      BY <1>2, <2>1 DEF At, all
    <3>2. CASE i <= Len(s)
      BY <1>1, <3>1, <3>2 DEF At
    <3>3. CASE ~(i <= Len(s))
      <4>1. i - Len(s) \in At(e, t) /\ i = (i - Len(s)) + Len(s)
        BY <1>1, <3>1, <3>3 DEF At
      <4> QED BY <4>1 DEF Shift
    <3> QED BY <3>2, <3>3
  <2>2. ASSUME NEW i \in At(e, s) PROVE i \in At(e, all)
    BY <1>1, <1>2, <2>2 DEF At, all
  <2>3. ASSUME NEW i \in At(e, t) PROVE i + Len(s) \in At(e, all)
    <3>1. i \in 1..Len(t) /\ t[i] = e
      BY <1>1, <2>3 DEF At
    <3>2. i + Len(s) \in 1..(Len(s) + Len(t)) /\ ~(i + Len(s) <= Len(s)) /\ (i + Len(s)) - Len(s) = i
      BY <1>1, <3>1
    <3> QED BY <1>2, <3>1, <3>2 DEF At, all
  <2> QED BY <2>1, <2>2, <2>3 DEF Shift
<1>4. At(e, s) \cap later = {}
  BY <1>1 DEF At, Shift
<1>5. IsFiniteSet(later) /\ Cardinality(later) = Cardinality(At(e, t))
  <2>1. At(e, t) \in SUBSET Int /\ IsFiniteSet(At(e, t))
    BY HeldType
  <2> QED BY <1>1, <2>1, Shifted
<1>6. IsFiniteSet(At(e, s))
  BY HeldType
<1> HIDE DEF later
<1>7. Cardinality(At(e, all)) = Cardinality(At(e, s)) + Cardinality(later)
  BY <1>3, <1>4, <1>5, <1>6, DisjointSum
<1>8. /\ Held(e, s) = Cardinality(At(e, s)) /\ Held(e, t) = Cardinality(At(e, t))
      /\ Held(e, all) = Cardinality(At(e, all))
  BY DEF Held, At
<1> QED BY <1>5, <1>7, <1>8 DEF all

LEMMA HeldSplit ==
  ASSUME NEW T, NEW s \in Seq(T), NEW n \in 0..Len(s), NEW e
  PROVE  /\ SubSeq(s, 1, n) \in Seq(T) /\ SubSeq(s, n + 1, Len(s)) \in Seq(T)
         /\ Len(SubSeq(s, 1, n)) = n
         /\ Held(e, SubSeq(s, 1, n)) + Held(e, SubSeq(s, n + 1, Len(s))) = Held(e, s)
<1>1. Len(s) \in Nat
  OBVIOUS
<1>2. \A i \in 1..Len(s) : s[i] \in T
  BY ElementOfSeq
<1>3. SubSeq(s, 1, n) \in Seq(T) /\ Len(SubSeq(s, 1, n)) = n
  BY <1>1, <1>2, SubSeqProperties
<1>4. SubSeq(s, n + 1, Len(s)) \in Seq(T)
  BY <1>1, <1>2, SubSeqProperties
<1>5. SubSeq(s, 1, n) \o SubSeq(s, n + 1, Len(s)) = SubSeq(s, 1, Len(s))
  <2>1. 1 \in 1..Len(s) + 1 /\ n \in 1 - 1..Len(s) /\ Len(s) \in n..Len(s)
    BY <1>1
  <2> QED BY <2>1, ConcatAdjacentSubSeq
<1>6. SubSeq(s, 1, Len(s)) = s
  BY SubSeqFull
<1>7. Held(e, SubSeq(s, 1, n) \o SubSeq(s, n + 1, Len(s)))
        = Held(e, SubSeq(s, 1, n)) + Held(e, SubSeq(s, n + 1, Len(s)))
  BY <1>3, <1>4, HeldConcat
<1> QED BY <1>3, <1>4, <1>5, <1>6, <1>7

\* What a family of sequences holds is what one of them does and what the others do.
LEMMA PlacesPart ==
  ASSUME NEW seqs, NEW k \in DOMAIN seqs, NEW e, IsFiniteSet(At(e, seqs[k]))
  PROVE  /\ IsFiniteSet(Places(e, seqs)) <=> IsFiniteSet(Elsewhere(e, seqs, k))
         /\ IsFiniteSet(Places(e, seqs)) =>
              Cardinality(Places(e, seqs))
                = Cardinality(Elsewhere(e, seqs, k)) + Cardinality(At(e, seqs[k]))
<1> DEFINE here == At(e, seqs[k])
           column == {k} \X here
           f == [i \in here |-> <<k, i>>]
           others == Elsewhere(e, seqs, k)
<1>1. IsFiniteSet(column) /\ Cardinality(column) = Cardinality(here)
  <2>1. f \in [here -> column] /\ IsInjective(f) /\ \A y \in column : \E i \in here : f[i] = y
    BY DEF IsInjective
  <2>2. f \in Bijection(here, column)
    BY <2>1 DEF Bijection, Injection, Surjection
  <2> QED BY <2>2, FS_Bijection DEF ExistsBijection
<1>2. Places(e, seqs) = others \cup column /\ others \cap column = {}
  BY DEF Places, Elsewhere
<1> HIDE DEF here, column, f, others
<1>3. IsFiniteSet(Places(e, seqs)) <=> IsFiniteSet(others)
  <2>1. IsFiniteSet(others) => IsFiniteSet(Places(e, seqs))
    BY <1>1, <1>2, FS_Union
  <2>2. IsFiniteSet(Places(e, seqs)) => IsFiniteSet(others)
    BY <1>2, FS_Subset
  <2> QED BY <2>1, <2>2
<1>4. IsFiniteSet(others) => Cardinality(Places(e, seqs)) = Cardinality(others) + Cardinality(here)
  BY <1>1, <1>2, DisjointSum
<1> QED BY <1>3, <1>4 DEF here, others

LEMMA PlacesNothing ==
  ASSUME NEW seqs, NEW e, \A k \in DOMAIN seqs : seqs[k] = <<>>
  PROVE  IsFiniteSet(Places(e, seqs)) /\ HeldIn(e, seqs) = 0
<1>1. Places(e, seqs) = {}
  BY DEF Places, At
<1>2. HeldIn(e, seqs) = Cardinality(Places(e, seqs))
  BY DEF HeldIn, Places, At
<1> QED BY <1>1, <1>2, FS_EmptySet

LEMMA PlacesReplaced ==
  ASSUME NEW seqs \in [Services -> Seq(Requests)], NEW after \in [Services -> Seq(Requests)],
         NEW k \in Services, \A j \in Services \ {k} : after[j] = seqs[j],
         NEW e, IsFiniteSet(Places(e, seqs))
  PROVE  /\ IsFiniteSet(Places(e, after))
         /\ HeldIn(e, after) + Held(e, seqs[k]) = HeldIn(e, seqs) + Held(e, after[k])
<1>1. k \in DOMAIN seqs /\ k \in DOMAIN after /\ seqs[k] \in Seq(Requests) /\ after[k] \in Seq(Requests)
  OBVIOUS
<1>2. Elsewhere(e, after, k) = Elsewhere(e, seqs, k)
  BY DEF Elsewhere
<1>3. /\ IsFiniteSet(At(e, seqs[k])) /\ IsFiniteSet(At(e, after[k]))
      /\ Held(e, seqs[k]) = Cardinality(At(e, seqs[k])) /\ Held(e, after[k]) = Cardinality(At(e, after[k]))
      /\ Held(e, seqs[k]) \in Nat /\ Held(e, after[k]) \in Nat
  BY <1>1, HeldType
<1>4. /\ IsFiniteSet(Elsewhere(e, seqs, k))
      /\ Cardinality(Places(e, seqs)) = Cardinality(Elsewhere(e, seqs, k)) + Held(e, seqs[k])
  BY <1>1, <1>3, PlacesPart
<1>5. /\ IsFiniteSet(Places(e, after))
      /\ Cardinality(Places(e, after)) = Cardinality(Elsewhere(e, seqs, k)) + Held(e, after[k])
  BY <1>1, <1>2, <1>3, <1>4, PlacesPart
<1>6. /\ HeldIn(e, seqs) = Cardinality(Places(e, seqs))
      /\ HeldIn(e, after) = Cardinality(Places(e, after))
  BY DEF HeldIn, Places, At
<1>7. Cardinality(Elsewhere(e, seqs, k)) \in Nat
  BY <1>4, FS_CardinalityType
<1> QED BY <1>3, <1>4, <1>5, <1>6, <1>7

LEMMA PlacesAppended ==
  ASSUME NEW T, NEW seqs \in Seq(Seq(T)), NEW t \in Seq(T), NEW e, IsFiniteSet(Places(e, seqs))
  PROVE  /\ IsFiniteSet(Places(e, Append(seqs, t)))
         /\ HeldIn(e, Append(seqs, t)) = HeldIn(e, seqs) + Held(e, t)
<1> DEFINE after == Append(seqs, t)
           last  == Len(seqs) + 1
<1>1. /\ DOMAIN seqs = 1..Len(seqs) /\ Len(seqs) \in Nat
      /\ DOMAIN after = 1..last /\ after[last] = t
      /\ \A k \in 1..Len(seqs) : after[k] = seqs[k]
  OBVIOUS
<1>2. Elsewhere(e, after, last) = Places(e, seqs)
  <2>1. DOMAIN after \ {last} = DOMAIN seqs
    BY <1>1
  <2> HIDE DEF after, last
  <2> QED BY <1>1, <2>1 DEF Elsewhere, Places
<1> HIDE DEF after
<1>3. IsFiniteSet(At(e, t)) /\ Held(e, t) = Cardinality(At(e, t)) /\ last \in DOMAIN after
  BY <1>1, HeldType
<1> HIDE DEF last
<1>4. /\ IsFiniteSet(Places(e, after))
      /\ Cardinality(Places(e, after)) = Cardinality(Places(e, seqs)) + Held(e, t)
  BY <1>1, <1>2, <1>3, PlacesPart
<1>5. /\ HeldIn(e, seqs) = Cardinality(Places(e, seqs))
      /\ HeldIn(e, after) = Cardinality(Places(e, after))
  BY DEF HeldIn, Places, At
<1> QED BY <1>4, <1>5 DEF after

\* The place in a sequence of what stands at k once the element at i is removed.
Behind(i, k) == IF k < i THEN k ELSE k + 1

LEMMA RemovedType ==
  ASSUME NEW T, NEW s \in Seq(T), NEW i \in DOMAIN s
  PROVE  /\ RemoveAt(s, i) \in Seq(T) /\ Len(RemoveAt(s, i)) = Len(s) - 1
         /\ \A k \in 1..(Len(s) - 1) : RemoveAt(s, i)[k] = s[Behind(i, k)]
<1> DEFINE front == SubSeq(s, 1, i - 1)
           back  == SubSeq(s, i + 1, Len(s))
<1>1. Len(s) \in Nat /\ i \in 1..Len(s) /\ \A k \in 1..Len(s) : s[k] \in T
  OBVIOUS
<1>2. /\ front \in Seq(T) /\ Len(front) = i - 1
      /\ \A k \in 1..(i - 1) : front[k] = s[k]
  BY <1>1, SubSeqProperties
<1>3. /\ back \in Seq(T) /\ Len(back) = Len(s) - i
      /\ \A k \in 1..(Len(s) - i) : back[k] = s[i + k]
  <2>1. /\ back \in Seq(T) /\ Len(back) = IF i + 1 <= Len(s) THEN Len(s) - (i + 1) + 1 ELSE 0
        /\ \A k \in 1..(Len(s) - (i + 1) + 1) : back[k] = s[(i + 1) + k - 1]
    BY <1>1, SubSeqProperties
  <2> HIDE DEF back
  <2>2. Len(back) = Len(s) - i
    BY <1>1, <2>1
  <2>3. ASSUME NEW k \in 1..(Len(s) - i) PROVE back[k] = s[i + k]
    <3>1. k \in 1..(Len(s) - (i + 1) + 1) /\ (i + 1) + k - 1 = i + k
      BY <1>1
    <3> QED BY <2>1, <3>1
  <2> QED BY <2>1, <2>2, <2>3
<1> HIDE DEF front, back
<1>4. /\ front \o back \in Seq(T) /\ Len(front \o back) = Len(s) - 1
      /\ \A k \in 1..(Len(s) - 1) : (front \o back)[k] = IF k <= i - 1 THEN front[k] ELSE back[k - (i - 1)]
  <2>1. (i - 1) + (Len(s) - i) = Len(s) - 1
    BY <1>1
  <2>2. /\ front \o back \in Seq(T) /\ Len(front \o back) = Len(front) + Len(back)
        /\ \A k \in 1..(Len(front) + Len(back)) :
             (front \o back)[k] = IF k <= Len(front) THEN front[k] ELSE back[k - Len(front)]
    BY <1>2, <1>3, ConcatProperties
  <2> QED BY <1>2, <1>3, <2>1, <2>2
<1>5. ASSUME NEW k \in 1..(Len(s) - 1) PROVE (front \o back)[k] = s[Behind(i, k)]
  <2>1. CASE k < i
    BY <1>1, <1>2, <1>4, <2>1 DEF Behind
  <2>2. CASE ~(k < i)
    <3>1. k - (i - 1) \in 1..(Len(s) - i) /\ i + (k - (i - 1)) = k + 1 /\ ~(k <= i - 1)
      BY <1>1, <2>2
    <3> QED BY <1>3, <1>4, <2>2, <3>1 DEF Behind
  <2> QED BY <2>1, <2>2
<1> QED BY <1>4, <1>5 DEF RemoveAt, front, back

LEMMA PlacesRemoved ==
  ASSUME NEW T, NEW seqs \in Seq(Seq(T)), NEW i \in DOMAIN seqs, NEW e, IsFiniteSet(Places(e, seqs))
  PROVE  /\ IsFiniteSet(Places(e, RemoveAt(seqs, i)))
         /\ HeldIn(e, RemoveAt(seqs, i)) + Held(e, seqs[i]) = HeldIn(e, seqs)
<1> DEFINE after  == RemoveAt(seqs, i)
           n      == Len(seqs)
           others == Elsewhere(e, seqs, i)
           f      == [p \in Places(e, after) |-> <<Behind(i, p[1]), p[2]>>]
<1>1. /\ n \in Nat /\ i \in 1..n /\ DOMAIN seqs = 1..n /\ seqs[i] \in Seq(T)
  OBVIOUS
<1>2. /\ after \in Seq(Seq(T)) /\ DOMAIN after = 1..(n - 1)
      /\ \A k \in 1..(n - 1) : after[k] = seqs[Behind(i, k)]
  <2>1. /\ after \in Seq(Seq(T)) /\ Len(after) = n - 1
        /\ \A k \in 1..(n - 1) : after[k] = seqs[Behind(i, k)]
    BY RemovedType
  <2> HIDE DEF after, n
  <2> QED BY <2>1, LenProperties
<1> HIDE DEF after, n
<1>3. /\ \A k \in 1..(n - 1) : Behind(i, k) \in (1..n) \ {i}
      /\ \A k, l \in 1..(n - 1) : Behind(i, k) = Behind(i, l) => k = l
      /\ \A j \in (1..n) \ {i} : \E k \in 1..(n - 1) : Behind(i, k) = j
  <2>1. ASSUME NEW k \in 1..(n - 1) PROVE Behind(i, k) \in (1..n) \ {i}
    BY <1>1 DEF Behind
  <2>2. ASSUME NEW k \in 1..(n - 1), NEW l \in 1..(n - 1), Behind(i, k) = Behind(i, l) PROVE k = l
    BY <1>1, <2>2 DEF Behind
  <2>3. ASSUME NEW j \in (1..n) \ {i} PROVE \E k \in 1..(n - 1) : Behind(i, k) = j
    <3>1. CASE j < i
      <4>1. j \in 1..(n - 1) /\ Behind(i, j) = j
        BY <1>1, <3>1 DEF Behind
      <4> QED BY <4>1
    <3>2. CASE ~(j < i)
      <4>1. j - 1 \in 1..(n - 1) /\ Behind(i, j - 1) = j
        BY <1>1, <3>2 DEF Behind
      <4> QED BY <4>1
    <3> QED BY <3>1, <3>2
  <2> QED BY <2>1, <2>2, <2>3
<1>4. /\ Places(e, after) = {p \in (1..(n - 1)) \X Nat : p[2] \in At(e, seqs[Behind(i, p[1])])}
      /\ others = {p \in ((1..n) \ {i}) \X Nat : p[2] \in At(e, seqs[p[1]])}
  <2>1. \A k \in 1..n : At(e, seqs[k]) \subseteq Nat
    BY <1>1, HeldType
  <2>2. \A k \in 1..(n - 1) : At(e, after[k]) = At(e, seqs[Behind(i, k)])
    BY <1>2
  <2>3. Places(e, after) = {p \in (1..(n - 1)) \X Nat : p[2] \in At(e, seqs[Behind(i, p[1])])}
    BY <1>2, <1>3, <2>1, <2>2 DEF Places
  <2>4. others = {p \in ((1..n) \ {i}) \X Nat : p[2] \in At(e, seqs[p[1]])}
    BY <1>1, <2>1 DEF Elsewhere
  <2> QED BY <2>3, <2>4
<1> HIDE DEF others
<1>5. f \in Bijection(Places(e, after), others)
  <2>1. \A p \in Places(e, after) : p = <<p[1], p[2]>> /\ p[1] \in 1..(n - 1) /\ p[2] \in Nat
    BY <1>4
  <2>2. f \in [Places(e, after) -> others]
    <3> SUFFICES ASSUME NEW p \in Places(e, after) PROVE <<Behind(i, p[1]), p[2]>> \in others
      OBVIOUS
    <3> QED BY <1>3, <1>4, <2>1
  <2>3. IsInjective(f)
    <3> SUFFICES ASSUME NEW p \in Places(e, after), NEW q \in Places(e, after),
                        <<Behind(i, p[1]), p[2]>> = <<Behind(i, q[1]), q[2]>>
                 PROVE  p = q
      BY DEF IsInjective
    <3>1. p[1] = q[1] /\ p[2] = q[2]
      BY <1>3, <2>1
    <3> QED BY <2>1, <3>1
  <2>4. ASSUME NEW q \in others PROVE \E p \in Places(e, after) : f[p] = q
    <3>1. q = <<q[1], q[2]>> /\ q[1] \in (1..n) \ {i} /\ q[2] \in Nat /\ q[2] \in At(e, seqs[q[1]])
      BY <1>4
    <3>2. PICK k \in 1..(n - 1) : Behind(i, k) = q[1]
      BY <1>3, <3>1
    <3>3. <<k, q[2]>> \in Places(e, after)
      BY <1>4, <3>1, <3>2
    <3>4. f[<<k, q[2]>>] = q
      BY <3>1, <3>2, <3>3
    <3> QED BY <3>3, <3>4
  <2> QED BY <2>2, <2>3, <2>4 DEF Bijection, Injection, Surjection
<1>6. IsFiniteSet(At(e, seqs[i])) /\ Held(e, seqs[i]) = Cardinality(At(e, seqs[i]))
  BY <1>1, HeldType
<1>7. IsFiniteSet(others) /\ Cardinality(Places(e, seqs)) = Cardinality(others) + Held(e, seqs[i])
  BY <1>1, <1>6, PlacesPart DEF others
<1>8. IsFiniteSet(Places(e, after)) /\ Cardinality(Places(e, after)) = Cardinality(others)
  <2>1. ExistsBijection(Places(e, after), others)
    BY <1>5 DEF ExistsBijection
  <2>2. ExistsBijection(others, Places(e, after))
    BY <2>1, Fun_ExistsBijSymmetric
  <2> QED BY <1>7, <2>2, FS_Bijection
<1>9. /\ HeldIn(e, seqs) = Cardinality(Places(e, seqs))
      /\ HeldIn(e, after) = Cardinality(Places(e, after))
  BY DEF HeldIn, Places, At
<1> QED BY <1>7, <1>8, <1>9 DEF after

\* A queue that keeps the last spans, and an export that takes the first ones, split
\* the queue in two.
LEMMA NewestSplit ==
  ASSUME NEW T, NEW s \in Seq(T), NEW n \in Nat, n > 0, NEW e
  PROVE  /\ FirstOf(Len(s) - Len(LastOf(n, s)), s) \in Seq(T)
         /\ Held(e, FirstOf(Len(s) - Len(LastOf(n, s)), s)) + Held(e, LastOf(n, s)) = Held(e, s)
<1> DEFINE k == IF n < Len(s) THEN Len(s) - n ELSE 0
<1>1. Len(s) \in Nat /\ k \in 0..Len(s)
  OBVIOUS
<1>2. LastOf(n, s) = SubSeq(s, k + 1, Len(s))
  BY <1>1 DEF LastOf
<1>3. Len(LastOf(n, s)) = Len(s) - k
  <2>1. CASE n < Len(s)
    BY <1>1, <2>1, LastOfLong
  <2>2. CASE ~(n < Len(s))
    BY <1>1, <2>2, LastOfShort
  <2> QED BY <2>1, <2>2
<1> HIDE DEF k
<1>4. FirstOf(Len(s) - Len(LastOf(n, s)), s) = SubSeq(s, 1, k)
  <2>1. Len(s) - Len(LastOf(n, s)) = k /\ (IF k < Len(s) THEN k ELSE Len(s)) = k
    BY <1>1, <1>3
  <2> QED BY <2>1 DEF FirstOf
<1> QED BY <1>1, <1>2, <1>4, HeldSplit

LEMMA FirstSplit ==
  ASSUME NEW T, NEW s \in Seq(T), NEW n \in Nat, n > 0, NEW e
  PROVE  /\ FirstOf(n, s) \in Seq(T) /\ Len(FirstOf(n, s)) <= n
         /\ SubSeq(s, Len(FirstOf(n, s)) + 1, Len(s)) \in Seq(T)
         /\ Len(SubSeq(s, Len(FirstOf(n, s)) + 1, Len(s))) <= Len(s)
         /\ Held(e, FirstOf(n, s)) + Held(e, SubSeq(s, Len(FirstOf(n, s)) + 1, Len(s))) = Held(e, s)
<1> DEFINE k == IF n < Len(s) THEN n ELSE Len(s)
<1>1. Len(s) \in Nat /\ k \in 0..Len(s) /\ k <= n
  OBVIOUS
<1>2. FirstOf(n, s) = SubSeq(s, 1, k)
  BY DEF FirstOf
<1> HIDE DEF k
<1>3. /\ SubSeq(s, 1, k) \in Seq(T) /\ SubSeq(s, k + 1, Len(s)) \in Seq(T)
      /\ Len(SubSeq(s, 1, k)) = k
      /\ Held(e, SubSeq(s, 1, k)) + Held(e, SubSeq(s, k + 1, Len(s))) = Held(e, s)
  BY <1>1, HeldSplit
<1>4. Len(SubSeq(s, k + 1, Len(s))) <= Len(s)
  <2>1. \A i \in (k + 1)..Len(s) : s[i] \in T
    BY <1>1
  <2>2. Len(SubSeq(s, k + 1, Len(s))) = IF k + 1 <= Len(s) THEN Len(s) - (k + 1) + 1 ELSE 0
    BY <1>1, <2>1, SubSeqProperties
  <2> QED BY <1>1, <2>2
<1> QED BY <1>1, <1>2, <1>3, <1>4

LEMMA Adding ==
  ASSUME NEW T, NEW copies \in [Spans -> Nat], NEW s \in Seq(T)
  PROVE  /\ Plus(copies, s) \in [Spans -> Nat]
         /\ \A e \in Spans : Plus(copies, s)[e] = copies[e] + Held(e, s)
<1>1. \A e \in Spans : Held(e, s) \in Nat
  BY HeldType
<1> QED BY <1>1 DEF Plus

------------------------------------------------------------------------------
(* The invariant: where the copies of every span are                       *)

SpanTypes ==
  /\ queue \in [Services -> Seq(Requests)] /\ exporting \in [Services -> Seq(Requests)]
  /\ \A s \in Services : Len(queue[s]) <= QueueSize /\ Len(exporting[s]) <= ExportSize
  /\ buffer \in Seq(Spans) /\ sending \in Seq(Seq(Spans)) /\ Len(sending) <= SendingQueue
  /\ accepted \in Seq(Spans) /\ items \in Seq(Spans) /\ Len(items) <= MaxItems
  /\ lost \in [Spans -> Nat] /\ repeated \in [Spans -> Nat]

\* The families are finite sets of places, although nothing bounds the services.
PlacesOK ==
  \A e \in Spans : /\ IsFiniteSet(Places(e, queue)) /\ IsFiniteSet(Places(e, exporting))
                   /\ IsFiniteSet(Places(e, sending))

Due(e) == IF outcome[e] \in Ended /\ e \notin Probes THEN 1 ELSE 0

Accounted ==
  \A e \in Spans :
    HeldIn(e, queue) + HeldIn(e, exporting) + Held(e, buffer) + HeldIn(e, sending)
      + Held(e, accepted) + lost[e] = repeated[e] + Due(e)

CopiesOK == SpanTypes /\ PlacesOK /\ Accounted

LEMMA HeldInType ==
  ASSUME NEW seqs, NEW e, IsFiniteSet(Places(e, seqs))
  PROVE  HeldIn(e, seqs) \in Nat
<1>1. HeldIn(e, seqs) = Cardinality(Places(e, seqs))
  BY DEF HeldIn, Places, At
<1> QED BY <1>1, FS_CardinalityType

LEMMA CopyTypes ==
  ASSUME CopiesOK, NEW e \in Spans
  PROVE  /\ HeldIn(e, queue) \in Nat /\ HeldIn(e, exporting) \in Nat
         /\ Held(e, buffer) \in Nat /\ HeldIn(e, sending) \in Nat
         /\ Held(e, accepted) \in Nat /\ lost[e] \in Nat /\ repeated[e] \in Nat
<1>1. HeldIn(e, queue) \in Nat /\ HeldIn(e, exporting) \in Nat /\ HeldIn(e, sending) \in Nat
  BY HeldInType DEF CopiesOK, PlacesOK
<1>2. Held(e, buffer) \in Nat /\ Held(e, accepted) \in Nat
  BY HeldType DEF CopiesOK, SpanTypes
<1> QED BY <1>1, <1>2 DEF CopiesOK, SpanTypes

LEMMA Wider == \A s \in Seq(Requests) : s \in Seq(Spans)
<1>1. Requests \subseteq Spans
  BY DEF Spans
<1> QED BY <1>1, SeqMonotonic

LEMMA PositiveSizes ==
  /\ QueueSize \in Nat /\ QueueSize > 0 /\ ExportSize \in Nat /\ ExportSize > 0
  /\ SendingQueue \in Nat /\ MaxItems \in Nat /\ MaxItems > 0
BY PipelineAssumption, MaxItemsAssumption

LEMMA CopiesInit == Init => CopiesOK
<1> SUFFICES ASSUME Init PROVE CopiesOK
  OBVIOUS
<1>1. SpanTypes
  <2>1. \A T : <<>> \in Seq(T) /\ Len(<<>>) = 0
    OBVIOUS
  <2> QED BY <2>1, PositiveSizes DEF Init, StoreInit, SpanTypes
<1>2. ASSUME NEW e \in Spans
      PROVE  /\ IsFiniteSet(Places(e, queue)) /\ HeldIn(e, queue) = 0
             /\ IsFiniteSet(Places(e, exporting)) /\ HeldIn(e, exporting) = 0
             /\ IsFiniteSet(Places(e, sending)) /\ HeldIn(e, sending) = 0
  BY PlacesNothing DEF Init
<1>3. ASSUME NEW e \in Spans PROVE Due(e) = 0
  BY DEF Init, Due, Ended, Answered
<1>4. Accounted
  BY <1>2, <1>3, HeldNothing DEF Init, StoreInit, Accounted
<1> QED BY <1>1, <1>2, <1>4 DEF CopiesOK, PlacesOK

\* A step that moves no span.
LEMMA NothingMoves ==
  ASSUME CopiesOK, UNCHANGED <<storeVars, queue, exporting, buffer, sending, lost, repeated>>,
         \A e \in Spans : Due(e)' = Due(e)
  PROVE  CopiesOK'
<1>1. SpanTypes' /\ PlacesOK'
  BY DEF CopiesOK, SpanTypes, PlacesOK, storeVars
<1>2. Accounted'
  BY DEF CopiesOK, Accounted, storeVars
<1> QED BY <1>1, <1>2 DEF CopiesOK

LEMMA ArriveCopies ==
  ASSUME CountsOK, CopiesOK, NEW r \in Requests, Arrive(r)
  PROVE  CopiesOK'
<1>1. \A e \in Spans : Due(e)' = Due(e)
  BY DEF Arrive, Due, CountsOK, RequestsOK, Spans, Ended, Answered
<1> QED BY <1>1, NothingMoves DEF Arrive, history, collectorVars

\* The span of a request that ends is appended to a full queue or one with room;
\* a probe has none.
LEMMA EndCopies ==
  ASSUME CountsOK, CopiesOK, NEW r \in Requests, NEW result \in Ended, End(r, result)
  PROVE  CopiesOK'
<1> DEFINE s       == ServedBy(r)
           spans   == Append(queue[s], r)
           dropped == FirstOf(Len(spans) - Len(Newest(spans)), spans)
<1>1. /\ outcome[r] = "open" /\ outcome' = [outcome EXCEPT ![r] = result]
      /\ EndSpan(r) /\ s \in Services
      /\ UNCHANGED <<storeVars, exporting, buffer, sending, repeated>>
  BY PipelineAssumption DEF End, collectorVars
<1>2. \A e \in Spans : Due(e)' = IF e = r /\ r \notin Probes THEN Due(e) + 1 ELSE Due(e)
  <2>1. \A e \in Spans : e # r => Due(e)' = Due(e)
    BY <1>1 DEF Due, CountsOK, RequestsOK, Spans
  <2>2. Due(r) = 0 /\ Due(r)' = IF r \notin Probes THEN 1 ELSE 0
    BY <1>1 DEF Due, CountsOK, RequestsOK, Spans, Ended, Answered
  <2> QED BY <2>1, <2>2
<1>3. CASE r \in Probes
  BY <1>1, <1>2, <1>3, NothingMoves DEF EndSpan
<1>4. CASE r \notin Probes
  <2>1. queue' = [queue EXCEPT ![s] = Newest(spans)] /\ lost' = Plus(lost, dropped)
    BY <1>1, <1>4 DEF EndSpan
  <2>2. queue[s] \in Seq(Requests) /\ queue \in [Services -> Seq(Requests)]
    BY <1>1 DEF CopiesOK, SpanTypes
  <2>3. spans \in Seq(Requests) /\ \A e : Held(e, spans) = Held(e, queue[s]) + Held(e, <<r>>)
    <3>1. spans = queue[s] \o <<r>> /\ <<r>> \in Seq(Requests)
      BY <2>2, AppendIsConcat
    <3> QED BY <2>2, <3>1, HeldConcat, ConcatProperties
  <2> HIDE DEF spans, s
  <2>4. /\ Newest(spans) \in Seq(Requests) /\ Len(Newest(spans)) <= QueueSize
        /\ dropped \in Seq(Requests)
        /\ \A e : Held(e, dropped) + Held(e, Newest(spans)) = Held(e, spans)
    <3>1. LastOf(QueueSize, spans) \in Seq(Requests) /\ Len(LastOf(QueueSize, spans)) <= QueueSize
      BY <2>3, PositiveSizes, LastOfType
    <3>2. ASSUME NEW e
          PROVE  /\ FirstOf(Len(spans) - Len(LastOf(QueueSize, spans)), spans) \in Seq(Requests)
                 /\ Held(e, FirstOf(Len(spans) - Len(LastOf(QueueSize, spans)), spans))
                      + Held(e, LastOf(QueueSize, spans)) = Held(e, spans)
      BY <2>3, PositiveSizes, NewestSplit
    <3> QED BY <3>1, <3>2 DEF Newest
  <2> HIDE DEF dropped
  <2>5. lost' \in [Spans -> Nat] /\ \A e \in Spans : lost'[e] = lost[e] + Held(e, dropped)
    BY <2>1, <2>4, Adding DEF CopiesOK, SpanTypes
  <2>6. SpanTypes'
    BY <1>1, <2>1, <2>4, <2>5 DEF CopiesOK, SpanTypes, storeVars
  <2>7. ASSUME NEW e \in Spans
        PROVE  /\ IsFiniteSet(Places(e, queue'))
               /\ HeldIn(e, queue') + Held(e, queue[s]) = HeldIn(e, queue) + Held(e, Newest(spans))
    <3>1. IsFiniteSet(Places(e, queue))
      BY DEF CopiesOK, PlacesOK
    <3>2. s \in Services
      BY <1>1 DEF s
    <3>3. /\ queue' \in [Services -> Seq(Requests)] /\ queue'[s] = Newest(spans)
          /\ \A q \in Services \ {s} : queue'[q] = queue[q]
      BY <2>1, <2>2, <2>4, <3>2
    <3> HIDE DEF Newest
    <3>4. /\ IsFiniteSet(Places(e, queue'))
          /\ HeldIn(e, queue') + Held(e, queue[s]) = HeldIn(e, queue) + Held(e, queue'[s])
      BY <2>2, <3>1, <3>2, <3>3, PlacesReplaced
    <3> QED BY <3>3, <3>4
  <2>8. PlacesOK'
    BY <1>1, <2>7 DEF CopiesOK, PlacesOK
  <2>9. Accounted'
    <3> SUFFICES ASSUME NEW e \in Spans
                 PROVE  HeldIn(e, queue') + HeldIn(e, exporting) + Held(e, buffer) + HeldIn(e, sending)
                          + Held(e, accepted) + lost'[e] = repeated[e] + Due(e)'
      BY <1>1 DEF Accounted, storeVars
    <3>1. Held(e, <<r>>) = (IF r = e THEN 1 ELSE 0)
      BY HeldOne
    <3>2. HeldIn(e, queue') \in Nat /\ Held(e, queue[s]) \in Nat /\ Held(e, Newest(spans)) \in Nat
          /\ Held(e, dropped) \in Nat
      BY <2>2, <2>4, <2>7, HeldType, HeldInType
    <3>3. Due(e)' = Due(e) + Held(e, <<r>>) /\ Due(e) \in Nat
      BY <1>2, <1>4, <3>1 DEF Due
    <3>4. HeldIn(e, queue') + lost'[e] = HeldIn(e, queue) + lost[e] + Held(e, <<r>>)
      <4>1. /\ Held(e, spans) = Held(e, queue[s]) + Held(e, <<r>>)
            /\ Held(e, dropped) + Held(e, Newest(spans)) = Held(e, spans)
            /\ lost'[e] = lost[e] + Held(e, dropped)
            /\ HeldIn(e, queue') + Held(e, queue[s]) = HeldIn(e, queue) + Held(e, Newest(spans))
        BY <2>3, <2>4, <2>5, <2>7
      <4>2. HeldIn(e, queue) \in Nat /\ lost[e] \in Nat /\ Held(e, <<r>>) \in Nat
        BY <3>1, CopyTypes
      <4> QED BY <3>2, <4>1, <4>2
    <3>5. HeldIn(e, queue) + HeldIn(e, exporting) + Held(e, buffer) + HeldIn(e, sending)
            + Held(e, accepted) + lost[e] = repeated[e] + Due(e)
      BY DEF CopiesOK, Accounted
    <3>6. lost'[e] \in Nat
      BY <2>5
    <3>7. /\ HeldIn(e, queue) \in Nat /\ HeldIn(e, exporting) \in Nat /\ Held(e, buffer) \in Nat
          /\ HeldIn(e, sending) \in Nat /\ Held(e, accepted) \in Nat /\ lost[e] \in Nat
          /\ repeated[e] \in Nat
      BY CopyTypes
    <3> QED BY <3>1, <3>2, <3>3, <3>4, <3>5, <3>6, <3>7
  <2> QED BY <2>6, <2>8, <2>9 DEF CopiesOK
<1> QED BY <1>3, <1>4

LEMMA QueueReplaced ==
  ASSUME CopiesOK, queue' \in [Services -> Seq(Requests)],
         NEW s \in Services, \A q \in Services \ {s} : queue'[q] = queue[q], NEW e \in Spans
  PROVE  /\ IsFiniteSet(Places(e, queue')) /\ HeldIn(e, queue') \in Nat
         /\ Held(e, queue[s]) \in Nat /\ Held(e, queue'[s]) \in Nat
         /\ HeldIn(e, queue') + Held(e, queue[s]) = HeldIn(e, queue) + Held(e, queue'[s])
<1>1. /\ queue \in [Services -> Seq(Requests)]
      /\ queue[s] \in Seq(Requests) /\ queue'[s] \in Seq(Requests)
  BY DEF CopiesOK, SpanTypes
<1>2. IsFiniteSet(Places(e, queue))
  BY DEF CopiesOK, PlacesOK
<1>3. /\ IsFiniteSet(Places(e, queue'))
      /\ HeldIn(e, queue') + Held(e, queue[s]) = HeldIn(e, queue) + Held(e, queue'[s])
  BY <1>1, <1>2, PlacesReplaced
<1> QED BY <1>1, <1>3, HeldType, HeldInType

LEMMA ExportReplaced ==
  ASSUME CopiesOK, exporting' \in [Services -> Seq(Requests)],
         NEW s \in Services, \A q \in Services \ {s} : exporting'[q] = exporting[q], NEW e \in Spans
  PROVE  /\ IsFiniteSet(Places(e, exporting')) /\ HeldIn(e, exporting') \in Nat
         /\ Held(e, exporting[s]) \in Nat /\ Held(e, exporting'[s]) \in Nat
         /\ HeldIn(e, exporting') + Held(e, exporting[s]) = HeldIn(e, exporting) + Held(e, exporting'[s])
<1>1. /\ exporting \in [Services -> Seq(Requests)]
      /\ exporting[s] \in Seq(Requests) /\ exporting'[s] \in Seq(Requests)
  BY DEF CopiesOK, SpanTypes
<1>2. IsFiniteSet(Places(e, exporting))
  BY DEF CopiesOK, PlacesOK
<1>3. /\ IsFiniteSet(Places(e, exporting'))
      /\ HeldIn(e, exporting') + Held(e, exporting[s]) = HeldIn(e, exporting) + Held(e, exporting'[s])
  BY <1>1, <1>2, PlacesReplaced
<1> QED BY <1>1, <1>3, HeldType, HeldInType

\* The export thread takes the oldest spans of the queue.
LEMMA TakeCopies ==
  ASSUME CopiesOK, NEW s \in Services, TakeBatch(s)
  PROVE  CopiesOK'
<1> DEFINE taken == FirstOf(ExportSize, queue[s])
           left  == SubSeq(queue[s], Len(taken) + 1, Len(queue[s]))
<1>1. /\ queue \in [Services -> Seq(Requests)] /\ exporting \in [Services -> Seq(Requests)]
      /\ queue[s] \in Seq(Requests) /\ exporting[s] = <<>>
      /\ Len(queue[s]) <= QueueSize /\ QueueSize \in Nat /\ Len(queue[s]) \in Nat
  BY PositiveSizes DEF TakeBatch, CopiesOK, SpanTypes
<1>2. /\ exporting' = [exporting EXCEPT ![s] = taken] /\ queue' = [queue EXCEPT ![s] = left]
      /\ UNCHANGED <<storeVars, outcome, buffer, sending, lost, repeated>>
  BY <1>1 DEF TakeBatch, collectorVars, history
<1>3. /\ taken \in Seq(Requests) /\ Len(taken) <= ExportSize
      /\ left \in Seq(Requests) /\ Len(left) <= Len(queue[s])
      /\ \A e : Held(e, taken) + Held(e, left) = Held(e, queue[s])
  BY <1>1, PositiveSizes, FirstSplit
<1> HIDE DEF taken, left
<1>4. SpanTypes'
  <2>1. Len(left) <= QueueSize
    BY <1>1, <1>3, LenProperties
  <2> QED BY <1>2, <1>3, <2>1 DEF CopiesOK, SpanTypes, storeVars
<1>5. ASSUME NEW e \in Spans
      PROVE  /\ IsFiniteSet(Places(e, queue')) /\ IsFiniteSet(Places(e, exporting'))
             /\ HeldIn(e, queue') + HeldIn(e, exporting') = HeldIn(e, queue) + HeldIn(e, exporting)
  <2>0. /\ queue' \in [Services -> Seq(Requests)] /\ queue'[s] = left
        /\ exporting' \in [Services -> Seq(Requests)] /\ exporting'[s] = taken
        /\ \A q \in Services \ {s} : queue'[q] = queue[q] /\ exporting'[q] = exporting[q]
    BY <1>1, <1>2, <1>3
  <2>1. /\ IsFiniteSet(Places(e, queue')) /\ HeldIn(e, queue') \in Nat
        /\ Held(e, queue[s]) \in Nat /\ Held(e, queue'[s]) \in Nat
        /\ HeldIn(e, queue') + Held(e, queue[s]) = HeldIn(e, queue) + Held(e, queue'[s])
    BY <2>0, QueueReplaced
  <2>2. /\ IsFiniteSet(Places(e, exporting')) /\ HeldIn(e, exporting') \in Nat
        /\ Held(e, exporting'[s]) \in Nat
        /\ HeldIn(e, exporting') + Held(e, exporting[s]) = HeldIn(e, exporting) + Held(e, exporting'[s])
    BY <2>0, ExportReplaced
  <2>3. Held(e, exporting[s]) = 0
    BY <1>1, HeldNothing
  <2>4. HeldIn(e, queue) \in Nat /\ HeldIn(e, exporting) \in Nat
    BY CopyTypes
  <2>5. Held(e, taken) + Held(e, left) = Held(e, queue[s])
    BY <1>3
  <2>6. Held(e, queue'[s]) = Held(e, left) /\ Held(e, exporting'[s]) = Held(e, taken)
    BY <2>0
  <2> QED BY <2>1, <2>2, <2>3, <2>4, <2>5, <2>6
<1>6. PlacesOK'
  BY <1>2, <1>5 DEF CopiesOK, PlacesOK
<1>7. \A e \in Spans : Due(e)' = Due(e)
  BY <1>2 DEF Due
<1>8. Accounted'
  BY <1>2, <1>5, <1>7 DEF CopiesOK, Accounted, storeVars
<1> QED BY <1>4, <1>6, <1>8 DEF CopiesOK

\* The Collector receives a copy; without its answer there will be another.
LEMMA ExportCopies ==
  ASSUME CopiesOK, NEW s \in Services, NEW answered \in BOOLEAN, Export(s, answered)
  PROVE  CopiesOK'
<1>1. /\ exporting \in [Services -> Seq(Requests)] /\ exporting[s] \in Seq(Requests)
      /\ exporting[s] \in Seq(Spans) /\ buffer \in Seq(Spans) /\ <<>> \in Seq(Requests)
  BY Wider DEF CopiesOK, SpanTypes
<1>2. /\ buffer' = buffer \o exporting[s]
      /\ UNCHANGED <<storeVars, outcome, queue, sending, lost>>
  BY DEF Export
<1>3. buffer' \in Seq(Spans) /\ \A e : Held(e, buffer') = Held(e, buffer) + Held(e, exporting[s])
  BY <1>1, <1>2, HeldConcat, ConcatProperties
<1>4. \A e \in Spans : Due(e)' = Due(e)
  BY <1>2 DEF Due
<1>5. CASE answered
  <2>1. exporting' = [exporting EXCEPT ![s] = <<>>] /\ repeated' = repeated
    BY <1>5 DEF Export
  <2>2. SpanTypes'
    BY <1>2, <1>3, <2>1, PositiveSizes DEF CopiesOK, SpanTypes, storeVars
  <2>3. ASSUME NEW e \in Spans
        PROVE  /\ IsFiniteSet(Places(e, exporting'))
               /\ HeldIn(e, exporting') + Held(e, buffer') = HeldIn(e, exporting) + Held(e, buffer)
    <3>0. /\ exporting' \in [Services -> Seq(Requests)] /\ exporting'[s] = <<>>
          /\ \A q \in Services \ {s} : exporting'[q] = exporting[q]
      BY <1>1, <2>1
    <3>1. /\ IsFiniteSet(Places(e, exporting')) /\ HeldIn(e, exporting') \in Nat
          /\ Held(e, exporting[s]) \in Nat
          /\ HeldIn(e, exporting') + Held(e, exporting[s]) = HeldIn(e, exporting) + Held(e, exporting'[s])
      BY <3>0, ExportReplaced
    <3>2. HeldIn(e, exporting) \in Nat /\ Held(e, buffer) \in Nat
      BY CopyTypes
    <3> QED BY <1>3, <3>0, <3>1, <3>2, HeldNothing
  <2>4. PlacesOK'
    BY <1>2, <2>3 DEF CopiesOK, PlacesOK
  <2>5. Accounted'
    <3> SUFFICES ASSUME NEW e \in Spans
                 PROVE  HeldIn(e, queue) + HeldIn(e, exporting') + Held(e, buffer') + HeldIn(e, sending)
                          + Held(e, accepted) + lost[e] = repeated[e] + Due(e)
      BY <1>2, <1>4, <2>1 DEF Accounted, storeVars
    <3>1. HeldIn(e, queue) + HeldIn(e, exporting) + Held(e, buffer) + HeldIn(e, sending)
            + Held(e, accepted) + lost[e] = repeated[e] + Due(e)
      BY DEF CopiesOK, Accounted
    <3>2. HeldIn(e, exporting') \in Nat /\ Held(e, buffer') \in Nat
      BY <1>3, <2>3, HeldType, HeldInType
    <3>3. /\ HeldIn(e, queue) \in Nat /\ HeldIn(e, exporting) \in Nat /\ Held(e, buffer) \in Nat
          /\ HeldIn(e, sending) \in Nat /\ Held(e, accepted) \in Nat /\ lost[e] \in Nat
      BY CopyTypes
    <3> QED BY <2>3, <3>1, <3>2, <3>3
  <2> QED BY <2>2, <2>4, <2>5 DEF CopiesOK
<1>6. CASE ~answered
  <2>1. exporting' = exporting /\ repeated' = Plus(repeated, exporting[s])
    BY <1>6 DEF Export
  <2>2. /\ repeated' \in [Spans -> Nat]
        /\ \A e \in Spans : repeated'[e] = repeated[e] + Held(e, exporting[s])
    <3>1. repeated \in [Spans -> Nat]
      BY DEF CopiesOK, SpanTypes
    <3> QED BY <1>1, <2>1, <3>1, Adding
  <2>3. SpanTypes'
    BY <1>2, <1>3, <2>1, <2>2 DEF CopiesOK, SpanTypes, storeVars
  <2>4. PlacesOK'
    BY <1>2, <2>1 DEF CopiesOK, PlacesOK
  <2>5. Accounted'
    <3> SUFFICES ASSUME NEW e \in Spans
                 PROVE  HeldIn(e, queue) + HeldIn(e, exporting) + Held(e, buffer') + HeldIn(e, sending)
                          + Held(e, accepted) + lost[e] = repeated'[e] + Due(e)
      BY <1>2, <1>4, <2>1 DEF Accounted, storeVars
    <3>1. HeldIn(e, queue) + HeldIn(e, exporting) + Held(e, buffer) + HeldIn(e, sending)
            + Held(e, accepted) + lost[e] = repeated[e] + Due(e)
      BY DEF CopiesOK, Accounted
    <3>2. Held(e, exporting[s]) \in Nat /\ Due(e) \in Nat
      BY <1>1, HeldType DEF Due
    <3>3. /\ HeldIn(e, queue) \in Nat /\ HeldIn(e, exporting) \in Nat /\ Held(e, buffer) \in Nat
          /\ HeldIn(e, sending) \in Nat /\ Held(e, accepted) \in Nat /\ lost[e] \in Nat
          /\ repeated[e] \in Nat
      BY CopyTypes
    <3>4. /\ Held(e, buffer') = Held(e, buffer) + Held(e, exporting[s])
          /\ repeated'[e] = repeated[e] + Held(e, exporting[s])
      BY <1>3, <2>2
    <3> QED BY <3>1, <3>2, <3>3, <3>4
  <2> QED BY <2>3, <2>4, <2>5 DEF CopiesOK
<1> QED BY <1>5, <1>6

LEMMA GiveUpExportCopies ==
  ASSUME CopiesOK, NEW s \in Services, GiveUpExport(s)
  PROVE  CopiesOK'
<1>1. /\ exporting \in [Services -> Seq(Requests)] /\ exporting[s] \in Seq(Requests)
      /\ <<>> \in Seq(Requests) /\ lost \in [Spans -> Nat]
  BY DEF CopiesOK, SpanTypes
<1>2. /\ exporting' = [exporting EXCEPT ![s] = <<>>] /\ lost' = Plus(lost, exporting[s])
      /\ UNCHANGED <<storeVars, outcome, queue, buffer, sending, repeated>>
  BY DEF GiveUpExport, collectorVars
<1>3. /\ lost' \in [Spans -> Nat]
      /\ \A e \in Spans : lost'[e] = lost[e] + Held(e, exporting[s])
  BY <1>1, <1>2, Adding
<1>4. /\ exporting' \in [Services -> Seq(Requests)] /\ exporting'[s] = <<>>
      /\ \A q \in Services \ {s} : exporting'[q] = exporting[q]
  BY <1>1, <1>2
<1>5. SpanTypes'
  BY <1>2, <1>3, PositiveSizes DEF CopiesOK, SpanTypes, storeVars
<1>6. ASSUME NEW e \in Spans
      PROVE  /\ IsFiniteSet(Places(e, exporting'))
             /\ HeldIn(e, exporting') + lost'[e] = HeldIn(e, exporting) + lost[e]
             /\ HeldIn(e, exporting') \in Nat /\ lost'[e] \in Nat
  <2>1. /\ IsFiniteSet(Places(e, exporting')) /\ HeldIn(e, exporting') \in Nat
        /\ Held(e, exporting[s]) \in Nat
        /\ HeldIn(e, exporting') + Held(e, exporting[s]) = HeldIn(e, exporting) + Held(e, exporting'[s])
    BY <1>4, ExportReplaced
  <2>2. Held(e, exporting'[s]) = 0
    BY <1>4, HeldNothing
  <2>3. HeldIn(e, exporting) \in Nat /\ lost[e] \in Nat
    BY CopyTypes
  <2> QED BY <1>3, <2>1, <2>2, <2>3
<1>7. PlacesOK'
  BY <1>2, <1>6 DEF CopiesOK, PlacesOK
<1>8. \A e \in Spans : Due(e)' = Due(e)
  BY <1>2 DEF Due
<1>9. Accounted'
  <2> SUFFICES ASSUME NEW e \in Spans
               PROVE  HeldIn(e, queue) + HeldIn(e, exporting') + Held(e, buffer) + HeldIn(e, sending)
                        + Held(e, accepted) + lost'[e] = repeated[e] + Due(e)
    BY <1>2, <1>8 DEF Accounted, storeVars
  <2>1. HeldIn(e, queue) + HeldIn(e, exporting) + Held(e, buffer) + HeldIn(e, sending)
          + Held(e, accepted) + lost[e] = repeated[e] + Due(e)
    BY DEF CopiesOK, Accounted
  <2>2. /\ HeldIn(e, queue) \in Nat /\ HeldIn(e, exporting) \in Nat /\ Held(e, buffer) \in Nat
        /\ HeldIn(e, sending) \in Nat /\ Held(e, accepted) \in Nat /\ lost[e] \in Nat
    BY CopyTypes
  <2> QED BY <1>6, <2>1, <2>2
<1> QED BY <1>5, <1>7, <1>9 DEF CopiesOK

\* A restart loses what the service had not exported; what it was serving has no span.
LEMMA RestartCopies ==
  ASSUME CountsOK, CopiesOK, NEW s \in Services, RestartService(s)
  PROVE  CopiesOK'
<1>1. /\ queue \in [Services -> Seq(Requests)] /\ queue[s] \in Seq(Requests)
      /\ exporting \in [Services -> Seq(Requests)] /\ exporting[s] \in Seq(Requests)
      /\ <<>> \in Seq(Requests) /\ lost \in [Spans -> Nat]
  BY DEF CopiesOK, SpanTypes
<1>2. /\ queue' = [queue EXCEPT ![s] = <<>>] /\ exporting' = [exporting EXCEPT ![s] = <<>>]
      /\ lost' = Plus(Plus(lost, queue[s]), exporting[s])
      /\ UNCHANGED <<storeVars, buffer, sending, repeated>>
  BY DEF RestartService, collectorVars
<1>3. /\ lost' \in [Spans -> Nat]
      /\ \A e \in Spans : lost'[e] = (lost[e] + Held(e, queue[s])) + Held(e, exporting[s])
  <2>1. /\ Plus(lost, queue[s]) \in [Spans -> Nat]
        /\ \A e \in Spans : Plus(lost, queue[s])[e] = lost[e] + Held(e, queue[s])
    BY <1>1, Adding
  <2>2. /\ Plus(Plus(lost, queue[s]), exporting[s]) \in [Spans -> Nat]
        /\ \A e \in Spans : Plus(Plus(lost, queue[s]), exporting[s])[e]
                              = Plus(lost, queue[s])[e] + Held(e, exporting[s])
    BY <1>1, <2>1, Adding
  <2> QED BY <1>2, <2>1, <2>2
<1>4. /\ queue' \in [Services -> Seq(Requests)] /\ queue'[s] = <<>>
      /\ exporting' \in [Services -> Seq(Requests)] /\ exporting'[s] = <<>>
      /\ \A q \in Services \ {s} : queue'[q] = queue[q] /\ exporting'[q] = exporting[q]
  BY <1>1, <1>2
<1>5. SpanTypes'
  BY <1>2, <1>3, PositiveSizes DEF CopiesOK, SpanTypes, storeVars
<1>6. ASSUME NEW e \in Spans
      PROVE  /\ IsFiniteSet(Places(e, queue')) /\ IsFiniteSet(Places(e, exporting'))
             /\ HeldIn(e, queue') + HeldIn(e, exporting') + lost'[e]
                  = HeldIn(e, queue) + HeldIn(e, exporting) + lost[e]
             /\ HeldIn(e, queue') \in Nat /\ HeldIn(e, exporting') \in Nat /\ lost'[e] \in Nat
  <2>1. /\ IsFiniteSet(Places(e, queue')) /\ HeldIn(e, queue') \in Nat
        /\ Held(e, queue[s]) \in Nat
        /\ HeldIn(e, queue') + Held(e, queue[s]) = HeldIn(e, queue) + Held(e, queue'[s])
    BY <1>4, QueueReplaced
  <2>2. /\ IsFiniteSet(Places(e, exporting')) /\ HeldIn(e, exporting') \in Nat
        /\ Held(e, exporting[s]) \in Nat
        /\ HeldIn(e, exporting') + Held(e, exporting[s]) = HeldIn(e, exporting) + Held(e, exporting'[s])
    BY <1>4, ExportReplaced
  <2>3. Held(e, queue'[s]) = 0 /\ Held(e, exporting'[s]) = 0
    BY <1>4, HeldNothing
  <2>4. HeldIn(e, queue) \in Nat /\ HeldIn(e, exporting) \in Nat /\ lost[e] \in Nat
    BY CopyTypes
  <2> QED BY <1>3, <2>1, <2>2, <2>3, <2>4
<1>7. PlacesOK'
  BY <1>2, <1>6 DEF CopiesOK, PlacesOK
<1>8. \A e \in Spans : Due(e)' = Due(e)
  BY DEF RestartService, Due, CountsOK, RequestsOK, Spans, Ended, Answered
<1>9. Accounted'
  <2> SUFFICES ASSUME NEW e \in Spans
               PROVE  HeldIn(e, queue') + HeldIn(e, exporting') + Held(e, buffer) + HeldIn(e, sending)
                        + Held(e, accepted) + lost'[e] = repeated[e] + Due(e)
    BY <1>2, <1>8 DEF Accounted, storeVars
  <2>1. HeldIn(e, queue) + HeldIn(e, exporting) + Held(e, buffer) + HeldIn(e, sending)
          + Held(e, accepted) + lost[e] = repeated[e] + Due(e)
    BY DEF CopiesOK, Accounted
  <2>2. /\ HeldIn(e, queue) \in Nat /\ HeldIn(e, exporting) \in Nat /\ Held(e, buffer) \in Nat
        /\ HeldIn(e, sending) \in Nat /\ Held(e, accepted) \in Nat /\ lost[e] \in Nat
    BY CopyTypes
  <2> QED BY <1>6, <2>1, <2>2
<1> QED BY <1>5, <1>7, <1>9 DEF CopiesOK

LEMMA ForeignCopies ==
  ASSUME CountsOK, CopiesOK, NEW x \in Foreign, ForeignExport(x)
  PROVE  CopiesOK'
<1>1. /\ buffer \in Seq(Spans) /\ x \in Spans /\ x \notin Probes /\ outcome[x] = "new"
      /\ outcome' = [outcome EXCEPT ![x] = "ok"] /\ buffer' = Append(buffer, x)
      /\ UNCHANGED <<storeVars, queue, exporting, sending, lost, repeated>>
  BY PipelineAssumption DEF ForeignExport, history, Spans, CopiesOK, SpanTypes
<1>2. /\ buffer' \in Seq(Spans)
      /\ \A e : Held(e, buffer') = Held(e, buffer) + IF x = e THEN 1 ELSE 0
  <2>1. buffer' = buffer \o <<x>> /\ <<x>> \in Seq(Spans)
    BY <1>1, AppendIsConcat
  <2>2. \A e : Held(e, buffer') = Held(e, buffer) + Held(e, <<x>>)
    BY <1>1, <2>1, HeldConcat
  <2> QED BY <1>1, <2>1, <2>2, HeldOne, ConcatProperties
<1>3. SpanTypes' /\ PlacesOK'
  BY <1>1, <1>2 DEF CopiesOK, SpanTypes, PlacesOK, storeVars
<1>4. \A e \in Spans : Due(e)' = Due(e) + IF x = e THEN 1 ELSE 0
  <2>1. Due(x) = 0 /\ Due(x)' = 1
    BY <1>1 DEF Due, CountsOK, RequestsOK, Spans, Ended, Answered
  <2>2. \A e \in Spans : e # x => Due(e)' = Due(e) /\ Due(e) \in Nat
    BY <1>1 DEF Due, CountsOK, RequestsOK, Spans
  <2> QED BY <2>1, <2>2
<1>5. Accounted'
  <2> SUFFICES ASSUME NEW e \in Spans
               PROVE  HeldIn(e, queue) + HeldIn(e, exporting) + Held(e, buffer') + HeldIn(e, sending)
                        + Held(e, accepted) + lost[e] = repeated[e] + Due(e)'
    BY <1>1 DEF Accounted, storeVars
  <2>1. HeldIn(e, queue) + HeldIn(e, exporting) + Held(e, buffer) + HeldIn(e, sending)
          + Held(e, accepted) + lost[e] = repeated[e] + Due(e)
    BY DEF CopiesOK, Accounted
  <2>2. /\ HeldIn(e, queue) \in Nat /\ HeldIn(e, exporting) \in Nat /\ Held(e, buffer) \in Nat
        /\ HeldIn(e, sending) \in Nat /\ Held(e, accepted) \in Nat /\ lost[e] \in Nat
        /\ repeated[e] \in Nat
    BY CopyTypes
  <2>3. Due(e) \in Nat
    BY DEF Due
  <2>4. \E n \in {0, 1} : Held(e, buffer') = Held(e, buffer) + n /\ Due(e)' = Due(e) + n
    BY <1>2, <1>4
  <2> QED BY <2>1, <2>2, <2>3, <2>4
<1> QED BY <1>3, <1>5 DEF CopiesOK

\* The batch leaves for the diagnosis, or is dropped when too many wait.
LEMMA HandOverCopies ==
  ASSUME CopiesOK, HandOver
  PROVE  CopiesOK'
<1>1. /\ buffer \in Seq(Spans) /\ sending \in Seq(Seq(Spans)) /\ <<>> \in Seq(Spans)
      /\ lost \in [Spans -> Nat] /\ Len(sending) \in Nat /\ SendingQueue \in Nat
  BY PositiveSizes DEF CopiesOK, SpanTypes
<1>2. buffer' = <<>> /\ UNCHANGED <<storeVars, outcome, queue, exporting, repeated>>
  BY DEF HandOver
<1>3. \A e \in Spans : Due(e)' = Due(e) /\ Held(e, buffer') = 0
  BY <1>2, HeldNothing DEF Due
<1>4. CASE Len(sending) < SendingQueue
  <2>1. sending' = Append(sending, buffer) /\ lost' = lost
    BY <1>4 DEF HandOver
  <2>2. sending' \in Seq(Seq(Spans)) /\ Len(sending') <= SendingQueue
    BY <1>1, <1>4, <2>1
  <2>3. SpanTypes'
    BY <1>1, <1>2, <2>1, <2>2 DEF CopiesOK, SpanTypes, storeVars
  <2>4. ASSUME NEW e \in Spans
        PROVE  /\ IsFiniteSet(Places(e, sending'))
               /\ HeldIn(e, sending') = HeldIn(e, sending) + Held(e, buffer)
    <3>1. IsFiniteSet(Places(e, sending))
      BY DEF CopiesOK, PlacesOK
    <3> QED BY <1>1, <2>1, <3>1, PlacesAppended
  <2>5. PlacesOK'
    BY <1>2, <2>4 DEF CopiesOK, PlacesOK
  <2>6. Accounted'
    <3> SUFFICES ASSUME NEW e \in Spans
                 PROVE  HeldIn(e, queue) + HeldIn(e, exporting) + Held(e, buffer') + HeldIn(e, sending')
                          + Held(e, accepted) + lost[e] = repeated[e] + Due(e)
      BY <1>2, <1>3, <2>1 DEF Accounted, storeVars
    <3>1. HeldIn(e, queue) + HeldIn(e, exporting) + Held(e, buffer) + HeldIn(e, sending)
            + Held(e, accepted) + lost[e] = repeated[e] + Due(e)
      BY DEF CopiesOK, Accounted
    <3>2. /\ HeldIn(e, queue) \in Nat /\ HeldIn(e, exporting) \in Nat /\ Held(e, buffer) \in Nat
          /\ HeldIn(e, sending) \in Nat /\ Held(e, accepted) \in Nat /\ lost[e] \in Nat
      BY CopyTypes
    <3> QED BY <1>3, <2>4, <3>1, <3>2
  <2> QED BY <2>3, <2>5, <2>6 DEF CopiesOK
<1>5. CASE ~(Len(sending) < SendingQueue)
  <2>1. lost' = Plus(lost, buffer) /\ sending' = sending
    BY <1>5 DEF HandOver
  <2>2. lost' \in [Spans -> Nat] /\ \A e \in Spans : lost'[e] = lost[e] + Held(e, buffer)
    BY <1>1, <2>1, Adding
  <2>3. SpanTypes'
    BY <1>1, <1>2, <2>1, <2>2 DEF CopiesOK, SpanTypes, storeVars
  <2>4. PlacesOK'
    BY <1>2, <2>1 DEF CopiesOK, PlacesOK
  <2>5. Accounted'
    <3> SUFFICES ASSUME NEW e \in Spans
                 PROVE  HeldIn(e, queue) + HeldIn(e, exporting) + Held(e, buffer') + HeldIn(e, sending)
                          + Held(e, accepted) + lost'[e] = repeated[e] + Due(e)
      BY <1>2, <1>3, <2>1 DEF Accounted, storeVars
    <3>1. HeldIn(e, queue) + HeldIn(e, exporting) + Held(e, buffer) + HeldIn(e, sending)
            + Held(e, accepted) + lost[e] = repeated[e] + Due(e)
      BY DEF CopiesOK, Accounted
    <3>2. /\ HeldIn(e, queue) \in Nat /\ HeldIn(e, exporting) \in Nat /\ Held(e, buffer) \in Nat
          /\ HeldIn(e, sending) \in Nat /\ Held(e, accepted) \in Nat /\ lost[e] \in Nat
      BY CopyTypes
    <3> QED BY <1>3, <2>2, <3>1, <3>2
  <2> QED BY <2>3, <2>4, <2>5 DEF CopiesOK
<1> QED BY <1>4, <1>5

\* What follows when one batch leaves the sending queue.
LEMMA SendingRemoved ==
  ASSUME CopiesOK, NEW i \in DOMAIN sending, sending' = RemoveAt(sending, i)
  PROVE  /\ sending[i] \in Seq(Spans) /\ sending' \in Seq(Seq(Spans)) /\ Len(sending') <= SendingQueue
         /\ \A e \in Spans : /\ IsFiniteSet(Places(e, sending')) /\ HeldIn(e, sending') \in Nat
                             /\ Held(e, sending[i]) \in Nat
                             /\ HeldIn(e, sending') + Held(e, sending[i]) = HeldIn(e, sending)
<1>1. /\ sending \in Seq(Seq(Spans)) /\ sending[i] \in Seq(Spans)
      /\ Len(sending) \in Nat /\ SendingQueue \in Nat /\ Len(sending) <= SendingQueue
  BY PositiveSizes DEF CopiesOK, SpanTypes
<1>2. sending' \in Seq(Seq(Spans)) /\ Len(sending') = Len(sending) - 1
  BY <1>1, RemovedType
<1>3. ASSUME NEW e \in Spans
      PROVE  /\ IsFiniteSet(Places(e, sending'))
             /\ HeldIn(e, sending') + Held(e, sending[i]) = HeldIn(e, sending)
  <2>1. IsFiniteSet(Places(e, sending))
    BY DEF CopiesOK, PlacesOK
  <2> QED BY <1>1, <2>1, PlacesRemoved
<1> QED BY <1>1, <1>2, <1>3, HeldType, HeldInType

LEMMA GiveUpBatchCopies ==
  ASSUME CopiesOK, NEW i \in DOMAIN sending, GiveUpBatch(i)
  PROVE  CopiesOK'
<1>1. /\ lost' = Plus(lost, sending[i]) /\ sending' = RemoveAt(sending, i)
      /\ UNCHANGED <<storeVars, outcome, queue, exporting, buffer, repeated>>
      /\ lost \in [Spans -> Nat]
  BY DEF GiveUpBatch, CopiesOK, SpanTypes
<1>2. /\ sending[i] \in Seq(Spans) /\ sending' \in Seq(Seq(Spans)) /\ Len(sending') <= SendingQueue
      /\ \A e \in Spans : /\ IsFiniteSet(Places(e, sending')) /\ HeldIn(e, sending') \in Nat
                          /\ Held(e, sending[i]) \in Nat
                          /\ HeldIn(e, sending') + Held(e, sending[i]) = HeldIn(e, sending)
  BY <1>1, SendingRemoved
<1>3. lost' \in [Spans -> Nat] /\ \A e \in Spans : lost'[e] = lost[e] + Held(e, sending[i])
  BY <1>1, <1>2, Adding
<1>4. SpanTypes'
  BY <1>1, <1>2, <1>3 DEF CopiesOK, SpanTypes, storeVars
<1>5. PlacesOK'
  BY <1>1, <1>2 DEF CopiesOK, PlacesOK
<1>6. \A e \in Spans : Due(e)' = Due(e)
  BY <1>1 DEF Due
<1>7. Accounted'
  <2> SUFFICES ASSUME NEW e \in Spans
               PROVE  HeldIn(e, queue) + HeldIn(e, exporting) + Held(e, buffer) + HeldIn(e, sending')
                        + Held(e, accepted) + lost'[e] = repeated[e] + Due(e)
    BY <1>1, <1>6 DEF Accounted, storeVars
  <2>1. HeldIn(e, queue) + HeldIn(e, exporting) + Held(e, buffer) + HeldIn(e, sending)
          + Held(e, accepted) + lost[e] = repeated[e] + Due(e)
    BY DEF CopiesOK, Accounted
  <2>2. /\ HeldIn(e, queue) \in Nat /\ HeldIn(e, exporting) \in Nat /\ Held(e, buffer) \in Nat
        /\ HeldIn(e, sending) \in Nat /\ Held(e, accepted) \in Nat /\ lost[e] \in Nat
    BY CopyTypes
  <2>3. HeldIn(e, sending') + lost'[e] = HeldIn(e, sending) + lost[e]
    <3>1. /\ HeldIn(e, sending') \in Nat /\ Held(e, sending[i]) \in Nat
          /\ HeldIn(e, sending') + Held(e, sending[i]) = HeldIn(e, sending)
          /\ lost'[e] = lost[e] + Held(e, sending[i])
      BY <1>2, <1>3
    <3> QED BY <2>2, <3>1
  <2>4. HeldIn(e, sending') \in Nat /\ lost'[e] \in Nat
    BY <1>2, <1>3
  <2> QED BY <2>1, <2>2, <2>3, <2>4
<1> QED BY <1>4, <1>5, <1>7 DEF CopiesOK

LEMMA RestartCollectorCopies ==
  ASSUME CopiesOK, RestartCollector
  PROVE  CopiesOK'
<1>1. /\ lost' = PlusAll(Plus(lost, buffer), sending) /\ buffer' = <<>> /\ sending' = <<>>
      /\ UNCHANGED <<storeVars, outcome, queue, exporting, repeated>>
      /\ lost \in [Spans -> Nat] /\ buffer \in Seq(Spans)
  BY DEF RestartCollector, CopiesOK, SpanTypes
<1>2. /\ lost' \in [Spans -> Nat]
      /\ \A e \in Spans : lost'[e] = (lost[e] + Held(e, buffer)) + HeldIn(e, sending)
  <2>1. /\ Plus(lost, buffer) \in [Spans -> Nat]
        /\ \A e \in Spans : Plus(lost, buffer)[e] = lost[e] + Held(e, buffer)
    BY <1>1, Adding
  <2>2. \A e \in Spans : HeldIn(e, sending) \in Nat
    BY CopyTypes
  <2> QED BY <1>1, <2>1, <2>2 DEF PlusAll
<1>3. SpanTypes'
  <2>1. \A T : <<>> \in Seq(T) /\ Len(<<>>) = 0
    OBVIOUS
  <2> QED BY <1>1, <1>2, <2>1, PositiveSizes DEF CopiesOK, SpanTypes, storeVars
<1>4. \A e \in Spans : IsFiniteSet(Places(e, sending')) /\ HeldIn(e, sending') = 0
  BY <1>1, PlacesNothing
<1>5. PlacesOK'
  BY <1>1, <1>4 DEF CopiesOK, PlacesOK
<1>6. \A e \in Spans : Due(e)' = Due(e) /\ Held(e, buffer') = 0
  BY <1>1, HeldNothing DEF Due
<1>7. Accounted'
  <2> SUFFICES ASSUME NEW e \in Spans
               PROVE  HeldIn(e, queue) + HeldIn(e, exporting) + Held(e, buffer') + HeldIn(e, sending')
                        + Held(e, accepted) + lost'[e] = repeated[e] + Due(e)
    BY <1>1, <1>6 DEF Accounted, storeVars
  <2>1. HeldIn(e, queue) + HeldIn(e, exporting) + Held(e, buffer) + HeldIn(e, sending)
          + Held(e, accepted) + lost[e] = repeated[e] + Due(e)
    BY DEF CopiesOK, Accounted
  <2>2. /\ HeldIn(e, queue) \in Nat /\ HeldIn(e, exporting) \in Nat /\ Held(e, buffer) \in Nat
        /\ HeldIn(e, sending) \in Nat /\ Held(e, accepted) \in Nat /\ lost[e] \in Nat
    BY CopyTypes
  <2> QED BY <1>2, <1>4, <1>6, <2>1, <2>2
<1> QED BY <1>3, <1>5, <1>7 DEF CopiesOK

\* What the store does with a batch.
LEMMA StoreCopies ==
  ASSUME CopiesOK, NEW batch \in Seq(Spans), AddMany(batch)
  PROVE  /\ accepted' \in Seq(Spans) /\ items' \in Seq(Spans) /\ Len(items') <= MaxItems
         /\ \A e : /\ Held(e, batch) \in Nat /\ Held(e, accepted) \in Nat
                   /\ Held(e, accepted') = Held(e, accepted) + Held(e, batch)
<1>1. /\ accepted \in Seq(Spans) /\ items \in Seq(Spans)
      /\ accepted' = accepted \o batch /\ items' = LastOf(MaxItems, items \o batch)
  BY DEF AddMany, Retained, CopiesOK, SpanTypes
<1>2. accepted' \in Seq(Spans) /\ items \o batch \in Seq(Spans)
  BY <1>1
<1>3. items' \in Seq(Spans) /\ Len(items') <= MaxItems
  BY <1>1, <1>2, PositiveSizes, LastOfType
<1>4. \A e : Held(e, accepted') = Held(e, accepted) + Held(e, batch)
  BY <1>1, HeldConcat
<1> QED BY <1>1, <1>2, <1>3, <1>4, HeldType

\* A delivery moves its copies into the store or, when the decoder raises, nowhere;
\* an answer that does not arrive leaves them to be delivered again.
LEMMA PostCopies ==
  ASSUME CopiesOK, NEW i \in DOMAIN sending, NEW answered \in BOOLEAN, Post(i, answered)
  PROVE  CopiesOK'
<1> DEFINE batch == sending[i]
<1>1. /\ batch \in Seq(Spans) /\ <<>> \in Seq(Spans)
      /\ lost \in [Spans -> Nat] /\ repeated \in [Spans -> Nat] /\ sending \in Seq(Seq(Spans))
      /\ Len(sending) <= SendingQueue
  BY DEF CopiesOK, SpanTypes
<1>2. /\ AddMany(IF Decodable(batch) THEN batch ELSE <<>>)
      /\ UNCHANGED <<outcome, queue, exporting, buffer>>
  BY DEF Post, Ingest, Decoded
<1>3. /\ accepted' \in Seq(Spans) /\ items' \in Seq(Spans) /\ Len(items') <= MaxItems
      /\ \A e : /\ Held(e, accepted') \in Nat /\ Held(e, batch) \in Nat
                /\ Held(e, accepted')
                     = Held(e, accepted) + IF Decodable(batch) THEN Held(e, batch) ELSE 0
  <2>1. CASE Decodable(batch)
    <3>1. AddMany(batch)
      BY <1>2, <2>1
    <3> HIDE DEF batch
    <3> QED BY <1>1, <2>1, <3>1, StoreCopies
  <2>2. CASE ~Decodable(batch)
    <3>1. AddMany(<<>>)
      BY <1>2, <2>2
    <3>2. \A e : Held(e, batch) \in Nat
      BY <1>1, HeldType
    <3>3. /\ accepted' \in Seq(Spans) /\ items' \in Seq(Spans) /\ Len(items') <= MaxItems
          /\ \A e : /\ Held(e, accepted) \in Nat
                    /\ Held(e, accepted') = Held(e, accepted) + Held(e, <<>>)
      BY <1>1, <3>1, StoreCopies
    <3> HIDE DEF batch
    <3> QED BY <2>2, <3>2, <3>3, HeldNothing
  <2> QED BY <2>1, <2>2
<1>4. \A e \in Spans : Due(e)' = Due(e)
  BY <1>2 DEF Due
<1>5. CASE answered
  <2>1. /\ sending' = RemoveAt(sending, i) /\ repeated' = repeated
        /\ lost' = IF Decodable(batch) THEN lost ELSE Plus(lost, batch)
    BY <1>5 DEF Post
  <2>2. /\ sending' \in Seq(Seq(Spans)) /\ Len(sending') <= SendingQueue
        /\ \A e \in Spans : /\ IsFiniteSet(Places(e, sending')) /\ HeldIn(e, sending') \in Nat
                            /\ HeldIn(e, sending') + Held(e, batch) = HeldIn(e, sending)
    BY <2>1, SendingRemoved
  <2> HIDE DEF batch
  <2>3. /\ lost' \in [Spans -> Nat]
        /\ \A e \in Spans : lost'[e] = lost[e] + IF Decodable(batch) THEN 0 ELSE Held(e, batch)
    <3>1. CASE Decodable(batch)
      BY <1>1, <2>1, <3>1
    <3>2. CASE ~Decodable(batch)
      <4>1. /\ Plus(lost, batch) \in [Spans -> Nat]
            /\ \A e \in Spans : Plus(lost, batch)[e] = lost[e] + Held(e, batch)
        <5>1. batch \in Seq(Spans) /\ lost \in [Spans -> Nat]
          BY <1>1
        <5> QED BY <5>1, Adding
      <4> QED BY <2>1, <3>2, <4>1
    <3> QED BY <3>1, <3>2
  <2>4. SpanTypes'
    BY <1>2, <1>3, <2>1, <2>2, <2>3 DEF CopiesOK, SpanTypes
  <2>5. PlacesOK'
    BY <1>2, <2>2 DEF CopiesOK, PlacesOK
  <2>6. Accounted'
    <3> SUFFICES ASSUME NEW e \in Spans
                 PROVE  HeldIn(e, queue) + HeldIn(e, exporting) + Held(e, buffer) + HeldIn(e, sending')
                          + Held(e, accepted') + lost'[e] = repeated[e] + Due(e)
      BY <1>2, <1>4, <2>1 DEF Accounted
    <3>1. HeldIn(e, queue) + HeldIn(e, exporting) + Held(e, buffer) + HeldIn(e, sending)
            + Held(e, accepted) + lost[e] = repeated[e] + Due(e)
      BY DEF CopiesOK, Accounted
    <3>2. /\ HeldIn(e, queue) \in Nat /\ HeldIn(e, exporting) \in Nat /\ Held(e, buffer) \in Nat
          /\ HeldIn(e, sending) \in Nat /\ Held(e, accepted) \in Nat /\ lost[e] \in Nat
      BY CopyTypes
    <3>3. /\ HeldIn(e, sending') \in Nat /\ Held(e, accepted') \in Nat /\ lost'[e] \in Nat
      BY <1>3, <2>2, <2>3
    <3>4. HeldIn(e, sending') + Held(e, accepted') + lost'[e]
            = HeldIn(e, sending) + Held(e, accepted) + lost[e]
      <4>1. /\ HeldIn(e, sending') + Held(e, batch) = HeldIn(e, sending) /\ Held(e, batch) \in Nat
            /\ lost'[e] = lost[e] + IF Decodable(batch) THEN 0 ELSE Held(e, batch)
            /\ Held(e, accepted') = Held(e, accepted) + IF Decodable(batch) THEN Held(e, batch) ELSE 0
        BY <1>3, <2>2, <2>3
      <4> QED BY <3>2, <3>3, <4>1
    <3> QED BY <3>1, <3>2, <3>3, <3>4
  <2> QED BY <2>4, <2>5, <2>6 DEF CopiesOK
<1>6. CASE ~answered
  <2>1. /\ sending' = sending /\ lost' = lost
        /\ repeated' = IF Decodable(batch) THEN Plus(repeated, batch) ELSE repeated
    BY <1>6 DEF Post
  <2> HIDE DEF batch
  <2>2. /\ repeated' \in [Spans -> Nat]
        /\ \A e \in Spans : repeated'[e] = repeated[e] + IF Decodable(batch) THEN Held(e, batch) ELSE 0
    <3>1. CASE ~Decodable(batch)
      BY <1>1, <2>1, <3>1
    <3>2. CASE Decodable(batch)
      <4>1. /\ Plus(repeated, batch) \in [Spans -> Nat]
            /\ \A e \in Spans : Plus(repeated, batch)[e] = repeated[e] + Held(e, batch)
        <5>1. batch \in Seq(Spans) /\ repeated \in [Spans -> Nat]
          BY <1>1
        <5> QED BY <5>1, Adding
      <4> QED BY <2>1, <3>2, <4>1
    <3> QED BY <3>1, <3>2
  <2>3. SpanTypes'
    BY <1>2, <1>3, <2>1, <2>2 DEF CopiesOK, SpanTypes
  <2>4. PlacesOK'
    BY <1>2, <2>1 DEF CopiesOK, PlacesOK
  <2>5. Accounted'
    <3> SUFFICES ASSUME NEW e \in Spans
                 PROVE  HeldIn(e, queue) + HeldIn(e, exporting) + Held(e, buffer) + HeldIn(e, sending)
                          + Held(e, accepted') + lost[e] = repeated'[e] + Due(e)
      BY <1>2, <1>4, <2>1 DEF Accounted
    <3>1. HeldIn(e, queue) + HeldIn(e, exporting) + Held(e, buffer) + HeldIn(e, sending)
            + Held(e, accepted) + lost[e] = repeated[e] + Due(e)
      BY DEF CopiesOK, Accounted
    <3>2. /\ HeldIn(e, queue) \in Nat /\ HeldIn(e, exporting) \in Nat /\ Held(e, buffer) \in Nat
          /\ HeldIn(e, sending) \in Nat /\ Held(e, accepted) \in Nat /\ lost[e] \in Nat
          /\ repeated[e] \in Nat
      BY CopyTypes
    <3>3. \E n \in Nat : Held(e, accepted') = Held(e, accepted) + n /\ repeated'[e] = repeated[e] + n
      BY <1>3, <2>2
    <3>4. Due(e) \in Nat
      BY DEF Due
    <3> QED BY <3>1, <3>2, <3>3, <3>4
  <2> QED BY <2>3, <2>4, <2>5 DEF CopiesOK
<1> QED BY <1>5, <1>6

LEMMA RestartDiagnosisCopies ==
  ASSUME CopiesOK, RestartDiagnosis
  PROVE  CopiesOK'
<1>1. /\ lost' = Plus(lost, accepted) /\ items' = <<>> /\ accepted' = <<>>
      /\ UNCHANGED <<outcome, queue, exporting, buffer, sending, repeated>>
      /\ lost \in [Spans -> Nat] /\ accepted \in Seq(Spans)
  BY DEF RestartDiagnosis, Clear, collectorVars, CopiesOK, SpanTypes
<1>2. /\ lost' \in [Spans -> Nat]
      /\ \A e \in Spans : lost'[e] = lost[e] + Held(e, accepted)
  BY <1>1, Adding
<1>3. SpanTypes'
  <2>1. \A T : <<>> \in Seq(T) /\ Len(<<>>) = 0
    OBVIOUS
  <2> QED BY <1>1, <1>2, <2>1, PositiveSizes DEF CopiesOK, SpanTypes
<1>4. PlacesOK'
  BY <1>1 DEF CopiesOK, PlacesOK
<1>5. \A e \in Spans : Due(e)' = Due(e) /\ Held(e, accepted') = 0
  BY <1>1, HeldNothing DEF Due
<1>6. Accounted'
  <2> SUFFICES ASSUME NEW e \in Spans
               PROVE  HeldIn(e, queue) + HeldIn(e, exporting) + Held(e, buffer) + HeldIn(e, sending)
                        + Held(e, accepted') + lost'[e] = repeated[e] + Due(e)
    BY <1>1, <1>5 DEF Accounted
  <2>1. HeldIn(e, queue) + HeldIn(e, exporting) + Held(e, buffer) + HeldIn(e, sending)
          + Held(e, accepted) + lost[e] = repeated[e] + Due(e)
    BY DEF CopiesOK, Accounted
  <2>2. /\ HeldIn(e, queue) \in Nat /\ HeldIn(e, exporting) \in Nat /\ Held(e, buffer) \in Nat
        /\ HeldIn(e, sending) \in Nat /\ Held(e, accepted) \in Nat /\ lost[e] \in Nat
    BY CopyTypes
  <2> QED BY <1>2, <1>5, <2>1, <2>2
<1> QED BY <1>3, <1>4, <1>6 DEF CopiesOK

LEMMA CopiesStep ==
  ASSUME CountsOK, CopiesOK, [Next]_vars
  PROVE  CopiesOK'
<1>1. ASSUME NEW r \in Requests, Arrive(r) PROVE CopiesOK'
  BY <1>1, ArriveCopies
<1>2. ASSUME NEW r \in Requests, NEW result \in Ended, End(r, result) PROVE CopiesOK'
  BY <1>2, EndCopies
<1>3. ASSUME NEW s \in Services, TakeBatch(s) PROVE CopiesOK'
  BY <1>3, TakeCopies
<1>4. ASSUME NEW s \in Services, GiveUpExport(s) PROVE CopiesOK'
  BY <1>4, GiveUpExportCopies
<1>5. ASSUME NEW s \in Services, RestartService(s) PROVE CopiesOK'
  BY <1>5, RestartCopies
<1>6. ASSUME NEW s \in Services, NEW answered \in BOOLEAN, Export(s, answered) PROVE CopiesOK'
  BY <1>6, ExportCopies
<1>7. ASSUME NEW x \in Foreign, ForeignExport(x) PROVE CopiesOK'
  BY <1>7, ForeignCopies
<1>8. ASSUME HandOver PROVE CopiesOK'
  BY <1>8, HandOverCopies
<1>9. ASSUME NEW i \in DOMAIN sending, GiveUpBatch(i) PROVE CopiesOK'
  BY <1>9, GiveUpBatchCopies
<1>10. ASSUME NEW i \in DOMAIN sending, NEW answered \in BOOLEAN, Post(i, answered) PROVE CopiesOK'
  BY <1>10, PostCopies
<1>11. ASSUME RestartCollector PROVE CopiesOK'
  BY <1>11, RestartCollectorCopies
<1>12. ASSUME RestartDiagnosis PROVE CopiesOK'
  BY <1>12, RestartDiagnosisCopies
<1>13. CASE UNCHANGED vars
  <2>1. \A e \in Spans : Due(e)' = Due(e)
    BY <1>13 DEF vars, Due
  <2> QED BY <1>13, <2>1, NothingMoves DEF vars, collectorVars, history
<1> QED BY <1>1, <1>2, <1>3, <1>4, <1>5, <1>6, <1>7, <1>8, <1>9, <1>10, <1>11, <1>12, <1>13 DEF Next

LEMMA PipelineInvariant == Spec => [](CountsOK /\ CopiesOK)
<1>1. CountsOK /\ CopiesOK /\ [Next]_vars => (CountsOK /\ CopiesOK)'
  BY CountsStep, CopiesStep
<1> QED BY <1>1, CountsInit, CopiesInit, PTL DEF Spec

\* Queues, batches and the store stay within their sizes and hold only spans of
\* requests or of foreign exporters (telemetry.py, otel-collector.yaml, model.py).
THEOREM PipelineTypeCorrect == Spec => []TypeOK
<1>1. CountsOK /\ CopiesOK => TypeOK
  BY DEF CountsOK, RequestsOK, CopiesOK, SpanTypes, TypeOK, Spans
<1> QED BY <1>1, PipelineInvariant, PTL

\* Every copy of a span is on its way, accepted by the store or known to be dropped,
\* and only a repeated delivery makes another, for any number of services, requests,
\* batches, unanswered deliveries and crashes.
THEOREM CopiesTheorem == Spec => []EveryCopyAccounted
<1>1. CopiesOK => EveryCopyAccounted
  BY DEF CopiesOK, Accounted, EveryCopyAccounted, OnTheWay, Due
<1> QED BY <1>1, PipelineInvariant, PTL
===============================================================================
