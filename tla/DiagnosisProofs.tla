--------------------------- MODULE DiagnosisProofs ---------------------------
(***************************************************************************)
(* Theorems about module Diagnosis, for every value of its constants.      *)
(*                                                                         *)
(* Deduplication rests on an inductive invariant: the registry is sorted   *)
(* by creation time and nothing in it is younger than the clock.  Only     *)
(* then does stopping at the first incident that is too old miss nothing.  *)
(***************************************************************************)
EXTENDS Diagnosis, CorrelationProofs

------------------------------------------------------------------------------
(* The decoders produce evidence. *)

LEMMA IdentifiedType ==
  ASSUME NEW id \in Nat, NEW e,
         e.timestamp \in Int, e.service \in STRING, e.kind \in EvidenceKinds,
         e.name \in STRING, e.value \in Int, e.span_kind \in SpanSides \cup {NoSide}, e.db \in BOOLEAN
  PROVE  Identified(id, e) \in EvidenceType
  BY DEF Identified, EvidenceType

LEMMA SpanEvidenceType ==
  ASSUME NEW span \in SpanType, NEW id \in Nat
  PROVE  Identified(id, SpanEvidence(span)) \in EvidenceType
<1>1. /\ span.start \in Int /\ span.end \in Int /\ span.end - span.start \in Int
      /\ span.service \in STRING /\ span.name \in STRING /\ span.span_kind \in SpanSides \cup {NoSide}
      /\ span.db \in BOOLEAN
  BY DEF SpanType
<1>2. SpanKind(span) \in EvidenceKinds
  BY DEF SpanKind, EvidenceKinds
<1> QED BY <1>1, <1>2 DEF Identified, SpanEvidence, EvidenceType

LEMMA MetricEvidenceType ==
  ASSUME NEW point \in PointType, NEW id \in Nat
  PROVE  Identified(id, MetricEvidence(point)) \in EvidenceType
<1>1. point.time \in Int /\ point.service \in STRING /\ point.name \in STRING
  BY DEF PointType
<1>2. PointValue(point) \in Int
  <2>1. CASE "count" \in DOMAIN point
    <3>1. point \in [service : STRING, name : STRING, time : Int, sum : Int, count : Nat]
      BY <2>1 DEF PointType
    <3>2. point.count \in Nat /\ point.sum \in Int
      BY <3>1
    <3>3. CASE point.count = 0
      BY <2>1, <3>3 DEF PointValue
    <3>4. CASE point.count # 0
      <4>1. point.sum \div point.count \in Int
        BY <3>2, <3>4
      <4> QED BY <2>1, <3>4, <4>1 DEF PointValue
    <3> QED BY <3>3, <3>4
  <2>2. CASE "count" \notin DOMAIN point
    <3>1. point \in [service : STRING, name : STRING, time : Int, value : Int]
      BY <2>2 DEF PointType
    <3> QED BY <2>2, <3>1 DEF PointValue
  <2> QED BY <2>1, <2>2
<1>3. "metric" \in EvidenceKinds
  BY DEF EvidenceKinds
<1> DEFINE e == MetricEvidence(point)
<1>4. e.timestamp \in Int /\ e.service \in STRING /\ e.name \in STRING /\ e.value \in Int
  BY <1>1, <1>2 DEF MetricEvidence
<1>5. e.kind \in EvidenceKinds
  BY <1>3 DEF MetricEvidence
<1>6. e.db \in BOOLEAN /\ e.span_kind \in SpanSides \cup {NoSide}
  BY Zenon DEF MetricEvidence
<1> HIDE DEF e
<1>7. Identified(id, e) \in EvidenceType
  BY <1>4, <1>5, <1>6, IdentifiedType
<1> QED BY <1>7 DEF e

LEMMA LogEvidenceType ==
  ASSUME NEW record \in RecordType, NEW id \in Nat
  PROVE  Identified(id, LogEvidence(record)) \in EvidenceType
<1> DEFINE event == IF record.event_name = "none" THEN record.body ELSE record.event_name
           time  == IF record.time # 0 THEN record.time ELSE record.observed_time
<1>1. event \in STRING /\ time \in Int /\ record.service \in STRING
  BY DEF RecordType
<1>2. ASSUME NEW e, NEW b PROVE LogKind(e, b) \in EvidenceKinds
  BY DEF LogKind, EvidenceKinds
<1> DEFINE e == LogEvidence(record)
<1>3. e.timestamp = time /\ e.name = event /\ e.kind = LogKind(event, record.body)
  BY DEF LogEvidence
<1>4. e.service \in STRING /\ e.value \in Int
  BY <1>1 DEF LogEvidence
<1>5. e.db \in BOOLEAN /\ e.span_kind \in SpanSides \cup {NoSide}
  BY Zenon DEF LogEvidence
<1> HIDE DEF event, time, e
<1>6. Identified(id, e) \in EvidenceType
  BY <1>1, <1>2, <1>3, <1>4, <1>5, IdentifiedType
<1> QED BY <1>6 DEF e

\* Whatever its signal, a request decodes to a sequence of evidence.
LEMMA DecodeType ==
  ASSUME NEW request, IsRequest(request), NEW drawn \in Nat
  PROVE  Decode(request, drawn) \in Seq(EvidenceType)
<1> DEFINE n == Len(request.records)
           Made(i) == Identified(drawn + i, DecodeOne(request.signal, request.records[i]))
<1>1. n \in Nat /\ DOMAIN request.records = 1..n
  BY DEF IsRequest
<1>2. ASSUME NEW i \in 1..n PROVE Made(i) \in EvidenceType
  <2>1. drawn + i \in Nat
    BY <1>1
  <2>2. CASE request.signal = "traces" /\ request.records \in Seq(SpanType)
    <3>1. request.records[i] \in SpanType
      BY <1>2, <2>2
    <3>2. Made(i) = Identified(drawn + i, SpanEvidence(request.records[i]))
      BY <2>2 DEF DecodeOne
    <3> QED BY <2>1, <3>1, <3>2, SpanEvidenceType
  <2>3. CASE request.signal = "metrics" /\ request.records \in Seq(PointType)
    <3>1. request.records[i] \in PointType
      BY <1>2, <2>3
    <3>2. Made(i) = Identified(drawn + i, MetricEvidence(request.records[i]))
      BY <2>3 DEF DecodeOne
    <3> QED BY <2>1, <3>1, <3>2, MetricEvidenceType
  <2>4. CASE request.signal = "logs" /\ request.records \in Seq(RecordType)
    <3>1. request.records[i] \in RecordType
      BY <1>2, <2>4
    <3>2. Made(i) = Identified(drawn + i, LogEvidence(request.records[i]))
      BY <2>4 DEF DecodeOne
    <3> QED BY <2>1, <3>1, <3>2, LogEvidenceType
  <2> QED BY <2>2, <2>3, <2>4 DEF IsRequest
<1>3. Decode(request, drawn) = [i \in 1..n |-> Made(i)]
  BY <1>1 DEF Decode
<1> HIDE DEF n, Made
<1> QED BY <1>1, <1>2, <1>3, IsASeq

------------------------------------------------------------------------------
(* What an analysis returns. *)

\* An incident is dated with the time of the analysis that found it.
LEMMA AnalysisDated ==
  ASSUME NEW its, NEW t, AnalyzeAt(its, t) # NoIncident
  PROVE  /\ AnalyzeAt(its, t).title \in Titles
         /\ AnalyzeAt(its, t).status = "firing"
         /\ AnalyzeAt(its, t).created_at = t
  BY DEF AnalyzeAt, NoIncident, Titles

\* What registering an incident does to the registry.
LEMMA AppendShape ==
  ASSUME NEW s, NEW e, NEW t, t = Append(s, e), s \in Seq({s[i] : i \in DOMAIN s})
  PROVE  /\ Len(s) \in Nat /\ DOMAIN s = 1..Len(s)
         /\ Len(t) = Len(s) + 1 /\ DOMAIN t = 1..(Len(s) + 1)
         /\ \A i \in 1..Len(s) : t[i] = s[i]
         /\ t[Len(s) + 1] = e
         /\ t \in Seq({t[i] : i \in DOMAIN t})
<1> DEFINE R == {s[i] : i \in DOMAIN s} \cup {e}
<1>1. s \in Seq(R) /\ e \in R
  BY SeqMonotonic
<1> HIDE DEF R
<1>2. /\ t \in Seq(R) /\ Len(t) = Len(s) + 1
      /\ \A i \in 1..Len(s) : t[i] = s[i]
      /\ t[Len(s) + 1] = e
  BY <1>1, AppendProperties
<1>3. Len(s) \in Nat /\ DOMAIN s = 1..Len(s) /\ DOMAIN t = 1..Len(t)
  BY <1>1, <1>2, LenProperties
<1>4. t \in Seq({t[i] : i \in DOMAIN t})
  <2> DEFINE T == {t[i] : i \in DOMAIN t}
  <2>1. \A i \in 1..Len(t) : t[i] \in T
    BY <1>3
  <2>2. t = [i \in 1..Len(t) |-> t[i]] /\ Len(t) \in Nat
    BY <1>2, <1>3, LenProperties
  <2> HIDE DEF T
  <2>3. t \in Seq(T)
    BY <2>1, <2>2, IsASeq
  <2> QED BY <2>3 DEF T
<1> QED BY <1>2, <1>3, <1>4

------------------------------------------------------------------------------
(* The invariants. *)

\* Type correctness, with what bounds the store.
THEOREM TypeCorrect == Spec => []TypeOK
<1>1. Init => TypeOK
  <2> SUFFICES ASSUME Init PROVE TypeOK
    OBVIOUS
  <2>1. <<>> \in Seq(EvidenceType) /\ Len(<<>>) <= MaxItems
    BY MaxItemsAssumption
  <2>2. incidents \in Seq({incidents[i] : i \in DOMAIN incidents})
        /\ DOMAIN incidents = {}
    BY DEF Init
  <2> QED BY <2>1, <2>2, DiagnosisAssumption DEF Init, StoreInit, TypeOK, NoAnswer
<1>2. TypeOK /\ [Next]_vars => TypeOK'
  <2> SUFFICES ASSUME TypeOK, [Next]_vars PROVE TypeOK'
    OBVIOUS
  <2>0. MaxItems \in Nat /\ MaxItems > 0
    BY MaxItemsAssumption
  <2>1. ASSUME NEW request \in RequestsAt(now), Ingest(request) PROVE TypeOK'
    <3>1. CASE Decodable(request)
      <4> DEFINE batch == Decode(request, Len(accepted))
      <4>1. batch \in Seq(EvidenceType)
        <5>1. IsRequest(request)
          BY DiagnosisAssumption DEF TypeOK
        <5>2. Len(accepted) \in Nat
          BY LenProperties DEF TypeOK
        <5> QED BY <5>1, <5>2, DecodeType
      <4>2. AddMany(batch)
        BY <2>1, <3>1 DEF Ingest
      <4> HIDE DEF batch
      <4>3. items \o batch \in Seq(EvidenceType) /\ accepted \o batch \in Seq(EvidenceType)
        BY <4>1, ConcatProperties DEF TypeOK
      <4>4. items' \in Seq(EvidenceType) /\ Len(items') <= MaxItems
        <5> DEFINE s == items \o batch
        <5>1. items' = LastOf(MaxItems, s)
          BY <4>2 DEF AddMany, Retained
        <5>2. s \in Seq(EvidenceType)
          BY <4>3
        <5> HIDE DEF s
        <5> QED BY <2>0, <5>1, <5>2, LastOfType
      <4>5. accepted' \in Seq(EvidenceType)
        BY <4>2, <4>3 DEF AddMany
      <4>6. UNCHANGED <<now, incidents, answer>>
        BY <2>1 DEF Ingest
      <4> QED BY <4>4, <4>5, <4>6 DEF TypeOK
    <3>2. CASE ~Decodable(request)
      BY <2>1, <3>2 DEF Ingest, TypeOK, storeVars
    <3> QED BY <3>1, <3>2
  <2>2. ASSUME Analyze PROVE TypeOK'
    <3> DEFINE found == AnalyzeAt(items, now)
    <3>1. UNCHANGED <<items, accepted, now>>
      BY <2>2 DEF Analyze, storeVars
    <3>2. answer'.kind \in {"none", "new", "duplicate"}
      BY <2>2 DEF Analyze, NoAnswer
    <3>3. CASE UNCHANGED incidents
      BY <3>1, <3>2, <3>3 DEF TypeOK
    <3>4. CASE found # NoIncident /\ incidents' = Append(incidents, found)
      <4>1. found.title \in Titles /\ found.status = "firing" /\ found.created_at \in Int
        BY <3>4, AnalysisDated, DiagnosisAssumption DEF TypeOK
      <4> HIDE DEF found
      <4>2. /\ incidents' \in Seq({incidents'[i] : i \in DOMAIN incidents'})
            /\ Len(incidents) \in Nat /\ DOMAIN incidents = 1..Len(incidents)
            /\ DOMAIN incidents' = 1..(Len(incidents) + 1)
            /\ \A i \in 1..Len(incidents) : incidents'[i] = incidents[i]
            /\ incidents'[Len(incidents) + 1] = found
        <5>1. incidents \in Seq({incidents[i] : i \in DOMAIN incidents})
          BY DEF TypeOK
        <5>2. incidents' = Append(incidents, found)
          BY <3>4
        <5> QED BY <5>1, <5>2, AppendShape
      <4>3. ASSUME NEW i \in DOMAIN incidents'
            PROVE  /\ incidents'[i].title \in Titles
                   /\ incidents'[i].status = "firing"
                   /\ incidents'[i].created_at \in Int
        <5>1. CASE i \in DOMAIN incidents
          BY <4>2, <5>1 DEF TypeOK
        <5>2. CASE i = Len(incidents) + 1
          BY <4>1, <4>2, <5>2
        <5> QED BY <4>2, <5>1, <5>2
      <4> QED BY <3>1, <3>2, <4>2, <4>3 DEF TypeOK
    <3> QED BY <2>2, <3>3, <3>4 DEF Analyze
  <2>3. ASSUME NEW payload \in AlertPayloads, ReceiveAlerts(payload) PROVE TypeOK'
    BY <2>3 DEF ReceiveAlerts, TypeOK, storeVars
  <2>4. ASSUME ClockMoves PROVE TypeOK'
    BY <2>4 DEF ClockMoves, TypeOK, storeVars
  <2>5. ASSUME Restart PROVE TypeOK'
    <3>1. <<>> \in Seq(EvidenceType) /\ Len(<<>>) <= MaxItems
      BY <2>0
    <3>2. incidents' \in Seq({incidents'[i] : i \in DOMAIN incidents'})
          /\ DOMAIN incidents' = {}
      BY <2>5 DEF Restart
    <3> QED BY <2>5, <3>1, <3>2 DEF Restart, Clear, TypeOK, NoAnswer
  <2>6. CASE UNCHANGED vars
    BY <2>6 DEF vars, TypeOK
  <2> QED BY <2>1, <2>2, <2>3, <2>4, <2>5, <2>6 DEF Next
<1> QED BY <1>1, <1>2, PTL DEF Spec

\* At every time, an analysis sees the newest MaxItems pieces of evidence.
THEOREM StoreCorrect == Spec => []StoreHoldsNewest
<1>0. MaxItems \in Nat /\ MaxItems > 0
  BY MaxItemsAssumption
<1>1. Init => StoreHoldsNewest
  <2> SUFFICES ASSUME Init PROVE StoreHoldsNewest
    OBVIOUS
  <2>1. <<>> \in Seq(EvidenceType) /\ Len(<<>>) <= MaxItems
    BY <1>0
  <2>2. LastOf(MaxItems, <<>>) = <<>>
    BY <1>0, <2>1, LastOfShort
  <2> QED BY <2>2 DEF Init, StoreInit, StoreHoldsNewest
<1>2. TypeOK /\ StoreHoldsNewest /\ [Next]_vars => StoreHoldsNewest'
  <2> SUFFICES ASSUME TypeOK, StoreHoldsNewest, [Next]_vars PROVE StoreHoldsNewest'
    OBVIOUS
  <2>0. items \in Seq(EvidenceType) /\ accepted \in Seq(EvidenceType)
    BY DEF TypeOK
  <2>1. ASSUME NEW request \in RequestsAt(now), Ingest(request) PROVE StoreHoldsNewest'
    <3>1. CASE Decodable(request)
      <4>1. IsRequest(request) /\ Len(accepted) \in Nat
        BY <2>0, DiagnosisAssumption, LenProperties DEF TypeOK
      <4>2. Decode(request, Len(accepted)) \in Seq(EvidenceType)
        BY <4>1, DecodeType
      <4>3. AddMany(Decode(request, Len(accepted)))
        BY <2>1, <3>1 DEF Ingest
      <4> QED BY <2>0, <4>2, <4>3, StoreStep
    <3>2. CASE ~Decodable(request)
      BY <2>1, <3>2 DEF Ingest, storeVars, StoreHoldsNewest
    <3> QED BY <3>1, <3>2
  <2>2. CASE Restart
    BY <2>0, <2>2, StoreStep DEF Restart
  <2>3. CASE UNCHANGED storeVars
    BY <2>3 DEF storeVars, StoreHoldsNewest
  <2>4. ASSUME Analyze \/ (\E payload \in AlertPayloads : ReceiveAlerts(payload))
               \/ ClockMoves \/ UNCHANGED vars
        PROVE  UNCHANGED storeVars
    BY <2>4 DEF Analyze, ReceiveAlerts, ClockMoves, vars, storeVars
  <2> QED BY <2>1, <2>2, <2>3, <2>4 DEF Next
<1> QED BY <1>1, <1>2, TypeCorrect, PTL DEF Spec

------------------------------------------------------------------------------
(* Deduplication. *)

\* All that a step can do to the registry and to the clock.
LEMMA RegistryStep ==
  ASSUME TypeOK, [Next]_vars
  PROVE  \/ UNCHANGED <<incidents, now>>
         \/ UNCHANGED incidents /\ \E d \in ClockSteps : now' = now + d
         \/ incidents' = <<>> /\ UNCHANGED now
         \/ /\ \E found : /\ incidents' = Append(incidents, found)
                          /\ found.created_at = now
                          /\ Duplicates(found) = {}
            /\ UNCHANGED now
<1>1. ASSUME Analyze, ~UNCHANGED incidents
      PROVE  /\ \E found : /\ incidents' = Append(incidents, found)
                           /\ found.created_at = now
                           /\ Duplicates(found) = {}
             /\ UNCHANGED now
  <2> DEFINE found == AnalyzeAt(items, now)
  <2>1. found # NoIncident /\ incidents' = Append(incidents, found) /\ Duplicates(found) = {}
    BY <1>1 DEF Analyze
  <2>2. found.created_at = now
    BY <2>1, AnalysisDated
  <2> QED BY <1>1, <2>1, <2>2 DEF Analyze
<1>2. ASSUME Analyze PROVE UNCHANGED now
  BY <1>2 DEF Analyze
<1>3. CASE Restart
  BY <1>3 DEF Restart
<1>4. CASE ClockMoves
  BY <1>4 DEF ClockMoves
<1>5. CASE \/ \E request \in RequestsAt(now) : Ingest(request)
           \/ \E payload \in AlertPayloads : ReceiveAlerts(payload)
           \/ UNCHANGED vars
  BY <1>5 DEF Ingest, ReceiveAlerts, vars
<1> QED BY <1>1, <1>2, <1>3, <1>4, <1>5 DEF Next

\* An incident that is registered has no duplicate where the scan would look.
LEMMA NotScanned ==
  ASSUME NEW found, Duplicates(found) = {}, NEW i \in DOMAIN incidents,
         Fingerprint(incidents[i]) = Fingerprint(found)
  PROVE  \E j \in i..Len(incidents) : ~(found.created_at - incidents[j].created_at <= DedupWindow)
  BY DEF Duplicates, ScanReaches

\* The newest incident absorbs its own duplicates, whatever the clock does:
\* nothing stands between it and the scan.
THEOREM NeighboursTheorem == Spec => []NeighboursDiffer
<1>1. Init => NeighboursDiffer
  BY DEF Init, NeighboursDiffer
<1>2. TypeOK /\ NeighboursDiffer /\ [Next]_vars => NeighboursDiffer'
  <2> SUFFICES ASSUME TypeOK, NeighboursDiffer, [Next]_vars PROVE NeighboursDiffer'
    OBVIOUS
  <2>1. CASE UNCHANGED incidents
    BY <2>1 DEF NeighboursDiffer, Fingerprint
  <2>2. CASE incidents' = <<>>
    BY <2>2 DEF NeighboursDiffer
  <2>3. ASSUME NEW found, incidents' = Append(incidents, found),
               found.created_at = now, Duplicates(found) = {}
        PROVE  NeighboursDiffer'
    <3> DEFINE n == Len(incidents)
    <3>1. /\ n \in Nat /\ DOMAIN incidents = 1..n
          /\ Len(incidents') = n + 1
          /\ \A i \in 1..n : incidents'[i] = incidents[i]
          /\ incidents'[n + 1] = found
      <4>1. incidents \in Seq({incidents[i] : i \in DOMAIN incidents})
        BY DEF TypeOK
      <4> QED BY <2>3, <4>1, AppendShape
    <3> SUFFICES ASSUME NEW i \in 1..n,
                        Fingerprint(incidents'[i]) = Fingerprint(incidents'[i + 1])
                 PROVE  incidents'[i + 1].created_at - incidents'[i].created_at > DedupWindow
      BY <3>1 DEF NeighboursDiffer, Fingerprint
    <3>2. CASE i < n
      <4>1. i + 1 \in 1..n /\ i \in 1..(Len(incidents) - 1)
        BY <3>1, <3>2
      <4>2. incidents'[i] = incidents[i] /\ incidents'[i + 1] = incidents[i + 1]
        BY <3>1, <4>1
      <4> QED BY <4>1, <4>2 DEF NeighboursDiffer
    <3>3. CASE i = n
      <4>1. incidents'[i] = incidents[n] /\ incidents'[i + 1] = found /\ n \in DOMAIN incidents
        BY <3>1, <3>3
      <4>2. \E j \in n..n : ~(now - incidents[j].created_at <= DedupWindow)
        BY <2>3, <4>1, NotScanned
      <4>3. ~(now - incidents[n].created_at <= DedupWindow)
        BY <3>1, <4>2
      <4>4. now \in Int /\ incidents[n].created_at \in Int /\ DedupWindow \in Int
        BY <4>1, DiagnosisAssumption DEF TypeOK
      <4>5. now - incidents[n].created_at > DedupWindow
        BY <4>3, <4>4
      <4>6. incidents'[i + 1].created_at = now
        BY <2>3, <4>1
      <4> QED BY <3>3, <4>1, <4>5, <4>6
    <3>4. i < n \/ i = n
      <4>1. n \in Nat
        BY <3>1
      <4> HIDE DEF n
      <4> QED BY <4>1
    <3> QED BY <3>2, <3>3, <3>4
  <2> QED BY <2>1, <2>2, <2>3, RegistryStep
<1> QED BY <1>1, <1>2, TypeCorrect, PTL DEF Spec

\* The registry is sorted by creation time and none of it lies in the future.
RegistryOrdered ==
  /\ \A i \in DOMAIN incidents : incidents[i].created_at <= now
  /\ \A i, j \in DOMAIN incidents :
       i < j => incidents[i].created_at <= incidents[j].created_at

\* In such a registry the scan misses no duplicate.
LEMMA ScanComplete ==
  ASSUME TypeOK, RegistryOrdered, NEW found, found.created_at = now,
         Duplicates(found) = {}, NEW i \in DOMAIN incidents,
         Fingerprint(incidents[i]) = Fingerprint(found)
  PROVE  now - incidents[i].created_at > DedupWindow
<1>1. Len(incidents) \in Nat /\ DOMAIN incidents = 1..Len(incidents)
  BY LenProperties DEF TypeOK
<1>2. PICK j \in i..Len(incidents) : ~(now - incidents[j].created_at <= DedupWindow)
  BY NotScanned
<1>3. j \in DOMAIN incidents /\ (j = i \/ i < j)
  BY <1>1
<1>4. incidents[i].created_at <= incidents[j].created_at
  BY <1>3 DEF RegistryOrdered, TypeOK
<1>5. /\ incidents[i].created_at \in Int /\ incidents[j].created_at \in Int
      /\ now \in Int /\ DedupWindow \in Int
  BY <1>3, DiagnosisAssumption DEF TypeOK
<1> QED BY <1>2, <1>4, <1>5

\* The inductive invariant, under a clock that is never set back.
LEMMA RegistryInductive ==
  ASSUME ClockSteps \subseteq Nat, TypeOK, RegistryOrdered, SameFingerprintApart, [Next]_vars
  PROVE  RegistryOrdered' /\ SameFingerprintApart'
<1>1. CASE UNCHANGED <<incidents, now>>
  BY <1>1 DEF RegistryOrdered, SameFingerprintApart, Fingerprint
<1>2. CASE UNCHANGED incidents /\ \E d \in ClockSteps : now' = now + d
  <2>1. PICK d \in Nat : now' = now + d
    BY <1>2
  <2>2. now \in Int /\ \A i \in DOMAIN incidents : incidents[i].created_at \in Int
    BY DiagnosisAssumption DEF TypeOK
  <2>3. \A i \in DOMAIN incidents : incidents[i].created_at <= now + d
    BY <2>1, <2>2 DEF RegistryOrdered
  <2> QED BY <1>2, <2>1, <2>3 DEF RegistryOrdered, SameFingerprintApart, Fingerprint
<1>3. CASE incidents' = <<>>
  BY <1>3 DEF RegistryOrdered, SameFingerprintApart
<1>4. ASSUME NEW found, incidents' = Append(incidents, found),
             found.created_at = now, Duplicates(found) = {}, UNCHANGED now
      PROVE  RegistryOrdered' /\ SameFingerprintApart'
  <2> DEFINE n == Len(incidents)
  <2>1. /\ n \in Nat /\ DOMAIN incidents = 1..n /\ DOMAIN incidents' = 1..(n + 1)
        /\ \A i \in 1..n : incidents'[i] = incidents[i]
        /\ incidents'[n + 1] = found
    <3>1. incidents \in Seq({incidents[i] : i \in DOMAIN incidents})
      BY DEF TypeOK
    <3> QED BY <1>4, <3>1, AppendShape
  <2>2. now \in Int /\ \A i \in 1..n : incidents[i].created_at \in Int
    BY <2>1, DiagnosisAssumption DEF TypeOK
  <2> HIDE DEF n
  <2>3. RegistryOrdered'
    <3>1. \A i \in 1..(n + 1) : incidents'[i].created_at <= now'
      <4>1. \A i \in 1..n : incidents'[i].created_at <= now
        BY <2>1 DEF RegistryOrdered
      <4>2. incidents'[n + 1].created_at <= now
        BY <1>4, <2>1, <2>2
      <4> QED BY <1>4, <2>1, <4>1, <4>2
    <3>2. ASSUME NEW i \in 1..(n + 1), NEW j \in 1..(n + 1), i < j
          PROVE  incidents'[i].created_at <= incidents'[j].created_at
      <4>1. i \in 1..n /\ (j \in 1..n \/ j = n + 1)
        BY <2>1, <3>2
      <4>2. CASE j \in 1..n
        BY <2>1, <3>2, <4>1, <4>2 DEF RegistryOrdered
      <4>3. CASE j = n + 1
        BY <1>4, <2>1, <4>1, <4>3 DEF RegistryOrdered
      <4> QED BY <4>1, <4>2, <4>3
    <3> QED BY <2>1, <3>1, <3>2 DEF RegistryOrdered
  <2>4. ASSUME NEW i \in 1..(n + 1), NEW j \in 1..(n + 1), i < j,
               Fingerprint(incidents'[i]) = Fingerprint(incidents'[j])
        PROVE  incidents'[j].created_at - incidents'[i].created_at > DedupWindow
    <3>1. i \in 1..n /\ (j \in 1..n \/ j = n + 1) /\ incidents'[i] = incidents[i]
      BY <2>1, <2>4
    <3>2. CASE j \in 1..n
      BY <2>1, <2>4, <3>1, <3>2 DEF SameFingerprintApart
    <3>3. CASE j = n + 1
      <4>1. incidents'[j] = found
        BY <2>1, <3>3
      <4>2. now - incidents[i].created_at > DedupWindow
        BY <1>4, <2>1, <2>4, <3>1, <4>1, ScanComplete
      <4> QED BY <1>4, <3>1, <4>1, <4>2
    <3> QED BY <3>1, <3>2, <3>3
  <2>5. SameFingerprintApart'
    BY <2>1, <2>4 DEF SameFingerprintApart, Fingerprint
  <2> QED BY <2>3, <2>5
<1> QED BY <1>1, <1>2, <1>3, <1>4, RegistryStep

\* Two incidents of one fingerprint are more than the window apart, as long as
\* the clock is never set back.
THEOREM Deduplication ==
  ASSUME ClockSteps \subseteq Nat
  PROVE  Spec => []SameFingerprintApart
<1>1. Init => RegistryOrdered /\ SameFingerprintApart
  BY DEF Init, RegistryOrdered, SameFingerprintApart
<1>2. TypeOK /\ RegistryOrdered /\ SameFingerprintApart /\ [Next]_vars
        => RegistryOrdered' /\ SameFingerprintApart'
  BY RegistryInductive
<1> QED BY <1>1, <1>2, TypeCorrect, PTL DEF Spec

------------------------------------------------------------------------------
(* What an analysis answers, and what the registry implements. *)

\* No analysis is answered with an incident older than the window, whatever the
\* clock does.
THEOREM Recency == Spec => DuplicateIsRecent
<1> DEFINE Recent == answer' # answer /\ answer'.kind = "duplicate"
                       => now - answer'.incident.created_at <= DedupWindow
<1>1. TypeOK /\ [Next]_vars => [Recent]_vars
  <2> SUFFICES ASSUME TypeOK, Next PROVE Recent
    OBVIOUS
  <2>1. CASE Analyze
    <3> DEFINE found == AnalyzeAt(items, now)
    <3>1. CASE answer' = NoAnswer
      BY <3>1 DEF NoAnswer
    <3>2. CASE answer' = [incident |-> found, kind |-> "new"]
      BY <3>2
    <3>3. CASE found # NoIncident
               /\ \E i \in Duplicates(found) :
                    answer' = [incident |-> incidents[i], kind |-> "duplicate"]
      <4>1. PICK i \in Duplicates(found) :
              answer' = [incident |-> incidents[i], kind |-> "duplicate"]
        BY <3>3
      <4>2. found.created_at = now
        BY <3>3, AnalysisDated
      <4> HIDE DEF found
      <4>3. i \in i..Len(incidents)
        <5>1. i \in DOMAIN incidents /\ DOMAIN incidents = 1..Len(incidents)
          BY <4>1, LenProperties DEF Duplicates, TypeOK
        <5>2. Len(incidents) \in Nat
          BY LenProperties DEF TypeOK
        <5> QED BY <5>1, <5>2
      <4>4. now - incidents[i].created_at <= DedupWindow
        BY <4>1, <4>2, <4>3 DEF Duplicates, ScanReaches
      <4> QED BY <4>1, <4>4
    <3> QED BY <2>1, <3>1, <3>2, <3>3 DEF Analyze
  <2>2. CASE Restart
    BY <2>2 DEF Restart, NoAnswer
  <2>3. CASE \/ \E request \in RequestsAt(now) : Ingest(request)
             \/ \E payload \in AlertPayloads : ReceiveAlerts(payload)
             \/ ClockMoves
    BY <2>3 DEF Ingest, ReceiveAlerts, ClockMoves
  <2> QED BY <2>1, <2>2, <2>3 DEF Next
<1> QED BY <1>1, TypeCorrect, PTL DEF Spec, DuplicateIsRecent

\* An answer names an incident of the registry, and none of its kind is newer:
\* what the scan reaches, it reaches together with everything after it.
THEOREM AnswerTheorem == Spec => []AnswerIsLatest
<1>1. Init => AnswerIsLatest
  BY DEF Init, AnswerIsLatest, NoAnswer
<1>2. TypeOK /\ AnswerIsLatest /\ [Next]_vars => AnswerIsLatest'
  <2> SUFFICES ASSUME TypeOK, AnswerIsLatest, [Next]_vars PROVE AnswerIsLatest'
    OBVIOUS
  <2> DEFINE n == Len(incidents)
             found == AnalyzeAt(items, now)
  <2>0. n \in Nat /\ DOMAIN incidents = 1..n
    BY LenProperties DEF TypeOK
  <2>1. CASE UNCHANGED <<incidents, answer>>
    BY <2>1 DEF AnswerIsLatest, Fingerprint
  <2>2. CASE answer' = NoAnswer
    BY <2>2 DEF AnswerIsLatest, NoAnswer
  <2>3. ASSUME NEW i \in Duplicates(found), IsLatest(i, Duplicates(found)),
               UNCHANGED incidents, answer' = [incident |-> incidents[i], kind |-> "duplicate"]
        PROVE  AnswerIsLatest'
    <3> HIDE DEF n, found
    <3>1. i \in DOMAIN incidents /\ ScanReaches(i, found.created_at)
          /\ Fingerprint(incidents[i]) = Fingerprint(found)
      BY <2>3 DEF Duplicates
    <3>2. ASSUME NEW j \in (i + 1)..n PROVE Fingerprint(incidents[j]) # Fingerprint(incidents[i])
      <4>1. j \in DOMAIN incidents /\ i < j /\ ~(j <= i) /\ \A k \in j..n : k \in i..n
        BY <2>0, <3>1
      <4>2. ScanReaches(j, found.created_at)
        BY <3>1, <4>1 DEF ScanReaches, n
      <4>3. j \notin Duplicates(found)
        BY <2>3, <4>1 DEF IsLatest
      <4> QED BY <3>1, <4>1, <4>2, <4>3 DEF Duplicates
    <3>3. answer'.incident = incidents[i] /\ incidents' = incidents
      BY <2>3
    <3>4. \E k \in DOMAIN incidents' :
            /\ incidents'[k] = answer'.incident
            /\ \A j \in (k + 1)..Len(incidents') :
                 Fingerprint(incidents'[j]) # Fingerprint(answer'.incident)
      BY <3>1, <3>2, <3>3 DEF n
    <3> QED BY <3>4 DEF AnswerIsLatest, Fingerprint
  <2>4. CASE incidents' = Append(incidents, found) /\ answer' = [incident |-> found, kind |-> "new"]
    <3> HIDE DEF found
    <3>1. /\ DOMAIN incidents' = 1..(n + 1) /\ Len(incidents') = n + 1
          /\ incidents'[n + 1] = found
      BY <2>4, AppendShape DEF TypeOK
    <3>2. answer'.incident = found
      BY <2>4
    <3>3. n + 1 \in DOMAIN incidents' /\ ((n + 1) + 1)..Len(incidents') = {}
      BY <2>0, <3>1
    <3> QED BY <3>1, <3>2, <3>3 DEF AnswerIsLatest
  <2>5. CASE Analyze
    BY <2>2, <2>3, <2>4, <2>5 DEF Analyze
  <2>6. CASE Restart
    BY <2>2, <2>6 DEF Restart
  <2>7. CASE \/ \E request \in RequestsAt(now) : Ingest(request)
             \/ \E payload \in AlertPayloads : ReceiveAlerts(payload)
             \/ ClockMoves
             \/ UNCHANGED vars
    BY <2>1, <2>7 DEF Ingest, ReceiveAlerts, ClockMoves, vars
  <2> QED BY <2>5, <2>6, <2>7 DEF Next
<1> QED BY <1>1, <1>2, TypeCorrect, PTL DEF Spec

\* The registry and its scan implement the ledger, as long as the clock is never
\* set back.
THEOREM Refinement ==
  ASSUME ClockSteps \subseteq Nat
  PROVE  Spec => ImplementsLedger
<1>1. Init => Ledger!Init
  BY DiagnosisAssumption DEF Init, Ledger!Init, Entries
<1>2. TypeOK /\ RegistryOrdered /\ [Next]_vars => [Ledger!Next]_(Ledger!ledgerVars)
  <2> SUFFICES ASSUME TypeOK, RegistryOrdered, [Next]_vars
               PROVE  [Ledger!Next]_(Ledger!ledgerVars)
    OBVIOUS
  <2> DEFINE Entry(incident) == [fingerprint |-> Fingerprint(incident), at |-> incident.created_at]
  <2>0. /\ Entries  = {Entry(incidents[i]) : i \in DOMAIN incidents}
        /\ Entries' = {Entry(incidents'[i]) : i \in DOMAIN incidents'}
    BY DEF Entries, Fingerprint
  <2>1. CASE UNCHANGED <<incidents, now>>
    BY <2>0, <2>1 DEF Ledger!ledgerVars
  <2>2. CASE UNCHANGED incidents /\ \E d \in ClockSteps : now' = now + d
    <3>1. PICK d \in Nat : now' = now + d
      BY <2>2
    <3>2. now' = now \/ now' > now
      BY <3>1, DiagnosisAssumption DEF TypeOK
    <3>3. Entries' = Entries
      BY <2>0, <2>2
    <3> QED BY <3>2, <3>3 DEF Ledger!ledgerVars, Ledger!Next, Ledger!Pass
  <2>3. CASE incidents' = <<>> /\ UNCHANGED now
    <3>1. Entries' = {}
      BY <2>0, <2>3
    <3> QED BY <2>3, <3>1 DEF Ledger!Next, Ledger!Lose
  <2>4. ASSUME NEW found, incidents' = Append(incidents, found),
               found.created_at = now, Duplicates(found) = {}, UNCHANGED now
        PROVE  Ledger!Raise
    <3> DEFINE n == Len(incidents)
               new == Entry(found)
    <3>1. /\ n \in Nat /\ DOMAIN incidents = 1..n /\ DOMAIN incidents' = 1..(n + 1)
          /\ \A i \in 1..n : incidents'[i] = incidents[i]
          /\ incidents'[n + 1] = found
      <4>1. incidents \in Seq({incidents[i] : i \in DOMAIN incidents})
        BY DEF TypeOK
      <4> QED BY <2>4, <4>1, AppendShape
    <3>2. new.at = now /\ new.fingerprint = Fingerprint(found)
      BY <2>4
    <3>3. Entries' = Entries \cup {new}
      <4> HIDE DEF n, Entry
      <4>1. ASSUME NEW e PROVE e \in Entries' <=> e \in Entries \cup {new}
        <5>1. e \in Entries' <=> \E i \in 1..(n + 1) : e = Entry(incidents'[i])
          BY <2>0, <3>1
        <5>2. e \in Entries <=> \E i \in 1..n : e = Entry(incidents[i])
          BY <2>0, <3>1
        <5>3. (\E i \in 1..(n + 1) : e = Entry(incidents'[i]))
                <=> (\E i \in 1..n : e = Entry(incidents'[i])) \/ e = Entry(incidents'[n + 1])
          <6>1. \A i : i \in 1..(n + 1) <=> i \in 1..n \/ i = n + 1
            BY <3>1
          <6> QED BY <6>1
        <5> QED BY <3>1, <5>1, <5>2, <5>3
      <4> QED BY <4>1
    <3>4. ASSUME NEW old \in Entries, old.fingerprint = new.fingerprint
          PROVE  now - old.at > DedupWindow
      <4>1. PICK i \in DOMAIN incidents : old = Entry(incidents[i])
        BY <2>0, <3>4
      <4>2. Fingerprint(incidents[i]) = Fingerprint(found) /\ old.at = incidents[i].created_at
        BY <3>2, <3>4, <4>1
      <4> QED BY <2>4, <4>1, <4>2, ScanComplete
    <3> HIDE DEF new
    <3> QED BY <2>4, <3>2, <3>3, <3>4 DEF Ledger!Raise
  <2> QED BY <2>1, <2>2, <2>3, <2>4, RegistryStep DEF Ledger!Next
<1>3. Init => RegistryOrdered /\ SameFingerprintApart
  BY DEF Init, RegistryOrdered, SameFingerprintApart
<1>4. TypeOK /\ RegistryOrdered /\ SameFingerprintApart /\ [Next]_vars
        => RegistryOrdered' /\ SameFingerprintApart'
  BY RegistryInductive
<1> QED BY <1>1, <1>2, <1>3, <1>4, TypeCorrect, PTL DEF Spec, ImplementsLedger, Ledger!Spec

------------------------------------------------------------------------------
(* The evidence behind an incident. *)

\* The evidence of a request is numbered where the last request left off.
LEMMA DecodeIds ==
  ASSUME NEW request, IsRequest(request), NEW drawn \in Nat,
         NEW batch, batch = Decode(request, drawn)
  PROVE  \A i \in 1..Len(batch) : batch[i].evidence_id = drawn + i
<1>1. batch \in Seq(EvidenceType)
  BY DecodeType
<1>2. DOMAIN batch = 1..Len(batch) /\ DOMAIN batch = DOMAIN request.records
  BY <1>1 DEF Decode
<1>3. ASSUME NEW i \in DOMAIN request.records PROVE batch[i].evidence_id = drawn + i
  BY DEF Decode, Identified
<1> QED BY <1>2, <1>3

\* An accepted item's id is its place among the accepted.
IdsArePlaces == \A k \in 1..Len(accepted) : accepted[k].evidence_id = k

\* An incident cites accepted items only: until the service restarts, none of
\* them is forgotten by anything but the store's capacity.
CitedAccepted ==
  \A i \in DOMAIN incidents : CitedIn(incidents[i]) \in SUBSET (1..Len(accepted))

LEMMA EvidenceIsList ==
  ASSUME NEW list, list \in Seq(EvidenceType)
  PROVE  IsList(list)
<1>1. DOMAIN list = 1..Len(list) /\ Len(list) \in Nat /\ \A i \in DOMAIN list : list[i] \in EvidenceType
  OBVIOUS
<1>2. IsFiniteSet(DOMAIN list)
  BY <1>1, FS_Interval
<1>3. \A i \in DOMAIN list : list[i].timestamp \in Int /\ list[i].value \in Int
  BY <1>1 DEF EvidenceType
<1> QED BY <1>1, <1>2, <1>3 DEF IsList

\* Which places of the accepted items the store holds.
LEMMA HeldPlaces ==
  ASSUME items \in Seq(EvidenceType), accepted \in Seq(EvidenceType), StoreHoldsNewest
  PROVE  /\ \A k \in DOMAIN items : \E p \in 1..Len(accepted) : items[k] = accepted[p]
         /\ \A p \in 1..Len(accepted) : p > Len(accepted) - MaxItems =>
              \E k \in DOMAIN items : items[k] = accepted[p]
<1>0. MaxItems \in Nat /\ MaxItems > 0 /\ items = LastOf(MaxItems, accepted)
  BY MaxItemsAssumption DEF StoreHoldsNewest
<1>1. Len(accepted) \in Nat /\ DOMAIN items = 1..Len(items) /\ Len(items) \in Nat
  OBVIOUS
<1>2. CASE Len(accepted) <= MaxItems
  <2>1. items = accepted
    BY <1>0, <1>2, LastOfShort
  <2> QED BY <1>1, <2>1
<1>3. CASE MaxItems <= Len(accepted)
  <2> DEFINE skipped == Len(accepted) - MaxItems
  <2>1. /\ Len(items) = MaxItems
        /\ \A i \in 1..MaxItems : items[i] = accepted[skipped + i]
    BY <1>0, <1>3, LastOfLong
  <2>2. skipped \in Nat /\ Len(accepted) = skipped + MaxItems
    BY <1>0, <1>1, <1>3
  <2> HIDE DEF skipped
  <2>3. ASSUME NEW k \in DOMAIN items PROVE \E p \in 1..Len(accepted) : items[k] = accepted[p]
    <3>1. k \in 1..MaxItems /\ skipped + k \in 1..Len(accepted)
      BY <1>0, <1>1, <2>1, <2>2
    <3> QED BY <2>1, <3>1
  <2>4. ASSUME NEW p \in 1..Len(accepted), p > Len(accepted) - MaxItems
        PROVE  \E k \in DOMAIN items : items[k] = accepted[p]
    <3>1. p - skipped \in 1..MaxItems /\ skipped + (p - skipped) = p
      BY <1>0, <1>1, <2>2, <2>4
    <3>2. items[p - skipped] = accepted[skipped + (p - skipped)] /\ p - skipped \in DOMAIN items
      BY <1>1, <2>1, <3>1
    <3> QED BY <3>1, <3>2
  <2> QED BY <2>3, <2>4
<1> QED BY <1>0, <1>1, <1>2, <1>3

\* An analysis cites what the store holds, hence accepted items.
LEMMA FoundCitesAccepted ==
  ASSUME TypeOK, StoreHoldsNewest, IdsArePlaces, NEW found, found = AnalyzeAt(items, now),
         found # NoIncident
  PROVE  CitedIn(found) \in SUBSET (1..Len(accepted))
<1>1. items \in Seq(EvidenceType) /\ accepted \in Seq(EvidenceType) /\ now \in Int
  BY DiagnosisAssumption DEF TypeOK
<1>2. IsList(items)
  BY <1>1, EvidenceIsList
<1>3. ASSUME NEW k \in DOMAIN found.hypotheses, NEW id \in CitedBy(found.hypotheses[k])
      PROVE  id \in 1..Len(accepted)
  <2>1. id \in Ids(items)
    BY <1>1, <1>2, AnalysisCites
  <2>2. PICK i \in DOMAIN items : id = items[i].evidence_id
    BY <2>1 DEF Ids
  <2>3. PICK p \in 1..Len(accepted) : items[i] = accepted[p]
    BY <1>1, HeldPlaces
  <2> QED BY <2>2, <2>3 DEF IdsArePlaces
<1> QED BY <1>3 DEF CitedIn

LEMMA CitedInductive ==
  ASSUME TypeOK, StoreHoldsNewest, IdsArePlaces, CitedAccepted, [Next]_vars
  PROVE  IdsArePlaces' /\ CitedAccepted'
<1>0. accepted \in Seq(EvidenceType) /\ Len(accepted) \in Nat
  BY DEF TypeOK
<1>1. ASSUME NEW request \in RequestsAt(now), Ingest(request) PROVE IdsArePlaces' /\ CitedAccepted'
  <2>0. UNCHANGED incidents
    BY <1>1 DEF Ingest
  <2>1. CASE Decodable(request)
    <3> DEFINE n == Len(accepted)
               batch == Decode(request, n)
    <3>1. IsRequest(request)
      BY DiagnosisAssumption DEF TypeOK
    <3>2. batch \in Seq(EvidenceType) /\ \A i \in 1..Len(batch) : batch[i].evidence_id = n + i
      BY <1>0, <3>1, DecodeType, DecodeIds
    <3>3. accepted' = accepted \o batch
      BY <1>1, <2>1 DEF Ingest, AddMany
    <3> HIDE DEF batch
    <3>4. /\ Len(batch) \in Nat /\ Len(accepted') = n + Len(batch)
          /\ \A k \in 1..(n + Len(batch)) :
               accepted'[k] = IF k <= n THEN accepted[k] ELSE batch[k - n]
      BY <1>0, <3>2, <3>3, ConcatProperties, LenProperties
    <3> HIDE DEF n
    <3>5. ASSUME NEW k \in 1..(n + Len(batch)) PROVE accepted'[k].evidence_id = k
      <4>1. CASE k <= n
        BY <1>0, <3>4, <4>1 DEF IdsArePlaces, n
      <4>2. CASE ~(k <= n)
        <5>1. k - n \in 1..Len(batch) /\ n + (k - n) = k
          BY <1>0, <3>4, <4>2 DEF n
        <5>2. accepted'[k] = batch[k - n]
          BY <3>4, <4>2
        <5> QED BY <3>2, <5>1, <5>2
      <4> QED BY <4>1, <4>2
    <3>6. \A id \in 1..n : id \in 1..Len(accepted')
      BY <1>0, <3>4 DEF n
    <3>7. CitedAccepted'
      BY <2>0, <3>6 DEF CitedAccepted, CitedIn, CitedBy, n
    <3> QED BY <3>4, <3>5, <3>7 DEF IdsArePlaces
  <2>2. CASE ~Decodable(request)
    BY <1>1, <2>0, <2>2 DEF Ingest, storeVars, IdsArePlaces, CitedAccepted, CitedIn, CitedBy
  <2> QED BY <2>1, <2>2
<1>2. ASSUME Analyze PROVE IdsArePlaces' /\ CitedAccepted'
  <2> DEFINE found == AnalyzeAt(items, now)
  <2>1. UNCHANGED accepted
    BY <1>2 DEF Analyze, storeVars
  <2>2. CASE UNCHANGED incidents
    BY <2>1, <2>2 DEF IdsArePlaces, CitedAccepted, CitedIn, CitedBy
  <2>3. CASE found # NoIncident /\ incidents' = Append(incidents, found)
    <3>1. CitedIn(found) \in SUBSET (1..Len(accepted))
      BY <2>3, FoundCitesAccepted
    <3> HIDE DEF found
    <3>2. /\ DOMAIN incidents = 1..Len(incidents) /\ DOMAIN incidents' = 1..(Len(incidents) + 1)
          /\ Len(incidents) \in Nat
          /\ \A i \in 1..Len(incidents) : incidents'[i] = incidents[i]
          /\ incidents'[Len(incidents) + 1] = found
      BY <2>3, AppendShape DEF TypeOK
    <3>3. ASSUME NEW i \in DOMAIN incidents' PROVE CitedIn(incidents'[i]) \in SUBSET (1..Len(accepted))
      <4>1. i \in DOMAIN incidents \/ i = Len(incidents) + 1
        BY <3>2
      <4> QED BY <3>1, <3>2, <4>1 DEF CitedAccepted
    <3> QED BY <2>1, <3>3 DEF IdsArePlaces, CitedAccepted, CitedIn, CitedBy
  <2> QED BY <1>2, <2>2, <2>3 DEF Analyze
<1>3. CASE Restart
  <2>1. accepted' = <<>> /\ incidents' = <<>>
    BY <1>3 DEF Restart, Clear
  <2> QED BY <2>1 DEF IdsArePlaces, CitedAccepted
<1>4. CASE UNCHANGED <<accepted, incidents>>
  BY <1>4 DEF IdsArePlaces, CitedAccepted, CitedIn, CitedBy
<1>5. ASSUME (\E payload \in AlertPayloads : ReceiveAlerts(payload)) \/ ClockMoves \/ UNCHANGED vars
      PROVE  UNCHANGED <<accepted, incidents>>
  BY <1>5 DEF ReceiveAlerts, ClockMoves, vars, storeVars
<1> QED BY <1>1, <1>2, <1>3, <1>4, <1>5 DEF Next

\* The evidence an incident cites stays in the store until MaxItems newer items
\* have pushed it out, whatever analyses, alerts, undecodable requests and clock
\* changes come between (EvidenceStore.add_many, CorrelationEngine.analyze).
THEOREM CitedEvidenceTheorem == Spec => []CitedEvidenceKept
<1>1. Init => IdsArePlaces /\ CitedAccepted
  BY DEF Init, StoreInit, IdsArePlaces, CitedAccepted
<1>2. TypeOK /\ StoreHoldsNewest /\ IdsArePlaces /\ CitedAccepted /\ [Next]_vars
        => IdsArePlaces' /\ CitedAccepted'
  BY CitedInductive
<1>3. TypeOK /\ StoreHoldsNewest /\ IdsArePlaces /\ CitedAccepted => CitedEvidenceKept
  <2> SUFFICES ASSUME TypeOK, StoreHoldsNewest, IdsArePlaces, CitedAccepted,
                      NEW i \in DOMAIN incidents, NEW id \in CitedIn(incidents[i]),
                      id > Len(accepted) - MaxItems
               PROVE  \E k \in DOMAIN items : items[k].evidence_id = id
    BY Zenon DEF CitedEvidenceKept
  <2>1. id \in 1..Len(accepted)
    BY DEF CitedAccepted
  <2>2. PICK k \in DOMAIN items : items[k] = accepted[id]
    BY <2>1, HeldPlaces DEF TypeOK
  <2> QED BY <2>1, <2>2 DEF IdsArePlaces
<1> QED BY <1>1, <1>2, <1>3, TypeCorrect, StoreCorrect, PTL DEF Spec
==============================================================================
