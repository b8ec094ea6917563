---------------------------- MODULE AnalysisProofs ----------------------------
(***************************************************************************)
(* What an analysis of the evidence store finds, whatever arrived, however *)
(* large the store and wide the windows.  The inductive invariant says that *)
(* the store holds the newest of what it accepted and that the incident and *)
(* the objectives are those of the items it holds; each property then is a *)
(* lemma of CorrelationProofs about one analysis.                          *)
(***************************************************************************)
EXTENDS Analysis, CorrelationProofs

Item ==
  [evidence_id : Nat, timestamp : Int, service : STRING, kind : STRING, name : STRING,
   value : Int, span_kind : STRING, db : BOOLEAN]

StoreInv == items \in Seq(Item) /\ accepted \in Seq(Item) /\ StoreHoldsNewest

Found ==
  /\ incident = AnalyzeAt(items, Now)
  /\ statuses \in {<<>>, SloStatuses(Hour, Now)}

Inv == StoreInv /\ Found

------------------------------------------------------------------------------
LEMMA StampedType ==
  ASSUME accepted \in Seq(Item), NEW batch \in Seq(Unidentified)
  PROVE  Stamped(batch) \in Seq(Item)
<1>1. Len(accepted) \in Nat /\ Len(batch) \in Nat /\ DOMAIN batch = 1..Len(batch)
  OBVIOUS
<1>2. ASSUME NEW i \in 1..Len(batch) PROVE Identified(Len(accepted) + i, batch[i]) \in Item
  <2>1. batch[i] \in Unidentified
    BY <1>1
  <2>2. Len(accepted) + i \in Nat
    BY <1>1
  <2> QED BY <2>1, <2>2 DEF Identified, Unidentified, Item
<1>3. Stamped(batch) \in [1..Len(batch) -> Item]
  BY <1>1, <1>2 DEF Stamped
<1> QED BY <1>1, <1>3, FunctionIsSeq

LEMMA ItemsAreList ==
  ASSUME items \in Seq(Item)
  PROVE  IsList(items) /\ Len(items) \in Nat /\ DOMAIN items = 1..Len(items)
<1>1. Len(items) \in Nat /\ DOMAIN items = 1..Len(items)
  OBVIOUS
<1>2. IsFiniteSet(DOMAIN items)
  BY <1>1, FS_Interval
<1>3. \A i \in DOMAIN items : items[i].timestamp \in Int /\ items[i].value \in Int
  <2>1. \A i \in DOMAIN items : items[i] \in Item
    OBVIOUS
  <2> QED BY <2>1 DEF Item
<1>4. DOMAIN items \in SUBSET Int
  BY <1>1
<1> QED BY <1>1, <1>2, <1>3, <1>4 DEF IsList

\* An empty store raises nothing.
LEMMA EmptyAnalysis ==
  ASSUME NEW list, DOMAIN list = {}, NEW now
  PROVE  AnalyzeAt(list, now) = NoIncident
<1> DEFINE hour == Between(list, now - LongWindow, now)
           cur == Current(hour, now)
<1>1. PartOf(hour, list)
  BY BetweenShape
<1>2. PartOf(cur, hour)
  <2> HIDE DEF hour
  <2> QED BY BetweenShape, Zenon DEF Current
<1>3. PartOf(Checkout(cur), cur)
  <2> HIDE DEF cur
  <2> QED BY RequestSpansShape DEF Checkout
<1> HIDE DEF hour, cur
<1>4. DOMAIN Checkout(cur) = {}
  BY <1>1, <1>2, <1>3 DEF PartOf
<1>5. Size(Checkout(cur)) < MinSpans
  <2>1. Size(Checkout(cur)) = 0
    BY <1>4, FS_EmptySet DEF Size
  <2> QED BY <2>1, WindowConstants
<1>6. Quiet(Baseline(hour, now), cur)
  BY <1>5 DEF Quiet
<1>7. PICK s, t : Outcome(AnalyzeAt(list, now), Baseline(hour, now), cur, s, t)
  BY AnalyzeOutcome DEF hour, cur
<1> QED BY <1>6, <1>7 DEF Outcome

LEMMA InvInit == Init => Inv
<1> SUFFICES ASSUME Init PROVE Inv
  OBVIOUS
<1>1. MaxItems \in Nat /\ MaxItems > 0
  BY MaxItemsAssumption
<1>2. items = <<>> /\ accepted = <<>> /\ incident = NoIncident /\ statuses = <<>>
  BY DEF Init, StoreInit
<1>3. <<>> \in Seq(Item) /\ Len(<<>>) <= MaxItems
  BY <1>1
<1>4. LastOf(MaxItems, <<>>) = <<>>
  BY <1>1, <1>3, LastOfShort
<1>5. incident = AnalyzeAt(items, Now)
  <2>1. DOMAIN items = {}
    BY <1>2
  <2> QED BY <1>2, <2>1, EmptyAnalysis
<1> QED BY <1>2, <1>3, <1>4, <1>5 DEF Inv, StoreInv, Found, StoreHoldsNewest

LEMMA InvNext == Inv /\ [Next]_vars => Inv'
<1> SUFFICES ASSUME Inv, [Next]_vars PROVE Inv'
  OBVIOUS
<1>0. items \in Seq(Item) /\ accepted \in Seq(Item) /\ StoreHoldsNewest /\ Found
  BY DEF Inv, StoreInv
<1>1. ASSUME NEW batch \in Arrivals, Arrive(batch) PROVE Inv'
  <2>1. batch \in Seq(Unidentified)
    BY AnalysisAssumption
  <2>2. Stamped(batch) \in Seq(Item) /\ AddMany(Stamped(batch))
    BY <1>0, <1>1, <2>1, StampedType DEF Arrive
  <2>3. StoreInv'
    BY <1>0, <2>2, StoreStep DEF StoreInv
  <2>4. incident' = AnalyzeAt(items', Now) /\ statuses' = SloStatuses(Hour', Now)
    BY <1>1 DEF Arrive, Hour
  <2>5. Found'
    BY <2>4 DEF Found
  <2> QED BY <2>3, <2>5 DEF Inv
<1>2. ASSUME UNCHANGED vars PROVE Inv'
  <2>1. UNCHANGED <<items, accepted, incident, statuses>>
    BY <1>2 DEF vars, storeVars
  <2>2. StoreInv'
    BY <1>0, <2>1 DEF StoreInv, StoreHoldsNewest
  <2>3. Found'
    BY <1>0, <2>1 DEF Found, Hour
  <2> QED BY <2>2, <2>3 DEF Inv
<1> QED BY <1>1, <1>2 DEF Next

\* The invariant of the analysed store: it holds the newest MaxItems of what was
\* accepted, and what an analysis reports is about exactly the items it holds
\* (EvidenceStore.add_many, CorrelationEngine.analyze).
THEOREM StoreTheorem == Spec => []Inv
<1>1. Init => Inv
  BY InvInit
<1>2. Inv /\ [Next]_vars => Inv'
  BY InvNext
<1> QED BY <1>1, <1>2, PTL DEF Spec

------------------------------------------------------------------------------
(* Objectives and percentiles. *)

LEMMA QuantileHolds ==
  ASSUME Inv, NEW q \in Nat, NEW d \in Nat, 0 < d, q <= d
  PROVE  Percentile(Values(items), <<q, d>>) = NearestRank(Values(items), <<q, d>>)
<1>1. IsSamples(Values(items))
  BY ItemsAreList, ValuesAreSamples DEF Inv, StoreInv
<1> QED BY <1>1, PercentileNearest

\* Whichever branch of percentile() selects it, and however many samples the store
\* holds, the answer is the nearest-rank sample, at every quantile in [0, 1].
THEOREM QuantileTheorem ==
  ASSUME NEW q \in Nat, NEW d \in Nat, 0 < d, q <= d
  PROVE  Spec => [](Percentile(Values(items), <<q, d>>) = NearestRank(Values(items), <<q, d>>))
<1>1. Inv => Percentile(Values(items), <<q, d>>) = NearestRank(Values(items), <<q, d>>)
  BY QuantileHolds
<1> QED BY <1>1, StoreTheorem, PTL

\* In particular at 0, 1/2, 0.95, 0.99 and 1, where the engine, the tests and the
\* benchmarks ask for it (correlation.py: percentile).
THEOREM PercentileTheorem == Spec => []PercentileIsNearestRank
<1>1. ASSUME Inv PROVE PercentileIsNearestRank
  <2> DEFINE samples == Values(items)
  <2>1. /\ Percentile(samples, <<0, 1>>) = NearestRank(samples, <<0, 1>>)
        /\ Percentile(samples, <<1, 2>>) = NearestRank(samples, <<1, 2>>)
        /\ Percentile(samples, <<95, 100>>) = NearestRank(samples, <<95, 100>>)
        /\ Percentile(samples, <<99, 100>>) = NearestRank(samples, <<99, 100>>)
        /\ Percentile(samples, <<1, 1>>) = NearestRank(samples, <<1, 1>>)
    <3> HIDE DEF samples
    <3>1. \A q, d \in Nat : 0 < d /\ q <= d => Percentile(samples, <<q, d>>) = NearestRank(samples, <<q, d>>)
      BY <1>1, QuantileHolds DEF samples
    <3> QED BY <3>1
  <2> QED BY <2>1, Zenon DEF PercentileIsNearestRank
<1>2. Inv => PercentileIsNearestRank
  BY <1>1
<1> QED BY <1>2, StoreTheorem, PTL

LEMMA AlertHolds == Inv => AlertMeansBudgetGone /\ AlertNeedsRecentFailure
<1> SUFFICES ASSUME Inv PROVE AlertMeansBudgetGone /\ AlertNeedsRecentFailure
  OBVIOUS
<1>1. IsList(items) /\ Now \in Int /\ LongWindow \in Nat /\ ShortWindow \in Nat
  BY ItemsAreList, AnalysisAssumption, WindowConstants DEF Inv, StoreInv
<1>2. IsList(Hour) /\ PartOf(Hour, items)
  BY <1>1, HourShape DEF Hour
<1>3. CASE statuses = <<>>
  <2>1. DOMAIN statuses = {}
    BY <1>3
  <2> QED BY <2>1 DEF AlertMeansBudgetGone, AlertNeedsRecentFailure
<1>4. CASE statuses = SloStatuses(Hour, Now)
  <2>1. ASSUME NEW k \in DOMAIN statuses, statuses[k].alerting
        PROVE  /\ statuses[k].budget_remaining = Whole(0)
               /\ \E i \in DOMAIN items : /\ items[i].service = DefaultSlos[k].service
                                          /\ IsBad(DefaultSlos[k], items[i])
                                          /\ items[i].timestamp >= Now - ShortWindow
    <3>1. /\ k \in DOMAIN SloStatuses(Hour, Now) /\ SloStatuses(Hour, Now)[k].alerting
      BY <1>4, <2>1
    <3>2. /\ SloStatuses(Hour, Now)[k].budget_remaining = Whole(0)
          /\ \E i \in DOMAIN Hour : /\ Hour[i].service = DefaultSlos[k].service
                                    /\ IsBad(DefaultSlos[k], Hour[i])
                                    /\ Hour[i].timestamp >= Now - ShortWindow
      BY <1>1, <1>2, <3>1, AlertShape
    <3>3. PICK i \in DOMAIN Hour : /\ Hour[i].service = DefaultSlos[k].service
                                   /\ IsBad(DefaultSlos[k], Hour[i])
                                   /\ Hour[i].timestamp >= Now - ShortWindow
      BY <3>2
    <3>4. i \in DOMAIN items /\ Hour[i] = items[i]
      BY <1>2 DEF PartOf
    <3>5. /\ items[i].service = DefaultSlos[k].service /\ IsBad(DefaultSlos[k], items[i])
          /\ items[i].timestamp >= Now - ShortWindow
      BY <3>3, <3>4
    <3> QED BY <1>4, <3>2, <3>4, <3>5
  <2> QED BY <2>1 DEF AlertMeansBudgetGone, AlertNeedsRecentFailure
<1> QED BY <1>3, <1>4 DEF Inv, Found

\* A burn alert means that the hour's error budget is spent (calculate_slo,
\* evaluate_alert): whatever arrived, the thresholds of either rule imply it.
THEOREM BudgetTheorem == Spec => []AlertMeansBudgetGone
<1>1. Inv => AlertMeansBudgetGone
  BY AlertHolds
<1> QED BY <1>1, StoreTheorem, PTL

\* ... and that a request of the last five minutes was bad: no alert outlives
\* its cause by more than the short window.
THEOREM RecentTheorem == Spec => []AlertNeedsRecentFailure
<1>1. Inv => AlertNeedsRecentFailure
  BY AlertHolds
<1> QED BY <1>1, StoreTheorem, PTL

------------------------------------------------------------------------------
(* The windows, the ranking and the timeline. *)

LEMMA JudgedHolds == Inv => EachItemJudgedOnce
<1> SUFFICES ASSUME Inv PROVE EachItemJudgedOnce
  OBVIOUS
<1>1. IsList(items) /\ Now \in Int
  BY ItemsAreList, AnalysisAssumption DEF Inv, StoreInv
<1> DEFINE w == Windows(Hour, Now)
<1>2. IsList(Hour) /\ \A i \in DOMAIN Hour : Hour[i].timestamp <= Now
  BY <1>1, HourShape DEF Hour
<1>3. /\ w.current_start \in Int /\ w.baseline_start \in Int /\ w.baseline_end = w.current_start - Gap
      /\ w.current_start - w.baseline_start >= MinBaselineWidth
  BY <1>1, <1>2, WindowsShape
<1>4. (\A i \in DOMAIN items : items[i].timestamp \in Int) /\ Gap \in Int /\ Gap > 0
  BY <1>1, WindowsAssumption DEF IsList
<1> HIDE DEF w
<1>5. \A i \in DOMAIN items :
        \/ items[i].timestamp > w.baseline_end <=> items[i].timestamp >= w.current_start
        \/ /\ w.baseline_end < items[i].timestamp /\ items[i].timestamp < w.current_start
           /\ w.current_start < items[i].timestamp + Gap
  BY <1>3, <1>4
<1> QED BY <1>3, <1>5 DEF EachItemJudgedOnce, w

\* Whatever the resolution of the timestamps, no item the two windows span is
\* judged twice, and none escapes both but inside the gap between them.
THEOREM JudgedTheorem == Spec => []EachItemJudgedOnce
<1>1. Inv => EachItemJudgedOnce
  BY JudgedHolds
<1> QED BY <1>1, StoreTheorem, PTL

\* What holds of an incident that was raised.
LEMMA RaisedShape ==
  ASSUME Inv, Raised
  PROVE  /\ IsList(items) /\ IsList(Hour) /\ Now \in Int
         /\ IsList(Baseline(Hour, Now)) /\ IsList(Current(Hour, Now))
         /\ incident.hypotheses = RankHypotheses(Baseline(Hour, Now), Current(Hour, Now), Hour, Now)
         /\ incident.timeline = Timeline(Len(items), Baseline(Hour, Now), Current(Hour, Now),
                                         incident.hypotheses, Now, SloStatuses(Hour, Now))
<1>1. IsList(items) /\ Now \in Int
  BY ItemsAreList, AnalysisAssumption DEF Inv, StoreInv
<1>2. incident = AnalyzeAt(items, Now) /\ incident # NoIncident
  BY DEF Inv, Found, Raised
<1>3. IsList(Hour)
  BY <1>1, HourShape DEF Hour
<1>4. IsList(Baseline(Hour, Now)) /\ IsList(Current(Hour, Now))
  BY <1>1, HalvesShape DEF Hour
<1>5. /\ incident.hypotheses = RankHypotheses(Baseline(Hour, Now), Current(Hour, Now), Hour, Now)
      /\ incident.timeline = Timeline(Len(items), Baseline(Hour, Now), Current(Hour, Now),
                                      incident.hypotheses, Now, SloStatuses(Hour, Now))
  BY <1>2, AnalyzeShape DEF Hour
<1> QED BY <1>1, <1>3, <1>4, <1>5

LEMMA TopFiveHolds == Inv => TopFiveDominate
<1> SUFFICES ASSUME Inv, Raised PROVE TopFiveDominate
  BY DEF TopFiveDominate
<1> DEFINE all == Candidates(Baseline(Hour, Now), Current(Hour, Now), Hour, Now)
           kept == incident.hypotheses
<1>1. /\ IsList(Hour) /\ IsList(Baseline(Hour, Now)) /\ IsList(Current(Hour, Now))
      /\ kept = RankHypotheses(Baseline(Hour, Now), Current(Hour, Now), Hour, Now)
  BY RaisedShape
<1>3. KeepsBest(kept, all)
  <2> HIDE DEF kept
  <2> QED BY <1>1, HypothesesShape
<1> HIDE DEF all, kept
<1>4. /\ kept \in Seq(all)
      /\ Len(kept) = IF Cardinality(all) < 5 THEN Cardinality(all) ELSE 5
      /\ \A k, l \in DOMAIN kept : k <= l => LeqFrac(kept[l].score, kept[k].score)
      /\ \A k \in DOMAIN kept : \A c \in all :
           (\A l \in DOMAIN kept : kept[l] # c) => LeqFrac(c.score, kept[k].score)
  BY <1>3 DEF KeepsBest
<1>2. ASSUME NEW k \in DOMAIN kept
      PROVE  /\ kept[k] \in all
             /\ \A c \in {d \in all : \A l \in DOMAIN kept : kept[l] # d} \cup {kept[l] : l \in k..Len(kept)} :
                  LeqFrac(c.score, kept[k].score)
  <2>1. kept[k] \in all
    BY <1>4
  <2>2. \A l \in k..Len(kept) : l \in DOMAIN kept /\ k <= l
    BY <1>4
  <2> QED BY <1>4, <2>1, <2>2
<1> QED BY <1>4, <1>2, Zenon DEF TopFiveDominate, all, kept

\* Truncating to five drops no candidate better than one it keeps, whatever the
\* candidates: the suspected root cause is the best of all (rank_hypotheses).
THEOREM TopFiveTheorem == Spec => []TopFiveDominate
  BY StoreTheorem, TopFiveHolds, PTL

LEMMA TimelineHolds == Inv => TimelineCausal
<1> SUFFICES ASSUME Inv, Raised PROVE TimelineCausal
  BY DEF TimelineCausal
<1> DEFINE n == Len(items)
           baseline == Baseline(Hour, Now)
           current == Current(Hour, Now)
<1>1. IsList(items) /\ n \in Nat /\ DOMAIN items = 1..n
  BY ItemsAreList DEF Inv, StoreInv
<1>2. /\ Now \in Int /\ IsList(baseline) /\ IsList(current) /\ IsList(Hour)
      /\ incident.timeline = Timeline(n, baseline, current, incident.hypotheses, Now,
                                      SloStatuses(Hour, Now))
  BY RaisedShape
<1>3. PartOf(baseline, items) /\ PartOf(current, items) /\ PartOf(baseline, Hour) /\ PartOf(current, Hour)
  BY <1>1, <1>2, HalvesShape DEF Hour
<1>4. \A i \in DOMAIN Hour : Hour[i].timestamp \in Int /\ Hour[i].timestamp <= Now
  <2>1. \A i \in DOMAIN Hour : Hour[i].timestamp <= Now
    BY <1>1, <1>2, HourShape DEF Hour
  <2> QED BY <1>2, <2>1 DEF IsList
<1> HIDE DEF n, baseline, current
<1>5. /\ \A i \in DOMAIN baseline : baseline[i].timestamp \in Int /\ baseline[i].timestamp <= Now
      /\ \A i \in DOMAIN current : current[i].timestamp \in Int /\ current[i].timestamp <= Now
  BY <1>3, <1>4 DEF PartOf
<1>6. TellsStory(incident.timeline, incident.hypotheses # <<>>)
  BY <1>1, <1>2, <1>3, <1>5, TimelineShape
<1> QED BY <1>6 DEF TellsStory, TimelineCausal

\* The timeline of every incident is causal: in time order, no marker and no
\* alert after the incident it explains, the suspected cause last (build_timeline).
THEOREM TimelineTheorem == Spec => []TimelineCausal
  BY StoreTheorem, TimelineHolds, PTL

\* A hypothesis of a raised incident is a candidate.
LEMMA HypothesisIsCandidate ==
  ASSUME Inv, Raised, NEW k \in DOMAIN incident.hypotheses
  PROVE  incident.hypotheses[k] \in Candidates(Baseline(Hour, Now), Current(Hour, Now), Hour, Now)
<1> DEFINE all == Candidates(Baseline(Hour, Now), Current(Hour, Now), Hour, Now)
           kept == incident.hypotheses
<1>1. /\ IsList(Hour) /\ IsList(Baseline(Hour, Now)) /\ IsList(Current(Hour, Now))
      /\ kept = RankHypotheses(Baseline(Hour, Now), Current(Hour, Now), Hour, Now)
  BY RaisedShape
<1> HIDE DEF kept
<1>2. KeepsBest(kept, all)
  BY <1>1, HypothesesShape
<1> HIDE DEF all
<1>3. kept \in Seq(all)
  BY <1>2 DEF KeepsBest
<1>4. kept[k] \in all
  BY <1>3 DEF kept
<1> QED BY <1>4 DEF all, kept

LEMMA CitationsHold == Inv => CitationsSupport
<1> SUFFICES ASSUME Inv, Raised, NEW k \in DOMAIN incident.hypotheses,
                    NEW id \in CitedBy(incident.hypotheses[k])
             PROVE  \E i \in DOMAIN items :
                      /\ items[i].evidence_id = id
                      /\ items[i].service = incident.hypotheses[k].service
                      /\ \/ items[i].timestamp \in Windows(Hour, Now).current_start .. Now
                         \/ /\ items[i].kind = "deployment"
                            /\ items[i].timestamp \in (Now - DeploymentWindow) .. Now
  BY Zenon DEF CitationsSupport
<1> DEFINE h == incident.hypotheses[k]
           baseline == Baseline(Hour, Now)
           current == Current(Hour, Now)
<1>1. /\ Now \in Int /\ IsList(items) /\ IsList(baseline) /\ IsList(current) /\ IsList(Hour)
  BY RaisedShape
<1>2. h \in Candidates(baseline, current, Hour, Now)
  BY HypothesisIsCandidate
<1>3. id \in CitedBy(h)
  OBVIOUS
<1> HIDE DEF h, baseline
<1>4. CitedBy(h) \in SUBSET Citable(h.service, current, Hour, Now)
  <2> HIDE DEF current
  <2> QED BY <1>1, <1>2, CandidateShape
<1>5. id \in Citable(h.service, Current(Hour, Now), Hour, Now)
  BY <1>3, <1>4
<1>6. \E i \in DOMAIN items :
        /\ items[i].evidence_id = id /\ items[i].service = h.service
        /\ \/ items[i].timestamp \in Windows(Hour, Now).current_start .. Now
           \/ items[i].kind = "deployment" /\ items[i].timestamp \in (Now - DeploymentWindow) .. Now
  BY <1>1, <1>5, CitableShape DEF Hour
<1> QED BY <1>6 DEF h

\* Each id a hypothesis cites is that of an item of the store, of the hypothesis'
\* own service, in the current window or a deployment of the last ten minutes.
THEOREM CitationsTheorem == Spec => []CitationsSupport
  BY StoreTheorem, CitationsHold, PTL

LEMMA CapHolds == Inv => ScoresCapped
<1> SUFFICES ASSUME Inv, Raised, NEW k \in DOMAIN incident.hypotheses
             PROVE  LeqFrac(incident.hypotheses[k].score, ScoreCap(incident.hypotheses[k].title))
  BY Zenon DEF ScoresCapped
<1> DEFINE h == incident.hypotheses[k]
           baseline == Baseline(Hour, Now)
           current == Current(Hour, Now)
<1>1. /\ Now \in Int /\ IsList(baseline) /\ IsList(current) /\ IsList(Hour)
  BY RaisedShape
<1>2. h \in Candidates(baseline, current, Hour, Now)
  BY HypothesisIsCandidate
<1> HIDE DEF h, baseline, current
<1>3. PICK j \in 0..3 : h.title = TitleAt(j) /\ h.score \in FractionType /\ AtMostHalves(h.score, HalvesAt(j))
  BY <1>1, <1>2, CandidateShape
<1>4. h.score[1] \in Int /\ h.score[2] \in Int /\ h.score[2] > 0
  BY <1>3, FractionParts
<1>5. ScoreCap(TitleAt(j)) = IF j = 0 THEN Whole(9) ELSE IF j = 2 THEN Whole(7) ELSE Whole(6)
  BY <1>3 DEF ScoreCap, TitleAt
<1>6. ASSUME NEW cap \in Int, 2 * h.score[1] <= (2 * cap) * h.score[2] PROVE LeqFrac(h.score, Whole(cap))
  BY <1>4, <1>6 DEF LeqFrac, Whole
<1>7. LeqFrac(h.score, ScoreCap(TitleAt(j)))
  <2>1. CASE j = 0
    <3>1. 2 * h.score[1] <= (2 * 9) * h.score[2]
      BY <1>3, <2>1 DEF AtMostHalves, HalvesAt
    <3> QED BY <1>5, <1>6, <2>1, <3>1
  <2>2. CASE j = 2
    <3>1. 2 * h.score[1] <= (2 * 7) * h.score[2]
      BY <1>3, <2>2 DEF AtMostHalves, HalvesAt
    <3> QED BY <1>5, <1>6, <2>2, <3>1
  <2>3. CASE j # 0 /\ j # 2
    <3>1. 2 * h.score[1] <= (2 * 6) * h.score[2]
      BY <1>3, <2>3 DEF AtMostHalves, HalvesAt
    <3> QED BY <1>5, <1>6, <2>3, <3>1
  <2> QED BY <2>1, <2>2, <2>3
<1> QED BY <1>3, <1>7 DEF h

\* No hypothesis scores above the caps of the rules that make it: 9 points for a
\* database, 7 for memory, 6 for a deployment or a dependency, however extreme
\* the measurements.
THEOREM CapTheorem == Spec => []ScoresCapped
  BY StoreTheorem, CapHolds, PTL

LEMMA BlameHolds == Inv => NoDatabaseBlameWithoutSlowQueries
<1> SUFFICES ASSUME Inv, Raised PROVE NoDatabaseBlameWithoutSlowQueries
  BY DEF NoDatabaseBlameWithoutSlowQueries
<1> DEFINE w == Windows(Hour, Now)
           baseline == Baseline(Hour, Now)
           current == Current(Hour, Now)
<1>1. /\ Now \in Int /\ IsList(items) /\ IsList(baseline) /\ IsList(current) /\ IsList(Hour)
  BY RaisedShape
<1>2. /\ PartOf(current, items) /\ PartOf(baseline, items)
      /\ \A i \in DOMAIN items :
           /\ i \in DOMAIN current <=>
                w.current_start <= items[i].timestamp /\ items[i].timestamp <= Now
           /\ i \in DOMAIN baseline <=>
                w.baseline_start <= items[i].timestamp /\ items[i].timestamp <= w.baseline_end
  BY <1>1, HalvesShape DEF Hour
<1>3. w.current_start \in Int /\ w.baseline_start \in Int /\ w.baseline_end \in Int
  <2>1. \A i \in DOMAIN Hour : Hour[i].timestamp <= Now
    BY <1>1, HourShape DEF Hour
  <2> QED BY <1>1, <2>1, WindowsShape
<1> HIDE DEF w, baseline, current
<1>4. ASSUME NEW k \in DOMAIN incident.hypotheses,
             incident.hypotheses[k].title = "Database interaction regression"
      PROVE  \E i \in DOMAIN items :
               /\ items[i].db /\ items[i].kind = "span"
               /\ items[i].service = incident.hypotheses[k].service
               /\ items[i].timestamp \in w.current_start .. Now
               /\ items[i].value >= 2
               /\ 100 * Cardinality({j \in {m \in DOMAIN items :
                                              /\ items[m].db /\ items[m].kind = "span"
                                              /\ items[m].service = incident.hypotheses[k].service
                                              /\ items[m].timestamp \in w.baseline_start .. w.baseline_end} :
                                       2 * items[j].value > items[i].value})
                    <= Cardinality({m \in DOMAIN items :
                                      /\ items[m].db /\ items[m].kind = "span"
                                      /\ items[m].service = incident.hypotheses[k].service
                                      /\ items[m].timestamp \in w.baseline_start .. w.baseline_end})
    <2> DEFINE h == incident.hypotheses[k]
               cur == Queries(OfService(current, h.service))
               base == Queries(OfService(baseline, h.service))
               before == {m \in DOMAIN items :
                            /\ items[m].db /\ items[m].kind = "span" /\ items[m].service = h.service
                            /\ items[m].timestamp \in w.baseline_start .. w.baseline_end}
    <2>1. SlowQueries(Factor(cur, base))
      <3>1. h \in Candidates(baseline, current, Hour, Now)
        BY HypothesisIsCandidate DEF baseline, current
      <3> HIDE DEF h
      <3>2. PICK j \in 0..3 : /\ h.title = TitleAt(j)
                              /\ j = 0 => SlowQueries(Factor(cur, base))
        BY <1>1, <3>1, CandidateShape
      <3>3. j = 0
        BY <1>4, <3>2 DEF TitleAt, h
      <3> QED BY <3>2, <3>3
    <2> HIDE DEF h
    <2>2. /\ IsList(cur) /\ PartOf(cur, items)
          /\ \A i \in DOMAIN items : i \in DOMAIN cur <=>
               /\ items[i].db /\ items[i].kind = "span" /\ items[i].service = h.service
               /\ i \in DOMAIN current
      BY <1>1, <1>2, QueriesOfPart
    <2>3. /\ IsList(base) /\ PartOf(base, items)
          /\ \A i \in DOMAIN items : i \in DOMAIN base <=>
               /\ items[i].db /\ items[i].kind = "span" /\ items[i].service = h.service
               /\ i \in DOMAIN baseline
      BY <1>1, <1>2, QueriesOfPart
    <2> HIDE DEF cur, base
    <2>4. PICK x \in DOMAIN cur :
            /\ cur[x].value >= 2
            /\ 100 * Cardinality({j \in DOMAIN base : 2 * base[j].value > cur[x].value})
                 <= Cardinality(DOMAIN base)
      BY <2>1, <2>2, <2>3, SlowQueryShape
    <2>5. x \in DOMAIN items /\ cur[x] = items[x] /\ x \in DOMAIN current
      BY <2>2 DEF PartOf
    <2>6. \A i \in DOMAIN items : items[i].timestamp \in Int
      BY <1>1 DEF IsList
    <2>7. items[x].timestamp \in w.current_start .. Now
      BY <1>1, <1>2, <1>3, <2>5, <2>6
    <2>8. DOMAIN base = before
      <3>1. DOMAIN base \in SUBSET DOMAIN items
        BY <2>3 DEF PartOf
      <3>2. \A i \in DOMAIN items :
              i \in DOMAIN baseline <=> items[i].timestamp \in w.baseline_start .. w.baseline_end
        BY <1>2, <1>3, <2>6
      <3> QED BY <2>3, <3>1, <3>2
    <2>9. {j \in DOMAIN base : 2 * base[j].value > cur[x].value} =
            {j \in before : 2 * items[j].value > items[x].value}
      <3>1. \A j \in DOMAIN base : base[j] = items[j]
        BY <2>3 DEF PartOf
      <3> HIDE DEF before
      <3> QED BY <2>5, <2>8, <3>1
    <2>10. 100 * Cardinality({j \in before : 2 * items[j].value > items[x].value}) <= Cardinality(before)
      <3> HIDE DEF before
      <3> QED BY <2>4, <2>8, <2>9
    <2>11. /\ items[x].db /\ items[x].kind = "span" /\ items[x].service = h.service
           /\ items[x].value >= 2
      BY <2>2, <2>4, <2>5
    <2> QED BY <2>5, <2>7, <2>10, <2>11 DEF h
<1> QED BY <1>4, Zenon DEF NoDatabaseBlameWithoutSlowQueries, w

\* A database is suspected only for a query of its service at least twice as slow
\* as all but one in a hundred of that service's earlier queries, and of two
\* milliseconds or more even if there were none: idle processors,
\* deployments or slow requests alone never make the hypothesis.
THEOREM BlameTheorem == Spec => []NoDatabaseBlameWithoutSlowQueries
  BY StoreTheorem, BlameHolds, PTL

------------------------------------------------------------------------------
(* A store and the same store in another order. *)

\* Two lists of the same items in another order: p tells where each item of a is
\* in b.
Matches(p, a, b) ==
  /\ DOMAIN a \in SUBSET (DOMAIN p)
  /\ \A i, j \in DOMAIN p : p[i] = p[j] => i = j
  /\ \A i \in DOMAIN a : p[i] \in DOMAIN b /\ b[p[i]] = a[i]
  /\ \A k \in DOMAIN b : \E i \in DOMAIN a : k = p[i]

Shuffled(p, a, b) == IsList(a) /\ IsList(b) /\ Matches(p, a, b)

\* As many places of one as of the other.
LEMMA ImageSize ==
  ASSUME NEW S, IsFiniteSet(S), NEW T, NEW p, S \in SUBSET (DOMAIN p),
         \A i, j \in DOMAIN p : p[i] = p[j] => i = j,
         \A i \in S : p[i] \in T, \A k \in T : \E i \in S : k = p[i]
  PROVE  IsFiniteSet(T) /\ Cardinality(T) = Cardinality(S)
<1> DEFINE f == [i \in S |-> p[i]]
<1>1. f \in [S -> T] /\ \A i, j \in S : f[i] = f[j] => i = j
  OBVIOUS
<1>2. \A k \in T : \E i \in S : f[i] = k
  OBVIOUS
<1> HIDE DEF f
<1>3. f \in Bijection(S, T)
  BY <1>1, <1>2, Fun_IsBij
<1>4. ExistsBijection(S, T)
  BY <1>3 DEF ExistsBijection
<1> QED BY <1>4, FS_Bijection

LEMMA ShuffledSize ==
  ASSUME NEW p, NEW a, NEW b, Shuffled(p, a, b)
  PROVE  Size(a) = Size(b) /\ (DOMAIN a = {} <=> DOMAIN b = {})
<1>1. IsFiniteSet(DOMAIN a) /\ Matches(p, a, b)
  BY DEF Shuffled, IsList
<1>2. Cardinality(DOMAIN b) = Cardinality(DOMAIN a)
  <2> DEFINE S == DOMAIN a
             T == DOMAIN b
  <2>1. /\ S \in SUBSET (DOMAIN p) /\ \A i, j \in DOMAIN p : p[i] = p[j] => i = j
        /\ \A i \in S : p[i] \in T /\ \A k \in T : \E j \in S : k = p[j]
        /\ \A k \in T : \E j \in S : k = p[j]
    BY <1>1 DEF Matches
  <2> HIDE DEF S, T
  <2>2. Cardinality(T) = Cardinality(S)
    BY <1>1, <2>1, ImageSize DEF S
  <2> QED BY <2>2 DEF S, T
<1>3. DOMAIN a = {} <=> DOMAIN b = {}
  BY <1>1 DEF Matches
<1> QED BY <1>2, <1>3 DEF Size

\* What is left of both by one condition on items.
LEMMA ShuffledParts ==
  ASSUME NEW p, NEW a, NEW b, Shuffled(p, a, b),
         NEW x, PartOf(x, a), NEW y, PartOf(y, b),
         \A i \in DOMAIN a : i \in DOMAIN x <=> p[i] \in DOMAIN y
  PROVE  Shuffled(p, x, y)
<1>1. IsList(x) /\ IsList(y)
  BY PartIsList DEF Shuffled
<1>2. Matches(p, x, y)
  BY DEF Shuffled, Matches, PartOf
<1> QED BY <1>1, <1>2 DEF Shuffled

\* An item of one is an item of the other.
LEMMA ShuffledItem ==
  ASSUME NEW p, NEW a, NEW b, Shuffled(p, a, b)
  PROVE  /\ \A i \in DOMAIN a : p[i] \in DOMAIN b /\ b[p[i]] = a[i]
         /\ \A k \in DOMAIN b : \E i \in DOMAIN a : k = p[i]
  BY DEF Shuffled, Matches

\* percentile() does not depend on the order of its samples.
LEMMA ShuffledP99 ==
  ASSUME NEW p, NEW a, NEW b, Shuffled(p, a, b)
  PROVE  P99(Values(a)) = P99(Values(b))
<1> DEFINE s == Values(a)
           t == Values(b)
<1>1. /\ IsSamples(s) /\ DOMAIN s = DOMAIN a /\ \A i \in DOMAIN a : s[i] = a[i].value
      /\ IsSamples(t) /\ DOMAIN t = DOMAIN b /\ \A i \in DOMAIN b : t[i] = b[i].value
      /\ IsFiniteSet(DOMAIN a)
  BY ValuesAreSamples DEF Shuffled, IsList
<1> HIDE DEF s, t
<1>2. Cardinality(DOMAIN s) = Cardinality(DOMAIN t) /\ (DOMAIN s = {} <=> DOMAIN t = {})
  BY <1>1, ShuffledSize DEF Size
<1>3. ASSUME NEW v PROVE AtMost(s, v) = AtMost(t, v)
  <2> DEFINE S == {i \in DOMAIN s : s[i] <= v}
             T == {i \in DOMAIN t : t[i] <= v}
  <2>1. IsFiniteSet(S)
    BY <1>1, FS_Subset
  <2>2. /\ S \in SUBSET (DOMAIN p) /\ \A i, j \in DOMAIN p : p[i] = p[j] => i = j
        /\ \A i \in S : p[i] \in T
        /\ \A k \in T : \E j \in S : k = p[j]
    BY <1>1 DEF Shuffled, Matches
  <2> HIDE DEF S, T
  <2>3. Cardinality(T) = Cardinality(S)
    BY <2>1, <2>2, ImageSize
  <2> QED BY <2>3 DEF AtMost, S, T
<1>4. CASE DOMAIN s = {}
  <2>1. Cardinality(DOMAIN s) = 0 /\ Cardinality(DOMAIN t) = 0
    BY <1>2, <1>4, FS_EmptySet
  <2>2. P99(s) = 0 /\ P99(t) = 0
    BY <2>1, PercentileOfNone DEF P99
  <2> QED BY <2>2 DEF s, t
<1>5. CASE DOMAIN s # {}
  <2> DEFINE v == P99(s)
             w == P99(t)
             n == Cardinality(DOMAIN s)
  <2>1. /\ \E x \in DOMAIN s : v = s[x]
        /\ AtMost(s, v) * 100 >= 99 * n
        /\ \A u \in Int : u < v => ~(AtMost(s, u) * 100 >= 99 * n)
    BY <1>1, <1>5, PercentileShape DEF P99
  <2>2. /\ \E x \in DOMAIN t : w = t[x]
        /\ AtMost(t, w) * 100 >= 99 * n
        /\ \A u \in Int : u < w => ~(AtMost(t, u) * 100 >= 99 * n)
    <3>1. DOMAIN t # {} /\ n = Cardinality(DOMAIN t)
      BY <1>2, <1>5
    <3> HIDE DEF n
    <3>2. /\ \E x \in DOMAIN t : w = t[x]
          /\ AtMost(t, w) * 100 >= 99 * Cardinality(DOMAIN t)
          /\ \A u \in Int : u < w => ~(AtMost(t, u) * 100 >= 99 * Cardinality(DOMAIN t))
      BY <1>1, <3>1, PercentileShape DEF P99
    <3> QED BY <3>1, <3>2
  <2>3. v \in Int /\ w \in Int
    BY <1>1, <2>1, <2>2 DEF IsSamples
  <2> HIDE DEF v, w, n
  <2>4. ~(v < w) /\ ~(w < v)
    BY <1>3, <2>1, <2>2, <2>3
  <2>5. v = w
    BY <2>3, <2>4
  <2> QED BY <2>5 DEF v, w, s, t
<1> QED BY <1>4, <1>5

LEMMA MetricShape ==
  ASSUME NEW list, NEW name
  PROVE  /\ PartOf(Metric(list, name), list)
         /\ \A i \in DOMAIN list :
              i \in DOMAIN Metric(list, name) <=> list[i].kind = "metric" /\ list[i].name = name
  BY DEF Metric, RestrictValues, Restrict, PartOf

LEMMA FailedCallsShape ==
  ASSUME NEW list
  PROVE  /\ PartOf(FailedCalls(list), list)
         /\ \A i \in DOMAIN list :
              i \in DOMAIN FailedCalls(list) <=> list[i].kind = "error" /\ list[i].span_kind = "CLIENT"
  BY DEF FailedCalls, RestrictValues, Restrict, PartOf

\* Every filter of the engine reads the items only.
LEMMA ShuffledFilters ==
  ASSUME NEW p, NEW a, NEW b, Shuffled(p, a, b)
  PROVE  /\ \A kind : Shuffled(p, OfKind(a, kind), OfKind(b, kind))
         /\ \A name : Shuffled(p, OfService(a, name), OfService(b, name))
         /\ \A name : Shuffled(p, Metric(a, name), Metric(b, name))
         /\ \A first, last : Shuffled(p, Between(a, first, last), Between(b, first, last))
         /\ \A service : Shuffled(p, RequestSpans(a, service), RequestSpans(b, service))
         /\ Shuffled(p, Queries(a), Queries(b))
         /\ Shuffled(p, FailedCalls(a), FailedCalls(b))
<1>0. \A i \in DOMAIN a : p[i] \in DOMAIN b /\ b[p[i]] = a[i]
  BY ShuffledItem
<1>1. ASSUME NEW kind PROVE Shuffled(p, OfKind(a, kind), OfKind(b, kind))
  <2>1. \A i \in DOMAIN a : i \in DOMAIN OfKind(a, kind) <=> p[i] \in DOMAIN OfKind(b, kind)
    BY <1>0, OfKindShape
  <2> QED BY <2>1, OfKindShape, ShuffledParts
<1>2. ASSUME NEW name PROVE Shuffled(p, OfService(a, name), OfService(b, name))
  <2>1. \A i \in DOMAIN a : i \in DOMAIN OfService(a, name) <=> p[i] \in DOMAIN OfService(b, name)
    BY <1>0, OfServiceShape
  <2> QED BY <2>1, OfServiceShape, ShuffledParts
<1>3. ASSUME NEW name PROVE Shuffled(p, Metric(a, name), Metric(b, name))
  <2>1. \A i \in DOMAIN a : i \in DOMAIN Metric(a, name) <=> p[i] \in DOMAIN Metric(b, name)
    BY <1>0, MetricShape
  <2> QED BY <2>1, MetricShape, ShuffledParts
<1>4. ASSUME NEW first, NEW last PROVE Shuffled(p, Between(a, first, last), Between(b, first, last))
  <2>1. \A i \in DOMAIN a :
          i \in DOMAIN Between(a, first, last) <=> p[i] \in DOMAIN Between(b, first, last)
    BY <1>0, BetweenShape
  <2> QED BY <2>1, BetweenShape, ShuffledParts
<1>5. ASSUME NEW service PROVE Shuffled(p, RequestSpans(a, service), RequestSpans(b, service))
  <2>1. \A i \in DOMAIN a :
          i \in DOMAIN RequestSpans(a, service) <=> p[i] \in DOMAIN RequestSpans(b, service)
    BY <1>0, RequestSpansShape
  <2> QED BY <2>1, RequestSpansShape, ShuffledParts
<1>6. Shuffled(p, Queries(a), Queries(b))
  <2>1. \A i \in DOMAIN a : i \in DOMAIN Queries(a) <=> p[i] \in DOMAIN Queries(b)
    BY <1>0, QueriesShape
  <2> QED BY <2>1, QueriesShape, ShuffledParts
<1>7. Shuffled(p, FailedCalls(a), FailedCalls(b))
  <2>1. \A i \in DOMAIN a : i \in DOMAIN FailedCalls(a) <=> p[i] \in DOMAIN FailedCalls(b)
    BY <1>0, FailedCallsShape
  <2> QED BY <2>1, FailedCallsShape, ShuffledParts
<1> QED BY <1>1, <1>2, <1>3, <1>4, <1>5, <1>6, <1>7

\* Markers are looked for by their times, so both windows start and end alike.
LEMMA ShuffledWindows ==
  ASSUME NEW p, NEW a, NEW b, Shuffled(p, a, b), NEW now
  PROVE  /\ Windows(a, now) = Windows(b, now)
         /\ Shuffled(p, Current(a, now), Current(b, now))
         /\ Shuffled(p, Baseline(a, now), Baseline(b, now))
<1> DEFINE Recent(list) ==
             {list[i].timestamp : i \in {j \in DOMAIN list : /\ list[j].kind \in MarkerKinds
                                                             /\ list[j].timestamp >= now - MarkerWindow}}
<1>1. Recent(a) = Recent(b)
  <2>1. \A i \in DOMAIN a : p[i] \in DOMAIN b /\ b[p[i]] = a[i]
    BY ShuffledItem
  <2>2. \A k \in DOMAIN b : \E i \in DOMAIN a : k = p[i]
    BY ShuffledItem
  <2>3. ASSUME NEW x \in Recent(a) PROVE x \in Recent(b)
    <3>1. PICK i \in DOMAIN a : /\ a[i].kind \in MarkerKinds /\ a[i].timestamp >= now - MarkerWindow
                                /\ x = a[i].timestamp
      OBVIOUS
    <3>2. p[i] \in DOMAIN b /\ b[p[i]] = a[i]
      BY <2>1
    <3> QED BY <3>1, <3>2
  <2>4. ASSUME NEW x \in Recent(b) PROVE x \in Recent(a)
    <3>1. PICK k \in DOMAIN b : /\ b[k].kind \in MarkerKinds /\ b[k].timestamp >= now - MarkerWindow
                                /\ x = b[k].timestamp
      OBVIOUS
    <3>2. PICK i \in DOMAIN a : k = p[i]
      BY <2>2
    <3>3. a[i] = b[k]
      BY <2>1, <3>2
    <3> QED BY <3>1, <3>3
  <2> HIDE DEF Recent
  <2> QED BY <2>3, <2>4
<1> DEFINE W(recent) ==
             IF recent # {}
             THEN [current_start  |-> Least(recent),
                   baseline_start |-> Least(recent) - Greater(MinBaselineWidth, now - Least(recent)),
                   baseline_end   |-> Least(recent) - Gap]
             ELSE [current_start  |-> now - CurrentWindow,
                   baseline_start |-> now - BaselineReach,
                   baseline_end   |-> now - CurrentWindow - Gap]
<1>2. Windows(a, now) = W(Recent(a)) /\ Windows(b, now) = W(Recent(b))
  BY Zenon DEF Windows
<1> HIDE DEF W, Recent
<1>3. Windows(a, now) = Windows(b, now)
  BY <1>1, <1>2
<1> DEFINE w == Windows(a, now)
<1>4. /\ Current(a, now) = Between(a, w.current_start, now)
      /\ Current(b, now) = Between(b, w.current_start, now)
      /\ Baseline(a, now) = Between(a, w.baseline_start, w.baseline_end)
      /\ Baseline(b, now) = Between(b, w.baseline_start, w.baseline_end)
  BY <1>3, Zenon DEF Current, Baseline
<1> HIDE DEF w
<1> QED BY <1>3, <1>4, ShuffledFilters

\* What the rules read of two lists: how many items there are and how much they grew.
LEMMA ShuffledGrowth ==
  ASSUME NEW p, NEW current, NEW later, Shuffled(p, current, later),
         NEW baseline, NEW before, Shuffled(p, baseline, before)
  PROVE  Factor(current, baseline).growth = Factor(later, before).growth
  BY ShuffledSize, ShuffledP99 DEF Factor

\* The same points for the same number of rules: all a score depends on.
SamePoints(s, t) ==
  /\ s \in Seq({s[i] : i \in DOMAIN s}) /\ t \in Seq({t[i] : i \in DOMAIN t})
  /\ Len(s) = Len(t)
  /\ \A i \in 1..Len(s) : s[i].points = t[i].points

LEMMA OwnElements ==
  ASSUME NEW X, NEW s \in Seq(X)
  PROVE  s \in Seq({s[i] : i \in DOMAIN s})
<1> DEFINE own == {s[i] : i \in DOMAIN s}
<1>1. Len(s) \in Nat /\ DOMAIN s = 1..Len(s)
  OBVIOUS
<1>2. s = [i \in 1..Len(s) |-> s[i]] /\ \A i \in 1..Len(s) : s[i] \in own
  BY <1>1
<1> HIDE DEF own
<1>3. s \in [1..Len(s) -> own]
  BY <1>2
<1>4. s \in Seq(own)
  BY <1>1, <1>3, FunctionIsSeq
<1> QED BY <1>4 DEF own

LEMMA PointsOfOne ==
  ASSUME NEW c, NEW d, c.points = d.points, NEW applies, NEW also, applies <=> also
  PROVE  /\ SamePoints(<<c>>, <<d>>) /\ SamePoints(<<>>, <<>>)
         /\ SamePoints(When(applies, c), When(also, d))
<1>1. SamePoints(<<c>>, <<d>>)
  <2>1. /\ <<c>> \in Seq({c}) /\ Len(<<c>>) = 1 /\ <<c>>[1] = c
        /\ <<d>> \in Seq({d}) /\ Len(<<d>>) = 1 /\ <<d>>[1] = d
    OBVIOUS
  <2> DEFINE s == <<c>>
             t == <<d>>
  <2> HIDE DEF s, t
  <2>2. s \in Seq({s[i] : i \in DOMAIN s}) /\ t \in Seq({t[i] : i \in DOMAIN t})
    BY <2>1, OwnElements DEF s, t
  <2>3. Len(s) = 1 /\ Len(t) = 1 /\ s[1].points = t[1].points
    BY <2>1 DEF s, t
  <2>4. \A i \in 1..Len(s) : s[i].points = t[i].points
    BY <2>3
  <2>5. SamePoints(s, t)
    BY <2>2, <2>3, <2>4, Zenon DEF SamePoints
  <2> QED BY <2>5 DEF s, t
<1>2. SamePoints(<<>>, <<>>)
  BY DEF SamePoints
<1>3. CASE applies
  <2>1. When(applies, c) = <<c>> /\ When(also, d) = <<d>>
    BY <1>3, Zenon DEF When
  <2> QED BY <1>1, <1>2, <2>1, Zenon
<1>4. CASE ~applies
  <2>1. When(applies, c) = <<>> /\ When(also, d) = <<>>
    BY <1>4, Zenon DEF When
  <2> QED BY <1>1, <1>2, <2>1, Zenon
<1> QED BY <1>3, <1>4

LEMMA PointsOfConcat ==
  ASSUME NEW s, NEW t, SamePoints(s, t), NEW u, NEW v, SamePoints(u, v)
  PROVE  SamePoints(s \o u, t \o v)
<1> DEFINE X == {s[i] : i \in DOMAIN s} \cup {t[i] : i \in DOMAIN t}
                  \cup {u[i] : i \in DOMAIN u} \cup {v[i] : i \in DOMAIN v}
<1>1. s \in Seq(X) /\ t \in Seq(X) /\ u \in Seq(X) /\ v \in Seq(X)
  BY DEF SamePoints
<1> HIDE DEF X
<1>2. /\ Len(s) \in Nat /\ Len(u) \in Nat /\ Len(s) = Len(t) /\ Len(u) = Len(v)
      /\ \A i \in 1..Len(s) : s[i].points = t[i].points
      /\ \A i \in 1..Len(u) : u[i].points = v[i].points
  BY <1>1 DEF SamePoints
<1>3. /\ s \o u \in Seq(X) /\ t \o v \in Seq(X)
      /\ Len(s \o u) = Len(s) + Len(u) /\ Len(t \o v) = Len(s) + Len(u)
  BY <1>1, <1>2
<1>4. ASSUME NEW i \in 1..(Len(s) + Len(u)) PROVE (s \o u)[i].points = (t \o v)[i].points
  <2>1. CASE i <= Len(s)
    <3>1. (s \o u)[i] = s[i] /\ (t \o v)[i] = t[i]
      BY <1>1, <1>2, <2>1
    <3> QED BY <1>2, <2>1, <3>1
  <2>2. CASE i > Len(s)
    <3>1. (s \o u)[i] = u[i - Len(s)] /\ (t \o v)[i] = v[i - Len(s)] /\ i - Len(s) \in 1..Len(u)
      BY <1>1, <1>2, <2>2
    <3> QED BY <1>2, <3>1
  <2> QED BY <1>2, <2>1, <2>2
<1>5. /\ s \o u \in Seq({(s \o u)[i] : i \in DOMAIN (s \o u)})
      /\ t \o v \in Seq({(t \o v)[i] : i \in DOMAIN (t \o v)})
  BY <1>3, OwnElements
<1> QED BY <1>3, <1>4, <1>5 DEF SamePoints

LEMMA PointsMakeScore ==
  ASSUME NEW s, NEW t, SamePoints(s, t)
  PROVE  Score(s) = Score(t) /\ (s = <<>> <=> t = <<>>)
<1>1. /\ Len(s) \in Nat /\ DOMAIN s = 1..Len(s) /\ DOMAIN t = 1..Len(s)
      /\ \A i \in 1..Len(s) : s[i].points = t[i].points
  BY DEF SamePoints
<1>2. s = <<>> <=> t = <<>>
  BY DEF SamePoints
<1> DEFINE S(i) == IF i \in DOMAIN s THEN s[i].points ELSE Whole(0)
           T(i) == IF i \in DOMAIN t THEN t[i].points ELSE Whole(0)
<1>3. S(1) = T(1) /\ S(2) = T(2) /\ S(3) = T(3) /\ S(4) = T(4)
  BY <1>1
<1>4. /\ Score(s) = PlusFrac(PlusFrac(PlusFrac(S(1), S(2)), S(3)), S(4))
      /\ Score(t) = PlusFrac(PlusFrac(PlusFrac(T(1), T(2)), T(3)), T(4))
  BY Zenon DEF Score
<1> HIDE DEF S, T
<1> QED BY <1>2, <1>3, <1>4

LEMMA PointsOfContribution ==
  ASSUME NEW rule, NEW points, NEW cited
  PROVE  Contribution(rule, points, cited).points = points
  BY DEF Contribution

\* Each rule set gives the same points to a service of either list.
LEMMA ShuffledDatabase ==
  ASSUME NEW p, NEW current, NEW later, Shuffled(p, current, later),
         NEW baseline, NEW before, Shuffled(p, baseline, before),
         NEW deployments, NEW others, Shuffled(p, deployments, others),
         NEW latency, NEW wait, latency.growth = wait.growth
  PROVE  SamePoints(DatabaseRules(current, baseline, deployments, latency),
                    DatabaseRules(later, before, others, wait))
<1> DEFINE name == "process.cpu.utilization"
           Idle(list) == \A i \in DOMAIN Metric(list, name) : Metric(list, name)[i].value < CpuSaturation
           Db(cur, base) == Factor(Queries(cur), Queries(base))
           First(db)  == Contribution("database_latency_factor",
                           CapFrac(Whole(4), Frac(db.growth[1], 2 * db.growth[2])), db.largest)
           Second(lat) == Contribution("service_latency_factor", CapFrac(Whole(3), lat.growth), lat.largest)
           Third(deps) == Contribution("recent_deployment", Frac(3, 2), Latest(2, deps))
           Fourth(cur) == Contribution("no_cpu_saturation", Frac(1, 2), Latest(3, Metric(cur, name)))
           Rules(cur, base, deps, lat) ==
             IF ~SlowQueries(Db(cur, base)) THEN <<>>
             ELSE <<First(Db(cur, base))>> \o When(SawLatency(lat), Second(lat))
                    \o When(Size(deps) > 0, Third(deps)) \o When(Idle(cur), Fourth(cur))
<1>1. /\ DatabaseRules(current, baseline, deployments, latency) = Rules(current, baseline, deployments, latency)
      /\ DatabaseRules(later, before, others, wait) = Rules(later, before, others, wait)
  BY Zenon DEF DatabaseRules
<1>2. Db(current, baseline).growth = Db(later, before).growth
  <2>1. Shuffled(p, Queries(current), Queries(later)) /\ Shuffled(p, Queries(baseline), Queries(before))
    BY ShuffledFilters
  <2> QED BY <2>1, ShuffledGrowth
<1>3. SlowQueries(Db(current, baseline)) <=> SlowQueries(Db(later, before))
  BY <1>2 DEF SlowQueries
<1>4. SawLatency(latency) <=> SawLatency(wait)
  BY DEF SawLatency
<1>5. Size(deployments) > 0 <=> Size(others) > 0
  BY ShuffledSize
<1>6. Idle(current) <=> Idle(later)
  <2>1. Shuffled(p, Metric(current, name), Metric(later, name))
    BY ShuffledFilters
  <2> QED BY <2>1, ShuffledItem
<1>7. /\ First(Db(current, baseline)).points = First(Db(later, before)).points
      /\ Second(latency).points = Second(wait).points
      /\ Third(deployments).points = Third(others).points
      /\ Fourth(current).points = Fourth(later).points
  BY <1>2, PointsOfContribution
<1> HIDE DEF Idle, Db, First, Second, Third, Fourth
<1>8. /\ SamePoints(<<First(Db(current, baseline))>>, <<First(Db(later, before))>>)
      /\ SamePoints(When(SawLatency(latency), Second(latency)), When(SawLatency(wait), Second(wait)))
      /\ SamePoints(When(Size(deployments) > 0, Third(deployments)), When(Size(others) > 0, Third(others)))
      /\ SamePoints(When(Idle(current), Fourth(current)), When(Idle(later), Fourth(later)))
      /\ SamePoints(<<>>, <<>>)
  BY <1>4, <1>5, <1>6, <1>7, PointsOfOne
<1>9. SamePoints(Rules(current, baseline, deployments, latency), Rules(later, before, others, wait))
  BY <1>3, <1>8, PointsOfConcat
<1> QED BY <1>1, <1>9

LEMMA ShuffledDeployment ==
  ASSUME NEW p, NEW current, NEW later, Shuffled(p, current, later),
         NEW deployments, NEW others, Shuffled(p, deployments, others)
  PROVE  SamePoints(DeploymentRules(current, deployments), DeploymentRules(later, others))
<1> DEFINE Errors(cur) == OfKind(cur, "error")
           First(deps) == Contribution("recent_deployment", Whole(3), Latest(2, deps))
           Second(cur) == Contribution("concurrent_errors",
                            CapFrac(Whole(3), Frac(Size(Errors(cur)), 2)), Latest(5, Errors(cur)))
           Rules(cur, deps) ==
             IF Size(deps) = 0 THEN <<>>
             ELSE <<First(deps)>> \o When(Size(Errors(cur)) > 0, Second(cur))
<1>1. /\ DeploymentRules(current, deployments) = Rules(current, deployments)
      /\ DeploymentRules(later, others) = Rules(later, others)
  BY Zenon DEF DeploymentRules
<1>2. Size(deployments) = Size(others) /\ Size(Errors(current)) = Size(Errors(later))
  <2>1. Shuffled(p, Errors(current), Errors(later))
    BY ShuffledFilters
  <2> QED BY <2>1, ShuffledSize
<1>3. First(deployments).points = First(others).points /\ Second(current).points = Second(later).points
  BY <1>2, PointsOfContribution
<1> HIDE DEF Errors, First, Second
<1>4. /\ SamePoints(<<First(deployments)>>, <<First(others)>>) /\ SamePoints(<<>>, <<>>)
      /\ SamePoints(When(Size(Errors(current)) > 0, Second(current)),
                    When(Size(Errors(later)) > 0, Second(later)))
  BY <1>2, <1>3, PointsOfOne
<1>5. SamePoints(Rules(current, deployments), Rules(later, others))
  BY <1>2, <1>4, PointsOfConcat
<1> QED BY <1>1, <1>5

LEMMA ShuffledMemory ==
  ASSUME NEW p, NEW current, NEW later, Shuffled(p, current, later),
         NEW baseline, NEW before, Shuffled(p, baseline, before),
         NEW latency, NEW wait, latency.growth = wait.growth
  PROVE  SamePoints(MemoryRules(current, baseline, latency), MemoryRules(later, before, wait))
<1> DEFINE name == "process.memory.usage"
           Memory(cur, base) == Factor(Metric(cur, name), Metric(base, name))
           First(mem)  == Contribution("memory_growth", CapFrac(Whole(4), mem.growth), mem.largest)
           Second(lat) == Contribution("concurrent_latency", CapFrac(Whole(3), lat.growth), lat.largest)
           Rules(cur, base, lat) ==
             IF LeqFrac(Frac(12, 10), Memory(cur, base).growth) /\ SawLatency(lat)
             THEN <<First(Memory(cur, base)), Second(lat)>> ELSE <<>>
<1>1. /\ MemoryRules(current, baseline, latency) = Rules(current, baseline, latency)
      /\ MemoryRules(later, before, wait) = Rules(later, before, wait)
  BY Zenon DEF MemoryRules
<1>2. Memory(current, baseline).growth = Memory(later, before).growth
  <2>1. /\ Shuffled(p, Metric(current, name), Metric(later, name))
        /\ Shuffled(p, Metric(baseline, name), Metric(before, name))
    BY ShuffledFilters
  <2> HIDE DEF name
  <2> QED BY <2>1, ShuffledGrowth
<1>3. SawLatency(latency) <=> SawLatency(wait)
  BY DEF SawLatency
<1>4. /\ First(Memory(current, baseline)).points = First(Memory(later, before)).points
      /\ Second(latency).points = Second(wait).points
  BY <1>2, PointsOfContribution
<1> HIDE DEF Memory, First, Second
<1>5. /\ SamePoints(<<First(Memory(current, baseline)), Second(latency)>>,
                    <<First(Memory(later, before)), Second(wait)>>)
      /\ SamePoints(<<>>, <<>>)
  BY <1>4 DEF SamePoints
<1>6. SamePoints(Rules(current, baseline, latency), Rules(later, before, wait))
  BY <1>2, <1>3, <1>5
<1> QED BY <1>1, <1>6

LEMMA ShuffledDependency ==
  ASSUME NEW p, NEW current, NEW later, Shuffled(p, current, later)
  PROVE  SamePoints(DependencyRules(current), DependencyRules(later))
<1> DEFINE Only(cur) == Contribution("failed_client_spans",
                          CapFrac(Whole(6), Frac(3 * Size(FailedCalls(cur)), 2)), Latest(5, FailedCalls(cur)))
           Rules(cur) == When(Size(FailedCalls(cur)) > 0, Only(cur))
<1>1. DependencyRules(current) = Rules(current) /\ DependencyRules(later) = Rules(later)
  BY Zenon DEF DependencyRules
<1>2. Size(FailedCalls(current)) = Size(FailedCalls(later))
  <2>1. Shuffled(p, FailedCalls(current), FailedCalls(later))
    BY ShuffledFilters
  <2> QED BY <2>1, ShuffledSize
<1>3. Only(current).points = Only(later).points
  BY <1>2, PointsOfContribution
<1> HIDE DEF Only
<1>4. SamePoints(Rules(current), Rules(later))
  BY <1>2, <1>3, PointsOfOne
<1> QED BY <1>1, <1>4

\* The three lists the ranking works on, of a store and of the store shuffled.
ShuffledViews(p, baseA, curA, hourA, baseB, curB, hourB) ==
  Shuffled(p, baseA, baseB) /\ Shuffled(p, curA, curB) /\ Shuffled(p, hourA, hourB)

LEMMA ShuffledRules ==
  ASSUME NEW p, NEW baseA, NEW curA, NEW hourA, NEW baseB, NEW curB, NEW hourB,
         ShuffledViews(p, baseA, curA, hourA, baseB, curB, hourB), NEW now, NEW service, NEW j \in 0..3
  PROVE  /\ SamePoints(RulesAt(j, service, baseA, curA, hourA, now),
                       RulesAt(j, service, baseB, curB, hourB, now))
         /\ Size(OfService(curA, service)) = Size(OfService(curB, service))
<1> DEFINE cA == OfService(curA, service)
           cB == OfService(curB, service)
           bA == OfService(baseA, service)
           bB == OfService(baseB, service)
           dA == RecentDeployments(service, hourA, now)
           dB == RecentDeployments(service, hourB, now)
           lA == LatencyOf(service, baseA, curA)
           lB == LatencyOf(service, baseB, curB)
<1>1. Shuffled(p, cA, cB) /\ Shuffled(p, bA, bB)
  BY ShuffledFilters DEF ShuffledViews
<1>2. Shuffled(p, dA, dB)
  <2> DEFINE first == now - DeploymentWindow
  <2>1. Shuffled(p, OfKind(hourA, "deployment"), OfKind(hourB, "deployment"))
    BY ShuffledFilters DEF ShuffledViews
  <2> HIDE DEF first
  <2>2. Shuffled(p, Between(OfKind(hourA, "deployment"), first, now),
                    Between(OfKind(hourB, "deployment"), first, now))
    BY <2>1, ShuffledFilters
  <2>3. Shuffled(p, OfService(Between(OfKind(hourA, "deployment"), first, now), service),
                    OfService(Between(OfKind(hourB, "deployment"), first, now), service))
    BY <2>2, ShuffledFilters
  <2> QED BY <2>3, Zenon DEF RecentDeployments, first
<1>3. lA.growth = lB.growth
  <2> HIDE DEF cA, cB, bA, bB
  <2>1. Shuffled(p, OfKind(cA, "span"), OfKind(cB, "span")) /\ Shuffled(p, OfKind(bA, "span"), OfKind(bB, "span"))
    BY <1>1, ShuffledFilters
  <2>2. /\ lA = Factor(OfKind(cA, "span"), OfKind(bA, "span"))
        /\ lB = Factor(OfKind(cB, "span"), OfKind(bB, "span"))
    BY Zenon DEF LatencyOf, cA, cB, bA, bB
  <2> HIDE DEF lA, lB
  <2> QED BY <2>1, <2>2, ShuffledGrowth
<1>4. Size(cA) = Size(cB)
  BY <1>1, ShuffledSize
<1> DEFINE rA == RulesAt(j, service, baseA, curA, hourA, now)
           rB == RulesAt(j, service, baseB, curB, hourB, now)
<1>5. /\ j = 0 => rA = DatabaseRules(cA, bA, dA, lA) /\ rB = DatabaseRules(cB, bB, dB, lB)
      /\ j = 1 => rA = DeploymentRules(cA, dA) /\ rB = DeploymentRules(cB, dB)
      /\ j = 2 => rA = MemoryRules(cA, bA, lA) /\ rB = MemoryRules(cB, bB, lB)
      /\ j = 3 => rA = DependencyRules(cA) /\ rB = DependencyRules(cB)
  BY DEF RulesAt
<1>6. j = 0 \/ j = 1 \/ j = 2 \/ j = 3
  OBVIOUS
<1> HIDE DEF cA, cB, bA, bB, dA, dB, lA, lB, rA, rB
<1>7. SamePoints(rA, rB)
  <2>1. CASE j = 0
    BY <1>1, <1>2, <1>3, <1>5, <2>1, ShuffledDatabase
  <2>2. CASE j = 1
    BY <1>1, <1>2, <1>5, <2>2, ShuffledDeployment
  <2>3. CASE j = 2
    BY <1>1, <1>3, <1>5, <2>3, ShuffledMemory
  <2>4. CASE j = 3
    BY <1>1, <1>5, <2>4, ShuffledDependency
  <2> QED BY <1>6, <2>1, <2>2, <2>3, <2>4
<1> QED BY <1>4, <1>7 DEF rA, rB, cA, cB

\* A candidate is of a service seen in the current window, and each rule set that
\* applies to such a service makes one.
LEMMA CandidateSeen ==
  ASSUME NEW baseline, NEW current, NEW hour, NEW now, NEW c \in Candidates(baseline, current, hour, now)
  PROVE  Size(OfService(current, c.service)) # 0
<1>1. PICK n \in DOMAIN ServiceOrder :
        c \in CandidatesOf(n, ServiceOrder[n], baseline, current, hour, now)
  BY DEF Candidates
<1> DEFINE service == ServiceOrder[n]
           Any(found, title) == \E s : c \in Hypothesis(found, title, service, s)
<1>2. /\ Size(OfService(current, service)) # 0
      /\ \/ Any(4 * n, "Database interaction regression")
         \/ Any(4 * n + 1, "Bad deployment")
         \/ Any(4 * n + 2, "Memory pressure causing processing degradation")
         \/ Any(4 * n + 3, "Downstream dependency outage")
  BY <1>1, Zenon DEF CandidatesOf
<1>3. ASSUME NEW found, NEW title, Any(found, title) PROVE c.service = service
  <2>1. PICK s : c \in Hypothesis(found, title, service, s)
    BY <1>3
  <2>2. c = [found |-> found, title |-> title, service |-> service,
             score |-> Score(s), contributions |-> s]
    BY <2>1, HypothesisShape
  <2> QED BY <2>2
<1>4. c.service = service
  <2> HIDE DEF Any
  <2> QED BY <1>2, <1>3, Zenon
<1> QED BY <1>2, <1>4

LEMMA CandidateFound ==
  ASSUME NEW baseline, NEW current, NEW hour, NEW now, NEW n \in DOMAIN ServiceOrder, NEW j \in 0..3,
         Size(OfService(current, ServiceOrder[n])) # 0,
         NEW c, FoundAt(c, n, j, baseline, current, hour, now)
  PROVE  c \in Candidates(baseline, current, hour, now)
<1> DEFINE service == ServiceOrder[n]
           s == RulesAt(j, service, baseline, current, hour, now)
           all == CandidatesOf(n, service, baseline, current, hour, now)
           DB == DatabaseRules(OfService(current, service), OfService(baseline, service),
                               RecentDeployments(service, hour, now), LatencyOf(service, baseline, current))
           DP == DeploymentRules(OfService(current, service), RecentDeployments(service, hour, now))
           MM == MemoryRules(OfService(current, service), OfService(baseline, service),
                             LatencyOf(service, baseline, current))
           DD == DependencyRules(OfService(current, service))
<1>0. n \in Nat
  BY ServicesAssumption
<1>1. c \in Hypothesis(4 * n + j, TitleAt(j), service, s)
  <2>1. /\ s # <<>>
        /\ c = [found |-> 4 * n + j, title |-> TitleAt(j), service |-> service,
                score |-> Score(s), contributions |-> s]
    BY DEF FoundAt
  <2> HIDE DEF s, service
  <2> QED BY <2>1, Zenon DEF Hypothesis
<1>2. all = UNION {Hypothesis(4 * n, "Database interaction regression", service, DB),
                   Hypothesis(4 * n + 1, "Bad deployment", service, DP),
                   Hypothesis(4 * n + 2, "Memory pressure causing processing degradation", service, MM),
                   Hypothesis(4 * n + 3, "Downstream dependency outage", service, DD)}
  BY Zenon DEF CandidatesOf, LatencyOf
<1>3. \/ j = 0 /\ s = DB /\ TitleAt(j) = "Database interaction regression" /\ 4 * n + j = 4 * n
      \/ j = 1 /\ s = DP /\ TitleAt(j) = "Bad deployment"
      \/ j = 2 /\ s = MM /\ TitleAt(j) = "Memory pressure causing processing degradation"
      \/ j = 3 /\ s = DD /\ TitleAt(j) = "Downstream dependency outage"
  <2>1. j = 0 \/ j = 1 \/ j = 2 \/ j = 3
    OBVIOUS
  <2>2. /\ j = 0 => s = DB /\ TitleAt(j) = "Database interaction regression"
        /\ j = 1 => s = DP /\ TitleAt(j) = "Bad deployment"
        /\ j = 2 => s = MM /\ TitleAt(j) = "Memory pressure causing processing degradation"
        /\ j = 3 => s = DD /\ TitleAt(j) = "Downstream dependency outage"
    BY DEF RulesAt, TitleAt
  <2>3. j = 0 => 4 * n + j = 4 * n
    BY <1>0
  <2> HIDE DEF s, DB, DP, MM, DD
  <2> QED BY <2>1, <2>2, <2>3, Zenon
<1>4. c \in all
  <2> HIDE DEF s, DB, DP, MM, DD, all, service
  <2> QED BY <1>1, <1>2, <1>3, Zenon
<1> QED BY <1>4 DEF Candidates

\* Candidates alike in all but what they cite.
Twins(c, d) == c.found = d.found /\ c.title = d.title /\ c.service = d.service /\ c.score = d.score

RuledAlike(baseA, curA, hourA, baseB, curB, hourB, now) ==
  \A service : \A j \in 0..3 :
    /\ SamePoints(RulesAt(j, service, baseA, curA, hourA, now),
                  RulesAt(j, service, baseB, curB, hourB, now))
    /\ Size(OfService(curA, service)) = Size(OfService(curB, service))

LEMMA ViewsRuledAlike ==
  ASSUME NEW p, NEW baseA, NEW curA, NEW hourA, NEW baseB, NEW curB, NEW hourB,
         ShuffledViews(p, baseA, curA, hourA, baseB, curB, hourB), NEW now
  PROVE  /\ RuledAlike(baseA, curA, hourA, baseB, curB, hourB, now)
         /\ RuledAlike(baseB, curB, hourB, baseA, curA, hourA, now)
<1>1. RuledAlike(baseA, curA, hourA, baseB, curB, hourB, now)
  BY ShuffledRules DEF RuledAlike
<1>2. \A s, t : SamePoints(s, t) => SamePoints(t, s)
  BY DEF SamePoints
<1> QED BY <1>1, <1>2, Zenon DEF RuledAlike

\* Each candidate has a twin among the others.
LEMMA CandidateTwin ==
  ASSUME NEW baseA, NEW curA, NEW hourA, NEW baseB, NEW curB, NEW hourB, NEW now,
         RuledAlike(baseA, curA, hourA, baseB, curB, hourB, now),
         NEW c \in Candidates(baseA, curA, hourA, now)
  PROVE  \E d \in Candidates(baseB, curB, hourB, now) : Twins(c, d)
<1>1. PICK n \in DOMAIN ServiceOrder, j \in 0..3 : FoundAt(c, n, j, baseA, curA, hourA, now)
  BY CandidateOrigin
<1> DEFINE service == ServiceOrder[n]
           s == RulesAt(j, service, baseA, curA, hourA, now)
           t == RulesAt(j, service, baseB, curB, hourB, now)
           d == [found |-> 4 * n + j, title |-> TitleAt(j), service |-> service,
                 score |-> Score(t), contributions |-> t]
<1>2. /\ s # <<>>
      /\ c = [found |-> 4 * n + j, title |-> TitleAt(j), service |-> service,
              score |-> Score(s), contributions |-> s]
  BY <1>1 DEF FoundAt
<1>3. c.service = service
  BY <1>2
<1>4. Size(OfService(curA, service)) # 0
  BY <1>3, CandidateSeen
<1>5. SamePoints(s, t) /\ Size(OfService(curA, service)) = Size(OfService(curB, service))
  BY DEF RuledAlike
<1>6. Score(s) = Score(t) /\ t # <<>>
  <2> HIDE DEF s, t
  <2> QED BY <1>2, <1>5, PointsMakeScore
<1>7. FoundAt(d, n, j, baseB, curB, hourB, now)
  BY <1>6 DEF FoundAt
<1>8. d \in Candidates(baseB, curB, hourB, now)
  <2> HIDE DEF d
  <2> QED BY <1>4, <1>5, <1>7, CandidateFound
<1>9. Twins(c, d)
  <2> HIDE DEF s, t
  <2> QED BY <1>2, <1>6 DEF Twins
<1> HIDE DEF d
<1> QED BY <1>8, <1>9

\* Sets of candidates, told apart by where they were found, that pair up as twins.
Paired(A, B) ==
  /\ \A c \in A : \E d \in B : Twins(c, d)
  /\ \A d \in B : \E c \in A : Twins(c, d)

Apart(A) == IsFiniteSet(A) /\ StrictOrder(A, BetterOrder(A)) /\ \A c, d \in A : c.found = d.found => c = d

\* The order reads nothing else, so twins are sorted to the same places.
LEMMA TwinsSorted ==
  ASSUME NEW A, Apart(A), NEW B, Apart(B), Paired(A, B),
         NEW t, IsSort(t, A, BetterOrder(A)), NEW u, IsSort(u, B, BetterOrder(B))
  PROVE  /\ t \in Seq(A) /\ u \in Seq(B) /\ Len(t) = Len(u)
         /\ \A k \in DOMAIN t : Twins(t[k], u[k])
<1> DEFINE g == [c \in A |-> CHOOSE d \in B : Twins(c, d)]
<1>1. \A c \in A : g[c] \in B /\ Twins(c, g[c])
  BY DEF Paired
<1>2. DOMAIN g = A
  OBVIOUS
<1> HIDE DEF g
<1>3. \A c, d \in A : g[c] = g[d] => c = d
  BY <1>1 DEF Twins, Apart
<1>4. \A d \in B : \E c \in A : d = g[c]
  <2> SUFFICES ASSUME NEW d \in B PROVE \E c \in A : d = g[c]
    OBVIOUS
  <2>1. PICK c \in A : Twins(c, d)
    BY DEF Paired
  <2>2. g[c].found = d.found /\ g[c] \in B
    BY <1>1, <2>1 DEF Twins
  <2> QED BY <2>2 DEF Apart
<1>5. Cardinality(A) = Cardinality(B)
  BY <1>1, <1>2, <1>3, <1>4, ImageSize DEF Apart
<1>6. \A c, d \in A : <<c, d>> \in BetterOrder(A) <=> <<g[c], g[d]>> \in BetterOrder(B)
  <2>1. \A c, d \in A : Better(c, d) <=> Better(g[c], g[d])
    BY <1>1 DEF Better, Twins
  <2> QED BY <1>1, <2>1 DEF BetterOrder
<1>7. ASSUME NEW c \in A PROVE Rank(A, BetterOrder(A), c) = Rank(B, BetterOrder(B), g[c])
  <2> DEFINE S == {y \in A : <<y, c>> \in BetterOrder(A)}
             T == {y \in B : <<y, g[c]>> \in BetterOrder(B)}
  <2>1. IsFiniteSet(S)
    BY FS_Subset DEF Apart
  <2>2. S \in SUBSET (DOMAIN g) /\ \A i, j \in DOMAIN g : g[i] = g[j] => i = j
    BY <1>2, <1>3
  <2>3. \A y \in S : g[y] \in T
    BY <1>1, <1>6
  <2>4. ASSUME NEW z \in T PROVE \E y \in S : z = g[y]
    <3>1. PICK y \in A : z = g[y]
      BY <1>4
    <3>2. y \in S
      BY <1>6, <3>1
    <3> QED BY <3>1, <3>2
  <2> HIDE DEF S, T
  <2>5. Cardinality(T) = Cardinality(S)
    BY <2>1, <2>2, <2>3, <2>4, ImageSize
  <2> QED BY <2>5 DEF Rank, S, T
<1>8. /\ t \in Seq(A) /\ Len(t) = Cardinality(A) /\ DOMAIN t = 1..Cardinality(A)
      /\ u \in Seq(B) /\ Len(u) = Cardinality(B) /\ DOMAIN u = 1..Cardinality(B)
  BY SortedShape DEF Apart
<1>9. ASSUME NEW k \in DOMAIN t PROVE Twins(t[k], u[k])
  <2>1. /\ t[k] \in A /\ Rank(A, BetterOrder(A), t[k]) = k
        /\ u[k] \in B /\ Rank(B, BetterOrder(B), u[k]) = k
    BY <1>5, <1>8 DEF IsSort
  <2>2. Rank(B, BetterOrder(B), g[t[k]]) = k /\ g[t[k]] \in B
    BY <1>1, <1>7, <2>1
  <2>3. g[t[k]] = u[k]
    BY <2>1, <2>2, RankShape DEF Apart
  <2> QED BY <1>1, <2>1, <2>3
<1> QED BY <1>5, <1>8, <1>9

\* The ranking of a shuffled store: twins at each place.
LEMMA ShuffledRanking ==
  ASSUME NEW p, NEW baseA, NEW curA, NEW hourA, NEW baseB, NEW curB, NEW hourB,
         ShuffledViews(p, baseA, curA, hourA, baseB, curB, hourB), NEW now,
         NEW s, s = RankHypotheses(baseA, curA, hourA, now),
         NEW t, t = RankHypotheses(baseB, curB, hourB, now)
  PROVE  DOMAIN s = DOMAIN t /\ \A k \in DOMAIN s : Twins(s[k], t[k])
<1> DEFINE A == Candidates(baseA, curA, hourA, now)
           B == Candidates(baseB, curB, hourB, now)
           u == Ordered(A, Better)
           v == Ordered(B, Better)
<1>1. /\ IsList(baseA) /\ IsList(curA) /\ IsList(hourA)
      /\ IsList(baseB) /\ IsList(curB) /\ IsList(hourB)
  BY DEF ShuffledViews, Shuffled
<1>2. Apart(A) /\ IsSort(u, A, BetterOrder(A))
  BY <1>1, CandidatesSorted DEF Apart
<1>3. Apart(B) /\ IsSort(v, B, BetterOrder(B))
  BY <1>1, CandidatesSorted DEF Apart
<1>4. Paired(A, B)
  <2>1. /\ RuledAlike(baseA, curA, hourA, baseB, curB, hourB, now)
        /\ RuledAlike(baseB, curB, hourB, baseA, curA, hourA, now)
    BY ViewsRuledAlike
  <2>2. \A c \in A : \E d \in B : Twins(c, d)
    BY <2>1, CandidateTwin
  <2>3. \A d \in B : \E c \in A : Twins(d, c)
    BY <2>1, CandidateTwin
  <2>4. \A c, d : Twins(d, c) => Twins(c, d)
    BY DEF Twins
  <2> HIDE DEF A, B
  <2> QED BY <2>2, <2>3, <2>4 DEF Paired
<1>5. s = FirstOf(5, u) /\ t = FirstOf(5, v)
  BY DEF RankHypotheses
<1> HIDE DEF A, B, u, v
<1>6. /\ u \in Seq(A) /\ v \in Seq(B) /\ Len(u) = Len(v)
      /\ \A k \in DOMAIN u : Twins(u[k], v[k])
  BY <1>2, <1>3, <1>4, TwinsSorted
<1>7. /\ s \in Seq(A) /\ t \in Seq(B) /\ Len(s) = Len(t)
      /\ \A k \in DOMAIN s : k \in DOMAIN u /\ s[k] = u[k]
      /\ \A k \in DOMAIN t : t[k] = v[k]
  BY <1>5, <1>6, FirstOfShape
<1>8. DOMAIN s = DOMAIN t
  BY <1>7
<1> QED BY <1>6, <1>7, <1>8

\* Objectives count requests and bad ones.
LEMMA ShuffledStatuses ==
  ASSUME NEW p, NEW a, NEW b, Shuffled(p, a, b), NEW now
  PROVE  SloStatuses(a, now) = SloStatuses(b, now)
<1> DEFINE Long(list, k) == RequestSpans(list, DefaultSlos[k].service)
           Short(list, k) == Between(Long(list, k), now - ShortWindow, now)
           Bad(list, k) == BadCount(DefaultSlos[k], list)
           At(list, k) == CalculateSlo(DefaultSlos[k], Size(Long(list, k)), Bad(Long(list, k), k),
                            BadFraction(Bad(Short(list, k), k), Size(Short(list, k))),
                            BadFraction(Bad(Long(list, k), k), Size(Long(list, k))))
<1>1. /\ SloStatuses(a, now) = [k \in DOMAIN DefaultSlos |-> At(a, k)]
      /\ SloStatuses(b, now) = [k \in DOMAIN DefaultSlos |-> At(b, k)]
  BY Zenon DEF SloStatuses
<1>2. ASSUME NEW slo, NEW x, NEW y, Shuffled(p, x, y)
      PROVE  Size(x) = Size(y) /\ BadCount(slo, x) = BadCount(slo, y)
  <2> DEFINE u == RestrictValues(x, LAMBDA e : IsBad(slo, e))
             v == RestrictValues(y, LAMBDA e : IsBad(slo, e))
  <2>1. PartOf(u, x) /\ \A i \in DOMAIN x : i \in DOMAIN u <=> IsBad(slo, x[i])
    BY DEF RestrictValues, Restrict, PartOf
  <2>2. PartOf(v, y) /\ \A i \in DOMAIN y : i \in DOMAIN v <=> IsBad(slo, y[i])
    BY DEF RestrictValues, Restrict, PartOf
  <2>3. BadCount(slo, x) = Size(u) /\ BadCount(slo, y) = Size(v)
    BY Zenon DEF BadCount
  <2> HIDE DEF u, v
  <2>4. \A i \in DOMAIN x : i \in DOMAIN u <=> p[i] \in DOMAIN v
    BY <1>2, <2>1, <2>2, ShuffledItem
  <2>5. Shuffled(p, u, v)
    BY <1>2, <2>1, <2>2, <2>4, ShuffledParts
  <2> QED BY <1>2, <2>3, <2>5, ShuffledSize
<1>3. ASSUME NEW k \in DOMAIN DefaultSlos PROVE At(a, k) = At(b, k)
  <2>1. Shuffled(p, Long(a, k), Long(b, k))
    BY ShuffledFilters
  <2>2. Shuffled(p, Short(a, k), Short(b, k))
    <3> HIDE DEF Long
    <3> QED BY <2>1, ShuffledFilters
  <2> HIDE DEF Long, Short
  <2> QED BY <1>2, <2>1, <2>2
<1> HIDE DEF At
<1> QED BY <1>1, <1>3

\* An analysis of a store and of the store shuffled come to the same verdict.
LEMMA ShuffledVerdict ==
  ASSUME NEW p, NEW a, NEW b, Shuffled(p, a, b), NEW now
  PROVE  Verdict(AnalyzeAt(a, now)) = Verdict(AnalyzeAt(b, now))
<1> DEFINE hourA == Between(a, now - LongWindow, now)
           hourB == Between(b, now - LongWindow, now)
           curA == Current(hourA, now)
           curB == Current(hourB, now)
           baseA == Baseline(hourA, now)
           baseB == Baseline(hourB, now)
           s == RankHypotheses(baseA, curA, hourA, now)
           t == RankHypotheses(baseB, curB, hourB, now)
           foundA == AnalyzeAt(a, now)
           foundB == AnalyzeAt(b, now)
<1>1. Shuffled(p, hourA, hourB)
  BY ShuffledFilters
<1>2. ShuffledViews(p, baseA, curA, hourA, baseB, curB, hourB)
  <2> HIDE DEF hourA, hourB
  <2> QED BY <1>1, ShuffledWindows DEF ShuffledViews
<1>3. PICK timelineA : Outcome(foundA, baseA, curA, s, timelineA)
  BY AnalyzeOutcome
<1>4. PICK timelineB : Outcome(foundB, baseB, curB, t, timelineB)
  BY AnalyzeOutcome
<1> HIDE DEF hourA, hourB, curA, curB, baseA, baseB, foundA, foundB
<1>5. DOMAIN s = DOMAIN t /\ \A k \in DOMAIN s : Twins(s[k], t[k])
  BY <1>2, ShuffledRanking
<1> HIDE DEF s, t
<1>6. (Slow(baseA, curA) <=> Slow(baseB, curB)) /\ (Quiet(baseA, curA) <=> Quiet(baseB, curB))
  <2>1. Shuffled(p, Checkout(curA), Checkout(curB)) /\ Shuffled(p, Checkout(baseA), Checkout(baseB))
    BY <1>2, ShuffledFilters DEF ShuffledViews, Checkout
  <2>2. Shuffled(p, OfKind(Checkout(curA), "error"), OfKind(Checkout(curB), "error"))
    BY <2>1, ShuffledFilters
  <2>3. /\ P99(Values(Checkout(curA))) = P99(Values(Checkout(curB)))
        /\ P99(Values(Checkout(baseA))) = P99(Values(Checkout(baseB)))
    BY <2>1, ShuffledP99
  <2>4. /\ Size(Checkout(curA)) = Size(Checkout(curB))
        /\ Size(OfKind(Checkout(curA), "error")) = Size(OfKind(Checkout(curB), "error"))
    BY <2>1, <2>2, ShuffledSize
  <2>5. Slow(baseA, curA) <=> Slow(baseB, curB)
    BY <2>3, Zenon DEF Slow
  <2>6. Erring(curA) <=> Erring(curB)
    BY <2>4, Zenon DEF Erring
  <2> QED BY <2>4, <2>5, <2>6 DEF Quiet
<1>7. CASE Quiet(baseA, curA)
  <2>1. foundA = foundB
    BY <1>3, <1>4, <1>6, <1>7 DEF Outcome
  <2> QED BY <2>1 DEF foundA, foundB
<1>8. CASE ~Quiet(baseA, curA)
  <2> DEFINE Told(x) == [k \in DOMAIN x |-> <<x[k].title, x[k].service, x[k].score>>]
  <2>1. Verdict(foundA) = <<foundA.title, Told(s)>> /\ Verdict(foundB) = <<foundB.title, Told(t)>>
    <3>1. foundA # NoIncident /\ foundB # NoIncident /\ foundA.hypotheses = s /\ foundB.hypotheses = t
      BY <1>3, <1>4, <1>6, <1>8 DEF Outcome
    <3> HIDE DEF Told
    <3>2. /\ Verdict(foundA) = <<foundA.title, Told(foundA.hypotheses)>>
          /\ Verdict(foundB) = <<foundB.title, Told(foundB.hypotheses)>>
      BY <3>1, Zenon DEF Verdict, Told
    <3> QED BY <3>1, <3>2
  <2>2. Told(s) = Told(t)
    BY <1>5 DEF Twins
  <2>3. foundA.title = foundB.title
    BY <1>3, <1>4, <1>6, <1>8 DEF Outcome
  <2> HIDE DEF Told
  <2>4. Verdict(foundA) = Verdict(foundB)
    BY <2>1, <2>2, <2>3
  <2> QED BY <2>4 DEF foundA, foundB
<1> QED BY <1>7, <1>8

\* Whatever the order of the store's items.
Reordered(p) == [k \in DOMAIN items |-> items[p[k]]]
OrderFree ==
  \A p \in Bijection(DOMAIN items, DOMAIN items) :
    /\ Verdict(AnalyzeAt(Reordered(p), Now)) = Verdict(incident)
    /\ SloStatuses(Between(Reordered(p), Now - LongWindow, Now), Now) = SloStatuses(Hour, Now)

LEMMA ReorderedIsShuffled ==
  ASSUME IsList(items), NEW p \in Bijection(DOMAIN items, DOMAIN items)
  PROVE  Shuffled(p, Reordered(p), items)
<1> DEFINE other == Reordered(p)
<1>1. /\ DOMAIN p = DOMAIN items /\ \A i, j \in DOMAIN p : p[i] = p[j] => i = j
      /\ \A i \in DOMAIN items : p[i] \in DOMAIN items
      /\ \A k \in DOMAIN items : \E i \in DOMAIN items : k = p[i]
  BY DEF Bijection, Injection, Surjection, IsInjective
<1>2. DOMAIN other = DOMAIN items /\ \A k \in DOMAIN items : other[k] = items[p[k]]
  BY DEF Reordered
<1> HIDE DEF other
<1>3. IsList(other)
  BY <1>1, <1>2 DEF IsList
<1>4. Matches(p, other, items)
  BY <1>1, <1>2 DEF Matches
<1> QED BY <1>3, <1>4 DEF Shuffled, other

LEMMA OrderFreeHolds == Inv => OrderFree
<1> SUFFICES ASSUME Inv, NEW p \in Bijection(DOMAIN items, DOMAIN items)
             PROVE  /\ Verdict(AnalyzeAt(Reordered(p), Now)) = Verdict(incident)
                    /\ SloStatuses(Between(Reordered(p), Now - LongWindow, Now), Now)
                         = SloStatuses(Hour, Now)
  BY DEF OrderFree
<1>1. incident = AnalyzeAt(items, Now)
  BY DEF Inv, Found
<1>2. Shuffled(p, Reordered(p), items)
  BY ItemsAreList, ReorderedIsShuffled DEF Inv, StoreInv
<1>3. Verdict(AnalyzeAt(Reordered(p), Now)) = Verdict(AnalyzeAt(items, Now))
  BY <1>2, ShuffledVerdict
<1>4. Shuffled(p, Between(Reordered(p), Now - LongWindow, Now), Hour)
  BY <1>2, ShuffledFilters DEF Hour
<1>5. SloStatuses(Between(Reordered(p), Now - LongWindow, Now), Now) = SloStatuses(Hour, Now)
  BY <1>4, ShuffledStatuses
<1> QED BY <1>1, <1>3, <1>5

\* The engine is deterministic in what matters: whatever the order in which the
\* exporters filled the store, an analysis reports the same objectives and comes
\* to the same title and the same hypotheses, services and scores, in the same
\* order (CorrelationEngine.analyze, rank_hypotheses).
THEOREM ShuffleTheorem == Spec => []OrderFree
  BY StoreTheorem, OrderFreeHolds, PTL

LEMMA ReversalIsOne ==
  ASSUME items \in Seq(Item)
  PROVE  \E p \in Bijection(DOMAIN items, DOMAIN items) : Reversed = Reordered(p)
<1> DEFINE n == Len(items)
           p == [i \in DOMAIN items |-> n + 1 - i]
<1>1. n \in Nat /\ DOMAIN items = 1..n
  BY ItemsAreList
<1> HIDE DEF n
<1>2. p \in [DOMAIN items -> DOMAIN items] /\ \A i, j \in DOMAIN items : p[i] = p[j] => i = j
  BY <1>1
<1>3. \A k \in DOMAIN items : \E i \in DOMAIN items : p[i] = k
  <2>1. \A k \in DOMAIN items : n + 1 - k \in DOMAIN items /\ p[n + 1 - k] = k
    BY <1>1
  <2> QED BY <2>1
<1>4. Reversed = Reordered(p)
  BY DEF Reversed, Reordered, n
<1> HIDE DEF p
<1>5. p \in Bijection(DOMAIN items, DOMAIN items)
  BY <1>2, <1>3, Fun_IsBij
<1> QED BY <1>4, <1>5

\* Of which the reversal that the runs check is a case.
THEOREM OrderTheorem == Spec => []OrderIndependent
<1>1. Inv => OrderIndependent
  BY OrderFreeHolds, ReversalIsOne DEF Inv, StoreInv, OrderFree, OrderIndependent
<1> QED BY <1>1, StoreTheorem, PTL
===============================================================================
