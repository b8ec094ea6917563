------------------------------- MODULE Analysis -------------------------------
(***************************************************************************)
(* An evidence store that fills batch by batch, and what an analysis of it *)
(* at the fixed time Now finds after each: the module in which the         *)
(* properties of the correlation engine are stated.                        *)
(***************************************************************************)
EXTENDS Correlation, EvidenceStore

CONSTANTS
  Arrivals,     \* the batches that may arrive: sequences of evidence without ids
  MaxBatches,   \* bound of the model
  Now           \* the time of the analysis

Unidentified ==
  [timestamp : Int, service : STRING, kind : STRING, name : STRING, value : Int,
   span_kind : STRING, db : BOOLEAN]

ASSUME AnalysisAssumption ==
  /\ Arrivals \subseteq Seq(Unidentified)
  /\ Now \in Int

VARIABLES
  batches,    \* how many batches have arrived
  incident,   \* what an analysis then finds
  statuses    \* and the service-level objectives it reports

vars == <<storeVars, batches, incident, statuses>>

\* Ids are drawn afresh for each item.
Identified(id, e) ==
  [evidence_id |-> id, timestamp |-> e.timestamp, service |-> e.service, kind |-> e.kind,
   name |-> e.name, value |-> e.value, span_kind |-> e.span_kind, db |-> e.db]

Stamped(batch) == [i \in DOMAIN batch |-> Identified(Len(accepted) + i, batch[i])]

Init == StoreInit /\ batches = 0 /\ incident = NoIncident /\ statuses = <<>>

Arrive(batch) ==
  /\ batches < MaxBatches
  /\ AddMany(Stamped(batch))
  /\ incident' = AnalyzeAt(items', Now)
  /\ statuses' = SloStatuses(Between(items', Now - LongWindow, Now), Now)
  /\ batches' = batches + 1

Next == \E batch \in Arrivals : Arrive(batch)

Spec == Init /\ [][Next]_vars

------------------------------------------------------------------------------
Hour   == Between(items, Now - LongWindow, Now)
Raised == incident # NoIncident

\* percentile(): whichever branch selects it, and in whatever order the spans
\* arrived, the answer is the nearest-rank sample, at every quantile that the
\* engine, its tests and the benchmarks ask for.
PercentileIsNearestRank ==
  \A q \in {<<0, 1>>, <<1, 2>>, <<95, 100>>, <<99, 100>>, <<1, 1>>} :
    Percentile(Values(items), q) = NearestRank(Values(items), q)

\* "Deterministic" (the engine's docstring): the verdict depends on what the
\* store holds, not on the order in which the three OTLP exporters filled it.
\* Which evidence is cited may differ; titles, services, scores may not.
Verdict(found) ==
  IF found = NoIncident THEN <<>>
  ELSE <<found.title,
         [k \in DOMAIN found.hypotheses |->
            LET h == found.hypotheses[k] IN <<h.title, h.service, h.score>>]>>
Reversed == [i \in DOMAIN items |-> items[Len(items) + 1 - i]]
OrderIndependent == Verdict(incident) = Verdict(AnalyzeAt(Reversed, Now))

\* The engine cites evidence: each id a hypothesis cites is an item of the store,
\* of the hypothesis' own service, inside the current window unless it is a
\* deployment of the last ten minutes.
CitationsSupport ==
  LET start == Windows(Hour, Now).current_start
      Supports(e, h) ==
        /\ e.service = h.service
        /\ \/ e.timestamp \in start .. Now
           \/ e.kind = "deployment" /\ e.timestamp \in (Now - DeploymentWindow) .. Now
  IN  Raised =>
        \A k \in DOMAIN incident.hypotheses : \A id \in CitedBy(incident.hypotheses[k]) :
          \E i \in DOMAIN items : /\ items[i].evidence_id = id
                                 /\ Supports(items[i], incident.hypotheses[k])

\* "The baseline immediately precedes" the current window: of the evidence the
\* two span, no item counts as both normal and suspect, none as neither but those
\* less than the gap before the suspect period (nanosecond timestamps can fall
\* there), and the baseline has the promised least width.
EachItemJudgedOnce ==
  \A w \in {Windows(Hour, Now)} :
    /\ \A i \in DOMAIN items :
         LET t == items[i].timestamp
         IN  t \in w.baseline_start .. Now =>
               \/ t > w.baseline_end <=> t >= w.current_start
               \/ w.baseline_end < t /\ t < w.current_start /\ w.current_start < t + Gap
    /\ w.current_start - w.baseline_start >= MinBaselineWidth

\* Truncating to five hypotheses never drops a better one than it keeps, and
\* they come best first: the suspected root cause is the best of all candidates.
TopFiveDominate ==
  Raised =>
    LET all   == Candidates(Baseline(Hour, Now), Current(Hour, Now), Hour, Now)
        kept  == incident.hypotheses
        Dropped(c) == \A k \in DOMAIN kept : kept[k] # c
    IN  /\ Len(kept) = IF Cardinality(all) < 5 THEN Cardinality(all) ELSE 5
        /\ \A k \in DOMAIN kept :
             /\ kept[k] \in all
             /\ \A c \in {d \in all : Dropped(d)} \cup {kept[l] : l \in k..Len(kept)} :
                  LeqFrac(c.score, kept[k].score)

\* No rule outvotes the others without bound: the caps of the score table.
ScoreCap(title) ==
  CASE title = "Database interaction regression" -> Whole(9)
    [] title = "Memory pressure causing processing degradation" -> Whole(7)
    [] OTHER -> Whole(6)
ScoresCapped ==
  Raised => \A k \in DOMAIN incident.hypotheses :
    LeqFrac(incident.hypotheses[k].score, ScoreCap(incident.hypotheses[k].title))

\* docs/root-cause-ranking.md: absent CPU pressure "cannot create a database
\* candidate by itself".  A service's database is blamed only for a query that
\* took at least twice as long as (all but one in a hundred of) its queries before,
\* and, also when there were none before, at least two milliseconds: a growth is
\* measured against no less than one.
NoDatabaseBlameWithoutSlowQueries ==
  Raised =>
    \A w \in {Windows(Hour, Now)} : \A k \in DOMAIN incident.hypotheses :
      LET Query(i, first, last) ==
            /\ items[i].db /\ items[i].kind = "span"
            /\ items[i].service = incident.hypotheses[k].service
            /\ items[i].timestamp \in first .. last
          before    == {i \in DOMAIN items : Query(i, w.baseline_start, w.baseline_end)}
          Longer(i) == {j \in before : 2 * items[j].value > items[i].value}
      IN  incident.hypotheses[k].title = "Database interaction regression" =>
            \E i \in DOMAIN items :
              /\ Query(i, w.current_start, Now) /\ items[i].value >= 2
              /\ 100 * Cardinality(Longer(i)) <= Cardinality(before)

\* The timeline tells a causal story: in time order, no marker after the
\* incident it explains, the suspected root cause last.
TimelineCausal ==
  Raised =>
    LET t == incident.timeline
    IN  /\ \A k \in 1..(Len(t) - 1) : t[k].timestamp <= t[k + 1].timestamp
        /\ \E created \in DOMAIN t :
             /\ t[created].event = "incident created"
             /\ \A k \in DOMAIN t : t[k].event \in {"marker", "burn alert"} => k < created
        /\ incident.hypotheses # <<>> => t[Len(t)].event = "suspected root cause"

\* A burn alert means the hour's error budget is spent, not merely that the
\* last five minutes were bad: that is what the long window is for.
AlertMeansBudgetGone ==
  \A k \in DOMAIN statuses :
    statuses[k].alerting => statuses[k].budget_remaining = Whole(0)

\* ... and an hour-old outage alone raises no alert: the short window must burn.
AlertNeedsRecentFailure ==
  \A k \in DOMAIN statuses :
    statuses[k].alerting =>
      \E i \in DOMAIN items : /\ items[i].service = DefaultSlos[k].service
                              /\ IsBad(DefaultSlos[k], items[i])
                              /\ items[i].timestamp >= Now - ShortWindow

------------------------------------------------------------------------------
(* What the documentation says and the code does not do. *)

\* docs/slo-definitions.md: the slower condition requires both windows "at or
\* above" six times the allowed bad fraction.
AlertsAtSixTimes ==
  \A k \in DOMAIN statuses :
    LET s == statuses[k]
    IN  LeqFrac(SlowBurn, s.short_burn_rate) /\ LeqFrac(SlowBurn, s.long_burn_rate) => s.alerting

\* docs/root-cause-ranking.md: "Each score contribution contains rule name,
\* points, explanation, and evidence IDs".
EveryContributionCites ==
  Raised => \A k \in DOMAIN incident.hypotheses :
    \A i \in DOMAIN incident.hypotheses[k].contributions :
      incident.hypotheses[k].contributions[i].evidence_ids # {}
===============================================================================
