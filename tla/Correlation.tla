----------------------------- MODULE Correlation -----------------------------
(***************************************************************************)
(* correlation.py: CorrelationEngine as operators over a snapshot of the   *)
(* evidence store and the time of the analysis.  An evidence item is a     *)
(* record with the fields the rules read: evidence_id, timestamp, service, *)
(* kind, name, value, span_kind and db (the span has a db.system).         *)
(*                                                                         *)
(* A list of evidence is a function from places in the store to items; a   *)
(* comprehension with a condition restricts it.  The code always filters   *)
(* in the store's order, so the places tell the order of every list.       *)
(*                                                                         *)
(* Times and windows are integers in one unit; an MC module gives either   *)
(* the program's own values in milliseconds or small ones.                 *)
(***************************************************************************)
EXTENDS Slo, Percentile, Functions

CONSTANTS
  LongWindow,        \* 3600 s: what an analysis reads, and the long SLO window
  ShortWindow,       \* 300 s: the short SLO window
  MarkerWindow,      \* 55 s: a marker this recent starts the current window
  CurrentWindow,     \* 60 s: the current window when no marker is recent
  BaselineReach,     \* 360 s: how far back the baseline then starts
  MinBaselineWidth,  \* 15 s: the least width of a baseline before a marker
  DeploymentWindow,  \* 600 s: a deployment this recent is a suspect
  AlertLead,         \* 1 s: how far before the incident its burn alert is dated
  Gap,               \* 0.001 s: what separates the baseline from the current window
  MinSpans,          \* 3: checkout requests without which nothing is analysed
  CpuSaturation,     \* 0.8, in the unit of the CPU samples
  ServiceOrder       \* the service names in alphabetical order

ASSUME WindowsAssumption ==
  /\ {LongWindow, ShortWindow, MarkerWindow, CurrentWindow, BaselineReach,
      MinBaselineWidth, DeploymentWindow, AlertLead, Gap, MinSpans, CpuSaturation}
       \subseteq Nat \ {0}
  /\ MarkerWindow < CurrentWindow /\ CurrentWindow < BaselineReach
  /\ BaselineReach < LongWindow /\ ShortWindow < LongWindow
  /\ CurrentWindow + MinBaselineWidth <= BaselineReach
  /\ 2 * MarkerWindow <= BaselineReach

ASSUME ServicesAssumption == ServiceOrder \in Seq(STRING)

SpanKinds   == {"span", "error"}
MarkerKinds == {"chaos", "deployment"}

Least(S)      == CHOOSE x \in S : \A y \in S : x <= y
Greater(a, b) == IF a > b THEN a ELSE b

Size(items)   == Cardinality(DOMAIN items)
Values(items) == [i \in DOMAIN items |-> items[i].value]
Ids(items)    == {items[i].evidence_id : i \in DOMAIN items}

OfKind(items, kind)     == RestrictValues(items, LAMBDA e : e.kind = kind)
OfService(items, name)  == RestrictValues(items, LAMBDA e : e.service = name)
Metric(items, name)     == RestrictValues(items, LAMBDA e : e.kind = "metric" /\ e.name = name)
Between(items, first, last) ==
  RestrictValues(items, LAMBDA e : first <= e.timestamp /\ e.timestamp <= last)

RequestSpans(items, service) ==
  RestrictValues(items, LAMBDA e : /\ e.service = service
                                   /\ e.kind \in SpanKinds
                                   /\ e.span_kind = "SERVER")

\* items[-n:] and heapq.nlargest(n, items) by value.
Latest(n, items)  == Restrict(items, Foremost(n, DOMAIN items, LAMBDA i, j : i > j))
Largest(n, items) ==
  Restrict(items, Foremost(n, DOMAIN items, LAMBDA i, j : Falling(Values(items), i, j)))

------------------------------------------------------------------------------
(* Service-level objectives over the snapshot of the last hour. *)

IsBad(slo, span) ==
  IF slo.indicator = "latency" THEN span.value > slo.threshold_ms ELSE span.kind = "error"

BadCount(slo, spans) == Size(RestrictValues(spans, LAMBDA e : IsBad(slo, e)))

SloStatuses(long_items, now) ==
  [k \in DOMAIN DefaultSlos |->
     LET slo   == DefaultSlos[k]
         long  == RequestSpans(long_items, slo.service)
         short == Between(long, now - ShortWindow, now)
     IN  CalculateSlo(slo, Size(long), BadCount(slo, long),
                      BadFraction(BadCount(slo, short), Size(short)),
                      BadFraction(BadCount(slo, long), Size(long)))]

------------------------------------------------------------------------------
(* The windows an analysis compares. *)

\* Mutant: the gap between the windows is forgotten.
WindowsTouching(hour_items, now) ==
  [current_start  |-> now - CurrentWindow,
   baseline_start |-> now - BaselineReach,
   baseline_end   |-> now - CurrentWindow]

Windows(hour_items, now) ==
  LET recent == {hour_items[i].timestamp : i \in
                   {j \in DOMAIN hour_items : /\ hour_items[j].kind \in MarkerKinds
                                              /\ hour_items[j].timestamp >= now - MarkerWindow}}
      start  == Least(recent)
  IN  IF recent # {}
      THEN [current_start  |-> start,
            baseline_start |-> start - Greater(MinBaselineWidth, now - start),
            baseline_end   |-> start - Gap]
      ELSE [current_start  |-> now - CurrentWindow,
            baseline_start |-> now - BaselineReach,
            baseline_end   |-> now - CurrentWindow - Gap]

Current(hour_items, now)  == Between(hour_items, Windows(hour_items, now).current_start, now)
Baseline(hour_items, now) ==
  LET w == Windows(hour_items, now) IN Between(hour_items, w.baseline_start, w.baseline_end)

------------------------------------------------------------------------------
(* The scoring rules.  A rule that applies contributes points and the ids  *)
(* of the evidence it rests on.                                            *)

Contribution(rule, points, cited) == [rule |-> rule, points |-> points, evidence_ids |-> Ids(cited)]
When(applies, contribution) == IF applies THEN <<contribution>> ELSE <<>>

\* How much the p99 grew, and the (at most three) largest samples.
Factor(current, baseline) ==
  [growth  |-> IF Size(current) = 0 THEN Whole(0)
               ELSE Frac(P99(Values(current)), Greater(1, P99(Values(baseline)))),
   largest |-> Largest(3, current)]

\* Mutant: any database span makes its database a suspect.
AnyQueries(db) == LessFrac(Whole(0), db.growth)

SlowQueries(db) == LeqFrac(Whole(2), db.growth)
SawLatency(latency) == LeqFrac(Frac(3, 2), latency.growth)

Queries(items) == RestrictValues(items, LAMBDA e : e.kind = "span" /\ e.db)

DatabaseRules(current, baseline, deployments, latency) ==
  LET db   == Factor(Queries(current), Queries(baseline))
      cpu  == Metric(current, "process.cpu.utilization")
      idle == \A i \in DOMAIN cpu : cpu[i].value < CpuSaturation
      half == Frac(db.growth[1], 2 * db.growth[2])
  IN  IF ~SlowQueries(db) THEN <<>>
      ELSE <<Contribution("database_latency_factor", CapFrac(Whole(4), half), db.largest)>>
        \o When(SawLatency(latency),
                Contribution("service_latency_factor", CapFrac(Whole(3), latency.growth),
                             latency.largest))
        \o When(Size(deployments) > 0,
                Contribution("recent_deployment", Frac(3, 2), Latest(2, deployments)))
        \o When(idle, Contribution("no_cpu_saturation", Frac(1, 2), Latest(3, cpu)))

DeploymentRules(current, deployments) ==
  LET errors == OfKind(current, "error")
  IN  IF Size(deployments) = 0 THEN <<>>
      ELSE <<Contribution("recent_deployment", Whole(3), Latest(2, deployments))>>
        \o When(Size(errors) > 0,
                Contribution("concurrent_errors", CapFrac(Whole(3), Frac(Size(errors), 2)),
                             Latest(5, errors)))

MemoryRules(current, baseline, latency) ==
  LET memory == Factor(Metric(current, "process.memory.usage"),
                       Metric(baseline, "process.memory.usage"))
  IN  IF LeqFrac(Frac(12, 10), memory.growth) /\ SawLatency(latency)
      THEN << Contribution("memory_growth", CapFrac(Whole(4), memory.growth), memory.largest),
              Contribution("concurrent_latency", CapFrac(Whole(3), latency.growth),
                           latency.largest) >>
      ELSE <<>>

FailedCalls(items) == RestrictValues(items, LAMBDA e : e.kind = "error" /\ e.span_kind = "CLIENT")

\* Mutant: the points of the rule are not capped.
DependencyRulesUncapped(current) ==
  LET failed == FailedCalls(current)
  IN  When(Size(failed) > 0,
           Contribution("failed_client_spans", Frac(3 * Size(failed), 2), Latest(5, failed)))

DependencyRules(current) ==
  LET failed == FailedCalls(current)
  IN  When(Size(failed) > 0,
           Contribution("failed_client_spans", CapFrac(Whole(6), Frac(3 * Size(failed), 2)),
                        Latest(5, failed)))

------------------------------------------------------------------------------
(* Hypotheses: candidates of every service seen in the current window,     *)
(* best score first, the top five.  found is a candidate's place in the    *)
(* list before it is sorted.                                               *)

\* No hypothesis has more than four contributions.
Score(contributions) ==
  LET Points(i) == IF i \in DOMAIN contributions THEN contributions[i].points ELSE Whole(0)
  IN  PlusFrac(PlusFrac(PlusFrac(Points(1), Points(2)), Points(3)), Points(4))

Hypothesis(found, title, service, contributions) ==
  IF contributions = <<>> THEN {}
  ELSE {[found |-> found, title |-> title, service |-> service,
         score |-> Score(contributions), contributions |-> contributions]}

\* Mutant: the deployments of every service count against each.
AnyDeployments(service, hour_items, now) ==
  Between(OfKind(hour_items, "deployment"), now - DeploymentWindow, now)

RecentDeployments(service, hour_items, now) ==
  OfService(Between(OfKind(hour_items, "deployment"), now - DeploymentWindow, now), service)

\* The candidates of the n-th service.
CandidatesOf(n, service, baseline, current, hour_items, now) ==
  LET cur         == OfService(current, service)
      base        == OfService(baseline, service)
      deployments == RecentDeployments(service, hour_items, now)
      latency     == Factor(OfKind(cur, "span"), OfKind(base, "span"))
  IN  IF Size(cur) = 0 THEN {}
      ELSE UNION {Hypothesis(4 * n, "Database interaction regression", service,
                             DatabaseRules(cur, base, deployments, latency)),
                  Hypothesis(4 * n + 1, "Bad deployment", service,
                             DeploymentRules(cur, deployments)),
                  Hypothesis(4 * n + 2, "Memory pressure causing processing degradation", service,
                             MemoryRules(cur, base, latency)),
                  Hypothesis(4 * n + 3, "Downstream dependency outage", service,
                             DependencyRules(cur))}

\* Mutant: the services in the order they were first seen, not sorted().
CandidatesAsSeen(baseline, current, hour_items, now) ==
  LET First(i) == \A j \in DOMAIN current : current[j].service = current[i].service => i <= j
  IN  UNION {CandidatesOf(i, current[i].service, baseline, current, hour_items, now) :
               i \in {j \in DOMAIN current : First(j)}}

Candidates(baseline, current, hour_items, now) ==
  UNION {CandidatesOf(n, ServiceOrder[n], baseline, current, hour_items, now) :
           n \in DOMAIN ServiceOrder}

\* Mutant: reverse=True is forgotten.
Worse(a, b) == LessFrac(a.score, b.score) \/ (EqFrac(a.score, b.score) /\ a.found < b.found)

Better(a, b) == LessFrac(b.score, a.score) \/ (EqFrac(a.score, b.score) /\ a.found < b.found)

RankHypotheses(baseline, current, hour_items, now) ==
  FirstOf(5, Ordered(Candidates(baseline, current, hour_items, now), Better))

------------------------------------------------------------------------------
(* The incident. *)

CitedBy(hypothesis) ==
  UNION {hypothesis.contributions[i].evidence_ids : i \in DOMAIN hypothesis.contributions}

Event(timestamp, found, event, evidence_ids) ==
  [timestamp |-> timestamp, found |-> found, event |-> event, evidence_ids |-> evidence_ids]

\* Mutant: the timeline in the order its events were found.
AsFound(a, b) == a.found < b.found

Earlier(a, b) == a.timestamp < b.timestamp \/ (a.timestamp = b.timestamp /\ a.found < b.found)

\* Of a store of n items.
Timeline(n, baseline, current, hypotheses, now, statuses) ==
  LET Markers(items) ==
        {Event(items[i].timestamp, i, "marker", {items[i].evidence_id}) :
           i \in {j \in DOMAIN items : items[j].kind \in MarkerKinds}}
      alerts == IF \E k \in DOMAIN statuses : statuses[k].alerting
                THEN {Event(now - AlertLead, n + 1, "burn alert", {})} ELSE {}
      causes == IF hypotheses # <<>>
                THEN {Event(now + Gap, n + 3, "suspected root cause", CitedBy(Head(hypotheses)))}
                ELSE {}
  IN  Ordered(UNION {Markers(baseline), Markers(current), alerts,
                     {Event(now, n + 2, "incident created", {})}, causes}, Earlier)

LatencyTriggered(current_p99, baseline_p99) ==
  current_p99 > 300 /\ 2 * current_p99 > 3 * Greater(1, baseline_p99)

NoIncident == [status |-> "none"]

AnalyzeAt(items, now) ==
  LET hour_items == Between(items, now - LongWindow, now)
      current    == Current(hour_items, now)
      baseline   == Baseline(hour_items, now)
      checkout   == RequestSpans(current, "checkout-api")
      before     == RequestSpans(baseline, "checkout-api")
      errors     == OfKind(checkout, "error")
      slow       == LatencyTriggered(P99(Values(checkout)), P99(Values(before)))
      failing    == 100 * Size(errors) > Size(checkout)
      hypotheses == RankHypotheses(baseline, current, hour_items, now)
      statuses   == SloStatuses(hour_items, now)
  IN  IF Size(checkout) < MinSpans \/ ~(slow \/ failing) THEN NoIncident
      ELSE [title      |-> IF slow THEN "Checkout latency increased"
                           ELSE "Checkout errors increased",
            created_at |-> now,
            status     |-> "firing",
            hypotheses |-> hypotheses,
            timeline   |-> Timeline(Len(items), baseline, current, hypotheses, now, statuses),
            slo        |-> statuses]
==============================================================================
