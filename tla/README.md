# Incident Lens in TLA+

Incident Lens (`src/src/incident_lens`) is a small platform that watches a
checkout system, injects controlled faults into it and diagnoses the incidents
they cause from the telemetry the services export. This directory models it.
Paths below are relative to that package unless they start with `src/`.

## 1. Inventory

| Component | State it keeps | Operations | What makes it correct |
|---|---|---|---|
| Evidence store, `model.py` | a deque of at most 100 000 items behind a lock | `add`, `add_many`, `query`, `clear` | holds exactly the newest items, whatever the sizes of batches |
| OTLP decoders, `otlp.py` | none | `decode_traces`, `decode_metrics`, `decode_logs` | each record becomes evidence of the right kind, time and service; a request is kept whole or not at all |
| SLOs, `slo.py` | none | `calculate_slo` | an alert needs both windows to burn and means the budget is spent |
| Correlation engine, `correlation.py` | none (reads the store) | `analyze`, `slo_statuses` | the verdict depends on the evidence, not on its order; hypotheses cite evidence that supports them; the best come first |
| Diagnosis service, `diagnosis_service.py` | store, incidents, alerts | OTLP receivers, `POST /api/analyze`, `POST /api/alerts`, reads | one incident per problem within five minutes, never an older one |
| Fault registry, `faults.py`, `service_factory.py` | active faults of one process | start, stop, list; delays and failures injected into requests | faults end by themselves, affect only requests of their time, never wedge the service |
| Chaos controller, `chaos_service.py` | experiment records | start, list, stop experiments on target services | every experiment is recorded and bounded; a stopped one is over |
| Checkout chain, `api_service.py`, `order_service.py`, `payment_service.py` | payments table, cache, connection pool | checkout → order → charge | accepted means charged, once; every request is answered; no connection is lost |
| Telemetry pipeline, `telemetry.py`, `src/deploy/otel-collector.yaml` | instruments, export queues | count, batch, export, retry | spans are lost or repeated only where a queue, a crash or a lost answer explains it; nothing waits for ever |
| Dashboard, `dashboard.py` | none | polls `/api/slos` and `/api/analyze` every 3 s | |
| CLI, settings, demo, benchmarks, deployment files | none of their own | | |

How they interact: the three services of the checkout chain call each other over
HTTP with timeouts; each embeds a fault registry that a middleware consults on
every request and that the chaos controller drives over HTTP. Each service exports
spans, metrics and logs in batches to a Collector, which retries and forwards
them to the diagnosis service. There they are decoded into the evidence store;
the dashboard's polling makes the correlation engine analyse the store, and the
service keeps the incidents found.

What is hard: every service is one event loop of coroutines that interleave at
`await`s (a request holds a snapshot of the faults, the controller holds a record,
across an await); answers are lost and calls time out while the callee carries
on; exports are batched, reordered, repeated; the store is bounded and evicts; the
wall clock dates everything and may be set back; every state is lost on restart;
and the rules are full of boundaries (windows, thresholds, percentiles, doubles).
`PROJECT.json` lists each hazard at its line, with the property that covers it.

## 2. Modules

| Module | Models | Uses |
|---|---|---|
| `Fractions` | ratios the rules compare, as pairs of integers | |
| `StableSort` | what Python's `sorted`, `heapq.nlargest` and slices promise: the place of each element | |
| `Percentile` | `correlation.percentile`, with the nearest-rank definition as reference | `Fractions`, `StableSort` |
| `Slo` | `slo.py` | `Fractions` |
| `Correlation` | `correlation.py`, as operators over a snapshot of the store and a time | `Slo`, `Percentile` |
| `EvidenceStore` | `model.EvidenceStore` as variables and actions | `StableSort` |
| `Analysis` | a store that fills batch by batch and is analysed after each: states what is expected of the engine | `Correlation`, `EvidenceStore` |
| `Otlp` | `otlp.py`: what a request becomes | |
| `IncidentLedger` | abstract: an incident is raised only when none of its fingerprint was within the window | |
| `Diagnosis` | `diagnosis_service.py`: composes store, decoders and engine | `Correlation`, `EvidenceStore`, `Otlp`, `IncidentLedger` |
| `Filter` | a list comprehension with a condition | |
| `FaultRegistry` | `faults.FaultRegistry`, as operators over its dict | `Filter` |
| `Faults` | one service's event loop: registry, control endpoints, `inject_faults`, `dependency_delay` | `FaultRegistry` |
| `Chaos` | `chaos_service.py` and the registries of its targets, with the calls between them | `FaultRegistry` |
| `Purchases` | abstract: a purchase is charged at most once and accepted only when charged | |
| `CheckoutChain` | `api_service.py`, `order_service.py`, `payment_service.py` with the database, the cache and the calls between them | `Purchases` |
| `Pipeline` | the middleware of `telemetry.py`, the SDK's queue, the Collector as configured, `_ingest` | `EvidenceStore` |
| `ListProofs`, `CorrelationProofs` | lemmas on slices, sorts, comprehensions and the registry; on the operators of the engine | `StableSort`, `FaultRegistry`; `Correlation`, `EvidenceStore`; TLAPS |
| `AnalysisProofs`, `DiagnosisProofs`, `FaultsProofs`, `ChaosProofs`, `CheckoutProofs`, `PipelineProofs` | theorems | the module of that name, TLAPS |
| `MCCorrelation`, `MCDiagnosis`, `MCFaults`, `MCChaos`, `MCCheckout`, `MCPipeline` | instances for TLC | |

### State and actions against the code

`EvidenceStore.items` is `_items`. `accepted` is a history variable: everything
added since the last restart. The lock spans each method, so `Add`, `AddMany`
and `Clear` are single steps.

An evidence item is a record of the fields the rules read (id, time, service, kind,
name, value, `span.kind`, whether `db.system` is set); a title, a rule or a service
is a name. In `Correlation` a list is a function from places in the store to items, and a comprehension
with a condition restricts it to some of them: every list the engine makes keeps the
store's order, so the places are all there is to know of its order. `sorted` and `nlargest` are defined
by where they put an element: after all that precede it by key, or by place where keys are equal. What a
contribution or an event cites is the set of its ids; no rule reads their order. Ids are drawn
afresh (`uuid4`), which `Identified` models by numbers drawn in turn. Points and growth factors are exact rationals. The code computes in
doubles; the one place where that changes a verdict on representable inputs is the
comparison of burn rates, where `1 - 0.99` is slightly more than 1/100 and `>=`
therefore acts as `>` (module `Slo`).

`Diagnosis.incidents` is the dict `incidents` in insertion order, `now` is
`time.time()`. Handlers are coroutines of one event loop; the only `await` in each
(reading the body) comes before any shared state is touched, so `Ingest`,
`Analyze` and `ReceiveAlerts` are one step each. `Ingest` keeps nothing of a
malformed request (400) nor of one that holds a span whose status attribute is not
a number or whose kind has no name (500). `Analyze` has the three outcomes of the handler. The backward scan with its
`break` is `ScanReaches`: an incident is looked at when none from it on is too old.
Scanning from the newest and answering the first match is answering the latest
reached duplicate (`IsLatest`). `Restart` is the container's `restart:
unless-stopped`; nothing was persisted. `answer` is a history variable.

In `Faults` a request runs from one `await` to the next in one step. `Arrive` is
the middleware up to its first sleep, error or CPU burst; `Resume` goes on with the
list that `active()` returned at the start (`todo`), never with the registry of the
moment; `Handle` and `HandleOn` are `dependency_delay`, which asks the registry
again. A CPU burst does not await: while `holder` is a request, no other step
of the loop is possible and only time passes. An end time is kept as the time
left until it (`left`), which keeps the states finite however long time runs;
a sleep as the time it still lasts (`wait`), which may be followed by more time, as
after any sleep. `doomed` is a history variable.

In `Chaos` each endpoint is cut at its call. `StartExperiment` and `StopExperiment`
run up to it, `Serve` is the target's endpoint, `ExperimentStarted` and
`ExperimentStopped` the rest of the handler; `GiveUp` is every httpx error:
refused, broken, timed out. A call given up before it was served may be served
later (`late`), as when CPU pressure held the target's loop past the timeout.
A stop keeps the record object it found before its call; `holds` says whether the
dict still has that object.

Two history variables of `Chaos` say where a record may be wrong; nothing else excuses one.
`doubtful` has the ids whose faults the controller cannot know: a start of theirs overlapped
another, went unanswered, was forgotten in a restart of the controller or moved the id to another service.
Of any other id, every live fault is on record (`KnownFaultsRecorded`), ends when the record says
(`RecordTellsEnd`) and is not called stopped (`StoppedIsOver`).
`cut` has the ids whose fault may have ended before the time on record: its process was restarted
(nothing tells the controller), a stop reached it (until the answer is handled, for good when that is lost
or when the stop comes late and ends the fault of a newer record), or a start overlapped another or got
no answer. A start that nothing overlaps takes its id out. Of any other id, a record whose end is
still to come has a live fault behind it (`RunningMeansLive`). Restarts of targets, lost answers and
late stops are therefore what the code does, and the properties show that nothing else does it.

`CheckoutChain` has one handler per checkout and service. `sent` is a request on its
way, `entered` a handler in the fault middleware or in `dependency_delay`, `calling` one that
awaits its callee. Neither Starlette nor the handlers notice that a caller has gone, so
giving up changes the caller only: the order is created, the charge is made, later and for nobody.
No clock is modelled. httpx limits each phase of a call rather than the whole and an injected
delay has any length, so any call under way may be given up, and the model does not rely on
2.5 s being longer than 2 s. `payment` follows the block of `charge` from connection to cache;
`tx` is the same transaction as PostgreSQL sees it. They part company: the connection may break after
COMMIT was sent (`FailCommit`), and the row becomes durable or not whether or not anybody waits
(`Durable`, `Abort`). The context manager returns the connection on every way out (`Returned`). Payment
ids are drawn afresh for each charge and no caller retries, so a checkout stands for its payment.
PostgreSQL keeps its rows in a volume and is assumed not to lose committed ones.

`Pipeline` follows server spans, known by their requests. `Arrive` and `End` are the two
halves of `RequestTelemetryMiddleware.dispatch` around `call_next`. Failures of `inject_faults`
are raised through it (`HTTPException` raised in a middleware meets no handler inside), and so is what
an endpoint lets out (the httpx error of `chaos_service.py:85`); every other failure is a response. The
model lets any request but a probe end either way. Spans of `healthz` and `readyz` are excluded by `instrument_app`.
The SDK's queue is a deque whose oldest entry makes room (`Newest`); one thread exports.
The Collector makes batches and sends several at once, so they overtake each other; it retries
on no answer, 429, 502, 503 and 504 until `max_elapsed_time`, and takes the 500 of a decoder's
`ValueError` for permanent (a status attribute that is no number, an unknown span kind). Such a span cannot come from the three services, whose
instrumentation writes integers: `Foreign` are the spans of other exporters (the Collector's port is
published). A graceful stop flushes before it ends, which is exporting followed by a crash of an
empty queue. `since`, `lost` and `repeated` are history variables; the last two count, for each span,
the copies that were dropped and the deliveries that were received and sent again. `EveryCopyAccounted`
counts what the store accepted, evicted or not; which of it the store still holds is `StoreHoldsNewest`.

## 3. Runs

| Run | Module and configuration | Result |
|---|---|---|
| `correlation` | `MCCorrelation` | passes: 10 properties of an analysis over 11 110 stores |
| `slo_boundary` | `MCCorrelation`, `MCSloBoundary.cfg` | violated: exactly six times the budget raises no alert |
| `citation` | `MCCorrelation`, `MCCitation.cfg` | violated: a contribution may cite nothing |
| `diagnosis` | `MCDiagnosis` | passes: type, retention, deduplication, recency, refinement of `IncidentLedger` |
| `diagnosis_clock` | `MCDiagnosis`, `MCDiagnosisClock.cfg` | passes: what is left when the clock may be set back |
| `faults` | `MCFaults` | passes: a request fails when, and only when, it met a failing fault on arrival, under every interleaving of two requests and two experiments |
| `faults_live` | `MCFaults`, `MCFaultsLive.cfg` | passes: every request is answered, faults end by themselves |
| `faults_cpu` | `MCFaults`, `MCFaultsCpu.cfg` | violated: one request burns CPU twice |
| `chaos` | `MCChaos` | passes: faults are on record, end when it says and not before, stopped is over, but for what `doubtful` and `cut` name |
| `chaos_replicas` | `MCChaos`, `MCChaosReplicas.cfg` | violated: with two replicas a stopped experiment goes on |
| `checkout` | `MCCheckout` | passes: pool, cache, answers and the refinement of `Purchases`, under lost answers, ambiguous commits and restarts of all three services |
| `pipeline` | `MCPipeline` | passes: depth and counters agree with the requests, every copy of every span is accounted for, the pipeline drains |

*Bounds.* `MCCorrelation` uses the program's own windows in tenths of a millisecond and a fixed
time of analysis. A palette of ten batches puts spans, metrics and markers inside and
outside the windows, exactly on their edges and within the millisecond between them; up to four arrive in any order, the same one
possibly twice. Four batches suffice for every rule to meet a baseline, a marker
and a competing cause, and for more than five candidates. `MCDiagnosis`
scales the windows down (deduplication window 2, clock up to 3 ahead of its start) and the store to three
items, so that batches are evicted in the middle while incidents cite them, two
incidents of one kind follow each other, and other kinds come between them. `MaxTime`, `MaxAccepted` and
`MaxAlerts` only keep the instance finite. Deadlock is not checked: at those
bounds the model has nothing left to do, and the service itself may be idle.

`MCFaults` has two requests and two experiments: enough for one request to hold the
loop or change nothing while the other sleeps between two faults, and for a fault to be
replaced under a request. One fault outlasts no pause or one pause (`Durations`, `MCPause`),
so that ends fall before, at and after them. The safety run offers latency, both
failures, CPU pressure and a fault that is none of the middleware's business;
`memory_pressure` delays a request as latency does. The liveness run needs its
whole state graph at once and offers the kinds that delay. `MCChaos` follows one
id, since no step but listing and restarting touches two; two services, two concurrent requests,
one late call (`MaxLate`), calls that last up to two units and faults shorter and
as long. Clients are interchangeable there, so its run uses their symmetry.

`MCCheckout` has two checkouts and one connection: each may find the pool empty because of the
other, and everything else concerns one checkout. Restarts are not bounded. `MCPipeline` has
two traced requests and one probe at one service, and one foreign span; queues of one span
and two batches, so that each overflows; one lost answer (`MaxUnanswered`) at either hop and one crash
(`MaxCrashes`) of any process, which bound only the model. Deadlock is not checked: when every
checkout has ended or every span has arrived there is nothing left to do.

*Fairness.* In `faults_live` time passes (WF of `Tick`). Each
request's next step is strongly fair: asyncio runs callbacks in the order in
which they became ready, so a request that is ready again and again, but
finds the loop held by CPU bursts in between, does get its turn. Nothing is assumed of
clients or operators: requests need not come, experiments may be started for ever
(`Answered`), nobody need stop one (`Recovery`).

In `checkout`, `CheckoutAnswered` needs only that checkout-api's own loop runs and its httpx timer fires
(`ApiFairness`): order, payment and database may hang. `PoolDrains` needs that a
statement sent to the database ends, answered or broken (`DatabaseFairness`); nothing is assumed
of the callers. In `pipeline` the SDK's thread and the Collector's timers run: batches are taken and handed
over, and retries end. That anybody ever answers is not assumed, so a diagnosis that is down
for good is among the behaviours.

## 4. Proofs

`DiagnosisProofs` proves for every value of the constants (under
`WindowsAssumption`, `ServicesAssumption`, `MaxItemsAssumption`, `DiagnosisAssumption`):

- `TypeCorrect`: `Spec => []TypeOK`, with the type of whatever the decoders produce.
- `StoreCorrect`: the deque holds the newest `MaxItems`. It rests on
  `LastOfConcat`: dropping batch by batch what a full deque drops leaves the same as
  dropping once at the end.
- `NeighboursTheorem`: whatever the clock does, the newest incident absorbs its duplicates.
- `Deduplication`: if the clock is never set back, `[]SameFingerprintApart`. That is not
  inductive: the scan stops at the first incident that is too old, so nothing is known
  of those before it. The strengthening `RegistryOrdered` says that creation times never
  fall and none lies in the future; then (`ScanComplete`) everything the scan leaves out is
  older still.
- `Recency`: no answer is older than the window.
- `AnswerTheorem`: whatever the clock does, an answer names an incident of the registry and no later one of
  its kind: whatever the scan reaches, it reaches together with all that follows it.
- `Refinement`: under the same assumption on the clock, `Spec` implements `IncidentLedger`,
  with the set of (fingerprint, time) pairs as refinement mapping: registering is `Raise`,
  a clock step is `Pass`, a restart is `Lose`, everything else stutters.

`CheckoutProofs` proves, for finitely many checkouts and any pool (`CheckoutAssumption`):

- `ChainTheorem`: the inductive invariant `ChainOK`. What the customer was told is not enough to
  show that it is true; the invariant follows the charge backwards: accepted only after the order was
  created, that only after the payment was captured, that only after the transaction was
  committed, and a row is there exactly when it was. It also says which stages cannot have begun,
  so that a call made late finds them untouched, and that a payment service that is down holds nothing.
- `CacheTheorem`: `[]CacheAfterCommit` follows from it.
- `CheckoutTypeCorrect` and `PoolTheorem`: types and `[]ConnectionsAccounted` are proved
  together, since the bound on `free` needs the count of the holders (`HeldAfter`: how one
  handler's move changes that count) and the count needs the types.
- `PurchasesTheorem`: the chain implements `Purchases`. `Arrive` is `Ask`, `Durable` is `Charge`,
  failing and restarting checkout-api is `Refuse`, everything else stutters.

`FaultsProofs` proves, for any requests, experiments, durations and pauses (`FaultsAssumption`):

- `FaultsTypeCorrect`: among the rest, that an experiment has at most one fault in the registry.
- `FailureTheorem` and `ExplainedTheorem`: a request fails when, and only when, it met a live failing
  fault on arrival. Neither property says anything of a request that sleeps. The strengthening
  `FateOK` does: such a request is doomed exactly when the list it still has before it holds a failing
  fault. `ApplyStep` shows that each stretch of the loop keeps that, `TickStep` that time does,
  and the registry is not consulted, so nothing an operator does can disturb it.

These rest on what a list comprehension keeps (`ListProofs`): `Kept` puts each element at the
place given by the number of kept elements up to it. That number grows strictly from one kept place to the next
(`KeptPlaceIncreases`), so there is exactly one element for each place (`KeptShape`).

`PipelineProofs` proves, for any services, requests, queues and crashes (`PipelineAssumption`):

- `BacklogTheorem` and `CountersTheorem`. The invariant `CountsOK` makes every instrument the
  size of a set of requests, by how they ended; a step of the middleware moves one request between
  two of these sets, a restart empties them. The sets `CountersExplained` speaks of are unions and
  differences of those. That there are finitely many requests is not assumed.
- `PipelineTypeCorrect` and `CopiesTheorem`. The invariant `CopiesOK` says that the copies of a span in
  each place are finitely many and that the account balances; neither half is inductive without the other.
  Copies are counted by the positions that hold them, which move with the
  sequence they are in: concatenation (`HeldConcat`), a cut (`HeldSplit`, of which the overflow of a
  deque and the taking of a batch are cases), a batch that joins, leaves or overtakes the others
  (`PlacesAppended`, `PlacesRemoved`). With these, each action's lemma is one balance of sums.

`ChaosProofs` proves, for any services, replicas, experiments, durations, late calls and finitely many
concurrent requests (`ChaosAssumption`):

- `ChaosTypeCorrect`, with at most one fault per experiment in each process.
- `RecordedTheorem`: `[]KnownFaultsRecorded`, for any number of replicas.
- `RunningTheorem`: `[]RunningMeansLive`, for any number of replicas.
- `EndTheorem` and `StoppedTheorem`: `[]RecordTellsEnd` and `[]StoppedIsOver` under `OneReplica`, one process of each
  service as in `src/docker-compose.yml`; run `chaos_replicas` shows the second false without it.

None is inductive: the record is written one call after the fault began and read one call before it
ends. The strengthening `ControlOK` follows each live fault whose id is not doubtful: it belongs
to a start that was served and still awaits its answer (`OfStart`), or it is the one on record (`OnRecord`), and then no
stop that was served is about to answer and its end differs from the record's by at most a call's time. It was
checked by TLC with one and with two replicas before it was proved. `RunningTheorem` needs the other
direction, from the time to the fault: `LiveOK` says of each id that is not cut that a fault of it
is live for at least the time each served start has measured and, when no start awaits its answer, for the time on
record. The record takes over the first (`ExperimentStartedLive`); what a registry keeps alive through a start, a
stop, a visit and a unit of time are the `LiveOf` lemmas of `ListProofs`.

`AnalysisProofs` proves, for any evidence in any batches, any services, windows and time of analysis
(`WindowsAssumption`, `ServicesAssumption`, `AnalysisAssumption`), what an analysis reports. The invariant is short
(`Inv`: the store holds the newest of what it accepted, and incident and objectives are those of the items it
holds); the work is in the lemmas of `CorrelationProofs`, one for each thing the engine does with a list:

- `QuantileTheorem`: either branch of `percentile()` selects the nearest-rank sample, at every fraction in
  [0, 1]; `PercentileTheorem` is the case of 0, 1/2, 0.95, 0.99 and 1, which the engine, the tests and the
  benchmarks ask for and the run checks. A sort is characterised
  by counting (`SortedShape`: in a strict total order of a finite set, each place is taken by exactly one element).
  From that, the sample at place k is the least that at least k samples do not exceed
  (`KthSmallest`, `KthLargest`), and rounding up makes k the quantile's share (`ShareOf`); at quantile 0, which has
  no share, it is the least of all (`PercentileLeast`).
- `BudgetTheorem`, `RecentTheorem`: `AlertShape`. An alert needs both windows to burn, a window that burns has a
  bad event, and one that burns at more than once its budget has spent it.
- `JudgedTheorem`: whatever the resolution of the timestamps, no item is judged twice, and only one inside the
  gap between the windows escapes both (the code's gap is 1 ms, its times are finer).
- `TopFiveTheorem`: `Better` is a strict total order of the candidates, since no two are found at the same place
  (`FoundTells`); hence `KeepsBest`, what the first five of its sort are.
- `CapTheorem`: points are compared in halves; each rule has its cap, and a score is the sum of at most four
  (`RulesShape`, `ScoreShape`).
- `CitationsTheorem`: what each rule cites it takes from lists of the service's own evidence (`PartOf`).
- `BlameTheorem`: a growth of two between percentiles (`SlowQueries`) turned back into counts of queries. Without
  a baseline the growth is against 1 ms, so the query blamed takes at least two.
- `TimelineTheorem`: where an event was found tells what it is (`IsEvent`), and `Earlier` orders them.
- `OrderTheorem`: `[]OrderIndependent`, and `ShuffleTheorem`: the same for every permutation of the store rather than
  its reversal, and for the objectives too (`OrderFree`). Let `p` tell where each item of one list lies in the other
  (`Matches`). A condition that reads the item alone keeps `p` (`ShuffledFilters`), so what `p` relates has
  the same size, the same percentiles (`ShuffledP99`: both are nearest ranks, and counts of samples are the same) and the
  same windows. Hence each rule finds a candidate in one list exactly when it does in the other, with the same title, service and
  points (`ShuffledRules`); what it cites may differ. Candidates pair as `Twins`,
  and `Better` reads of a candidate only where its rule found it and its score, so twins come to the same
  place of the ranking (`TwinsSorted`, `ShuffledRanking`).

`CitedEvidenceTheorem` in `DiagnosisProofs` follows the citations into the life of the service. Its invariant:
an accepted item's id is its place among the accepted (`IdsArePlaces`), and an incident cites accepted items only
(`CitedAccepted`); with `StoreCorrect`, the places the store still holds are the newest `MaxItems`.

`WindowsAssumption` states of the windows what holds of the code's numbers: each is positive, a marker is recent
for less than the default window (55 < 60), which leaves its baseline at least the least width (60 + 15 <= 360);
a baseline before a marker reaches no further back than that one (2 * 55 <= 360), and both lie within the hour.

Only model-checked: the five liveness properties (`Answered`, `Recovery`, `CheckoutAnswered`, `PoolDrains`,
`PipelineDrains`), since fairness and `ENABLED` are out of the prover's reach, and the four violations. Every
invariant, action property and refinement that a passing run checks has a theorem.

## 5. Limits

### Not modelled

- The dashboard, the CLI and the settings keep no state. The demo and the benchmarks drive
  the platform and hold none of its logic.
- The deployment files enter where they decide something: restarts, replicas (`chaos_replicas`),
  the Collector's batches and retries (`Pipeline`). The rules of `src/deploy/alerts.yml` are evaluated by Prometheus.
- Of the pipeline: metric values, labels and gauges, and the JSON format of logs. Metric exports carry
  running totals, so a lost one is made up by the next.
- Of the decoders: ids, units and attributes that no rule reads.
- Memory that faults allocate.

## 6. Divergences found

1. `src/docs/slo-definitions.md:19-20` promises an alert "at or above 6×"; at exactly
   six times the budget the quotient of doubles is 5.999999999999995 (`slo.py:55`).
2. `src/docs/root-cause-ranking.md:34-35` says each contribution carries evidence ids;
   `no_cpu_saturation` without CPU samples carries none (`correlation.py:210`).
3. `src/docs/chaos-testing.md:6-7` caps CPU work at 100 ms per request; the cap is per
   experiment, and their number has none (`faults.py:87`).
4. `src/docs/chaos-testing.md:25` stops an experiment with DELETE; with two replicas
   (`src/deploy/kubernetes/platform.yaml`) it reaches one of them and the record says stopped (`chaos_service.py:85`).

Seen while modelling and not checked by a run of their own:

5. `src/docs/slo-definitions.md:24`: "Prometheus records the same RED counters". An injected failure
   is counted as an error but not as a request (`telemetry.py:151-159`), and probes count as
   requests without a span (`telemetry.py:174`). `CountersExplained` states the exact difference: the
   ratio of `src/deploy/alerts.yml` is diluted by probes and may exceed one.
6. `src/docs/architecture.md`, "Cardinality policy": the middleware runs before routing, so its route
   label is the raw path (`telemetry.py:144-145`), with experiment ids and unknown paths in it.
7. `src/docs/root-cause-ranking.md` triggers latency incidents at 1.5×; the comparison is strict
   (`correlation.py:124`).
