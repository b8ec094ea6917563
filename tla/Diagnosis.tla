------------------------------ MODULE Diagnosis ------------------------------
(***************************************************************************)
(* diagnosis_service.py: the process that receives OTLP exports into the   *)
(* evidence store, analyses it on request and keeps the incidents found.   *)
(* Its handlers are coroutines of one event loop and none awaits between   *)
(* reading and writing the shared state, so each is one step.  All state   *)
(* is the process' own: a restart loses it.                                *)
(*                                                                         *)
(* Read-only endpoints (health, evidence, slos, incidents) have no action. *)
(***************************************************************************)
EXTENDS Correlation, EvidenceStore, Otlp

CONSTANTS
  DedupWindow,     \* 300 s: how long an incident absorbs its duplicates
  RequestsAt(_),   \* the export requests that may arrive at a time
  AlertPayloads,   \* what Alertmanager may post: {} or [alerts |-> n]
  ClockSteps,      \* how the wall clock may move: {1, 2}, or with -1 when it is set back
  MinTime, MaxTime, MaxAccepted, MaxAlerts    \* bounds of the model

ASSUME DiagnosisAssumption ==
  /\ DedupWindow \in Nat /\ MinTime \in Nat /\ MaxTime \in Nat
  /\ LongWindow \in MinTime..MaxTime
  /\ ClockSteps \subseteq Int
  /\ \A t \in MinTime..MaxTime : \A request \in RequestsAt(t) : IsRequest(request)

VARIABLES
  now,         \* time.time()
  incidents,   \* the dict of incidents, in insertion order
  alerts,      \* the webhook payloads received
  answer       \* history: what the last analysis answered

vars == <<items, accepted, now, incidents, alerts, answer>>

NoAnswer == [incident |-> NoIncident, kind |-> "none"]

Fingerprint(incident) ==
  IF incident.hypotheses = <<>>
  THEN <<incident.title, "no-hypothesis", "unknown">>
  ELSE <<incident.title, Head(incident.hypotheses).title, Head(incident.hypotheses).service>>

Init ==
  /\ StoreInit
  /\ now = LongWindow
  /\ incidents = <<>> /\ alerts = <<>> /\ answer = NoAnswer

\* POST /v1/traces, /v1/metrics, /v1/logs.  A malformed request is answered 400,
\* an undecodable one 500; neither leaves a trace in the store.
Ingest(request) ==
  /\ Len(accepted) + Len(request.records) <= MaxAccepted
  /\ IF Decodable(request)
     THEN AddMany(Decode(request, Len(accepted)))
     ELSE UNCHANGED storeVars
  /\ UNCHANGED <<now, incidents, alerts, answer>>

\* Mutants of the scan: only the newest incident is looked at; an incident of
\* exactly the window's age is too old; the scan never stops.
ScanNewest(i, created_at) ==
  i = Len(incidents) /\ created_at - incidents[i].created_at <= DedupWindow
ScanExclusive(i, created_at) ==
  \A j \in i..Len(incidents) : created_at - incidents[j].created_at < DedupWindow
ScanAll(i, created_at) == TRUE

\* The scan for a duplicate runs from the newest incident backwards and stops at
\* the first that is too old: incident i is looked at when no later one, nor i
\* itself, is.
ScanReaches(i, created_at) ==
  \A j \in i..Len(incidents) : created_at - incidents[j].created_at <= DedupWindow

Duplicates(incident) ==
  {i \in DOMAIN incidents : /\ ScanReaches(i, incident.created_at)
                            /\ Fingerprint(incidents[i]) = Fingerprint(incident)}

\* Mutant: the oldest duplicate is answered.
IsOldest(i, indices) == \A j \in indices : i <= j

IsLatest(i, indices) == \A j \in indices : j <= i

\* POST /api/analyze: nothing found, a duplicate, or a new incident.
Analyze ==
  LET found == AnalyzeAt(items, now)
  IN  /\ \/ /\ found = NoIncident
            /\ answer' = NoAnswer
            /\ UNCHANGED incidents
         \/ /\ found # NoIncident
            /\ \E i \in Duplicates(found) :
                 /\ IsLatest(i, Duplicates(found))
                 /\ answer' = [incident |-> incidents[i], kind |-> "duplicate"]
            /\ UNCHANGED incidents
         \/ /\ found # NoIncident
            /\ Duplicates(found) = {}
            /\ incidents' = Append(incidents, found)
            /\ answer' = [incident |-> found, kind |-> "new"]
      /\ UNCHANGED <<storeVars, now, alerts>>

\* POST /api/alerts: a payload without a list of alerts is answered 400.
ReceiveAlerts(payload) ==
  /\ Len(alerts) < MaxAlerts
  /\ alerts' = IF "alerts" \in DOMAIN payload THEN Append(alerts, payload) ELSE alerts
  /\ UNCHANGED <<storeVars, now, incidents, answer>>

ClockMoves ==
  /\ \E d \in ClockSteps : now' = now + d /\ now' \in MinTime..MaxTime
  /\ UNCHANGED <<storeVars, incidents, alerts, answer>>

\* The container restarts (restart: unless-stopped): nothing was persisted.
Restart ==
  /\ Clear
  /\ incidents' = <<>> /\ alerts' = <<>> /\ answer' = NoAnswer
  /\ UNCHANGED now

Next ==
  \/ \E request \in RequestsAt(now) : Ingest(request)
  \/ Analyze
  \/ \E payload \in AlertPayloads : ReceiveAlerts(payload)
  \/ ClockMoves
  \/ Restart

Spec == Init /\ [][Next]_vars

------------------------------------------------------------------------------
Titles == {"Checkout latency increased", "Checkout errors increased"}
CitedIn(incident) ==
  UNION {CitedBy(incident.hypotheses[k]) : k \in DOMAIN incident.hypotheses}

TypeOK ==
  /\ items \in Seq(EvidenceType) /\ accepted \in Seq(EvidenceType)
  /\ Len(items) <= MaxItems
  /\ now \in MinTime..MaxTime
  /\ incidents \in Seq({incidents[i] : i \in DOMAIN incidents})
  /\ \A i \in DOMAIN incidents : /\ incidents[i].title \in Titles
                                  /\ incidents[i].status = "firing"
                                  /\ incidents[i].created_at \in Int
  /\ answer.kind \in {"none", "new", "duplicate"}

\* Deduplication: as long as the clock does not go back, two incidents of one
\* fingerprint are more than the window apart, however many others lie between.
SameFingerprintApart ==
  \A i, j \in DOMAIN incidents :
    i < j /\ Fingerprint(incidents[i]) = Fingerprint(incidents[j])
      => incidents[j].created_at - incidents[i].created_at > DedupWindow

\* Whatever the clock does, the newest incident absorbs its own duplicates.
NeighboursDiffer ==
  \A i \in 1..(Len(incidents) - 1) :
    Fingerprint(incidents[i]) = Fingerprint(incidents[i + 1])
      => incidents[i + 1].created_at - incidents[i].created_at > DedupWindow

\* An answer names an incident the registry holds, and a duplicate is answered
\* with the latest incident of its kind: the dashboard never follows a stale one.
AnswerIsLatest ==
  answer.incident # NoIncident =>
    \E i \in DOMAIN incidents :
      /\ incidents[i] = answer.incident
      /\ \A j \in (i + 1)..Len(incidents) :
           Fingerprint(incidents[j]) # Fingerprint(answer.incident)

\* A problem that lasts is reported again: no analysis is answered with an
\* incident older than the window.
DuplicateIsRecent ==
  [][answer' # answer /\ answer'.kind = "duplicate"
       => now - answer'.incident.created_at <= DedupWindow]_vars

\* The evidence an incident cites stays retrievable until MaxItems newer items
\* have pushed it out.
CitedEvidenceKept ==
  \A i \in DOMAIN incidents : \A id \in CitedIn(incidents[i]) :
    id > Len(accepted) - MaxItems => \E k \in DOMAIN items : items[k].evidence_id = id

\* The detailed scan implements the ledger, which knows no order and no scan.
Entries ==
  {[fingerprint |-> Fingerprint(incidents[i]), at |-> incidents[i].created_at] :
     i \in DOMAIN incidents}
Ledger == INSTANCE IncidentLedger WITH Window <- DedupWindow, clock <- now, ledger <- Entries
ImplementsLedger == Ledger!Spec
==============================================================================
