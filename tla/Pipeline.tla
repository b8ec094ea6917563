------------------------------- MODULE Pipeline -------------------------------
(***************************************************************************)
(* The way of a server span from the request it describes to the evidence  *)
(* store: the middleware that counts the request (telemetry.py), the SDK's *)
(* bounded queue and export thread, the Collector's batches and retries    *)
(* (deploy/otel-collector.yaml), and the diagnosis' ingestion              *)
(* (diagnosis_service.py, otlp.py) into the EvidenceStore.                 *)
(*                                                                         *)
(* A span is known by its request.  Every delivery may be answered, remain *)
(* unanswered although it was received, or fail; every process may crash.  *)
(***************************************************************************)
EXTENDS EvidenceStore, SequencesExt

CONSTANTS
  Services,        \* processes that run the middleware and export spans
  Requests,        \* requests they may receive, each once
  ServedBy(_),     \* the service of a request
  Probes,          \* requests for healthz and readyz, which are not traced
  Foreign,         \* spans of other exporters, which decode_traces cannot read
  QueueSize,       \* 2048: the SDK's queue of ended spans
  ExportSize,      \* 512: spans per export
  SendingQueue,    \* 1000: batches the Collector holds for the diagnosis
  MaxUnanswered,   \* bound of the model: deliveries whose answer is lost
  MaxCrashes       \* bound of the model: crashes of any process

ASSUME PipelineAssumption ==
  /\ Probes \subseteq Requests /\ Foreign \cap Requests = {}
  /\ \A r \in Requests : ServedBy(r) \in Services
  /\ QueueSize \in Nat \ {0} /\ ExportSize \in Nat \ {0} /\ SendingQueue \in Nat \ {0}

VARIABLES
  outcome,     \* of each request or foreign span
  depth, requests, errors,   \* the instruments of each service
  queue,       \* spans ended but not taken by the export thread, oldest first
  exporting,   \* the batch the export thread works on
  buffer,      \* the Collector's batch in the making
  sending,     \* the Collector's batches for the diagnosis, sent concurrently
  since,       \* history: requests ended since their service last started
  lost,        \* history: how many copies of each span were dropped
  repeated,    \* history: how many were received but sent again
  unanswered, crashes

instruments == <<depth, requests, errors, since>>
collectorVars == <<buffer, sending>>
history == <<lost, repeated, unanswered, crashes>>
vars == <<storeVars, outcome, instruments, queue, exporting, collectorVars, history>>

Answered == {"ok", "failed"}
Ended    == Answered \cup {"raised"}
Outcomes == {"new", "open", "cut"} \cup Ended

Spans == Requests \cup Foreign

\* How many copies of a span a sequence holds, and a family of sequences.
Held(e, s)      == Cardinality({i \in DOMAIN s : s[i] = e})
HeldIn(e, seqs) ==
  Cardinality(UNION {{k} \X {i \in DOMAIN seqs[k] : seqs[k][i] = e} : k \in DOMAIN seqs})

Plus(copies, s)       == [e \in DOMAIN copies |-> copies[e] + Held(e, s)]
PlusAll(copies, seqs) == [e \in DOMAIN copies |-> copies[e] + HeldIn(e, seqs)]

Init ==
  /\ StoreInit
  /\ outcome = [e \in Spans |-> "new"]
  /\ depth = [s \in Services |-> 0]
  /\ requests = [s \in Services |-> 0]
  /\ errors = [s \in Services |-> 0]
  /\ since = {}
  /\ queue = [s \in Services |-> <<>>] /\ exporting = [s \in Services |-> <<>>]
  /\ buffer = <<>> /\ sending = <<>>
  /\ lost = [e \in Spans |-> 0] /\ repeated = [e \in Spans |-> 0]
  /\ unanswered = 0 /\ crashes = 0

------------------------------------------------------------------------------
(* A service: the middleware and the SDK                                   *)

Arrive(r) ==
  /\ outcome[r] = "new"
  /\ outcome' = [outcome EXCEPT ![r] = "open"]
  /\ depth' = [depth EXCEPT ![ServedBy(r)] = @ + 1]
  /\ UNCHANGED <<storeVars, requests, errors, since, queue, exporting, collectorVars, history>>

\* Mutant: the queue has no maxlen.
Unbounded(spans) == spans

\* A full deque drops its oldest span.
Newest(spans) == LastOf(QueueSize, spans)

EndSpan(r) ==
  LET s == ServedBy(r)
      spans == Append(queue[s], r)
  IN  IF r \in Probes THEN UNCHANGED <<queue, lost>>
      ELSE /\ queue' = [queue EXCEPT ![s] = Newest(spans)]
           /\ lost' = Plus(lost, FirstOf(Len(spans) - Len(Newest(spans)), spans))

\* Mutants: an exception is counted as a request too; the depth is not
\* decremented in a finally.
CountAll(result)      == TRUE
ReturnsOnly(result)   == result \in Answered

\* An exception leaves the middleware before it counts the request.
Counted(result)     == result \in Answered
Decremented(result) == TRUE

\* A request fails with a response of status 500 or more, or with an exception that
\* leaves call_next: an injected failure, or one that an endpoint lets out (the
\* httpx error of the controller's DELETE).  A probe has nothing to raise.
End(r, result) ==
  LET s == ServedBy(r)
      PlusIf(n, condition) == IF condition THEN n + 1 ELSE n
  IN  /\ outcome[r] = "open"
      /\ result = "raised" => r \notin Probes
      /\ outcome' = [outcome EXCEPT ![r] = result]
      /\ since' = since \cup {r}
      /\ depth' = [depth EXCEPT ![s] = IF Decremented(result) THEN @ - 1 ELSE @]
      /\ requests' = [requests EXCEPT ![s] = PlusIf(@, Counted(result))]
      /\ errors' = [errors EXCEPT ![s] = PlusIf(@, result \in {"failed", "raised"})]
      /\ EndSpan(r)
      /\ UNCHANGED <<storeVars, exporting, collectorVars, repeated, unanswered, crashes>>

TakeBatch(s) ==
  /\ exporting[s] = <<>> /\ queue[s] # <<>>
  /\ exporting' = [exporting EXCEPT ![s] = FirstOf(ExportSize, queue[s])]
  /\ queue' = [queue EXCEPT ![s] = SubSeq(@, Len(exporting'[s]) + 1, Len(@))]
  /\ UNCHANGED <<storeVars, outcome, instruments, collectorVars, history>>

\* The Collector has the batch; without its answer the export is repeated.
Export(s, answered) ==
  /\ exporting[s] # <<>>
  /\ buffer' = buffer \o exporting[s]
  /\ IF answered
     THEN /\ exporting' = [exporting EXCEPT ![s] = <<>>]
          /\ UNCHANGED <<repeated, unanswered>>
     ELSE /\ unanswered < MaxUnanswered
          /\ unanswered' = unanswered + 1
          /\ repeated' = Plus(repeated, exporting[s])
          /\ UNCHANGED exporting
  /\ UNCHANGED <<storeVars, outcome, instruments, queue, sending, lost, crashes>>

\* The Collector is away or its memory_limiter refuses for too long.
GiveUpExport(s) ==
  /\ exporting[s] # <<>>
  /\ lost' = Plus(lost, exporting[s])
  /\ exporting' = [exporting EXCEPT ![s] = <<>>]
  /\ UNCHANGED <<storeVars, outcome, instruments, queue, collectorVars, repeated, unanswered,
                 crashes>>

\* The counters start again at zero; open requests end without a span.
RestartService(s) ==
  LET own == {r \in Requests : ServedBy(r) = s}
  IN  /\ crashes < MaxCrashes
      /\ crashes' = crashes + 1
      /\ outcome' = [r \in DOMAIN outcome |->
                       IF r \in own /\ outcome[r] = "open" THEN "cut" ELSE outcome[r]]
      /\ depth' = [depth EXCEPT ![s] = 0]
      /\ requests' = [requests EXCEPT ![s] = 0]
      /\ errors' = [errors EXCEPT ![s] = 0]
      /\ since' = since \ own
      /\ lost' = Plus(Plus(lost, queue[s]), exporting[s])
      /\ queue' = [queue EXCEPT ![s] = <<>>] /\ exporting' = [exporting EXCEPT ![s] = <<>>]
      /\ UNCHANGED <<storeVars, collectorVars, repeated, unanswered>>

------------------------------------------------------------------------------
(* The Collector                                                           *)

ForeignExport(x) ==
  /\ outcome[x] = "new"
  /\ outcome' = [outcome EXCEPT ![x] = "ok"]
  /\ buffer' = Append(buffer, x)
  /\ UNCHANGED <<storeVars, instruments, queue, exporting, sending, history>>

\* The batch processor hands over after a second; a full queue drops the batch.
HandOver ==
  /\ buffer # <<>>
  /\ buffer' = <<>>
  /\ IF Len(sending) < SendingQueue
     THEN sending' = Append(sending, buffer) /\ UNCHANGED lost
     ELSE lost' = Plus(lost, buffer) /\ UNCHANGED sending
  /\ UNCHANGED <<storeVars, outcome, instruments, queue, exporting, repeated, unanswered, crashes>>

\* Mutant: the retry has no end.
Never(batch) == FALSE

\* retry_on_failure: max_elapsed_time.
MayGiveUp(batch) == TRUE

GiveUpBatch(i) ==
  /\ MayGiveUp(sending[i])
  /\ lost' = Plus(lost, sending[i])
  /\ sending' = RemoveAt(sending, i)
  /\ UNCHANGED <<storeVars, outcome, instruments, queue, exporting, buffer, repeated, unanswered,
                 crashes>>

RestartCollector ==
  /\ crashes < MaxCrashes
  /\ crashes' = crashes + 1
  /\ lost' = PlusAll(Plus(lost, buffer), sending)
  /\ buffer' = <<>> /\ sending' = <<>>
  /\ UNCHANGED <<storeVars, outcome, instruments, queue, exporting, repeated, unanswered>>

------------------------------------------------------------------------------
(* The diagnosis                                                           *)

\* A status attribute that int() refuses and a span kind without a name both raise a
\* ValueError, and so a 500.
Decodable(batch) == \A i \in DOMAIN batch : batch[i] \notin Foreign

\* Mutant: what was decoded before the error is kept.
DecodedFirst(batch) ==
  SubSeq(batch, 1, CHOOSE n \in 0..Len(batch) :
                     /\ Decodable(SubSeq(batch, 1, n))
                     /\ n < Len(batch) => batch[n + 1] \in Foreign)

\* The decoder raises before anything is added.
Decoded(batch) == IF Decodable(batch) THEN batch ELSE <<>>

Ingest(batch) == AddMany(Decoded(batch))

\* Batches of one exporter overtake each other.  500 is permanent for the
\* Collector, which retries only 429, 502, 503 and 504.
Post(i, answered) ==
  /\ Ingest(sending[i])
  /\ IF answered
     THEN /\ sending' = RemoveAt(sending, i)
          /\ lost' = IF Decodable(sending[i]) THEN lost ELSE Plus(lost, sending[i])
          /\ UNCHANGED <<repeated, unanswered>>
     ELSE /\ unanswered < MaxUnanswered
          /\ unanswered' = unanswered + 1
          /\ repeated' = IF Decodable(sending[i]) THEN Plus(repeated, sending[i]) ELSE repeated
          /\ UNCHANGED <<sending, lost>>
  /\ UNCHANGED <<outcome, instruments, queue, exporting, buffer, crashes>>

\* Nothing is persisted.
RestartDiagnosis ==
  /\ crashes < MaxCrashes
  /\ crashes' = crashes + 1
  /\ Clear
  /\ lost' = Plus(lost, accepted)
  /\ UNCHANGED <<outcome, instruments, queue, exporting, collectorVars, repeated, unanswered>>

------------------------------------------------------------------------------
Next ==
  \/ \E r \in Requests : Arrive(r) \/ \E result \in Ended : End(r, result)
  \/ \E s \in Services : \/ TakeBatch(s) \/ GiveUpExport(s) \/ RestartService(s)
                         \/ \E answered \in BOOLEAN : Export(s, answered)
  \/ \E x \in Foreign : ForeignExport(x)
  \/ HandOver
  \/ \E i \in DOMAIN sending : GiveUpBatch(i) \/ \E answered \in BOOLEAN : Post(i, answered)
  \/ RestartCollector \/ RestartDiagnosis

Spec == Init /\ [][Next]_vars

\* The SDK's thread and the Collector's timers run; that anybody ever answers is
\* not assumed.
Fairness ==
  /\ \A s \in Services : WF_vars(TakeBatch(s)) /\ WF_vars(GiveUpExport(s))
  /\ WF_vars(HandOver)
  /\ WF_vars(\E i \in DOMAIN sending : GiveUpBatch(i))

FairSpec == Spec /\ Fairness

------------------------------------------------------------------------------
TypeOK ==
  /\ outcome \in [Spans -> Outcomes]
  /\ depth \in [Services -> Nat] /\ requests \in [Services -> Nat] /\ errors \in [Services -> Nat]
  /\ queue \in [Services -> Seq(Requests)] /\ exporting \in [Services -> Seq(Requests)]
  /\ \A s \in Services : Len(queue[s]) <= QueueSize /\ Len(exporting[s]) <= ExportSize
  /\ buffer \in Seq(Spans)
  /\ sending \in Seq(Seq(Spans)) /\ Len(sending) <= SendingQueue
  /\ accepted \in Seq(Spans) /\ items \in Seq(Spans) /\ Len(items) <= MaxItems
  /\ lost \in [Spans -> Nat] /\ repeated \in [Spans -> Nat]

\* The queue depth the diagnosis judges a backlog by is the number of requests
\* being served, however those before them ended.
DepthIsBacklog ==
  \A s \in Services :
    depth[s] = Cardinality({r \in Requests : ServedBy(r) = s /\ outcome[r] = "open"})

\* How the counters Prometheus alerts on differ from the spans the objectives are
\* computed of: probes are requests without a span, injected failures are spans
\* without a request; a failure is one error in both.
CountersExplained ==
  \A s \in Services :
    LET ended  == {r \in since : ServedBy(r) = s}
        spans  == ended \ Probes
        raised == {r \in spans : outcome[r] = "raised"}
    IN  /\ requests[s] = Cardinality(spans) + Cardinality(ended \cap Probes) - Cardinality(raised)
        /\ errors[s] = Cardinality({r \in ended : outcome[r] # "ok"})

OnTheWay(e) == HeldIn(e, queue) + HeldIn(e, exporting) + Held(e, buffer) + HeldIn(e, sending)

\* No span disappears and none is counted twice but by the ways this module
\* names: every copy is on its way, known to be dropped or accepted by the store (of
\* which that keeps the newest), and one more for every delivery that was repeated.
EveryCopyAccounted ==
  \A e \in Spans :
    LET ended == outcome[e] \in Ended /\ e \notin Probes
    IN  OnTheWay(e) + Held(e, accepted) + lost[e] = repeated[e] + (IF ended THEN 1 ELSE 0)

\* Whoever is down, and for however long, no span waits for ever.
PipelineDrains == <>[](\A e \in Spans : OnTheWay(e) = 0)
===============================================================================
