--------------------------------- MODULE Otlp ---------------------------------
(***************************************************************************)
(* otlp.py: what one OTLP export request becomes.  A request is            *)
(*   [signal, malformed, records]                                          *)
(* and its records carry the fields the decoders read.  A status attribute *)
(* that int() cannot read is the value Unreadable, which also stands for a *)
(* span kind without a name: both raise.  Each decoding draws fresh        *)
(* evidence ids, so the same request delivered twice is twice the          *)
(* evidence; here the ids number what the store has accepted.              *)
(***************************************************************************)
EXTENDS Integers, Sequences

CONSTANT Unreadable

\* The protobuf span kinds without their prefix; "none" stands for an attribute
\* that is absent.
SpanSides == {"UNSPECIFIED", "INTERNAL", "SERVER", "CLIENT", "PRODUCER", "CONSUMER"}
NoSide    == "none"

SpanType   == [service : STRING, span_kind : SpanSides, name : STRING, status : 0..2,
               http_status : Int, start : Int, end : Int, db : BOOLEAN]
PointType  == [service : STRING, name : STRING, time : Int, value : Int]
              \cup [service : STRING, name : STRING, time : Int, sum : Int, count : Nat]
RecordType == [service : STRING, event_name : STRING, body : STRING,
               time : Int, observed_time : Int]

IsRequest(request) ==
  \/ request.signal = "traces"  /\ request.records \in Seq(SpanType)
  \/ request.signal = "metrics" /\ request.records \in Seq(PointType)
  \/ request.signal = "logs"    /\ request.records \in Seq(RecordType)

EvidenceKinds == {"span", "error", "metric", "log", "deployment", "chaos"}
EvidenceType ==
  [evidence_id : Nat, timestamp : Int, service : STRING, kind : EvidenceKinds,
   name : STRING, value : Int, span_kind : SpanSides \cup {NoSide}, db : BOOLEAN]

DeploymentStarted == "deployment.started"
ChaosEvents       == {"chaos.experiment.started"}

\* The protobuf status (2 is ERROR) or the HTTP status of the span.
SpanFailed(span) == span.status = 2 \/ span.http_status >= 500

SpanKind(span) == IF SpanFailed(span) THEN "error" ELSE "span"

\* A span is dated when it started, however late it ended and was exported.
SpanEvidence(span) ==
  [timestamp |-> span.start,
   service   |-> span.service,
   kind      |-> SpanKind(span),
   name      |-> span.name,
   value     |-> span.end - span.start,
   span_kind |-> span.span_kind,
   db        |-> span.db]

\* A histogram point contributes its mean, an empty one zero.
PointValue(point) ==
  IF "count" \in DOMAIN point
  THEN IF point.count = 0 THEN 0 ELSE point.sum \div point.count
  ELSE point.value

MetricEvidence(point) ==
  [timestamp |-> point.time,
   service   |-> point.service,
   kind      |-> "metric",
   name      |-> point.name,
   value     |-> PointValue(point),
   span_kind |-> NoSide,
   db        |-> FALSE]

\* The event_name attribute, or else the body, names the event; either may
\* make the record a marker.
LogKind(event_name, body) ==
  CASE DeploymentStarted \in {event_name, body}       -> "deployment"
    [] DeploymentStarted \notin {event_name, body}
       /\ ChaosEvents \cap {event_name, body} # {}    -> "chaos"
    [] OTHER                                          -> "log"

LogEvidence(record) ==
  LET event_name == IF record.event_name = "none" THEN record.body ELSE record.event_name
  IN  [timestamp |-> IF record.time # 0 THEN record.time ELSE record.observed_time,
       service   |-> record.service,
       kind      |-> LogKind(event_name, record.body),
       name      |-> event_name,
       value     |-> 0,
       span_kind |-> NoSide,
       db        |-> FALSE]

\* One unreadable span makes decode_traces raise: nothing of the request is kept.
Decodable(request) ==
  /\ ~request.malformed
  /\ request.signal = "traces" =>
       \A i \in DOMAIN request.records : request.records[i].http_status # Unreadable

DecodeOne(signal, record) ==
  CASE signal = "traces"  -> SpanEvidence(record)
    [] signal = "metrics" -> MetricEvidence(record)
    [] signal = "logs"    -> LogEvidence(record)

Identified(id, e) ==
  [evidence_id |-> id, timestamp |-> e.timestamp, service |-> e.service, kind |-> e.kind,
   name |-> e.name, value |-> e.value, span_kind |-> e.span_kind, db |-> e.db]

\* The evidence of a request, given how many ids were drawn before.
Decode(request, drawn) ==
  [i \in DOMAIN request.records |->
     Identified(drawn + i, DecodeOne(request.signal, request.records[i]))]
===============================================================================
