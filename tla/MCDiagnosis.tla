----------------------------- MODULE MCDiagnosis -----------------------------
EXTENDS Diagnosis

Services == <<"checkout-api", "order-service", "payment-service">>

Span(service, kind, start, ms, http_status) ==
  [service |-> service, span_kind |-> kind, name |-> "POST", status |-> 0,
   http_status |-> http_status, start |-> start, end |-> start + ms, db |-> FALSE]

Deployment(service, time) ==
  [service |-> service, event_name |-> "deployment.started", body |-> "deployment.started",
   time |-> time, observed_time |-> time]

Traces(spans) == [signal |-> "traces", malformed |-> FALSE, records |-> spans]

Failing(t) == Traces(<< Span("checkout-api", "SERVER", t, 40, 502),
                        Span("checkout-api", "CLIENT", t, 40, 503) >>)
Slow(t)    == Traces(<< Span("checkout-api", "SERVER", t - 1, 900, 200) >>)
Deploy(t)  == [signal |-> "logs", malformed |-> FALSE, records |-> <<Deployment("payment-service", t)>>]
Poisoned(t) == Traces(<< Span("checkout-api", "SERVER", t, 40, Unreadable) >>)
Malformed(t) == [signal |-> "traces", malformed |-> TRUE, records |-> <<>>]

MCRequestsAt(t) == {Failing(t), Slow(t), Deploy(t), Poisoned(t), Malformed(t)}
StepsBack == {-1, 2}
FewRequestsAt(t) == {Failing(t), Slow(t)}
MCAlertPayloads == {[alerts |-> 1], [wrong |-> 1]}
==============================================================================
