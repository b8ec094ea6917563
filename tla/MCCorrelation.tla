---------------------------- MODULE MCCorrelation ----------------------------
(***************************************************************************)
(* The correlation rules over every order in which up to MaxBatches        *)
(* batches of a palette reach the store, each followed by an analysis at   *)
(* the fixed time Now.  Times are in tenths of a millisecond, the windows  *)
(* the program's own.  The palette puts spans, metrics and markers inside, *)
(* outside and on the edges of the windows and in the gap between them,    *)
(* with enough candidates that the top five leaves some out.               *)
(***************************************************************************)
EXTENDS Analysis

CONSTANT Palette

MCNow == 40000000
Services == <<"chaos-controller", "checkout-api", "order-service", "payment-service">>

\* An age is in milliseconds; Older is half of one earlier.
Item(age, service, kind, name, value, span_kind, db) ==
  [timestamp |-> MCNow - 10 * age, service |-> service, kind |-> kind, name |-> name,
   value |-> value, span_kind |-> span_kind, db |-> db]

Older(item) == [item EXCEPT !.timestamp = @ - 5]

Request(age, service, value) == Item(age, service, "span", "POST", value, "SERVER", FALSE)
Failed(age, service, side)   == Item(age, service, "error", "POST", 40, side, FALSE)
Sample(age, name, value)     == Item(age, "payment-service", "metric", name, value, "none", FALSE)
Marker(age, service, kind)   == Item(age, service, kind, kind, 0, "none", FALSE)
Query1(age, value)           == Item(age, "payment-service", "span", "INSERT", value, "CLIENT", TRUE)

Failing    == << Failed(5000, "checkout-api", "SERVER"), Failed(5100, "checkout-api", "CLIENT"),
                 Request(6000, "checkout-api", 20), Request(6100, "checkout-api", 30),
                 Failed(5200, "order-service", "SERVER"), Failed(5300, "order-service", "CLIENT"),
                 Failed(5300, "order-service", "CLIENT") >>
Deploys    == << Marker(500000, "checkout-api", "deployment"),
                 Marker(300000, "order-service", "deployment"),
                 Marker(55001, "payment-service", "deployment") >>
Experiment == << Marker(40000, "chaos-controller", "chaos") >>

Batch ==
  [ slow       |-> << Request(9000, "checkout-api", 450), Request(12000, "checkout-api", 310),
                      Request(60000, "checkout-api", 450) >>,
    failing    |-> Failing,
    deploys    |-> Deploys,
    experiment |-> Experiment,
    outage     |-> Failing \o Deploys \o Experiment,
    baseline   |-> << Request(60001, "checkout-api", 300),
                      Older(Request(60000, "checkout-api", 400)), Request(100000, "payment-service", 8),
                      Query1(100000, 5), Sample(100000, "process.memory.usage", 100) >>,
    database   |-> << Request(8000, "payment-service", 300), Query1(8000, 40),
                      Sample(8000, "process.memory.usage", 130) >>,
    busy       |-> << Sample(7000, "process.cpu.utilization", 80), Query1(7000, 9) >>,
    redeploy   |-> << Marker(55000, "payment-service", "deployment"), Query1(5000, 1) >>,
    history    |-> << Failed(2000000, "checkout-api", "SERVER"), Request(900000, "checkout-api", 20) >>,
    edge       |-> [i \in 1..50 |-> Request(1000, "checkout-api", IF i <= 3 THEN 301 ELSE 300)] ]

MCArrivals == {Batch[name] : name \in Palette}
==============================================================================
