---------------------------- MODULE CheckoutChain ----------------------------
(***************************************************************************)
(* The checkout chain: checkout-api calls order-service, which calls       *)
(* payment-service, which commits a row to PostgreSQL and then writes a    *)
(* cache entry (api_service.py, order_service.py, payment_service.py).     *)
(*                                                                         *)
(* Each checkout has one handler in each service.  A caller waits for its  *)
(* callee at most for its timeout; a handler whose caller is gone runs on. *)
(* Sleeps of the injected faults have arbitrary length and so has a call,  *)
(* and httpx limits each phase of a call and not the whole: any call that  *)
(* is under way may be given up, and no order of timeouts is assumed.      *)
(***************************************************************************)
EXTENDS Integers, FiniteSets

CONSTANTS
  Checkouts,   \* the checkouts customers make
  PoolSize     \* 5: connections of the payment service's pool

ASSUME CheckoutAssumption == PoolSize \in Nat \ {0} /\ IsFiniteSet(Checkouts)

VARIABLES
  api, order, payment,   \* the three handlers of each checkout
  tx,                    \* its transaction, as PostgreSQL sees it
  rows,                  \* its rows in the payments table
  cached,                \* the checkouts whose payment has a cache entry
  free,                  \* connections in the pool
  ready                  \* app.state.ready of the payment service

vars == <<api, order, payment, tx, rows, cached, free, ready>>
calleeVars == <<payment, tx, rows, cached, free, ready>>
databaseVars == <<tx, rows>>

\* A handler is "sent" while its request is on the way and "entered" until it has
\* passed the fault middleware and its dependency_delay.
ApiPhases     == {"idle", "entered", "calling", "accepted", "failed"}
OrderPhases   == {"none", "sent", "entered", "calling", "created", "failed", "lost"}
PaymentPhases == {"none", "sent", "entered", "holding", "inserted", "committing",
                  "stored", "captured", "failed", "lost"}
Holding       == {"holding", "inserted", "committing"}
TxStates      == {"none", "open", "committing", "committed", "aborted"}

Init ==
  /\ api = [k \in Checkouts |-> "idle"]
  /\ order = [k \in Checkouts |-> "none"]
  /\ payment = [k \in Checkouts |-> "none"]
  /\ tx = [k \in Checkouts |-> "none"]
  /\ rows = [k \in Checkouts |-> 0]
  /\ cached = {}
  /\ free = PoolSize
  /\ ready = FALSE

------------------------------------------------------------------------------
(* checkout-api                                                            *)

Arrive(k) ==
  /\ api[k] = "idle"
  /\ api' = [api EXCEPT ![k] = "entered"]
  /\ UNCHANGED <<order, calleeVars>>

CallOrder(k) ==
  /\ api[k] = "entered"
  /\ api' = [api EXCEPT ![k] = "calling"]
  /\ order' = [order EXCEPT ![k] = "sent"]
  /\ UNCHANGED calleeVars

\* The order's answer arrives and raise_for_status lets it pass.
Accept(k) ==
  /\ api[k] = "calling" /\ order[k] = "created"
  /\ api' = [api EXCEPT ![k] = "accepted"]
  /\ UNCHANGED <<order, calleeVars>>

\* Mutant: no timeout, a call only ends with an answer or a reset connection.
Reset(k) == api[k] = "calling" /\ order[k] \in {"failed", "lost"}

\* An error status, a refused or broken connection, a timeout.
MayGiveUp(k) == api[k] = "calling"

\* 500 or 503 of an injected fault, or 502.
Fail(k) ==
  /\ api[k] = "entered" \/ MayGiveUp(k)
  /\ api' = [api EXCEPT ![k] = "failed"]
  /\ UNCHANGED <<order, calleeVars>>

\* The customers' connections break; what was called goes on.
RestartApi ==
  /\ api' = [k \in Checkouts |-> IF api[k] \in {"entered", "calling"} THEN "failed" ELSE api[k]]
  /\ UNCHANGED <<order, calleeVars>>

------------------------------------------------------------------------------
(* order-service                                                           *)

EnterOrder(k) ==
  /\ order[k] = "sent"
  /\ order' = [order EXCEPT ![k] = "entered"]
  /\ UNCHANGED <<api, calleeVars>>

\* After dependency_delay, however long ago checkout-api gave up.
CallPayment(k) ==
  /\ order[k] = "entered"
  /\ order' = [order EXCEPT ![k] = "calling"]
  /\ payment' = [payment EXCEPT ![k] = "sent"]
  /\ UNCHANGED <<api, databaseVars, cached, free, ready>>

\* Mutant: raise_for_status is missing.
Responded(k) == payment[k] \in {"captured", "failed"}

Confirmed(k) == payment[k] = "captured"

Create(k) ==
  /\ order[k] = "calling" /\ Confirmed(k)
  /\ order' = [order EXCEPT ![k] = "created"]
  /\ UNCHANGED <<api, calleeVars>>

FailOrder(k) ==
  /\ order[k] \in {"entered", "calling"}
  /\ order' = [order EXCEPT ![k] = "failed"]
  /\ UNCHANGED <<api, calleeVars>>

RestartOrder ==
  /\ order' = [k \in Checkouts |-> IF order[k] \in {"entered", "calling"} THEN "lost" ELSE order[k]]
  /\ UNCHANGED <<api, calleeVars>>

------------------------------------------------------------------------------
(* payment-service                                                         *)

\* lifespan: the pool is open, the table exists, the cache answers.
Start ==
  /\ ~ready
  /\ ready' = TRUE /\ free' = PoolSize
  /\ UNCHANGED <<api, order, payment, databaseVars, cached>>

\* Nothing is served before the lifespan's startup is over.
EnterPayment(k) ==
  /\ ready /\ payment[k] = "sent"
  /\ payment' = [payment EXCEPT ![k] = "entered"]
  /\ UNCHANGED <<api, order, databaseVars, cached, free, ready>>

\* An injected fault, or no connection came free in time (PoolTimeout).
RefusePayment(k) ==
  /\ payment[k] = "entered"
  /\ payment' = [payment EXCEPT ![k] = "failed"]
  /\ UNCHANGED <<api, order, databaseVars, cached, free, ready>>

\* Mutant: the pool grows beyond its maximum.
Unlimited == TRUE

Available == free > 0

Acquire(k) ==
  /\ payment[k] = "entered" /\ Available
  /\ payment' = [payment EXCEPT ![k] = "holding"]
  /\ free' = free - 1
  /\ UNCHANGED <<api, order, databaseVars, cached, ready>>

Insert(k) ==
  /\ payment[k] = "holding"
  /\ payment' = [payment EXCEPT ![k] = "inserted"]
  /\ tx' = [tx EXCEPT ![k] = "open"]
  /\ UNCHANGED <<api, order, rows, cached, free, ready>>

\* Mutant: an exception leaves the connection checked out.
Leaked(n) == n

\* The context manager returns the connection however its block ends.
Returned(n) == n + 1

\* The statement raises: rolled back, 503.
FailInsert(k) ==
  /\ payment[k] = "holding"
  /\ payment' = [payment EXCEPT ![k] = "failed"]
  /\ free' = Returned(free)
  /\ UNCHANGED <<api, order, databaseVars, cached, ready>>

\* Leaving the block commits, unless the database aborted meanwhile.
Commit(k) ==
  /\ payment[k] = "inserted"
  /\ payment' = [payment EXCEPT ![k] = "committing"]
  /\ tx' = [tx EXCEPT ![k] = IF @ = "open" THEN "committing" ELSE @]
  /\ UNCHANGED <<api, order, rows, cached, free, ready>>

\* The database settles a transaction, whether or not somebody still waits.
Durable(k) ==
  /\ tx[k] = "committing"
  /\ tx' = [tx EXCEPT ![k] = "committed"]
  /\ rows' = [rows EXCEPT ![k] = @ + 1]
  /\ UNCHANGED <<api, order, payment, cached, free, ready>>

Abort(k) ==
  /\ tx[k] \in {"open", "committing"}
  /\ tx' = [tx EXCEPT ![k] = "aborted"]
  /\ UNCHANGED <<api, order, payment, rows, cached, free, ready>>

Stored(k) ==
  /\ payment[k] = "committing" /\ tx[k] = "committed"
  /\ payment' = [payment EXCEPT ![k] = "stored"]
  /\ free' = free + 1
  /\ UNCHANGED <<api, order, databaseVars, cached, ready>>

\* The connection breaks during the commit: 503, whatever becomes of the row.
FailCommit(k) ==
  /\ payment[k] = "committing"
  /\ payment' = [payment EXCEPT ![k] = "failed"]
  /\ free' = Returned(free)
  /\ UNCHANGED <<api, order, databaseVars, cached, ready>>

\* Mutant: the cache is written before the commit is known.
BeforeCommit(k) == payment[k] \in {"committing", "stored"}

MayCache(k) == payment[k] = "stored"

Cache(k) ==
  /\ MayCache(k)
  /\ payment' = [payment EXCEPT ![k] = "captured"]
  /\ cached' = cached \cup {k}
  /\ UNCHANGED <<api, order, databaseVars, free, ready>>

\* The cache fails, or only its answer is lost: 503 for a row that stays.
FailCache(k) ==
  /\ MayCache(k)
  /\ payment' = [payment EXCEPT ![k] = "failed"]
  /\ cached' \in {cached, cached \cup {k}}
  /\ UNCHANGED <<api, order, databaseVars, free, ready>>

\* After 300 s, or when Redis restarts.
Expire(k) ==
  /\ k \in cached
  /\ cached' = cached \ {k}
  /\ UNCHANGED <<api, order, payment, databaseVars, free, ready>>

\* Open transactions are rolled back; a commit that was sent takes its course.
RestartPayment ==
  /\ ready
  /\ ready' = FALSE /\ free' = PoolSize
  /\ payment' = [k \in Checkouts |->
                   IF payment[k] \in Holding \cup {"entered", "stored"} THEN "lost" ELSE payment[k]]
  /\ tx' = [k \in Checkouts |-> IF tx[k] = "open" THEN "aborted" ELSE tx[k]]
  /\ UNCHANGED <<api, order, rows, cached>>

------------------------------------------------------------------------------
EndCheckout(k) == CallOrder(k) \/ Accept(k) \/ Fail(k)
EndQuery(k)    == Insert(k) \/ FailInsert(k) \/ Commit(k) \/ Stored(k) \/ FailCommit(k)

Next ==
  \/ \E k \in Checkouts :
       \/ Arrive(k) \/ CallOrder(k) \/ Accept(k) \/ Fail(k)
       \/ EnterOrder(k) \/ CallPayment(k) \/ Create(k) \/ FailOrder(k)
       \/ EnterPayment(k) \/ RefusePayment(k) \/ Acquire(k)
       \/ Insert(k) \/ FailInsert(k) \/ Commit(k) \/ Stored(k) \/ FailCommit(k)
       \/ Durable(k) \/ Abort(k)
       \/ Cache(k) \/ FailCache(k) \/ Expire(k)
  \/ RestartApi \/ RestartOrder \/ RestartPayment \/ Start

Spec == Init /\ [][Next]_vars

\* checkout-api's timer fires and its event loop runs; nothing is assumed of the
\* services it calls.
ApiFairness == \A k \in Checkouts : WF_vars(EndCheckout(k))

\* The database or its connection answers a statement in the end, yes or no.
DatabaseFairness == \A k \in Checkouts : WF_vars(EndQuery(k))

FairSpec == Spec /\ ApiFairness /\ DatabaseFairness

------------------------------------------------------------------------------
TypeOK ==
  /\ api \in [Checkouts -> ApiPhases]
  /\ order \in [Checkouts -> OrderPhases]
  /\ payment \in [Checkouts -> PaymentPhases]
  /\ tx \in [Checkouts -> TxStates]
  /\ rows \in [Checkouts -> Nat]
  /\ cached \subseteq Checkouts
  /\ free \in 0..PoolSize
  /\ ready \in BOOLEAN

Holders == {k \in Checkouts : payment[k] \in Holding}

\* Whatever fails while a connection is checked out, the pool knows of every one.
ConnectionsAccounted == free + Cardinality(Holders) = PoolSize

\* The cache never says captured of a payment that is not, or may yet not be, in
\* the table.
CacheAfterCommit == \A k \in cached : rows[k] = 1

\* Every customer is answered, though order, payment and database may hang.
CheckoutAnswered ==
  \A k \in Checkouts : api[k] # "idle" ~> api[k] \in {"accepted", "failed"}

\* Charges whose callers gave up do not wear the pool out.
PoolDrains == <>[](free = PoolSize)

\* The chain keeps the promises of Purchases.
Told(k) ==
  CASE api[k] = "idle"                     -> "nothing"
    [] api[k] \in {"entered", "calling"}   -> "asked"
    [] api[k] = "accepted"                 -> "accepted"
    [] api[k] = "failed"                   -> "refused"
Promise == INSTANCE Purchases WITH
  Purchase <- Checkouts, told <- [k \in Checkouts |-> Told(k)], charged <- rows
ImplementsPurchases == Promise!Spec
==============================================================================
