---------------------------- MODULE CheckoutProofs ----------------------------
(***************************************************************************)
(* Theorems about module CheckoutChain, for any number of checkouts and    *)
(* any size of the pool.                                                   *)
(*                                                                         *)
(* The argument follows a charge backwards: the customer is told accepted  *)
(* only after the order was created, the order only after the payment was  *)
(* captured, the payment only after its transaction was committed, and a   *)
(* transaction is committed once.  Giving up on a call changes no later    *)
(* stage, so no timeout, retry or restart can break the chain.             *)
(***************************************************************************)
EXTENDS CheckoutChain, FiniteSetTheorems, TLAPS

\* What one checkout's stages say of the stages behind them.
Chain(k) ==
  /\ api[k] \in {"idle", "entered"} => order[k] = "none"
  /\ order[k] \in {"none", "sent", "entered"} => payment[k] = "none"
  /\ payment[k] \in {"none", "sent", "entered", "holding"} => tx[k] = "none"
  /\ payment[k] \in {"stored", "captured"} => tx[k] = "committed"
  /\ order[k] = "created" => tx[k] = "committed"
  /\ api[k] = "accepted" => tx[k] = "committed"
  /\ k \in cached => tx[k] = "committed"
  /\ ~ready => payment[k] \notin Holding \cup {"entered", "stored"}
  /\ rows[k] = IF tx[k] = "committed" THEN 1 ELSE 0

ChainOK == \A k \in Checkouts : Chain(k)

\* The types of everything but the pool's counter, whose bound is a theorem about
\* the connections.
StagesOK ==
  /\ api \in [Checkouts -> ApiPhases]
  /\ order \in [Checkouts -> OrderPhases]
  /\ payment \in [Checkouts -> PaymentPhases]
  /\ tx \in [Checkouts -> TxStates]
  /\ rows \in [Checkouts -> Nat]
  /\ cached \subseteq Checkouts
  /\ ready \in BOOLEAN

USE DEF ApiPhases, OrderPhases, PaymentPhases, TxStates, Holding, vars, calleeVars, databaseVars

------------------------------------------------------------------------------
LEMMA StagesInit == Init => StagesOK /\ ChainOK
<1> SUFFICES ASSUME Init PROVE StagesOK /\ ChainOK
  OBVIOUS
<1>1. StagesOK
  BY DEF Init, StagesOK
<1>2. ASSUME NEW k \in Checkouts PROVE Chain(k)
  BY DEF Init, Chain
<1> QED BY <1>1, <1>2 DEF ChainOK

LEMMA StagesStep == StagesOK /\ [Next]_vars => StagesOK'
<1> SUFFICES ASSUME StagesOK, [Next]_vars PROVE StagesOK'
  OBVIOUS
<1> USE DEF StagesOK
<1>1. ASSUME NEW k \in Checkouts,
             Arrive(k) \/ CallOrder(k) \/ Accept(k) \/ Fail(k)
               \/ EnterOrder(k) \/ CallPayment(k) \/ Create(k) \/ FailOrder(k)
      PROVE  StagesOK'
  BY <1>1 DEF Arrive, CallOrder, Accept, Fail, EnterOrder, CallPayment, Create, FailOrder
<1>2. ASSUME NEW k \in Checkouts,
             EnterPayment(k) \/ RefusePayment(k) \/ Acquire(k) \/ Insert(k) \/ FailInsert(k)
               \/ Commit(k)
      PROVE  StagesOK'
  BY <1>2 DEF EnterPayment, RefusePayment, Acquire, Insert, FailInsert, Commit
<1>3. ASSUME NEW k \in Checkouts,
             Stored(k) \/ FailCommit(k) \/ Durable(k) \/ Abort(k)
               \/ Cache(k) \/ FailCache(k) \/ Expire(k)
      PROVE  StagesOK'
  BY <1>3 DEF Stored, FailCommit, Durable, Abort, Cache, FailCache, Expire
<1>4. ASSUME RestartApi \/ RestartOrder \/ RestartPayment \/ Start PROVE StagesOK'
  BY <1>4 DEF RestartApi, RestartOrder, RestartPayment, Start
<1> QED BY <1>1, <1>2, <1>3, <1>4 DEF Next

LEMMA ChainStep == StagesOK /\ ChainOK /\ [Next]_vars => ChainOK'
<1> SUFFICES ASSUME StagesOK, ChainOK, [Next]_vars, NEW j \in Checkouts PROVE Chain(j)'
  BY DEF ChainOK
<1>0. Chain(j)
  BY DEF ChainOK
<1> USE DEF StagesOK, Chain
<1>1. ASSUME NEW k \in Checkouts, Arrive(k) \/ CallOrder(k) \/ Accept(k) \/ Fail(k)
      PROVE  Chain(j)'
  BY <1>0, <1>1 DEF Arrive, CallOrder, Accept, Fail, MayGiveUp
<1>2. ASSUME NEW k \in Checkouts, EnterOrder(k) \/ CallPayment(k) \/ Create(k) \/ FailOrder(k)
      PROVE  Chain(j)'
  BY <1>0, <1>2 DEF EnterOrder, CallPayment, Create, FailOrder, Confirmed
<1>3. ASSUME NEW k \in Checkouts,
             EnterPayment(k) \/ RefusePayment(k) \/ Acquire(k) \/ Insert(k) \/ FailInsert(k)
      PROVE  Chain(j)'
  BY <1>0, <1>3 DEF EnterPayment, RefusePayment, Acquire, Insert, FailInsert
<1>4. ASSUME NEW k \in Checkouts,
             Commit(k) \/ Stored(k) \/ FailCommit(k) \/ Durable(k) \/ Abort(k)
      PROVE  Chain(j)'
  BY <1>0, <1>4 DEF Commit, Stored, FailCommit, Durable, Abort
<1>5. ASSUME NEW k \in Checkouts, Cache(k) \/ FailCache(k) \/ Expire(k)
      PROVE  Chain(j)'
  BY <1>0, <1>5 DEF Cache, FailCache, Expire, MayCache
<1>6. ASSUME RestartApi \/ RestartOrder \/ RestartPayment \/ Start PROVE Chain(j)'
  BY <1>0, <1>6 DEF RestartApi, RestartOrder, RestartPayment, Start
<1>7. CASE UNCHANGED vars
  BY <1>0, <1>7
<1> QED BY <1>1, <1>2, <1>3, <1>4, <1>5, <1>6, <1>7 DEF Next

\* Of every reachable state the stages are what the chain allows.
THEOREM ChainTheorem == Spec => [](StagesOK /\ ChainOK)
  BY StagesInit, StagesStep, ChainStep, PTL DEF Spec

\* The cache says captured only of payments whose row is in the table: it is
\* written after the transaction's block has been left (payment_service.py:60-72).
THEOREM CacheTheorem == Spec => []CacheAfterCommit
<1>1. StagesOK /\ ChainOK => CacheAfterCommit
  BY DEF StagesOK, ChainOK, Chain, CacheAfterCommit
<1> QED BY <1>1, ChainTheorem, PTL

------------------------------------------------------------------------------
(* The pool *)

Held(f) == {k \in Checkouts : f[k] \in Holding}

\* How many handlers hold a connection after one of them has moved.
LEMMA HeldAfter ==
  ASSUME NEW f \in [Checkouts -> PaymentPhases], NEW k \in Checkouts, NEW phase
  PROVE  LET g == [f EXCEPT ![k] = phase]
         IN  /\ Cardinality(Held(f)) \in Nat
             /\ f[k] \in Holding => Cardinality(Held(f)) > 0
             /\ (f[k] \in Holding <=> phase \in Holding) => Cardinality(Held(g)) = Cardinality(Held(f))
             /\ f[k] \notin Holding /\ phase \in Holding
                  => Cardinality(Held(g)) = Cardinality(Held(f)) + 1
             /\ f[k] \in Holding /\ phase \notin Holding
                  => Cardinality(Held(g)) = Cardinality(Held(f)) - 1
<1> DEFINE g == [f EXCEPT ![k] = phase]
<1> USE DEF Held
<1>1. IsFiniteSet(Held(f)) /\ Cardinality(Held(f)) \in Nat
  BY FS_Subset, FS_CardinalityType, CheckoutAssumption
<1>2. f[k] \in Holding => Cardinality(Held(f)) > 0
  <2>1. f[k] \in Holding => Held(f) # {}
    OBVIOUS
  <2> QED BY <1>1, <2>1, FS_EmptySet
<1>3. (f[k] \in Holding <=> phase \in Holding) => Held(g) = Held(f)
  OBVIOUS
<1>4. ASSUME f[k] \notin Holding, phase \in Holding
      PROVE  Cardinality(Held(g)) = Cardinality(Held(f)) + 1
  <2>1. Held(g) = Held(f) \cup {k} /\ k \notin Held(f)
    BY <1>4
  <2> QED BY <1>1, <2>1, FS_AddElement
<1>5. ASSUME f[k] \in Holding, phase \notin Holding
      PROVE  Cardinality(Held(g)) = Cardinality(Held(f)) - 1
  <2>1. Held(g) = Held(f) \ {k} /\ k \in Held(f)
    BY <1>5
  <2> QED BY <1>1, <2>1, FS_RemoveElement
<1> QED BY <1>1, <1>2, <1>3, <1>4, <1>5

PoolOK == free \in 0..PoolSize /\ ConnectionsAccounted

LEMMA PoolInit == Init => PoolOK
<1> SUFFICES ASSUME Init PROVE PoolOK
  OBVIOUS
<1>1. Holders = {}
  BY DEF Init, Holders
<1> QED BY <1>1, FS_EmptySet, CheckoutAssumption DEF Init, PoolOK, ConnectionsAccounted

LEMMA PoolStep == StagesOK /\ ChainOK /\ PoolOK /\ [Next]_vars => PoolOK'
<1> SUFFICES ASSUME StagesOK, ChainOK, PoolOK, [Next]_vars PROVE PoolOK'
  OBVIOUS
<1>0. /\ payment \in [Checkouts -> PaymentPhases]
      /\ PoolSize \in Nat \ {0} /\ free \in Int /\ free >= 0 /\ free <= PoolSize
      /\ free + Cardinality(Held(payment)) = PoolSize
  BY CheckoutAssumption DEF StagesOK, PoolOK, ConnectionsAccounted, Holders, Held
<1>a. ConnectionsAccounted' <=> free' + Cardinality(Held(payment')) = PoolSize
  BY DEF ConnectionsAccounted, Holders, Held
<1>1. CASE UNCHANGED <<payment, free>>
  BY <1>1, <1>0, <1>a DEF PoolOK
<1>2. ASSUME NEW k \in Checkouts, NEW phase,
             payment' = [payment EXCEPT ![k] = phase],
             payment[k] \in Holding <=> phase \in Holding,
             free' = free
      PROVE  PoolOK'
  BY <1>0, <1>a, <1>2, HeldAfter DEF PoolOK
<1>3. ASSUME NEW k \in Checkouts, Acquire(k) PROVE PoolOK'
  <2>1. /\ payment' = [payment EXCEPT ![k] = "holding"]
        /\ payment[k] = "entered" /\ free > 0 /\ free' = free - 1
    BY <1>3 DEF Acquire, Available
  <2>2. /\ Cardinality(Held(payment)) \in Nat
        /\ Cardinality(Held(payment')) = Cardinality(Held(payment)) + 1
    BY <1>0, <2>1, HeldAfter
  <2> QED BY <1>0, <1>a, <2>1, <2>2 DEF PoolOK
<1>4. ASSUME NEW k \in Checkouts, NEW phase,
             payment' = [payment EXCEPT ![k] = phase],
             payment[k] \in Holding, phase \notin Holding,
             free' = free + 1
      PROVE  PoolOK'
  <2>1. /\ Cardinality(Held(payment)) \in Nat /\ Cardinality(Held(payment)) > 0
        /\ Cardinality(Held(payment')) = Cardinality(Held(payment)) - 1
    BY <1>0, <1>4, HeldAfter
  <2> QED BY <1>0, <1>a, <1>4, <2>1 DEF PoolOK
<1>5. ASSUME NEW k \in Checkouts, FailInsert(k) \/ Stored(k) \/ FailCommit(k) PROVE PoolOK'
  BY <1>4, <1>5 DEF FailInsert, Stored, FailCommit, Returned
<1>6. ASSUME NEW k \in Checkouts,
             EnterPayment(k) \/ RefusePayment(k) \/ Insert(k) \/ Commit(k) \/ Cache(k)
               \/ FailCache(k) \/ CallPayment(k)
      PROVE  PoolOK'
  <2>1. ASSUME CallPayment(k) PROVE PoolOK'
    BY <1>2, <2>1 DEF CallPayment, ChainOK, Chain
  <2> QED BY <1>2, <1>6, <2>1
       DEF EnterPayment, RefusePayment, Insert, Commit, Cache, FailCache, MayCache
<1>7. CASE RestartPayment
  <2>1. Held(payment') = {} /\ free' = PoolSize
    BY <1>0, <1>7 DEF RestartPayment, Held
  <2> QED BY <1>0, <1>a, <2>1, FS_EmptySet DEF PoolOK
<1>8. CASE Start
  <2>1. Held(payment') = {} /\ free' = PoolSize
    BY <1>0, <1>8 DEF Start, Held, ChainOK, Chain
  <2> QED BY <1>0, <1>a, <2>1, FS_EmptySet DEF PoolOK
<1> QED
  <2>1. ASSUME NEW k \in Checkouts,
               Arrive(k) \/ CallOrder(k) \/ Accept(k) \/ Fail(k) \/ EnterOrder(k) \/ Create(k)
                 \/ FailOrder(k) \/ Durable(k) \/ Abort(k) \/ Expire(k)
        PROVE  PoolOK'
    BY <1>1, <2>1 DEF Arrive, CallOrder, Accept, Fail, EnterOrder, Create, FailOrder,
                      Durable, Abort, Expire
  <2>2. CASE RestartApi \/ RestartOrder \/ UNCHANGED vars
    BY <1>1, <2>2 DEF RestartApi, RestartOrder
  <2> QED BY <1>3, <1>5, <1>6, <1>7, <1>8, <2>1, <2>2 DEF Next

LEMMA Inductive == Spec => [](StagesOK /\ PoolOK)
<1>1. Init => StagesOK /\ ChainOK /\ PoolOK
  BY StagesInit, PoolInit
<1>2. StagesOK /\ ChainOK /\ PoolOK /\ [Next]_vars => (StagesOK /\ ChainOK /\ PoolOK)'
  BY StagesStep, ChainStep, PoolStep
<1> QED BY <1>1, <1>2, PTL DEF Spec

\* The handlers, the database and the pool keep their types; the pool never has
\* more connections than its maximum and never hands out one it does not have.
THEOREM CheckoutTypeCorrect == Spec => []TypeOK
<1>1. StagesOK /\ PoolOK => TypeOK
  BY DEF StagesOK, PoolOK, TypeOK
<1> QED BY <1>1, Inductive, PTL

\* Every connection is free or held by one handler, whatever failed while it was
\* checked out: the context manager returns it (payment_service.py:60).
THEOREM PoolTheorem == Spec => []ConnectionsAccounted
<1>1. PoolOK => ConnectionsAccounted
  BY DEF PoolOK
<1> QED BY <1>1, Inductive, PTL

------------------------------------------------------------------------------
(* The chain implements the promise *)

\* Timeouts, abandoned charges, ambiguous commits and restarts of any service
\* never make the chain accept what it has not charged, or charge twice.
THEOREM PurchasesTheorem == Spec => ImplementsPurchases
<1> DEFINE told == [k \in Checkouts |-> Told(k)]
<1>1. Init => Promise!Init
  BY DEF Init, Promise!Init, Told
<1>2. StagesOK /\ ChainOK /\ [Next]_vars => [Promise!Next]_(Promise!purchasesVars)
  <2> SUFFICES ASSUME StagesOK, ChainOK, [Next]_vars
               PROVE  [Promise!Next]_(Promise!purchasesVars)
    OBVIOUS
  <2>0. ASSUME UNCHANGED api PROVE told' = told
    BY <2>0 DEF Told
  <2>1. CASE UNCHANGED <<api, rows>>
    BY <2>0, <2>1 DEF Promise!purchasesVars
  <2>2. ASSUME NEW k \in Checkouts, Arrive(k) PROVE Promise!Ask(k)
    BY <2>2 DEF Arrive, Promise!Ask, Told, StagesOK
  <2>3. ASSUME NEW k \in Checkouts, CallOrder(k) PROVE UNCHANGED told /\ UNCHANGED rows
    BY <2>3 DEF CallOrder, Told, StagesOK
  <2>4. ASSUME NEW k \in Checkouts, Accept(k) PROVE Promise!Accept(k)
    <3>1. rows[k] = 1
      BY <2>4 DEF Accept, ChainOK, Chain
    <3> QED BY <2>4, <3>1 DEF Accept, Promise!Accept, Told, StagesOK
  <2>5. ASSUME NEW k \in Checkouts, Fail(k) PROVE Promise!Refuse({k})
    BY <2>5 DEF Fail, MayGiveUp, Promise!Refuse, Told, StagesOK
  <2>6. ASSUME RestartApi
        PROVE  Promise!Refuse({k \in Checkouts : api[k] \in {"entered", "calling"}})
    BY <2>6 DEF RestartApi, Promise!Refuse, Told, StagesOK
  <2>7. ASSUME NEW k \in Checkouts, Durable(k) PROVE Promise!Charge(k)
    <3>1. rows[k] = 0 /\ api[k] # "idle"
      BY <2>7 DEF Durable, ChainOK, Chain
    <3>2. told[k] # "nothing"
      BY <3>1 DEF Told, StagesOK
    <3>3. rows' = [rows EXCEPT ![k] = 1] /\ UNCHANGED told
      BY <2>0, <2>7, <3>1 DEF Durable
    <3> QED BY <3>1, <3>2, <3>3 DEF Promise!Charge
  <2>8. ASSUME NEW k \in Checkouts,
               EnterOrder(k) \/ CallPayment(k) \/ Create(k) \/ FailOrder(k)
                 \/ EnterPayment(k) \/ RefusePayment(k) \/ Acquire(k) \/ Insert(k) \/ FailInsert(k)
                 \/ Commit(k) \/ Stored(k) \/ FailCommit(k) \/ Abort(k)
                 \/ Cache(k) \/ FailCache(k) \/ Expire(k)
        PROVE  UNCHANGED <<api, rows>>
    BY <2>8 DEF EnterOrder, CallPayment, Create, FailOrder, EnterPayment, RefusePayment, Acquire,
                Insert, FailInsert, Commit, Stored, FailCommit, Abort, Cache, FailCache, Expire
  <2>9. CASE RestartOrder \/ RestartPayment \/ Start \/ UNCHANGED vars
    BY <2>1, <2>9 DEF RestartOrder, RestartPayment, Start
  <2>10. \A some \in SUBSET Checkouts : Promise!Refuse(some) => Promise!Next
    BY DEF Promise!Next
  <2>11. \A k \in Checkouts : Promise!Ask(k) \/ Promise!Charge(k) \/ Promise!Accept(k)
                                => Promise!Next
    BY DEF Promise!Next
  <2> QED BY <2>1, <2>2, <2>3, <2>4, <2>5, <2>6, <2>7, <2>8, <2>9, <2>10, <2>11
          DEF Next, Promise!purchasesVars
<1> QED BY <1>1, <1>2, ChainTheorem, PTL DEF Spec, ImplementsPurchases, Promise!Spec
===============================================================================
