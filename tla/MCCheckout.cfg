SPECIFICATION FairSpec
CONSTANTS
  Checkouts = {k1, k2}
  PoolSize = 1
INVARIANT
  TypeOK
  ConnectionsAccounted
  CacheAfterCommit
PROPERTY
  CheckoutAnswered
  PoolDrains
  ImplementsPurchases
CHECK_DEADLOCK FALSE
