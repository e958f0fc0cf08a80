SPECIFICATION FairSpec
CONSTANTS
  k1 = k1
  k2 = k2
  t1 = t1
  t2 = t2
  Tokens = {t1, t2}
  Conns = {k1, k2}
  Requests <- MixedRequests
  Routes <- SomeRoutes
  Addrs = {"origin", "imds"}
  Metadata = {"imds"}
  Budget = 3
  MaxRequest = 2
  MaxChunk = 2
CHECK_DEADLOCK FALSE
INVARIANTS
  BudgetHolds
  EgressPermitted
PROPERTIES
  RevokedConnectionsEnd
