SPECIFICATION FairSpec
CONSTANTS
  Providers = {p1, p2}
  MaxBatch = 2
  Concurrencies = {1, 2}
  CacheTtl = 1
  MaxPasses = 2
  MaxNow = 1
CHECK_DEADLOCK FALSE
INVARIANTS
  OneTunnelPerProvider
  PassLeavesNothing
  EveryAttemptIsReported
PROPERTIES
  CacheHolds
  PassReturns
