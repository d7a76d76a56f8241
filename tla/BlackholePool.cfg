SPECIFICATION FairSpec
CONSTANTS
  Batches = {b1, b2}
  Workers = {w1}
  ProviderCount = 2
  MinimumAdmission = 1
CHECK_DEADLOCK FALSE
INVARIANTS
  EntriesMatchJobs
  NothingOutlivesTheBatch
  CanceledIsNoVerdict
  ReservedChecksAreMade
  NoProviderDroppedUnnoticed
PROPERTIES
  BatchesReturn
