SPECIFICATION FairSpec
CONSTANTS
  WindowClients = {c1, c2}
  Closers = {k1, k2}
CHECK_DEADLOCK FALSE
INVARIANTS
  LossIsReal
  CloseIsComplete
PROPERTIES
  LossIsSignalled
