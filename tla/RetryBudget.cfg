SPECIFICATION BudgetSpec
CONSTANTS
  Loads = {l1, l2, l3}
  LoadAttempts = 2
  Concurrencies = {2, 3}
  PerRequestTimeout = 2
  RetryDelayCap = 3
  IpEchoTimeout = 1
  ReopenLimit = 1
  ReopenTime = 1
  ExplicitBudgets = {0, 1, 6}
SYMMETRY AnyLoadOrder
CHECK_DEADLOCK FALSE
INVARIANTS
  NoSpacingShortened
  NoRequestCut
  EveryAttemptIsMade
