SPECIFICATION FairSpec
CONSTANTS
  Loads = {l1, l2}
  LoadAttempts = 2
  Concurrencies = {1, 2}
  ReopenLimit = 1
CHECK_DEADLOCK FALSE
INVARIANTS
  ChargedOnlyOnAStandingTunnel
  TlsFailureIsReported
  VerdictsAreMeasured
PROPERTIES
  RunReports
