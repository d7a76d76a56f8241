SPECIFICATION FairSpec
CONSTANTS
  Hosts = {h1, h2}
  Addresses = {a1, a2}
  Providers = {p1, p2}
  Limit = 1
  MaxRounds = 2
  MaxVersion = 2
CHECK_DEADLOCK FALSE
INVARIANTS
  TunnelsNeedEvidence
  ExitCodeIsHonest
  SweepingIsGivenUpForAReason
PROPERTIES
  RefusedSecretEndsTheWait
  SweepsEnd
