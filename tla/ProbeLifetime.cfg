SPECIFICATION FairSpec
CONSTANTS
  Targets = 2
  StreamCount = 2
  StreamBytes = 2
  ReopenLimit = 1
CHECK_DEADLOCK FALSE
INVARIANTS
  SampleIsHonest
  ProbeLeavesNothing
PROPERTIES
  ProbeReturns
