SPECIFICATION Spec
CONSTANTS
  Targets = 1
  StreamCount = 1
  StreamBytes = 1
  ReopenLimit = 1
CHECK_DEADLOCK FALSE
INVARIANTS
  SampleRidesALiveTunnel
