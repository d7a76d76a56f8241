SPECIFICATION FairSpec
CONSTANTS
  Loads = {l1, l2}
  ReopenLimit = 1
CHECK_DEADLOCK FALSE
PROPERTIES
  EveryAskIsAnswered
  CloseReturns
