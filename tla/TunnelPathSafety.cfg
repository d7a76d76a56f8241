SPECIFICATION Spec
CONSTANTS
  Loads = {l1, l2}
  ReopenLimit = 2
SYMMETRY AnyLoadOrder
CHECK_DEADLOCK FALSE
INVARIANTS
  OneReopenAtATime
  CloseLeavesNothing
PROPERTIES
  ColdOnlyBehindSecondReopen
  ReplacesOnlyLostTunnels
