CONSTANTS
  MaxBar = 3
  Targets <- MCTargets
  MaxOrderQty = 3
  MaxPosition = 2
  MaxDeliveries = 4
  MaxCrashes = 2
  MaxRaises = 2
  Threads = {"bus"}
SPECIFICATION Spec
INVARIANTS
  PositionWithinLimit
  TargetReached
  StoredPositionAccounted
CHECK_DEADLOCK FALSE
