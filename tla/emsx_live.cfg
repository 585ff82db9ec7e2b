CONSTANTS
  MaxBar = 2
  PipelineKeys <- MCKeys
  Targets <- MCLong
  MaxOrderQty = 2
  MaxPosition = 3
  MaxDeliveries = 2
  MaxCrashes = 0
  MaxRaises = 1
  Threads = {"bus", "subs"}
  MaxOrders = 2
  Conducts <- MCAll
SPECIFICATION FairSpec
INVARIANTS
  WorkingMatchesOrderly
  StoredPositionCurrent
  SpacedWithinTarget
PROPERTIES
  FillsReachBook
CHECK_DEADLOCK FALSE
