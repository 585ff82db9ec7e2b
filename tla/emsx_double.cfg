CONSTANTS
  MaxBar = 2
  PipelineKeys <- MCKeys
  Targets <- MCLong
  MaxOrderQty = 3
  MaxPosition = 3
  MaxDeliveries = 2
  MaxCrashes = 0
  MaxRaises = 0
  Threads = {"bus", "subs"}
  MaxOrders = 2
  Conducts <- MCOrderly
SPECIFICATION Spec
INVARIANTS
  WithinTarget
CHECK_DEADLOCK FALSE
