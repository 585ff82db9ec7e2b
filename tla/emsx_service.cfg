CONSTANTS
  MaxBar = 2
  PipelineKeys <- MCKeys
  Targets <- MCLong
  MaxOrderQty = 2
  MaxPosition = 2
  MaxDeliveries = 2
  MaxCrashes = 1
  MaxRaises = 1
  Threads = {"bus", "subs"}
  MaxOrders = 2
  Conducts <- MCAny
SPECIFICATION Spec
INVARIANTS
  EveryFillSomewhere
  NothingStranded
  OneOrderPerKey
PROPERTIES
  ImplementsPipeline
CHECK_DEADLOCK FALSE
