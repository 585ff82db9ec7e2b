CONSTANTS
  Orders = {o1}
  Amount = 3
  MaxBatch = 2
  MaxRepeats = 1
  Envs <- MCAny
  MaxCrashes = 1
SPECIFICATION GatewaySpec
INVARIANTS
  IncrementsAddUpOrderly
  NothingReportedTwice
CHECK_DEADLOCK FALSE
