CONSTANTS
  Known <- MCKnown
  Strangers = {"strategy"}
  HeartbeatTimeout = 1
  DeadTimeout = 2
  MaxRestarts = 2
  MaxStops = 1
  MaxSwallows = 2
  MayFail = {TRUE, FALSE}
SPECIFICATION FairSpec
INVARIANTS
  OnlySilencedIsDown
  RestartBudget
PROPERTIES
  DeclaredDead
  BudgetComesBack
CHECK_DEADLOCK FALSE
