CONSTANTS
  Runners = {r1, r2, r3}
  Keys = {k1, k2}
  None = None
SPECIFICATION Spec
INVARIANTS
  AtMostOneLive
PROPERTIES
  DeadStaysDead
CHECK_DEADLOCK FALSE
