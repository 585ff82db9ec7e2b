CONSTANTS
  Prices = {1, 3}
  PointValue = 2
  MaxMinute = 4
  MaxRate = 2
  Window = 1
  None = None
  Conducts <- MCConducts
SPECIFICATION Spec
INVARIANTS
  ProfitIsMarkedCash
  TrippedStopsOrders
  OneOrderPerBar
  BooksAgree
  BreakMeansMissingFill
CHECK_DEADLOCK FALSE
