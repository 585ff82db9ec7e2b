CONSTANTS
  Hour = 4
  NoPrice = NoPrice
  NoBar = NoBar
  Unset = Unset
  MaxTicks = 5
  BatchSize = 2
  FastPeriod = 2
  SlowPeriod = 3
  Entry = 0
  BaseQty = 2
  MaxTarget = 1
  Conducts <- MCConducts
SPECIFICATION FeedSpec
INVARIANTS
  BarsAreReference
  HandledInOrder
  LostStaysPending
  LiveIsBacktest
CHECK_DEADLOCK FALSE
