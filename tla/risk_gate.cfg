CONSTANTS
  o1 = o1
  o2 = o2
  o3 = o3
  Orders <- MCOrders
  Qty <- MCQty
  LimitPrice <- MCLimitPrice
  MaxPosition = 3
  MaxNotional = 3
  MaxVol = 1
  MarginBuffer = 1
  Window = 2
  Threshold = 2
  NoPrice = NoPrice
  NoOrder = NoOrder
  Rejection = Rejection
  Prices = {1}
  Vols = {2}
  Margins = {3}
  Conducts <- MCConducts
  MaxClock = 2
  MaxNews = 3
  MaxToggles = 1
SPECIFICATION FairSpec
INVARIANTS
  KillSwitchHolds
  PositionWithinLimitSpaced
  SpikesAnnouncedOnce
PROPERTIES
  EveryOrderDecided
CHECK_DEADLOCK FALSE
