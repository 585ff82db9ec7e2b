CONSTANTS
  MaxMessages = 3
  XreadCount = 2
  PendingLimit = 3
  MaxCrashes = 2
  Settings <- MCAny
  MaxExpiries = 1
SPECIFICATION FairSpec
INVARIANTS
  AtMostOncePerKey
  NoSilentDropUnreplayed
PROPERTIES
  EventuallyHandled
  PelDrainsOfOneStream
CHECK_DEADLOCK FALSE
