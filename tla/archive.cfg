CONSTANTS
  MaxMessages = 3
  BufferSize = 2
  MaxFlaps = 3
  MaxLives = 2
  Conducts <- MCConducts
SPECIFICATION FairSpec
INVARIANTS
  BufferedInOrder
  IndexFollowsWal
  AckedIsHeld
PROPERTIES
  DrainEnds
CHECK_DEADLOCK FALSE
