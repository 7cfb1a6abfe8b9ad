SPECIFICATION FairSpec
CONSTANTS
  Slots = 2
  MaxLines = 6
INVARIANTS
  NoSlotRace
  NothingUnaccounted
PROPERTIES
  IsAQueue
  StopReturns
CHECK_DEADLOCK FALSE
