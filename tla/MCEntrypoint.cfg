SPECIFICATION FairSpec
CONSTANTS
  Codes = {0, 1}
  MaxSignals = 3
INVARIANTS NothingLeft StatusHonest EntryInv
PROPERTIES OneEndsAll StopEnds
CHECK_DEADLOCK FALSE
