SPECIFICATION FairSpec
CONSTANTS
  PreambleMax = 1
  MaxOutstanding = 3
INVARIANTS
  WayOut
  ExpiryComes
  ConnectedIsClean
PROPERTIES
  AttemptEnds
CHECK_DEADLOCK FALSE
