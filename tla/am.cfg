CONSTANTS
  W = 4
  Behind = 2
  pollPDU = 2
  maxRetxThreshold = 1
  MaxStatus = 1
SPECIFICATION Spec
INVARIANTS
  StatusIsTrue
  Kept
PROPERTIES
  ImplementsService
  RetryEnds
CHECK_DEADLOCK FALSE
