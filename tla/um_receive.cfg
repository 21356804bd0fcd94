CONSTANTS
  W = 8
  MaxSent = 44
  Gap = 1
  Behind = 1
  Pace = 2
SPECIFICATION Spec
INVARIANTS
  HeldBriefly
  DroppedIsLate
PROPERTIES
  ImplementsService
  NotLeaked
CHECK_DEADLOCK FALSE
