CONSTANTS
  e1 = e1
  e2 = e2
  e3 = e3
  NoSlot = NoSlot
  Slot <- MCSlot
  Delays <- MCDelays
  MaxTime = 2
  MaxClose = 1
  MultiCpu = FALSE
SPECIFICATION FairSpec
INVARIANTS
  OopsOnlyClosed
  TimerServesHead
PROPERTIES
  ClosesQuiet
  ImplementsService
  EventEnds
CHECK_DEADLOCK FALSE
