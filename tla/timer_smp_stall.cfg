CONSTANTS
  e1 = e1
  e2 = e2
  e3 = e3
  NoSlot = NoSlot
  Slot <- TwoSlots
  Delays <- MCDelays
  MaxTime = 3
  MaxClose = 0
  MultiCpu = TRUE
SPECIFICATION FairSpec
PROPERTIES
  ExpiredIsPended
CHECK_DEADLOCK FALSE
