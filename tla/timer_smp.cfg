CONSTANTS
  e1 = e1
  e2 = e2
  e3 = e3
  NoSlot = NoSlot
  Slot <- MCSlot
  Delays <- MCDelays
  MaxTime = 2
  MaxClose = 1
  MultiCpu = TRUE
SPECIFICATION Spec
SYMMETRY Symmetry
INVARIANTS
  NeverEarly
  HandledInOrder
  InOneQueueOnce
PROPERTIES
  FailsOnlyWhenGone
CHECK_DEADLOCK FALSE
