CONSTANTS
  Crntis = {a, b, c}
  MaxFsm = 3
  MaxClose = 1
  MaxPending = 2
SPECIFICATION Spec
INVARIANTS
  OneMachineEach
  EventFindsItsMachine
CHECK_DEADLOCK FALSE
