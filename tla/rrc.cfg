CONSTANTS
  MaxRequests = 2
  MaxReleases = 1
  MaxCommands = 2
SPECIFICATION Spec
INVARIANTS
  T300OfAccess
  EventHasMessage
  NoBearerWhenIdle
  InStep
PROPERTIES
  AccessEnds
CHECK_DEADLOCK FALSE
