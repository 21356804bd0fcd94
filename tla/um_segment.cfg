CONSTANTS
  Mod = 3
  Lengths = {2, 4}
  MaxSdu = 4
  MaxGrant = 9
  MaxMissing = 1
SPECIFICATION UmSpec
INVARIANTS
  WholeInOrder
  ArrivedIsDelivered
  ReportCovers
CHECK_DEADLOCK FALSE
