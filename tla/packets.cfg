SPECIFICATION FairSpec
CONSTANTS
  c1 = c1
  c2 = c2
  Cpu = {c1, c2}
  None = None
  mac = mac
  rrc = rrc
  Module <- Stack
  Line <- AllLines
  MaxItem = 2
  Setup <- Setups
CHECK_DEADLOCK FALSE
INVARIANTS
  Awake
  IndicationFirst
PROPERTIES
  ImplementsLinks
  Handled
