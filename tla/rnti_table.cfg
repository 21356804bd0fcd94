CONSTANTS
  NumRnti = 3
  MaxRa = 2
SPECIFICATION FairSpec
PROPERTIES
  ImplementsPool
  TempIsTemporary
