CONSTANTS
  Slot = {s1, s2, s3, s4, s5, s6, s7}
  NoSlot = NoSlot
  MaxRate = 2
  MaxCalm = 21
SPECIFICATION Spec
SYMMETRY Symmetry
INVARIANTS
  CheckComes
  OneChain
  GrantsComeAgain
