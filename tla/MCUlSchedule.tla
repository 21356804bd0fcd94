---------------------------- MODULE MCUlSchedule ----------------------------
EXTENDS UlSchedule, TLC

Symmetry == Permutations(Slot)
=============================================================================
