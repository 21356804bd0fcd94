----------------------------- MODULE MCFsmTimer -----------------------------
(* Instances of FsmTimer for TLC: three event slots, a clock of a few units,   *)
(* delays that make events expire together, apart and out of posting order.    *)
EXTENDS FsmTimer

CONSTANTS e1, e2, e3

MCSlot   == {e1, e2, e3}
TwoSlots == {e1, e2}
MCDelays == {0, 2}
Symmetry == Permutations(MCSlot)
=============================================================================
