------------------------------ MODULE RntiPool ------------------------------
(* What the base station promises of its RNTIs, without notes, flags or        *)
(* packets: an RNTI is free, lent to a terminal for a while, or confirmed. A   *)
(* loan that is confirmed ends by a release only; one that is not lasts at     *)
(* least one whole period and less than two, unless it is withdrawn.           *)
CONSTANT Rnti

VARIABLES
  use,   \* what each RNTI is
  old    \* the loans that were there when the period began

vars == <<use, old>>

Lent(u) == {r \in Rnti : u[r] = "lent"}

Becomes(S, v) == [r \in Rnti |-> IF r \in S THEN v ELSE use[r]]

Init ==
  /\ use = [r \in Rnti |-> "free"]
  /\ old = {}

\* A loan is new: it is never among the old ones.
Lend(S) ==
  /\ \A r \in S : use[r] = "free"
  /\ use' = Becomes(S, "lent")
  /\ UNCHANGED old

Confirm(r) ==
  /\ use[r] = "lent"
  /\ use' = Becomes({r}, "confirmed")
  /\ old' = old \ {r}

Withdraw(S) ==
  /\ S \subseteq Lent(use)
  /\ use' = Becomes(S, "free")
  /\ old' = old \ S

Release(r) ==
  /\ use' = Becomes({r}, "free")
  /\ old' = old \ {r}

\* A period ends: what is old lapses, what is lent grows old.
Period ==
  /\ use' = Becomes(old, "free")
  /\ old' = Lent(use) \ old

Next ==
  \/ \E S \in SUBSET Rnti : Lend(S) \/ Withdraw(S)
  \/ \E r \in Rnti : Confirm(r) \/ Release(r)
  \/ Period

Spec == Init /\ [][Next]_vars
=============================================================================
