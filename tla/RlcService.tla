----------------------------- MODULE RlcService -----------------------------
(***************************************************************************)
(* What the RLC of one bearer promises the layer above, seen from the       *)
(* receiver: units come out in the order they went in, none twice; in        *)
(* acknowledged mode none is skipped either.                                  *)
(***************************************************************************)
EXTENDS Integers, Sequences

CONSTANT Lossless   \* TRUE for acknowledged, FALSE for unacknowledged mode

VARIABLES
  sent,   \* units sent, numbered from 0 in that order
  next,   \* one more than the last unit that came out
  out     \* the units that came out in the last step

vars == <<sent, next, out>>

Init == sent = 0 /\ next = 0 /\ out = <<>>

Send == sent' = sent + 1 /\ next' = next /\ out' = <<>>

Deliver ==
  /\ out' # <<>>
  /\ \A i \in DOMAIN out' :
       LET expected == IF i = 1 THEN next ELSE out'[i - 1] + 1
       IN out'[i] >= expected /\ out'[i] < sent /\ (Lossless => out'[i] = expected)
  /\ next' = out'[Len(out')] + 1
  /\ sent' = sent

Quiet == out' = <<>> /\ UNCHANGED <<sent, next>>

Next == Send \/ Deliver \/ Quiet

Spec == Init /\ [][Next]_vars
=============================================================================
