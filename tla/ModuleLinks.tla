----------------------------- MODULE ModuleLinks -----------------------------
(* What the runtime of fsmcore.c promises to the modules of a stack: whatever  *)
(* one sends another, as a packet or as an ioctl, is handled once, a module    *)
(* handles one thing at a time, and what went by an ordered line is handled    *)
(* in the order in which it was sent.                                          *)
EXTENDS Naturals, Sequences, SequencesExt

CONSTANTS Line, Module

VARIABLES
  ordered, \* the lines that keep the order
  sent,    \* how much was sent on each line
  begun,   \* what each line's receivers have begun to handle, in that order
  busy     \* which modules are handling something

Init ==
  /\ ordered \subseteq Line
  /\ sent = [l \in Line |-> 0]
  /\ begun = [l \in Line |-> <<>>]
  /\ busy = [m \in Module |-> FALSE]

Send(l) ==
  /\ sent' = [sent EXCEPT ![l] = @ + 1]
  /\ UNCHANGED <<ordered, begun, busy>>

\* Module m takes the n-th thing sent on a line.
Begin(m, l, n) ==
  /\ ~busy[m] /\ busy' = [busy EXCEPT ![m] = TRUE]
  /\ ~Contains(begun[l], n)
  /\ l \in ordered => n = Len(begun[l]) + 1
  /\ begun' = [begun EXCEPT ![l] = Append(@, n)]
  /\ UNCHANGED <<ordered, sent>>

\* An event, or a call from user space.
Other(m) ==
  /\ ~busy[m] /\ busy' = [busy EXCEPT ![m] = TRUE]
  /\ UNCHANGED <<ordered, sent, begun>>

End(m) ==
  /\ busy[m] /\ busy' = [busy EXCEPT ![m] = FALSE]
  /\ UNCHANGED <<ordered, sent, begun>>

Next ==
  \/ \E l \in Line : Send(l)
  \/ \E m \in Module, l \in Line : \E n \in 1..sent[l] : Begin(m, l, n)
  \/ \E m \in Module : Other(m) \/ End(m)

Spec == Init /\ [][Next]_<<ordered, sent, begun, busy>>
=============================================================================
