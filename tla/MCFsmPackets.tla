---------------------------- MODULE MCFsmPackets -----------------------------
(* The lines between the base station's MAC and RRC that carry a connection    *)
(* request: the packet comes in to MAC, MAC tells RRC by ioctl and passes the  *)
(* request up, RRC answers down.                                               *)
EXTENDS FsmPackets

CONSTANTS mac, rrc, c1, c2

Stack == {mac, rrc}

Wires  == {[of |-> None, by |-> "wire", to |-> {mac}]}
Ups    == {[of |-> mac, by |-> "rx", to |-> {rrc}]}
Ioctls == {[of |-> mac, by |-> "ioctl", to |-> {rrc}]}
Downs  == {[of |-> rrc, by |-> "tx", to |-> {mac}]}

AllLines == Wires \cup Ups \cup Ioctls \cup Downs

\* One CPU with every line; two CPUs with what goes up.
Setups ==
  {[cpus |-> {c1},
    most |-> [l \in AllLines |-> IF l \in Ups \cup Ioctls THEN 2 ELSE 1]],
   [cpus |-> {c1, c2},
    most |-> [l \in AllLines |-> IF l \in Ups \cup Ioctls THEN 2 ELSE 0]]}
=============================================================================
