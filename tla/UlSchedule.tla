----------------------------- MODULE UlSchedule -----------------------------
(***************************************************************************)
(* When the base station's MAC gives uplink grants.  The event               *)
(* GET_SUBFRAME_NO checks the subframe number, grants if the subframe is 3   *)
(* or 8, and posts itself again 3 ms later; what starts it is an uplink       *)
(* packet, every uplink packet.  There is one handle for all these events,    *)
(* the last one's, and a check cancels what the handle names.                 *)
(*                                                                           *)
(* Time goes in subframes of 1 ms.  An event is handled in the subframe it   *)
(* falls due, as EventService promises.                                      *)
(***************************************************************************)
EXTENDS Integers, FiniteSets, SequencesExt

CONSTANTS
  Slot,       \* addresses of events, as many as the model needs
  NoSlot,     \* the handle before there was any
  MaxRate,    \* bound on the uplink packets in a subframe
  MaxCalm     \* where the histories of time stop counting

ASSUME SlotAssumption == NoSlot \notin Slot
ASSUME BoundsAssumption == MaxRate \in Nat /\ MaxCalm \in Nat

VARIABLES
  subframe,   \* export_subframeNo
  queued,     \* checks not expired, the next one first: [slot, left], left in ms
  due,        \* those expired and not handled, the one being handled included
  check_subframe_no,   \* the handle
  packets,    \* packets in this subframe
  fed,        \* history: a packet came since the device was opened
  calm,       \* history: subframes since the last packet
  barren      \* history: subframes since the last grants, or the last packet

vars == <<subframe, queued, due, check_subframe_no, packets, fed, calm, barren>>

Init ==
  /\ subframe = 0 /\ queued = <<>> /\ due = <<>>
  /\ check_subframe_no = NoSlot
  /\ packets = 0 /\ fed = FALSE /\ calm = 0 /\ barren = 0

-----------------------------------------------------------------------------
Slots(queue) == {queue[i].slot : i \in DOMAIN queue}
Pending == Slots(queued) \cup ToSet(due)

\* fsm_schedule_self. An event of a packet may fall due before or after another
\* of the same subframe, as the packet comes at any instant.
Places(queue, delay) ==
  {i \in 1 .. Len(queue) + 1 :
     /\ \A j \in 1 .. i - 1 : queue[j].left <= delay
     /\ \A j \in i .. Len(queue) : queue[j].left >= delay}

Schedules(queue, delay) ==
  \E slot \in Slot \ (Slots(queue) \cup ToSet(due)) : \E i \in Places(queue, delay) :
    /\ queued' = InsertAt(queue, i, [slot |-> slot, left |-> delay])
    /\ check_subframe_no' = slot

\* A bound on the packets that keeps an address for the next check.
Bound == packets < MaxRate /\ Cardinality(Pending) + 1 < Cardinality(Slot)

\* MAC_PK_FROM_LOWER of idle_default_handler.
MutPacketFromLower ==
  /\ Bound /\ packets' = packets + 1
  /\ IF check_subframe_no = NoSlot THEN Schedules(queued, 1)
     ELSE UNCHANGED <<queued, check_subframe_no>>
  /\ fed' = TRUE /\ calm' = 0 /\ barren' = 0
  /\ UNCHANGED <<subframe, due>>
PacketFromLower ==
  /\ Bound /\ packets' = packets + 1
  /\ Schedules(queued, 1)
  /\ fed' = TRUE /\ calm' = 0 /\ barren' = 0
  /\ UNCHANGED <<subframe, due>>

\* fsm_schedule_cancel fails for an event that has expired.
MutCancelled(queue) == queue
Cancelled(queue) ==
  IF check_subframe_no \in Slots(queue)
  THEN RemoveAt(queue, CHOOSE i \in DOMAIN queue : queue[i].slot = check_subframe_no)
  ELSE queue

MutPeriod == 5
Period == 3

\* CHECK_UL_SUBFRAME of idle_default_handler, and whether it calls ul_schedule.
Grants == subframe \in {3, 8}
CheckUlSubframe ==
  /\ due # <<>> /\ due' = Tail(due)
  /\ Schedules(Cancelled(queued), Period)
  /\ barren' = IF Grants THEN 0 ELSE barren
  /\ UNCHANGED <<subframe, packets, fed, calm>>

Expire ==
  /\ queued # <<>> /\ Head(queued).left = 0
  /\ queued' = Tail(queued) /\ due' = Append(due, Head(queued).slot)
  /\ UNCHANGED <<subframe, check_subframe_no, packets, fed, calm, barren>>

Later(n) == IF n < MaxCalm THEN n + 1 ELSE n

\* test_send_sf of the virtual SRIO.
Tick ==
  /\ due = <<>> /\ (queued # <<>> => Head(queued).left > 0)
  /\ subframe' = (subframe + 1) % 10
  /\ queued' = [i \in DOMAIN queued |-> [queued[i] EXCEPT !.left = @ - 1]]
  /\ packets' = 0 /\ calm' = Later(calm) /\ barren' = Later(barren)
  /\ UNCHANGED <<due, check_subframe_no, fed>>

\* The device is closed and opened: what was to come is forgotten, the handle not.
Reopen ==
  /\ queued' = <<>> /\ due' = <<>> /\ fed' = FALSE /\ calm' = 0 /\ barren' = 0
  /\ UNCHANGED <<subframe, check_subframe_no, packets>>

Next == PacketFromLower \/ CheckUlSubframe \/ Expire \/ Tick \/ Reopen

Spec == Init /\ [][Next]_vars

-----------------------------------------------------------------------------
\* Once a packet has come a check is always to come, and the handle names one:
\* packets overwrite it, checks cancel what it names whether that has expired or
\* not, and memory is used again (rlc_macfsm.c:350, 383).
CheckComes == fed => check_subframe_no \in Pending

\* However many checks a burst of packets has started, each posting itself
\* anew, one is left soon after it.
OneChain == calm >= 4 => Len(queued) + Len(due) <= 1

\* A terminal sends when granted.  However a burst has left the checks, grants
\* come at least every 15 ms from then on, so the cell does not fall silent for good
\* (rlc_macfsm.c:380).
GrantsComeAgain == fed => barren <= 15
=============================================================================
