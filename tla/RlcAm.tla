-------------------------------- MODULE RlcAm --------------------------------
(***************************************************************************)
(* One direction of a bearer in acknowledged mode: the transmitter with its  *)
(* window, its poll timer and the units it keeps, the channel, and the        *)
(* receiver with its window, its reordering timer and its status units.      *)
(* One SDU per unit; RlcUmSegment has the cutting and joining.               *)
(*                                                                           *)
(* The handler of a received status returns before it looks at it (arq.c:615),*)
(* so vt_a and vt_ms stay what PCRLC_BULID_REQ made them.                    *)
(***************************************************************************)
EXTENDS Integers, FiniteSets, SequencesExt

CONSTANTS
  W,                 \* AM_WINDOW_SIZE; numbers are modulo 2 * W
  pollPDU,           \* units between polls
  maxRetxThreshold,
  Behind,            \* how far a unit may fall behind the newest one on the air
  MaxStatus          \* bound on the status units that wait

ASSUME WAssumption == W \in Nat /\ W > 0
ASSUME ParameterAssumption == pollPDU \in Nat /\ maxRetxThreshold \in Nat /\ Behind \in Nat /\ MaxStatus \in Nat

M == 2 * W
SN == 0 .. M - 1
Timer == {"off", "runs", "due"}
Status == [ACK_SN : SN, NACKs : SUBSET SN]

VARIABLES
  vt_s,            \* next number; SN, the counter of rlc_AM_segment, goes along
  transmitted,     \* amTransmittedBuffer: the numbers kept
  retx,            \* amRetxBuffer
  retxCount,       \* of each unit kept
  sincePoll,       \* pduWithoutPoll
  pollRetxTimer, pollStray,
  oops,            \* a pointer that was never assigned has been used
  air,             \* units under way
  window,          \* amRecvWindow: the numbers stored
  vr_r, vr_mr, vr_h, vr_ms, vr_x,
  reorderTimer, reorderStray,
  statProhTimer,   \* runs or not; nothing cancels it
  statFlag,
  ctrlPdus,        \* ctrlPduBuffer
  acked,           \* history: the greatest ACK_SN the transmitter has been told
  abandoned,       \* history: units the transmitter gave up
  handed           \* history: what the last step handed to reassembly

sender == <<vt_s, transmitted, retx, retxCount, sincePoll, pollRetxTimer, pollStray, oops, acked, abandoned>>
receiver == <<window, vr_r, vr_mr, vr_h, vr_ms, vr_x, reorderTimer, reorderStray, statProhTimer, statFlag, ctrlPdus>>
vars == <<sender, air, receiver, handed>>

Init ==
  /\ vt_s = 0 /\ transmitted = {} /\ retx = {} /\ retxCount = [n \in SN |-> -1]
  /\ sincePoll = 0 /\ pollRetxTimer = "off" /\ pollStray = 0 /\ oops = FALSE
  /\ air = {}
  /\ window = {} /\ vr_r = 0 /\ vr_mr = W /\ vr_h = 0 /\ vr_ms = 0 /\ vr_x = 0
  /\ reorderTimer = "off" /\ reorderStray = 0
  /\ statProhTimer = FALSE /\ statFlag = FALSE /\ ctrlPdus = <<>>
  /\ acked = 0 /\ abandoned = {} /\ handed = <<>>

\* A cancelled timer whose event is already queued leaves that event to come.
Leaves(timer) == IF timer = "due" THEN 1 ELSE 0

-----------------------------------------------------------------------------
(* The transmitter.                                                          *)

vt_a == 0
vt_ms == W
isInsideTranWin(n) == (n - vt_a) % M < (vt_ms - vt_a) % M

rlc_poll ==
  /\ pollRetxTimer' = "runs"
  /\ pollStray' = pollStray + Leaves(pollRetxTimer)

\* MAC gives an opportunity for what is queued.  A unit on the list of
\* retransmissions has no segment to send, and rlc_resegment returns nothing
\* for it, which the caller takes for a packet.
Retransmit ==
  /\ ~oops /\ \E n \in retx : isInsideTranWin(n)
  /\ oops' = TRUE /\ handed' = <<>>
  /\ UNCHANGED <<vt_s, transmitted, retx, retxCount, sincePoll, pollRetxTimer, pollStray,
                 acked, abandoned, air, receiver>>

Transmit ==
  /\ ~oops /\ isInsideTranWin(vt_s)
  /\ vt_s' = (vt_s + 1) % M
  /\ transmitted' = transmitted \cup {vt_s}
  /\ retxCount' = [retxCount EXCEPT ![vt_s] = -1]
  /\ air' = {u \in air : u >= vt_s - Behind} \cup {vt_s}
  /\ IF sincePoll >= pollPDU
     THEN sincePoll' = 1 /\ rlc_poll
     ELSE sincePoll' = sincePoll + 1 /\ UNCHANGED <<pollRetxTimer, pollStray>>
  /\ handed' = <<>>
  /\ UNCHANGED <<retx, oops, acked, abandoned, receiver>>

PollExpires ==
  /\ ~oops /\ pollRetxTimer = "runs" /\ pollRetxTimer' = "due" /\ handed' = <<>>
  /\ UNCHANGED <<vt_s, transmitted, retx, retxCount, sincePoll, pollStray, oops, acked, abandoned,
                 air, receiver>>

\* case POLL_RETX and rlc_poll_retx: only the newest unit is looked for.  Its
\* event, of a timer that runs or of a cancelled one, clears the handle first.
Polled == vt_s - 1
MutCount == 0
Count == retxCount[Polled] + 1
RetxAfter == IF Count = maxRetxThreshold THEN retx \ {Polled} ELSE retx \cup {Polled}
\* rlc_retx moves the unit to the retransmissions and leaves a copy.
MutTransmittedAfter == transmitted \ {Polled}
TransmittedAfter == IF Count = maxRetxThreshold THEN transmitted \ {Polled} ELSE transmitted

poll_retx ==
  LET otherEvents == pollStray - 1 + IF pollRetxTimer = "runs" THEN 1 ELSE 0
      again == Count # maxRetxThreshold
  IN /\ ~oops /\ (pollRetxTimer = "due" \/ pollStray > 0)
     /\ pollStray' = IF pollRetxTimer = "due" THEN pollStray ELSE otherEvents
     /\ IF Polled \in transmitted
        THEN /\ retxCount' = [retxCount EXCEPT ![Polled] = Count]
             /\ transmitted' = TransmittedAfter
             /\ retx' = RetxAfter
             /\ abandoned' = IF again THEN abandoned ELSE abandoned \cup {Polled}
             /\ pollRetxTimer' = IF again THEN "runs" ELSE "off"
             /\ sincePoll' = IF again THEN 0 ELSE sincePoll
        ELSE pollRetxTimer' = "off" /\ UNCHANGED <<retxCount, transmitted, retx, abandoned, sincePoll>>
     /\ handed' = <<>>
     /\ UNCHANGED <<vt_s, oops, acked, air, receiver>>

Lose ==
  /\ \E u \in air : air' = air \ {u}
  /\ handed' = <<>>
  /\ UNCHANGED <<sender, receiver>>

-----------------------------------------------------------------------------
(* The receiver.                                                             *)

\* The air may deliver a unit that it delivers again later.
Arrives(u) == air' \in {air, air \ {u}}

isInsideAmRecvWin(n, r, mr) == (n - r) % M < (mr - r) % M

\* The first number from n on that is not stored.
MutFirstMissing(n, win) ==
  LET f == CHOOSE k \in 0 .. M : (n + k) % M \notin win /\ \A j \in 0 .. k - 1 : (n + j) % M \in win
  IN IF f = 0 THEN n ELSE (n + f + 1) % M
FirstMissing(n, win) ==
  (n + CHOOSE k \in 0 .. M :
         /\ k = M \/ (n + k) % M \notin win
         /\ \A j \in 0 .. k - 1 : (n + j) % M \in win) % M

\* The stored units rlc_AM_reassemble_deliver visits, and its order.
Visited(win, h, r) == {n \in win : (n - h - 1) % M < (r - h - 1) % M}
Walk(units, h) ==
  CHOOSE s \in [1 .. Cardinality(units) -> units] :
    \A i, j \in DOMAIN s : i < j => (s[i] - h - 1) % M < (s[j] - h - 1) % M
Deliver(win, h, r) ==
  /\ handed' = Walk(Visited(win, h, r), h)
  /\ window' = win \ Visited(win, h, r)

Drop ==
  \E u \in air :
    /\ ~isInsideAmRecvWin(u, vr_r, vr_mr) \/ u \in window
    /\ Arrives(u)
    /\ handed' = <<>>
    /\ UNCHANGED <<sender, receiver>>

MovedH(u) == IF u >= vr_h \/ u <= vr_h - W THEN (u + 1) % M ELSE vr_h

\* The test for the window is on the number that came, not on vr_x.
StopsReorder(u, r, mr) ==
  reorderTimer # "off" /\ (vr_x = r \/ (~isInsideAmRecvWin(u, r, mr) /\ vr_x # mr))

SetReorderTimer(u, h, r, mr) ==
  LET stop == StopsReorder(u, r, mr)
      start == (stop \/ reorderTimer = "off") /\ (h > r \/ h < r - W)
  IN /\ reorderTimer' = IF start THEN "runs" ELSE IF stop THEN "off" ELSE reorderTimer
     /\ reorderStray' = reorderStray + IF stop THEN Leaves(reorderTimer) ELSE 0
     /\ vr_x' = IF start THEN h ELSE vr_x

\* rlc_AM_pkt_receive_from_mac for a unit it keeps.  Every unit polls.
Receive ==
  \E u \in air :
    LET win == window \cup {u} IN
    /\ isInsideAmRecvWin(u, vr_r, vr_mr) /\ u \notin window
    /\ Arrives(u)
    /\ vr_h' = MovedH(u)
    /\ vr_ms' = FirstMissing(vr_ms, win)
    /\ vr_r' = FirstMissing(vr_r, win)
    /\ vr_mr' = IF vr_r \in win THEN (vr_r' + W) % M ELSE vr_mr
    /\ IF vr_r \in win THEN Deliver(win, vr_h', vr_r') ELSE window' = win /\ handed' = <<>>
    /\ SetReorderTimer(u, vr_h', vr_r', vr_mr')
    /\ statFlag' = (statFlag \/ ~statProhTimer)
    /\ statProhTimer' = TRUE
    /\ UNCHANGED <<sender, ctrlPdus>>

ReorderExpires ==
  /\ reorderTimer = "runs" /\ reorderTimer' = "due" /\ handed' = <<>>
  /\ UNCHANGED <<sender, air, window, vr_r, vr_mr, vr_h, vr_ms, vr_x, reorderStray,
                 statProhTimer, statFlag, ctrlPdus>>

\* case AM_REORDER: a status is wanted if a unit below the old vr_ms misses.
\* vr_ms goes to vr_x and stays there: the loop behind it passes over units that
\* are stored in part, and units here are whole.
AmReorder ==
  LET wanted == \E n \in vr_r .. vr_ms - 1 : n \notin window
      stray == IF reorderTimer = "due" THEN reorderStray
               ELSE reorderStray - 1 + IF reorderTimer = "runs" THEN 1 ELSE 0
  IN /\ reorderTimer = "due" \/ reorderStray > 0
     /\ reorderStray' = stray
     /\ statFlag' = (statFlag \/ wanted)
     /\ statProhTimer' = (statProhTimer \/ wanted)
     /\ vr_ms' = vr_x
     /\ Deliver(window, vr_h, vr_r)
     /\ IF vr_h > vr_x THEN reorderTimer' = "runs" /\ vr_x' = vr_h ELSE reorderTimer' = "off" /\ vr_x' = vr_x
     /\ UNCHANGED <<sender, air, vr_r, vr_mr, vr_h, ctrlPdus>>

\* case STAT_PRO; rlc_ctrl_pkt_trans lists what misses only when size_of_ctrl_pdu
\* has counted room for it.
MutStatusNow ==
  [ACK_SN |-> vr_h, NACKs |-> IF vr_r < vr_h - 1 THEN (vr_r .. vr_ms - 1) \ window ELSE {}]
StatusNow ==
  [ACK_SN |-> vr_ms, NACKs |-> IF vr_r < vr_h - 1 THEN (vr_r .. vr_ms - 1) \ window ELSE {}]

StatPro ==
  /\ statProhTimer /\ statProhTimer' = FALSE
  /\ Len(ctrlPdus) < MaxStatus
  /\ ctrlPdus' = IF statFlag THEN Append(ctrlPdus, StatusNow) ELSE ctrlPdus
  /\ statFlag' = FALSE /\ handed' = <<>>
  /\ UNCHANGED <<sender, air, window, vr_r, vr_mr, vr_h, vr_ms, vr_x, reorderTimer, reorderStray>>

\* The receiver's own opportunity: the first status units that fit are sent, and
\* reach the transmitter or are lost; there rlc_ctrl_pkt_recv does nothing.
TransmitStatus ==
  \E k \in 0 .. Len(ctrlPdus) :
    /\ ctrlPdus # <<>>
    /\ ctrlPdus' = SubSeq(ctrlPdus, k + 1, Len(ctrlPdus))
    /\ statProhTimer' = TRUE
    /\ \/ acked' = acked
       \/ k > 0 /\ ~oops /\ acked' = IF ctrlPdus[k].ACK_SN > acked THEN ctrlPdus[k].ACK_SN ELSE acked
    /\ handed' = <<>>
    /\ UNCHANGED <<vt_s, transmitted, retx, retxCount, sincePoll, pollRetxTimer, pollStray, oops, abandoned,
                   air, window, vr_r, vr_mr, vr_h, vr_ms, vr_x, reorderTimer, reorderStray, statFlag>>

Next ==
  \/ Retransmit \/ Transmit \/ PollExpires \/ poll_retx \/ Lose
  \/ Drop \/ Receive \/ ReorderExpires \/ AmReorder \/ StatPro \/ TransmitStatus

Fairness == WF_vars(PollExpires) /\ WF_vars(poll_retx)
Spec == Init /\ [][Next]_vars /\ Fairness

-----------------------------------------------------------------------------
\* Whatever is lost or overtaken and whichever timer expires late, units reach
\* reassembly in the order of sending, without gap or repetition.
Service == INSTANCE RlcService WITH
  Lossless <- TRUE, sent <- vt_s, next <- vr_r, out <- handed
ImplementsService == Service!Spec

\* A status never acknowledges a unit that has not arrived, although vr_ms is
\* moved by three handlers and goes back at times (arq.c:138, rlc_macfsm.c:501).
StatusIsTrue ==
  \A s \in ToSet(ctrlPdus) : \A n \in 0 .. s.ACK_SN - 1 : n \in s.NACKs \/ n < vr_r \/ n \in window

\* The transmitter keeps every unit it sent until it gives that unit up, however
\* often it moves between the lists (arq.c:876).
Kept == 0 .. vt_s - 1 \subseteq transmitted \cup abandoned

\* Retries end: with no answer ever, the poll timer stops for good (or the
\* bearer has met the unassigned pointer), since each expiry counts (arq.c:721).
RetryEnds == <>[](pollRetxTimer = "off" /\ pollStray = 0) \/ <>oops

\* The description of ack_handler (arq.c:269), "Remove the PDUs whose sn < ackSn
\* in the amTransmittedBuffer and amRetxBuffer", of a status that arrived.
AckedIsRemoved == \A n \in transmitted : n >= acked

\* The comment at rlc_macfsm.c:500: when the reordering timer expires, vr_ms
\* becomes the first number not below vr_x that has not been received wholly.
VmsIsMissing == [][AmReorder /\ reorderTimer = "due" => vr_ms' \notin window]_vars
=============================================================================
