---------------------------- MODULE RlcUmReceive ----------------------------
(***************************************************************************)
(* The receiver of a bearer in unacknowledged mode: the reception window,   *)
(* the reordering timer, and the order in which units are handed to         *)
(* reassembly.  Numbers of ten bits, the only ones the sender writes; the    *)
(* modulus is 2 * W, where W is 512 in the code.                             *)
(*                                                                           *)
(* A unit is known by its place in the order of sending, 0, 1, 2, ...; on    *)
(* the air it carries that place modulo 2 * W.                               *)
(***************************************************************************)
EXTENDS Integers, Sequences, FiniteSets

CONSTANTS
  W,          \* UM_WINDOW_SIZE10
  MaxSent,    \* bound on the units sent
  Gap,        \* bound on the units missing in a row
  Behind,     \* how far a unit may fall behind the newest one on the air
  Pace        \* bound on the units sent from a start of the reordering timer
              \* until no event of it waits to be handled

ASSUME WAssumption == W \in Nat /\ W > 1
ASSUME BoundsAssumption ==
  MaxSent \in Nat /\ Gap \in Nat /\ Behind \in Nat /\ Pace \in Nat

M == 2 * W
SN == 0 .. M - 1
None == -1
Unit == 0 .. MaxSent - 1

VARIABLES
  sent,       \* units sent so far
  air,        \* those still under way
  vr_ur, vr_uh, vr_ux,   \* numbers, in SN
  window,     \* umRecvWindow10: the unit stored for each number, or None
  timer,      \* reorderTimer: off, running, or due, its event queued
  stray,      \* events of the timer to come whose handle is gone
  top,        \* history: one more than the newest unit that arrived
  since,      \* history: units sent since the timer was started, as Pace counts
  last,       \* history: the last unit handed to reassembly, or None
  disturbed,  \* history: whether something was amiss as the numbers wrapped
  handed      \* history: the units the last step handed to it, in that order

channel == <<sent, air, top, disturbed>>
vars ==
  <<sent, air, top, vr_ur, vr_uh, vr_ux, window, timer, stray, since, last, disturbed, handed>>

Init ==
  /\ sent = 0 /\ air = {} /\ top = 0
  /\ vr_ur = 0 /\ vr_uh = 0 /\ vr_ux = 0
  /\ window = [n \in SN |-> None]
  /\ timer = "off" /\ stray = 0 /\ since = 0
  /\ last = None /\ handed = <<>> /\ disturbed = FALSE

-----------------------------------------------------------------------------
(* The receiver's tests.  Those without % are on plain numbers, in the code  *)
(* too.                                                                      *)

isInsideUmRecvWin(n, uh) == (n - (uh - W)) % M < W
MutisOrderedUm(n) == n < vr_ur
isOrderedUm(n) == (n - (vr_uh - W)) % M < (vr_ur - (vr_uh - W)) % M

MutDropped(n) == (n - vr_ur) % M < (vr_uh - vr_ur) % M /\ window[n] # None
Dropped(n) ==
  \/ (n - vr_ur) % M < (vr_uh - vr_ur) % M /\ window[n] # None
  \/ isOrderedUm(n)

Outside(n) == n >= vr_uh \/ n <= vr_uh - W

MovedUh(n) == IF Outside(n) THEN (n + 1) % M ELSE vr_uh
MovedUr(n) == IF Outside(n) /\ vr_ur < MovedUh(n) - W THEN (MovedUh(n) + W) % M ELSE vr_ur

\* Where a number that starts at r rests when it advances over stored units
\* as long as it lies in the range.
Rest(r, win, range) ==
  LET over(k) == \A i \in 0 .. k - 1 : win[(r + i) % M] # None /\ (r + i) % M \in range
  IN (r + CHOOSE k \in 0 .. M : over(k) /\ (k = M \/ ~over(k + 1))) % M

\* The stored numbers rlc_UM_reassemble_deliver visits, and its order.
Place(n, uh) == (n - uh - 1) % M
Visited(win, uh, ur) == {n \in SN : win[n] # None /\ Place(n, uh) < Place(ur, uh)}
Nth(i, numbers, uh) ==
  CHOOSE n \in numbers : Cardinality({m \in numbers : Place(m, uh) <= Place(n, uh)}) = i

MutDeliver(win, uh, ur) ==
  LET found == Visited(win, uh, ur)
  IN /\ handed' = [i \in 1 .. Cardinality(found) |-> win[Nth(i, found, uh)]]
     /\ last' = IF found = {} THEN last ELSE handed'[Cardinality(found)]
     /\ window' = win

Deliver(win, uh, ur) ==
  LET found == Visited(win, uh, ur)
  IN /\ handed' = [i \in 1 .. Cardinality(found) |-> win[Nth(i, found, uh)]]
     /\ last' = IF found = {} THEN last ELSE handed'[Cardinality(found)]
     /\ window' = [n \in SN |-> IF n \in found THEN None ELSE win[n]]

\* The end of rlc_UM_pkt_receive_from_mac: the timer is cancelled, then started.
\* A cancellation that finds the event queued already leaves it to come.
StopTimer(uh, ur) ==
  /\ timer # "off"
  /\ \/ vr_ux <= ur \/ ur <= vr_ux - W
     \/ ~isInsideUmRecvWin(vr_ux, uh) /\ vr_ux # uh

StartTimer(uh, ur) == uh > ur \/ uh < ur - W

SetTimer(uh, ur) ==
  LET stop == StopTimer(uh, ur)
      start == (stop \/ timer = "off") /\ StartTimer(uh, ur)
  IN /\ timer' = IF start THEN "runs" ELSE IF stop THEN "off" ELSE timer
     /\ stray' = IF stop /\ timer = "due" THEN stray + 1 ELSE stray
     /\ vr_ux' = IF start THEN uh ELSE vr_ux
     /\ since' = IF start THEN 0 ELSE since

-----------------------------------------------------------------------------
\* The sender, and the air: units are lost, and one overtakes others that fell
\* behind.  The sender knows nothing of the receiver; Pace is its rate.
Send ==
  /\ sent < MaxSent
  /\ sent <= top + Gap
  /\ timer # "off" \/ stray > 0 => since < Pace
  /\ sent' = sent + 1
  /\ air' = {u \in air : u >= sent - Behind} \cup {sent}
  /\ since' = IF timer # "off" \/ stray > 0 THEN since + 1 ELSE since
  /\ handed' = <<>>
  /\ UNCHANGED <<top, vr_ur, vr_uh, vr_ux, window, timer, stray, last, disturbed>>

Lose ==
  \E u \in air :
    /\ air' = air \ {u}
    /\ handed' = <<>>
    /\ UNCHANGED <<sent, top, vr_ur, vr_uh, vr_ux, window, timer, stray, since, last, disturbed>>

\* The last numbers before a wrap, so many that a unit missing before them is
\* given up by the time the numbers wrap.
BeforeWrap(v) == v % M >= M - (2 * (Behind + Pace) + 3)

\* It is amiss that a unit sent there has not come when a later one does, or that
\* one comes there while an expiry cancelled in vain is still to be handled.
Disturbs(u) == \E v \in top .. u : BeforeWrap(v) /\ (v # u \/ stray > 0)

Arrives(u) ==
  /\ air' = air \ {u}
  /\ top' = IF u >= top THEN u + 1 ELSE top
  /\ sent' = sent
  /\ disturbed' = (disturbed \/ Disturbs(u))

Drop ==
  \E u \in air :
    /\ Dropped(u % M)
    /\ Arrives(u)
    /\ handed' = <<>>
    /\ UNCHANGED <<vr_ur, vr_uh, vr_ux, window, timer, stray, since, last>>

Receive ==
  \E u \in air :
    LET win == [window EXCEPT ![u % M] = u]
        uh == MovedUh(u % M)
        ur == MovedUr(u % M)
    IN /\ ~Dropped(u % M)
       /\ Arrives(u)
       /\ vr_uh' = uh
       /\ IF win[ur] # None
          THEN /\ vr_ur' = Rest((ur + 1) % M, win, 0 .. uh)
               /\ Deliver(win, uh, vr_ur')
          ELSE /\ vr_ur' = ur /\ window' = win
               /\ handed' = <<>> /\ last' = last
       /\ SetTimer(uh, vr_ur')

Expire ==
  /\ timer = "runs"
  /\ timer' = "due"
  /\ handed' = <<>>
  /\ UNCHANGED <<channel, vr_ur, vr_uh, vr_ux, window, stray, since, last>>

\* case UM_REORDER of idle_default_handler, which clears the handle whichever
\* event came; the event of a handle cleared that way is then a stray.
MutReorder ==
  /\ \/ timer = "due" /\ stray' = stray
     \/ stray > 0 /\ stray' = IF timer = "off" THEN stray - 1 ELSE stray
  /\ timer' = "off"
  /\ vr_ur' = Rest((vr_ux + 1) % M, window, vr_ux .. M - 1)
  /\ Deliver(window, vr_uh, vr_ur')
  /\ UNCHANGED <<channel, vr_uh, vr_ux, since>>

Reorder ==
  /\ \/ timer = "due" /\ stray' = stray
     \/ stray > 0 /\ stray' = IF timer = "off" THEN stray - 1 ELSE stray
  /\ timer' = "off"
  /\ vr_ur' = Rest(vr_ux, window, vr_ux .. M - 1)
  /\ Deliver(window, vr_uh, vr_ur')
  /\ UNCHANGED <<channel, vr_uh, vr_ux, since>>

Next == Send \/ Lose \/ Drop \/ Receive \/ Expire \/ Reorder

Spec == Init /\ [][Next]_vars

-----------------------------------------------------------------------------
(* The receiver compares numbers without % and keeps a gap open until its      *)
(* timer expires.  When a gap is open as the numbers wrap, it throws away new   *)
(* units as old, hands over out of order and overwrites what it stored: each of *)
(* the four properties below fails of Spec without its condition ~disturbed.    *)

\* As long as nothing was amiss at a wrap, units are handed to reassembly in the
\* order they were sent, each once, through losses, overtaking, expiries handled
\* late and cancelled in vain (rlc_UM_reassemble_deliver, segment.c:1379).
Service == INSTANCE RlcService WITH
  Lossless <- FALSE, next <- last + 1, out <- handed
ImplementsService == Service!Init /\ [][~disturbed' => Service!Next]_vars

\* As long as nothing was amiss at a wrap, a stored unit leaves the window by being
\* handed over, never by another stored in its place, which would leak it
\* (rlc_macfsm.c:1988).
NotLeaked ==
  [][~disturbed' => \A n \in SN : window[n] # None => window'[n] \in {window[n], None}]_vars

\* As long as nothing was amiss at a wrap, no gap holds a unit back for long: while
\* it is stored, the newest that has come is at most so far ahead of it, although
\* an expiry does not start the timer again (rlc_macfsm.c:455 and 2066).  The timer
\* may have run for an older gap when the unit came, so it may wait for two runs
\* and the gap between them.
HeldBriefly ==
  ~disturbed => \A n \in SN : window[n] # None => top - window[n] <= 2 * (Behind + Pace) + Gap

\* As long as nothing was amiss at a wrap, a unit is thrown away on arrival only if
\* a newer one was handed over before: none that is new passes for an old one
\* (rlc_macfsm.c:1958).
DroppedIsLate == ~disturbed => \A u \in air : Dropped(u % M) => u < last

\* What rlc_macfsm.c:1960 says of every unit it throws away: that it has been
\* received, or reordered.
DroppedWasReordered == \A u \in air : Dropped(u % M) => u < last

\* The comment rlc_macfsm.c:1992 says of the branch that moves the window that
\* the unit is outside the reordering window.
MovesForOutside ==
  [][vr_uh' # vr_uh => \E u \in air \ air' : ~isInsideUmRecvWin(u % M, vr_uh)]_vars
=============================================================================
