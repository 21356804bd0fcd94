--------------------------- MODULE UeRandomAccess ---------------------------
(* The contention based random access of a terminal (rlc_macfsm.c of the UE):   *)
(* a preamble, the window for its response, message 3, and the answer that       *)
(* resolves the contention. mac is the state machine with its variables          *)
(* (struct rlc_mac_sv) and the events it posts to itself; a C function that      *)
(* changes them is an operator from mac to mac, and a handler is an action.      *)
(*                                                                             *)
(* A timer of the code is a flag and a handle. handle[k] is "none" when the flag *)
(* is off, and else tells whether the event behind the handle still runs. What   *)
(* the code forgets without cancelling, and the delayed starts, for which it     *)
(* keeps no handle, are counted in loose[k].                                   *)
EXTENDS Naturals, Sequences

CONSTANTS
  PreambleMax,     \* preambleTransMax of the RACH configuration
  MaxOutstanding   \* input is taken while fewer events than this are pending

ASSUME AccessAssumption == PreambleMax \in Nat \ {0} /\ MaxOutstanding \in Nat

Timer == {"window", "cr", "ta"}
Posted == {"rarOk", "raFail", "won", "lost"}
Event == Timer \cup Posted \cup {"start"}

VARIABLE mac

Init ==
  mac = [st       |-> "idle",    \* idle, cra, con; stuck: loops with core.lock held
         crnti    |-> FALSE,     \* C_RNTI # 0
         tcrnti   |-> FALSE,     \* T_C_RNTI # 0
         counter  |-> 0,         \* PREAMBLE_TRANSMISSION_COUNTER
         sendmsg3 |-> FALSE,
         alloc    |-> 0,         \* ra_allocation_res
         msg3     |-> FALSE,     \* msg3_buf_ptr # NULL
         wait     |-> FALSE,     \* DATA_WAIT_ALLOCATION, MacBuffer_RLC not empty
         grant    |-> FALSE,     \* UL_resource_info.resource_flag
         dataRa   |-> FALSE,     \* ratype.ra_type = 2
         pdcch    |-> FALSE,     \* pdcch_rnti
         held     |-> FALSE,     \* CraQueue not empty
         handle   |-> [k \in Timer |-> "none"],
         loose    |-> [k \in Timer \cup {"start"} |-> 0],
         evq      |-> <<>>]      \* events due, in the order they are handled

-----------------------------------------------------------------------------
(* Events and timers: fsm_schedule_self and fsm_schedule_cancel.               *)

Flag(m, k) == m.handle[k] # "none"
Queued(m, E) == \E i \in DOMAIN m.evq : m.evq[i] \in E

Post(m, e) == [m EXCEPT !.evq = Append(@, e)]

\* The handle is set to NULL; the event, if it still runs, comes all the same.
Drop(m, k) ==
  [m EXCEPT !.handle[k] = "none",
            !.loose[k] = IF m.handle[k] = "running" THEN @ + 1 ELSE @]

\* A cancellation does not find an event that is due.
Cancel(m, k) == [m EXCEPT !.handle[k] = "none"]

\* The handle is overwritten.
Arm(m, k) == [Drop(m, k) EXCEPT !.handle[k] = "running"]
Restart(m, k) == [m EXCEPT !.handle[k] = "running"]

\* The start of another attempt, after the back-off or for data.
StartLater(m) == [m EXCEPT !.loose["start"] = @ + 1]

-----------------------------------------------------------------------------
(* The functions on the state variables.                                       *)

\* The counter is compared with 0 and PreambleMax + 1 only: beyond it stays.
CountFailure(m) ==
  [m EXCEPT !.counter = IF @ > PreambleMax + 1 THEN @ ELSE @ + 1]
GaveUp(m) == m.counter = PreambleMax + 1

\* doStartContentionBasedRandomAccessProcedure, StartWaitingForRaResponse
DoStart(m) ==
  Arm([m EXCEPT !.st = "cra", !.counter = IF @ = 0 THEN 1 ELSE @], "window")

C_RaResponseFailed(m) ==
  LET n == CountFailure([Drop(m, "window") EXCEPT !.st = "idle"])
  IN  IF GaveUp(n) THEN n ELSE StartLater(n)

\* The contention timer is forgotten, the alignment timer cancelled.
ContentionFailed(m) ==
  LET n == CountFailure([Cancel(Drop(m, "cr"), "ta")
                           EXCEPT !.st = "idle", !.tcrnti = FALSE])
  IN  IF GaveUp(n)
        THEN [n EXCEPT !.sendmsg3 = FALSE, !.dataRa = FALSE,
                       !.pdcch = FALSE, !.alloc = 0]
        ELSE StartLater([n EXCEPT !.alloc = 1])

Mutcra_success(m) ==
  [Drop(m, "cr") EXCEPT
     !.st = "con", !.counter = 0, !.alloc = 0, !.msg3 = FALSE,
     !.crnti = @ \/ m.tcrnti, !.tcrnti = FALSE,
     !.dataRa = FALSE, !.pdcch = FALSE]

cra_success(m) ==
  [Drop(m, "cr") EXCEPT
     !.st = "con", !.counter = 0, !.alloc = 0, !.msg3 = FALSE,
     !.crnti = @ \/ m.tcrnti, !.tcrnti = FALSE,
     !.sendmsg3 = FALSE, !.dataRa = FALSE, !.pdcch = FALSE]

Muthandle_timeAlignmentTimerExpire(m) == [m EXCEPT !.st = "idle", !.grant = FALSE]

\* The other timers of the attempt go on.
handle_timeAlignmentTimerExpire(m) ==
  [Drop(m, "ta") EXCEPT !.st = "idle", !.grant = FALSE]

MutRARTA_handleB(m) == m

RARTA_handleB(m) == IF Flag(m, "ta") THEN m ELSE Arm(m, "ta")

\* send_msg3 and retransmit_msg3: the timer starts even when nothing was sent.
send_msg3(m) ==
  LET first == m.alloc = 1
      again == m.alloc = 2 /\ m.msg3
  IN  Arm([m EXCEPT !.msg3 = @ \/ first, !.sendmsg3 = @ \/ first \/ again], "cr")

\* With a temporary RNTI the packet that RLC gives, if it gives one (data),
\* becomes message 3.
DoResourceAllocation(m, data) ==
  LET n == [m EXCEPT !.wait = FALSE]
  IN  IF data /\ m.tcrnti THEN send_msg3(n) ELSE n

waitsending_msg3(m, data) ==
  LET n == RARTA_handleB(m)
  IN  IF n.alloc # 0
        THEN send_msg3([n EXCEPT !.alloc = 2])
        ELSE IF n.wait /\ n.grant
          THEN [DoResourceAllocation([n EXCEPT !.alloc = 1], data) EXCEPT !.grant = FALSE]
          ELSE n

\* The first lines of cra_default_handler.
CraDefault(m) == IF m.sendmsg3 /\ m.crnti THEN Post(m, "won") ELSE m

\* con_default_handler before it looks at its event: data that waits is sent,
\* packets held since the access go to RLC, which may have no bearer for them.
ConDefault(m, data) ==
  LET n == IF m.wait /\ m.grant
             THEN [DoResourceAllocation(m, data) EXCEPT !.grant = FALSE]
             ELSE m
      served == [DoResourceAllocation(n, data) EXCEPT !.held = FALSE, !.grant = FALSE]
  IN  IF ~n.held THEN n
      ELSE IF data THEN served ELSE [n EXCEPT !.held = FALSE]

Default(m, data) ==
  CASE m.st = "cra" -> CraDefault(m)
    [] m.st = "con" -> ConDefault(m, data)
    [] OTHER -> m

-----------------------------------------------------------------------------
(* Downlink packets.                                                           *)

\* Pdcch_c_rnti: was the packet sent to the terminal's C-RNTI?
Pdcch_c_rnti(m, mine) ==
  CASE ~m.sendmsg3 -> [m EXCEPT !.pdcch = FALSE]
    [] m.sendmsg3 /\ mine ->
         LET n == [m EXCEPT !.pdcch = TRUE]
         IN  IF Flag(n, "cr") THEN Post(n, "won") ELSE n
    [] m.sendmsg3 /\ ~mine /\ m.crnti -> Post([m EXCEPT !.pdcch = FALSE], "lost")
    [] OTHER -> m

\* The contention resolution element, which the base station always sends with
\* an SDU after it. The flag off, the loop over the subheaders does not advance.
\* (A handle whose event is gone cancels nothing; that its memory may have
\* become another event is a hazard of fsmcore.c:1245 left out here.)
ResolveContention(m, id) ==
  CASE id = "none" -> m
    [] id # "none" /\ ~Flag(m, "cr") -> [m EXCEPT !.st = "stuck"]
    [] OTHER -> Post(Cancel(m, "cr"), IF id = "mine" THEN "won" ELSE "lost")

\* decomplexUeDataPdu; the alignment element comes after the other one.
decomplexUeDataPdu(m, mine, id, ta) ==
  LET n == ResolveContention(Pdcch_c_rnti(m, mine), id)
  IN  IF ta /\ id # "other" /\ n.st # "stuck" THEN Restart(n, "ta") ELSE n

\* decomplexUeRARPdu
decomplexUeRARPdu(m, mine) ==
  LET n == Cancel(m, "window")
  IN  CASE ~Flag(m, "window") -> m
        [] Flag(m, "window") /\ mine ->
             Post([n EXCEPT !.tcrnti = TRUE, !.grant = TRUE], "rarOk")
        [] OTHER -> Post(n, "raFail")

-----------------------------------------------------------------------------
(* The event at the head is handled; its handler runs to the end.              *)

Runs == mac.st # "stuck"
Rest == [mac EXCEPT !.evq = Tail(@)]
Takes(state, E) ==
  /\ mac.st = state
  /\ mac.evq # <<>>
  /\ Head(mac.evq) \in E

StartAccess == Takes("idle", {"start"}) /\ mac' = DoStart(Rest)

TaExpires ==
  /\ \E state \in {"idle", "cra", "con"} : Takes(state, {"ta"})
  /\ mac' = handle_timeAlignmentTimerExpire(Rest)

MutResponseFails == Takes("cra", {"raFail"}) /\ mac' = C_RaResponseFailed(Rest)
ResponseFails == Takes("cra", {"raFail", "window"}) /\ mac' = C_RaResponseFailed(Rest)

ResponseCame(data) == Takes("cra", {"rarOk"}) /\ mac' = waitsending_msg3(Rest, data)

ContentionLost == Takes("cra", {"lost", "cr"}) /\ mac' = ContentionFailed(Rest)

ContentionWon == Takes("cra", {"won"}) /\ mac' = cra_success(Rest)

\* No transition tests for it: the default handler finds nothing to do.
Ignore(data) ==
  /\ \/ Takes("idle", Event \ {"start", "ta"})
     \/ Takes("cra", {"start"})
     \/ Takes("con", Event \ {"ta"})
  /\ mac' = Default(Rest, data)

Handle ==
  \/ StartAccess
  \/ TaExpires
  \/ ResponseFails
  \/ \E data \in BOOLEAN : ResponseCame(data)
  \/ ContentionLost
  \/ ContentionWon
  \/ \E data \in BOOLEAN : Ignore(data)

\* An event is due (of no consequence any more once the machine is stuck). What
\* was forgotten is older than what the handle is for.
Lapse(k) ==
  /\ Runs
  /\ \/ /\ mac.loose[k] > 0
        /\ mac' = Post([mac EXCEPT !.loose[k] = @ - 1], k)
     \/ /\ k \in Timer
        /\ mac.loose[k] = 0
        /\ mac.handle[k] = "running"
        /\ mac' = Post([mac EXCEPT !.handle[k] = "lapsed"], k)

-----------------------------------------------------------------------------
(* What comes from RLC, the physical layer and RRC, at any moment.             *)

Pending(k) == mac.loose[k] + (IF mac.handle[k] = "running" THEN 1 ELSE 0)
Outstanding ==
  Len(mac.evq) + mac.loose["start"] + Pending("window") + Pending("cr") + Pending("ta")
Accepts == Runs /\ Outstanding < MaxOutstanding

\* A packet from above: it starts an access, is held during one, or waits.
PacketFromUpper(data) ==
  /\ Accepts
  /\ mac' = LET m == Default(mac, data)
            IN  CASE m.st = "idle" -> StartLater([m EXCEPT !.wait = TRUE, !.dataRa = TRUE])
                  [] m.st = "cra" -> [m EXCEPT !.held = TRUE]
                  [] OTHER -> [m EXCEPT !.wait = TRUE]

\* A random access response; one for another terminal has another preamble.
RarPdu(mine) ==
  /\ Accepts
  /\ mac.st = "cra"
  /\ mac' = LET m == CraDefault(mac)
            IN  IF m.sendmsg3 THEN m ELSE decomplexUeRARPdu(m, mine)

\* Any other packet; the virtual SRIO passes on those of other terminals.
DataPdu(mine, id, ta, data) ==
  /\ Accepts
  /\ mine => mac.crnti
  /\ mac' = LET m == Default(mac, data)
            IN  IF m.st = "cra" /\ ~m.sendmsg3 THEN m
                ELSE decomplexUeDataPdu(m, mine, id, ta)

\* IOCCMD_PDCCHtoMAC_ULGRANT, in any state.
UlGrant(mine, data) ==
  /\ Accepts
  /\ mine => mac.crnti
  /\ mac' = LET m == Default(mac, data)
                n == [m EXCEPT !.pdcch = @ \/ mine]
                r == IF n.crnti /\ n.sendmsg3 /\ n.dataRa
                       THEN Post(n, IF n.pdcch THEN "won" ELSE "lost")
                       ELSE n
                a == IF r.wait THEN DoResourceAllocation(r, data) ELSE r
            IN  [a EXCEPT !.grant = FALSE]

\* TATimer_config: RRC restarts the alignment timer, if it runs.
TATimer_config(data) ==
  /\ Accepts
  /\ mac' = LET m == Default(mac, data)
            IN  IF Flag(m, "ta") THEN Restart(m, "ta") ELSE m

Input ==
  \E data \in BOOLEAN :
    \/ PacketFromUpper(data)
    \/ TATimer_config(data)
    \/ \E mine \in BOOLEAN :
         \/ RarPdu(mine)
         \/ UlGrant(mine, data)
         \/ \E id \in {"none", "mine", "other"}, ta \in BOOLEAN : DataPdu(mine, id, ta, data)

Next ==
  \/ Handle
  \/ \E k \in Timer \cup {"start"} : Lapse(k)
  \/ Input

Spec == Init /\ [][Next]_mac

\* The event service delivers what is due, and the two timers an attempt relies
\* on expire: nobody restarts the alignment timer for ever, as RRC does it once
\* for a connection and the base station when it corrects the alignment.
FairSpec ==
  /\ Spec
  /\ WF_mac(Handle)
  /\ WF_mac(Lapse("window"))
  /\ WF_mac(Lapse("ta"))

-----------------------------------------------------------------------------
(* Properties.                                                                 *)

Handles == [Timer -> {"none", "running", "lapsed"}]
Counts == [Timer \cup {"start"} -> Nat]
Events == Seq(Event)

\* Every field has its type.
State == [st : {"idle", "cra", "con", "stuck"},
          crnti : BOOLEAN, tcrnti : BOOLEAN, counter : 0..(PreambleMax + 2),
          sendmsg3 : BOOLEAN, alloc : 0..2, msg3 : BOOLEAN, wait : BOOLEAN,
          grant : BOOLEAN, dataRa : BOOLEAN, pdcch : BOOLEAN, held : BOOLEAN,
          handle : Handles,
          loose : Counts,
          evq : Events]
TypeOK == mac \in State

\* A terminal in an access is never left without an event that ends it or
\* moves it on: whatever is lost on the air, and however the events of earlier
\* attempts mix in, the window or the alignment timer runs or an event is due.
WayOut ==
  mac.st = "cra" =>
    \/ \E k \in {"window", "ta"} : mac.handle[k] = "running"
    \/ Queued(mac, {"window", "ta", "raFail", "rarOk"})

\* A timer whose flag is still on has not been forgotten by its event: the flag
\* of an expired alignment timer, and of an expired window during an access,
\* is on only until the event is handled.
ExpiryComes ==
  /\ mac.handle["ta"] = "lapsed" => Queued(mac, {"ta"})
  /\ mac.st = "cra" /\ mac.handle["window"] = "lapsed" => Queued(mac, {"window"})

\* Connected, nothing of the access is left that would turn a packet into a
\* message 3 or a downlink packet into a verdict (mac_pkthandler.c:585).
ConnectedIsClean ==
  mac.st = "con" =>
    ~mac.sendmsg3 /\ ~mac.tcrnti /\ ~mac.msg3 /\ mac.alloc = 0 /\ mac.counter = 0

\* Unless the device enters the endless loop of mac_pkthandler.c:905, every
\* attempt ends, by success, by failure or by the loss of alignment. That it
\* may enter the loop is what LateAnswerIsSkipped, below, says of the code; the
\* attempt under way then never ends.
AttemptEnds ==
  [](mac.st # "stuck") => (mac.st = "cra" ~> mac.st \in {"idle", "con"})

-----------------------------------------------------------------------------
(* What comments say, and the code does not do.                                *)

\* rlc_macfsm.c:2566: "notice RRC has try RA for max times": after
\* PreambleMax failures no preamble is sent until an access succeeds.
TriesBounded == mac.counter <= PreambleMax + 1

\* mac_pkthandler.c:707: "if the RAR timer still runs, stop it and process the
\* RAR": with the window open a response is looked at.
OpenWindowListens == mac.st = "cra" /\ mac.handle["window"] = "running" => ~mac.sendmsg3

\* mac_pkthandler.c:914: the element is for "the timer has not expired"; one
\* that comes when no contention timer runs does nothing.
LateAnswerIsSkipped == mac.st # "stuck"

\* rlc_macfsm.c:3056: success "stops the CR timer": a connected terminal has no
\* contention timer running, whose expiry would fail another access.
CrTimerStopped == mac.st = "con" => mac.loose["cr"] = 0 /\ mac.handle["cr"] # "running"
=============================================================================
