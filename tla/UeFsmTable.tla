------------------------------ MODULE UeFsmTable ------------------------------
(***************************************************************************)
(* How the base station's RRC comes to have one state machine per terminal:  *)
(* rrc_main_enb makes one for an RNTI that MAC indicates, hands it the        *)
(* terminal's messages, and gives all of them up when the device is closed.   *)
(* A machine is a slot of the runtime's FSM[], which events name by number;   *)
(* an event is posted now and delivered later, to whatever the slot is then.  *)
(***************************************************************************)
EXTENDS Integers, Sequences

CONSTANTS
  Crntis,       \* the RNTIs MAC indicates
  MaxFsm,       \* MAX_FSM: slots, of which 0 is rrc_main_enb's
  MaxClose,     \* bound on the closings of the device
  MaxPending    \* bound on the events pending when a packet or command comes

ASSUME TableAssumption ==
  /\ MaxFsm \in Nat \ {0} /\ MaxClose \in Nat /\ MaxPending \in Nat
  /\ "none" \notin Crntis

Slots == 1 .. MaxFsm - 1
None == [crnti |-> "none", block |-> "none"]
NoMachine == -1   \* uefsmid of a command of the user
Messages == {"REQUEST", "SETUP_COMPLETE", "RECONF_COMPLETE"}
Blocks == {"INIT", "IDLE", "SETUP", "NORMAL", "RECONFIG"}

VARIABLES
  open,       \* the core of the RRC device is open
  main,       \* block of rrc_main_enb
  listReady,  \* INIT_LIST_HEAD(&ueFsm_list_head) was executed
  list,       \* ueFsm_list_head: [crnti, id], the newest first
  ue_num,     \* entries written to ue_list
  fsm,        \* FSM[]: None or a machine
  queue,      \* events without delay, with the RNTI they were posted for
  opening,    \* slots whose machine has its delayed first event to come
  closes,     \* counter of the bound
  oops        \* why the kernel read through NULL, or "no"

vars == <<open, main, listReady, list, ue_num, fsm, queue, opening, closes, oops>>

Init ==
  /\ open = FALSE /\ main = "INIT" /\ listReady = FALSE /\ list = <<>> /\ ue_num = 0
  /\ fsm = [i \in Slots |-> None] /\ queue = <<>> /\ opening = <<>> /\ closes = 0 /\ oops = "no"

Event(dst, type, code, crnti) == [dst |-> dst, type |-> type, code |-> code, crnti |-> crnti]

-----------------------------------------------------------------------------
(* rrc_main_enb.                                                             *)

(* Its first event, whatever it is, takes it from ST_INIT to ST_IDLE, and      *)
(* only the opening sets up the list.                                        *)
FirstEvent ==
  /\ oops = "no" /\ main = "INIT" /\ main' = "IDLE"
  /\ UNCHANGED <<open, listReady, list, ue_num, fsm, queue, opening, closes, oops>>

(* The entry of an RNTI; a search of a list never set up starts at NULL.      *)
Listed(crnti) == {list[k] : k \in {l \in DOMAIN list : list[l].crnti = crnti}}

SearchesNothing ==
  /\ oops = "no" /\ main = "IDLE" /\ ~listReady /\ oops' = "early"
  /\ UNCHANGED <<open, main, listReady, list, ue_num, fsm, queue, opening, closes>>

FreeSlots == {i \in Slots : fsm[i] = None}

\* The indication of an RNTI that is listed, or with no slot left, does nothing.
MutListedAlready(crnti) == FALSE
ListedAlready(crnti) == Listed(crnti) # {}

new_ue_fsm(crnti) ==
  \E id \in FreeSlots :
    /\ \A i \in FreeSlots : id <= i
    /\ fsm' = [fsm EXCEPT ![id] = [crnti |-> crnti, block |-> "INIT"]]
    /\ list' = <<[crnti |-> crnti, id |-> id]>> \o list /\ ue_num' = ue_num + 1
    /\ queue' = Append(queue, Event(id, "msg", "OPEN", crnti))

do_receive_rnti_ind(crnti) ==
  /\ oops = "no" /\ main = "IDLE" /\ listReady /\ ~ListedAlready(crnti) /\ new_ue_fsm(crnti)
  /\ UNCHANGED <<open, main, listReady, opening, closes, oops>>

\* A message of a terminal without a machine is destroyed.
rrc_message_handler_lower(crnti, message) ==
  /\ oops = "no" /\ main = "IDLE" /\ listReady /\ Len(queue) < MaxPending
  /\ \E e \in Listed(crnti) : queue' = Append(queue, Event(e.id, "msg", message, crnti))
  /\ UNCHANGED <<open, main, listReady, list, ue_num, fsm, opening, closes, oops>>

\* A command of the user is for one terminal, and is posted to none.
rrc_ioctl_handler ==
  /\ oops = "no" /\ main = "IDLE" /\ Len(queue) < MaxPending
  /\ queue' = Append(queue, Event(NoMachine, "msg", "COMMAND", "none"))
  /\ UNCHANGED <<open, main, listReady, list, ue_num, fsm, opening, closes, oops>>

-----------------------------------------------------------------------------
(* Opening and closing the device.                                           *)

\* The runtime starts with no events, whatever was posted to the closed core.
Open ==
  /\ oops = "no" /\ ~open /\ open' = TRUE /\ queue' = <<>> /\ opening' = <<>>
  /\ main' = "IDLE" /\ listReady' = (listReady \/ main = "INIT")
  /\ UNCHANGED <<list, ue_num, fsm, closes, oops>>

\* Events left by the closing: __fsm_tm_flush frees them all.
MutFlushed(events) == events
Flushed(events) == <<>>

\* rrc_close_enb posts to each machine that it is closed, and unregisters it.
Close ==
  /\ oops = "no" /\ open /\ listReady /\ closes < MaxClose
  /\ open' = FALSE /\ closes' = closes + 1 /\ list' = <<>>
  /\ fsm' = [i \in Slots |-> IF \E k \in DOMAIN list : list[k].id = i THEN None ELSE fsm[i]]
  /\ queue' = Flushed(queue) /\ opening' = Flushed(opening)
  /\ UNCHANGED <<main, listReady, ue_num, oops>>

-----------------------------------------------------------------------------
(* rrc_main_enb_ue: events are delivered in the order they were posted; the  *)
(* first event of a machine is 1 ms late, among whatever is posted meanwhile. *)

ExpireOpening ==
  /\ oops = "no" /\ opening # <<>> /\ opening' = Tail(opening)
  /\ queue' = Append(queue, Event(Head(opening).id, "self", "RRC_OPEN", Head(opening).crnti))
  /\ UNCHANGED <<open, main, listReady, list, ue_num, fsm, closes, oops>>

Oldest == {queue[k] : k \in DOMAIN queue \cap {1}}

\* The runtime finds the machine of an event through FSM[dst_id].
Takes(e) ==
  /\ oops = "no" /\ e.dst \in Slots /\ fsm[e.dst] # None
  /\ UNCHANGED <<open, main, listReady, list, ue_num, closes, oops>>

Delivers ==
  \E e \in Oldest :
    /\ Takes(e) /\ e.type = "msg" /\ e.code = "OPEN"
    /\ queue' = Tail(queue) /\ opening' = Append(opening, [id |-> e.dst, crnti |-> e.crnti])
    /\ UNCHANGED fsm

\* A message becomes an event of the machine itself, without delay.
rrc_messege_handler_rlc_enb_ue ==
  \E e \in Oldest :
    /\ Takes(e) /\ e.type = "msg" /\ e.code \in Messages
    /\ queue' = Append(Tail(queue), [e EXCEPT !.type = "self"])
    /\ UNCHANGED <<fsm, opening>>

(* The state machine of a terminal: the first event is spent on leaving        *)
(* ST_INIT, even if it is the terminal's request.                            *)
NextBlock(block, code) ==
  CASE block = "INIT" -> "IDLE"
    [] block = "IDLE" /\ code = "REQUEST" -> "SETUP"
    [] block = "SETUP" /\ code = "SETUP_COMPLETE" -> "NORMAL"
    [] block = "NORMAL" /\ code = "RECONFIG" -> "RECONFIG"
    [] block = "RECONFIG" /\ code = "RECONF_COMPLETE" -> "NORMAL"
    [] OTHER -> block

rrc_main_enb_ue ==
  \E e \in Oldest :
    /\ Takes(e) /\ e.type = "self"
    /\ fsm' = [fsm EXCEPT ![e.dst].block = NextBlock(@, e.code)]
    /\ queue' = IF fsm[e.dst].block = "SETUP" /\ e.code = "SETUP_COMPLETE"
                THEN Append(Tail(queue), [e EXCEPT !.code = "RECONFIG"]) ELSE Tail(queue)
    /\ UNCHANGED opening

\* FSM[-1] is memory that is zero, and so is the slot of a machine given up.
DeliversToNothing ==
  /\ oops = "no"
  /\ \E e \in Oldest : (e.dst \in Slots => fsm[e.dst] = None) /\ oops' = e.code
  /\ UNCHANGED <<open, main, listReady, list, ue_num, fsm, queue, opening, closes>>

-----------------------------------------------------------------------------
Next ==
  \/ FirstEvent \/ SearchesNothing
  \/ \E c \in Crntis : do_receive_rnti_ind(c) \/ \E m \in Messages : rrc_message_handler_lower(c, m)
  \/ rrc_ioctl_handler \/ Open \/ Close
  \/ ExpireOpening \/ Delivers \/ rrc_messege_handler_rlc_enb_ue \/ rrc_main_enb_ue
  \/ DeliversToNothing

Spec == Init /\ [][Next]_vars

-----------------------------------------------------------------------------
(* Types.                                                                    *)
Machines == {None} \cup [crnti : Crntis, block : Blocks]
Pending == [dst : Slots \cup {NoMachine}, type : {"msg", "self"},
            code : Messages \cup {"OPEN", "RRC_OPEN", "RECONFIG", "COMMAND"}, crnti : Crntis \cup {"none"}]
Entries == [crnti : Crntis, id : Slots]
TypeOK ==
  /\ open \in BOOLEAN /\ main \in {"INIT", "IDLE"} /\ listReady \in BOOLEAN
  /\ list \in Seq(Entries) /\ ue_num \in Nat /\ fsm \in [Slots -> Machines]
  /\ queue \in Seq(Pending) /\ opening \in Seq(Entries) /\ closes \in Nat
  /\ oops \in {"no", "early", "COMMAND"}

(* The list, FSM[] and ue_list agree: a registered machine is listed once, as *)
(* that of its terminal, and no terminal has two; and ue_list, whose index is *)
(* never set back, has an entry for each as long as the device has not been   *)
(* closed, however the indications repeat.                                   *)
OneMachineEach ==
  /\ \A i \in Slots : fsm[i] # None <=> \E k \in DOMAIN list : list[k].id = i
  /\ \A k \in DOMAIN list : fsm[list[k].id].crnti = list[k].crnti
  /\ \A k, l \in DOMAIN list : k # l => list[k].id # list[l].id /\ list[k].crnti # list[l].crnti
  /\ ue_num <= (closes + 1) * (MaxFsm - 1)

(* An event is delivered to the machine it was posted to: although machines   *)
(* are unregistered while events for them wait, and slots are given to other  *)
(* terminals, no event outlives its machine.  The kernel reads through NULL   *)
(* for a command of the user, and for a list that was not set up because the  *)
(* first event came before the device was opened, and for nothing else.       *)
EventFindsItsMachine ==
  /\ \A k \in DOMAIN queue :
       queue[k].dst # NoMachine => fsm[queue[k].dst] # None /\ fsm[queue[k].dst].crnti = queue[k].crnti
  /\ \A k \in DOMAIN opening :
       fsm[opening[k].id] # None /\ fsm[opening[k].id].crnti = opening[k].crnti
  /\ oops \in {"no", "COMMAND"} \/ (oops = "early" /\ ~listReady)
=============================================================================
