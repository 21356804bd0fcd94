---------------------------- MODULE RrcConnection ----------------------------
(***************************************************************************)
(* The connection of one terminal: the RRC of the terminal (rrc_main), the   *)
(* machine the base station keeps for it (rrc_main_enb_ue), and the messages *)
(* between them, which keep their order and may be lost.                     *)
(*                                                                           *)
(* A message is parsed when it arrives, kept in a global of its kind, and     *)
(* acted upon by an event that comes 10 ms later; the expired events of the   *)
(* terminal are one queue, in which an event may find the machine in another  *)
(* state than the one it was meant for.  Such an event is lost.              *)
(***************************************************************************)
EXTENDS Integers, FiniteSets, SequencesExt

CONSTANTS
  MaxRequests,    \* bound on the connections the user of the terminal asks for
  MaxReleases,    \* bound on the releases the user of the terminal asks for
  MaxCommands     \* bound on the commands of the user of the base station

ASSUME BoundsAssumption ==
  MaxRequests \in Nat /\ MaxReleases \in Nat /\ MaxCommands \in Nat

Up == {"REQUEST", "SETUP_COMPLETE", "RECONF_COMPLETE"}
Down == {"SETUP", "RESENT", "RECONF", "RELEASE"}
\* The messages of Down that have a global and an event of their own.
Kinds == {"SETUP", "RECONF", "RELEASE"}
Events == Kinds \cup {"CONN_REQ", "T300", "SUCCESS"}

VARIABLES
  ue,          \* state of the terminal
  held,        \* the messages whose global is not NULL
  posted,      \* events of messages, not expired
  queue,       \* expired events
  t300,        \* the handle: none, of a timer that runs, of an expired event
  success,     \* CODE_RECONF_SUCCESS is posted and not expired
  succeeded,   \* flag_st_connect_reconf
  ueSrbs, ueDrbs,   \* identities of the radio bearers configured
  oops,        \* the handler of a release has read through NULL
  up, down,    \* messages under way
  enb,         \* state of the base station's machine
  reconfigs,   \* CODE_RRC_CONN_RECONFIG events pending there
  enbSrbs,
  enbDrbSlots, \* occupied slots of enbDRBConfig
  requests, releases, commands,  \* counters of the bounds
  missed,      \* history: kinds of messages lost, or acted upon in no state
  reopened,    \* history: the terminal's device was closed and opened since the
               \* module was loaded
  reloaded     \* history: that module was unloaded and loaded again

terminal == <<ue, held, posted, queue, t300, success, succeeded, ueSrbs, ueDrbs, oops>>
station == <<enb, reconfigs, enbSrbs, enbDrbSlots>>
restarts == <<reopened, reloaded>>
counters == <<requests, releases, commands, restarts>>
vars == <<terminal, station, up, down, counters, missed>>

\* rrc_main forces its way from ST_INIT to ST_IDLE_CONNECTING.
Init ==
  /\ ue = "connecting" /\ held = {} /\ posted = <<>> /\ queue = <<>>
  /\ t300 = "runs" /\ success = FALSE /\ succeeded = FALSE
  /\ ueSrbs = {} /\ ueDrbs = {} /\ oops = FALSE
  /\ up = <<"REQUEST">> /\ down = <<>>
  /\ enb = "idle" /\ reconfigs = 0 /\ enbSrbs = {} /\ enbDrbSlots = {}
  /\ requests = 0 /\ releases = 0 /\ commands = 0 /\ missed = {}
  /\ reopened = FALSE /\ reloaded = FALSE

-----------------------------------------------------------------------------
(* The channels.                                                             *)

LoseUp ==
  /\ ~oops /\ up # <<>> /\ up' = Tail(up) /\ missed' = missed \cup {Head(up)}
  /\ UNCHANGED <<terminal, station, down, counters>>

LoseDown ==
  /\ ~oops /\ down # <<>> /\ down' = Tail(down) /\ missed' = missed \cup {Head(down)}
  /\ UNCHANGED <<terminal, station, up, counters>>

-----------------------------------------------------------------------------
(* The terminal.                                                             *)

\* The kinds the terminal parses.
Parsed == Kinds

\* The terminal takes the message of its kind out of the packet and posts an
\* event; a setup sent again has no type it knows.
rrc_messege_handler_rlc ==
  /\ ~oops /\ down # <<>> /\ down' = Tail(down)
  /\ IF Head(down) \in Parsed
     THEN held' = held \cup {Head(down)} /\ posted' = Append(posted, Head(down))
     ELSE UNCHANGED <<held, posted>>
  /\ UNCHANGED <<ue, queue, t300, success, succeeded, ueSrbs, ueDrbs, oops, station, up, counters, missed>>

Expire ==
  /\ ~oops /\ posted # <<>>
  /\ posted' = Tail(posted) /\ queue' = Append(queue, Head(posted))
  /\ UNCHANGED <<ue, held, t300, success, succeeded, ueSrbs, ueDrbs, oops, station, up, down, counters, missed>>

ExpireT300 ==
  /\ ~oops /\ t300 = "runs" /\ t300' = "due" /\ queue' = Append(queue, "T300")
  /\ UNCHANGED <<ue, held, posted, success, succeeded, ueSrbs, ueDrbs, oops, station, up, down, counters, missed>>

ExpireSuccess ==
  /\ ~oops /\ success /\ success' = FALSE /\ queue' = Append(queue, "SUCCESS")
  /\ UNCHANGED <<ue, held, posted, t300, succeeded, ueSrbs, ueDrbs, oops, station, up, down, counters, missed>>

\* The user's requests are events without delay.
UserConnects ==
  /\ ~oops /\ requests < MaxRequests /\ requests' = requests + 1
  /\ queue' = Append(queue, "CONN_REQ")
  /\ UNCHANGED <<ue, held, posted, t300, success, succeeded, ueSrbs, ueDrbs, oops, station, up, down,
                 releases, commands, missed, restarts>>

UserReleases ==
  /\ ~oops /\ releases < MaxReleases /\ releases' = releases + 1
  /\ queue' = Append(queue, "RELEASE")
  /\ UNCHANGED <<ue, held, posted, t300, success, succeeded, ueSrbs, ueDrbs, oops, station, up, down,
                 requests, commands, missed, restarts>>

\* The events a state tests for.  A default handler drops the others.
MutTested(state) ==
  CASE state = "idle" -> {"CONN_REQ"} [] state = "connecting" -> {"T300", "SETUP"}
    [] state = "connected" -> {"RECONF", "RELEASE", "T300"} [] state = "reconf" -> {"SUCCESS"}
Tested(state) ==
  CASE state = "idle" -> {"CONN_REQ"} [] state = "connecting" -> {"T300", "SETUP"}
    [] state = "connected" -> {"RECONF", "RELEASE"} [] state = "reconf" -> {"SUCCESS"}

\* The machine takes the oldest expired event.
Handles(event) ==
  /\ ~oops /\ queue # <<>> /\ Head(queue) = event /\ event \in Tested(ue)
  /\ queue' = Tail(queue)

\* setTimer does not look at the handle it overwrites.
MutT300Started == t300
T300Started == "runs"

transit_to_idle_connecting ==
  /\ Handles("CONN_REQ")
  /\ ue' = "connecting" /\ t300' = T300Started /\ up' = Append(up, "REQUEST")
  /\ UNCHANGED <<held, posted, success, succeeded, ueSrbs, ueDrbs, oops, station, down, counters, missed>>

t300_timeout ==
  /\ Handles("T300")
  /\ ue' = "idle" /\ t300' = "none"
  /\ UNCHANGED <<held, posted, success, succeeded, ueSrbs, ueDrbs, oops, station, up, down, counters, missed>>

\* What a message leaves of the globals when it has been acted upon.
Freed(kind) == held \ {kind}

rcv_rrc_conn_setup ==
  /\ Handles("SETUP")
  /\ ue' = "connected" /\ held' = Freed("SETUP")
  /\ IF "SETUP" \in held
     THEN ueSrbs' = ueSrbs \cup {1, 2} /\ up' = Append(up, "SETUP_COMPLETE") /\ t300' = "none"
     ELSE UNCHANGED <<ueSrbs, up, t300>>
  /\ UNCHANGED <<posted, success, succeeded, ueDrbs, oops, station, down, counters, missed>>

\* rcv_rrc_conn_reconf, then st_connect_reconf_enter.
rcv_rrc_conn_reconf ==
  /\ Handles("RECONF")
  /\ ue' = "reconf" /\ succeeded' = TRUE /\ success' = ~succeeded
  /\ ueDrbs' = IF "RECONF" \in held THEN ueDrbs \cup {3, 4, 5} ELSE ueDrbs
  /\ UNCHANGED <<held, posted, t300, ueSrbs, oops, station, up, down, counters, missed>>

reconfig_success ==
  /\ Handles("SUCCESS")
  /\ ue' = "connected" /\ held' = Freed("RECONF")
  /\ up' = IF "RECONF" \in held THEN Append(up, "RECONF_COMPLETE") ELSE up
  /\ UNCHANGED <<posted, t300, success, succeeded, ueSrbs, ueDrbs, oops, station, down, counters, missed>>

\* ApplyDrbToRelease: ueDrbConfig is indexed by the identities it holds.
MutKeptDrbs == ueDrbs \ {d - 3 : d \in ueDrbs}
KeptDrbs == ueDrbs \ {d : d \in ueDrbs}

rcv_rrc_conn_release ==
  /\ Handles("RELEASE")
  /\ oops' = ("RELEASE" \notin held)
  /\ IF "RELEASE" \in held
     THEN ue' = "idle" /\ held' = Freed("RELEASE") /\ ueSrbs' = {} /\ ueDrbs' = KeptDrbs
     ELSE UNCHANGED <<ue, held, ueSrbs, ueDrbs>>
  /\ UNCHANGED <<posted, t300, success, succeeded, station, up, down, counters, missed>>

\* The device is closed and opened: rrc_close frees the globals and bearers, the
\* core forgets what was to come, T300 included, and the machine keeps its state.
Reopen ==
  /\ ~oops /\ ~reopened /\ reopened' = TRUE
  /\ held' = {} /\ ueSrbs' = {} /\ ueDrbs' = KeptDrbs
  /\ posted' = <<>> /\ queue' = <<>> /\ t300' = "none" /\ success' = FALSE
  /\ missed' = missed \cup (ToSet(posted \o queue) \cap Kinds)
  /\ UNCHANGED <<ue, succeeded, oops, station, up, down, requests, releases, commands, reloaded>>

\* The module is unloaded, loaded and opened: a machine of its own, and a request.
\* The base station is not told.
Reload ==
  /\ ~oops /\ ~reloaded /\ reloaded' = TRUE /\ reopened' = FALSE
  /\ ue' = "connecting" /\ t300' = "runs" /\ up' = Append(up, "REQUEST")
  /\ held' = {} /\ ueSrbs' = {} /\ ueDrbs' = {} /\ succeeded' = FALSE
  /\ posted' = <<>> /\ queue' = <<>> /\ success' = FALSE
  /\ missed' = missed \cup (ToSet(posted \o queue) \cap Kinds)
  /\ UNCHANGED <<oops, station, down, requests, releases, commands>>

other_events ==
  /\ ~oops /\ queue # <<>> /\ Head(queue) \notin Tested(ue) /\ queue' = Tail(queue)
  /\ missed' = missed \cup ({Head(queue)} \cap Kinds)
  /\ UNCHANGED <<ue, held, posted, t300, success, succeeded, ueSrbs, ueDrbs, oops, station, up, down, counters>>

-----------------------------------------------------------------------------
(* The base station.  Its events have no delay, so that a message is handled *)
(* when it arrives.                                                          *)

EnbTested(state) ==
  CASE state = "idle" -> {"REQUEST"} [] state = "setup" -> {"REQUEST", "SETUP_COMPLETE"}
    [] state = "normal" -> {} [] state = "reconfig" -> {"RECONF_COMPLETE"}

Receives(message) ==
  /\ ~oops /\ up # <<>> /\ Head(up) = message /\ message \in EnbTested(enb)
  /\ up' = Tail(up) /\ UNCHANGED <<terminal, counters, missed>>

\* The first bearer was built when the machine was; the list has both.
rcv_rrc_conn_requset ==
  /\ Receives("REQUEST") /\ enb = "idle"
  /\ enb' = "setup" /\ enbSrbs' = enbSrbs \cup {2} /\ down' = Append(down, "SETUP")
  /\ UNCHANGED <<reconfigs, enbDrbSlots>>

\* The structure goes out without the DL_CCCH_Message around it.
MutResent == "SETUP"
Resent == "RESENT"
resend_setup_msg ==
  /\ Receives("REQUEST") /\ enb = "setup"
  /\ down' = Append(down, Resent) /\ UNCHANGED station

rcv_rrc_conn_setup_complete ==
  /\ Receives("SETUP_COMPLETE")
  /\ enb' = "normal" /\ reconfigs' = reconfigs + 1
  /\ UNCHANGED <<enbSrbs, enbDrbSlots, down>>

rcv_rrc_conn_reconfig_complete ==
  /\ Receives("RECONF_COMPLETE")
  /\ enb' = "normal" /\ UNCHANGED <<reconfigs, enbSrbs, enbDrbSlots, down>>

OtherMessage ==
  /\ ~oops /\ up # <<>> /\ Head(up) \notin EnbTested(enb) /\ up' = Tail(up)
  /\ missed' = missed \cup {Head(up)}
  /\ UNCHANGED <<terminal, station, down, counters>>

\* addDrb and the message.  A command in another state is lost.
rrc_conn_reconfig ==
  /\ ~oops /\ reconfigs > 0 /\ reconfigs' = reconfigs - 1
  /\ IF enb = "normal"
     THEN enb' = "reconfig" /\ enbDrbSlots' = {0, 1, 2} /\ down' = Append(down, "RECONF")
     ELSE UNCHANGED <<enb, enbDrbSlots, down>>
  /\ UNCHANGED <<enbSrbs, terminal, up, counters, missed>>

EnbReconfigures ==
  /\ ~oops /\ commands < MaxCommands /\ commands' = commands + 1
  /\ reconfigs' = reconfigs + 1
  /\ UNCHANGED <<enb, enbSrbs, enbDrbSlots, terminal, up, down, requests, releases, missed, restarts>>

\* The bearer with identity d is in slot d - 3, and is looked for in slot d.
KeptSlots == enbDrbSlots \ {s + 3 : s \in enbDrbSlots}

rrc_conn_release ==
  /\ ~oops /\ enb = "normal" /\ commands < MaxCommands /\ commands' = commands + 1
  /\ enb' = "idle" /\ enbSrbs' = {} /\ enbDrbSlots' = KeptSlots
  /\ down' = Append(down, "RELEASE")
  /\ UNCHANGED <<reconfigs, terminal, up, requests, releases, missed, restarts>>

-----------------------------------------------------------------------------
Handler ==
  \/ transit_to_idle_connecting \/ t300_timeout \/ rcv_rrc_conn_setup \/ rcv_rrc_conn_reconf
  \/ reconfig_success \/ rcv_rrc_conn_release \/ other_events

Station ==
  \/ rcv_rrc_conn_requset \/ resend_setup_msg \/ rcv_rrc_conn_setup_complete
  \/ rcv_rrc_conn_reconfig_complete \/ OtherMessage \/ rrc_conn_reconfig

Next ==
  \/ LoseUp \/ LoseDown \/ rrc_messege_handler_rlc
  \/ Expire \/ ExpireT300 \/ ExpireSuccess \/ UserConnects \/ UserReleases
  \/ Reopen \/ Reload \/ Handler \/ Station \/ EnbReconfigures \/ rrc_conn_release

\* Timers expire, the tasklets run, and the base station gets to what arrives.
Fairness ==
  /\ WF_vars(rrc_messege_handler_rlc) /\ WF_vars(Expire) /\ WF_vars(ExpireT300)
  /\ WF_vars(ExpireSuccess) /\ WF_vars(Handler) /\ WF_vars(Station)

Spec == Init /\ [][Next]_vars /\ Fairness

-----------------------------------------------------------------------------
(* Types; in particular the terminal keeps and posts only what it knows of    *)
(* the messages that reach it.                                               *)
TypeOK ==
  /\ ue \in {"idle", "connecting", "connected", "reconf"}
  /\ held \subseteq Kinds /\ posted \in Seq(Kinds) /\ queue \in Seq(Events)
  /\ t300 \in {"none", "runs", "due"} /\ success \in BOOLEAN /\ succeeded \in BOOLEAN
  /\ ueSrbs \subseteq {1, 2} /\ ueDrbs \subseteq {3, 4, 5} /\ oops \in BOOLEAN
  /\ up \in Seq(Up) /\ down \in Seq(Down)
  /\ enb \in {"idle", "setup", "normal", "reconfig"} /\ reconfigs \in Nat
  /\ enbSrbs \subseteq {1, 2} /\ enbDrbSlots \subseteq {0, 1, 2}
  /\ requests \in 0 .. MaxRequests /\ releases \in 0 .. MaxReleases /\ commands \in 0 .. MaxCommands
  /\ missed \subseteq Up \cup Down /\ reopened \in BOOLEAN /\ reloaded \in BOOLEAN

Count(x, s) == Cardinality({i \in DOMAIN s : s[i] = x})

(* As long as the user of the terminal releases nothing and does not close    *)
(* the device, an access, that of a terminal started anew too, has            *)
(* exactly one expiry of T300 to come: neither none, which would leave it     *)
(* without an end, nor that of an earlier access besides its own, which       *)
(* would end it early (rcv_rrc_conn_setup cancels a timer that may have       *)
(* expired already, and its event is still in the queue).                     *)
T300OfAccess ==
  releases = 0 /\ ~reopened /\ ue = "connecting" => Count("T300", queue) + (IF t300 = "runs" THEN 1 ELSE 0) = 1

(* An event that a message posted finds that message 10 ms later, although    *)
(* there is one global for each kind and whatever comes first frees it; and   *)
(* a reconfiguration under way has its message to answer.  So nothing the     *)
(* base station sends makes rcv_rrc_conn_release read through NULL.           *)
EventHasMessage ==
  /\ \A kind \in {"SETUP", "RECONF"} : Count(kind, posted \o queue) > 0 => kind \in held
  /\ ue = "reconf" /\ ~reopened => "RECONF" \in held
  /\ releases = 0 /\ Count("RELEASE", posted \o queue) > 0 => "RELEASE" \in held
  /\ oops => releases > 0

(* A terminal that is idle, or asks for a connection, has no bearer left of   *)
(* the one before: neither the timeout, which releases nothing, nor the       *)
(* release, which looks for the bearers by identity, leaves any.              *)
NoBearerWhenIdle == ue \in {"idle", "connecting"} => ueSrbs = {} /\ ueDrbs = {}

(* Where the two machines disagree.  A base station that counts the terminal  *)
(* as connected is right unless the terminal released or was started anew by  *)
(* its user, which the base station is not told; and a terminal that is connected to a base station    *)
(* which is not has a release on its way, or missed it.                       *)
InStep ==
  /\ releases = 0 /\ ~reloaded /\ enb \in {"normal", "reconfig"} => ue \in {"connected", "reconf"}
  /\ enb = "idle" /\ ue \in {"connected", "reconf"} =>
       "RELEASE" \in missed \/ Count("RELEASE", down \o posted \o queue) > 0

(* Whatever is lost, and whenever the terminal starts anew, an access ends.    *)
(* Not so one during which the device was closed, which forgets T300.        *)
AccessEnds == ue = "connecting" ~> ue # "connecting" \/ reopened

(* rrcfsm.c:1493 has st_connect_reconf_enter schedule an event on entering,    *)
(* the one that ends the reconfiguration.                                     *)
ReconfigurationEnds == ue = "reconf" ~> ue # "reconf" \/ oops \/ reopened

(* rrc_conn_release_enb.c:80: "release DRB".                                  *)
EnbReleasesDrbs == enb = "idle" => enbDrbSlots = {}
=============================================================================
