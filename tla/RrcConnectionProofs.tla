------------------------- MODULE RrcConnectionProofs -------------------------
(***************************************************************************)
(* Theorems about RrcConnection, for any number of requests, releases and    *)
(* commands, and whatever is lost: its types; that a terminal which is idle   *)
(* or asks for a connection has no bearers; and, from how the streams, the    *)
(* globals and the states of both sides agree, that an access has its T300,   *)
(* that events find their messages, and where the two machines may disagree. *)
(***************************************************************************)
EXTENDS RrcConnection, FiniteSetTheorems, TLAPS

(* Groups of TypeOK, so that a step names those it disturbs.                 *)

TerminalTypes ==
  /\ ue \in {"idle", "connecting", "connected", "reconf"}
  /\ held \subseteq Kinds /\ t300 \in {"none", "runs", "due"}
  /\ success \in BOOLEAN /\ succeeded \in BOOLEAN /\ oops \in BOOLEAN
  /\ ueSrbs \subseteq {1, 2} /\ ueDrbs \subseteq {3, 4, 5}
EventTypes == posted \in Seq(Kinds) /\ queue \in Seq(Events)
ChannelTypes == up \in Seq(Up) /\ down \in Seq(Down) /\ missed \subseteq Up \cup Down
StationTypes ==
  /\ enb \in {"idle", "setup", "normal", "reconfig"} /\ reconfigs \in Nat
  /\ enbSrbs \subseteq {1, 2} /\ enbDrbSlots \subseteq {0, 1, 2}
CounterTypes ==
  /\ requests \in 0 .. MaxRequests /\ releases \in 0 .. MaxReleases /\ commands \in 0 .. MaxCommands
  /\ reopened \in BOOLEAN /\ reloaded \in BOOLEAN

LEMMA Groups ==
  TypeOK <=> TerminalTypes /\ EventTypes /\ ChannelTypes /\ StationTypes /\ CounterTypes
BY DEF TypeOK, TerminalTypes, EventTypes, ChannelTypes, StationTypes, CounterTypes

LEMMA QueueFacts ==
  ASSUME NEW S, NEW s \in Seq(S)
  PROVE  /\ \A x \in S : Append(s, x) \in Seq(S)
         /\ s # <<>> => Head(s) \in S /\ Tail(s) \in Seq(S)
OBVIOUS

LEMMA Empty ==
  ASSUME NEW S
  PROVE  <<>> \in Seq(S)
OBVIOUS

LEMMA Alphabets ==
  /\ Kinds \subseteq Events /\ Kinds \subseteq Down /\ Parsed = Kinds /\ Resent \in Down
  /\ "CONN_REQ" \in Events /\ "T300" \in Events /\ "SUCCESS" \in Events /\ "RELEASE" \in Events
  /\ "REQUEST" \in Up /\ "SETUP_COMPLETE" \in Up /\ "RECONF_COMPLETE" \in Up
  /\ "SETUP" \in Down /\ "RECONF" \in Down /\ "RELEASE" \in Down
BY DEF Kinds, Events, Down, Up, Parsed, Resent

-----------------------------------------------------------------------------
LEMMA InitTypes == Init => TypeOK
<1> SUFFICES ASSUME Init PROVE TypeOK
  OBVIOUS
<1>1. TerminalTypes /\ StationTypes
  BY DEF Init, TerminalTypes, StationTypes
<1>2. EventTypes /\ ChannelTypes
  BY DEF Init, EventTypes, ChannelTypes, Up
<1>3. CounterTypes
  <2>1. requests \in 0 .. MaxRequests /\ releases \in 0 .. MaxReleases /\ commands \in 0 .. MaxCommands
    BY BoundsAssumption DEF Init
  <2>2. reopened \in BOOLEAN /\ reloaded \in BOOLEAN
    BY DEF Init
  <2> QED BY <2>1, <2>2 DEF CounterTypes
<1> QED BY <1>1, <1>2, <1>3, Groups

(* A loss, an arrival, an expiry or a wish of the terminal's user.           *)
Outside ==
  \/ LoseUp \/ LoseDown \/ rrc_messege_handler_rlc
  \/ Expire \/ ExpireT300 \/ ExpireSuccess \/ UserConnects \/ UserReleases

\* An access begins, or times out, in a state without bearers.
LEMMA HandledInIdle ==
  ASSUME TypeOK, Handles("CONN_REQ") \/ Handles("T300")
  PROVE  ue \in {"idle", "connecting"}
BY DEF TypeOK, Handles, Tested

\* What is taken off a stream, or put on it.
LEMMA Streams ==
  TypeOK =>
    /\ queue # <<>> => Head(queue) \in Events /\ Tail(queue) \in Seq(Events)
    /\ posted # <<>> => Head(posted) \in Kinds /\ Tail(posted) \in Seq(Kinds)
    /\ up # <<>> => Head(up) \in Up /\ Tail(up) \in Seq(Up)
    /\ down # <<>> => Head(down) \in Down /\ Tail(down) \in Seq(Down)
    /\ \A e \in Events : Append(queue, e) \in Seq(Events)
    /\ \A k \in Kinds : Append(posted, k) \in Seq(Kinds)
    /\ \A m \in Up : Append(up, m) \in Seq(Up)
    /\ \A m \in Down : Append(down, m) \in Seq(Down)
BY QueueFacts DEF TypeOK

\* The state, globals, timer and bearers of the terminal.
LEMMA TerminalTypesKept == TypeOK /\ [Next]_vars => TerminalTypes'
<1> SUFFICES ASSUME TypeOK, [Next]_vars PROVE TerminalTypes'
  OBVIOUS
<1>1. TerminalTypes
  BY Groups
<1>2. CASE UNCHANGED <<ue, held, t300, success, succeeded, oops, ueSrbs, ueDrbs>>
  BY <1>1, <1>2 DEF TerminalTypes
<1>3. CASE rrc_messege_handler_rlc
  BY <1>1, <1>3, Streams, Alphabets DEF rrc_messege_handler_rlc, Parsed, TerminalTypes
<1>4. CASE ExpireT300
  BY <1>1, <1>4 DEF ExpireT300, TerminalTypes
<1>5. CASE ExpireSuccess
  BY <1>1, <1>5 DEF ExpireSuccess, TerminalTypes
<1>6. CASE transit_to_idle_connecting
  BY <1>1, <1>6 DEF transit_to_idle_connecting, T300Started, TerminalTypes
<1>7. CASE t300_timeout
  BY <1>1, <1>7 DEF t300_timeout, TerminalTypes
<1>8. CASE rcv_rrc_conn_setup
  BY <1>1, <1>8 DEF rcv_rrc_conn_setup, Freed, TerminalTypes
<1>9. CASE rcv_rrc_conn_reconf
  BY <1>1, <1>9 DEF rcv_rrc_conn_reconf, TerminalTypes
<1>10. CASE reconfig_success
  BY <1>1, <1>10 DEF reconfig_success, Freed, TerminalTypes
<1>11. CASE rcv_rrc_conn_release
  BY <1>1, <1>11 DEF rcv_rrc_conn_release, Freed, KeptDrbs, TerminalTypes
<1>12. CASE \/ LoseUp \/ LoseDown \/ Expire \/ UserConnects \/ UserReleases \/ other_events
          \/ rcv_rrc_conn_requset \/ resend_setup_msg \/ rcv_rrc_conn_setup_complete
          \/ rcv_rrc_conn_reconfig_complete \/ OtherMessage \/ rrc_conn_reconfig
          \/ EnbReconfigures \/ rrc_conn_release
  BY <1>2, <1>12 DEF LoseUp, LoseDown, Expire, UserConnects, UserReleases, other_events,
     rcv_rrc_conn_requset, resend_setup_msg, rcv_rrc_conn_setup_complete,
     rcv_rrc_conn_reconfig_complete, OtherMessage, rrc_conn_reconfig, EnbReconfigures,
     rrc_conn_release, Receives, terminal
<1>13. CASE Reopen
  BY <1>1, <1>13 DEF Reopen, KeptDrbs, TerminalTypes
<1>14. CASE Reload
  BY <1>1, <1>14 DEF Reload, TerminalTypes
<1>15. CASE UNCHANGED vars
  BY <1>2, <1>15 DEF vars, terminal, station, counters
<1> QED BY <1>2, <1>3, <1>4, <1>5, <1>6, <1>7, <1>8, <1>9, <1>10, <1>11, <1>12, <1>13, <1>14, <1>15
     DEF Next, Handler, Station

\* The events of the terminal.
LEMMA EventTypesKept == TypeOK /\ [Next]_vars => EventTypes'
<1> SUFFICES ASSUME TypeOK, [Next]_vars PROVE EventTypes'
  OBVIOUS
<1>1. EventTypes
  BY Groups
<1>2. CASE UNCHANGED <<posted, queue>>
  BY <1>1, <1>2 DEF EventTypes
<1>3. CASE rrc_messege_handler_rlc
  BY <1>1, <1>3, Streams, Alphabets DEF rrc_messege_handler_rlc, Parsed, EventTypes
<1>4. CASE Expire
  BY <1>1, <1>4, Streams, Alphabets DEF Expire, EventTypes
<1>5. CASE ExpireT300
  BY <1>1, <1>5, Streams, Alphabets DEF ExpireT300, EventTypes
<1>6. CASE ExpireSuccess
  BY <1>1, <1>6, Streams, Alphabets DEF ExpireSuccess, EventTypes
<1>7. CASE UserConnects
  BY <1>1, <1>7, Streams, Alphabets DEF UserConnects, EventTypes
<1>8. CASE UserReleases
  BY <1>1, <1>8, Streams, Alphabets DEF UserReleases, EventTypes
<1>9. CASE transit_to_idle_connecting
  BY <1>1, <1>9, Streams DEF transit_to_idle_connecting, Handles, EventTypes
<1>10. CASE t300_timeout
  BY <1>1, <1>10, Streams DEF t300_timeout, Handles, EventTypes
<1>11. CASE rcv_rrc_conn_setup
  BY <1>1, <1>11, Streams DEF rcv_rrc_conn_setup, Handles, EventTypes
<1>12. CASE rcv_rrc_conn_reconf
  BY <1>1, <1>12, Streams DEF rcv_rrc_conn_reconf, Handles, EventTypes
<1>13. CASE reconfig_success
  BY <1>1, <1>13, Streams DEF reconfig_success, Handles, EventTypes
<1>14. CASE rcv_rrc_conn_release
  BY <1>1, <1>14, Streams DEF rcv_rrc_conn_release, Handles, EventTypes
<1>15. CASE other_events
  BY <1>1, <1>15, Streams DEF other_events, EventTypes
<1>16. CASE \/ LoseUp \/ LoseDown \/ rcv_rrc_conn_requset \/ resend_setup_msg
          \/ rcv_rrc_conn_setup_complete \/ rcv_rrc_conn_reconfig_complete \/ OtherMessage
          \/ rrc_conn_reconfig \/ EnbReconfigures \/ rrc_conn_release
  BY <1>2, <1>16 DEF LoseUp, LoseDown, rcv_rrc_conn_requset, resend_setup_msg,
     rcv_rrc_conn_setup_complete, rcv_rrc_conn_reconfig_complete, OtherMessage, rrc_conn_reconfig,
     EnbReconfigures, rrc_conn_release, Receives, terminal
<1>17. CASE Reopen \/ Reload
  BY <1>17, Empty DEF Reopen, Reload, EventTypes
<1>18. CASE UNCHANGED vars
  BY <1>2, <1>18 DEF vars, terminal, station, counters
<1> QED BY <1>2, <1>3, <1>4, <1>5, <1>6, <1>7, <1>8, <1>9, <1>10, <1>11, <1>12, <1>13, <1>14, <1>15,
     <1>16, <1>17, <1>18 DEF Next, Handler, Station

\* Messages under way.
LEMMA ChannelTypesKept == TypeOK /\ [Next]_vars => ChannelTypes'
<1> SUFFICES ASSUME TypeOK, [Next]_vars PROVE ChannelTypes'
  OBVIOUS
<1>1. ChannelTypes
  BY Groups
<1>2. CASE UNCHANGED <<up, down, missed>>
  BY <1>1, <1>2 DEF ChannelTypes
<1>3. CASE LoseUp
  BY <1>1, <1>3, Streams, Alphabets DEF LoseUp, ChannelTypes
<1>4. CASE LoseDown
  BY <1>1, <1>4, Streams, Alphabets DEF LoseDown, ChannelTypes
<1>5. CASE rrc_messege_handler_rlc
  BY <1>1, <1>5, Streams DEF rrc_messege_handler_rlc, ChannelTypes
<1>6. CASE transit_to_idle_connecting
  BY <1>1, <1>6, Streams, Alphabets DEF transit_to_idle_connecting, ChannelTypes
<1>7. CASE rcv_rrc_conn_setup
  BY <1>1, <1>7, Streams, Alphabets DEF rcv_rrc_conn_setup, ChannelTypes
<1>8. CASE reconfig_success
  BY <1>1, <1>8, Streams, Alphabets DEF reconfig_success, ChannelTypes
<1>9. CASE other_events
  BY <1>1, <1>9, Alphabets DEF other_events, ChannelTypes
<1>10. CASE rcv_rrc_conn_requset
  BY <1>1, <1>10, Streams, Alphabets DEF rcv_rrc_conn_requset, Receives, ChannelTypes
<1>11. CASE resend_setup_msg
  BY <1>1, <1>11, Streams, Alphabets DEF resend_setup_msg, Receives, ChannelTypes
<1>12. CASE rcv_rrc_conn_setup_complete
  BY <1>1, <1>12, Streams DEF rcv_rrc_conn_setup_complete, Receives, ChannelTypes
<1>13. CASE rcv_rrc_conn_reconfig_complete
  BY <1>1, <1>13, Streams DEF rcv_rrc_conn_reconfig_complete, Receives, ChannelTypes
<1>14. CASE OtherMessage
  BY <1>1, <1>14, Streams, Alphabets DEF OtherMessage, ChannelTypes
<1>15. CASE rrc_conn_reconfig
  BY <1>1, <1>15, Streams, Alphabets DEF rrc_conn_reconfig, ChannelTypes
<1>16. CASE rrc_conn_release
  BY <1>1, <1>16, Streams, Alphabets DEF rrc_conn_release, ChannelTypes
<1>17. CASE \/ Expire \/ ExpireT300 \/ ExpireSuccess \/ UserConnects \/ UserReleases
          \/ t300_timeout \/ rcv_rrc_conn_reconf \/ rcv_rrc_conn_release \/ EnbReconfigures
  BY <1>2, <1>17 DEF Expire, ExpireT300, ExpireSuccess, UserConnects, UserReleases, t300_timeout,
     rcv_rrc_conn_reconf, rcv_rrc_conn_release, EnbReconfigures
<1>18. CASE Reopen
  BY <1>1, <1>18, Alphabets DEF Reopen, ChannelTypes
<1>19. CASE Reload
  <2>1. up' \in Seq(Up) /\ down' \in Seq(Down)
    BY <1>1, <1>19, Streams, Alphabets DEF Reload, ChannelTypes
  <2>2. missed' \subseteq Up \cup Down
    BY <1>1, <1>19, Alphabets DEF Reload, ChannelTypes
  <2> QED BY <2>1, <2>2 DEF ChannelTypes
<1>20. CASE UNCHANGED vars
  BY <1>2, <1>20 DEF vars, terminal, station, counters
<1> QED BY <1>2, <1>3, <1>4, <1>5, <1>6, <1>7, <1>8, <1>9, <1>10, <1>11, <1>12, <1>13, <1>14, <1>15,
     <1>16, <1>17, <1>18, <1>19, <1>20 DEF Next, Handler, Station

\* The base station.
LEMMA StationTypesKept == TypeOK /\ [Next]_vars => StationTypes'
<1> SUFFICES ASSUME TypeOK, [Next]_vars PROVE StationTypes'
  OBVIOUS
<1>1. StationTypes
  BY Groups
<1>2. CASE UNCHANGED <<enb, reconfigs, enbSrbs, enbDrbSlots>>
  BY <1>1, <1>2 DEF StationTypes
<1>3. CASE rcv_rrc_conn_requset
  BY <1>1, <1>3 DEF rcv_rrc_conn_requset, StationTypes
<1>4. CASE rcv_rrc_conn_setup_complete
  BY <1>1, <1>4 DEF rcv_rrc_conn_setup_complete, StationTypes
<1>5. CASE rcv_rrc_conn_reconfig_complete
  BY <1>1, <1>5 DEF rcv_rrc_conn_reconfig_complete, StationTypes
<1>6. CASE rrc_conn_reconfig
  <2>1. reconfigs' \in Nat
    BY <1>1, <1>6 DEF rrc_conn_reconfig, StationTypes
  <2>2. /\ enb' \in {"idle", "setup", "normal", "reconfig"} /\ enbSrbs' \subseteq {1, 2}
        /\ enbDrbSlots' \subseteq {0, 1, 2}
    BY <1>1, <1>6 DEF rrc_conn_reconfig, StationTypes
  <2> QED BY <2>1, <2>2 DEF StationTypes
<1>7. CASE EnbReconfigures
  BY <1>1, <1>7 DEF EnbReconfigures, StationTypes
<1>8. CASE rrc_conn_release
  BY <1>1, <1>8 DEF rrc_conn_release, KeptSlots, StationTypes
<1>9. CASE \/ LoseUp \/ LoseDown \/ rrc_messege_handler_rlc \/ Expire \/ ExpireT300
          \/ ExpireSuccess \/ UserConnects \/ UserReleases \/ transit_to_idle_connecting
          \/ t300_timeout \/ rcv_rrc_conn_setup \/ rcv_rrc_conn_reconf \/ reconfig_success
          \/ rcv_rrc_conn_release \/ other_events \/ resend_setup_msg \/ OtherMessage
          \/ Reopen \/ Reload
  BY <1>2, <1>9 DEF Reopen, Reload, LoseUp, LoseDown, rrc_messege_handler_rlc, Expire, ExpireT300, ExpireSuccess,
     UserConnects, UserReleases, transit_to_idle_connecting, t300_timeout, rcv_rrc_conn_setup,
     rcv_rrc_conn_reconf, reconfig_success, rcv_rrc_conn_release, other_events, resend_setup_msg,
     OtherMessage, Receives, station
<1>10. CASE UNCHANGED vars
  BY <1>2, <1>10 DEF vars, terminal, station, counters
<1> QED BY <1>2, <1>3, <1>4, <1>5, <1>6, <1>7, <1>8, <1>9, <1>10 DEF Next, Handler, Station

\* The counters of the bounds.
LEMMA CounterTypesKept == TypeOK /\ [Next]_vars => CounterTypes'
<1> SUFFICES ASSUME TypeOK, [Next]_vars PROVE CounterTypes'
  OBVIOUS
<1>1. CounterTypes
  BY Groups
<1>2. CASE UNCHANGED <<requests, releases, commands, reopened, reloaded>>
  BY <1>1, <1>2 DEF CounterTypes
<1>3. CASE UserConnects
  BY <1>1, <1>3, BoundsAssumption DEF UserConnects, restarts, CounterTypes
<1>4. CASE UserReleases
  BY <1>1, <1>4, BoundsAssumption DEF UserReleases, restarts, CounterTypes
<1>5. CASE EnbReconfigures
  BY <1>1, <1>5, BoundsAssumption DEF EnbReconfigures, restarts, CounterTypes
<1>6. CASE rrc_conn_release
  BY <1>1, <1>6, BoundsAssumption DEF rrc_conn_release, restarts, CounterTypes
<1>7. CASE \/ LoseUp \/ LoseDown \/ rrc_messege_handler_rlc \/ Expire \/ ExpireT300
          \/ ExpireSuccess \/ transit_to_idle_connecting \/ t300_timeout \/ rcv_rrc_conn_setup
          \/ rcv_rrc_conn_reconf \/ reconfig_success \/ rcv_rrc_conn_release \/ other_events
          \/ rcv_rrc_conn_requset \/ resend_setup_msg \/ rcv_rrc_conn_setup_complete
          \/ rcv_rrc_conn_reconfig_complete \/ OtherMessage \/ rrc_conn_reconfig
  BY <1>2, <1>7 DEF LoseUp, LoseDown, rrc_messege_handler_rlc, Expire, ExpireT300, ExpireSuccess,
     transit_to_idle_connecting, t300_timeout, rcv_rrc_conn_setup, rcv_rrc_conn_reconf,
     reconfig_success, rcv_rrc_conn_release, other_events, rcv_rrc_conn_requset, resend_setup_msg,
     rcv_rrc_conn_setup_complete, rcv_rrc_conn_reconfig_complete, OtherMessage, rrc_conn_reconfig,
     Receives, counters, restarts
<1>8. CASE Reopen
  BY <1>1, <1>8 DEF Reopen, CounterTypes
<1>9. CASE Reload
  BY <1>1, <1>9 DEF Reload, CounterTypes
<1>10. CASE UNCHANGED vars
  BY <1>2, <1>10 DEF vars, terminal, station, counters, restarts
<1> QED BY <1>2, <1>3, <1>4, <1>5, <1>6, <1>7, <1>8, <1>9, <1>10 DEF Next, Handler, Station

(* Types (RrcConnection, TypeOK): the terminal keeps and posts nothing but      *)
(* messages it knows, for any number of requests, releases and commands,     *)
(* and whenever the terminal is closed or loaded anew.                       *)
THEOREM TypeCorrect == Spec => []TypeOK
<1>1. TypeOK /\ [Next]_vars => TypeOK'
  BY TerminalTypesKept, EventTypesKept, ChannelTypesKept, StationTypesKept, CounterTypesKept
  DEF TypeOK, TerminalTypes, EventTypes, ChannelTypes, StationTypes, CounterTypes
<1> QED BY <1>1, InitTypes, PTL DEF Spec

-----------------------------------------------------------------------------
(* Bearers (RrcConnection, NoBearerWhenIdle).  The states in which a terminal *)
(* has bearers are entered by rcv_rrc_conn_setup and left by                   *)
(* rcv_rrc_conn_release, which looks for every bearer by its identity; what   *)
(* closing the device leaves of a connection has none.                       *)
THEOREM IdleHasNoBearer == Spec => []NoBearerWhenIdle
<1>1. Init => NoBearerWhenIdle
  BY DEF Init, NoBearerWhenIdle
<1>2. TypeOK /\ NoBearerWhenIdle /\ [Next]_vars => NoBearerWhenIdle'
  <2> SUFFICES ASSUME TypeOK, NoBearerWhenIdle, [Next]_vars PROVE NoBearerWhenIdle'
    OBVIOUS
  <2>1. CASE UNCHANGED <<ue, ueSrbs, ueDrbs>>
    BY <2>1 DEF NoBearerWhenIdle
  <2>2. CASE transit_to_idle_connecting \/ t300_timeout
    <3>1. Handles("CONN_REQ") \/ Handles("T300")
      BY <2>2 DEF transit_to_idle_connecting, t300_timeout
    <3>2. ue \in {"idle", "connecting"}
      BY <3>1, HandledInIdle
    <3> QED BY <2>2, <3>2 DEF NoBearerWhenIdle, transit_to_idle_connecting, t300_timeout
  <2>3. CASE rcv_rrc_conn_setup \/ rcv_rrc_conn_reconf \/ reconfig_success
    <3>1. ue' \in {"connected", "reconf"}
      BY <2>3 DEF rcv_rrc_conn_setup, rcv_rrc_conn_reconf, reconfig_success
    <3> QED BY <3>1 DEF NoBearerWhenIdle
  <2>4. CASE rcv_rrc_conn_release
    BY <2>4 DEF rcv_rrc_conn_release, KeptDrbs, NoBearerWhenIdle
  <2>5. CASE Outside \/ other_events
    BY <2>5, <2>1 DEF Outside, other_events, LoseUp, LoseDown, rrc_messege_handler_rlc, Expire, ExpireT300,
       ExpireSuccess, UserConnects, UserReleases, terminal
  <2>6. CASE Station \/ EnbReconfigures \/ rrc_conn_release
    BY <2>6, <2>1 DEF Station, EnbReconfigures, rrc_conn_release, rcv_rrc_conn_requset, resend_setup_msg,
       rcv_rrc_conn_setup_complete, rcv_rrc_conn_reconfig_complete, Receives, OtherMessage, rrc_conn_reconfig, terminal
  <2>7. CASE Reopen \/ Reload
    BY <2>7 DEF Reopen, Reload, KeptDrbs, NoBearerWhenIdle
  <2>8. CASE UNCHANGED vars
    BY <2>8, <2>1 DEF vars, terminal
  <2> QED BY <2>2, <2>3, <2>4, <2>5, <2>6, <2>7, <2>8 DEF Next, Outside, Handler
<1> QED BY <1>1, <1>2, TypeCorrect, PTL DEF Spec

-----------------------------------------------------------------------------
(* What is in a stream, and in which order.                                  *)

In(x, s) == \E i \in 1 .. Len(s) : s[i] = x
Once(x, s) == \A i, j \in 1 .. Len(s) : s[i] = x /\ s[j] = x => i = j
NotBehind(x, y, s) == \A i, j \in 1 .. Len(s) : i < j => ~(s[i] = x /\ s[j] = y)

\* r is s without its first element, e.
Shortened(s, r, e) ==
  /\ In(e, s)
  /\ \A x : In(x, r) => In(x, s)
  /\ \A x : In(x, s) => x = e \/ In(x, r)
  /\ \A x : Once(x, s) => Once(x, r) /\ ~(x = e /\ In(x, r))
  /\ \A x, y : NotBehind(x, y, s) => NotBehind(x, y, r) /\ ~(x = e /\ In(y, r))

\* r is s with e at its end.
Lengthened(s, r, e) ==
  /\ \A x : In(x, r) <=> In(x, s) \/ x = e
  /\ \A x : Once(x, s) /\ ~(x = e /\ In(x, s)) => Once(x, r)
  /\ \A x, y : NotBehind(x, y, s) /\ ~(y = e /\ In(x, s)) => NotBehind(x, y, r)

LEMMA TailShortens ==
  ASSUME NEW S, NEW s \in Seq(S), s # <<>>
  PROVE  Shortened(s, Tail(s), Head(s))
<1> DEFINE r == Tail(s)
<1>1. /\ Len(s) \in Nat /\ Len(s) > 0 /\ Len(r) = Len(s) - 1 /\ Head(s) = s[1]
      /\ \A i \in 1 .. Len(r) : r[i] = s[i + 1]
  OBVIOUS
<1> HIDE DEF r
<1>2. In(Head(s), s)
  BY <1>1 DEF In
<1>3. \A x : In(x, r) => In(x, s)
  BY <1>1 DEF In
<1>4. \A x : In(x, s) => x = Head(s) \/ In(x, r)
  <2> SUFFICES ASSUME NEW x, NEW i \in 1 .. Len(s), s[i] = x, i # 1
               PROVE  In(x, r)
    BY <1>1 DEF In
  <2>1. i - 1 \in 1 .. Len(r) /\ r[i - 1] = x
    BY <1>1
  <2> QED BY <2>1 DEF In
<1>5. \A x : Once(x, s) => Once(x, r) /\ ~(x = Head(s) /\ In(x, r))
  <2> SUFFICES ASSUME NEW x, Once(x, s) PROVE Once(x, r) /\ ~(x = Head(s) /\ In(x, r))
    OBVIOUS
  <2>1. Once(x, r)
    <3> SUFFICES ASSUME NEW i \in 1 .. Len(r), NEW j \in 1 .. Len(r), r[i] = x, r[j] = x
                 PROVE  i = j
      BY DEF Once
    <3>1. i + 1 \in 1 .. Len(s) /\ j + 1 \in 1 .. Len(s) /\ s[i + 1] = x /\ s[j + 1] = x
      BY <1>1
    <3>2. i + 1 = j + 1
      BY <3>1 DEF Once
    <3> QED BY <3>2
  <2>2. ASSUME x = Head(s), NEW i \in 1 .. Len(r), r[i] = x PROVE FALSE
    <3>1. i + 1 \in 1 .. Len(s) /\ 1 \in 1 .. Len(s) /\ s[i + 1] = x /\ s[1] = x
      BY <1>1, <2>2
    <3>2. i + 1 = 1
      BY <3>1 DEF Once
    <3> QED BY <3>2
  <2> QED BY <2>1, <2>2 DEF In
<1>6. \A x, y : NotBehind(x, y, s) => NotBehind(x, y, r) /\ ~(x = Head(s) /\ In(y, r))
  <2> SUFFICES ASSUME NEW x, NEW y, NotBehind(x, y, s)
               PROVE  NotBehind(x, y, r) /\ ~(x = Head(s) /\ In(y, r))
    OBVIOUS
  <2>1. NotBehind(x, y, r)
    <3> SUFFICES ASSUME NEW i \in 1 .. Len(r), NEW j \in 1 .. Len(r), i < j, r[i] = x, r[j] = y
                 PROVE  FALSE
      BY DEF NotBehind
    <3>1. i + 1 \in 1 .. Len(s) /\ j + 1 \in 1 .. Len(s) /\ s[i + 1] = x /\ s[j + 1] = y /\ i + 1 < j + 1
      BY <1>1
    <3> QED BY <3>1 DEF NotBehind
  <2>2. ASSUME x = Head(s), NEW i \in 1 .. Len(r), r[i] = y PROVE FALSE
    <3>1. i + 1 \in 1 .. Len(s) /\ 1 \in 1 .. Len(s) /\ s[i + 1] = y /\ s[1] = x /\ 1 < i + 1
      BY <1>1, <2>2
    <3> QED BY <3>1 DEF NotBehind
  <2> QED BY <2>1, <2>2 DEF In
<1>7. Shortened(s, r, Head(s))
  BY <1>2, <1>3, <1>4, <1>5, <1>6 DEF Shortened
<1> QED BY <1>7 DEF r

LEMMA AppendLengthens ==
  ASSUME NEW S, NEW s \in Seq(S), NEW e \in S
  PROVE  Lengthened(s, Append(s, e), e)
<1> DEFINE r == Append(s, e)
<1>1. /\ Len(s) \in Nat /\ Len(r) = Len(s) + 1 /\ r[Len(s) + 1] = e
      /\ \A i \in 1 .. Len(s) : r[i] = s[i]
  OBVIOUS
<1> HIDE DEF r
<1>2. \A i \in 1 .. Len(r) : i = Len(s) + 1 \/ i \in 1 .. Len(s)
  BY <1>1
<1>3. \A x : In(x, r) <=> In(x, s) \/ x = e
  <2> SUFFICES ASSUME NEW x PROVE In(x, r) <=> In(x, s) \/ x = e
    OBVIOUS
  <2>1. In(x, r) => In(x, s) \/ x = e
    BY <1>1, <1>2 DEF In
  <2>2. In(x, s) => In(x, r)
    BY <1>1 DEF In
  <2>3. In(e, r)
    BY <1>1 DEF In
  <2> QED BY <2>1, <2>2, <2>3
<1>4. \A x : Once(x, s) /\ ~(x = e /\ In(x, s)) => Once(x, r)
  BY <1>1, <1>2 DEF In, Once
<1>5. \A x, y : NotBehind(x, y, s) /\ ~(y = e /\ In(x, s)) => NotBehind(x, y, r)
  BY <1>1, <1>2 DEF In, NotBehind
<1>6. Lengthened(s, r, e)
  BY <1>3, <1>4, <1>5 DEF Lengthened
<1> QED BY <1>6 DEF r

LEMMA NothingBehindAbsent ==
  ASSUME NEW x, NEW y, NEW s, ~In(x, s)
  PROVE  NotBehind(x, y, s)
BY DEF In, NotBehind

LEMMA NothingInEmpty ==
  /\ \A x : ~In(x, <<>>) /\ Once(x, <<>>)
  /\ \A x, y : NotBehind(x, y, <<>>)
BY DEF In, Once, NotBehind

-----------------------------------------------------------------------------
(* The inductive invariant of the other properties.                          *)

Pending(k) == In(k, posted) \/ In(k, queue)
OnItsWay(k) == In(k, down) \/ Pending(k)

\* There is one message of the kind, in one place.
Single(k) ==
  /\ Once(k, down) /\ Once(k, posted) /\ Once(k, queue)
  /\ ~(In(k, down) /\ Pending(k)) /\ ~(In(k, posted) /\ In(k, queue))

\* A setup, or the answer to it, is under way only while the base station waits
\* for that answer, so that there is one at most.
SetupInv ==
  /\ Single("SETUP") /\ Once("SETUP_COMPLETE", up)
  /\ OnItsWay("SETUP") => enb = "setup" /\ ~In("SETUP_COMPLETE", up)
  /\ In("SETUP_COMPLETE", up) => enb = "setup"
  /\ Pending("SETUP") => "SETUP" \in held

\* The same of a reconfiguration, which may be under way in the terminal too.
ReconfInv ==
  /\ Single("RECONF") /\ Once("RECONF_COMPLETE", up)
  /\ OnItsWay("RECONF") => enb = "reconfig" /\ ue # "reconf" /\ ~In("RECONF_COMPLETE", up)
  /\ In("RECONF_COMPLETE", up) => enb = "reconfig" /\ ue # "reconf"
  /\ ue = "reconf" => enb = "reconfig"
  /\ Pending("RECONF") => "RECONF" \in held
  /\ ue = "reconf" /\ ~reopened => "RECONF" \in held

\* The base station has the terminal for connected, or is about to.
Connected == enb \in {"normal", "reconfig"} \/ In("SETUP_COMPLETE", up)

\* A release of the base station comes before the setup of the next connection,
\* and so is gone when that setup is answered.
ReleaseInv ==
  releases = 0 =>
    /\ Single("RELEASE")
    /\ Connected => ~OnItsWay("RELEASE")
    /\ NotBehind("SETUP", "RELEASE", down) /\ NotBehind("SETUP", "RELEASE", posted)
    /\ NotBehind("SETUP", "RELEASE", queue)
    /\ In("SETUP", queue) => ~In("RELEASE", posted) /\ ~In("RELEASE", down)
    /\ In("SETUP", posted) => ~In("RELEASE", down)
    /\ Pending("RELEASE") => "RELEASE" \in held
    /\ ~oops
    /\ ~reloaded /\ Connected => ue \in {"connected", "reconf"}

\* An access has its T300, and no other state has; an expiry that came too late
\* for a setup is out of the queue before the release of that connection.
TimerInv ==
  releases = 0 /\ ~reopened =>
    /\ Once("T300", queue)
    /\ t300 = "runs" => ue = "connecting" /\ ~In("T300", queue)
    /\ ue = "connecting" => t300 = "runs" \/ In("T300", queue)
    /\ ue = "idle" => ~In("T300", queue)
    /\ ue \in {"connected", "reconf"} => NotBehind("RELEASE", "T300", queue)

\* A terminal that was left is told, unless it misses that.
LeftInv ==
  enb = "idle" /\ ue \in {"connected", "reconf"} =>
    \/ "RELEASE" \in missed \/ In("RELEASE", down)
    \/ "RELEASE" \in held /\ Pending("RELEASE")

Agree == SetupInv /\ ReconfInv /\ ReleaseInv /\ TimerInv /\ LeftInv

LEMMA InitAgree == Init => Agree
<1> SUFFICES ASSUME Init PROVE Agree
  OBVIOUS
<1>1. /\ \A x : In(x, up) => x = "REQUEST"
      /\ \A x : x # "REQUEST" => Once(x, up)
  BY DEF Init, In, Once
<1> QED BY <1>1, NothingInEmpty
  DEF Init, Agree, SetupInv, ReconfInv, ReleaseInv, TimerInv, LeftInv, Connected, Pending, OnItsWay, Single

LEMMA AgreeStays ==
  ASSUME Agree, UNCHANGED vars
  PROVE  Agree'
BY DEF vars, terminal, station, counters, restarts, Agree, SetupInv, ReconfInv, ReleaseInv, TimerInv, LeftInv,
  Connected, Pending, OnItsWay, Single

\* What a step does to the streams.
LEMMA HandlesTakes ==
  ASSUME TypeOK, NEW e, Handles(e)
  PROVE  Shortened(queue, queue', e) /\ e \in Tested(ue) /\ ~oops
BY TailShortens DEF TypeOK, Handles

LEMMA TestedWhere ==
  TypeOK =>
    /\ "CONN_REQ" \in Tested(ue) => ue = "idle"
    /\ "T300" \in Tested(ue) \/ "SETUP" \in Tested(ue) => ue = "connecting"
    /\ "RECONF" \in Tested(ue) \/ "RELEASE" \in Tested(ue) => ue = "connected"
    /\ "SUCCESS" \in Tested(ue) => ue = "reconf"
<1> SUFFICES ASSUME TypeOK
             PROVE  /\ "CONN_REQ" \in Tested(ue) => ue = "idle"
                    /\ "T300" \in Tested(ue) \/ "SETUP" \in Tested(ue) => ue = "connecting"
                    /\ "RECONF" \in Tested(ue) \/ "RELEASE" \in Tested(ue) => ue = "connected"
                    /\ "SUCCESS" \in Tested(ue) => ue = "reconf"
  OBVIOUS
<1>1. CASE ue = "idle"
  BY <1>1 DEF Tested
<1>2. CASE ue = "connecting"
  BY <1>2 DEF Tested
<1>3. CASE ue = "connected"
  BY <1>3 DEF Tested
<1>4. CASE ue = "reconf"
  BY <1>4 DEF Tested
<1> QED BY <1>1, <1>2, <1>3, <1>4 DEF TypeOK

LEMMA PendingIsThere ==
  ASSUME TypeOK, NEW k, Pending(k)
  PROVE  k \in ToSet(posted \o queue)
<1>1. /\ posted \in Seq(Kinds) /\ queue \in Seq(Events)
  BY DEF TypeOK
<1>2. CASE In(k, posted)
  <2>1. PICK i \in 1 .. Len(posted) : posted[i] = k
    BY <1>2 DEF In
  <2>2. i \in 1 .. Len(posted \o queue) /\ (posted \o queue)[i] = k
    BY <1>1, <2>1
  <2> QED BY <1>1, <2>2 DEF ToSet
<1>3. CASE In(k, queue)
  <2>1. PICK i \in 1 .. Len(queue) : queue[i] = k
    BY <1>3 DEF In
  <2>2. /\ Len(posted) + i \in 1 .. Len(posted \o queue)
        /\ (posted \o queue)[Len(posted) + i] = k
    BY <1>1, <2>1
  <2> QED BY <1>1, <2>2 DEF ToSet
<1> QED BY <1>2, <1>3 DEF Pending

LEMMA ReceivesTakes ==
  ASSUME TypeOK, NEW m, Receives(m)
  PROVE  /\ Shortened(up, up', m) /\ m \in EnbTested(enb) /\ ~oops
         /\ UNCHANGED <<terminal, counters, missed>>
BY TailShortens DEF TypeOK, Receives

(* Every step keeps Agree: what it takes off a stream or puts on it, then the *)
(* invariant.                                                                *)

LEMMA LoseUpAgrees == TypeOK /\ Agree /\ LoseUp => Agree'
<1> SUFFICES ASSUME TypeOK, Agree, LoseUp PROVE Agree'
  OBVIOUS
<1>1. Shortened(up, up', Head(up))
  BY TailShortens DEF TypeOK, LoseUp
<1> QED BY <1>1, SMTT(60)
     DEF LoseUp, terminal, station, counters, restarts, Shortened,
     Agree, SetupInv, ReconfInv, ReleaseInv, TimerInv, LeftInv, Connected, Pending, OnItsWay, Single

LEMMA LoseDownAgrees == TypeOK /\ Agree /\ LoseDown => Agree'
<1> SUFFICES ASSUME TypeOK, Agree, LoseDown PROVE Agree'
  OBVIOUS
<1>1. Shortened(down, down', Head(down))
  BY TailShortens DEF TypeOK, LoseDown
<1> QED BY <1>1, SMTT(60)
     DEF LoseDown, terminal, station, counters, restarts, Shortened,
     Agree, SetupInv, ReconfInv, ReleaseInv, TimerInv, LeftInv, Connected, Pending, OnItsWay, Single

LEMMA RrcMessegeHandlerRlcAgrees == TypeOK /\ Agree /\ rrc_messege_handler_rlc => Agree'
<1> SUFFICES ASSUME TypeOK, Agree, rrc_messege_handler_rlc PROVE Agree'
  OBVIOUS
<1>1. Shortened(down, down', Head(down))
  BY TailShortens DEF TypeOK, rrc_messege_handler_rlc
<1>2. Head(down) \in Kinds => Lengthened(posted, posted', Head(down))
  BY AppendLengthens DEF TypeOK, rrc_messege_handler_rlc, Parsed
<1> QED BY <1>1, <1>2, SMTT(60)
     DEF rrc_messege_handler_rlc, Parsed, Kinds, station, counters, restarts, Shortened, Lengthened,
     Agree, SetupInv, ReconfInv, ReleaseInv, TimerInv, LeftInv, Connected, Pending, OnItsWay, Single

LEMMA ExpireAgrees == TypeOK /\ Agree /\ Expire => Agree'
<1> SUFFICES ASSUME TypeOK, Agree, Expire PROVE Agree'
  OBVIOUS
<1>1. Shortened(posted, posted', Head(posted))
  BY TailShortens DEF TypeOK, Expire
<1>2. Lengthened(queue, queue', Head(posted))
  BY AppendLengthens, Streams, Alphabets DEF TypeOK, Expire
<1>3. Head(posted) # "T300"
  BY Streams DEF Expire, Kinds
<1>4. SetupInv'
  BY <1>1, <1>2, <1>3, SMTT(60) DEF Expire, station, counters, restarts, Shortened, Lengthened,
     Agree, SetupInv, ReconfInv, ReleaseInv, TimerInv, LeftInv, Connected, Pending, OnItsWay, Single
<1>5. ReconfInv'
  BY <1>1, <1>2, <1>3, SMTT(60) DEF Expire, station, counters, restarts, Shortened, Lengthened,
     Agree, SetupInv, ReconfInv, ReleaseInv, TimerInv, LeftInv, Connected, Pending, OnItsWay, Single
<1>6. ReleaseInv'
  BY <1>1, <1>2, <1>3, SMTT(60) DEF Expire, station, counters, restarts, Shortened, Lengthened,
     Agree, SetupInv, ReconfInv, ReleaseInv, TimerInv, LeftInv, Connected, Pending, OnItsWay, Single
<1>7. TimerInv'
  BY <1>1, <1>2, <1>3, SMTT(60) DEF Expire, station, counters, restarts, Shortened, Lengthened,
     Agree, SetupInv, ReconfInv, ReleaseInv, TimerInv, LeftInv, Connected, Pending, OnItsWay, Single
<1>8. LeftInv'
  BY <1>1, <1>2, <1>3, SMTT(60) DEF Expire, station, counters, restarts, Shortened, Lengthened,
     Agree, SetupInv, ReconfInv, ReleaseInv, TimerInv, LeftInv, Connected, Pending, OnItsWay, Single
<1> QED BY <1>4, <1>5, <1>6, <1>7, <1>8 DEF Agree

LEMMA ExpireT300Agrees == TypeOK /\ Agree /\ ExpireT300 => Agree'
<1> SUFFICES ASSUME TypeOK, Agree, ExpireT300 PROVE Agree'
  OBVIOUS
<1>1. Lengthened(queue, queue', "T300")
  BY AppendLengthens, Alphabets DEF TypeOK, ExpireT300
<1> QED BY <1>1, SMTT(60)
     DEF ExpireT300, station, counters, restarts, Lengthened,
     Agree, SetupInv, ReconfInv, ReleaseInv, TimerInv, LeftInv, Connected, Pending, OnItsWay, Single

LEMMA ExpireSuccessAgrees == TypeOK /\ Agree /\ ExpireSuccess => Agree'
<1> SUFFICES ASSUME TypeOK, Agree, ExpireSuccess PROVE Agree'
  OBVIOUS
<1>1. Lengthened(queue, queue', "SUCCESS")
  BY AppendLengthens, Alphabets DEF TypeOK, ExpireSuccess
<1> QED BY <1>1, SMTT(60)
     DEF ExpireSuccess, station, counters, restarts, Lengthened,
     Agree, SetupInv, ReconfInv, ReleaseInv, TimerInv, LeftInv, Connected, Pending, OnItsWay, Single

LEMMA UserConnectsAgrees == TypeOK /\ Agree /\ UserConnects => Agree'
<1> SUFFICES ASSUME TypeOK, Agree, UserConnects PROVE Agree'
  OBVIOUS
<1>1. Lengthened(queue, queue', "CONN_REQ")
  BY AppendLengthens, Alphabets DEF TypeOK, UserConnects
<1> QED BY <1>1, SMTT(60)
     DEF UserConnects, station, restarts, Lengthened,
     Agree, SetupInv, ReconfInv, ReleaseInv, TimerInv, LeftInv, Connected, Pending, OnItsWay, Single

LEMMA UserReleasesAgrees == TypeOK /\ Agree /\ UserReleases => Agree'
<1> SUFFICES ASSUME TypeOK, Agree, UserReleases PROVE Agree'
  OBVIOUS
<1>1. Lengthened(queue, queue', "RELEASE")
  BY AppendLengthens, Alphabets DEF TypeOK, UserReleases
<1>2. releases' # 0
  BY BoundsAssumption DEF TypeOK, UserReleases
<1> QED BY <1>1, <1>2, SMTT(60)
     DEF UserReleases, station, restarts, Lengthened,
     Agree, SetupInv, ReconfInv, ReleaseInv, TimerInv, LeftInv, Connected, Pending, OnItsWay, Single

LEMMA TransitToIdleConnectingAgrees == TypeOK /\ Agree /\ transit_to_idle_connecting => Agree'
<1> SUFFICES ASSUME TypeOK, Agree, transit_to_idle_connecting PROVE Agree'
  OBVIOUS
<1>1. Shortened(queue, queue', "CONN_REQ") /\ ue = "idle"
  BY HandlesTakes, TestedWhere DEF transit_to_idle_connecting
<1>2. Lengthened(up, up', "REQUEST")
  BY AppendLengthens, Alphabets DEF TypeOK, transit_to_idle_connecting
<1> QED BY <1>1, <1>2, SMTT(60)
     DEF transit_to_idle_connecting, T300Started, station, counters, restarts, Shortened, Lengthened,
     Agree, SetupInv, ReconfInv, ReleaseInv, TimerInv, LeftInv, Connected, Pending, OnItsWay, Single

LEMMA T300TimeoutAgrees == TypeOK /\ Agree /\ t300_timeout => Agree'
<1> SUFFICES ASSUME TypeOK, Agree, t300_timeout PROVE Agree'
  OBVIOUS
<1>1. Shortened(queue, queue', "T300") /\ ue = "connecting"
  BY HandlesTakes, TestedWhere DEF t300_timeout
<1> QED BY <1>1, SMTT(60)
     DEF t300_timeout, station, counters, restarts, Shortened,
     Agree, SetupInv, ReconfInv, ReleaseInv, TimerInv, LeftInv, Connected, Pending, OnItsWay, Single

LEMMA RcvRrcConnSetupAgrees == TypeOK /\ Agree /\ rcv_rrc_conn_setup => Agree'
<1> SUFFICES ASSUME TypeOK, Agree, rcv_rrc_conn_setup PROVE Agree'
  OBVIOUS
<1>1. Shortened(queue, queue', "SETUP") /\ ue = "connecting"
  BY HandlesTakes, TestedWhere DEF rcv_rrc_conn_setup
<1>2. "SETUP" \in held
  BY <1>1 DEF Agree, SetupInv, Pending, Shortened
<1>3. Lengthened(up, up', "SETUP_COMPLETE")
  BY <1>2, AppendLengthens, Alphabets DEF TypeOK, rcv_rrc_conn_setup
<1>4. releases = 0 => ~In("RELEASE", queue') /\ NotBehind("RELEASE", "T300", queue')
  BY <1>1, NothingBehindAbsent DEF Agree, ReleaseInv, Shortened
<1>5. SetupInv'
  BY <1>1, <1>2, <1>3, <1>4, SMTT(60) DEF rcv_rrc_conn_setup, Freed, station, counters, restarts, Shortened, Lengthened,
     Agree, SetupInv, ReconfInv, ReleaseInv, TimerInv, LeftInv, Connected, Pending, OnItsWay, Single
<1>6. ReconfInv'
  BY <1>1, <1>2, <1>3, <1>4, SMTT(60) DEF rcv_rrc_conn_setup, Freed, station, counters, restarts, Shortened, Lengthened,
     Agree, SetupInv, ReconfInv, ReleaseInv, TimerInv, LeftInv, Connected, Pending, OnItsWay, Single
<1>7. ReleaseInv'
  BY <1>1, <1>2, <1>3, <1>4, SMTT(60) DEF rcv_rrc_conn_setup, Freed, station, counters, restarts, Shortened, Lengthened,
     Agree, SetupInv, ReconfInv, ReleaseInv, TimerInv, LeftInv, Connected, Pending, OnItsWay, Single
<1>8. TimerInv'
  BY <1>1, <1>2, <1>3, <1>4, SMTT(60) DEF rcv_rrc_conn_setup, Freed, station, counters, restarts, Shortened, Lengthened,
     Agree, SetupInv, ReconfInv, ReleaseInv, TimerInv, LeftInv, Connected, Pending, OnItsWay, Single
<1>9. LeftInv'
  BY <1>1, <1>2, <1>3, <1>4, SMTT(60) DEF rcv_rrc_conn_setup, Freed, station, counters, restarts, Shortened, Lengthened,
     Agree, SetupInv, ReconfInv, ReleaseInv, TimerInv, LeftInv, Connected, Pending, OnItsWay, Single
<1> QED BY <1>5, <1>6, <1>7, <1>8, <1>9 DEF Agree

LEMMA RcvRrcConnReconfAgrees == TypeOK /\ Agree /\ rcv_rrc_conn_reconf => Agree'
<1> SUFFICES ASSUME TypeOK, Agree, rcv_rrc_conn_reconf PROVE Agree'
  OBVIOUS
<1>1. Shortened(queue, queue', "RECONF") /\ ue = "connected"
  BY HandlesTakes, TestedWhere DEF rcv_rrc_conn_reconf
<1> QED BY <1>1, SMTT(60)
     DEF rcv_rrc_conn_reconf, station, counters, restarts, Shortened,
     Agree, SetupInv, ReconfInv, ReleaseInv, TimerInv, LeftInv, Connected, Pending, OnItsWay, Single

LEMMA ReconfigSuccessAgrees == TypeOK /\ Agree /\ reconfig_success => Agree'
<1> SUFFICES ASSUME TypeOK, Agree, reconfig_success PROVE Agree'
  OBVIOUS
<1>1. Shortened(queue, queue', "SUCCESS") /\ ue = "reconf"
  BY HandlesTakes, TestedWhere DEF reconfig_success
<1>2. "RECONF" \in held => Lengthened(up, up', "RECONF_COMPLETE")
  BY AppendLengthens, Alphabets DEF TypeOK, reconfig_success
<1> QED BY <1>1, <1>2, SMTT(60)
     DEF reconfig_success, Freed, station, counters, restarts, Shortened, Lengthened,
     Agree, SetupInv, ReconfInv, ReleaseInv, TimerInv, LeftInv, Connected, Pending, OnItsWay, Single

LEMMA RcvRrcConnReleaseAgrees == TypeOK /\ Agree /\ rcv_rrc_conn_release => Agree'
<1> SUFFICES ASSUME TypeOK, Agree, rcv_rrc_conn_release PROVE Agree'
  OBVIOUS
<1>1. Shortened(queue, queue', "RELEASE") /\ ue = "connected"
  BY HandlesTakes, TestedWhere DEF rcv_rrc_conn_release
<1>2. releases = 0 => "RELEASE" \in held /\ ~Pending("RELEASE")' /\ ~Connected
  BY <1>1 DEF Agree, ReleaseInv, Single, OnItsWay, Pending, Shortened, rcv_rrc_conn_release
<1>3. releases = 0 => Single("RELEASE")'
  BY <1>1, SMTT(60) DEF rcv_rrc_conn_release, Agree, ReleaseInv, Single, Pending, Shortened
<1>4. releases = 0 => /\ NotBehind("SETUP", "RELEASE", queue')
                      /\ In("SETUP", queue') => In("SETUP", queue)
  BY <1>1 DEF Agree, ReleaseInv, Shortened
<1>5. UNCHANGED <<posted, down, up, enb, releases, reloaded>> /\ (releases = 0 => ~oops')
  BY <1>2 DEF rcv_rrc_conn_release, station, counters, restarts
<1>6. SetupInv'
  BY <1>1, <1>2, <1>3, <1>4, <1>5, SMTT(60) DEF rcv_rrc_conn_release, Freed, station, counters, restarts, Shortened,
     Agree, SetupInv, ReconfInv, ReleaseInv, TimerInv, LeftInv, Connected, Pending, OnItsWay, Single
<1>7. ReconfInv'
  BY <1>1, <1>2, <1>3, <1>4, <1>5, SMTT(60) DEF rcv_rrc_conn_release, Freed, station, counters, restarts, Shortened,
     Agree, SetupInv, ReconfInv, ReleaseInv, TimerInv, LeftInv, Connected, Pending, OnItsWay, Single
<1>8. ReleaseInv'
  BY <1>1, <1>2, <1>3, <1>4, <1>5, SMTT(60) DEF OnItsWay,
     Agree, ReleaseInv, Connected, Pending
<1>9. TimerInv'
  BY <1>1, <1>2, <1>3, <1>4, <1>5, SMTT(60) DEF rcv_rrc_conn_release, Freed, station, counters, restarts, Shortened,
     Agree, SetupInv, ReconfInv, ReleaseInv, TimerInv, LeftInv, Connected, Pending, OnItsWay, Single
<1>10. LeftInv'
  BY <1>1, <1>2, <1>3, <1>4, <1>5, SMTT(60) DEF rcv_rrc_conn_release, Freed, station, counters, restarts, Shortened,
     Agree, SetupInv, ReconfInv, ReleaseInv, TimerInv, LeftInv, Connected, Pending, OnItsWay, Single
<1> QED BY <1>6, <1>7, <1>8, <1>9, <1>10 DEF Agree

LEMMA OtherEventsAgrees == TypeOK /\ Agree /\ other_events => Agree'
<1> SUFFICES ASSUME TypeOK, Agree, other_events PROVE Agree'
  OBVIOUS
<1>1. Shortened(queue, queue', Head(queue)) /\ Head(queue) \notin Tested(ue)
  BY TailShortens DEF TypeOK, other_events
<1>2. Head(queue) = "SETUP" => ue # "connecting"
  BY <1>1 DEF Tested
<1> QED BY <1>1, <1>2, SMTT(60)
     DEF other_events, Kinds, Tested, station, counters, restarts, Shortened,
     Agree, SetupInv, ReconfInv, ReleaseInv, TimerInv, LeftInv, Connected, Pending, OnItsWay, Single

LEMMA ReopenAgrees == TypeOK /\ Agree /\ Reopen => Agree'
<1> SUFFICES ASSUME TypeOK, Agree, Reopen PROVE Agree'
  OBVIOUS
<1>1. Pending("RELEASE") => "RELEASE" \in missed'
  BY PendingIsThere DEF Reopen, Kinds
<1>2. SetupInv'
  BY <1>1, NothingInEmpty, SMTT(60) DEF Reopen, Kinds, station,
     Agree, SetupInv, ReconfInv, ReleaseInv, TimerInv, LeftInv, Connected, Pending, OnItsWay, Single
<1>3. ReconfInv'
  BY <1>1, NothingInEmpty, SMTT(60) DEF Reopen, Kinds, station,
     Agree, SetupInv, ReconfInv, ReleaseInv, TimerInv, LeftInv, Connected, Pending, OnItsWay, Single
<1>4. ReleaseInv'
  BY <1>1, NothingInEmpty, SMTT(60) DEF Reopen, Kinds, station,
     Agree, SetupInv, ReconfInv, ReleaseInv, TimerInv, LeftInv, Connected, Pending, OnItsWay, Single
<1>5. TimerInv'
  BY <1>1, NothingInEmpty, SMTT(60) DEF Reopen, Kinds, station,
     Agree, SetupInv, ReconfInv, ReleaseInv, TimerInv, LeftInv, Connected, Pending, OnItsWay, Single
<1>6. LeftInv'
  BY <1>1, NothingInEmpty, SMTT(60) DEF Reopen, Kinds, station,
     Agree, SetupInv, ReconfInv, ReleaseInv, TimerInv, LeftInv, Connected, Pending, OnItsWay, Single
<1> QED BY <1>2, <1>3, <1>4, <1>5, <1>6 DEF Agree

LEMMA ReloadAgrees == TypeOK /\ Agree /\ Reload => Agree'
<1> SUFFICES ASSUME TypeOK, Agree, Reload PROVE Agree'
  OBVIOUS
<1>1. Lengthened(up, up', "REQUEST")
  BY AppendLengthens, Alphabets DEF TypeOK, Reload
<1> QED BY <1>1, NothingInEmpty, SMTT(60)
     DEF Reload, station, Lengthened,
     Agree, SetupInv, ReconfInv, ReleaseInv, TimerInv, LeftInv, Connected, Pending, OnItsWay, Single

LEMMA RcvRrcConnRequsetAgrees == TypeOK /\ Agree /\ rcv_rrc_conn_requset => Agree'
<1> SUFFICES ASSUME TypeOK, Agree, rcv_rrc_conn_requset PROVE Agree'
  OBVIOUS
<1>1. Shortened(up, up', "REQUEST")
  BY ReceivesTakes DEF rcv_rrc_conn_requset
<1>2. Lengthened(down, down', "SETUP")
  BY AppendLengthens, Alphabets DEF TypeOK, rcv_rrc_conn_requset
<1> QED BY <1>1, <1>2, SMTT(60)
     DEF rcv_rrc_conn_requset, Receives, EnbTested, terminal, counters, restarts, Shortened, Lengthened,
     Agree, SetupInv, ReconfInv, ReleaseInv, TimerInv, LeftInv, Connected, Pending, OnItsWay, Single

LEMMA ResendSetupMsgAgrees == TypeOK /\ Agree /\ resend_setup_msg => Agree'
<1> SUFFICES ASSUME TypeOK, Agree, resend_setup_msg PROVE Agree'
  OBVIOUS
<1>1. Shortened(up, up', "REQUEST")
  BY ReceivesTakes DEF resend_setup_msg
<1>2. Lengthened(down, down', "RESENT")
  BY AppendLengthens, Alphabets DEF TypeOK, resend_setup_msg, Resent
<1> QED BY <1>1, <1>2, SMTT(60)
     DEF resend_setup_msg, Resent, Receives, EnbTested, terminal, counters, station, restarts, Shortened, Lengthened,
     Agree, SetupInv, ReconfInv, ReleaseInv, TimerInv, LeftInv, Connected, Pending, OnItsWay, Single

LEMMA RcvRrcConnSetupCompleteAgrees == TypeOK /\ Agree /\ rcv_rrc_conn_setup_complete => Agree'
<1> SUFFICES ASSUME TypeOK, Agree, rcv_rrc_conn_setup_complete PROVE Agree'
  OBVIOUS
<1>1. Shortened(up, up', "SETUP_COMPLETE")
  BY ReceivesTakes DEF rcv_rrc_conn_setup_complete
<1> QED BY <1>1, SMTT(60)
     DEF rcv_rrc_conn_setup_complete, Receives, EnbTested, terminal, counters, restarts, Shortened,
     Agree, SetupInv, ReconfInv, ReleaseInv, TimerInv, LeftInv, Connected, Pending, OnItsWay, Single

LEMMA RcvRrcConnReconfigCompleteAgrees == TypeOK /\ Agree /\ rcv_rrc_conn_reconfig_complete => Agree'
<1> SUFFICES ASSUME TypeOK, Agree, rcv_rrc_conn_reconfig_complete PROVE Agree'
  OBVIOUS
<1>1. Shortened(up, up', "RECONF_COMPLETE")
  BY ReceivesTakes DEF rcv_rrc_conn_reconfig_complete
<1> QED BY <1>1, SMTT(60)
     DEF rcv_rrc_conn_reconfig_complete, Receives, EnbTested, terminal, counters, restarts, Shortened,
     Agree, SetupInv, ReconfInv, ReleaseInv, TimerInv, LeftInv, Connected, Pending, OnItsWay, Single

LEMMA OtherMessageAgrees == TypeOK /\ Agree /\ OtherMessage => Agree'
<1> SUFFICES ASSUME TypeOK, Agree, OtherMessage PROVE Agree'
  OBVIOUS
<1>1. Shortened(up, up', Head(up))
  BY TailShortens DEF TypeOK, OtherMessage
<1> QED BY <1>1, SMTT(60)
     DEF OtherMessage, terminal, station, counters, restarts, Shortened,
     Agree, SetupInv, ReconfInv, ReleaseInv, TimerInv, LeftInv, Connected, Pending, OnItsWay, Single

LEMMA RrcConnReconfigAgrees == TypeOK /\ Agree /\ rrc_conn_reconfig => Agree'
<1> SUFFICES ASSUME TypeOK, Agree, rrc_conn_reconfig PROVE Agree'
  OBVIOUS
<1>1. enb = "normal" => Lengthened(down, down', "RECONF")
  BY AppendLengthens, Alphabets DEF TypeOK, rrc_conn_reconfig
<1> QED BY <1>1, SMTT(60)
     DEF rrc_conn_reconfig, terminal, counters, restarts, Lengthened,
     Agree, SetupInv, ReconfInv, ReleaseInv, TimerInv, LeftInv, Connected, Pending, OnItsWay, Single

LEMMA EnbReconfiguresAgrees == TypeOK /\ Agree /\ EnbReconfigures => Agree'
<1> SUFFICES ASSUME TypeOK, Agree, EnbReconfigures PROVE Agree'
  OBVIOUS
<1> QED BY SMTT(60)
     DEF EnbReconfigures, terminal, restarts,
     Agree, SetupInv, ReconfInv, ReleaseInv, TimerInv, LeftInv, Connected, Pending, OnItsWay, Single

LEMMA RrcConnReleaseAgrees == TypeOK /\ Agree /\ rrc_conn_release => Agree'
<1> SUFFICES ASSUME TypeOK, Agree, rrc_conn_release PROVE Agree'
  OBVIOUS
<1>1. Lengthened(down, down', "RELEASE")
  BY AppendLengthens, Alphabets DEF TypeOK, rrc_conn_release
<1> QED BY <1>1, SMTT(60)
     DEF rrc_conn_release, terminal, restarts, Lengthened,
     Agree, SetupInv, ReconfInv, ReleaseInv, TimerInv, LeftInv, Connected, Pending, OnItsWay, Single

LEMMA NextAgrees == TypeOK /\ Agree /\ [Next]_vars => Agree'
<1> SUFFICES ASSUME TypeOK, Agree, [Next]_vars PROVE Agree'
  OBVIOUS
<1>1. CASE LoseUp
  BY <1>1, LoseUpAgrees
<1>2. CASE LoseDown
  BY <1>2, LoseDownAgrees
<1>3. CASE rrc_messege_handler_rlc
  BY <1>3, RrcMessegeHandlerRlcAgrees
<1>4. CASE Expire
  BY <1>4, ExpireAgrees
<1>5. CASE ExpireT300
  BY <1>5, ExpireT300Agrees
<1>6. CASE ExpireSuccess
  BY <1>6, ExpireSuccessAgrees
<1>7. CASE UserConnects
  BY <1>7, UserConnectsAgrees
<1>8. CASE UserReleases
  BY <1>8, UserReleasesAgrees
<1>9. CASE transit_to_idle_connecting
  BY <1>9, TransitToIdleConnectingAgrees
<1>10. CASE t300_timeout
  BY <1>10, T300TimeoutAgrees
<1>11. CASE rcv_rrc_conn_setup
  BY <1>11, RcvRrcConnSetupAgrees
<1>12. CASE rcv_rrc_conn_reconf
  BY <1>12, RcvRrcConnReconfAgrees
<1>13. CASE reconfig_success
  BY <1>13, ReconfigSuccessAgrees
<1>14. CASE rcv_rrc_conn_release
  BY <1>14, RcvRrcConnReleaseAgrees
<1>15. CASE other_events
  BY <1>15, OtherEventsAgrees
<1>16. CASE Reopen
  BY <1>16, ReopenAgrees
<1>17. CASE Reload
  BY <1>17, ReloadAgrees
<1>18. CASE rcv_rrc_conn_requset
  BY <1>18, RcvRrcConnRequsetAgrees
<1>19. CASE resend_setup_msg
  BY <1>19, ResendSetupMsgAgrees
<1>20. CASE rcv_rrc_conn_setup_complete
  BY <1>20, RcvRrcConnSetupCompleteAgrees
<1>21. CASE rcv_rrc_conn_reconfig_complete
  BY <1>21, RcvRrcConnReconfigCompleteAgrees
<1>22. CASE OtherMessage
  BY <1>22, OtherMessageAgrees
<1>23. CASE rrc_conn_reconfig
  BY <1>23, RrcConnReconfigAgrees
<1>24. CASE EnbReconfigures
  BY <1>24, EnbReconfiguresAgrees
<1>25. CASE rrc_conn_release
  BY <1>25, RrcConnReleaseAgrees
<1>26. CASE UNCHANGED vars
  BY <1>26, AgreeStays
<1> QED BY <1>1, <1>2, <1>3, <1>4, <1>5, <1>6, <1>7, <1>8, <1>9, <1>10, <1>11, <1>12, <1>13, <1>14, <1>15, <1>16, <1>17, <1>18, <1>19, <1>20, <1>21, <1>22, <1>23, <1>24, <1>25, <1>26 DEF Next, Handler, Station

-----------------------------------------------------------------------------
(* Count, by what is in a stream.                                            *)

LEMMA CountPositive ==
  ASSUME NEW S, NEW s \in Seq(S), NEW x
  PROVE  /\ Count(x, s) \in Nat /\ (Count(x, s) > 0 <=> In(x, s))
         /\ In(x, s) /\ Once(x, s) => Count(x, s) = 1
<1> DEFINE at == {i \in 1 .. Len(s) : s[i] = x}
<1>1. IsFiniteSet(1 .. Len(s)) /\ at \subseteq 1 .. Len(s)
  BY FS_Interval
<1>2. IsFiniteSet(at)
  BY <1>1, FS_Subset
<1>3. Count(x, s) = Cardinality(at)
  <2>1. DOMAIN s = 1 .. Len(s)
    OBVIOUS
  <2> QED BY <2>1 DEF Count
<1>4. In(x, s) <=> at # {}
  BY DEF In
<1>5. ASSUME In(x, s), Once(x, s) PROVE Cardinality(at) = 1
  <2>1. PICK i \in 1 .. Len(s) : s[i] = x
    BY <1>5 DEF In
  <2>2. at = {i}
    BY <1>5, <2>1 DEF Once
  <2> QED BY <2>2, FS_Singleton
<1>6. Cardinality(at) \in Nat /\ (Cardinality(at) = 0 <=> at = {})
  BY <1>2, FS_CardinalityType, FS_EmptySet
<1> HIDE DEF at
<1> QED BY <1>3, <1>4, <1>5, <1>6

LEMMA InBoth ==
  ASSUME NEW S, NEW s \in Seq(S), NEW r \in Seq(S), NEW x
  PROVE  s \o r \in Seq(S) /\ (In(x, s \o r) <=> In(x, s) \/ In(x, r))
<1>1. /\ s \o r \in Seq(S) /\ Len(s \o r) = Len(s) + Len(r) /\ Len(s) \in Nat /\ Len(r) \in Nat
      /\ \A i \in 1 .. Len(s) : (s \o r)[i] = s[i]
      /\ \A i \in 1 .. Len(r) : (s \o r)[Len(s) + i] = r[i]
  OBVIOUS
<1>2. In(x, s) => In(x, s \o r)
  BY <1>1 DEF In
<1>3. ASSUME In(x, r) PROVE In(x, s \o r)
  <2>1. PICK i \in 1 .. Len(r) : r[i] = x
    BY <1>3 DEF In
  <2>2. Len(s) + i \in 1 .. Len(s \o r) /\ (s \o r)[Len(s) + i] = x
    BY <1>1, <2>1
  <2> QED BY <2>2 DEF In
<1>4. ASSUME In(x, s \o r) PROVE In(x, s) \/ In(x, r)
  <2>1. PICK i \in 1 .. Len(s \o r) : (s \o r)[i] = x
    BY <1>4 DEF In
  <2>2. CASE i \in 1 .. Len(s)
    BY <1>1, <2>1, <2>2 DEF In
  <2>3. CASE i \notin 1 .. Len(s)
    <3>1. i - Len(s) \in 1 .. Len(r) /\ r[i - Len(s)] = x
      BY <1>1, <2>1, <2>3
    <3> QED BY <3>1 DEF In
  <2> QED BY <2>2, <2>3
<1> QED BY <1>1, <1>2, <1>3, <1>4

\* The kinds on their way, counted.
LEMMA CountPending ==
  ASSUME TypeOK, NEW k
  PROVE  /\ Count(k, posted \o queue) > 0 <=> Pending(k)
         /\ Count(k, down \o posted \o queue) > 0 <=> OnItsWay(k)
<1> DEFINE All == Events \cup Down
<1>1. posted \in Seq(All) /\ queue \in Seq(All) /\ down \in Seq(All)
  BY Alphabets DEF TypeOK
<1> HIDE DEF All
<1>2. posted \o queue \in Seq(All) /\ (In(k, posted \o queue) <=> Pending(k))
  BY <1>1, InBoth DEF Pending
<1>3. down \o posted \in Seq(All) /\ (In(k, down \o posted) <=> In(k, down) \/ In(k, posted))
  BY <1>1, InBoth
<1>4. /\ down \o posted \o queue \in Seq(All)
      /\ In(k, down \o posted \o queue) <=> OnItsWay(k)
  BY <1>1, <1>3, InBoth DEF OnItsWay, Pending
<1> QED BY <1>2, <1>4, CountPositive

(* The streams, states and globals of both sides agree (RrcConnection): the    *)
(* strengthening the next three rest on.                                     *)
THEOREM AlwaysAgree == Spec => [](TypeOK /\ Agree)
<1>1. Init => TypeOK /\ Agree
  BY InitTypes, InitAgree
<1>2. (TypeOK /\ Agree) /\ [Next]_vars => (TypeOK /\ Agree)'
  <2>1. TypeOK /\ [Next]_vars => TypeOK'
    BY TerminalTypesKept, EventTypesKept, ChannelTypesKept, StationTypesKept, CounterTypesKept
    DEF TypeOK, TerminalTypes, EventTypes, ChannelTypes, StationTypes, CounterTypes
  <2> QED BY <2>1, NextAgrees
<1> QED BY <1>1, <1>2, PTL DEF Spec

(* One expiry of T300 is to come for an access, and none from before            *)
(* (rrcfsm.c, transit_to_idle_connecting and rcv_rrc_conn_setup).              *)
THEOREM AccessHasItsT300 == Spec => []T300OfAccess
<1>1. TypeOK /\ Agree => T300OfAccess
  <2> SUFFICES ASSUME TypeOK, Agree, releases = 0, ~reopened, ue = "connecting"
               PROVE  Count("T300", queue) + (IF t300 = "runs" THEN 1 ELSE 0) = 1
    BY DEF T300OfAccess
  <2>1. queue \in Seq(Events)
    BY DEF TypeOK
  <2>2. /\ Count("T300", queue) \in Nat /\ (Count("T300", queue) > 0 <=> In("T300", queue))
        /\ In("T300", queue) /\ Once("T300", queue) => Count("T300", queue) = 1
    BY <2>1, CountPositive
  <2>3. Once("T300", queue) /\ (t300 = "runs" <=> ~In("T300", queue))
    BY DEF Agree, TimerInv
  <2> QED BY <2>2, <2>3
<1> QED BY <1>1, AlwaysAgree, PTL

(* An event of a message finds the message, so that nothing the base station    *)
(* sends makes the terminal read through NULL (rrc_messege_handler_rlc).       *)
THEOREM EventsHaveMessages == Spec => []EventHasMessage
<1>1. TypeOK /\ Agree => EventHasMessage
  <2> SUFFICES ASSUME TypeOK, Agree PROVE EventHasMessage
    OBVIOUS
  <2>1. \A k : Count(k, posted \o queue) > 0 <=> Pending(k)
    BY CountPending
  <2>2. \A kind \in {"SETUP", "RECONF"} : Pending(kind) => kind \in held
    BY DEF Agree, SetupInv, ReconfInv
  <2>3. ue = "reconf" /\ ~reopened => "RECONF" \in held
    BY DEF Agree, ReconfInv
  <2>4. releases = 0 => ~oops /\ (Pending("RELEASE") => "RELEASE" \in held)
    BY DEF Agree, ReleaseInv
  <2>5. releases \in Nat
    BY BoundsAssumption DEF TypeOK
  <2> QED BY <2>1, <2>2, <2>3, <2>4, <2>5 DEF EventHasMessage
<1> QED BY <1>1, AlwaysAgree, PTL

(* The machines of the terminal and of the base station disagree only where a  *)
(* message is missed or on its way, or where the terminal's user acted, which    *)
(* nobody reports (rrcfsm_enb_ue.c, rrc_conn_release).                         *)
THEOREM MachinesInStep == Spec => []InStep
<1>1. TypeOK /\ Agree => InStep
  BY CountPending DEF InStep, Agree, ReleaseInv, LeftInv, Connected, OnItsWay
<1> QED BY <1>1, AlwaysAgree, PTL
=============================================================================
