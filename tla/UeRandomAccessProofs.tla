------------------------ MODULE UeRandomAccessProofs ------------------------
(* Safety of UeRandomAccess for every number of preambles and of pending        *)
(* events. An operator that stays in the state of the machine keeps what the     *)
(* invariant speaks of (Keeps); the handlers that change it are taken one by one. *)
EXTENDS UeRandomAccess, TLAPS

-----------------------------------------------------------------------------
(* The invariant, of a machine m.                                              *)

\* The terminal in an access has a timer, or the verdict of one is queued.
Moving(m) ==
  m.st = "cra" =>
    Flag(m, "window") \/ Flag(m, "ta") \/ Queued(m, {"rarOk", "raFail"})

Expiring(m) ==
  /\ m.handle["ta"] = "lapsed" => Queued(m, {"ta"})
  /\ m.st = "cra" /\ m.handle["window"] = "lapsed" => Queued(m, {"window"})

Clean(m) ==
  ~m.sendmsg3 /\ ~m.tcrnti /\ ~m.msg3 /\ m.alloc = 0 /\ m.counter = 0

Good(m) ==
  /\ m \in State
  /\ Moving(m)
  /\ Expiring(m)
  /\ m.st = "con" => Clean(m)

\* n is m some calls later: the state is the same, the window too, the alignment
\* timer at most restarted, and no event is gone.
Later(m, n) ==
  /\ n \in State
  /\ n.st = m.st
  /\ n.handle["window"] = m.handle["window"]
  /\ n.handle["ta"] \in {m.handle["ta"], "running"}
  /\ \A E : Queued(m, E) => Queued(n, E)

Keeps(m, n) == Later(m, n) /\ (Clean(m) => Clean(n))

\* Only timers differ.
SameData(m, n) ==
  /\ n.st = m.st /\ n.crnti = m.crnti /\ n.tcrnti = m.tcrnti
  /\ n.counter = m.counter /\ n.sendmsg3 = m.sendmsg3 /\ n.alloc = m.alloc
  /\ n.msg3 = m.msg3 /\ n.evq = m.evq

-----------------------------------------------------------------------------
(* Events and timers.                                                          *)

\* The same queue holds the same events.
LEMMA SameQueue ==
  ASSUME NEW m, NEW n, n.evq = m.evq
  PROVE  \A E : Queued(m, E) <=> Queued(n, E)
BY DEF Queued

\* Posting adds its event and loses none.
LEMMA PostFacts ==
  ASSUME NEW m \in State, NEW e \in Event
  PROVE  /\ Post(m, e) \in State
         /\ \A E : Queued(m, E) => Queued(Post(m, e), E)
         /\ \A E : e \in E => Queued(Post(m, e), E)
         /\ Post(m, e).st = m.st /\ Post(m, e).handle = m.handle
         /\ Clean(m) => Clean(Post(m, e))
<1> DEFINE q == Append(m.evq, e)
<1>1. m.evq \in Seq(Event) /\ q \in Events
  BY DEF State, Events
<1>2. /\ Post(m, e) \in State /\ Post(m, e).evq = q
      /\ Post(m, e).st = m.st /\ Post(m, e).handle = m.handle
      /\ Clean(m) => Clean(Post(m, e))
  BY <1>1 DEF Post, State, Clean
<1>3. /\ Len(q) = Len(m.evq) + 1 /\ q[Len(q)] = e
      /\ \A i \in 1..Len(m.evq) : q[i] = m.evq[i]
  BY <1>1
<1>4. DOMAIN m.evq = 1..Len(m.evq) /\ DOMAIN q = 1..Len(q) /\ Len(m.evq) \in Nat
  BY <1>1 DEF Events
<1> HIDE DEF q
<1>5. ASSUME NEW E, Queued(m, E) PROVE Queued(Post(m, e), E)
  BY <1>2, <1>3, <1>4, <1>5 DEF Queued
<1>6. ASSUME NEW E, e \in E PROVE Queued(Post(m, e), E)
  BY <1>2, <1>3, <1>4, <1>6 DEF Queued
<1> QED BY <1>2, <1>5, <1>6

\* Drop, Cancel, Arm and Restart write one handle, and data only.
LEMMA DropFacts ==
  ASSUME NEW m \in State, NEW k \in Timer
  PROVE  /\ Drop(m, k) \in State
         /\ SameData(m, Drop(m, k))
         /\ Drop(m, k).handle = [m.handle EXCEPT ![k] = "none"]
<1> DEFINE h == [m.handle EXCEPT ![k] = "none"]
           l == [m.loose EXCEPT ![k] = IF m.handle[k] = "running" THEN m.loose[k] + 1
                                                                  ELSE m.loose[k]]
<1>1. h \in Handles
  BY DEF State, Handles
<1>2. l \in Counts
  BY DEF State, Counts, Timer
<1>3. Drop(m, k) = [m EXCEPT !.handle = h, !.loose = l]
  BY DEF State, Drop
<1> HIDE DEF h, l
<1>4. Drop(m, k) \in State /\ SameData(m, Drop(m, k)) /\ Drop(m, k).handle = h
  BY <1>1, <1>2, <1>3 DEF State, SameData
<1> QED BY <1>4 DEF h

LEMMA SetFacts ==
  ASSUME NEW m \in State, NEW k \in Timer, NEW v \in {"none", "running", "lapsed"}
  PROVE  LET n == [m EXCEPT !.handle[k] = v]
         IN  n \in State /\ SameData(m, n) /\ n.handle = [m.handle EXCEPT ![k] = v]
<1>1. [m.handle EXCEPT ![k] = v] \in Handles
  BY DEF State, Handles
<1> QED BY <1>1 DEF State, SameData

LEMMA ArmFacts ==
  ASSUME NEW m \in State, NEW k \in Timer
  PROVE  /\ Arm(m, k) \in State
         /\ SameData(m, Arm(m, k))
         /\ Arm(m, k).handle = [m.handle EXCEPT ![k] = "running"]
<1> DEFINE d == Drop(m, k)
<1>1. d \in State /\ SameData(m, d) /\ d.handle = [m.handle EXCEPT ![k] = "none"]
  BY DropFacts
<1>2. Arm(m, k) = [d EXCEPT !.handle[k] = "running"]
  BY DEF Arm
<1> HIDE DEF d
<1>3. /\ Arm(m, k) \in State /\ SameData(d, Arm(m, k))
      /\ Arm(m, k).handle = [d.handle EXCEPT ![k] = "running"]
  BY <1>1, <1>2, SetFacts
<1>4. m.handle \in Handles
  BY DEF State
<1>5. Arm(m, k).handle = [m.handle EXCEPT ![k] = "running"]
  BY <1>1, <1>3, <1>4 DEF Handles
<1>6. SameData(m, Arm(m, k))
  BY <1>1, <1>3 DEF SameData
<1> QED BY <1>3, <1>5, <1>6

LEMMA StartLaterFacts ==
  ASSUME NEW m \in State
  PROVE  /\ StartLater(m) \in State
         /\ SameData(m, StartLater(m))
         /\ StartLater(m).handle = m.handle
<1>1. [m.loose EXCEPT !["start"] = @ + 1] \in Counts
  BY DEF State, Counts
<1> QED BY <1>1 DEF State, SameData, StartLater

-----------------------------------------------------------------------------
(* Later and Keeps.                                                            *)

LEMMA KeepsChain ==
  ASSUME NEW m, NEW n, NEW r, Keeps(m, n), Keeps(n, r)
  PROVE  Keeps(m, r)
BY DEF Keeps, Later

LEMMA KeepsItself ==
  ASSUME NEW m \in State
  PROVE  Keeps(m, m)
BY DEF Keeps, Later

\* What keeps a good machine leaves it good.
LEMMA GoodKept ==
  ASSUME NEW m, NEW n, Good(m), Keeps(m, n)
  PROVE  Good(n)
BY DEF Good, Keeps, Later, Moving, Expiring, Flag

\* The contention timer, and a restart of the alignment timer, are of no concern.
LEMMA TimerKept ==
  ASSUME NEW m \in State, NEW n \in State, NEW k \in {"cr", "ta"},
         NEW v \in {"none", "running", "lapsed"},
         SameData(m, n), n.handle = [m.handle EXCEPT ![k] = v],
         k = "cr" \/ v = "running"
  PROVE  Keeps(m, n)
<1>1. m.handle \in Handles /\ n.handle \in Handles
  BY DEF State
<1>2. /\ n.handle["window"] = m.handle["window"]
      /\ n.handle["ta"] \in {m.handle["ta"], "running"}
  BY <1>1 DEF Handles, Timer
<1>3. \A E : Queued(m, E) => Queued(n, E)
  BY SameQueue DEF SameData
<1>4. Clean(m) => Clean(n)
  BY DEF Clean, SameData
<1> QED BY <1>2, <1>3, <1>4 DEF Keeps, Later, SameData

LEMMA PostKept ==
  ASSUME NEW m \in State, NEW e \in Event
  PROVE  Keeps(m, Post(m, e))
BY PostFacts DEF Keeps, Later

LEMMA CancelCrKept ==
  ASSUME NEW m \in State
  PROVE  Keeps(m, Cancel(m, "cr"))
BY SetFacts, TimerKept DEF Cancel, Timer

LEMMA RestartTaKept ==
  ASSUME NEW m \in State
  PROVE  Keeps(m, Restart(m, "ta"))
BY SetFacts, TimerKept DEF Restart, Timer

LEMMA ArmKept ==
  ASSUME NEW m \in State, NEW k \in {"cr", "ta"}
  PROVE  Keeps(m, Arm(m, k))
<1>1. k \in Timer
  BY DEF Timer
<1> QED BY <1>1, ArmFacts, TimerKept

\* A later machine may have other data.
LEMMA FieldsKept ==
  ASSUME NEW m \in State, NEW n \in State,
         n.st = m.st, n.handle = m.handle, n.evq = m.evq
  PROVE  Later(m, n)
BY SameQueue DEF Later

-----------------------------------------------------------------------------
(* The functions that stay in the state of the machine.                        *)

LEMMA send_msg3Later ==
  ASSUME NEW m \in State
  PROVE  Later(m, send_msg3(m))
<1> DEFINE a == m.msg3 \/ m.alloc = 1
           b == m.sendmsg3 \/ m.alloc = 1 \/ (m.alloc = 2 /\ m.msg3)
           n == [m EXCEPT !.msg3 = a, !.sendmsg3 = b]
<1>5. send_msg3(m) = Arm(n, "cr")
  BY DEF send_msg3
<1>6. a \in BOOLEAN /\ b \in BOOLEAN
  BY DEF State
<1> HIDE DEF a, b
<1>1. n \in State
  BY <1>6 DEF State
<1>2. n.st = m.st /\ n.handle = m.handle /\ n.evq = m.evq
  BY DEF State
<1> HIDE DEF n
<1>3. Later(m, n)
  BY <1>1, <1>2, FieldsKept
<1>4. Later(n, Arm(n, "cr"))
  BY <1>1, ArmKept DEF Keeps
<1> QED BY <1>5, <1>3, <1>4 DEF Later

LEMMA DoResourceAllocationKept ==
  ASSUME NEW m \in State, NEW data \in BOOLEAN
  PROVE  Keeps(m, DoResourceAllocation(m, data))
<1> DEFINE n == [m EXCEPT !.wait = FALSE]
<1>1. /\ n \in State /\ n.st = m.st /\ n.handle = m.handle /\ n.evq = m.evq
      /\ n.tcrnti = m.tcrnti /\ (Clean(m) => Clean(n))
  BY DEF State, Clean
<1>2. DoResourceAllocation(m, data) = IF data /\ m.tcrnti THEN send_msg3(n) ELSE n
  BY <1>1 DEF DoResourceAllocation
<1> HIDE DEF n
<1>3. Later(m, n)
  BY <1>1, FieldsKept
<1>4. Later(m, send_msg3(n))
  BY <1>1, <1>3, send_msg3Later DEF Later
<1>5. CASE data /\ m.tcrnti
  BY <1>2, <1>4, <1>5 DEF Keeps, Clean
<1>6. CASE ~(data /\ m.tcrnti)
  BY <1>1, <1>2, <1>3, <1>6 DEF Keeps
<1> QED BY <1>5, <1>6

LEMMA CraDefaultKept ==
  ASSUME NEW m \in State
  PROVE  Keeps(m, CraDefault(m))
BY PostKept, KeepsItself DEF CraDefault, Event, Posted

\* Data of no concern to the invariant.
LEMMA OtherKept ==
  ASSUME NEW m \in State, NEW w \in BOOLEAN, NEW g \in BOOLEAN, NEW p \in BOOLEAN,
         NEW d \in BOOLEAN, NEW h \in BOOLEAN
  PROVE  Keeps(m, [m EXCEPT !.wait = w, !.grant = g, !.pdcch = p, !.dataRa = d,
                            !.held = h])
<1> DEFINE n == [m EXCEPT !.wait = w, !.grant = g, !.pdcch = p, !.dataRa = d,
                          !.held = h]
<1>1. n \in State
  BY DEF State
<1>3. n.st = m.st /\ n.handle = m.handle /\ n.evq = m.evq
  BY DEF State
<1>4. Clean(m) => Clean(n)
  BY DEF State, Clean
<1> HIDE DEF n
<1>2. Keeps(m, n)
  BY <1>1, <1>3, <1>4, FieldsKept DEF Keeps
<1> QED BY <1>2 DEF n

LEMMA GrantKept ==
  ASSUME NEW m \in State, NEW g \in BOOLEAN
  PROVE  Keeps(m, [m EXCEPT !.grant = g])
<1>1. [m EXCEPT !.grant = g] \in State
  BY DEF State
<1>2. Clean(m) => Clean([m EXCEPT !.grant = g])
  BY DEF State, Clean
<1>3. Later(m, [m EXCEPT !.grant = g])
  BY <1>1, FieldsKept DEF State
<1> QED BY <1>2, <1>3 DEF Keeps

LEMMA HeldKept ==
  ASSUME NEW m \in State
  PROVE  /\ Keeps(m, [m EXCEPT !.held = FALSE, !.grant = FALSE])
         /\ Keeps(m, [m EXCEPT !.held = FALSE])
<1>1. Keeps(m, [m EXCEPT !.held = FALSE])
  <2>1. [m EXCEPT !.held = FALSE] \in State
    BY DEF State
  <2>2. Clean(m) => Clean([m EXCEPT !.held = FALSE])
    BY DEF State, Clean
  <2>3. Later(m, [m EXCEPT !.held = FALSE])
    BY <2>1, FieldsKept DEF State
  <2> QED BY <2>2, <2>3 DEF Keeps
<1>2. Keeps(m, [m EXCEPT !.held = FALSE, !.grant = FALSE])
  <2> DEFINE n == [m EXCEPT !.held = FALSE]
  <2>1. n \in State
    BY DEF State
  <2>2. [m EXCEPT !.held = FALSE, !.grant = FALSE] = [n EXCEPT !.grant = FALSE]
    OBVIOUS
  <2> QED BY <1>1, <2>1, <2>2, GrantKept, KeepsChain
<1> QED BY <1>1, <1>2

LEMMA ConDefaultKept ==
  ASSUME NEW m \in State, NEW data \in BOOLEAN
  PROVE  Keeps(m, ConDefault(m, data))
<1> DEFINE n == IF m.wait /\ m.grant
                  THEN [DoResourceAllocation(m, data) EXCEPT !.grant = FALSE]
                  ELSE m
           s == [DoResourceAllocation(n, data) EXCEPT !.held = FALSE, !.grant = FALSE]
<1>1. Keeps(m, DoResourceAllocation(m, data))
  BY DoResourceAllocationKept
<1>2. Keeps(m, n)
  BY <1>1, GrantKept, KeepsChain, KeepsItself DEF Keeps, Later
<1>3. n \in State
  BY <1>2 DEF Keeps, Later
<1>4. ConDefault(m, data) =
        IF ~n.held THEN n ELSE IF data THEN s ELSE [n EXCEPT !.held = FALSE]
  BY DEF ConDefault
<1>5. Keeps(n, DoResourceAllocation(n, data))
  BY <1>3, DoResourceAllocationKept
<1> HIDE DEF n
<1>6. Keeps(n, s)
  BY <1>5, HeldKept, KeepsChain DEF Keeps, Later
<1>7. Keeps(n, [n EXCEPT !.held = FALSE])
  BY <1>3, HeldKept
<1> QED BY <1>2, <1>4, <1>6, <1>7, KeepsChain

LEMMA DefaultKept ==
  ASSUME NEW m \in State, NEW data \in BOOLEAN
  PROVE  Keeps(m, Default(m, data))
BY CraDefaultKept, ConDefaultKept, KeepsItself DEF Default

LEMMA PdcchKept ==
  ASSUME NEW m \in State, NEW p \in BOOLEAN
  PROVE  Keeps(m, [m EXCEPT !.pdcch = p])
<1>1. [m EXCEPT !.pdcch = p] \in State
  BY DEF State
<1>2. Clean(m) => Clean([m EXCEPT !.pdcch = p])
  BY DEF State, Clean
<1>3. Later(m, [m EXCEPT !.pdcch = p])
  BY <1>1, FieldsKept DEF State
<1> QED BY <1>2, <1>3 DEF Keeps

LEMMA Pdcch_c_rntiKept ==
  ASSUME NEW m \in State, NEW mine \in BOOLEAN
  PROVE  Keeps(m, Pdcch_c_rnti(m, mine))
<1> DEFINE n(p) == [m EXCEPT !.pdcch = p]
<1>1. \A p \in BOOLEAN : Keeps(m, n(p)) /\ n(p) \in State
  BY PdcchKept DEF Keeps, Later
<1>2. \A p \in BOOLEAN, e \in Event : Keeps(m, Post(n(p), e))
  BY <1>1, PostKept, KeepsChain
<1>3. Pdcch_c_rnti(m, mine) \in
        {m} \cup {n(p) : p \in BOOLEAN} \cup {Post(n(TRUE), "won"), Post(n(FALSE), "lost")}
  BY DEF Pdcch_c_rnti
<1> HIDE DEF n
<1> QED BY <1>1, <1>2, <1>3, KeepsItself DEF Event, Posted

-----------------------------------------------------------------------------
(* Packets that may end the state of the machine.                              *)

\* The answer to a contention leaves a good machine good, a stuck one included.
LEMMA ResolveContentionGood ==
  ASSUME NEW m, Good(m), NEW id
  PROVE  Good(ResolveContention(m, id))
<1>1. m \in State
  BY DEF Good
<1>2. CASE id = "none"
  BY <1>2 DEF ResolveContention
<1>3. CASE id # "none" /\ ~Flag(m, "cr")
  <2> DEFINE n == [m EXCEPT !.st = "stuck"]
  <2>1. n \in State
    BY <1>1 DEF State
  <2>2. n.st = "stuck" /\ n.handle = m.handle /\ n.evq = m.evq
    BY <1>1 DEF State
  <2>3. ResolveContention(m, id) = n
    BY <1>3 DEF ResolveContention
  <2> HIDE DEF n
  <2>4. \A E : Queued(m, E) => Queued(n, E)
    BY <2>2, SameQueue
  <2> QED BY <2>1, <2>2, <2>3, <2>4 DEF Good, Moving, Expiring
<1>4. CASE id # "none" /\ Flag(m, "cr")
  <2> DEFINE e == IF id = "mine" THEN "won" ELSE "lost"
  <2>1. ResolveContention(m, id) = Post(Cancel(m, "cr"), e)
    BY <1>4 DEF ResolveContention
  <2>2. e \in Event
    BY DEF Event, Posted
  <2>3. Keeps(m, Cancel(m, "cr")) /\ Cancel(m, "cr") \in State
    BY <1>1, CancelCrKept DEF Keeps, Later
  <2> HIDE DEF e
  <2>4. Keeps(m, Post(Cancel(m, "cr"), e))
    BY <2>2, <2>3, PostKept, KeepsChain
  <2> QED BY <2>1, <2>4, GoodKept
<1> QED BY <1>2, <1>3, <1>4

LEMMA decomplexUeDataPduGood ==
  ASSUME NEW m, Good(m), NEW mine \in BOOLEAN, NEW id, NEW ta \in BOOLEAN
  PROVE  Good(decomplexUeDataPdu(m, mine, id, ta))
<1> DEFINE n == ResolveContention(Pdcch_c_rnti(m, mine), id)
<1>1. Good(Pdcch_c_rnti(m, mine))
  BY Pdcch_c_rntiKept, GoodKept DEF Good
<1>2. Good(n)
  BY <1>1, ResolveContentionGood
<1>3. decomplexUeDataPdu(m, mine, id, ta) \in {n, Restart(n, "ta")}
  BY DEF decomplexUeDataPdu
<1> HIDE DEF n
<1>4. Good(Restart(n, "ta"))
  BY <1>2, RestartTaKept, GoodKept DEF Good
<1> QED BY <1>2, <1>3, <1>4

\* A response that closes the window posts what moves the access on.
LEMMA decomplexUeRARPduGood ==
  ASSUME NEW m, Good(m), m.st = "cra", NEW mine \in BOOLEAN
  PROVE  Good(decomplexUeRARPdu(m, mine))
<1> DEFINE c == Cancel(m, "window")
           t == [c EXCEPT !.tcrnti = TRUE, !.grant = TRUE]
<1>1. m \in State /\ m.handle \in Handles
  BY DEF Good, State
<1>2. c \in State /\ SameData(m, c) /\ c.handle = [m.handle EXCEPT !["window"] = "none"]
  BY <1>1, SetFacts DEF Cancel, Timer
<1>3. decomplexUeRARPdu(m, mine) \in {m, Post(t, "rarOk"), Post(c, "raFail")}
  BY DEF decomplexUeRARPdu
<1> HIDE DEF c
<1>4. t \in State
  BY <1>2 DEF State
<1>5. t.st = c.st /\ t.handle = c.handle /\ t.evq = c.evq
  BY <1>2 DEF State
<1> HIDE DEF t
<1>6. ASSUME NEW n \in State, NEW e \in {"rarOk", "raFail"},
             n.st = m.st, n.handle = c.handle, n.evq = m.evq
      PROVE  Good(Post(n, e))
  <2> DEFINE r == Post(n, e)
  <2>1. e \in Event
    BY DEF Event, Posted
  <2>2. /\ r \in State /\ r.st = "cra" /\ r.handle = c.handle
        /\ \A E : Queued(n, E) => Queued(r, E)
        /\ Queued(r, {"rarOk", "raFail"})
    BY <1>6, <2>1, PostFacts
  <2>3. \A E : Queued(m, E) => Queued(n, E)
    BY <1>6, SameQueue
  <2>4. r.handle["window"] = "none" /\ r.handle["ta"] = m.handle["ta"]
    BY <1>1, <1>2, <2>2 DEF Handles, Timer
  <2> HIDE DEF r
  <2>5. Good(r)
    BY <2>2, <2>3, <2>4 DEF Good, Moving, Expiring
  <2> QED BY <2>5 DEF r
<1> QED BY <1>2, <1>3, <1>4, <1>5, <1>6 DEF SameData

-----------------------------------------------------------------------------
(* The event at the head.                                                      *)

\* Taking the head loses no other event.
LEMMA RestFacts ==
  ASSUME TypeOK, mac.evq # <<>>
  PROVE  /\ Rest \in State
         /\ Rest.st = mac.st /\ Rest.handle = mac.handle
         /\ Clean(mac) => Clean(Rest)
         /\ \A E : Queued(mac, E) /\ Head(mac.evq) \notin E => Queued(Rest, E)
<1> DEFINE q == Tail(mac.evq)
<1>1. mac \in State /\ mac.evq \in Seq(Event) /\ q \in Events
  BY DEF TypeOK, State, Events
<1>2. Rest = [mac EXCEPT !.evq = q]
  BY DEF Rest
<1>3. \A i \in 1..Len(mac.evq) : i > 1 => i - 1 \in 1..Len(q) /\ q[i - 1] = mac.evq[i]
  BY <1>1
<1>4. DOMAIN mac.evq = 1..Len(mac.evq) /\ DOMAIN q = 1..Len(q) /\ Len(mac.evq) \in Nat
  BY <1>1 DEF Events
<1>5. Head(mac.evq) = mac.evq[1]
  BY <1>1
<1> HIDE DEF q
<1>6. Rest \in State
  BY <1>1, <1>2 DEF State
<1>7. Rest.st = mac.st /\ Rest.handle = mac.handle /\ Rest.evq = q
  BY <1>1, <1>2 DEF State
<1>8. Clean(mac) => Clean(Rest)
  BY <1>1, <1>2 DEF State, Clean
<1>9. ASSUME NEW E, Queued(mac, E), Head(mac.evq) \notin E
      PROVE  Queued(Rest, E)
  <2>1. PICK i \in 1..Len(mac.evq) : mac.evq[i] \in E
    BY <1>4, <1>9 DEF Queued
  <2>2. i > 1
    BY <1>5, <1>9, <2>1, <1>4
  <2> QED BY <1>3, <1>4, <1>7, <2>1, <2>2 DEF Queued
<1> QED BY <1>6, <1>7, <1>8, <1>9

-----------------------------------------------------------------------------
(* The handlers that change the state of the machine.                          *)

\* Idle, only the expiry of the alignment timer must be queued.
LEMMA IdleGood ==
  ASSUME NEW n \in State, n.st = "idle",
         n.handle["ta"] = "lapsed" => Queued(n, {"ta"})
  PROVE  Good(n)
BY DEF Good, Moving, Expiring

LEMMA CountFailureFacts ==
  ASSUME NEW m \in State
  PROVE  LET n == CountFailure(m)
         IN  n \in State /\ n.st = m.st /\ n.handle = m.handle /\ n.evq = m.evq
<1> DEFINE c == IF m.counter > PreambleMax + 1 THEN m.counter ELSE m.counter + 1
<1>1. c \in 0..(PreambleMax + 2)
  BY AccessAssumption DEF State
<1>2. CountFailure(m) = [m EXCEPT !.counter = c]
  BY DEF CountFailure
<1> HIDE DEF c
<1> QED BY <1>1, <1>2 DEF State

LEMMA StartAccessGood ==
  ASSUME Good(mac), StartAccess
  PROVE  Good(mac')
<1> DEFINE c == IF Rest.counter = 0 THEN 1 ELSE Rest.counter
           n == [Rest EXCEPT !.st = "cra", !.counter = c]
<1>1. /\ Rest \in State /\ Rest.handle = mac.handle /\ mac.handle \in Handles
      /\ Queued(mac, {"ta"}) => Queued(Rest, {"ta"})
  BY RestFacts DEF StartAccess, Takes, Good, TypeOK, State
<1>2. c \in 0..(PreambleMax + 2)
  BY <1>1, AccessAssumption DEF State
<1>3. mac' = Arm(n, "window")
  BY DEF StartAccess, DoStart
<1> HIDE DEF c
<1>4. n \in State
  BY <1>1, <1>2 DEF State
<1>5. n.st = "cra" /\ n.handle = Rest.handle /\ n.evq = Rest.evq
  BY <1>1 DEF State
<1> HIDE DEF n
<1>6. /\ mac' \in State /\ mac'.st = "cra" /\ mac'.evq = Rest.evq
      /\ mac'.handle = [n.handle EXCEPT !["window"] = "running"]
  BY <1>3, <1>4, <1>5, ArmFacts DEF SameData, Timer
<1>7. mac'.handle["window"] = "running" /\ mac'.handle["ta"] = mac.handle["ta"]
  BY <1>1, <1>5, <1>6 DEF Handles, Timer
<1>8. Queued(Rest, {"ta"}) => Queued(mac', {"ta"})
  BY <1>6, SameQueue
<1> QED BY <1>1, <1>6, <1>7, <1>8 DEF Good, Moving, Expiring, Flag

LEMMA TaExpiresGood ==
  ASSUME Good(mac), TaExpires
  PROVE  Good(mac')
<1> DEFINE d == Drop(Rest, "ta")
<1>1. Rest \in State /\ Rest.handle \in Handles
  BY RestFacts DEF TaExpires, Takes, Good, TypeOK, State
<1>2. d \in State /\ d.handle = [Rest.handle EXCEPT !["ta"] = "none"]
  BY <1>1, DropFacts DEF Timer
<1>3. mac' = [d EXCEPT !.st = "idle", !.grant = FALSE]
  BY DEF TaExpires, handle_timeAlignmentTimerExpire
<1> HIDE DEF d
<1>4. mac' \in State
  BY <1>2, <1>3 DEF State
<1>5. mac'.st = "idle" /\ mac'.handle = d.handle
  BY <1>2, <1>3 DEF State
<1>6. mac'.handle["ta"] = "none"
  BY <1>1, <1>2, <1>5 DEF Handles, Timer
<1> QED BY <1>4, <1>5, <1>6, IdleGood

\* Idle again after a failure, with or without another attempt to come.
LEMMA FailedGood ==
  ASSUME NEW m \in State, m.st = "idle",
         m.handle["ta"] = "lapsed" => Queued(m, {"ta"})
  PROVE  Good(m) /\ Good(StartLater(m))
<1>1. Good(m)
  BY IdleGood
<1>2. /\ StartLater(m) \in State /\ StartLater(m).st = "idle"
      /\ StartLater(m).handle = m.handle /\ StartLater(m).evq = m.evq
  BY StartLaterFacts DEF SameData
<1>3. \A E : Queued(m, E) => Queued(StartLater(m), E)
  BY <1>2, SameQueue
<1> QED BY <1>1, <1>2, <1>3, IdleGood

LEMMA ResponseFailsGood ==
  ASSUME Good(mac), ResponseFails
  PROVE  Good(mac')
<1> DEFINE d == Drop(Rest, "window")
           i == [d EXCEPT !.st = "idle"]
           n == CountFailure(i)
<1>1. /\ Rest \in State /\ Rest.handle = mac.handle /\ mac.handle \in Handles
      /\ Queued(mac, {"ta"}) => Queued(Rest, {"ta"})
  BY RestFacts DEF ResponseFails, Takes, Good, TypeOK, State
<1>2. /\ d \in State /\ d.evq = Rest.evq
      /\ d.handle = [Rest.handle EXCEPT !["window"] = "none"]
  BY <1>1, DropFacts DEF SameData, Timer
<1>3. mac' \in {n, StartLater(n)}
  BY DEF ResponseFails, C_RaResponseFailed
<1> HIDE DEF d
<1>4. i \in State
  BY <1>2 DEF State
<1>5. i.st = "idle" /\ i.handle = d.handle /\ i.evq = d.evq
  BY <1>2 DEF State
<1> HIDE DEF i
<1>6. n \in State /\ n.st = "idle" /\ n.handle = d.handle /\ n.evq = Rest.evq
  BY <1>2, <1>4, <1>5, CountFailureFacts
<1> HIDE DEF n
<1>7. n.handle["ta"] = mac.handle["ta"]
  BY <1>1, <1>2, <1>6 DEF Handles, Timer
<1>8. Queued(Rest, {"ta"}) => Queued(n, {"ta"})
  BY <1>6, SameQueue
<1> QED BY <1>1, <1>3, <1>6, <1>7, <1>8, FailedGood DEF Good, Expiring

LEMMA waitsending_msg3Later ==
  ASSUME NEW m \in State, NEW data \in BOOLEAN
  PROVE  LET n == waitsending_msg3(m, data)
         IN  Later(m, n) /\ n.handle["ta"] # "none"
<1> DEFINE n == RARTA_handleB(m)
           w == waitsending_msg3(m, data)
           a == [n EXCEPT !.alloc = 2]
           b == [n EXCEPT !.alloc = 1]
           r == DoResourceAllocation(b, data)
<1>1. n \in State /\ Later(m, n) /\ n.handle["ta"] # "none"
  <2>1. Keeps(m, n)
    BY ArmKept, KeepsItself DEF RARTA_handleB
  <2>2. CASE Flag(m, "ta")
    BY <2>1, <2>2 DEF RARTA_handleB, Keeps, Later, Flag
  <2>3. CASE ~Flag(m, "ta")
    <3>1. n = Arm(m, "ta") /\ m.handle \in Handles
      BY <2>3 DEF RARTA_handleB, State
    <3>2. n.handle = [m.handle EXCEPT !["ta"] = "running"]
      BY <3>1, ArmFacts DEF Timer
    <3>3. n.handle["ta"] = "running"
      BY <3>1, <3>2 DEF Handles, Timer
    <3> QED BY <2>1, <3>3 DEF Keeps, Later
  <2> QED BY <2>1, <2>2, <2>3 DEF Keeps, Later
<1>2. w \in {n, send_msg3(a), [r EXCEPT !.grant = FALSE]}
  BY DEF waitsending_msg3
<1> HIDE DEF n, w
<1>3. a \in State /\ b \in State
  BY <1>1 DEF State
<1>4. /\ a.st = n.st /\ a.handle = n.handle /\ a.evq = n.evq
      /\ b.st = n.st /\ b.handle = n.handle /\ b.evq = n.evq
  BY <1>1 DEF State
<1> HIDE DEF a, b
<1>5. Later(n, a) /\ Later(n, b)
  BY <1>1, <1>3, <1>4, FieldsKept
<1>6. Later(a, send_msg3(a)) /\ Later(b, r)
  BY <1>3, send_msg3Later, DoResourceAllocationKept DEF Keeps
<1>7. Later(r, [r EXCEPT !.grant = FALSE])
  BY <1>6, GrantKept DEF Keeps, Later
<1> HIDE DEF r
<1> DEFINE g == [r EXCEPT !.grant = FALSE]
<1>8. \A x : Later(n, x) => Later(m, x) /\ x.handle["ta"] # "none"
  BY <1>1 DEF Later
<1> HIDE DEF g
<1>9. Later(n, send_msg3(a)) /\ Later(n, g)
  BY <1>5, <1>6, <1>7 DEF Later, g
<1>10. Later(n, n)
  BY <1>1 DEF Later
<1>11. Later(n, w)
  BY <1>2, <1>9, <1>10 DEF g
<1> QED BY <1>8, <1>11 DEF w

LEMMA ResponseCameGood ==
  ASSUME Good(mac), NEW data \in BOOLEAN, ResponseCame(data)
  PROVE  Good(mac')
<1>1. /\ Rest \in State /\ Rest.st = "cra" /\ Rest.handle = mac.handle
      /\ Queued(mac, {"ta"}) => Queued(Rest, {"ta"})
      /\ Queued(mac, {"window"}) => Queued(Rest, {"window"})
      /\ mac.st = "cra"
  BY RestFacts DEF ResponseCame, Takes, Good, TypeOK
<1>2. Later(Rest, mac') /\ mac'.handle["ta"] # "none"
  BY <1>1, waitsending_msg3Later DEF ResponseCame
<1> QED BY <1>1, <1>2 DEF Good, Moving, Expiring, Later, Flag

LEMMA ContentionLostGood ==
  ASSUME Good(mac), ContentionLost
  PROVE  Good(mac')
<1> DEFINE d == Drop(Rest, "cr")
           c == Cancel(d, "ta")
           i == [c EXCEPT !.st = "idle", !.tcrnti = FALSE]
           n == CountFailure(i)
           g == [n EXCEPT !.sendmsg3 = FALSE, !.dataRa = FALSE,
                          !.pdcch = FALSE, !.alloc = 0]
           a == [n EXCEPT !.alloc = 1]
<1>1. Rest \in State
  BY RestFacts DEF ContentionLost, Takes, Good, TypeOK
<1>2. d \in State
  BY <1>1, DropFacts DEF Timer
<1>3. mac' \in {g, StartLater(a)}
  BY DEF ContentionLost, ContentionFailed
<1> HIDE DEF d
<1>4. c \in State /\ c.handle["ta"] = "none"
  <2>1. c \in State /\ c.handle = [d.handle EXCEPT !["ta"] = "none"]
    BY <1>2, SetFacts DEF Cancel, Timer
  <2>2. d.handle \in Handles
    BY <1>2 DEF State
  <2> QED BY <2>1, <2>2 DEF Handles, Timer
<1> HIDE DEF c
<1>5. i \in State
  BY <1>4 DEF State
<1>6. i.st = "idle" /\ i.handle = c.handle
  BY <1>4 DEF State
<1> HIDE DEF i
<1>7. n \in State /\ n.st = "idle" /\ n.handle = c.handle
  BY <1>5, <1>6, CountFailureFacts
<1> HIDE DEF n
<1>8. g \in State
  <2> DEFINE h == [n EXCEPT !.sendmsg3 = FALSE, !.dataRa = FALSE, !.pdcch = FALSE]
  <2>1. h \in State
    BY <1>7 DEF State
  <2>2. g = [h EXCEPT !.alloc = 0]
    OBVIOUS
  <2> HIDE DEF h, g
  <2> QED BY <2>1, <2>2 DEF State
<1>9. a \in State
  BY <1>7 DEF State
<1>10. g.st = "idle" /\ g.handle = c.handle /\ a.st = "idle" /\ a.handle = c.handle
  BY <1>7 DEF State
<1> HIDE DEF g, a
<1> QED BY <1>3, <1>4, <1>8, <1>9, <1>10, FailedGood

LEMMA ContentionWonGood ==
  ASSUME Good(mac), ContentionWon
  PROVE  Good(mac')
<1> DEFINE d == Drop(Rest, "cr")
<1>1. /\ Rest \in State /\ Rest.handle = mac.handle /\ Rest.handle \in Handles
      /\ Queued(mac, {"ta"}) => Queued(Rest, {"ta"})
  BY RestFacts DEF ContentionWon, Takes, Good, TypeOK, State
<1>2. /\ d \in State /\ d.evq = Rest.evq
      /\ d.handle = [Rest.handle EXCEPT !["cr"] = "none"]
  BY <1>1, DropFacts DEF SameData, Timer
<1>3. d.handle["ta"] = mac.handle["ta"]
  BY <1>1, <1>2 DEF Handles, Timer
<1> DEFINE c == d.crnti \/ Rest.tcrnti
<1>4. mac' = [d EXCEPT !.st = "con", !.counter = 0, !.alloc = 0, !.msg3 = FALSE,
                       !.crnti = c, !.tcrnti = FALSE,
                       !.sendmsg3 = FALSE, !.dataRa = FALSE, !.pdcch = FALSE]
  BY DEF ContentionWon, cra_success
<1>5. c \in BOOLEAN
  BY <1>1, <1>2 DEF State
<1> HIDE DEF d, c
<1>6. mac' \in State
  <2> DEFINE e == [d EXCEPT !.st = "con"]
             f == [e EXCEPT !.counter = 0]
             g == [f EXCEPT !.alloc = 0]
             h == [g EXCEPT !.msg3 = FALSE, !.crnti = c, !.tcrnti = FALSE]
  <2>1. mac' = [h EXCEPT !.sendmsg3 = FALSE, !.dataRa = FALSE, !.pdcch = FALSE]
    BY <1>4
  <2>2. e \in State
    BY <1>2 DEF State
  <2> HIDE DEF e
  <2>3. f \in State
    BY <2>2, AccessAssumption DEF State
  <2> HIDE DEF f
  <2>4. g \in State
    BY <2>3 DEF State
  <2> HIDE DEF g
  <2>5. h \in State
    BY <1>5, <2>4 DEF State
  <2> HIDE DEF h
  <2> QED BY <2>1, <2>5 DEF State
<1>7. mac'.st = "con" /\ mac'.handle = d.handle /\ mac'.evq = d.evq
  BY <1>2, <1>4 DEF State
<1>8. Clean(mac')
  BY <1>2, <1>4 DEF State, Clean
<1>9. Queued(Rest, {"ta"}) => Queued(mac', {"ta"})
  BY <1>2, <1>7, SameQueue
<1> QED BY <1>1, <1>3, <1>6, <1>7, <1>8, <1>9 DEF Good, Moving, Expiring

LEMMA IgnoreGood ==
  ASSUME Good(mac), NEW data \in BOOLEAN, Ignore(data)
  PROVE  Good(mac')
<1>1. /\ Rest \in State /\ Rest.st = mac.st /\ Rest.handle = mac.handle
      /\ Clean(mac) => Clean(Rest)
      /\ \A E : Queued(mac, E) /\ Head(mac.evq) \notin E => Queued(Rest, E)
  BY RestFacts DEF Ignore, Takes, Good, TypeOK
<1>2. Head(mac.evq) # "ta"
  BY DEF Ignore, Takes
<1>3. mac.st = "cra" => Head(mac.evq) = "start"
  BY DEF Ignore, Takes
<1>4. Good(Rest)
  BY <1>1, <1>2, <1>3 DEF Good, Moving, Expiring, Flag
<1> QED BY <1>1, <1>4, DefaultKept, GoodKept DEF Ignore

LEMMA HandleGood ==
  ASSUME Good(mac), Handle
  PROVE  Good(mac')
BY StartAccessGood, TaExpiresGood, ResponseFailsGood, ResponseCameGood,
   ContentionLostGood, ContentionWonGood, IgnoreGood DEF Handle

-----------------------------------------------------------------------------
(* Timers and input.                                                           *)

LEMMA LapseGood ==
  ASSUME Good(mac), NEW k \in Timer \cup {"start"}, Lapse(k)
  PROVE  Good(mac')
<1>1. mac \in State /\ k \in Event /\ mac.handle \in Handles /\ mac.loose \in Counts
  BY DEF Good, State, Event, Timer
<1>2. CASE mac.loose[k] > 0 /\ mac' = Post([mac EXCEPT !.loose[k] = @ - 1], k)
  <2> DEFINE l == [mac.loose EXCEPT ![k] = @ - 1]
             n == [mac EXCEPT !.loose = l]
  <2>1. l \in Counts
    BY <1>1, <1>2 DEF Counts
  <2>2. mac' = Post(n, k)
    BY <1>2
  <2> HIDE DEF l
  <2>3. n \in State
    BY <1>1, <2>1 DEF State
  <2>4. n.st = mac.st /\ n.handle = mac.handle /\ n.evq = mac.evq
    BY <1>1 DEF State
  <2>5. Clean(mac) => Clean(n)
    BY <1>1 DEF State, Clean
  <2> HIDE DEF n
  <2>6. Keeps(mac, n)
    BY <1>1, <2>3, <2>4, <2>5, FieldsKept DEF Keeps
  <2>7. Good(n)
    BY <2>6, GoodKept
  <2> QED BY <1>1, <2>2, <2>3, <2>7, PostKept, GoodKept
<1>3. CASE /\ k \in Timer
           /\ mac.handle[k] = "running"
           /\ mac' = Post([mac EXCEPT !.handle[k] = "lapsed"], k)
  <2> DEFINE n == [mac EXCEPT !.handle[k] = "lapsed"]
  <2>1. n \in State /\ SameData(mac, n) /\ n.handle = [mac.handle EXCEPT ![k] = "lapsed"]
    BY <1>1, <1>3, SetFacts
  <2>2. mac' = Post(n, k)
    BY <1>3
  <2> HIDE DEF n
  <2>3. /\ mac' \in State /\ mac'.st = n.st /\ mac'.handle = n.handle
        /\ \A E : Queued(n, E) => Queued(mac', E)
        /\ \A E : k \in E => Queued(mac', E)
        /\ Clean(n) => Clean(mac')
    BY <1>1, <2>1, <2>2, PostFacts
  <2>4. \A E : Queued(mac, E) => Queued(mac', E)
    BY <2>1, <2>3, SameQueue DEF SameData
  <2>5. mac'.st = mac.st /\ (Clean(mac) => Clean(mac'))
    BY <2>1, <2>3 DEF SameData, Clean
  <2>6. mac'.handle = [mac.handle EXCEPT ![k] = "lapsed"]
    BY <2>1, <2>3
  <2>7. \A t \in {"window", "ta"} :
          \/ t # k /\ mac'.handle[t] = mac.handle[t]
          \/ t = k /\ mac'.handle[t] = "lapsed" /\ Queued(mac', {t})
    BY <1>1, <1>3, <2>3, <2>6 DEF Handles, Timer
  <2> QED BY <2>3, <2>4, <2>5, <2>7 DEF Good, Moving, Expiring, Flag
<1> QED BY <1>2, <1>3 DEF Lapse

LEMMA PacketFromUpperGood ==
  ASSUME Good(mac), NEW data \in BOOLEAN, PacketFromUpper(data)
  PROVE  Good(mac')
<1> DEFINE m == Default(mac, data)
           w == [m EXCEPT !.wait = TRUE]
           i == [m EXCEPT !.wait = TRUE, !.dataRa = TRUE]
           h == [m EXCEPT !.held = TRUE]
<1>1. m \in State /\ Good(m)
  BY DefaultKept, GoodKept DEF Good
<1>2. mac' \in {w, h} \/ (m.st = "idle" /\ mac' = StartLater(i))
  BY DEF PacketFromUpper
<1> HIDE DEF m
<1>3. w \in State /\ i \in State /\ h \in State
  BY <1>1 DEF State
<1>4. /\ w.st = m.st /\ w.handle = m.handle /\ w.evq = m.evq
      /\ h.st = m.st /\ h.handle = m.handle /\ h.evq = m.evq
      /\ i.st = m.st /\ i.handle = m.handle /\ i.evq = m.evq
  BY <1>1 DEF State
<1>5. Clean(m) => Clean(w) /\ Clean(h)
  BY <1>1 DEF State, Clean
<1> HIDE DEF w, i, h
<1>6. Good(w) /\ Good(h)
  BY <1>1, <1>3, <1>4, <1>5, FieldsKept, GoodKept DEF Keeps
<1>7. ASSUME m.st = "idle" PROVE Good(StartLater(i))
  <2>1. Queued(m, {"ta"}) => Queued(i, {"ta"})
    BY <1>4, SameQueue
  <2> QED BY <1>1, <1>3, <1>4, <1>7, <2>1, FailedGood DEF Good, Expiring
<1> QED BY <1>2, <1>6, <1>7

LEMMA RarPduGood ==
  ASSUME Good(mac), NEW mine \in BOOLEAN, RarPdu(mine)
  PROVE  Good(mac')
<1> DEFINE m == CraDefault(mac)
<1>1. Good(m) /\ m.st = "cra"
  BY CraDefaultKept, GoodKept DEF Good, RarPdu, Keeps, Later
<1>2. mac' \in {m, decomplexUeRARPdu(m, mine)}
  BY DEF RarPdu
<1> HIDE DEF m
<1> QED BY <1>1, <1>2, decomplexUeRARPduGood

LEMMA DataPduGood ==
  ASSUME Good(mac), NEW mine \in BOOLEAN, NEW id, NEW ta \in BOOLEAN,
         NEW data \in BOOLEAN, DataPdu(mine, id, ta, data)
  PROVE  Good(mac')
<1> DEFINE m == Default(mac, data)
<1>1. Good(m)
  BY DefaultKept, GoodKept DEF Good
<1>2. mac' \in {m, decomplexUeDataPdu(m, mine, id, ta)}
  BY DEF DataPdu
<1> HIDE DEF m
<1> QED BY <1>1, <1>2, decomplexUeDataPduGood

LEMMA UlGrantGood ==
  ASSUME Good(mac), NEW mine \in BOOLEAN, NEW data \in BOOLEAN, UlGrant(mine, data)
  PROVE  Good(mac')
<1> DEFINE m == Default(mac, data)
           p == m.pdcch \/ mine
           n == [m EXCEPT !.pdcch = p]
           r == IF n.crnti /\ n.sendmsg3 /\ n.dataRa
                  THEN Post(n, IF n.pdcch THEN "won" ELSE "lost")
                  ELSE n
           a == IF r.wait THEN DoResourceAllocation(r, data) ELSE r
<1>1. Good(m) /\ m \in State
  BY DefaultKept, GoodKept DEF Good
<1>2. mac' = [a EXCEPT !.grant = FALSE]
  BY DEF UlGrant
<1> HIDE DEF m
<1>3. p \in BOOLEAN
  BY <1>1 DEF State
<1> HIDE DEF p
<1>4. Good(n)
  BY <1>1, <1>3, PdcchKept, GoodKept
<1> HIDE DEF n
<1>5. r \in {n, Post(n, "won"), Post(n, "lost")}
  OBVIOUS
<1>6. Good(r)
  BY <1>4, <1>5, PostKept, GoodKept DEF Good, Event, Posted
<1> HIDE DEF r
<1>7. Good(a)
  BY <1>6, DoResourceAllocationKept, GoodKept DEF Good
<1> HIDE DEF a
<1> QED BY <1>2, <1>7, GrantKept, GoodKept DEF Good

LEMMA TATimer_configGood ==
  ASSUME Good(mac), NEW data \in BOOLEAN, TATimer_config(data)
  PROVE  Good(mac')
<1>1. Good(Default(mac, data))
  BY DefaultKept, GoodKept DEF Good
<1> QED BY <1>1, RestartTaKept, GoodKept DEF TATimer_config, Good

-----------------------------------------------------------------------------
(* The theorems.                                                               *)

LEMMA InitGood ==
  ASSUME Init
  PROVE  Good(mac)
<1>1. [k \in Timer |-> "none"] \in Handles
  BY DEF Handles
<1>2. [k \in Timer \cup {"start"} |-> 0] \in Counts
  BY DEF Counts
<1>3. <<>> \in Events
  BY DEF Events
<1>4. mac \in State
  BY <1>1, <1>2, <1>3, AccessAssumption DEF Init, State
<1>5. mac.st = "idle" /\ mac.handle = [k \in Timer |-> "none"]
  BY DEF Init
<1>6. mac.handle["ta"] = "none"
  BY <1>5 DEF Timer
<1> QED BY <1>4, <1>5, <1>6, IdleGood

LEMMA NextGood ==
  ASSUME Good(mac), [Next]_mac
  PROVE  Good(mac')
<1>1. CASE Handle
  BY <1>1, HandleGood
<1>2. ASSUME NEW k \in Timer \cup {"start"}, Lapse(k) PROVE Good(mac')
  BY <1>2, LapseGood
<1>3. CASE Input
  BY <1>3, PacketFromUpperGood, RarPduGood, DataPduGood, UlGrantGood, TATimer_configGood
     DEF Input
<1>4. CASE UNCHANGED mac
  BY <1>4 DEF Good, Moving, Expiring, Clean, Queued, Flag
<1> QED BY <1>1, <1>2, <1>3, <1>4 DEF Next

\* The invariant of the access, for every number of preambles and of events that
\* are pending at once.
THEOREM AlwaysGood == Spec => []Good(mac)
<1>1. Init => Good(mac)
  BY InitGood
<1>2. Good(mac) /\ [Next]_mac => Good(mac)'
  BY NextGood DEF Good, Moving, Expiring, Clean, Queued, Flag
<1> QED BY <1>1, <1>2, PTL DEF Spec

\* Every field of the state variables has its type.
THEOREM TypeCorrect == Spec => []TypeOK
<1>1. Good(mac) => TypeOK
  BY DEF Good, TypeOK
<1> QED BY <1>1, AlwaysGood, PTL

\* An access is never left without a timer or an event that ends it or moves it
\* on (rlc_macfsm.c:149-245): no terminal waits for ever in cra with nothing to
\* come.
THEOREM AlwaysWayOut == Spec => []WayOut
<1>1. Good(mac) => WayOut
  <2> SUFFICES ASSUME Good(mac), mac.st = "cra" PROVE WayOut
    BY DEF WayOut
  <2>1. mac.handle \in Handles
    BY DEF Good, State
  <2>2. \A k \in Timer : mac.handle[k] \in {"none", "running", "lapsed"}
    BY <2>1 DEF Handles
  <2> QED BY <2>2 DEF Good, Moving, Expiring, WayOut, Flag, Queued, Timer
<1> QED BY <1>1, AlwaysGood, PTL

\* A timer that has lapsed under its flag is about to be handled.
THEOREM AlwaysExpiryComes == Spec => []ExpiryComes
<1>1. Good(mac) => ExpiryComes
  BY DEF Good, Expiring, ExpiryComes
<1> QED BY <1>1, AlwaysGood, PTL

\* A connected terminal has nothing left of its access.
THEOREM AlwaysConnectedIsClean == Spec => []ConnectedIsClean
<1>1. Good(mac) => ConnectedIsClean
  BY DEF Good, Clean, ConnectedIsClean
<1> QED BY <1>1, AlwaysGood, PTL
=============================================================================
