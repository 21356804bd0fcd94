--------------------------- MODULE UeFsmTableProofs ---------------------------
(* The table of the terminals' machines, for any number of slots, RNTIs,        *)
(* closings and pending events. What is inductive is that the list, FSM[] and   *)
(* the events agree; the length of ue_list follows by counting the machines     *)
(* registered since the last closing.                                          *)
EXTENDS UeFsmTable, FiniteSetTheorems, TLAPS

-----------------------------------------------------------------------------
(* The invariant.                                                              *)

\* An event is a command of the user, or is for the machine in its slot.
Finds(f, e) ==
  IF e.dst = NoMachine THEN e.code = "COMMAND" ELSE f[e.dst] # None /\ f[e.dst].crnti = e.crnti

Delivered == \A k \in DOMAIN queue : Finds(fsm, queue[k])
Opens == \A k \in DOMAIN opening : fsm[opening[k].id] # None /\ fsm[opening[k].id].crnti = opening[k].crnti

Directory ==
  /\ \A i \in Slots : fsm[i] # None <=> \E k \in DOMAIN list : list[k].id = i
  /\ \A k \in DOMAIN list : fsm[list[k].id].crnti = list[k].crnti
  /\ \A k, l \in DOMAIN list : k # l => list[k].id # list[l].id /\ list[k].crnti # list[l].crnti

Registered == {i \in Slots : fsm[i] # None}
Counted == ue_num <= closes * (MaxFsm - 1) + Cardinality(Registered)

Early == oops \in {"no", "COMMAND"} \/ (oops = "early" /\ ~listReady)

Types ==
  /\ open \in BOOLEAN /\ main \in {"INIT", "IDLE"} /\ listReady \in BOOLEAN
  /\ list \in Seq(Entries) /\ ue_num \in Nat /\ fsm \in [Slots -> Machines]
  /\ queue \in Seq(Pending) /\ opening \in Seq(Entries) /\ closes \in Nat

Inv == Types /\ Directory /\ Delivered /\ Opens /\ Early

-----------------------------------------------------------------------------
(* Sequences.                                                                  *)

LEMMA AppendedFacts ==
  ASSUME NEW S, NEW s \in Seq(S), NEW x \in S
  PROVE  /\ Append(s, x) \in Seq(S)
         /\ \A k \in DOMAIN Append(s, x) : Append(s, x)[k] = x \/ \E l \in DOMAIN s : Append(s, x)[k] = s[l]
<1>1. /\ Append(s, x) \in Seq(S) /\ Len(Append(s, x)) = Len(s) + 1 /\ Append(s, x)[Len(s) + 1] = x
      /\ \A l \in 1 .. Len(s) : Append(s, x)[l] = s[l]
  OBVIOUS
<1>2. Len(s) \in Nat /\ DOMAIN s = 1 .. Len(s) /\ DOMAIN Append(s, x) = 1 .. Len(Append(s, x))
  OBVIOUS
<1> QED BY <1>1, <1>2

LEMMA TailFacts ==
  ASSUME NEW S, NEW s \in Seq(S), s # <<>>
  PROVE  /\ Head(s) \in S /\ Head(s) = s[1] /\ 1 \in DOMAIN s
         /\ Tail(s) \in Seq(S)
         /\ \A k \in DOMAIN Tail(s) : \E l \in DOMAIN s : Tail(s)[k] = s[l]
<1>1. /\ Tail(s) \in Seq(S) /\ Len(Tail(s)) = Len(s) - 1 /\ Len(s) \in Nat \ {0}
      /\ \A k \in 1 .. Len(Tail(s)) : Tail(s)[k] = s[k + 1]
  OBVIOUS
<1>2. DOMAIN s = 1 .. Len(s) /\ DOMAIN Tail(s) = 1 .. Len(Tail(s)) /\ Head(s) = s[1] /\ s[1] \in S
  BY <1>1
<1>3. \A k \in DOMAIN Tail(s) : k + 1 \in DOMAIN s /\ Tail(s)[k] = s[k + 1]
  BY <1>1, <1>2
<1> QED BY <1>1, <1>2, <1>3

LEMMA PrependedFacts ==
  ASSUME NEW S, NEW s \in Seq(S), NEW x \in S
  PROVE  /\ <<x>> \o s \in Seq(S)
         /\ 1 \in DOMAIN (<<x>> \o s) /\ (<<x>> \o s)[1] = x
         /\ \A k \in DOMAIN (<<x>> \o s) : k = 1 \/ (k - 1 \in DOMAIN s /\ (<<x>> \o s)[k] = s[k - 1])
         /\ \A l \in DOMAIN s : l + 1 \in DOMAIN (<<x>> \o s) /\ (<<x>> \o s)[l + 1] = s[l]
<1> DEFINE t == <<x>> \o s
<1>1. /\ t \in Seq(S) /\ Len(t) = Len(s) + 1 /\ Len(s) \in Nat /\ t[1] = x
      /\ \A k \in 2 .. Len(s) + 1 : t[k] = s[k - 1]
  OBVIOUS
<1>2. DOMAIN s = 1 .. Len(s) /\ DOMAIN t = 1 .. Len(t)
  BY <1>1
<1> HIDE DEF t
<1>3. \A l \in DOMAIN s : l + 1 \in 2 .. Len(s) + 1 /\ (l + 1) - 1 = l
  BY <1>1, <1>2
<1>4. \A l \in DOMAIN s : l + 1 \in DOMAIN t /\ t[l + 1] = s[l]
  BY <1>1, <1>2, <1>3
<1>5. \A k \in DOMAIN t : k = 1 \/ (k - 1 \in DOMAIN s /\ t[k] = s[k - 1])
  BY <1>1, <1>2
<1>6. 1 \in DOMAIN t
  BY <1>1, <1>2
<1> QED BY <1>1, <1>4, <1>5, <1>6 DEF t

-----------------------------------------------------------------------------
(* Events, when the machines stay what they are for.                           *)

\* What a slot is for.
Same(f, g) ==
  \A i \in Slots : (g[i] = None <=> f[i] = None) /\ g[i].crnti = f[i].crnti

LEMMA QueueGrows ==
  ASSUME Types, Delivered, NEW e \in Pending, Finds(fsm, e), queue' = Append(queue, e), UNCHANGED fsm
  PROVE  queue' \in Seq(Pending) /\ Delivered'
<1>1. /\ queue' \in Seq(Pending)
      /\ \A k \in DOMAIN queue' : queue'[k] = e \/ \E l \in DOMAIN queue : queue'[k] = queue[l]
  BY AppendedFacts DEF Types
<1>2. \A k \in DOMAIN queue' : Finds(fsm, queue'[k])
  BY <1>1 DEF Delivered
<1> QED BY <1>1, <1>2 DEF Delivered

LEMMA OldestFacts ==
  ASSUME Types, Delivered, NEW e \in Oldest
  PROVE  /\ queue # <<>> /\ e = Head(queue) /\ e \in Pending /\ Finds(fsm, e)
         /\ Tail(queue) \in Seq(Pending)
         /\ \A k \in DOMAIN Tail(queue) : Finds(fsm, Tail(queue)[k])
<1>1. 1 \in DOMAIN queue /\ e = queue[1] /\ queue # <<>>
  BY DEF Oldest, Types
<1>2. /\ Head(queue) = queue[1] /\ queue[1] \in Pending /\ Tail(queue) \in Seq(Pending)
      /\ \A k \in DOMAIN Tail(queue) : \E l \in DOMAIN queue : Tail(queue)[k] = queue[l]
  BY <1>1, TailFacts DEF Types
<1>3. Finds(fsm, queue[1])
  BY <1>1 DEF Delivered
<1>4. \A k \in DOMAIN Tail(queue) : Finds(fsm, Tail(queue)[k])
  BY <1>2 DEF Delivered
<1> QED BY <1>1, <1>2, <1>3, <1>4

\* An event of a machine, posted in place of the oldest.
LEMMA Replaced ==
  ASSUME Types, Delivered, NEW e \in Oldest, NEW x \in Pending, x.dst = e.dst, x.crnti = e.crnti,
         e.dst \in Slots, queue' = Append(Tail(queue), x), Same(fsm, fsm')
  PROVE  queue' \in Seq(Pending) /\ Delivered'
<1>1. /\ Tail(queue) \in Seq(Pending) /\ Finds(fsm, e)
      /\ \A k \in DOMAIN Tail(queue) : Finds(fsm, Tail(queue)[k])
  BY OldestFacts
<1>2. /\ queue' \in Seq(Pending)
      /\ \A k \in DOMAIN queue' : queue'[k] = x \/ \E l \in DOMAIN Tail(queue) : queue'[k] = Tail(queue)[l]
  BY <1>1, AppendedFacts
<1>3. e.dst # NoMachine
  BY TableAssumption DEF Slots, NoMachine
<1>4. Finds(fsm, x)
  BY <1>1, <1>3 DEF Finds
<1>5. \A k \in DOMAIN queue' : queue'[k] \in Pending /\ Finds(fsm, queue'[k])
  BY <1>1, <1>2, <1>4
<1>6. ASSUME NEW k \in DOMAIN queue' PROVE Finds(fsm', queue'[k])
  BY <1>5 DEF Finds, Same, Pending
<1> QED BY <1>2, <1>6 DEF Delivered

LEMMA Removed ==
  ASSUME Types, Delivered, NEW e \in Oldest, queue' = Tail(queue), Same(fsm, fsm')
  PROVE  queue' \in Seq(Pending) /\ Delivered'
<1>1. /\ Tail(queue) \in Seq(Pending)
      /\ \A k \in DOMAIN Tail(queue) : Finds(fsm, Tail(queue)[k])
  BY OldestFacts
<1>2. \A k \in DOMAIN Tail(queue) : Tail(queue)[k] \in Pending
  BY <1>1
<1>3. ASSUME NEW k \in DOMAIN queue' PROVE Finds(fsm', queue'[k])
  BY <1>1, <1>2 DEF Finds, Same, Pending
<1> QED BY <1>1, <1>3 DEF Delivered

LEMMA SameKeeps ==
  ASSUME Types, Directory, Opens, Same(fsm, fsm'), list' = list, opening' = opening
  PROVE  Directory' /\ Opens'
<1>1. \A k \in DOMAIN list : list[k] \in Entries
  BY DEF Types
<1>2. \A k \in DOMAIN opening : opening[k] \in Entries
  BY DEF Types
<1>3. Opens'
  BY <1>2 DEF Opens, Same, Entries
<1>4. \A i \in Slots : fsm'[i] # None <=> \E k \in DOMAIN list' : list'[k].id = i
  BY DEF Directory, Same
<1>5. \A k \in DOMAIN list' : fsm'[list'[k].id].crnti = list'[k].crnti
  BY <1>1 DEF Directory, Same, Entries
<1> QED BY <1>3, <1>4, <1>5 DEF Directory

-----------------------------------------------------------------------------
(* The actions.                                                                *)

\* A new machine takes a slot that no event and no entry speaks of.
LEMMA NewMachine ==
  ASSUME Inv, NEW c \in Crntis, do_receive_rnti_ind(c)
  PROVE  Inv'
<1>1. PICK id \in FreeSlots :
        /\ fsm' = [fsm EXCEPT ![id] = [crnti |-> c, block |-> "INIT"]]
        /\ list' = <<[crnti |-> c, id |-> id]>> \o list /\ ue_num' = ue_num + 1
        /\ queue' = Append(queue, Event(id, "msg", "OPEN", c))
  BY DEF do_receive_rnti_ind, new_ue_fsm
<1> DEFINE x == [crnti |-> c, id |-> id]
           e == Event(id, "msg", "OPEN", c)
<1>2. id \in Slots /\ fsm[id] = None /\ id # NoMachine
  BY TableAssumption DEF FreeSlots, Slots, NoMachine
<1>3. /\ fsm' \in [Slots -> Machines] /\ fsm'[id] # None /\ fsm'[id].crnti = c
      /\ \A i \in Slots : i # id => fsm'[i] = fsm[i]
  BY <1>1, <1>2, TableAssumption DEF Inv, Types, Machines, Blocks, None
<1>4. x \in Entries /\ e \in Pending /\ e.dst = id /\ e.crnti = c
  BY <1>2 DEF Entries, Pending, Event
<1>5. /\ list' \in Seq(Entries) /\ 1 \in DOMAIN list' /\ list'[1] = x
      /\ \A k \in DOMAIN list' : k = 1 \/ (k - 1 \in DOMAIN list /\ list'[k] = list[k - 1])
      /\ \A l \in DOMAIN list : l + 1 \in DOMAIN list' /\ list'[l + 1] = list[l]
  BY <1>1, <1>4, PrependedFacts DEF Inv, Types
<1>6. /\ queue' \in Seq(Pending)
      /\ \A k \in DOMAIN queue' : queue'[k] = e \/ \E l \in DOMAIN queue : queue'[k] = queue[l]
  BY <1>1, <1>4, AppendedFacts DEF Inv, Types
<1>7. \A k \in DOMAIN list : list[k] \in Entries /\ list[k].id # id /\ list[k].crnti # c
  <2>1. \A k \in DOMAIN list : list[k].crnti # c
    BY DEF do_receive_rnti_ind, ListedAlready, Listed
  <2>2. \A k \in DOMAIN list : list[k].id # id
    BY <1>2 DEF Inv, Directory
  <2> QED BY <2>1, <2>2 DEF Inv, Types
<1>8. x.id = id /\ x.crnti = c
  OBVIOUS
<1> HIDE DEF x, e
<1>9. Types'
  BY <1>1, <1>3, <1>5, <1>6 DEF Inv, Types, do_receive_rnti_ind
<1>10. Directory'
  <2>1. ASSUME NEW i \in Slots
        PROVE  fsm'[i] # None <=> \E k \in DOMAIN list' : list'[k].id = i
    <3>1. CASE i = id
      BY <3>1, <1>3, <1>5, <1>8
    <3>2. CASE i # id
      <4>1. fsm'[i] # None <=> \E k \in DOMAIN list : list[k].id = i
        BY <3>2, <1>3 DEF Inv, Directory
      <4>2. (\E k \in DOMAIN list' : list'[k].id = i) <=> \E k \in DOMAIN list : list[k].id = i
        BY <3>2, <1>5, <1>8
      <4> QED BY <4>1, <4>2
    <3> QED BY <3>1, <3>2
  <2>2. ASSUME NEW k \in DOMAIN list'
        PROVE  fsm'[list'[k].id].crnti = list'[k].crnti
    <3>1. CASE k = 1
      BY <3>1, <1>3, <1>5, <1>8
    <3>2. CASE k # 1
      <4>1. k - 1 \in DOMAIN list /\ list'[k] = list[k - 1]
        BY <3>2, <1>5
      <4>2. list[k - 1].id \in Slots /\ list[k - 1].id # id
        BY <4>1, <1>7 DEF Entries
      <4> QED BY <4>1, <4>2, <1>3 DEF Inv, Directory
    <3> QED BY <3>1, <3>2
  <2>3. ASSUME NEW k \in DOMAIN list', NEW l \in DOMAIN list', k # l
        PROVE  list'[k].id # list'[l].id /\ list'[k].crnti # list'[l].crnti
    <3>1. k \in Int /\ l \in Int
      BY <1>5
    <3>2. CASE k = 1
      BY <3>2, <2>3, <1>5, <1>7, <1>8
    <3>3. CASE l = 1
      BY <3>3, <2>3, <1>5, <1>7, <1>8
    <3>4. CASE k # 1 /\ l # 1
      <4>1. /\ k - 1 \in DOMAIN list /\ list'[k] = list[k - 1]
            /\ l - 1 \in DOMAIN list /\ list'[l] = list[l - 1] /\ k - 1 # l - 1
        BY <3>1, <3>4, <2>3, <1>5
      <4> QED BY <4>1 DEF Inv, Directory
    <3> QED BY <3>2, <3>3, <3>4
  <2> QED BY <2>1, <2>2, <2>3 DEF Directory
<1>11. Delivered'
  <2>1. Finds(fsm', e)
    BY <1>2, <1>3, <1>4 DEF Finds
  <2>2. ASSUME NEW l \in DOMAIN queue PROVE Finds(fsm', queue[l])
    <3>1. queue[l] \in Pending /\ Finds(fsm, queue[l])
      BY DEF Inv, Types, Delivered
    <3> QED BY <3>1, <1>2, <1>3 DEF Finds, Pending
  <2> QED BY <2>1, <2>2, <1>6 DEF Delivered
<1>12. Opens'
  <2>1. \A k \in DOMAIN opening : opening[k] \in Entries
    BY DEF Inv, Types
  <2>2. \A k \in DOMAIN opening : opening[k].id \in Slots /\ opening[k].id # id
    BY <2>1, <1>2 DEF Inv, Opens, Entries
  <2>3. opening' = opening
    BY DEF do_receive_rnti_ind
  <2> QED BY <2>2, <2>3, <1>3 DEF Inv, Opens
<1>13. Early'
  BY DEF Inv, Early, do_receive_rnti_ind
<1> QED BY <1>9, <1>10, <1>11, <1>12, <1>13 DEF Inv

\* The closing leaves neither machines nor events.
LEMMA Closed ==
  ASSUME Inv, Close
  PROVE  Inv' /\ \A i \in Slots : fsm'[i] = None
<1>1. /\ list' = <<>> /\ queue' = <<>> /\ opening' = <<>>
      /\ fsm' = [i \in Slots |-> IF \E k \in DOMAIN list : list[k].id = i THEN None ELSE fsm[i]]
  BY DEF Close, Flushed
<1>2. \A i \in Slots : fsm'[i] = None
  BY <1>1 DEF Inv, Directory
<1>3. Types'
  <2>1. fsm' \in [Slots -> Machines]
    BY <1>1, <1>2 DEF Machines
  <2>2. closes' = closes + 1 /\ open' = FALSE /\ UNCHANGED <<main, listReady, ue_num>>
    BY DEF Close
  <2>3. closes' \in Nat
    BY <2>2 DEF Inv, Types
  <2>4. list' \in Seq(Entries) /\ queue' \in Seq(Pending) /\ opening' \in Seq(Entries)
    BY <1>1
  <2> QED BY <2>1, <2>2, <2>3, <2>4 DEF Inv, Types
<1>4. Directory' /\ Delivered' /\ Opens'
  BY <1>1, <1>2 DEF Directory, Delivered, Opens
<1>5. Early'
  BY DEF Close, Inv, Early
<1> QED BY <1>2, <1>3, <1>4, <1>5 DEF Inv

\* The machine that takes an event keeps its terminal.
LEMMA MachineRuns ==
  ASSUME Inv, rrc_main_enb_ue
  PROVE  Inv' /\ Same(fsm, fsm')
<1>1. PICK e \in Oldest :
        /\ Takes(e) /\ e.type = "self"
        /\ fsm' = [fsm EXCEPT ![e.dst].block = NextBlock(@, e.code)]
        /\ queue' = IF fsm[e.dst].block = "SETUP" /\ e.code = "SETUP_COMPLETE"
                    THEN Append(Tail(queue), [e EXCEPT !.code = "RECONFIG"]) ELSE Tail(queue)
        /\ UNCHANGED opening
  BY DEF rrc_main_enb_ue
<1>2. /\ e \in Pending /\ e.dst \in Slots /\ fsm[e.dst] # None
      /\ UNCHANGED <<open, main, listReady, list, ue_num, closes, oops>>
  BY <1>1, OldestFacts DEF Inv, Takes
<1>3. fsm[e.dst] \in [crnti : Crntis, block : Blocks]
  BY <1>2 DEF Inv, Types, Machines
<1>4. NextBlock(fsm[e.dst].block, e.code) \in Blocks
  BY <1>3 DEF NextBlock, Blocks
<1> DEFINE n == [fsm[e.dst] EXCEPT !.block = NextBlock(@, e.code)]
<1>5. n \in [crnti : Crntis, block : Blocks] /\ n.crnti = fsm[e.dst].crnti /\ n # None
  BY <1>3, <1>4, TableAssumption DEF None
<1>6. fsm' = [fsm EXCEPT ![e.dst] = n]
  BY <1>1
<1> HIDE DEF n
<1>7. fsm' \in [Slots -> Machines] /\ Same(fsm, fsm')
  BY <1>2, <1>5, <1>6 DEF Inv, Types, Machines, Same
<1>8. queue' \in Seq(Pending) /\ Delivered'
  <2> DEFINE x == [e EXCEPT !.code = "RECONFIG"]
  <2>1. x \in Pending /\ x.dst = e.dst /\ x.crnti = e.crnti
    BY <1>2 DEF Pending
  <2> HIDE DEF x
  <2>2. CASE queue' = Append(Tail(queue), x)
    BY <2>1, <2>2, <1>2, <1>7, Replaced DEF Inv
  <2>3. CASE queue' = Tail(queue)
    BY <2>3, <1>7, Removed DEF Inv
  <2> QED BY <1>1, <2>2, <2>3 DEF x
<1>9. Directory' /\ Opens'
  BY <1>1, <1>2, <1>7, SameKeeps DEF Inv
<1>10. Types' /\ Early'
  BY <1>1, <1>2, <1>7, <1>8 DEF Inv, Types, Early
<1> QED BY <1>7, <1>8, <1>9, <1>10 DEF Inv

\* A message becomes an event of its machine.
LEMMA MessageComes ==
  ASSUME Inv, rrc_messege_handler_rlc_enb_ue
  PROVE  Inv' /\ fsm' = fsm
<1>1. PICK e \in Oldest :
        /\ Takes(e) /\ e.type = "msg" /\ e.code \in Messages
        /\ queue' = Append(Tail(queue), [e EXCEPT !.type = "self"])
        /\ UNCHANGED <<fsm, opening>>
  BY DEF rrc_messege_handler_rlc_enb_ue
<1>2. /\ e \in Pending /\ e.dst \in Slots
      /\ UNCHANGED <<open, main, listReady, list, ue_num, closes, oops>>
  BY <1>1, OldestFacts DEF Inv, Takes
<1>3. [e EXCEPT !.type = "self"] \in Pending /\ [e EXCEPT !.type = "self"].dst = e.dst
      /\ [e EXCEPT !.type = "self"].crnti = e.crnti
  BY <1>2 DEF Pending
<1>4. Same(fsm, fsm')
  BY <1>1 DEF Same
<1>5. queue' \in Seq(Pending) /\ Delivered'
  BY <1>1, <1>2, <1>3, <1>4, Replaced DEF Inv
<1>6. Directory' /\ Opens'
  BY <1>1, <1>2, <1>4, SameKeeps DEF Inv
<1>7. Types' /\ Early'
  BY <1>1, <1>2, <1>5 DEF Inv, Types, Early
<1> QED BY <1>1, <1>5, <1>6, <1>7 DEF Inv

\* The message that a machine is open starts its first timer.
LEMMA OpenComes ==
  ASSUME Inv, Delivers
  PROVE  Inv' /\ fsm' = fsm
<1>1. PICK e \in Oldest :
        /\ Takes(e) /\ queue' = Tail(queue)
        /\ opening' = Append(opening, [id |-> e.dst, crnti |-> e.crnti])
        /\ UNCHANGED fsm /\ e.code = "OPEN"
  BY DEF Delivers
<1> DEFINE x == [id |-> e.dst, crnti |-> e.crnti]
<1>2. /\ e \in Pending /\ e.dst \in Slots /\ Finds(fsm, e) /\ fsm[e.dst] # None
      /\ UNCHANGED <<open, main, listReady, list, ue_num, closes, oops>>
  BY <1>1, OldestFacts DEF Inv, Takes
<1>3. fsm[e.dst].crnti = e.crnti /\ e.crnti \in Crntis
  <2>1. e.dst # NoMachine
    BY <1>2, TableAssumption DEF Slots, NoMachine
  <2> QED BY <1>2, <2>1 DEF Finds, Inv, Types, Machines
<1>4. x \in Entries /\ x.id = e.dst /\ x.crnti = e.crnti
  BY <1>2, <1>3 DEF Entries
<1> HIDE DEF x
<1>5. /\ opening' \in Seq(Entries)
      /\ \A k \in DOMAIN opening' : opening'[k] = x \/ \E l \in DOMAIN opening : opening'[k] = opening[l]
  BY <1>1, <1>4, AppendedFacts DEF Inv, Types, x
<1>6. Opens'
  BY <1>1, <1>2, <1>3, <1>4, <1>5 DEF Inv, Opens
<1>7. Same(fsm, fsm')
  BY <1>1 DEF Same
<1>8. queue' \in Seq(Pending) /\ Delivered'
  BY <1>1, <1>7, Removed DEF Inv
<1>9. Directory'
  BY <1>1, <1>2 DEF Inv, Directory
<1>10. Types' /\ Early'
  BY <1>1, <1>2, <1>5, <1>8 DEF Inv, Types, Early
<1> QED BY <1>1, <1>6, <1>8, <1>9, <1>10 DEF Inv

\* An event that reaches no machine is a command of the user.
LEMMA NothingComes ==
  ASSUME Inv, DeliversToNothing
  PROVE  Inv'
<1>1. PICK e \in Oldest : (e.dst \in Slots => fsm[e.dst] = None) /\ oops' = e.code
  BY DEF DeliversToNothing
<1>2. e \in Pending /\ Finds(fsm, e)
  BY <1>1, OldestFacts DEF Inv
<1>3. e.dst = NoMachine
  BY <1>1, <1>2 DEF Finds, Pending
<1>4. oops' = "COMMAND"
  BY <1>1, <1>2, <1>3 DEF Finds
<1> QED BY <1>4 DEF DeliversToNothing, Inv, Types, Directory, Delivered, Opens, Early

LEMMA PacketComes ==
  ASSUME Inv, NEW c \in Crntis, NEW m \in Messages, rrc_message_handler_lower(c, m)
  PROVE  Inv' /\ fsm' = fsm
<1>1. PICK e \in Listed(c) : queue' = Append(queue, Event(e.id, "msg", m, c))
  BY DEF rrc_message_handler_lower
<1>2. PICK k \in DOMAIN list : e = list[k] /\ list[k].crnti = c
  BY <1>1 DEF Listed
<1>3. list[k] \in Entries /\ fsm[list[k].id] # None /\ fsm[list[k].id].crnti = c
  <2>1. list[k] \in Entries
    BY <1>2 DEF Inv, Types
  <2>2. list[k].id \in Slots
    BY <2>1 DEF Entries
  <2> QED BY <1>2, <2>1, <2>2 DEF Inv, Directory
<1> DEFINE x == Event(e.id, "msg", m, c)
<1>4. x \in Pending /\ x.dst = e.id /\ x.crnti = c /\ x.dst \in Slots
  BY <1>2, <1>3 DEF Event, Pending, Entries
<1>5. x.dst # NoMachine
  BY <1>4, TableAssumption DEF Slots, NoMachine
<1> HIDE DEF x
<1>6. Finds(fsm, x)
  BY <1>2, <1>3, <1>4, <1>5 DEF Finds
<1>7. queue' \in Seq(Pending) /\ Delivered'
  BY <1>1, <1>4, <1>6, QueueGrows DEF rrc_message_handler_lower, Inv, x
<1>8. UNCHANGED <<open, main, listReady, list, ue_num, fsm, opening, closes, oops>>
  BY DEF rrc_message_handler_lower
<1>9. Types' /\ Directory' /\ Opens' /\ Early'
  BY <1>7, <1>8 DEF Inv, Types, Directory, Opens, Early
<1> QED BY <1>7, <1>8, <1>9 DEF Inv

LEMMA CommandComes ==
  ASSUME Inv, rrc_ioctl_handler
  PROVE  Inv' /\ fsm' = fsm
<1> DEFINE x == Event(NoMachine, "msg", "COMMAND", "none")
<1>1. x \in Pending /\ x.dst = NoMachine /\ x.code = "COMMAND"
  BY DEF Event, Pending
<1> HIDE DEF x
<1>2. Finds(fsm, x)
  BY <1>1 DEF Finds
<1>3. queue' \in Seq(Pending) /\ Delivered'
  BY <1>1, <1>2, QueueGrows DEF rrc_ioctl_handler, Inv, x
<1>4. UNCHANGED <<open, main, listReady, list, ue_num, fsm, opening, closes, oops>>
  BY DEF rrc_ioctl_handler
<1>5. Types' /\ Directory' /\ Opens' /\ Early'
  BY <1>3, <1>4 DEF Inv, Types, Directory, Opens, Early
<1> QED BY <1>3, <1>4, <1>5 DEF Inv

LEMMA OpeningExpires ==
  ASSUME Inv, ExpireOpening
  PROVE  Inv' /\ fsm' = fsm
<1>1. opening # <<>> /\ opening \in Seq(Entries)
  BY DEF ExpireOpening, Inv, Types
<1>2. /\ Head(opening) \in Entries /\ Head(opening) = opening[1] /\ 1 \in DOMAIN opening
      /\ Tail(opening) \in Seq(Entries)
      /\ \A k \in DOMAIN Tail(opening) : \E l \in DOMAIN opening : Tail(opening)[k] = opening[l]
  BY <1>1, TailFacts
<1> DEFINE x == Event(Head(opening).id, "self", "RRC_OPEN", Head(opening).crnti)
<1>3. /\ x \in Pending /\ x.dst = opening[1].id /\ x.crnti = opening[1].crnti /\ x.dst \in Slots
  BY <1>2 DEF Event, Pending, Entries
<1>4. x.dst # NoMachine
  BY <1>3, TableAssumption DEF Slots, NoMachine
<1> HIDE DEF x
<1>5. Finds(fsm, x)
  BY <1>2, <1>3, <1>4 DEF Finds, Inv, Opens
<1>6. queue' \in Seq(Pending) /\ Delivered'
  BY <1>3, <1>5, QueueGrows DEF ExpireOpening, Inv, x
<1>7. UNCHANGED <<open, main, listReady, list, ue_num, fsm, closes, oops>> /\ opening' = Tail(opening)
  BY DEF ExpireOpening
<1>8. Opens'
  BY <1>2, <1>7 DEF Inv, Opens
<1>9. Types' /\ Directory' /\ Early'
  BY <1>2, <1>6, <1>7 DEF Inv, Types, Directory, Early
<1> QED BY <1>6, <1>7, <1>8, <1>9 DEF Inv

\* The opening forgets the events.
LEMMA Opened ==
  ASSUME Inv, Open
  PROVE  Inv' /\ fsm' = fsm
<1>1. /\ queue' = <<>> /\ opening' = <<>> /\ open' = TRUE /\ main' = "IDLE"
      /\ listReady' = (listReady \/ main = "INIT") /\ oops = "no"
      /\ UNCHANGED <<list, ue_num, fsm, closes, oops>>
  BY DEF Open
<1>2. Delivered' /\ Opens'
  BY <1>1 DEF Delivered, Opens
<1>3. listReady' \in BOOLEAN
  BY <1>1
<1>4. queue' \in Seq(Pending) /\ opening' \in Seq(Entries)
  BY <1>1
<1>5. Types' /\ Directory' /\ Early'
  BY <1>1, <1>3, <1>4 DEF Inv, Types, Directory, Early
<1> QED BY <1>1, <1>2, <1>5 DEF Inv

-----------------------------------------------------------------------------
(* The length of ue_list.                                                      *)

LEMMA SlotsFacts ==
  /\ IsFiniteSet(Registered) /\ Cardinality(Registered) \in Nat
  /\ Cardinality(Registered) <= MaxFsm - 1
<1>1. IsFiniteSet(Slots) /\ Cardinality(Slots) = MaxFsm - 1
  BY FS_Interval, TableAssumption DEF Slots
<1>2. Registered \subseteq Slots
  BY DEF Registered
<1> QED BY <1>1, <1>2, FS_Subset, FS_CardinalityType

LEMMA NoneCounts ==
  ASSUME Inv, Counted, Same(fsm, fsm'), UNCHANGED <<ue_num, closes>>
  PROVE  Counted'
<1>1. Registered' = Registered
  BY DEF Registered, Same
<1> QED BY <1>1 DEF Counted

LEMMA NewCounts ==
  ASSUME Inv, Counted, NEW c \in Crntis, do_receive_rnti_ind(c)
  PROVE  Counted'
<1>1. PICK id \in FreeSlots :
        fsm' = [fsm EXCEPT ![id] = [crnti |-> c, block |-> "INIT"]] /\ ue_num' = ue_num + 1
  BY DEF do_receive_rnti_ind, new_ue_fsm
<1>2. [crnti |-> c, block |-> "INIT"] # None /\ id \in Slots /\ fsm[id] = None
  BY TableAssumption DEF None, FreeSlots
<1>3. Registered' = Registered \cup {id} /\ id \notin Registered
  BY <1>1, <1>2 DEF Registered, Inv, Types
<1>4. Cardinality(Registered') = Cardinality(Registered) + 1
  BY <1>3, SlotsFacts, FS_AddElement
<1>5. closes' = closes /\ closes * (MaxFsm - 1) \in Int /\ ue_num \in Nat
  BY TableAssumption DEF do_receive_rnti_ind, Inv, Types
<1> QED BY <1>1, <1>4, <1>5, SlotsFacts DEF Counted

LEMMA CloseCounts ==
  ASSUME Inv, Counted, Close
  PROVE  Counted'
<1>1. Registered' = {}
  BY Closed DEF Registered
<1>2. Cardinality(Registered') = 0
  BY <1>1, FS_EmptySet
<1>3. closes' = closes + 1 /\ ue_num' = ue_num /\ closes \in Nat /\ ue_num \in Nat
  BY DEF Close, Inv, Types
<1> DEFINE n == MaxFsm - 1
<1>4. n \in Nat
  BY TableAssumption
<1> HIDE DEF n
<1>5. (closes + 1) * n = closes * n + n /\ closes * n \in Int
  BY <1>3, <1>4
<1>6. ue_num <= closes * n + n
  BY <1>3, <1>4, <1>5, SlotsFacts DEF Counted, n
<1>7. ue_num' <= closes' * n + Cardinality(Registered')
  <2>1. closes' * n = closes * n + n
    BY <1>3, <1>5
  <2>2. ue_num' <= closes * n + n + 0
    BY <1>3, <1>4, <1>5, <1>6
  <2> QED BY <1>2, <2>1, <2>2, <1>4, <1>5
<1>8. Counted' <=> ue_num' <= closes' * n + Cardinality(Registered')
  BY DEF Counted, n
<1> QED BY <1>7, <1>8

-----------------------------------------------------------------------------
LEMMA InitInv == Init => Inv /\ Counted
<1> SUFFICES ASSUME Init PROVE Inv /\ Counted
  OBVIOUS
<1>1. Types
  <2>1. None \in Machines
    BY DEF None, Machines, Blocks
  <2>2. fsm \in [Slots -> Machines]
    BY <2>1 DEF Init
  <2>3. list \in Seq(Entries) /\ queue \in Seq(Pending) /\ opening \in Seq(Entries)
    BY DEF Init
  <2> QED BY <2>2, <2>3 DEF Init, Types
<1>2. Directory /\ Delivered /\ Opens /\ Early
  BY DEF Init, Directory, Delivered, Opens, Early
<1>3. Counted
  <2>1. Registered = {} /\ closes = 0 /\ ue_num = 0
    BY DEF Init, Registered
  <2>2. Cardinality(Registered) = 0
    BY <2>1, FS_EmptySet
  <2> QED BY <2>1, <2>2, TableAssumption DEF Counted
<1> QED BY <1>1, <1>2, <1>3 DEF Inv

\* The invariant, and for a step that registers or gives up no machine what the
\* slots are for.
LEMMA NextInv == Inv /\ Counted /\ [Next]_vars => Inv' /\ Counted'
<1> SUFFICES ASSUME Inv, Counted, [Next]_vars PROVE Inv' /\ Counted'
  OBVIOUS
<1>1. ASSUME fsm' = fsm, UNCHANGED <<ue_num, closes>> PROVE Counted'
  BY <1>1, NoneCounts DEF Same
<1>2. ASSUME UNCHANGED vars PROVE Inv' /\ Counted'
  <2>1. Inv'
    BY <1>2 DEF vars, Inv, Types, Directory, Delivered, Opens, Early
  <2> QED BY <2>1, <1>1, <1>2 DEF vars
<1>3. CASE FirstEvent
  <2>1. Inv'
    BY <1>3 DEF FirstEvent, Inv, Types, Directory, Delivered, Opens, Early
  <2> QED BY <2>1, <1>1, <1>3 DEF FirstEvent
<1>4. CASE SearchesNothing
  <2>1. Inv'
    BY <1>4 DEF SearchesNothing, Inv, Types, Directory, Delivered, Opens, Early
  <2> QED BY <2>1, <1>1, <1>4 DEF SearchesNothing
<1>5. ASSUME NEW c \in Crntis, do_receive_rnti_ind(c) PROVE Inv' /\ Counted'
  BY <1>5, NewMachine, NewCounts
<1>6. ASSUME NEW c \in Crntis, NEW m \in Messages, rrc_message_handler_lower(c, m)
      PROVE  Inv' /\ Counted'
  BY <1>1, <1>6, PacketComes DEF rrc_message_handler_lower
<1>7. CASE rrc_ioctl_handler
  BY <1>1, <1>7, CommandComes DEF rrc_ioctl_handler
<1>8. CASE Open
  BY <1>1, <1>8, Opened DEF Open
<1>9. CASE Close
  BY <1>9, Closed, CloseCounts
<1>10. CASE ExpireOpening
  BY <1>1, <1>10, OpeningExpires DEF ExpireOpening
<1>11. CASE Delivers
  BY <1>1, <1>11, OpenComes DEF Delivers, Takes
<1>12. CASE rrc_messege_handler_rlc_enb_ue
  BY <1>1, <1>12, MessageComes DEF rrc_messege_handler_rlc_enb_ue, Takes
<1>13. CASE rrc_main_enb_ue
  BY <1>13, MachineRuns, NoneCounts DEF rrc_main_enb_ue, Takes
<1>14. CASE DeliversToNothing
  BY <1>1, <1>14, NothingComes DEF DeliversToNothing
<1> QED BY <1>2, <1>3, <1>4, <1>5, <1>6, <1>7, <1>8, <1>9, <1>10, <1>11, <1>12, <1>13, <1>14 DEF Next

(* Always: the list, FSM[] and the events agree.                               *)
THEOREM AlwaysAgree == Spec => [](Inv /\ Counted)
BY InitInv, NextInv, PTL DEF Spec

(* Every variable has its type; in particular only a command of the user or    *)
(* an event before the opening makes the kernel read through NULL.             *)
THEOREM TypeCorrect == Spec => []TypeOK
<1>1. Inv /\ Counted => TypeOK
  BY DEF Inv, Types, Early, TypeOK
<1> QED BY <1>1, AlwaysAgree, PTL

(* Every registered machine is listed once, for a terminal of its own, and      *)
(* ue_list grows by no more than the slots between two closings.               *)
THEOREM AlwaysOneMachineEach == Spec => []OneMachineEach
<1>1. ASSUME Inv, Counted PROVE OneMachineEach
  <2>1. ue_num <= (closes + 1) * (MaxFsm - 1)
    <3> DEFINE n == MaxFsm - 1
    <3>1. n \in Nat /\ closes \in Nat /\ ue_num \in Nat
      BY <1>1, TableAssumption DEF Inv, Types
    <3> HIDE DEF n
    <3>2. (closes + 1) * n = closes * n + n /\ closes * n \in Int
      BY <3>1
    <3> QED BY <1>1, <3>1, <3>2, SlotsFacts DEF Counted, n
  <2> QED BY <1>1, <2>1 DEF Inv, Directory, OneMachineEach
<1> QED BY <1>1, AlwaysAgree, PTL

(* No event outlives the machine it was posted for.                            *)
THEOREM AlwaysFindsItsMachine == Spec => []EventFindsItsMachine
<1>1. Inv /\ Counted => EventFindsItsMachine
  BY DEF Inv, Delivered, Finds, Opens, Early, EventFindsItsMachine
<1> QED BY <1>1, AlwaysAgree, PTL
=============================================================================
