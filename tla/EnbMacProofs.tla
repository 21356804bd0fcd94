----------------------------- MODULE EnbMacProofs -----------------------------
(***************************************************************************)
(* Theorems about the MAC of the base station.  RntiTable, for any number of *)
(* RNTIs and of preambles in a request: the table implements the pool.        *)
(* UlSchedule, for any number of packets and addresses: a check of the        *)
(* subframe is always to come and the handle names it; soon after a burst of  *)
(* packets one check is left; grants keep coming.                             *)
(***************************************************************************)
EXTENDS RntiTable, UlSchedule, TLAPS

-----------------------------------------------------------------------------
(* RntiTable.                                                                  *)

Tables == [Rnti -> {"unallocated", "tc", "c"}]

\* Only loans end between two tables.
OnlyWithdraws(t, u) ==
  \A q \in Rnti : u[q] = t[q] \/ (t[q] = "tc" /\ u[q] = "unallocated")

-----------------------------------------------------------------------------
(* The functions on the table.                                                 *)

LEMMA RecallFacts ==
  ASSUME NEW t \in Tables, NEW r \in Rnti
  PROVE  /\ Recall(t, r) \in Tables
         /\ Recall(t, r)[r] = "unallocated"
         /\ \A q \in Rnti \ {r} : Recall(t, r)[q] = t[q]
  BY DEF Recall, Tables

LEMMA JudgeFacts ==
  ASSUME NEW t \in Tables, NEW f \in BOOLEAN, NEW r \in Rnti
  PROVE  /\ JudgedType(t, f, r) \in Tables
         /\ OnlyWithdraws(t, JudgedType(t, f, r))
         /\ JudgedFlag(t, f, r) \in BOOLEAN
<1>1. CASE Spent(t, f, r)
  BY <1>1, RecallFacts DEF JudgedType, JudgedFlag, Spent, OnlyWithdraws
<1>2. CASE ~Spent(t, f, r)
  BY <1>2 DEF JudgedType, JudgedFlag, Spent, OnlyWithdraws
<1> QED
  BY <1>1, <1>2

LEMMA ConvertFacts ==
  ASSUME NEW t \in Tables, NEW r \in Rnti
  PROVE  Convert(t, r) \in Tables
  BY DEF Convert, Tables

\* Reading an element, after any judgement of the RNTI it came on.
LEMMA ElementFacts ==
  ASSUME NEW t \in Tables, NEW f \in BOOLEAN, NEW r \in Rnti, NEW ce \in Rnti \cup {NoCe},
         withCe \subseteq Rnti, TakeElement(t, f, r, ce)
  PROVE  /\ type' \in Tables
         /\ OnlyWithdraws(t, type')
         /\ flag' \in BOOLEAN
         /\ withCe' \subseteq Rnti
<1>1. CASE ce = NoCe
  BY <1>1 DEF TakeElement, OnlyWithdraws
<1>2. CASE ce # NoCe
  <2>1. ce \in Rnti
    BY <1>2
  <2>2. type' = JudgedType(t, TRUE, ce) /\ flag' = JudgedFlag(t, TRUE, ce)
    BY <1>2 DEF TakeElement
  <2>3. withCe' = withCe \cup {r}
    BY <1>2 DEF TakeElement
  <2> QED
    BY <2>1, <2>2, <2>3, JudgeFacts
<1> QED
  BY <1>1, <1>2

LEMMA WithdrawsAgain ==
  ASSUME NEW t, NEW u, NEW v, OnlyWithdraws(t, u), OnlyWithdraws(u, v)
  PROVE  OnlyWithdraws(t, v)
  BY DEF OnlyWithdraws

LEMMA ContentsFacts ==
  ASSUME NEW c \in Contents, answered \subseteq Rnti
  PROVE  c[1] \in Rnti \cup {NoCe} /\ c[2] \in BOOLEAN
  BY DEF Contents

\* What both handlers of uplink packets do to the table.
LEMMA UplinkFacts ==
  ASSUME TypeOK, NEW r \in Rnti, NEW c \in Contents,
         UplinkConnected(r, c[1], c[2]) \/ UplinkTemporary(r, c[1], c[2])
  PROVE  /\ type' \in Tables
         /\ OnlyWithdraws(type, type')
         /\ flag' \in BOOLEAN
         /\ withCe' \subseteq Rnti
         /\ known' \subseteq Rnti
         /\ bearers' \subseteq Rnti
         /\ UNCHANGED <<notes, answered>>
<1>1. c[1] \in Rnti \cup {NoCe} /\ type \in Tables /\ flag \in BOOLEAN /\ withCe \subseteq Rnti
  BY ContentsFacts DEF TypeOK, Tables
<1>2. known' \subseteq Rnti /\ bearers' \subseteq Rnti
  BY DEF UplinkConnected, UplinkTemporary, Indicate, TypeOK
<1>3. UNCHANGED <<notes, answered>>
  BY DEF UplinkConnected, UplinkTemporary
<1>4. CASE UplinkConnected(r, c[1], c[2])
  BY <1>1, <1>2, <1>3, <1>4, ElementFacts DEF UplinkConnected
<1>5. CASE UplinkTemporary(r, c[1], c[2])
  <2>1. PICK t : t = JudgedType(type, flag, r)
    OBVIOUS
  <2>2. PICK f : f = JudgedFlag(type, flag, r)
    OBVIOUS
  <2>3. t \in Tables /\ f \in BOOLEAN /\ OnlyWithdraws(type, t)
    BY <1>1, <2>1, <2>2, JudgeFacts
  <2>4. TakeElement(t, f, r, c[1])
    BY <1>5, <2>1, <2>2 DEF UplinkTemporary
  <2>5. type' \in Tables /\ OnlyWithdraws(t, type') /\ flag' \in BOOLEAN /\ withCe' \subseteq Rnti
    BY <1>1, <2>3, <2>4, ElementFacts
  <2> QED
    BY <1>2, <1>3, <2>3, <2>5, WithdrawsAgain
<1> QED
  BY <1>4, <1>5

-----------------------------------------------------------------------------
(* Tables.                                                                      *)

LEMMA TypeStep == TypeOK /\ [TableNext]_tableVars => TypeOK'
<1> SUFFICES ASSUME TypeOK, [TableNext]_tableVars PROVE TypeOK'
  OBVIOUS
<1>0. type \in Tables
  BY DEF TypeOK, Tables
<1>1. ASSUME NEW n \in 1..MaxRa, HandleRaReq(n) PROVE TypeOK'
  BY <1>1 DEF HandleRaReq, TypeOK
<1>2. ASSUME NEW r \in Rnti, NEW c \in Contents,
             UplinkConnected(r, c[1], c[2]) \/ UplinkTemporary(r, c[1], c[2])
      PROVE TypeOK'
  BY <1>2, UplinkFacts DEF TypeOK, Tables
<1>3. ASSUME NEW r \in Rnti, NEW fits \in BOOLEAN, DownlinkTemporary(r, fits) PROVE TypeOK'
  <2>1. PICK t : t = JudgedType(type, flag, r)
    OBVIOUS
  <2>2. t \in Tables /\ JudgedFlag(type, flag, r) \in BOOLEAN
    BY <1>0, <2>1, JudgeFacts DEF TypeOK
  <2>3. Convert(t, r) \in Tables
    BY <2>2, ConvertFacts
  <2>4. type' \in Tables /\ flag' \in BOOLEAN
    BY <1>3, <2>1, <2>2, <2>3 DEF DownlinkTemporary
  <2> QED
    BY <1>3, <2>4 DEF DownlinkTemporary, TypeOK, Tables
<1>4. ASSUME NEW r \in Rnti, Release(r) PROVE TypeOK'
  BY <1>0, <1>4, RecallFacts DEF Release, TypeOK, Tables
<1>5. CASE Sweep
  BY <1>5 DEF Sweep, Swept, Temporary, TypeOK
<1>6. CASE UNCHANGED tableVars
  BY <1>6 DEF tableVars, TypeOK
<1> QED
  BY <1>1, <1>2, <1>3, <1>4, <1>5, <1>6 DEF TableNext

\* Every variable of the table has its type (mac_scheduler.h:85, rlc_macfsm.h:570).
THEOREM TableTypeCorrect == TableSpec => []TypeOK
<1>1. TableInit => TypeOK
  BY DEF TableInit, TypeOK
<1> QED
  BY <1>1, TypeStep, PTL DEF TableSpec

-----------------------------------------------------------------------------
(* The table implements the pool.                                              *)

LEMMA UseFacts ==
  ASSUME NEW t \in Tables
  PROVE  /\ Use(t) \in [Rnti -> {"free", "lent", "confirmed"}]
         /\ \A q \in Rnti : /\ Use(t)[q] = "free" <=> t[q] = "unallocated"
                            /\ Use(t)[q] = "lent" <=> t[q] = "tc"
                            /\ Use(t)[q] = "confirmed" <=> t[q] = "c"
<1> SUFFICES ASSUME NEW q \in Rnti
             PROVE  /\ Use(t)[q] \in {"free", "lent", "confirmed"}
                    /\ Use(t)[q] = "free" <=> t[q] = "unallocated"
                    /\ Use(t)[q] = "lent" <=> t[q] = "tc"
                    /\ Use(t)[q] = "confirmed" <=> t[q] = "c"
  BY DEF Use
<1>1. t[q] \in {"unallocated", "tc", "c"}
  BY DEF Tables
<1>2. Use(t)[q] = CASE t[q] = "unallocated" -> "free"
                    [] t[q] = "tc" -> "lent"
                    [] t[q] = "c" -> "confirmed"
  BY DEF Use
<1> QED
  BY <1>1, <1>2

\* From table t to table u the pool sees S turn into v, and nothing else.
Turns(t, u, S, v) == Use(u) = [r \in Rnti |-> IF r \in S THEN v ELSE Use(t)[r]]

LEMMA TurnsFacts ==
  ASSUME NEW t \in Tables, NEW u \in Tables, NEW S \in SUBSET Rnti, NEW v,
         \A q \in Rnti \ S : u[q] = t[q],
         \A q \in S : Use(u)[q] = v
  PROVE  Turns(t, u, S, v)
<1>1. ASSUME NEW q \in Rnti \ S PROVE Use(u)[q] = Use(t)[q]
  <2>1. q \in Rnti /\ u[q] = t[q]
    BY <1>1
  <2>2. Use(t)[q] \in {"free", "lent", "confirmed"} /\ Use(u)[q] \in {"free", "lent", "confirmed"}
    BY <2>1, UseFacts
  <2> QED
    BY <2>1, <2>2, UseFacts
<1> QED
  BY <1>1, UseFacts DEF Turns

Loans == Temporary(type) \cap notes

LEMMA WithdrawStep ==
  ASSUME TypeOK, type' \in Tables, OnlyWithdraws(type, type'), notes' = notes
  PROVE  \E S \in SUBSET Rnti : Pool!Withdraw(S)
<1> DEFINE S == {q \in Rnti : type[q] = "tc" /\ type'[q] = "unallocated"}
<1>0. type \in Tables
  BY DEF TypeOK, Tables
<1>1. S \subseteq Pool!Lent(Use(type))
  BY <1>0, UseFacts DEF Pool!Lent
<1>2. Use(type)' = Pool!Becomes(S, "free")
  <2>0. S \in SUBSET Rnti
    OBVIOUS
  <2>1. \A q \in Rnti \ S : type'[q] = type[q]
    BY DEF OnlyWithdraws
  <2>2. \A q \in S : Use(type')[q] = "free"
    BY UseFacts
  <2>3. Turns(type, type', S, "free")
    <3> HIDE DEF S
    <3> QED
      BY <1>0, <2>0, <2>1, <2>2, TurnsFacts
  <2>4. Use(type)' = Use(type')
    BY DEF Use
  <2> QED
    BY <2>3, <2>4 DEF Turns, Pool!Becomes
<1>3. Loans' = Loans \ S
  BY DEF Loans, Temporary, OnlyWithdraws
<1> QED
  BY <1>1, <1>2, <1>3 DEF Pool!Withdraw, Loans

\* A response lends RNTIs that are not noted: none of them is an old loan.
LEMMA LendStep ==
  ASSUME TypeOK, NEW n \in 1..MaxRa, HandleRaReq(n)
  PROVE  Pool!Lend(Granted(n))
<1> DEFINE S == Granted(n)
<1>0. type \in Tables /\ type' \in Tables
  BY TypeStep DEF TypeOK, Tables, TableNext
<1>1. S \in SUBSET Rnti /\ \A r \in S : type[r] = "unallocated" /\ r \notin notes
  BY DEF Granted, Grantable
<1>2. \A q \in Rnti \ S : type'[q] = type[q]
  BY DEF HandleRaReq
<1>3. \A q \in S : type'[q] = "tc"
  BY <1>1 DEF HandleRaReq
<1>4. notes' = notes
  BY DEF HandleRaReq
<1> HIDE DEF S
<1>5. Turns(type, type', S, "lent")
  <2>1. \A q \in S : Use(type')[q] = "lent"
    BY <1>0, <1>1, <1>3, UseFacts
  <2> QED
    BY <1>0, <1>1, <1>2, <2>1, TurnsFacts
<1>6. \A r \in S : Use(type)[r] = "free"
  BY <1>0, <1>1, UseFacts
<1>7. Loans' = Loans
  BY <1>1, <1>2, <1>3, <1>4 DEF Loans, Temporary
<1>8. Use(type)' = Use(type')
  BY DEF Use
<1>9. Pool!Lend(S)
  BY <1>5, <1>6, <1>7, <1>8 DEF Pool!Lend, Pool!Becomes, Loans, Turns
<1> QED
  BY <1>9 DEF S

\* The answer to message 3 confirms the loan, or takes it back with the flag,
\* or is destroyed.
LEMMA AnswerStep ==
  ASSUME TypeOK, NEW r \in Rnti, NEW fits \in BOOLEAN, DownlinkTemporary(r, fits)
  PROVE  Pool!Confirm(r) \/ \E S \in SUBSET Rnti : Pool!Withdraw(S)
<1>0. type \in Tables /\ type' \in Tables /\ notes' = notes /\ type[r] = "tc"
  BY TypeStep DEF TypeOK, Tables, TableNext, DownlinkTemporary
<1>1. CASE Spent(type, flag, r) \/ ~fits
  <2>1. PICK t : t = JudgedType(type, flag, r)
    OBVIOUS
  <2>2. t \in Tables /\ OnlyWithdraws(type, t)
    BY <1>0, <2>1, JudgeFacts DEF TypeOK
  <2>3. type' = t
    <3>1. CASE ~fits
      BY <2>1, <3>1 DEF DownlinkTemporary
    <3>2. CASE Spent(type, flag, r)
      <4>1. t[r] = "unallocated"
        BY <1>0, <2>1, <3>2, RecallFacts DEF JudgedType
      <4>2. Convert(t, r) = t
        BY <4>1 DEF Convert
      <4> QED
        BY <2>1, <4>2 DEF DownlinkTemporary
    <3> QED
      BY <1>1, <3>1, <3>2
  <2> QED
    BY <1>0, <2>2, <2>3, WithdrawStep
<1>2. CASE ~Spent(type, flag, r) /\ fits
  <2>1. type' = [type EXCEPT ![r] = "c"]
    BY <1>0, <1>2 DEF DownlinkTemporary, JudgedType, Convert
  <2>2. \A q \in Rnti \ {r} : type'[q] = type[q]
    BY <1>0, <2>1 DEF Tables
  <2>3. type'[r] = "c"
    BY <1>0, <2>1 DEF Tables
  <2>4. Turns(type, type', {r}, "confirmed")
    <3>1. \A q \in {r} : Use(type')[q] = "confirmed"
      BY <1>0, <2>3, UseFacts
    <3>2. {r} \in SUBSET Rnti
      OBVIOUS
    <3> QED
      BY <1>0, <2>2, <3>1, <3>2, TurnsFacts
  <2>5. Loans' = Loans \ {r}
    BY <1>0, <2>2, <2>3 DEF Loans, Temporary
  <2>6. Use(type)[r] = "lent" /\ Use(type)' = Use(type')
    BY <1>0, UseFacts DEF Use
  <2> QED
    BY <2>4, <2>5, <2>6 DEF Pool!Confirm, Pool!Becomes, Loans, Turns
<1> QED
  BY <1>1, <1>2

LEMMA ReleaseStep ==
  ASSUME TypeOK, NEW r \in Rnti, Release(r)
  PROVE  Pool!Release(r)
<1>0. type \in Tables /\ type' = Recall(type, r) /\ notes' = notes
  BY DEF TypeOK, Tables, Release
<1>1. type' \in Tables /\ type'[r] = "unallocated" /\ \A q \in Rnti \ {r} : type'[q] = type[q]
  BY <1>0, RecallFacts
<1>2. Turns(type, type', {r}, "free")
  <2>1. \A q \in {r} : Use(type')[q] = "free"
    BY <1>1, UseFacts
  <2>2. {r} \in SUBSET Rnti
    OBVIOUS
  <2> QED
    BY <1>0, <1>1, <2>1, <2>2, TurnsFacts
<1>3. Loans' = Loans \ {r}
  BY <1>0, <1>1 DEF Loans, Temporary
<1>4. Use(type)' = Use(type')
  BY DEF Use
<1> QED
  BY <1>2, <1>3, <1>4 DEF Pool!Release, Pool!Becomes, Loans, Turns

\* The sweep takes back the temporary RNTIs it finds noted, and notes the rest.
LEMMA SweepStep ==
  ASSUME TypeOK, Sweep
  PROVE  Pool!Period
<1>0. type \in Tables /\ type' \in Tables /\ type' = Swept
  BY TypeStep DEF TypeOK, Tables, TableNext, Sweep
<1>1. Loans \in SUBSET Rnti
  BY DEF Loans, Temporary
<1>2. \A q \in Rnti \ Loans : type'[q] = type[q]
  BY <1>0 DEF Swept, Loans, Temporary
<1>3. \A q \in Loans : type'[q] = "unallocated"
  BY <1>0 DEF Swept, Loans, Temporary
<1>4. Turns(type, type', Loans, "free")
  <2>1. \A q \in Loans : Use(type')[q] = "free"
    BY <1>0, <1>1, <1>3, UseFacts
  <2> QED
    BY <1>0, <1>1, <1>2, <2>1, TurnsFacts
<1>5. Loans' = Pool!Lent(Use(type)) \ Loans
  <2>1. Loans' = Temporary(type')
    BY <1>0 DEF Loans, Sweep, Temporary
  <2>2. Temporary(type') = Temporary(type) \ Loans
    BY <1>2, <1>3 DEF Temporary
  <2>3. Temporary(type) = Pool!Lent(Use(type))
    BY <1>0, UseFacts DEF Temporary, Pool!Lent
  <2> QED
    BY <2>1, <2>2, <2>3
<1>6. Use(type)' = Use(type')
  BY DEF Use
<1> QED
  BY <1>4, <1>5, <1>6 DEF Pool!Period, Pool!Becomes, Loans, Turns

LEMMA PoolStep == TypeOK /\ [TableNext]_tableVars => [Pool!Next]_(Pool!vars)
<1> SUFFICES ASSUME TypeOK, [TableNext]_tableVars PROVE [Pool!Next]_(Pool!vars)
  OBVIOUS
<1>1. ASSUME NEW n \in 1..MaxRa, HandleRaReq(n) PROVE Pool!Next
  <2>1. Granted(n) \in SUBSET Rnti
    BY DEF Granted, Grantable
  <2> QED
    BY <1>1, <2>1, LendStep DEF Pool!Next
<1>2. ASSUME NEW r \in Rnti, NEW c \in Contents,
             UplinkConnected(r, c[1], c[2]) \/ UplinkTemporary(r, c[1], c[2])
      PROVE Pool!Next
  <2>1. type' \in Tables /\ OnlyWithdraws(type, type') /\ notes' = notes
    BY <1>2, UplinkFacts
  <2> QED
    BY <2>1, WithdrawStep DEF Pool!Next
<1>3. ASSUME NEW r \in Rnti, NEW fits \in BOOLEAN, DownlinkTemporary(r, fits) PROVE Pool!Next
  BY <1>3, AnswerStep DEF Pool!Next
<1>4. ASSUME NEW r \in Rnti, Release(r) PROVE Pool!Next
  BY <1>4, ReleaseStep DEF Pool!Next
<1>5. CASE Sweep
  BY <1>5, SweepStep DEF Pool!Next
<1>6. CASE UNCHANGED tableVars
  BY <1>6 DEF tableVars, Pool!vars, Use, Temporary
<1> QED
  BY <1>1, <1>2, <1>3, <1>4, <1>5, <1>6 DEF TableNext

\* The table implements the pool: a temporary RNTI that is not confirmed is taken
\* back by the second sweep after it was lent and by no earlier one, and a
\* C-RNTI stays one until its release (mac_scheduler.c:266, :409).
THEOREM TableImplementsPool == TableSpec => ImplementsPool
<1>1. TableInit => Pool!Init
  <2> SUFFICES ASSUME TableInit PROVE Pool!Init
    OBVIOUS
  <2>1. type \in Tables /\ \A r \in Rnti : type[r] = "unallocated"
    BY DEF TableInit, Tables
  <2>2. Use(type) = [r \in Rnti |-> "free"]
    BY <2>1, UseFacts
  <2>3. Temporary(type) \cap notes = {}
    BY DEF TableInit
  <2> QED
    BY <2>2, <2>3 DEF Pool!Init
<1>2. TableSpec => []TypeOK
  BY TableTypeCorrect
<1> QED
  BY <1>1, <1>2, PoolStep, PTL DEF TableSpec, ImplementsPool, Pool!Spec

-----------------------------------------------------------------------------
(* UlSchedule.                                                                 *)

Check == [slot : Slot, left : 0..3]

Types ==
  /\ subframe \in 0..9 /\ calm \in Nat /\ barren \in Nat
  /\ queued \in Seq(Check) /\ due \in Seq(Slot)

Sorted(queue) == \A i, j \in DOMAIN queue : i <= j => queue[i].left <= queue[j].left
Distinct(queue) == \A i, j \in DOMAIN queue : queue[i].slot = queue[j].slot => i = j

\* No address stands for two events.
Ordered ==
  /\ Sorted(queued) /\ Distinct(queued)
  /\ \A i, j \in DOMAIN due : due[i] = due[j] => i = j
  /\ \A i \in DOMAIN queued, j \in DOMAIN due : queued[i].slot # due[j]

\* A check that the handle does not name was scheduled before the last packet,
\* or when what the handle named had expired.  Such a check is gone soon.
OthersPass ==
  /\ \A i \in DOMAIN queued : queued[i].slot # check_subframe_no => queued[i].left + calm <= 3
  /\ calm >= 4 => Pending \subseteq {check_subframe_no}

\* How many checks more a chain needs that next looks at the subframe t.
Rounds(t) == (36 - 2 * t) % 5

\* The handle's chain grants in time if nobody cancels its next check; and who
\* could does so within 3 ms of the last packet.
OnTime(left) == barren + left + 3 * Rounds(subframe + left) <= 15
GrantIsNear ==
  /\ barren <= calm
  /\ \A i \in DOMAIN queued : queued[i].slot = check_subframe_no => OnTime(queued[i].left)
  /\ check_subframe_no \in ToSet(due) => OnTime(0)

IdleUnlessFed == ~fed => queued = <<>> /\ due = <<>>

\* The inductive invariant.
Inv == Types /\ Ordered /\ OthersPass /\ GrantIsNear /\ IdleUnlessFed /\ CheckComes

-----------------------------------------------------------------------------
(* Sequences and queues.                                                     *)

LEMMA SubSeqFacts ==
  ASSUME NEW S, NEW q \in Seq(S), NEW m \in 1 .. Len(q) + 1, NEW n \in 0 .. Len(q), m <= n + 1
  PROVE  /\ SubSeq(q, m, n) \in Seq(S) /\ Len(SubSeq(q, m, n)) = n + 1 - m
         /\ \A j \in 1 .. n + 1 - m : SubSeq(q, m, n)[j] = q[m + j - 1]
OBVIOUS

LEMMA ConcatFacts ==
  ASSUME NEW S, NEW q \in Seq(S), NEW r \in Seq(S)
  PROVE  /\ q \o r \in Seq(S) /\ Len(q \o r) = Len(q) + Len(r)
         /\ \A j \in 1 .. Len(q) : (q \o r)[j] = q[j]
         /\ \A j \in Len(q) + 1 .. Len(q) + Len(r) : (q \o r)[j] = r[j - Len(q)]
OBVIOUS

LEMMA InsertFacts ==
  ASSUME NEW S, NEW q \in Seq(S), NEW e \in S, NEW i \in 1 .. Len(q) + 1
  PROVE  /\ InsertAt(q, i, e) \in Seq(S) /\ Len(InsertAt(q, i, e)) = Len(q) + 1
         /\ InsertAt(q, i, e)[i] = e
         /\ \A j \in 1 .. i - 1 : InsertAt(q, i, e)[j] = q[j]
         /\ \A j \in i + 1 .. Len(q) + 1 : InsertAt(q, i, e)[j] = q[j - 1]
<1> DEFINE front == SubSeq(q, 1, i - 1)
           back == SubSeq(q, i, Len(q))
<1>1. Len(q) \in Nat
  OBVIOUS
<1>2. /\ front \in Seq(S) /\ Len(front) = i - 1 /\ \A j \in 1 .. i - 1 : front[j] = q[j]
  BY <1>1, SubSeqFacts
<1>3. /\ back \in Seq(S) /\ Len(back) = Len(q) + 1 - i
      /\ \A j \in 1 .. Len(q) + 1 - i : back[j] = q[i + j - 1]
  BY <1>1, SubSeqFacts
<1>4. InsertAt(q, i, e) = (front \o <<e>>) \o back
  BY DEF InsertAt
<1> HIDE DEF front, back
<1> DEFINE mid == front \o <<e>>
<1>5. <<e>> \in Seq(S) /\ Len(<<e>>) = 1 /\ <<e>>[1] = e
  OBVIOUS
<1>6. /\ mid \in Seq(S) /\ Len(mid) = i /\ mid[i] = e /\ \A j \in 1 .. i - 1 : mid[j] = q[j]
  <2>1. /\ mid \in Seq(S) /\ Len(mid) = Len(front) + Len(<<e>>)
        /\ \A j \in 1 .. Len(front) : mid[j] = front[j]
        /\ \A j \in Len(front) + 1 .. Len(front) + Len(<<e>>) : mid[j] = <<e>>[j - Len(front)]
    BY <1>2, <1>5, ConcatFacts
  <2>2. i \in Len(front) + 1 .. Len(front) + Len(<<e>>) /\ i - Len(front) = 1
    BY <1>1, <1>2, <1>5
  <2>3. mid[i] = e
    BY <1>5, <2>1, <2>2
  <2> QED BY <1>1, <1>2, <1>5, <2>1, <2>3
<1> HIDE DEF mid
<1>7. /\ mid \o back \in Seq(S) /\ Len(mid \o back) = Len(mid) + Len(back)
      /\ \A j \in 1 .. Len(mid) : (mid \o back)[j] = mid[j]
      /\ \A j \in Len(mid) + 1 .. Len(mid) + Len(back) : (mid \o back)[j] = back[j - Len(mid)]
  BY <1>3, <1>6, ConcatFacts
<1>8. ASSUME NEW j \in i + 1 .. Len(q) + 1 PROVE (mid \o back)[j] = q[j - 1]
  <2>1. j \in Len(mid) + 1 .. Len(mid) + Len(back) /\ j - i \in 1 .. Len(q) + 1 - i
    BY <1>1, <1>3, <1>6
  <2>2. (mid \o back)[j] = back[j - i] /\ back[j - i] = q[i + (j - i) - 1]
    BY <1>3, <1>6, <1>7, <2>1
  <2> QED BY <1>1, <2>2
<1>9. InsertAt(q, i, e) = mid \o back
  BY <1>4 DEF mid
<1> QED BY <1>1, <1>3, <1>6, <1>7, <1>8, <1>9

LEMMA RemoveFacts ==
  ASSUME NEW S, NEW q \in Seq(S), NEW i \in DOMAIN q
  PROVE  /\ RemoveAt(q, i) \in Seq(S) /\ Len(RemoveAt(q, i)) = Len(q) - 1
         /\ \A j \in 1 .. i - 1 : RemoveAt(q, i)[j] = q[j]
         /\ \A j \in i .. Len(q) - 1 : RemoveAt(q, i)[j] = q[j + 1]
<1> DEFINE front == SubSeq(q, 1, i - 1)
           back == SubSeq(q, i + 1, Len(q))
<1>1. Len(q) \in Nat /\ i \in 1 .. Len(q)
  OBVIOUS
<1>2. /\ front \in Seq(S) /\ Len(front) = i - 1 /\ \A j \in 1 .. i - 1 : front[j] = q[j]
  BY <1>1, SubSeqFacts
<1>3. /\ back \in Seq(S) /\ Len(back) = Len(q) - i
      /\ \A j \in 1 .. Len(q) - i : back[j] = q[i + j]
  <2>1. i + 1 \in 1 .. Len(q) + 1 /\ Len(q) \in 0 .. Len(q) /\ i + 1 <= Len(q) + 1
    BY <1>1
  <2> QED BY <1>1, <2>1, SubSeqFacts
<1> HIDE DEF front, back
<1>4. /\ front \o back \in Seq(S) /\ Len(front \o back) = Len(front) + Len(back)
      /\ \A j \in 1 .. Len(front) : (front \o back)[j] = front[j]
      /\ \A j \in Len(front) + 1 .. Len(front) + Len(back) : (front \o back)[j] = back[j - Len(front)]
  BY <1>2, <1>3, ConcatFacts
<1>5. ASSUME NEW j \in i .. Len(q) - 1 PROVE (front \o back)[j] = q[j + 1]
  <2>1. j \in Len(front) + 1 .. Len(front) + Len(back) /\ j - (i - 1) \in 1 .. Len(q) - i
    BY <1>1, <1>2, <1>3
  <2>2. (front \o back)[j] = back[j - (i - 1)] /\ back[j - (i - 1)] = q[i + (j - (i - 1))]
    BY <1>2, <1>3, <1>4, <2>1
  <2> QED BY <1>1, <2>2
<1>6. RemoveAt(q, i) = front \o back
  BY DEF RemoveAt, front, back
<1>7. Len(front \o back) = Len(q) - 1
  BY <1>1, <1>2, <1>3, <1>4
<1>8. ASSUME NEW j \in 1 .. i - 1 PROVE (front \o back)[j] = q[j]
  <2>1. j \in 1 .. Len(front)
    BY <1>2
  <2> QED BY <1>2, <1>4, <2>1
<1> HIDE DEF front, back
<1> QED BY <1>4, <1>5, <1>6, <1>7, <1>8

\* What a cancellation leaves: all but what the handle names, in order.
LEMMA CancelledFacts ==
  ASSUME queued \in Seq(Check), Sorted(queued), Distinct(queued)
  PROVE  LET q == Cancelled(queued)
         IN  /\ q \in Seq(Check) /\ Sorted(q) /\ Distinct(q)
             /\ \A j \in DOMAIN q : /\ q[j].slot # check_subframe_no
                                    /\ \E k \in DOMAIN queued : q[j] = queued[k]
<1> DEFINE q == Cancelled(queued)
<1>1. CASE check_subframe_no \in Slots(queued)
  <2>1. PICK i \in DOMAIN queued : /\ queued[i].slot = check_subframe_no
                                   /\ q = RemoveAt(queued, i)
    BY <1>1 DEF Cancelled, Slots
  <2>2. /\ q \in Seq(Check) /\ Len(q) = Len(queued) - 1 /\ Len(queued) \in Nat /\ i \in 1 .. Len(queued)
        /\ \A j \in 1 .. i - 1 : q[j] = queued[j]
        /\ \A j \in i .. Len(queued) - 1 : q[j] = queued[j + 1]
    BY <2>1, RemoveFacts
  <2> HIDE DEF q
  <2> DEFINE at(j) == IF j < i THEN j ELSE j + 1
  <2>3. ASSUME NEW j \in DOMAIN q
        PROVE  at(j) \in DOMAIN queued /\ q[j] = queued[at(j)] /\ at(j) # i
    BY <2>2, <2>3
  <2>4. \A j, k \in DOMAIN q : /\ j <= k => at(j) <= at(k)
                               /\ at(j) = at(k) => j = k
    BY <2>2
  <2> HIDE DEF at
  <2>5. Sorted(q) /\ Distinct(q)
    BY <2>3, <2>4 DEF Sorted, Distinct
  <2>6. \A j \in DOMAIN q : q[j].slot # check_subframe_no
    BY <2>1, <2>3 DEF Distinct
  <2> QED BY <2>2, <2>3, <2>5, <2>6 DEF q
<1>2. CASE check_subframe_no \notin Slots(queued)
  BY <1>2 DEF Cancelled, Slots
<1> QED BY <1>1, <1>2

\* What scheduling does: the handle names the new check, the last of its time.
LEMMA ScheduledFacts ==
  ASSUME NEW q \in Seq(Check), Sorted(q), Distinct(q), NEW delay \in 0..3, Schedules(q, delay)
  PROVE  /\ queued' \in Seq(Check) /\ Sorted(queued') /\ Distinct(queued')
         /\ \A j \in DOMAIN q : q[j].slot # check_subframe_no'
         /\ \A j \in DOMAIN due : due[j] # check_subframe_no'
         /\ check_subframe_no' \in Slots(queued')
         /\ \A j \in DOMAIN queued' :
              \/ queued'[j] = [slot |-> check_subframe_no', left |-> delay]
              \/ \E k \in DOMAIN q : queued'[j] = q[k]
<1>1. PICK slot \in Slot, i \in 1 .. Len(q) + 1 :
        /\ slot \notin Slots(q) /\ slot \notin ToSet(due)
        /\ \A j \in 1 .. i - 1 : q[j].left <= delay
        /\ \A j \in i .. Len(q) : q[j].left >= delay
        /\ queued' = InsertAt(q, i, [slot |-> slot, left |-> delay])
        /\ check_subframe_no' = slot
  BY DEF Schedules, Places
<1> DEFINE e == [slot |-> slot, left |-> delay]
<1>2. e \in Check /\ e.slot = slot /\ e.left = delay
  BY DEF Check
<1> HIDE DEF e
<1>3. /\ queued' \in Seq(Check) /\ Len(queued') = Len(q) + 1 /\ Len(q) \in Nat
      /\ queued'[i] = e
      /\ \A j \in 1 .. i - 1 : queued'[j] = q[j]
      /\ \A j \in i + 1 .. Len(q) + 1 : queued'[j] = q[j - 1]
  <2>1. queued' = InsertAt(q, i, e)
    BY <1>1 DEF e
  <2>2. /\ InsertAt(q, i, e) \in Seq(Check) /\ Len(InsertAt(q, i, e)) = Len(q) + 1
        /\ InsertAt(q, i, e)[i] = e
        /\ \A j \in 1 .. i - 1 : InsertAt(q, i, e)[j] = q[j]
        /\ \A j \in i + 1 .. Len(q) + 1 : InsertAt(q, i, e)[j] = q[j - 1]
    BY <1>1, <1>2, InsertFacts
  <2> QED BY <2>1, <2>2
<1>4. \A j \in DOMAIN q : q[j].slot # slot /\ q[j].left \in 0..3
  <2>1. \A j \in DOMAIN q : q[j] \in Check
    OBVIOUS
  <2> QED BY <1>1, <2>1 DEF Slots, Check
<1>5. \A j \in DOMAIN due : due[j] # slot
  BY <1>1 DEF ToSet
<1> DEFINE from(j) == IF j < i THEN j ELSE j - 1
<1>6. ASSUME NEW j \in DOMAIN queued', j # i
      PROVE  from(j) \in DOMAIN q /\ queued'[j] = q[from(j)]
  <2>1. j \in 1 .. Len(q) + 1
    BY <1>3
  <2> QED BY <1>3, <1>6, <2>1
<1>7. i \in DOMAIN queued'
  BY <1>3
<1>8. \A j, k \in DOMAIN queued' : j # i /\ k # i => /\ j <= k => from(j) <= from(k)
                                                     /\ from(j) = from(k) => j = k
  BY <1>3
<1>9. Distinct(queued')
  <2> SUFFICES ASSUME NEW j \in DOMAIN queued', NEW k \in DOMAIN queued', j # k
               PROVE  queued'[j].slot # queued'[k].slot
    BY DEF Distinct
  <2>1. CASE j = i
    BY <1>2, <1>3, <1>4, <1>6, <2>1
  <2>2. CASE k = i
    BY <1>2, <1>3, <1>4, <1>6, <2>2
  <2>3. CASE j # i /\ k # i
    BY <1>6, <1>8, <2>3 DEF Distinct
  <2> QED BY <2>1, <2>2, <2>3
<1>10. Sorted(queued')
  <2> SUFFICES ASSUME NEW j \in DOMAIN queued', NEW k \in DOMAIN queued', j <= k
               PROVE  queued'[j].left <= queued'[k].left
    BY DEF Sorted
  <2>1. CASE j = i /\ k = i
    BY <1>2, <1>3, <2>1
  <2>2. CASE j = i /\ k # i
    <3>1. from(k) \in i .. Len(q)
      BY <1>3, <2>2
    <3> QED BY <1>1, <1>2, <1>3, <1>6, <2>2, <3>1
  <2>3. CASE j # i /\ k = i
    <3>1. from(j) \in 1 .. i - 1
      BY <1>3, <2>3
    <3> QED BY <1>1, <1>2, <1>3, <1>6, <2>3, <3>1
  <2>4. CASE j # i /\ k # i
    BY <1>6, <1>8, <2>4 DEF Sorted
  <2> QED BY <2>1, <2>2, <2>3, <2>4
<1>11. check_subframe_no' \in Slots(queued')
  BY <1>1, <1>2, <1>3, <1>7 DEF Slots
<1>12. \A j \in DOMAIN queued' : queued'[j] = e \/ \E k \in DOMAIN q : queued'[j] = q[k]
  BY <1>3, <1>6
<1> QED BY <1>1, <1>3, <1>4, <1>5, <1>9, <1>10, <1>11, <1>12 DEF e

-----------------------------------------------------------------------------
(* The rounds to the next grants.                                            *)

LEMMA RoundsFacts ==
  ASSUME NEW s \in 0..9
  PROVE  /\ \A v \in 0..3 : Rounds(s + v) \in 0..4
         /\ s \notin {3, 8} => Rounds(s) >= 1 /\ Rounds(s + 3) = Rounds(s) - 1
         /\ \A v \in 1..3 : Rounds(((s + 1) % 10) + (v - 1)) = Rounds(s + v)
BY DEF Rounds

-----------------------------------------------------------------------------
(* The steps.                                                                *)

LEMMA PacketKeeps == Inv /\ PacketFromLower => Inv'
<1> SUFFICES ASSUME Inv, PacketFromLower PROVE Inv'
  OBVIOUS
<1>1. /\ Types /\ Ordered /\ Schedules(queued, 1)
      /\ calm' = 0 /\ barren' = 0 /\ fed' /\ UNCHANGED <<subframe, due>>
  BY DEF Inv, PacketFromLower
<1>2. /\ queued \in Seq(Check) /\ Sorted(queued) /\ Distinct(queued)
      /\ \A j \in DOMAIN queued : queued[j] \in Check
  BY <1>1 DEF Types, Ordered
<1>3. /\ queued' \in Seq(Check) /\ Sorted(queued') /\ Distinct(queued')
      /\ \A j \in DOMAIN due : due[j] # check_subframe_no'
      /\ check_subframe_no' \in Slots(queued')
      /\ \A j \in DOMAIN queued' :
           \/ queued'[j] = [slot |-> check_subframe_no', left |-> 1]
           \/ \E k \in DOMAIN queued : queued'[j] = queued[k] /\ queued[k].slot # check_subframe_no'
  BY <1>1, <1>2, ScheduledFacts
<1>4. Types'
  BY <1>1, <1>3 DEF Types
<1>5. Ordered'
  <2>1. ASSUME NEW i \in DOMAIN queued', NEW j \in DOMAIN due PROVE queued'[i].slot # due[j]
    <3>1. CASE queued'[i] = [slot |-> check_subframe_no', left |-> 1]
      BY <1>3, <3>1
    <3>2. CASE \E k \in DOMAIN queued : queued'[i] = queued[k]
      BY <1>1, <3>2 DEF Ordered
    <3> QED BY <1>3, <3>1, <3>2
  <2> QED BY <1>1, <1>3, <2>1 DEF Ordered
<1>6. \A j \in DOMAIN queued' : queued'[j].left \in 0..3
  <2>1. \A j \in DOMAIN queued' : queued'[j] \in Check
    BY <1>3
  <2> QED BY <2>1 DEF Check
<1>7. OthersPass'
  BY <1>1, <1>6 DEF OthersPass
<1>8. GrantIsNear'
  <2>1. ASSUME NEW j \in DOMAIN queued', queued'[j].slot = check_subframe_no' PROVE queued'[j].left = 1
    BY <1>3, <2>1
  <2>2. Rounds(subframe + 1) \in 0..4 /\ subframe \in 0..9
    BY <1>1, RoundsFacts DEF Types
  <2>3. OnTime(1)'
    BY <1>1, <2>2 DEF OnTime
  <2>4. check_subframe_no' \notin ToSet(due)
    BY <1>3 DEF ToSet
  <2> QED BY <1>1, <2>1, <2>3, <2>4 DEF GrantIsNear, OnTime
<1>9. IdleUnlessFed' /\ CheckComes'
  BY <1>1, <1>3 DEF IdleUnlessFed, CheckComes, Pending
<1> QED BY <1>4, <1>5, <1>7, <1>8, <1>9 DEF Inv

\* A check leaves the new one alone with those that have expired, if nothing
\* else was queued.
LEMMA CheckKeeps == Inv /\ CheckUlSubframe => Inv'
<1> SUFFICES ASSUME Inv, CheckUlSubframe PROVE Inv'
  OBVIOUS
<1> DEFINE q == Cancelled(queued)
<1>1. /\ Types /\ Ordered /\ OthersPass /\ GrantIsNear /\ IdleUnlessFed
      /\ due # <<>> /\ due' = Tail(due) /\ Schedules(q, 3)
      /\ barren' = IF Grants THEN 0 ELSE barren
      /\ UNCHANGED <<subframe, packets, fed, calm>>
  BY DEF Inv, CheckUlSubframe, Period
<1>2. /\ queued \in Seq(Check) /\ Sorted(queued) /\ Distinct(queued)
      /\ due \in Seq(Slot) /\ calm \in Nat /\ barren \in Nat /\ subframe \in 0..9
  BY <1>1 DEF Types, Ordered
<1>3. /\ q \in Seq(Check) /\ Sorted(q) /\ Distinct(q)
      /\ \A j \in DOMAIN q : q[j].slot # check_subframe_no /\ \E k \in DOMAIN queued : q[j] = queued[k]
  BY <1>2, CancelledFacts
<1> HIDE DEF q
<1>4. /\ queued' \in Seq(Check) /\ Sorted(queued') /\ Distinct(queued')
      /\ \A j \in DOMAIN q : q[j].slot # check_subframe_no'
      /\ \A j \in DOMAIN due : due[j] # check_subframe_no'
      /\ check_subframe_no' \in Slots(queued')
      /\ \A j \in DOMAIN queued' :
           \/ queued'[j] = [slot |-> check_subframe_no', left |-> 3]
           \/ \E k \in DOMAIN q : queued'[j] = q[k]
  BY <1>1, <1>3, ScheduledFacts
<1>5. /\ Len(due) \in Nat /\ Len(due) >= 1 /\ due' \in Seq(Slot) /\ DOMAIN due = 1 .. Len(due)
      /\ Len(due') = Len(due) - 1 /\ DOMAIN due' = 1 .. (Len(due) - 1)
      /\ \A j \in DOMAIN due' : j + 1 \in DOMAIN due /\ due'[j] = due[j + 1]
  BY <1>1, <1>2
<1>6. ASSUME NEW j \in DOMAIN queued'
      PROVE  \/ queued'[j].slot = check_subframe_no' /\ queued'[j].left = 3
             \/ /\ queued'[j].slot # check_subframe_no'
                /\ \E k \in DOMAIN queued : queued'[j] = queued[k] /\ queued[k].slot # check_subframe_no
  <2>1. CASE queued'[j] = [slot |-> check_subframe_no', left |-> 3]
    BY <2>1
  <2>2. CASE \E k \in DOMAIN q : queued'[j] = q[k]
    BY <1>3, <1>4, <2>2
  <2> QED BY <1>4, <2>1, <2>2
<1>7. Types'
  BY <1>1, <1>2, <1>4, <1>5 DEF Types
<1>8. Ordered'
  <2>1. \A i, j \in DOMAIN due' : due'[i] = due'[j] => i = j
    BY <1>1, <1>5 DEF Ordered
  <2>2. ASSUME NEW i \in DOMAIN queued', NEW j \in DOMAIN due' PROVE queued'[i].slot # due'[j]
    <3>1. due'[j] = due[j + 1] /\ j + 1 \in DOMAIN due
      BY <1>5
    <3> QED BY <1>1, <1>4, <1>6, <3>1 DEF Ordered
  <2> QED BY <1>4, <2>1, <2>2 DEF Ordered
<1>9. ASSUME calm >= 4 PROVE due' = <<>> /\ Head(due) = check_subframe_no
  <2>1. \A j \in DOMAIN due : due[j] = check_subframe_no
    BY <1>1, <1>9 DEF OthersPass, Pending, ToSet
  <2>2. Len(due) = 1
    <3>1. ASSUME Len(due) >= 2 PROVE FALSE
      <4>1. 1 \in DOMAIN due /\ 2 \in DOMAIN due
        BY <1>5, <3>1
      <4> QED BY <1>1, <2>1, <4>1 DEF Ordered
    <3> QED BY <1>5, <3>1
  <2> QED BY <1>1, <1>5, <2>1, <2>2
<1>10. OthersPass'
  <2>1. \A i \in DOMAIN queued' : queued'[i].slot # check_subframe_no' => queued'[i].left + calm <= 3
    BY <1>1, <1>6 DEF OthersPass
  <2>2. ASSUME calm >= 4 PROVE Pending' \subseteq {check_subframe_no'}
    <3>1. ASSUME NEW i \in DOMAIN queued' PROVE queued'[i].slot = check_subframe_no'
      <4>1. ASSUME queued'[i].slot # check_subframe_no' PROVE FALSE
        <5>1. queued'[i].left + calm <= 3
          BY <2>1, <4>1
        <5>2. queued'[i] \in Check
          BY <1>4
        <5> QED BY <1>2, <2>2, <5>1, <5>2 DEF Check
      <4> QED BY <4>1
    <3>2. ToSet(due') = {}
      BY <1>9, <2>2 DEF ToSet
    <3> QED BY <3>1, <3>2 DEF Pending, Slots
  <2> QED BY <1>1, <2>1, <2>2 DEF OthersPass
<1>11. GrantIsNear'
  <2>1. barren \in 0 .. calm /\ barren' \in 0 .. calm
    BY <1>1, <1>2 DEF GrantIsNear
  <2>2. /\ Rounds(subframe) \in 0..4 /\ Rounds(subframe + 3) \in 0..4
        /\ ~Grants => Rounds(subframe) >= 1 /\ Rounds(subframe + 3) = Rounds(subframe) - 1
    <3>1. subframe + 0 = subframe
      BY <1>2
    <3>2. /\ \A v \in 0..3 : Rounds(subframe + v) \in 0..4
          /\ ~Grants => Rounds(subframe) >= 1 /\ Rounds(subframe + 3) = Rounds(subframe) - 1
      BY <1>2, RoundsFacts DEF Grants
    <3>3. Rounds(subframe + 0) \in 0..4 /\ Rounds(subframe + 3) \in 0..4
      BY <3>2
    <3> QED BY <3>1, <3>2, <3>3
  <2>3. OnTime(3)'
    <3>1. CASE Grants
      BY <1>1, <2>2, <3>1 DEF OnTime
    <3>2. CASE ~Grants /\ Head(due) = check_subframe_no
      <4>1. check_subframe_no \in ToSet(due)
        BY <1>1, <1>5, <3>2 DEF ToSet
      <4>2. barren + 0 + 3 * Rounds(subframe + 0) <= 15
        BY <1>1, <4>1 DEF GrantIsNear, OnTime
      <4>3. barren + 3 * Rounds(subframe) <= 15
        BY <1>2, <2>1, <2>2, <4>2
      <4> QED BY <1>1, <1>2, <2>2, <3>2, <4>3 DEF OnTime
    <3>3. CASE ~Grants /\ Head(due) # check_subframe_no
      <4>1. calm <= 3
        BY <1>2, <1>9, <3>3
      <4>2. Rounds(subframe + 3) <= 3
        BY <2>2, <3>3
      <4> QED BY <1>1, <1>2, <2>1, <2>2, <3>3, <4>1, <4>2 DEF OnTime
    <3> QED BY <3>1, <3>2, <3>3
  <2>4. check_subframe_no' \notin ToSet(due')
    BY <1>4, <1>5 DEF ToSet
  <2>5. \A j \in DOMAIN queued' : queued'[j].slot = check_subframe_no' => queued'[j].left = 3
    BY <1>6
  <2> QED BY <1>1, <2>1, <2>3, <2>4, <2>5 DEF GrantIsNear, OnTime
<1>12. IdleUnlessFed' /\ CheckComes'
  BY <1>1, <1>4 DEF IdleUnlessFed, CheckComes, Pending
<1> QED BY <1>7, <1>8, <1>10, <1>11, <1>12 DEF Inv

LEMMA ExpireKeeps == Inv /\ Expire => Inv'
<1> SUFFICES ASSUME Inv, Expire PROVE Inv'
  OBVIOUS
<1>1. /\ Types /\ Ordered /\ OthersPass /\ GrantIsNear /\ IdleUnlessFed /\ CheckComes
      /\ queued # <<>> /\ Head(queued).left = 0 /\ queued' = Tail(queued)
      /\ due' = Append(due, Head(queued).slot)
      /\ UNCHANGED <<subframe, check_subframe_no, packets, fed, calm, barren>>
  BY DEF Inv, Expire
<1>2. /\ queued \in Seq(Check) /\ due \in Seq(Slot) /\ Len(queued) \in Nat /\ Len(queued) >= 1
      /\ Len(due) \in Nat /\ calm \in Nat /\ barren \in Nat /\ subframe \in 0..9
  BY <1>1 DEF Types
<1>3. /\ queued' \in Seq(Check) /\ DOMAIN queued' = 1 .. (Len(queued) - 1) /\ DOMAIN queued = 1 .. Len(queued)
      /\ \A j \in DOMAIN queued' : j + 1 \in DOMAIN queued /\ queued'[j] = queued[j + 1]
      /\ 1 \in DOMAIN queued /\ Head(queued) = queued[1] /\ queued[1] \in Check
  BY <1>1, <1>2
<1> DEFINE h == queued[1].slot
<1>4. h \in Slot
  BY <1>3 DEF Check
<1> HIDE DEF h
<1>5. /\ due' \in Seq(Slot) /\ DOMAIN due' = 1 .. (Len(due) + 1) /\ DOMAIN due = 1 .. Len(due)
      /\ due'[Len(due) + 1] = h /\ \A j \in DOMAIN due : due'[j] = due[j]
  <2>1. due' = Append(due, h)
    BY <1>1, <1>3 DEF h
  <2> QED BY <1>2, <1>4, <2>1
<1>6. ToSet(due') = ToSet(due) \cup {h}
  <2>1. \A j \in DOMAIN due' : j \in DOMAIN due \/ j = Len(due) + 1
    BY <1>2, <1>5
  <2>2. \A j \in DOMAIN due : j \in DOMAIN due'
    BY <1>2, <1>5
  <2>3. Len(due) + 1 \in DOMAIN due'
    BY <1>2, <1>5
  <2> QED BY <1>5, <2>1, <2>2, <2>3 DEF ToSet
<1>7. Slots(queued) = Slots(queued') \cup {h}
  <2>1. \A j \in DOMAIN queued : j = 1 \/ (j - 1 \in DOMAIN queued' /\ queued[j] = queued'[j - 1])
    BY <1>2, <1>3
  <2> QED BY <1>3, <2>1 DEF Slots, h
<1>8. Types'
  BY <1>1, <1>3, <1>5 DEF Types
<1>9. Ordered'
  <2>1. Sorted(queued') /\ Distinct(queued')
    <3>1. ASSUME NEW i \in DOMAIN queued', NEW j \in DOMAIN queued'
          PROVE  /\ i <= j => queued'[i].left <= queued'[j].left
                 /\ queued'[i].slot = queued'[j].slot => i = j
      <4>1. /\ i + 1 \in DOMAIN queued /\ queued'[i] = queued[i + 1]
            /\ j + 1 \in DOMAIN queued /\ queued'[j] = queued[j + 1]
        BY <1>3
      <4>2. i \in Nat /\ j \in Nat
        BY <1>3
      <4>3. i <= j => queued[i + 1].left <= queued[j + 1].left
        BY <1>1, <4>1, <4>2 DEF Ordered, Sorted
      <4>4. queued[i + 1].slot = queued[j + 1].slot => i + 1 = j + 1
        BY <1>1, <4>1 DEF Ordered, Distinct
      <4> QED BY <4>1, <4>2, <4>3, <4>4
    <3> QED BY <3>1 DEF Sorted, Distinct
  <2>2. \A j \in DOMAIN queued' : queued'[j].slot # h
    <3> SUFFICES ASSUME NEW j \in DOMAIN queued' PROVE queued'[j].slot # h
      OBVIOUS
    <3>1. j + 1 \in DOMAIN queued /\ j + 1 # 1 /\ queued'[j] = queued[j + 1]
      BY <1>3
    <3> QED BY <1>1, <1>3, <3>1 DEF Ordered, Distinct, h
  <2>3. \A j \in DOMAIN due : due[j] # h
    BY <1>1, <1>3 DEF Ordered, h
  <2>4. \A j \in DOMAIN due' : j \in DOMAIN due \/ j = Len(due) + 1
    BY <1>2, <1>5
  <2>5. \A i, j \in DOMAIN due' : due'[i] = due'[j] => i = j
    BY <1>1, <1>5, <2>3, <2>4 DEF Ordered
  <2>6. \A i \in DOMAIN queued', j \in DOMAIN due' : queued'[i].slot # due'[j]
    BY <1>1, <1>3, <1>5, <2>2, <2>4 DEF Ordered
  <2> QED BY <2>1, <2>5, <2>6 DEF Ordered
<1>10. Pending' = Pending
  BY <1>6, <1>7 DEF Pending
<1>11. OthersPass'
  BY <1>1, <1>3, <1>10 DEF OthersPass
<1>12. GrantIsNear'
  <2>1. h = check_subframe_no => OnTime(0)
    BY <1>1, <1>3 DEF GrantIsNear, h
  <2>2. check_subframe_no' \in ToSet(due') => OnTime(0)
    BY <1>1, <1>6, <2>1 DEF GrantIsNear
  <2> QED BY <1>1, <1>3, <2>2 DEF GrantIsNear, OnTime
<1>13. IdleUnlessFed' /\ CheckComes'
  BY <1>1, <1>10 DEF IdleUnlessFed, CheckComes
<1> QED BY <1>8, <1>9, <1>11, <1>12, <1>13 DEF Inv

\* Time goes on only if nothing is due, so what is left when calm is 3 is not
\* one of the others.
LEMMA TickKeeps == Inv /\ Tick => Inv'
<1> SUFFICES ASSUME Inv, Tick PROVE Inv'
  OBVIOUS
<1>1. /\ Types /\ Ordered /\ OthersPass /\ GrantIsNear /\ IdleUnlessFed /\ CheckComes
      /\ due = <<>> /\ (queued # <<>> => Head(queued).left > 0)
      /\ subframe' = (subframe + 1) % 10
      /\ queued' = [i \in DOMAIN queued |-> [queued[i] EXCEPT !.left = @ - 1]]
      /\ calm' = Later(calm) /\ barren' = Later(barren)
      /\ UNCHANGED <<due, check_subframe_no, fed>>
  BY DEF Inv, Tick
<1>2. /\ queued \in Seq(Check) /\ Len(queued) \in Nat /\ DOMAIN queued = 1 .. Len(queued)
      /\ calm \in Nat /\ barren \in Nat /\ subframe \in 0..9
  BY <1>1 DEF Types
<1>3. \A i \in DOMAIN queued : queued[i] \in Check /\ queued[i].left \in 1..3
  <2> SUFFICES ASSUME NEW i \in DOMAIN queued PROVE queued[i] \in Check /\ queued[i].left \in 1..3
    OBVIOUS
  <2>1. /\ queued[i] \in Check /\ 1 \in DOMAIN queued /\ 1 <= i
        /\ queued # <<>> /\ Head(queued) = queued[1] /\ queued[1] \in Check
    BY <1>2
  <2>2. queued[1].left > 0 /\ queued[1].left <= queued[i].left
    BY <1>1, <2>1 DEF Ordered, Sorted
  <2> QED BY <2>1, <2>2 DEF Check
<1>4. \A i \in DOMAIN queued : /\ queued'[i] \in Check /\ queued'[i].slot = queued[i].slot
                               /\ queued'[i].left = queued[i].left - 1
  <2> SUFFICES ASSUME NEW c \in Check, c.left \in 1..3
               PROVE  LET d == [c EXCEPT !.left = @ - 1]
                      IN  d \in Check /\ d.slot = c.slot /\ d.left = c.left - 1
    BY <1>1, <1>3
  <2> QED BY DEF Check
<1>5. queued' \in Seq(Check) /\ DOMAIN queued' = DOMAIN queued
  <2>1. queued' \in [1 .. Len(queued) -> Check]
    BY <1>1, <1>2, <1>4
  <2> QED BY <1>2, <2>1
<1>6. /\ calm' \in Nat /\ barren' \in Nat /\ calm' \in {calm, calm + 1} /\ barren' \in {barren, barren + 1}
      /\ barren' <= calm'
  <2>1. barren <= calm /\ MaxCalm \in Nat
    BY <1>1, BoundsAssumption DEF GrantIsNear
  <2> QED BY <1>1, <1>2, <2>1 DEF Later
<1>7. Types'
  BY <1>1, <1>2, <1>5, <1>6 DEF Types
<1>8. Ordered'
  <2>1. Sorted(queued')
    <3> SUFFICES ASSUME NEW i \in DOMAIN queued, NEW j \in DOMAIN queued, i <= j
                 PROVE  queued'[i].left <= queued'[j].left
      BY <1>5 DEF Sorted
    <3>1. queued[i].left <= queued[j].left
      BY <1>1 DEF Ordered, Sorted
    <3> QED BY <1>3, <1>4, <3>1
  <2>2. Distinct(queued')
    <3>1. \A i, j \in DOMAIN queued : queued[i].slot = queued[j].slot => i = j
      BY <1>1 DEF Ordered, Distinct
    <3>2. \A i, j \in DOMAIN queued' : queued'[i].slot = queued'[j].slot => i = j
      BY <1>4, <1>5, <3>1
    <3> QED BY <3>2 DEF Distinct
  <2>3. DOMAIN due = {} /\ due' = due
    BY <1>1
  <2> QED BY <2>1, <2>2, <2>3 DEF Ordered
<1>9. Slots(queued') = Slots(queued)
  BY <1>4, <1>5 DEF Slots
<1>10. OthersPass'
  <2>1. ASSUME NEW i \in DOMAIN queued, queued[i].slot # check_subframe_no
        PROVE  queued'[i].left + calm' <= 3 /\ calm <= 2
    <3>1. queued[i].left + calm <= 3
      BY <1>1, <2>1 DEF OthersPass
    <3> QED BY <1>2, <1>3, <1>4, <1>6, <3>1
  <2>2. ASSUME calm' >= 4 PROVE Pending' \subseteq {check_subframe_no}
    <3>1. \A i \in DOMAIN queued : queued[i].slot = check_subframe_no
      BY <1>2, <1>6, <2>1, <2>2
    <3>2. ToSet(due') = {}
      BY <1>1 DEF ToSet
    <3> QED BY <1>9, <3>1, <3>2 DEF Pending, Slots
  <2> QED BY <1>1, <1>4, <1>5, <2>1, <2>2 DEF OthersPass
<1>11. GrantIsNear'
  <2>1. ASSUME NEW i \in DOMAIN queued, queued[i].slot = check_subframe_no 
        PROVE  barren' + queued'[i].left + 3 * Rounds(subframe' + queued'[i].left) <= 15
    <3>1. PICK v \in 1..3 : v = queued[i].left /\ queued'[i].left = v - 1
      BY <1>3, <1>4
    <3>2. barren + v + 3 * Rounds(subframe + v) <= 15
      BY <1>1, <2>1, <3>1 DEF GrantIsNear, OnTime
    <3>3. Rounds(subframe' + (v - 1)) = Rounds(subframe + v) /\ Rounds(subframe + v) \in 0..4
      BY <1>1, <1>2, RoundsFacts
    <3>4. PICK r \in 0..4 : r = Rounds(subframe + v)
      BY <3>3
    <3>5. barren' + (v - 1) + 3 * r <= 15
      <4>1. barren + v + 3 * r <= 15
        BY <3>2, <3>4
      <4>2. barren' = barren \/ barren' = barren + 1
        BY <1>6
      <4>3. 3 * r \in Nat /\ v \in Nat /\ barren \in Nat
        BY <1>2
      <4> QED BY <4>1, <4>2, <4>3
    <3> QED BY <3>1, <3>3, <3>4, <3>5
  <2>2. check_subframe_no' \notin ToSet(due')
    BY <1>1 DEF ToSet
  <2>3. \A i \in DOMAIN queued' :
          queued'[i].slot = check_subframe_no' =>
            barren' + queued'[i].left + 3 * Rounds(subframe' + queued'[i].left) <= 15
    BY <1>1, <1>4, <1>5, <2>1
  <2> QED BY <1>6, <2>2, <2>3 DEF GrantIsNear, OnTime
<1>12. IdleUnlessFed'
  BY <1>1, <1>2, <1>5 DEF IdleUnlessFed
<1>13. CheckComes'
  BY <1>1, <1>9 DEF CheckComes, Pending
<1> QED BY <1>7, <1>8, <1>10, <1>11, <1>12, <1>13 DEF Inv

LEMMA ReopenKeeps == Inv /\ Reopen => Inv'
<1> SUFFICES ASSUME Inv, Reopen PROVE Inv'
  OBVIOUS
<1>1. /\ queued' = <<>> /\ due' = <<>> /\ fed' = FALSE /\ calm' = 0 /\ barren' = 0 /\ subframe' = subframe
  BY DEF Reopen
<1>2. Types'
  BY <1>1 DEF Inv, Types
<1>3. Ordered' /\ OthersPass' /\ GrantIsNear'
  BY <1>1 DEF Ordered, Sorted, Distinct, OthersPass, GrantIsNear, ToSet
<1> QED BY <1>1, <1>2, <1>3 DEF Inv, IdleUnlessFed, CheckComes

LEMMA InvInductive == Inv /\ [Next]_vars => Inv'
<1> SUFFICES ASSUME Inv, [Next]_vars PROVE Inv'
  OBVIOUS
<1>1. CASE PacketFromLower
  BY <1>1, PacketKeeps
<1>2. CASE CheckUlSubframe
  BY <1>2, CheckKeeps
<1>3. CASE Expire
  BY <1>3, ExpireKeeps
<1>4. CASE Tick
  BY <1>4, TickKeeps
<1>5. CASE Reopen
  BY <1>5, ReopenKeeps
<1>6. CASE UNCHANGED vars
  BY <1>6 DEF vars, Inv, Types, Ordered, Sorted, Distinct, OthersPass, GrantIsNear, OnTime,
              IdleUnlessFed, CheckComes, Pending, Slots
<1> QED BY <1>1, <1>2, <1>3, <1>4, <1>5, <1>6 DEF Next

LEMMA InvAlways == Spec => []Inv
<1>1. Init => Inv
  <2> SUFFICES ASSUME Init PROVE Inv
    OBVIOUS
  <2>1. Types
    BY DEF Init, Types
  <2>2. Ordered /\ OthersPass /\ GrantIsNear
    BY DEF Init, Ordered, Sorted, Distinct, OthersPass, GrantIsNear, ToSet
  <2> QED BY <2>1, <2>2 DEF Init, Inv, IdleUnlessFed, CheckComes
<1> QED BY <1>1, InvInductive, PTL DEF Spec

\* From the first packet on a check of the subframe is to come, for any packets
\* at any rate (rlc_macfsm.c:350, 389).
THEOREM CheckAlwaysComes == Spec => []CheckComes
<1>1. Inv => CheckComes
  BY DEF Inv
<1> QED BY <1>1, InvAlways, PTL

\* However many packets a burst had, at most one check is left 4 ms after it.
THEOREM OneChainIsLeft == Spec => []OneChain
<1>1. Inv => OneChain
  <2> SUFFICES ASSUME Inv, calm >= 4 PROVE Len(queued) + Len(due) <= 1
    BY DEF OneChain
  <2>1. /\ Ordered /\ Pending \subseteq {check_subframe_no}
        /\ queued \in Seq(Check) /\ due \in Seq(Slot)
        /\ Len(queued) \in Nat /\ Len(due) \in Nat
    BY DEF Inv, Types, OthersPass
  <2>2. /\ DOMAIN queued = 1 .. Len(queued) /\ DOMAIN due = 1 .. Len(due)
        /\ \A i \in DOMAIN queued : queued[i].slot = check_subframe_no
        /\ \A i \in DOMAIN due : due[i] = check_subframe_no
    <3>1. DOMAIN queued = 1 .. Len(queued) /\ DOMAIN due = 1 .. Len(due)
      BY <2>1
    <3>2. \A i \in DOMAIN queued : queued[i].slot \in Pending
      BY DEF Pending, Slots
    <3>3. \A i \in DOMAIN due : due[i] \in Pending
      BY DEF Pending, ToSet
    <3> QED BY <2>1, <3>1, <3>2, <3>3
  <2>3. ASSUME Len(queued) >= 2 PROVE FALSE
    <3>1. 1 \in DOMAIN queued /\ 2 \in DOMAIN queued
      BY <2>1, <2>2, <2>3
    <3> QED BY <2>1, <2>2, <3>1 DEF Ordered, Distinct
  <2>4. ASSUME Len(due) >= 2 PROVE FALSE
    <3>1. 1 \in DOMAIN due /\ 2 \in DOMAIN due
      BY <2>1, <2>2, <2>4
    <3> QED BY <2>1, <2>2, <3>1 DEF Ordered
  <2>5. ASSUME Len(queued) >= 1, Len(due) >= 1 PROVE FALSE
    <3>1. 1 \in DOMAIN queued /\ 1 \in DOMAIN due
      BY <2>1, <2>2, <2>5
    <3> QED BY <2>1, <2>2, <3>1 DEF Ordered
  <2> QED BY <2>1, <2>3, <2>4, <2>5
<1> QED BY <1>1, InvAlways, PTL

\* From the first packet on no 15 ms pass without grants or another packet, though
\* a check grants only in two subframes of ten and a burst shifts the checks.
THEOREM GrantsAlwaysComeAgain == Spec => []GrantsComeAgain
<1>1. Inv => GrantsComeAgain
  <2> SUFFICES ASSUME Inv, fed PROVE barren <= 15
    BY DEF GrantsComeAgain
  <2>1. barren \in Nat /\ subframe \in 0..9 /\ queued \in Seq(Check)
    BY DEF Inv, Types
  <2>2. check_subframe_no \in Slots(queued) \cup ToSet(due)
    BY DEF Inv, CheckComes, Pending
  <2>3. CASE check_subframe_no \in ToSet(due)
    <3>1. barren + 0 + 3 * Rounds(subframe + 0) <= 15
      BY <2>3 DEF Inv, GrantIsNear, OnTime
    <3>2. Rounds(subframe + 0) \in 0..4
      BY <2>1, RoundsFacts
    <3> QED BY <2>1, <3>1, <3>2
  <2>4. CASE check_subframe_no \in Slots(queued)
    <3>1. PICK i \in DOMAIN queued : queued[i].slot = check_subframe_no
      BY <2>4 DEF Slots
    <3>2. PICK v \in 0..3 : v = queued[i].left
      <4>1. queued[i] \in Check
        BY <2>1
      <4> QED BY <4>1 DEF Check
    <3>3. barren + v + 3 * Rounds(subframe + v) <= 15
      BY <3>1, <3>2 DEF Inv, GrantIsNear, OnTime
    <3>4. Rounds(subframe + v) \in 0..4
      BY <2>1, RoundsFacts
    <3> QED BY <2>1, <3>3, <3>4
  <2> QED BY <2>2, <2>3, <2>4
<1> QED BY <1>1, InvAlways, PTL
=============================================================================
