--------------------------- MODULE FsmTimerProofs ---------------------------
(* Theorems about FsmTimer, for every set of event slots, every set of delays, *)
(* every bound of the clock, one CPU or several, and any traffic.              *)
EXTENDS FsmTimer, TLAPS

-----------------------------------------------------------------------------
(* What the operators on the event queues return.                              *)

LEMMA TailFacts ==
  ASSUME NEW S, NEW q \in Seq(S), q # <<>>
  PROVE  /\ Tail(q) \in Seq(S)
         /\ Len(q) \in Nat /\ Len(q) >= 1
         /\ Len(Tail(q)) = Len(q) - 1
         /\ \A i \in 1..(Len(q) - 1) : Tail(q)[i] = q[i + 1]
         /\ Head(q) \in S /\ Head(q) = q[1]
  OBVIOUS

LEMMA SubSeqFacts ==
  ASSUME NEW S, NEW q \in Seq(S), NEW a \in 1..(Len(q) + 1), NEW b \in
       0..Len(q), a <= b + 1
  PROVE  /\ SubSeq(q, a, b) \in Seq(S)
         /\ Len(SubSeq(q, a, b)) = b - a + 1
         /\ \A i \in 1..(b - a + 1) : SubSeq(q, a, b)[i] = q[a + i - 1]
  OBVIOUS

LEMMA ConcatFacts ==
  ASSUME NEW S, NEW q \in Seq(S), NEW r \in Seq(S)
  PROVE  /\ q \o r \in Seq(S)
         /\ Len(q \o r) = Len(q) + Len(r)
         /\ \A i \in 1..(Len(q) + Len(r)) :
              (q \o r)[i] = IF i <= Len(q) THEN q[i] ELSE r[i - Len(q)]
  OBVIOUS

Inserts(r, q, k, p, x) ==
  \A i \in 1..(Len(q) + 1) :
    r[i] = IF i <= k THEN q[i] ELSE IF i = p THEN x ELSE q[i - 1]

LEMMA InsertFacts ==
  ASSUME NEW S, NEW q \in Seq(S), NEW x \in S, NEW k \in 0..Len(q), NEW p, p = k + 1
  PROVE  /\ InsertAt(q, p, x) \in Seq(S)
         /\ Len(InsertAt(q, p, x)) = Len(q) + 1
         /\ Inserts(InsertAt(q, p, x), q, k, p, x)
<1>0. Len(q) \in Nat /\ k \in Nat /\ p - 1 = k /\ p \in Nat
  OBVIOUS
<1>1. InsertAt(q, p, x) = (SubSeq(q, 1, p - 1) \o <<x>>) \o SubSeq(q, p, Len(q))
  BY Zenon DEF InsertAt
<1>2. PICK a : a = SubSeq(q, 1, p - 1)
  OBVIOUS
<1>3. PICK b : b = SubSeq(q, p, Len(q))
  OBVIOUS
<1>4. PICK m : m = a \o <<x>>
  OBVIOUS
<1>5. a \in Seq(S) /\ Len(a) = k /\ \A i \in 1..k : a[i] = q[i]
  BY <1>0, <1>2, SubSeqFacts
<1>6. b \in Seq(S) /\ Len(b) = Len(q) - k /\ \A i \in 1..(Len(q) - k) : b[i] = q[k
     + i]
  BY <1>0, <1>3, SubSeqFacts
<1>7. m \in Seq(S) /\ Len(m) = p /\ \A i \in 1..p : m[i] = IF i <= k THEN q[i]
     ELSE x
  <2>1. PICK o : o = <<x>>
    OBVIOUS
  <2>2. o \in Seq(S) /\ Len(o) = 1 /\ o[1] = x
    BY <2>1
  <2>3. /\ a \o o \in Seq(S)
        /\ Len(a \o o) = Len(a) + Len(o)
        /\ \A i \in 1..(Len(a) + Len(o)) :
             (a \o o)[i] = IF i <= Len(a) THEN a[i] ELSE o[i - Len(a)]
    BY <1>5, <2>2, ConcatFacts
  <2>4. m = a \o o
    BY <1>4, <2>1
  <2>5. m \in Seq(S) /\ Len(m) = p
    BY <1>0, <1>5, <2>2, <2>3, <2>4
  <2>6. \A i \in 1..p : m[i] = IF i <= k THEN a[i] ELSE o[i - k]
    BY <1>0, <1>5, <2>2, <2>3, <2>4
  <2>7. \A i \in 1..p : i > k => i - k = 1
    BY <1>0
  <2> QED BY <1>0, <1>5, <2>2, <2>5, <2>6, <2>7
<1>8. PICK r : r = m \o b
  OBVIOUS
<1>9. /\ r \in Seq(S)
      /\ Len(r) = Len(m) + Len(b)
      /\ \A i \in 1..(Len(m) + Len(b)) :
           r[i] = IF i <= Len(m) THEN m[i] ELSE b[i - Len(m)]
  BY <1>6, <1>7, <1>8, ConcatFacts
<1>10. InsertAt(q, p, x) = r
  BY <1>1, <1>2, <1>3, <1>4, <1>8, Zenon
<1>11. p + Len(b) = Len(q) + 1
  BY <1>0, <1>6
<1>12. r \in Seq(S) /\ Len(r) = Len(q) + 1
  BY <1>7, <1>9, <1>11
<1>13. \A i \in 1..(Len(q) + 1) : r[i] = IF i <= p THEN m[i] ELSE b[i - p]
  BY <1>7, <1>9, <1>11
<1>14. \A i \in 1..(Len(q) + 1) :
         r[i] = IF i <= k THEN q[i] ELSE IF i = p THEN x ELSE q[i - 1]
  <2> SUFFICES ASSUME NEW i \in 1..(Len(q) + 1)
               PROVE  r[i] = IF i <= k THEN q[i] ELSE IF i = p THEN x ELSE q[i - 1]
    OBVIOUS
  <2>1. CASE i <= p
    BY <1>0, <1>7, <1>13, <2>1
  <2>2. CASE i > p
    <3>1. i - p \in 1..(Len(q) - k) /\ k + (i - p) = i - 1
      BY <1>0, <2>2
    <3> QED BY <1>0, <1>6, <1>13, <2>2, <3>1
  <2> QED BY <1>0, <2>1, <2>2
<1>15. Inserts(r, q, k, p, x)
  BY <1>14 DEF Inserts
<1> QED BY <1>10, <1>12, <1>15

LEMMA RemoveFacts ==
  ASSUME NEW S, NEW q \in Seq(S), NEW k \in 1..Len(q)
  PROVE  /\ RemoveAt(q, k) \in Seq(S)
         /\ Len(RemoveAt(q, k)) = Len(q) - 1
         /\ \A i \in 1..(Len(q) - 1) :
              RemoveAt(q, k)[i] = IF i < k THEN q[i] ELSE q[i + 1]
<1> DEFINE a == SubSeq(q, 1, k - 1)
           b == SubSeq(q, k + 1, Len(q))
<1>1. RemoveAt(q, k) = a \o b
  BY DEF RemoveAt
<1>2. a \in Seq(S) /\ Len(a) = k - 1 /\ \A i \in 1..(k - 1) : a[i] = q[i]
  BY SubSeqFacts
<1>3. b \in Seq(S) /\ Len(b) = Len(q) - k /\ \A i \in 1..(Len(q) - k) : b[i] = q[k
     + i]
  BY SubSeqFacts
<1> HIDE DEF a, b
<1>4. /\ a \o b \in Seq(S)
      /\ Len(a \o b) = Len(q) - 1
      /\ \A i \in 1..(Len(q) - 1) : (a \o b)[i] = IF i <= k - 1 THEN a[i]
           ELSE b[i - (k - 1)]
  <2>1. /\ a \o b \in Seq(S)
        /\ Len(a \o b) = Len(a) + Len(b)
        /\ \A i \in 1..(Len(a) + Len(b)) :
             (a \o b)[i] = IF i <= Len(a) THEN a[i] ELSE b[i - Len(a)]
    BY <1>2, <1>3, ConcatFacts
  <2>2. Len(a) = k - 1 /\ Len(a) + Len(b) = Len(q) - 1
    BY <1>2, <1>3
  <2> QED BY <2>1, <2>2
<1>5. \A i \in 1..(Len(q) - 1) :
        (a \o b)[i] = IF i < k THEN q[i] ELSE q[i + 1]
  BY <1>2, <1>3, <1>4
<1> QED BY <1>1, <1>4, <1>5
(* Sorted and distinct sequences stay so.                                      *)
Ascending(q, f) == \A i, j \in 1..Len(q) : i < j => f[q[i]] <= f[q[j]]
Distinct(q)     == \A i, j \in 1..Len(q) : q[i] = q[j] => i = j

LEMMA InsertKeeps ==
  ASSUME NEW S, NEW q \in Seq(S), NEW r \in Seq(S), NEW x \in S,
         NEW k \in 0..Len(q), NEW f \in [S -> Nat],
         Len(r) = Len(q) + 1,
         \A i \in 1..(Len(q) + 1) :
           r[i] = IF i <= k THEN q[i] ELSE IF i = k + 1 THEN x ELSE q[i - 1]
  PROVE  /\ (/\ Ascending(q, f)
             /\ \A i \in 1..k : f[q[i]] <= f[x]
             /\ k < Len(q) => f[q[k + 1]] > f[x]) => Ascending(r, f)
         /\ Distinct(q) /\ (\A i \in 1..Len(q) : q[i] # x) => Distinct(r)
<1>0. Len(q) \in Nat /\ k \in Nat /\ k <= Len(q)
  OBVIOUS
<1>1. /\ \A i \in 1..Len(r) : i <= k => i \in 1..Len(q) /\ r[i] = q[i]
      /\ k + 1 \in 1..Len(r) /\ r[k + 1] = x
      /\ \A i \in 1..Len(r) : i > k + 1 => i - 1 \in 1..Len(q) /\ r[i] = q[i - 1]
  BY <1>0
<1>2. ASSUME Ascending(q, f),
             \A i \in 1..k : f[q[i]] <= f[x],
             k < Len(q) => f[q[k + 1]] > f[x]
      PROVE  Ascending(r, f)
  <2>0. f[x] \in Nat /\ \A i \in 1..Len(q) : f[q[i]] \in Nat
    OBVIOUS
  <2>1. ASSUME NEW b \in 1..Len(q), b > k PROVE f[x] <= f[q[b]]
    <3>1. k < Len(q) /\ k + 1 \in 1..Len(q) /\ f[q[k + 1]] > f[x]
      BY <1>0, <1>2, <2>1
    <3>2. PICK p \in 1..Len(q) : p = k + 1
      BY <3>1
    <3>3. p = b \/ p < b
      BY <1>0, <2>1, <3>2
    <3>4. f[q[p]] <= f[q[b]]
      BY <1>2, <2>0, <3>3 DEF Ascending
    <3> QED BY <2>0, <3>1, <3>2, <3>4, SMTT(30)
  <2>2. SUFFICES ASSUME NEW i \in 1..Len(r), NEW j \in 1..Len(r), i < j
                 PROVE  f[r[i]] <= f[r[j]]
    BY DEF Ascending
  <2>3. CASE j <= k
    <3>1. r[i] = q[i] /\ r[j] = q[j] /\ i \in 1..Len(q) /\ j \in 1..Len(q)
      BY <1>0, <1>1, <2>2, <2>3
    <3> QED BY <1>2, <2>2, <3>1 DEF Ascending
  <2>4. CASE i <= k /\ j = k + 1
    <3>1. r[i] = q[i] /\ r[j] = x /\ i \in 1..k
      BY <1>0, <1>1, <2>4
    <3> QED BY <1>2, <3>1
  <2>5. CASE i <= k /\ j > k + 1
    <3>1. /\ r[i] = q[i] /\ r[j] = q[j - 1] /\ i < j - 1
          /\ i \in 1..Len(q) /\ j - 1 \in 1..Len(q)
      BY <1>0, <1>1, <2>2, <2>5
    <3> QED BY <1>2, <3>1 DEF Ascending
  <2>6. CASE i = k + 1
    <3>1. r[i] = x /\ r[j] = q[j - 1] /\ j - 1 \in 1..Len(q) /\ j - 1 > k
      BY <1>0, <1>1, <2>2, <2>6
    <3> QED BY <2>1, <3>1
  <2>7. CASE i > k + 1
    <3>1. /\ r[i] = q[i - 1] /\ r[j] = q[j - 1] /\ i - 1 < j - 1
          /\ i - 1 \in 1..Len(q) /\ j - 1 \in 1..Len(q)
      BY <1>0, <1>1, <2>2, <2>7
    <3> QED BY <1>2, <3>1 DEF Ascending
  <2> QED BY <1>0, <2>2, <2>3, <2>4, <2>5, <2>6, <2>7
<1>3. ASSUME Distinct(q), \A i \in 1..Len(q) : q[i] # x
      PROVE  Distinct(r)
  <2>1. SUFFICES ASSUME NEW i \in 1..Len(r), NEW j \in 1..Len(r), i < j
                 PROVE  r[i] # r[j]
    BY <1>0 DEF Distinct
  <2>2. CASE j <= k
    <3>1. r[i] = q[i] /\ r[j] = q[j] /\ i \in 1..Len(q) /\ j \in 1..Len(q)
      BY <1>0, <1>1, <2>1, <2>2
    <3> QED BY <1>3, <2>1, <3>1 DEF Distinct
  <2>3. CASE i <= k /\ j = k + 1
    BY <1>0, <1>1, <1>3, <2>3
  <2>4. CASE i <= k /\ j > k + 1
    <3>1. /\ r[i] = q[i] /\ r[j] = q[j - 1] /\ i < j - 1
          /\ i \in 1..Len(q) /\ j - 1 \in 1..Len(q)
      BY <1>0, <1>1, <2>1, <2>4
    <3> QED BY <1>3, <3>1 DEF Distinct
  <2>5. CASE i = k + 1
    <3>1. r[i] = x /\ r[j] = q[j - 1] /\ j - 1 \in 1..Len(q)
      BY <1>0, <1>1, <2>1, <2>5
    <3> QED BY <1>3, <3>1
  <2>6. CASE i > k + 1
    <3>1. /\ r[i] = q[i - 1] /\ r[j] = q[j - 1] /\ i - 1 # j - 1
          /\ i - 1 \in 1..Len(q) /\ j - 1 \in 1..Len(q)
      BY <1>0, <1>1, <2>1, <2>6
    <3> QED BY <1>3, <3>1 DEF Distinct
  <2>7. i \in Nat /\ j \in Nat /\ i < j /\ k \in Nat
    BY <1>0, <2>1, SMTT(120)
  <2> QED BY <2>2, <2>3, <2>4, <2>5, <2>6, <2>7, SMTT(120)
<1> QED BY <1>2, <1>3

(* A sequence that leaves out some elements of another: Tail, SubSeq, RemoveAt. *)
Thins(r, q, h) ==
  /\ h \in [1..Len(r) -> 1..Len(q)]
  /\ \A i, j \in 1..Len(r) : i < j => h[i] < h[j]
  /\ \A i \in 1..Len(r) : r[i] = q[h[i]]

LEMMA ThinKeeps ==
  ASSUME NEW S, NEW q \in Seq(S), NEW r \in Seq(S), NEW f, NEW h, Thins(r, q, h)
  PROVE  /\ Ascending(q, f) => Ascending(r, f)
         /\ Distinct(q) => Distinct(r)
<1>1. Ascending(q, f) => Ascending(r, f)
  BY DEF Ascending, Thins
<1>2. ASSUME Distinct(q), NEW i \in 1..Len(r), NEW j \in 1..Len(r), i < j
      PROVE  r[i] # r[j]
  BY <1>2 DEF Distinct, Thins
<1> QED BY <1>1, <1>2 DEF Distinct

-----------------------------------------------------------------------------
(* Control: who holds which lock at which step, and what it relies on.         *)

ListSteps == {"link", "state", "restart", "arm", "run", "cancel", "unlink", "stop"}

LocksHeld ==
  /\ hpc = "idle" <=> owner = "none"
  /\ hpc \in ListSteps <=> tmLock = "holder"
  /\ irq = "move" <=> tmLock = "irq"
  /\ tlet = "drive" <=> owner = "tasklet"
  /\ hpc \in {"halt", "flush", "kill", "drain"} => owner = "close"

StepsRelyOn ==
  /\ hpc \in {"insert", "link", "remove", "unlink"} => cur \in Slot
  /\ hpc \in {"state", "restart", "arm", "run", "cancel"} => evQ # <<>>
  /\ tlet \in {"lock", "drive", "del", "unlink"} => expQ # <<>>
  /\ owner = "close" => closes < MaxClose

Control == TypeOK /\ LocksHeld /\ StepsRelyOn

LEMMA InitControl == Init => Control
<1> SUFFICES ASSUME Init PROVE Control
  OBVIOUS
<1>1. TypeOK
  <2>1. evQ \in Seq(Slot) /\ expQ \in Seq(Slot)
    BY DEF Init
  <2>2. expire \in [Slot -> 0..MaxTime] /\ slot \in [Slot -> {"free", "held",
       "queued", "expired", "leaked"}]
    BY BoundAssumption DEF Init
  <2>3. now \in 0..MaxTime /\ closes \in 0..MaxClose /\ armed \in 0..NoTimer /\
       cutoff \in 0..MaxTime /\ reload \in 0..MaxTime
    BY BoundAssumption DEF Init, NoTimer
  <2> QED BY <2>1, <2>2, <2>3 DEF Init, TypeOK
<1>2. LocksHeld /\ StepsRelyOn
  BY SMTT(60) DEF Init, LocksHeld, StepsRelyOn, ListSteps
<1> QED BY <1>1, <1>2 DEF Control

(* Every step keeps the locks where the program counters say they are.         *)
LEMMA NextControl == Control /\ [Next]_vars => Control'
<1> SUFFICES ASSUME Control, [Next]_vars PROVE Control'
  OBVIOUS
<1> USE BoundAssumption DEF NoTimer
<1>1. CASE Tick
  BY <1>1, SMTT(120) DEF Tick, Control, TypeOK, LocksHeld, StepsRelyOn, ListSteps,
       coreVars, lockVars, queueVars, irqVars, expVars, tletVars
<1>2. CASE Drive
  BY <1>2, SMTT(120) DEF Drive, Control, TypeOK, LocksHeld, StepsRelyOn, ListSteps,
       coreVars, lockVars, queueVars, irqVars, expVars, tletVars
<1>3. CASE HandlerReturn
  BY <1>3, SMTT(120) DEF HandlerReturn, Control, TypeOK, LocksHeld, StepsRelyOn, ListSteps,
       coreVars, lockVars, queueVars, irqVars, expVars, tletVars
<1>4. CASE LockInsert
  BY <1>4, SMTT(120) DEF LockInsert, TakeListLock, Control, TypeOK, LocksHeld, StepsRelyOn,
       ListSteps, coreVars, lockVars, queueVars, irqVars, expVars, tletVars
<1>5. CASE TestState
  BY <1>5, SMTT(120) DEF TestState, BackToBody, Control, TypeOK, LocksHeld, StepsRelyOn,
       ListSteps, coreVars, lockVars, queueVars, irqVars, expVars, tletVars
<1>6. CASE Restart
  <2>1. CASE tmState = "STOP"
    BY <1>6, <2>1, SMTT(120) DEF Restart, BackToBody, Control, TypeOK, LocksHeld,
         StepsRelyOn, ListSteps, coreVars, lockVars, queueVars, irqVars,
         expVars, tletVars
  <2>2. CASE tmState = "RUN"
    BY <1>6, <2>2, SMTT(120) DEF Restart, BackToBody, Control, TypeOK, LocksHeld,
         StepsRelyOn, ListSteps, coreVars, lockVars, queueVars, irqVars,
         expVars, tletVars
  <2>3. CASE tmState = "EXPIRE"
    BY <1>6, <2>3, SMTT(120) DEF Restart, BackToBody, Control, TypeOK, LocksHeld,
         StepsRelyOn, ListSteps, coreVars, lockVars, queueVars, irqVars,
         expVars, tletVars
  <2> QED BY <2>1, <2>2, <2>3 DEF Control, TypeOK
<1>7. CASE ArmUnready
  BY <1>7, SMTT(120) DEF ArmUnready, Crash, Control, TypeOK, LocksHeld, StepsRelyOn,
       ListSteps, coreVars, lockVars, queueVars, irqVars, expVars, tletVars
<1>8. CASE MarkRun
  BY <1>8, SMTT(120) DEF MarkRun, BackToBody, Control, TypeOK, LocksHeld, StepsRelyOn,
       ListSteps, coreVars, lockVars, queueVars, irqVars, expVars, tletVars
<1>9. CASE LockRemove
  BY <1>9, SMTT(120) DEF LockRemove, TakeListLock, Control, TypeOK, LocksHeld, StepsRelyOn,
       ListSteps, coreVars, lockVars, queueVars, irqVars, expVars, tletVars
<1>10. CASE UnlinkFails
  BY <1>10, SMTT(120) DEF UnlinkFails, BackToBody, Control, TypeOK, LocksHeld, StepsRelyOn,
       ListSteps, coreVars, lockVars, queueVars, irqVars, expVars, tletVars
<1>11. CASE UnlinkEmpty
  BY <1>11, SMTT(120) DEF UnlinkEmpty, Crash, Control, TypeOK, LocksHeld, StepsRelyOn,
       ListSteps, coreVars, lockVars, queueVars, irqVars, expVars, tletVars
<1>12. CASE StopEmpty
  BY <1>12, SMTT(120) DEF StopEmpty, StopTimer, BackToBody, Control, TypeOK, LocksHeld,
       StepsRelyOn, ListSteps, coreVars, lockVars, queueVars, irqVars, expVars,
       tletVars
<1>13. CASE Fire
  BY <1>13, SMTT(120) DEF Fire, CallbackEnds, Crash, Control, TypeOK, LocksHeld,
       StepsRelyOn, ListSteps, coreVars, lockVars, queueVars, irqVars, expVars,
       tletVars
<1>14. CASE ReadTime
  BY <1>14, SMTT(120) DEF ReadTime, CallbackEnds, Crash, Control, TypeOK, LocksHeld,
       StepsRelyOn, ListSteps, coreVars, lockVars, queueVars, irqVars, expVars,
       tletVars
<1>15. CASE Check
  BY <1>15, SMTT(120) DEF Check, CallbackEnds, Crash, Control, TypeOK, LocksHeld,
       StepsRelyOn, ListSteps, coreVars, lockVars, queueVars, irqVars, expVars,
       tletVars
<1>16. CASE IrqLock
  BY <1>16, SMTT(120) DEF IrqLock, CallbackEnds, Crash, Control, TypeOK, LocksHeld,
       StepsRelyOn, ListSteps, coreVars, lockVars, queueVars, irqVars, expVars,
       tletVars
<1>17. CASE ScheduleTasklet
  BY <1>17, SMTT(120) DEF ScheduleTasklet, CallbackEnds, Crash, Control, TypeOK, LocksHeld,
       StepsRelyOn, ListSteps, coreVars, lockVars, queueVars, irqVars, expVars,
       tletVars
<1>18. CASE TestMore
  BY <1>18, SMTT(120) DEF TestMore, CallbackEnds, Crash, Control, TypeOK, LocksHeld,
       StepsRelyOn, ListSteps, coreVars, lockVars, queueVars, irqVars, expVars,
       tletVars
<1>19. CASE Quit
  BY <1>19, SMTT(120) DEF Quit, CallbackEnds, Crash, Control, TypeOK, LocksHeld,
       StepsRelyOn, ListSteps, coreVars, lockVars, queueVars, irqVars, expVars,
       tletVars
<1>20. CASE ReloadNull
  BY <1>20, SMTT(120) DEF ReloadNull, CallbackEnds, Crash, Control, TypeOK, LocksHeld,
       StepsRelyOn, ListSteps, coreVars, lockVars, queueVars, irqVars, expVars,
       tletVars
<1>21. CASE Rerun
  BY <1>21, SMTT(120) DEF Rerun, CallbackEnds, Crash, Control, TypeOK, LocksHeld,
       StepsRelyOn, ListSteps, coreVars, lockVars, queueVars, irqVars, expVars,
       tletVars
<1>22. CASE Again
  BY <1>22, SMTT(120) DEF Again, CallbackEnds, Crash, Control, TypeOK, LocksHeld,
       StepsRelyOn, ListSteps, coreVars, lockVars, queueVars, irqVars, expVars,
       tletVars
<1>23. CASE AgainBug
  BY <1>23, SMTT(120) DEF AgainBug, CallbackEnds, Crash, Control, TypeOK, LocksHeld,
       StepsRelyOn, ListSteps, coreVars, lockVars, queueVars, irqVars, expVars,
       tletVars
<1>24. CASE StartTasklet
  <2>1. UNCHANGED <<now, coreVars, lockVars, tmLock, tmState, queueVars, armed,
                    irqVars, expVars, oops>>
    BY <1>24, Zenon DEF StartTasklet
  <2>2. tlet' = "test" /\ tletSched' \in BOOLEAN
    BY <1>24, Zenon DEF StartTasklet
  <2>7. TypeOK'
    BY <2>1, <2>2, SMTT(60) DEF Control, TypeOK, coreVars, lockVars, queueVars, irqVars,
         expVars, tletVars
  <2>8. LocksHeld'
    BY <1>24, SMTT(120) DEF StartTasklet, Control, LocksHeld, ListSteps, coreVars,
         lockVars, queueVars, irqVars, expVars, tletVars
  <2>9. StepsRelyOn'
    BY <1>24, SMTT(120) DEF StartTasklet, Control, StepsRelyOn, LocksHeld, ListSteps,
         TypeOK, coreVars, lockVars, queueVars, irqVars, expVars, tletVars
  <2> QED BY <2>7, <2>8, <2>9 DEF Control
<1>25. CASE TestList
  BY <1>25, SMTT(120) DEF TestList, Control, TypeOK, LocksHeld, StepsRelyOn, ListSteps,
       coreVars, lockVars, queueVars, irqVars, expVars, tletVars
<1>26. CASE DriveExpired
  BY <1>26, SMTT(120) DEF DriveExpired, Control, TypeOK, LocksHeld, StepsRelyOn, ListSteps,
       coreVars, lockVars, queueVars, irqVars, expVars, tletVars
<1>27. CASE BeginDelete
  BY <1>27, SMTT(120) DEF BeginDelete, Control, TypeOK, LocksHeld, StepsRelyOn, ListSteps,
       coreVars, lockVars, queueVars, irqVars, expVars, tletVars
<1>28. CASE DevOpen
  BY <1>28, SMTT(120) DEF DevOpen, Crash, Control, TypeOK, LocksHeld, StepsRelyOn,
       ListSteps, coreVars, lockVars, queueVars, irqVars, expVars, tletVars
<1>29. CASE DevDown
  BY <1>29, SMTT(120) DEF DevDown, Crash, Control, TypeOK, LocksHeld, StepsRelyOn,
       ListSteps, coreVars, lockVars, queueVars, irqVars, expVars, tletVars
<1>30. CASE CoreOpenInUse
  BY <1>30, SMTT(120) DEF CoreOpenInUse, Crash, Control, TypeOK, LocksHeld, StepsRelyOn,
       ListSteps, coreVars, lockVars, queueVars, irqVars, expVars, tletVars
<1>31. CASE CoreClose
  BY <1>31, SMTT(120) DEF CoreClose, Crash, Control, TypeOK, LocksHeld, StepsRelyOn,
       ListSteps, coreVars, lockVars, queueVars, irqVars, expVars, tletVars
<1>32. CASE CloseStop
  BY <1>32, SMTT(120) DEF CloseStop, StopTimer, Crash, Control, TypeOK, LocksHeld,
       StepsRelyOn, ListSteps, coreVars, lockVars, queueVars, irqVars, expVars,
       tletVars
<1>33. CASE CloseKill
  BY <1>33, SMTT(120) DEF CloseKill, StopTimer, Crash, Control, TypeOK, LocksHeld,
       StepsRelyOn, ListSteps, coreVars, lockVars, queueVars, irqVars, expVars,
       tletVars
<1>34. CASE CloseDrainInUse
  BY <1>34, SMTT(120) DEF CloseDrainInUse, StopTimer, Crash, Control, TypeOK, LocksHeld,
       StepsRelyOn, ListSteps, coreVars, lockVars, queueVars, irqVars, expVars,
       tletVars
<1>35. ASSUME NEW s \in Slot, NEW d \in Delays, Schedule(s, d) PROVE Control'
  <2>1. Due(d) \in 0..MaxTime
    BY <1>35, DelayAssumption DEF Schedule, Due, Control, TypeOK
  <2>2. expire' \in [Slot -> 0..MaxTime]
    BY <1>35, <2>1 DEF Schedule, Control, TypeOK
  <2> QED BY <1>35, <2>2, SMTT(120) DEF Schedule, Control, TypeOK, LocksHeld, StepsRelyOn,
       ListSteps, coreVars, lockVars, queueVars, irqVars, expVars, tletVars
<1>36. ASSUME NEW k \in 0..Len(evQ), Link(k) PROVE Control'
  <2>1. cur \in Slot /\ evQ \in Seq(Slot)
    BY <1>36, SMTT(60) DEF Link, Control, TypeOK, StepsRelyOn
  <2>2. evQ' \in Seq(Slot) /\ Len(evQ') = Len(evQ) + 1
    <3>1. PICK q \in Seq(Slot), x \in Slot, p \in Nat : q = evQ /\ x = cur /\ p = k + 1
      BY <2>1
    <3>2. evQ' = InsertAt(q, p, x) /\ k \in 0..Len(q)
      BY <1>36, <3>1 DEF Link
    <3>3. InsertAt(q, p, x) \in Seq(Slot) /\ Len(InsertAt(q, p, x)) = Len(q) + 1
      BY <3>1, <3>2, InsertFacts
    <3> QED BY <3>1, <3>2, <3>3
  <2>3. evQ' # <<>>
    BY <2>1, <2>2
  <2>4. before' \subseteq Slot \X Slot /\ late' \subseteq Slot
    BY <1>36, <2>1 DEF Link, Control, TypeOK
  <2>7. TypeOK'
    BY <1>36, <2>1, <2>2, <2>3, <2>4, SMTT(120) DEF Link, Control, TypeOK, StepsRelyOn,
         coreVars, lockVars, queueVars, irqVars, expVars, tletVars
  <2>8. LocksHeld'
    BY <1>36, <2>1, <2>2, <2>3, <2>4, SMTT(120) DEF Link, Control, LocksHeld, ListSteps,
         coreVars, lockVars, queueVars, irqVars, expVars, tletVars
  <2>9. StepsRelyOn'
    BY <1>36, <2>1, <2>2, <2>3, <2>4, SMTT(120) DEF Link, Control, StepsRelyOn,
         LocksHeld, ListSteps, TypeOK, coreVars, lockVars, queueVars, irqVars,
         expVars, tletVars
  <2> QED BY <2>7, <2>8, <2>9 DEF Control
<1>37. ASSUME Arm \/ CancelAndArm PROVE Control'
  <2>1. Head(evQ) \in Slot
    BY <1>37, TailFacts, SMTT(60) DEF Arm, CancelAndArm, Control, TypeOK, StepsRelyOn
  <2>2. armed' \in 0..NoTimer
    BY <1>37, <2>1, SMTT(60) DEF Arm, CancelAndArm, Control, TypeOK
  <2>3. CASE Arm
    BY <2>2, <2>3, SMTT(120) DEF Arm, Control, TypeOK, LocksHeld, StepsRelyOn, ListSteps,
         coreVars, lockVars, queueVars, irqVars, expVars, tletVars
  <2>4. CASE CancelAndArm
    BY <2>2, <2>4, SMTT(120) DEF CancelAndArm, BackToBody, Control, TypeOK, LocksHeld,
         StepsRelyOn, ListSteps, coreVars, lockVars, queueVars, irqVars,
         expVars, tletVars
  <2> QED BY <1>37, <2>3, <2>4
<1>38. ASSUME NEW s \in Slot, Cancel(s) PROVE Control'
  BY <1>38, SMTT(120) DEF Cancel, Control, TypeOK, LocksHeld, StepsRelyOn, ListSteps,
       coreVars, lockVars, queueVars, irqVars, expVars, tletVars
<1>39. ASSUME NEW S, Free(S) PROVE
         /\ expire' \in [Slot -> 0..MaxTime]
         /\ slot' \in [Slot -> {"free", "held", "queued", "expired", "leaked"}]
         /\ before' \subseteq Slot \X Slot /\ late' \subseteq Slot
  BY <1>39 DEF Free, Control, TypeOK
<1>40. CASE UnlinkHead
  <2>1. evQ' \in Seq(Slot) /\ Len(evQ') = Len(evQ) - 1 /\ Len(evQ) \in Nat /\
       Len(evQ) >= 1
    BY <1>40, TailFacts DEF UnlinkHead, Control, TypeOK
  <2>2. Len(evQ) # 1 => evQ' # <<>>
    BY <2>1
  <2>3. /\ expire' \in [Slot -> 0..MaxTime]
        /\ slot' \in [Slot -> {"free", "held", "queued", "expired", "leaked"}]
        /\ before' \subseteq Slot \X Slot /\ late' \subseteq Slot
    BY <1>39, <1>40 DEF UnlinkHead
  <2>4. hpc' \in {"stop", "state"}
    BY <1>40 DEF UnlinkHead
  <2>5. UNCHANGED <<now, coreVars, owner, cur, tmLock, tmState, armed, irqVars,
       expVars,
                    tletVars, oops>>
    BY <1>40 DEF UnlinkHead
  <2>7. TypeOK'
    BY <2>1, <2>3, <2>4, <2>5, SMTT(120) DEF Control, TypeOK, coreVars, lockVars,
         queueVars, irqVars, expVars, tletVars
  <2>8. LocksHeld'
    BY <1>39, <1>40, <2>1, <2>2, SMTT(120) DEF UnlinkHead, Control, LocksHeld, ListSteps,
         coreVars, lockVars, queueVars, irqVars, expVars, tletVars
  <2>9. StepsRelyOn'
    BY <1>39, <1>40, <2>1, <2>2, SMTT(120) DEF UnlinkHead, Control, StepsRelyOn,
         LocksHeld, ListSteps, TypeOK, coreVars, lockVars, queueVars, irqVars,
         expVars, tletVars
  <2> QED BY <2>7, <2>8, <2>9 DEF Control
<1>41. ASSUME NEW k \in 1..Len(evQ), UnlinkInner(k) PROVE Control'
  <2>1. evQ' \in Seq(Slot)
    BY <1>41, RemoveFacts DEF UnlinkInner, Control, TypeOK
  <2> QED BY <1>39, <1>41, <2>1, SMTT(120) DEF UnlinkInner, BackToBody, Control, TypeOK,
       LocksHeld, StepsRelyOn, ListSteps, coreVars, lockVars, queueVars,
       irqVars, expVars, tletVars
<1>42. ASSUME NEW k \in 0..Len(evQ), NEW m \in 0..Len(evQ), NEW cut \in BOOLEAN,
              m <= k, Move(k, m, cut)
       PROVE  Control'
  <2>0. evQ \in Seq(Slot) /\ expQ \in Seq(Slot) /\ Len(evQ) \in Nat
    BY DEF Control, TypeOK
  <2>1. evQ' \in Seq(Slot) /\ SubSeq(evQ, m + 1, k) \in Seq(Slot)
    BY <1>42, <2>0, SubSeqFacts DEF Move
  <2>2. expQ' \in Seq(Slot) /\ Len(expQ') >= Len(expQ)
    BY <1>42, <2>0, <2>1, ConcatFacts DEF Move
  <2>3. expQ # <<>> => expQ' # <<>>
    BY <2>0, <2>2
  <2>4. slot' \in [Slot -> {"free", "held", "queued", "expired", "leaked"}]
    BY <1>42 DEF Move, Control, TypeOK
  <2>5. expCut' \in BOOLEAN
    BY <1>42 DEF Move, Control, TypeOK
  <2>6. TypeOK'
    BY <1>42, <2>1, <2>2, <2>4, <2>5, SMTT(120) DEF Move, Control, TypeOK,
         coreVars, lockVars, queueVars, irqVars, expVars, tletVars
  <2>7. LocksHeld'
    BY <1>42, SMTT(120) DEF Move, Control, LocksHeld, ListSteps, coreVars,
         lockVars, queueVars, irqVars, expVars, tletVars
  <2>8. StepsRelyOn'
    BY <1>42, <2>3, SMTT(120) DEF Move, Control, LocksHeld, ListSteps,
         StepsRelyOn, coreVars, lockVars, queueVars, irqVars, expVars, tletVars
  <2> QED BY <2>6, <2>7, <2>8 DEF Control
<1>43. CASE Reload
  <2>1. Head(evQ) \in Slot
    BY <1>43, TailFacts DEF Reload, Control, TypeOK
  <2> QED BY <1>43, <2>1, SMTT(120) DEF Reload, Control, TypeOK, LocksHeld,
       StepsRelyOn,
       ListSteps, coreVars, lockVars, queueVars, irqVars, expVars, tletVars
<1>44. CASE EndDelete
  <2>1. expQ' \in Seq(Slot)
    BY <1>44, TailFacts, SMTT(60) DEF EndDelete, Control, TypeOK, StepsRelyOn
  <2> QED BY <1>39, <1>44, <2>1, SMTT(120) DEF EndDelete, Control, TypeOK, LocksHeld,
       StepsRelyOn, ListSteps, coreVars, lockVars, queueVars, irqVars, expVars,
       tletVars
<1>45. CASE CoreOpen
  <2>1. slot' \in [Slot -> {"free", "held", "queued", "expired", "leaked"}]
    BY <1>45 DEF CoreOpen, Control, TypeOK
  <2>2. <<>> \in Seq(Slot)
    OBVIOUS
  <2>7. /\ UNCHANGED <<now, closes, cur, tmLock, expire, before, late, armed>>
        /\ UNCHANGED <<irq, cutoff, reload, tlet, tletSched, oops>>
    BY <1>45 DEF CoreOpen, irqVars, tletVars
  <2>8. /\ dev' = "up" /\ coreState' = "opened" /\ ready' = TRUE
        /\ owner' = "open" /\ hpc' = "body" /\ tmState' = "STOP"
        /\ expCut' = FALSE
    BY <1>45 DEF CoreOpen
  <2>9. evQ' \in Seq(Slot) /\ expQ' \in Seq(Slot)
    BY <1>45, <2>2 DEF CoreOpen
  <2>3. TypeOK'
    <3>1. /\ now' \in 0..MaxTime /\ closes' \in 0..MaxClose
          /\ cur' \in Slot \cup {NoSlot} /\ tmLock' \in {"none", "holder", "irq"}
          /\ expire' \in [Slot -> 0..MaxTime] /\ before' \subseteq Slot \X Slot
          /\ late' \subseteq Slot /\ armed' \in 0..NoTimer
      BY <2>7 DEF Control, TypeOK
    <3>2. /\ irq' \in {"off", "enter", "check", "lock", "move", "sched", "test", "quit",
                       "reload", "run", "again"}
          /\ cutoff' \in 0..MaxTime /\ reload' \in 0..MaxTime
          /\ tlet' \in {"off", "test", "lock", "drive", "del", "unlink"}
          /\ tletSched' \in BOOLEAN /\ oops' \in BOOLEAN
      BY <2>7 DEF Control, TypeOK
    <3> QED BY <2>1, <2>8, <2>9, <3>1, <3>2 DEF TypeOK
  <2>4. /\ owner = "none" /\ owner' = "open" /\ hpc' = "body" /\ tmLock' = tmLock
        /\ irq' = irq /\ tlet' = tlet /\ tlet \notin {"lock", "drive", "del", "unlink"}
    BY <1>45, SMTT(60) DEF CoreOpen, InUse, Control, LocksHeld, irqVars, tletVars
  <2>5. LocksHeld'
    BY <2>4 DEF Control, LocksHeld, ListSteps
  <2>6. StepsRelyOn'
    BY <2>4 DEF StepsRelyOn
  <2> QED BY <2>3, <2>5, <2>6 DEF Control
<1>46. CASE CloseFlush
  BY <1>39, <1>46, SMTT(120) DEF CloseFlush, Control, TypeOK, LocksHeld, StepsRelyOn,
       ListSteps, coreVars, lockVars, queueVars, irqVars, expVars, tletVars
<1>47. CASE CloseDrain
  <2>1. closes' \in 0..MaxClose
    BY <1>47, SMTT(60) DEF CloseDrain, Control, TypeOK, LocksHeld, StepsRelyOn
  <2> QED BY <1>39, <1>47, <2>1, SMTT(120) DEF CloseDrain, Control, TypeOK, LocksHeld,
       StepsRelyOn, ListSteps, coreVars, lockVars, queueVars, irqVars, expVars,
       tletVars
<1>48. CASE UNCHANGED vars
  BY <1>48, SMTT(120) DEF vars, Control, TypeOK, LocksHeld, StepsRelyOn, ListSteps,
       coreVars, lockVars, queueVars, irqVars, expVars, tletVars
<1> QED
  BY <1>1, <1>2, <1>3, <1>4, <1>5, <1>6, <1>7, <1>8, <1>9, <1>10, <1>11, <1>12,
       <1>13, <1>14, <1>15, <1>16, <1>17, <1>18, <1>19, <1>20, <1>21, <1>22,
       <1>23, <1>24, <1>25, <1>26, <1>27, <1>28, <1>29, <1>30, <1>31, <1>32,
       <1>33, <1>34, <1>35, <1>36, <1>37, <1>38, <1>40, <1>41, <1>42, <1>43,
       <1>44, <1>45, <1>46, <1>47, <1>48, SMTT(60)
     DEF Next, Handler, ListOp, Callback, Tasklet, Closing, Opening

(* The type invariant of every reachable state.                                *)
THEOREM TypeCorrect == Spec => []TypeOK
<1>1. Control => TypeOK
  BY DEF Control
<1> QED BY InitControl, NextControl, <1>1, PTL DEF Spec

(* tmev_list_lock has one holder, which is inside the code between its lock    *)
(* and unlock, and core.lock is held exactly while a handler, open or close    *)
(* is under way: the tasklet's own handler is one of them.                     *)
THEOREM LocksAreHeld == Spec => []LocksHeld
<1>1. Control => LocksHeld
  BY DEF Control
<1> QED BY InitControl, NextControl, <1>1, PTL DEF Spec
-----------------------------------------------------------------------------
(* The queues: what the place of an event says, step by step.                  *)

Inserting == {"insert", "link"}

Places ==
  /\ \A i \in 1..Len(evQ) : slot[evQ[i]] = "queued"
  /\ \A i \in 1..Len(expQ) : slot[expQ[i]] = "expired"
  /\ \A s \in Slot : slot[s] = "queued" => Contains(evQ, s)
  /\ \A s \in Slot : slot[s] = "expired" => Contains(expQ, s)
  /\ \A s \in Slot : slot[s] = "held" <=> hpc \in Inserting /\ s = cur

Once == Distinct(evQ) /\ Distinct(expQ)

Queues == Places /\ Once

(* The instants: what has expired has, the queue is ordered, and the callback  *)
(* works with a time that has been.                                            *)
Instants == NeverEarly /\ Sorted /\ cutoff <= now

(* A step that leaves every event where it is.                                 *)
Still ==
  /\ UNCHANGED <<evQ, expQ, slot, expire, before, late, expCut>>
  /\ \/ hpc \in Inserting /\ hpc' \in Inserting /\ cur' = cur
     \/ hpc \notin Inserting /\ hpc' \notin Inserting
  /\ now' >= now /\ cutoff' \in {cutoff, now, 0}

(* The steps that move an event; every other step is still.                    *)
Moving ==
  \/ \E s \in Slot, d \in Delays : Schedule(s, d)
  \/ \E k \in 0..Len(evQ) : Link(k)
  \/ UnlinkHead
  \/ \E k \in 1..Len(evQ) : UnlinkInner(k)
  \/ \E k \in 0..Len(evQ), m \in 0..Len(evQ), cut \in BOOLEAN :
       m <= k /\ Move(k, m, cut)
  \/ EndDelete \/ CoreOpen \/ CloseFlush \/ CloseDrain

LEMMA OthersAreStill == Control /\ [Next]_vars => Moving \/ Still
<1> SUFFICES ASSUME Control, [Next]_vars, ~Moving PROVE Still
  OBVIOUS
<1> USE DEF Still, Inserting, Control, TypeOK, LocksHeld, ListSteps, coreVars,
     lockVars,
            queueVars, irqVars, expVars, tletVars
<1>1. CASE Tick
  BY <1>1 DEF Tick
<1>2. CASE Drive \/ HandlerReturn
  BY <1>2 DEF Drive, HandlerReturn
<1>3. CASE LockInsert \/ LockRemove
  BY <1>3 DEF LockInsert, LockRemove, TakeListLock
<1>4. CASE TestState \/ Arm \/ MarkRun \/ CancelAndArm
  BY <1>4, SMTT(60) DEF TestState, Arm, MarkRun, CancelAndArm, BackToBody
<1>5. CASE UnlinkFails \/ StopEmpty
  BY <1>5, SMTT(60) DEF UnlinkFails, StopEmpty, StopTimer, BackToBody
<1>6. CASE ArmUnready \/ UnlinkEmpty \/ ReloadNull \/ AgainBug \/ CoreOpenInUse \/
     CloseDrainInUse
  BY <1>6, SMTT(60) DEF ArmUnready, UnlinkEmpty, ReloadNull, AgainBug, CoreOpenInUse,
       CloseDrainInUse, Crash
<1>7. CASE Fire \/ ReadTime \/ Check \/ IrqLock
  BY <1>7, SMTT(60) DEF Fire, ReadTime, Check, IrqLock, CallbackEnds
<1>8. CASE ScheduleTasklet \/ TestMore \/ Quit
  BY <1>8, SMTT(60) DEF ScheduleTasklet, TestMore, Quit, CallbackEnds
<1>9. CASE Reload \/ Rerun \/ Again
  BY <1>9, SMTT(60) DEF Reload, Rerun, Again, CallbackEnds
<1>10. CASE StartTasklet \/ TestList \/ DriveExpired \/ BeginDelete
  BY <1>10, SMTT(60) DEF StartTasklet, TestList, DriveExpired, BeginDelete
<1>11. CASE DevOpen \/ DevDown \/ CoreClose
  BY <1>11 DEF DevOpen, DevDown, CoreClose
<1>12. CASE CloseStop \/ CloseKill
  BY <1>12 DEF CloseStop, CloseKill, StopTimer
<1>13. CASE Restart
  <2>1. CASE tmState = "STOP"
    BY <1>13, <2>1 DEF Restart, BackToBody
  <2>2. CASE tmState = "RUN"
    BY <1>13, <2>2 DEF Restart, BackToBody
  <2>3. CASE tmState = "EXPIRE"
    BY <1>13, <2>3 DEF Restart, BackToBody
  <2> QED BY <2>1, <2>2, <2>3
<1>14. CASE \E s \in Slot : Cancel(s)
  BY <1>14 DEF Cancel
<1>15. CASE UNCHANGED vars
  BY <1>15 DEF vars
<1> QED
  BY <1>1, <1>2, <1>3, <1>4, <1>5, <1>6, <1>7, <1>8, <1>9, <1>10, <1>11, <1>12,
       <1>13,
     <1>14, <1>15, SMTT(60)
     DEF Next, Handler, ListOp, Callback, Tasklet, Closing, Opening, Moving
-----------------------------------------------------------------------------
(* The steps that move an event.                                               *)

LEMMA QueueTypes ==
  ASSUME Control
  PROVE  /\ evQ \in Seq(Slot) /\ Len(evQ) \in Nat
         /\ \A i \in 1..Len(evQ) : evQ[i] \in Slot
         /\ expQ \in Seq(Slot) /\ Len(expQ) \in Nat
         /\ \A i \in 1..Len(expQ) : expQ[i] \in Slot
         /\ slot \in [Slot -> {"free", "held", "queued", "expired", "leaked"}]
         /\ expire \in [Slot -> 0..MaxTime]
         /\ now \in Nat /\ cutoff \in Nat /\ MaxTime \in Nat
  BY BoundAssumption DEF Control, TypeOK

LEMMA ScheduleKeeps ==
  ASSUME Control, Queues, Instants, NEW s \in Slot, NEW d \in Delays, Schedule(s, d)
  PROVE  Queues' /\ Instants'
<1>1. /\ slot[s] = "free" /\ slot' = [slot EXCEPT ![s] = "held"]
      /\ evQ' = evQ /\ expQ' = expQ /\ now' = now /\ cutoff' = cutoff
      /\ cur' = s /\ hpc = "body" /\ hpc' = "insert"
      /\ \A t \in Slot : t # s => expire'[t] = expire[t]
  BY QueueTypes DEF Schedule, irqVars, expVars
<1>2. /\ \A i \in 1..Len(evQ) : evQ[i] # s
      /\ \A i \in 1..Len(expQ) : expQ[i] # s
  BY <1>1 DEF Queues, Places
<1>3. Places'
  BY <1>1, <1>2, QueueTypes, SMTT(60) DEF Queues, Places, Contains, Inserting
<1>4. Once'
  BY <1>1 DEF Queues, Once
<1>5. Instants'
  BY <1>1, <1>2, QueueTypes DEF Instants, NeverEarly, Sorted
<1> QED BY <1>3, <1>4, <1>5 DEF Queues

(* What a step keeps when it takes elements out of the queues and changes      *)
(* nothing of the events it leaves there.                                      *)
LEMMA ThinnedQueues ==
  ASSUME Control, Queues, Instants,
         evQ' \in Seq(Slot), expQ' \in Seq(Slot),
         NEW g, Thins(evQ', evQ, g), NEW h, Thins(expQ', expQ, h),
         \A i \in 1..Len(evQ') : expire'[evQ'[i]] = expire[evQ'[i]],
         \A i \in 1..Len(expQ') : expire'[expQ'[i]] = expire[expQ'[i]],
         now' = now, cutoff' = cutoff
  PROVE  Once' /\ Instants'
<1>1. PICK q \in Seq(Slot), r \in Seq(Slot) : q = evQ /\ r = evQ'
  BY QueueTypes
<1>2. PICK u \in Seq(Slot), v \in Seq(Slot) : u = expQ /\ v = expQ'
  BY QueueTypes
<1>3. Thins(r, q, g) /\ Thins(v, u, h)
  BY <1>1, <1>2
<1>4. Ascending(q, expire) /\ Distinct(q) /\ Distinct(u)
  BY <1>1, <1>2, SMTT(60) DEF Queues, Once, Instants, Sorted, Ascending
<1>5. Ascending(r, expire) /\ Distinct(r) /\ Distinct(v)
  BY <1>3, <1>4, ThinKeeps
<1>6. Once'
  BY <1>1, <1>2, <1>5 DEF Once
<1>7. Sorted'
  BY <1>1, <1>5 DEF Sorted, Ascending
<1>8. NeverEarly'
  <2>1. ASSUME NEW i \in 1..Len(v) PROVE expire[v[i]] <= now
    BY <1>2, <1>3 DEF Instants, NeverEarly, Thins
  <2> QED BY <1>2, <2>1 DEF NeverEarly
<1> QED BY <1>6, <1>7, <1>8 DEF Instants

LEMMA ThinsItself ==
  ASSUME NEW S, NEW q \in Seq(S)
  PROVE  Thins(q, q, [i \in 1..Len(q) |-> i])
BY DEF Thins

LEMMA TailThins ==
  ASSUME NEW S, NEW q \in Seq(S), q # <<>>
  PROVE  Thins(Tail(q), q, [i \in 1..(Len(q) - 1) |-> i + 1])
BY TailFacts DEF Thins

LEMMA UnlinkHeadKeeps ==
  ASSUME Control, Queues, Instants, UnlinkHead
  PROVE  Queues' /\ Instants'
<1>1. /\ evQ # <<>> /\ cur = Head(evQ) /\ evQ' = Tail(evQ)
      /\ slot' = [s \in Slot |-> IF s = cur THEN "free" ELSE slot[s]]
      /\ \A s \in Slot : s # cur => expire'[s] = expire[s]
      /\ expQ' = expQ /\ now' = now /\ cutoff' = cutoff
      /\ hpc = "unlink" /\ hpc' \in {"stop", "state"}
  BY SMTT(60) DEF UnlinkHead, Free, irqVars, expVars
<1>2. /\ evQ' \in Seq(Slot)
      /\ Len(evQ) \in Nat /\ Len(evQ) >= 1 /\ Len(evQ') = Len(evQ) - 1
      /\ \A i \in 1..(Len(evQ) - 1) : evQ'[i] = evQ[i + 1]
      /\ cur \in Slot /\ cur = evQ[1]
  BY <1>1, QueueTypes, TailFacts
<1>3. /\ \A i \in 1..Len(evQ') : evQ'[i] \in Slot /\ evQ'[i] # cur /\ slot[evQ'[i]] = "queued"
      /\ \A i \in 1..Len(expQ) : expQ[i] \in Slot /\ expQ[i] # cur /\ slot[expQ[i]] = "expired"
  <2>1. ASSUME NEW i \in 1..Len(evQ')
        PROVE  evQ'[i] \in Slot /\ evQ'[i] # cur /\ slot[evQ'[i]] = "queued"
    <3>1. i + 1 \in 1..Len(evQ) /\ evQ'[i] = evQ[i + 1] /\ i + 1 # 1 /\ 1 \in 1..Len(evQ)
      BY <1>2
    <3>2. evQ[i + 1] # evQ[1]
      BY <3>1 DEF Queues, Once, Distinct
    <3> QED BY <1>2, <3>1, <3>2, QueueTypes DEF Queues, Places
  <2>2. slot[cur] = "queued"
    BY <1>2 DEF Queues, Places
  <2> QED BY <2>1, <2>2, QueueTypes DEF Queues, Places
<1>4. Once' /\ Instants'
  <2>1. Thins(evQ', evQ, [i \in 1..(Len(evQ) - 1) |-> i + 1])
    BY <1>1, QueueTypes, TailThins
  <2>2. Thins(expQ', expQ, [i \in 1..Len(expQ) |-> i])
    BY <1>1, QueueTypes, ThinsItself
  <2> QED BY <1>1, <1>2, <1>3, <2>1, <2>2, QueueTypes, ThinnedQueues
<1>5. Places'
  <2>1. ASSUME NEW s \in Slot, slot'[s] = "queued" PROVE Contains(evQ', s)
    <3>1. slot[s] = "queued" /\ s # cur
      BY <1>1, <2>1
    <3>2. PICK j \in 1..Len(evQ) : evQ[j] = s
      BY <3>1 DEF Queues, Places, Contains
    <3>3. PICK i \in 1..Len(evQ') : i = j - 1
      BY <1>2, <3>1, <3>2
    <3>4. evQ'[i] = s
      BY <1>2, <3>2, <3>3
    <3> QED BY <3>4 DEF Contains
  <2>2. \A s \in Slot : slot'[s] = "expired" => Contains(expQ', s)
    BY <1>1 DEF Queues, Places
  <2>3. \A s \in Slot : slot'[s] # "held"
    BY <1>1 DEF Queues, Places, Inserting
  <2> QED BY <1>1, <1>3, <2>1, <2>2, <2>3 DEF Places, Inserting
<1> QED BY <1>4, <1>5 DEF Queues

LEMMA LinkKeeps ==
  ASSUME Control, Queues, Instants, NEW k \in 0..Len(evQ), Link(k)
  PROVE  Queues' /\ Instants'
<1>1. /\ cur \in Slot /\ slot[cur] = "held"
      /\ slot' = [slot EXCEPT ![cur] = "queued"]
      /\ expQ' = expQ /\ expire' = expire /\ now' = now /\ cutoff' = cutoff
      /\ hpc = "link" /\ hpc' \in {"state", "body"}
      /\ WalksTo(k, cur)
  BY SMTT(60) DEF Link, Control, StepsRelyOn, Queues, Places, Inserting, irqVars, expVars
<1>2. PICK p : p = k + 1
  OBVIOUS
<1>3. /\ evQ' \in Seq(Slot)
      /\ Len(evQ') = Len(evQ) + 1
      /\ \A i \in 1..(Len(evQ) + 1) :
           evQ'[i] = IF i <= k THEN evQ[i] ELSE IF i = p THEN cur ELSE evQ[i - 1]
  <2>1. evQ' = InsertAt(evQ, p, cur)
    BY <1>2 DEF Link
  <2>2. PICK x \in Slot : x = cur
    BY <1>1
  <2>3. PICK q \in Seq(Slot) : q = evQ
    BY QueueTypes
  <2>4. k \in 0..Len(q)
    BY <2>3
  <2>5. /\ InsertAt(q, p, x) \in Seq(Slot)
        /\ Len(InsertAt(q, p, x)) = Len(q) + 1
        /\ Inserts(InsertAt(q, p, x), q, k, p, x)
    BY <1>2, <2>2, <2>3, <2>4, InsertFacts
  <2>6. Inserts(evQ', evQ, k, p, cur)
    BY <2>1, <2>2, <2>3, <2>5
  <2> QED BY <2>1, <2>2, <2>3, <2>5, <2>6 DEF Inserts
<1>4. /\ \A i \in 1..Len(evQ) : evQ[i] # cur
      /\ \A i \in 1..Len(expQ) : expQ[i] # cur
  BY <1>1 DEF Queues, Places
<1>5. Places'
  <2>1. ASSUME NEW i \in 1..Len(evQ') PROVE slot'[evQ'[i]] = "queued"
    <3>1. evQ'[i] = cur \/ \E j \in 1..Len(evQ) : evQ'[i] = evQ[j]
      <4>1. CASE i <= k
        BY <1>3, <4>1, QueueTypes
      <4>2. CASE i = p
        BY <1>2, <1>3, <4>2, QueueTypes
      <4>3. CASE i > k /\ i # p
        <5>1. i - 1 \in 1..Len(evQ) /\ evQ'[i] = evQ[i - 1]
          BY <1>2, <1>3, <4>3, QueueTypes
        <5> QED BY <5>1
      <4> QED BY <1>2, <4>1, <4>2, <4>3
    <3>2. \A j \in 1..Len(evQ) : slot'[evQ[j]] = "queued"
      BY <1>1, QueueTypes DEF Queues, Places
    <3> QED BY <1>1, <3>1, <3>2, QueueTypes
  <2>2. \A i \in 1..Len(expQ') : slot'[expQ'[i]] = "expired"
    BY <1>1, <1>4, QueueTypes DEF Queues, Places
  <2>3. ASSUME NEW s \in Slot, slot'[s] = "queued" PROVE Contains(evQ', s)
    <3>1. CASE s = cur
      <4>1. p \in 1..Len(evQ') /\ evQ'[p] = s
        BY <1>2, <1>3, <3>1, QueueTypes
      <4> QED BY <4>1 DEF Contains
    <3>2. CASE s # cur
      <4>1. PICK j \in 1..Len(evQ) : evQ[j] = s
        BY <1>1, <2>3, <3>2, QueueTypes DEF Queues, Places, Contains
      <4>2. CASE j <= k
        <5>1. j \in 1..Len(evQ') /\ j <= k
          BY <1>3, <4>1, <4>2, QueueTypes
        <5>2. evQ'[j] = evQ[j]
          BY <1>3, <5>1, SMTT(120)
        <5> QED BY <4>1, <5>1, <5>2 DEF Contains
      <4>3. CASE j > k
        <5>1. j + 1 \in 1..Len(evQ') /\ j + 1 > k + 1
          BY <1>3, <4>3, QueueTypes
        <5>2. evQ'[j + 1] = evQ[j]
          BY <1>2, <1>3, <4>3, <5>1, QueueTypes, SMTT(120)
        <5> QED BY <4>1, <5>1, <5>2 DEF Contains
      <4> QED BY <4>2, <4>3, QueueTypes
    <3> QED BY <3>1, <3>2
  <2>4. \A s \in Slot : slot'[s] = "expired" => Contains(expQ', s)
    BY <1>1, QueueTypes DEF Queues, Places
  <2>5. \A s \in Slot : slot'[s] = "held" <=> hpc' \in Inserting /\ s = cur'
    BY <1>1, QueueTypes DEF Queues, Places, Inserting
  <2> QED BY <2>1, <2>2, <2>3, <2>4, <2>5 DEF Places
<1>6. Ascending(evQ', expire) /\ Distinct(evQ')
  <2>1. PICK q \in Seq(Slot) : q = evQ
    BY QueueTypes
  <2>2. PICK r \in Seq(Slot) : r = evQ'
    BY <1>3
  <2>3. PICK x \in Slot : x = cur
    BY <1>1
  <2>4. PICK f \in [Slot -> Nat] : f = expire
    BY QueueTypes
  <2>5. /\ Len(r) = Len(q) + 1
        /\ \A i \in 1..(Len(q) + 1) :
             r[i] = IF i <= k THEN q[i] ELSE IF i = k + 1 THEN x ELSE q[i - 1]
    BY <1>2, <1>3, <2>1, <2>2, <2>3
  <2>6. /\ \A i \in 1..k : f[q[i]] <= f[x]
        /\ k < Len(q) => f[q[k + 1]] > f[x]
        /\ \A i \in 1..Len(q) : q[i] # x
    BY <1>1, <1>4, <2>1, <2>3, <2>4 DEF WalksTo
  <2>7. Ascending(q, f) /\ Distinct(q)
    BY <2>1, <2>4, SMTT(60) DEF Queues, Once, Instants, Sorted, Ascending
  <2>8. k \in 0..Len(q)
    BY <2>1
  <2>9. Ascending(r, f) /\ Distinct(r)
    BY <2>5, <2>6, <2>7, <2>8, InsertKeeps
  <2> QED BY <2>2, <2>4, <2>9
<1>7. Once'
  BY <1>1, <1>6 DEF Queues, Once
<1>8. Sorted'
  BY <1>1, <1>6 DEF Sorted, Ascending
<1>9. NeverEarly' /\ cutoff' <= now'
  BY <1>1 DEF Instants, NeverEarly
<1> QED BY <1>5, <1>7, <1>8, <1>9 DEF Queues, Instants

LEMMA UnlinkInnerKeeps ==
  ASSUME Control, Queues, Instants, NEW k \in 1..Len(evQ), UnlinkInner(k)
  PROVE  Queues' /\ Instants'
<1>1. /\ k > 1 /\ evQ[k] = cur /\ evQ' = RemoveAt(evQ, k)
      /\ slot' = [s \in Slot |-> IF s = cur THEN "free" ELSE slot[s]]
      /\ \A s \in Slot : s # cur => expire'[s] = expire[s]
      /\ expQ' = expQ /\ now' = now /\ cutoff' = cutoff
      /\ hpc = "unlink" /\ hpc' = "body"
  BY SMTT(60) DEF UnlinkInner, Free, BackToBody, irqVars, expVars
<1>2. /\ evQ' \in Seq(Slot)
      /\ Len(evQ) \in Nat /\ Len(evQ') = Len(evQ) - 1
      /\ \A i \in 1..(Len(evQ) - 1) : evQ'[i] = IF i < k THEN evQ[i] ELSE evQ[i + 1]
      /\ cur \in Slot
  BY <1>1, QueueTypes, RemoveFacts
<1>3. /\ \A i \in 1..Len(evQ') : evQ'[i] \in Slot /\ evQ'[i] # cur /\ slot[evQ'[i]] = "queued"
      /\ \A i \in 1..Len(expQ) : expQ[i] \in Slot /\ expQ[i] # cur /\ slot[expQ[i]] = "expired"
  <2>1. ASSUME NEW i \in 1..Len(evQ')
        PROVE  evQ'[i] \in Slot /\ evQ'[i] # cur /\ slot[evQ'[i]] = "queued"
    <3>1. PICK j \in 1..Len(evQ) : j = IF i < k THEN i ELSE i + 1
      BY <1>2
    <3>2. evQ'[i] = evQ[j] /\ j # k
      BY <1>2, <3>1
    <3>3. evQ[j] # evQ[k]
      BY <3>2 DEF Queues, Once, Distinct
    <3> QED BY <1>1, <3>2, <3>3, QueueTypes DEF Queues, Places
  <2>2. slot[cur] = "queued"
    BY <1>1 DEF Queues, Places
  <2> QED BY <2>1, <2>2, QueueTypes DEF Queues, Places
<1>4. Once' /\ Instants'
  <2>1. PICK g : g = [i \in 1..(Len(evQ) - 1) |-> IF i < k THEN i ELSE i + 1]
    OBVIOUS
  <2>2. Thins(evQ', evQ, g)
    <3>1. g \in [1..Len(evQ') -> 1..Len(evQ)]
      BY <1>2, <2>1
    <3>2. \A i, j \in 1..Len(evQ') : i < j => g[i] < g[j]
      BY <1>2, <2>1
    <3>3. \A i \in 1..Len(evQ') : evQ'[i] = evQ[g[i]]
      BY <1>2, <2>1
    <3> QED BY <3>1, <3>2, <3>3 DEF Thins
  <2>3. Thins(expQ', expQ, [i \in 1..Len(expQ) |-> i])
    BY <1>1, QueueTypes, ThinsItself
  <2>4. evQ' \in Seq(Slot) /\ expQ' \in Seq(Slot)
    BY <1>1, <1>2, QueueTypes
  <2>5. \A i \in 1..Len(evQ') : expire'[evQ'[i]] = expire[evQ'[i]]
    BY <1>1, <1>3
  <2>6. \A i \in 1..Len(expQ') : expire'[expQ'[i]] = expire[expQ'[i]]
    BY <1>1, <1>3
  <2>7. now' = now /\ cutoff' = cutoff
    BY <1>1
  <2> QED BY <2>2, <2>3, <2>4, <2>5, <2>6, <2>7, ThinnedQueues
<1>5. Places'
  <2>1. ASSUME NEW s \in Slot, slot'[s] = "queued" PROVE Contains(evQ', s)
    <3>1. slot[s] = "queued" /\ s # cur
      BY <1>1, <2>1
    <3>2. PICK j \in 1..Len(evQ) : evQ[j] = s
      BY <3>1 DEF Queues, Places, Contains
    <3>3. j # k
      BY <1>1, <3>1, <3>2
    <3>4. PICK i \in 1..Len(evQ') : i = IF j < k THEN j ELSE j - 1
      BY <1>2, <3>3
    <3>5. evQ'[i] = s
      <4>1. CASE j < k
        BY <1>2, <3>2, <3>4, <4>1
      <4>2. CASE j > k
        <5>1. i = j - 1 /\ ~(i < k) /\ i + 1 = j
          BY <3>4, <4>2
        <5> QED BY <1>2, <3>2, <5>1
      <4> QED BY <3>3, <4>1, <4>2
    <3> QED BY <3>5 DEF Contains
  <2>2. \A s \in Slot : slot'[s] = "expired" => Contains(expQ', s)
    BY <1>1 DEF Queues, Places
  <2>3. \A s \in Slot : slot'[s] # "held"
    BY <1>1 DEF Queues, Places, Inserting
  <2> QED BY <1>1, <1>3, <2>1, <2>2, <2>3 DEF Places, Inserting
<1> QED BY <1>4, <1>5 DEF Queues

LEMMA EndDeleteKeeps ==
  ASSUME Control, Queues, Instants, EndDelete
  PROVE  Queues' /\ Instants'
<1>1. PICK c : c = Head(expQ)
  OBVIOUS
<1>2. /\ expQ # <<>> /\ expQ' = Tail(expQ) /\ evQ' = evQ
      /\ slot' = [s \in Slot |-> IF s = c THEN "free" ELSE slot[s]]
      /\ \A s \in Slot : s # c => expire'[s] = expire[s]
      /\ now' = now /\ cutoff' = cutoff /\ hpc' = hpc /\ cur' = cur
  BY <1>1, SMTT(60) DEF EndDelete, Free, Control, StepsRelyOn, irqVars, lockVars
<1>3. /\ expQ' \in Seq(Slot)
      /\ Len(expQ) \in Nat /\ Len(expQ) >= 1 /\ Len(expQ') = Len(expQ) - 1
      /\ \A i \in 1..(Len(expQ) - 1) : expQ'[i] = expQ[i + 1]
      /\ c \in Slot /\ c = expQ[1]
  BY <1>1, <1>2, QueueTypes, TailFacts
<1>4. /\ \A i \in 1..Len(expQ') : expQ'[i] \in Slot /\ expQ'[i] # c /\ slot[expQ'[i]] = "expired"
      /\ \A i \in 1..Len(evQ) : evQ[i] \in Slot /\ evQ[i] # c /\ slot[evQ[i]] = "queued"
      /\ slot[c] = "expired"
  <2>1. ASSUME NEW i \in 1..Len(expQ')
        PROVE  expQ'[i] \in Slot /\ expQ'[i] # c /\ slot[expQ'[i]] = "expired"
    <3>1. i + 1 \in 1..Len(expQ) /\ expQ'[i] = expQ[i + 1] /\ i + 1 # 1 /\ 1 \in 1..Len(expQ)
      BY <1>3
    <3>2. expQ[i + 1] # expQ[1]
      BY <3>1 DEF Queues, Once, Distinct
    <3> QED BY <1>3, <3>1, <3>2, QueueTypes DEF Queues, Places
  <2>2. slot[c] = "expired"
    BY <1>3 DEF Queues, Places
  <2> QED BY <2>1, <2>2, QueueTypes DEF Queues, Places
<1>5. Once' /\ Instants'
  <2>1. Thins(expQ', expQ, [i \in 1..(Len(expQ) - 1) |-> i + 1])
    BY <1>2, QueueTypes, TailThins
  <2>2. Thins(evQ', evQ, [i \in 1..Len(evQ) |-> i])
    BY <1>2, QueueTypes, ThinsItself
  <2>3. evQ' \in Seq(Slot) /\ expQ' \in Seq(Slot)
    BY <1>2, <1>3, QueueTypes
  <2>4. /\ \A i \in 1..Len(evQ') : expire'[evQ'[i]] = expire[evQ'[i]]
        /\ \A i \in 1..Len(expQ') : expire'[expQ'[i]] = expire[expQ'[i]]
    BY <1>2, <1>4
  <2>5. now' = now /\ cutoff' = cutoff
    BY <1>2
  <2> QED BY <2>1, <2>2, <2>3, <2>4, <2>5, ThinnedQueues
<1>6. Places'
  <2>1. ASSUME NEW s \in Slot, slot'[s] = "expired" PROVE Contains(expQ', s)
    <3>1. slot[s] = "expired" /\ s # c
      BY <1>2, <2>1
    <3>2. PICK j \in 1..Len(expQ) : expQ[j] = s
      BY <3>1 DEF Queues, Places, Contains
    <3>3. PICK i \in 1..Len(expQ') : i = j - 1
      BY <1>3, <3>1, <3>2
    <3>4. expQ'[i] = s
      BY <1>3, <3>2, <3>3
    <3> QED BY <3>4 DEF Contains
  <2>2. \A s \in Slot : slot'[s] = "queued" => Contains(evQ', s)
    BY <1>2 DEF Queues, Places
  <2>3. \A s \in Slot : slot'[s] = "held" <=> hpc' \in Inserting /\ s = cur'
    BY <1>2, <1>4 DEF Queues, Places
  <2> QED BY <1>2, <1>4, <2>1, <2>2, <2>3 DEF Places
<1> QED BY <1>5, <1>6 DEF Queues

LEMMA SubSeqThins ==
  ASSUME NEW S, NEW q \in Seq(S), NEW a \in 1..(Len(q) + 1), NEW b \in 0..Len(q), a <= b + 1
  PROVE  Thins(SubSeq(q, a, b), q, [i \in 1..(b - a + 1) |-> a + i - 1])
BY SubSeqFacts DEF Thins

(* v is u followed by w; u and w have no element in common.                    *)
Joins(v, u, w) ==
  /\ Len(v) = Len(u) + Len(w)
  /\ \A i \in 1..(Len(u) + Len(w)) :
       v[i] = IF i <= Len(u) THEN u[i] ELSE w[i - Len(u)]
Apart(u, w) == \A i \in 1..Len(u), j \in 1..Len(w) : u[i] # w[j]

LEMMA ConcatKeeps ==
  ASSUME NEW S, NEW u \in Seq(S), NEW w \in Seq(S), NEW v \in Seq(S),
         Joins(v, u, w), Distinct(u), Distinct(w), Apart(u, w)
  PROVE  Distinct(v)
<1>0. Len(u) \in Nat /\ Len(w) \in Nat /\ Len(v) = Len(u) + Len(w)
  BY DEF Joins
<1>1. SUFFICES ASSUME NEW i \in 1..Len(v), NEW j \in 1..Len(v), i < j
               PROVE  v[i] # v[j]
  BY <1>0 DEF Distinct
<1>2. CASE j <= Len(u)
  <2>1. i \in 1..Len(u) /\ j \in 1..Len(u) /\ v[i] = u[i] /\ v[j] = u[j]
    BY <1>0, <1>1, <1>2 DEF Joins
  <2> QED BY <1>1, <2>1 DEF Distinct
<1>3. CASE i <= Len(u) /\ j > Len(u)
  <2>1. /\ i \in 1..Len(u) /\ j - Len(u) \in 1..Len(w)
        /\ v[i] = u[i] /\ v[j] = w[j - Len(u)]
    BY <1>0, <1>3 DEF Joins
  <2> QED BY <2>1 DEF Apart
<1>4. CASE i > Len(u)
  <2>1. /\ i - Len(u) \in 1..Len(w) /\ j - Len(u) \in 1..Len(w)
        /\ v[i] = w[i - Len(u)] /\ v[j] = w[j - Len(u)] /\ i - Len(u) # j - Len(u)
    BY <1>0, <1>1, <1>4 DEF Joins
  <2> QED BY <2>1 DEF Distinct
<1> QED BY <1>0, <1>1, <1>2, <1>3, <1>4

LEMMA MoveKeeps ==
  ASSUME Control, Queues, Instants,
         NEW k \in 0..Len(evQ), NEW m \in 0..Len(evQ), NEW cut \in BOOLEAN,
         m <= k, Move(k, m, cut)
  PROVE  Queues' /\ Instants'
<1>1. /\ \A i \in 1..k : expire[evQ[i]] <= cutoff
      /\ evQ' = SubSeq(evQ, k + 1, Len(evQ))
      /\ expQ' = expQ \o SubSeq(evQ, m + 1, k)
      /\ slot' = [s \in Slot |-> IF \E i \in 1..m : evQ[i] = s THEN "leaked"
                                ELSE IF \E i \in (m + 1)..k : evQ[i] = s THEN "expired"
                                ELSE slot[s]]
      /\ expire' = expire /\ now' = now /\ cutoff' = cutoff
      /\ hpc' = hpc /\ cur' = cur
  BY DEF Move, lockVars
<1>2. PICK w : w = SubSeq(evQ, m + 1, k)
  OBVIOUS
<1>lengths. PICK n \in Nat, l \in Nat : n = Len(evQ) /\ l = Len(expQ)
  BY QueueTypes
<1>bounds. k \in Nat /\ m \in Nat /\ m <= k /\ k <= n
  BY <1>lengths
<1>3. /\ w \in Seq(Slot) /\ Len(w) = k - m
      /\ \A i \in 1..(k - m) : w[i] = evQ[m + i]
  <2>1. m + 1 \in 1..(Len(evQ) + 1) /\ k \in 0..Len(evQ) /\ m + 1 <= k + 1
    BY QueueTypes
  <2>2. /\ w \in Seq(Slot) /\ Len(w) = k - (m + 1) + 1
        /\ \A i \in 1..(k - (m + 1) + 1) : w[i] = evQ[(m + 1) + i - 1]
    BY <1>2, <2>1, QueueTypes, SubSeqFacts
  <2>3. k - (m + 1) + 1 = k - m /\ \A i \in 1..(k - m) : (m + 1) + i - 1 = m + i
    BY QueueTypes
  <2> QED BY <2>2, <2>3
<1>4. /\ evQ' \in Seq(Slot) /\ Len(evQ') = Len(evQ) - k
      /\ \A i \in 1..(Len(evQ) - k) : evQ'[i] = evQ[k + i]
  <2>1. k + 1 \in 1..(Len(evQ) + 1) /\ Len(evQ) \in 0..Len(evQ) /\ k + 1 <= Len(evQ) + 1
    BY QueueTypes
  <2>2. /\ evQ' \in Seq(Slot) /\ Len(evQ') = Len(evQ) - (k + 1) + 1
        /\ \A i \in 1..(Len(evQ) - (k + 1) + 1) : evQ'[i] = evQ[(k + 1) + i - 1]
    <3>1. PICK q \in Seq(Slot) : q = evQ
      BY QueueTypes
    <3>2. PICK r : r = SubSeq(q, k + 1, Len(q))
      OBVIOUS
    <3>3. /\ k + 1 \in 1..(Len(q) + 1) /\ Len(q) \in 0..Len(q) /\ k + 1 <= Len(q) + 1
      BY <2>1, <3>1
    <3>4. /\ r \in Seq(Slot) /\ Len(r) = Len(q) - (k + 1) + 1
          /\ \A i \in 1..(Len(q) - (k + 1) + 1) : r[i] = q[(k + 1) + i - 1]
      BY <3>1, <3>2, <3>3, SubSeqFacts
    <3> QED BY <1>1, <3>1, <3>2, <3>4
  <2>3. /\ Len(evQ) - (k + 1) + 1 = Len(evQ) - k
        /\ \A i \in 1..(Len(evQ) - k) : (k + 1) + i - 1 = k + i
    BY QueueTypes
  <2> QED BY <2>2, <2>3
<1>5. /\ expQ' \in Seq(Slot) /\ Len(expQ') = Len(expQ) + Len(w)
      /\ \A i \in 1..(Len(expQ) + Len(w)) :
           expQ'[i] = IF i <= Len(expQ) THEN expQ[i] ELSE w[i - Len(expQ)]
  BY <1>1, <1>2, <1>3, QueueTypes, ConcatFacts
<1>6. \A i \in 1..Len(evQ') : \E j \in (k + 1)..Len(evQ) : evQ'[i] = evQ[j]
  <2>1. \A i \in 1..(n - k) : k + i \in (k + 1)..n
    BY <1>bounds
  <2> QED BY <1>lengths, <1>4, <2>1
<1>7. ASSUME NEW i \in 1..Len(expQ')
      PROVE  \/ i \in 1..Len(expQ) /\ expQ'[i] = expQ[i]
             \/ /\ i > Len(expQ) /\ m + (i - Len(expQ)) \in (m + 1)..k
                /\ expQ'[i] = evQ[m + (i - Len(expQ))]
  <2>1. CASE i <= Len(expQ)
    BY <1>5, <2>1, QueueTypes
  <2>2. CASE i > Len(expQ)
    <3>1. i \in 1..(l + (k - m)) /\ i > l
      BY <1>lengths, <1>3, <1>5, <2>2
    <3>2. PICK a \in 1..(k - m) : a = i - l
      BY <1>bounds, <3>1
    <3>3. expQ'[i] = w[a]
      BY <1>lengths, <1>3, <1>5, <3>1, <3>2
    <3>4. m + a \in (m + 1)..k
      BY <1>bounds
    <3> QED BY <1>lengths, <1>3, <2>2, <3>2, <3>3, <3>4
  <2> QED BY <2>1, <2>2, QueueTypes
<1>8. /\ \A j \in 1..Len(evQ) : slot[evQ[j]] = "queued" /\ evQ[j] \in Slot
      /\ \A j \in 1..Len(expQ) : slot[expQ[j]] = "expired" /\ expQ[j] \in Slot
      /\ \A a, b \in 1..Len(evQ) : evQ[a] = evQ[b] => a = b
      /\ \A a, b \in 1..Len(expQ) : expQ[a] = expQ[b] => a = b
  BY QueueTypes, SMTT(60) DEF Queues, Places, Once, Distinct
<1>9. ASSUME NEW j \in (k + 1)..Len(evQ) PROVE slot'[evQ[j]] = "queued"
  <2>1. j \in 1..Len(evQ) /\ \A i \in 1..k : i \in 1..Len(evQ) /\ i # j
    BY <1>lengths, <1>bounds
  <2>2. \A i \in 1..k : evQ[i] # evQ[j]
    BY <1>8, <2>1
  <2>3. /\ \A i \in 1..m : i \in 1..k
        /\ \A i \in (m + 1)..k : i \in 1..k
    BY <1>bounds
  <2> QED BY <1>1, <1>8, <2>1, <2>2, <2>3
<1>10. ASSUME NEW j \in (m + 1)..k PROVE slot'[evQ[j]] = "expired"
  <2>1. j \in 1..Len(evQ) /\ \A i \in 1..m : i \in 1..Len(evQ) /\ i # j
    BY <1>lengths, <1>bounds
  <2>2. \A i \in 1..m : evQ[i] # evQ[j]
    BY <1>8, <2>1
  <2> QED BY <1>1, <1>8, <2>1, <2>2
<1>moved. \A i \in 1..k : slot[evQ[i]] = "queued"
  BY <1>lengths, <1>bounds, <1>8
<1>others. \A s \in Slot : slot[s] # "queued" => slot'[s] = slot[s]
  <2>1. /\ \A i \in 1..m : i \in 1..k
        /\ \A i \in (m + 1)..k : i \in 1..k
    BY <1>bounds
  <2> QED BY <1>1, <1>moved, <2>1
<1>11. \A j \in 1..Len(expQ) : slot'[expQ[j]] = "expired"
  BY <1>8, <1>others
<1>12. Places'
  <2>1. \A i \in 1..Len(evQ') : slot'[evQ'[i]] = "queued"
    BY <1>6, <1>9
  <2>2. \A i \in 1..Len(expQ') : slot'[expQ'[i]] = "expired"
    BY <1>7, <1>10, <1>11
  <2>3. ASSUME NEW s \in Slot, slot'[s] = "queued" PROVE Contains(evQ', s)
    <3>1. slot[s] = "queued" /\ \A i \in 1..k : evQ[i] # s
      BY <1>1, <2>3, QueueTypes
    <3>2. PICK j \in 1..Len(evQ) : evQ[j] = s
      BY <3>1 DEF Queues, Places, Contains
    <3>3. j - k \in 1..Len(evQ') /\ k + (j - k) = j
      <4>1. j \in 1..n /\ ~(j \in 1..k)
        BY <1>lengths, <3>1, <3>2
      <4>2. j - k \in 1..(n - k) /\ k + (j - k) = j
        BY <1>bounds, <4>1
      <4> QED BY <1>lengths, <1>4, <4>2
    <3>4. evQ'[j - k] = s
      BY <1>4, <3>2, <3>3
    <3> QED BY <3>3, <3>4 DEF Contains
  <2>4. ASSUME NEW s \in Slot, slot'[s] = "expired" PROVE Contains(expQ', s)
    <3>1. CASE slot[s] = "expired"
      <4>1. PICK j \in 1..Len(expQ) : expQ[j] = s
        BY <3>1 DEF Queues, Places, Contains
      <4>2. j \in 1..Len(expQ') /\ expQ'[j] = s
        <5>1. j \in 1..(l + (k - m)) /\ j <= l
          BY <1>lengths, <1>bounds
        <5> QED BY <1>lengths, <1>3, <1>5, <4>1, <5>1
      <4> QED BY <4>2 DEF Contains
    <3>2. CASE slot[s] # "expired"
      <4>1. PICK j \in (m + 1)..k : evQ[j] = s
        BY <1>1, <2>4, <3>2
      <4>2. PICK i : i = Len(expQ) + (j - m)
        OBVIOUS
      <4>3. /\ i \in 1..(Len(expQ) + Len(w)) /\ ~(i <= Len(expQ))
            /\ i - Len(expQ) = j - m /\ j - m \in 1..(k - m) /\ m + (j - m) = j
        BY <1>3, <4>2, QueueTypes
      <4>4. expQ'[i] = w[j - m] /\ w[j - m] = evQ[m + (j - m)]
        BY <1>3, <1>5, <4>3
      <4> QED BY <1>5, <4>1, <4>3, <4>4 DEF Contains
    <3> QED BY <3>1, <3>2
  <2>5. \A s \in Slot : slot'[s] = "held" <=> slot[s] = "held"
    BY <1>1, <1>others, QueueTypes
  <2>6. \A s \in Slot : slot'[s] = "held" <=> hpc' \in Inserting /\ s = cur'
    BY <1>1, <2>5 DEF Queues, Places
  <2> QED BY <2>1, <2>2, <2>3, <2>4, <2>6 DEF Places
<1>13. Distinct(evQ') /\ Distinct(w) /\ Ascending(evQ', expire)
  <2>1. PICK q \in Seq(Slot), r \in Seq(Slot) : q = evQ /\ r = evQ'
    BY <1>4, QueueTypes
  <2>2. /\ Len(q) \in Nat /\ k \in 0..Len(q) /\ m \in 0..Len(q) /\ Len(q) \in 0..Len(q)
        /\ k + 1 \in 1..(Len(q) + 1) /\ m + 1 \in 1..(Len(q) + 1)
        /\ k + 1 <= Len(q) + 1 /\ m + 1 <= k + 1
    BY <2>1
  <2>3. \E h : Thins(r, q, h)
    BY <1>1, <2>1, <2>2, SubSeqThins
  <2>4. \E h : Thins(w, q, h)
    BY <1>2, <2>1, <2>2, SubSeqThins
  <2>5. Distinct(q) /\ Ascending(q, expire)
    BY <2>1, SMTT(60) DEF Queues, Once, Instants, Sorted, Ascending
  <2>6. Distinct(r) /\ Ascending(r, expire)
    BY <2>1, <2>3, <2>5, ThinKeeps
  <2>7. Distinct(w)
    BY <1>3, <2>1, <2>4, <2>5, ThinKeeps
  <2> QED BY <2>1, <2>6, <2>7
<1>14. Distinct(expQ')
  <2>1. PICK u \in Seq(Slot), v \in Seq(Slot) : u = expQ /\ v = expQ'
    BY <1>5, QueueTypes
  <2>2. \A i \in 1..Len(w) : slot[w[i]] = "queued"
    <3>1. \A i \in 1..(k - m) : m + i \in 1..k
      BY <1>bounds
    <3>2. SUFFICES ASSUME NEW i \in 1..(k - m) PROVE slot[w[i]] = "queued"
      BY <1>3
    <3>3. w[i] = evQ[m + i]
      BY <1>3
    <3> QED BY <1>moved, <3>1, <3>3
  <2>3. Apart(u, w)
    BY <1>8, <2>1, <2>2 DEF Apart
  <2>4. Joins(v, u, w)
    BY <1>5, <2>1 DEF Joins
  <2>5. Distinct(u)
    BY <2>1 DEF Queues, Once
  <2>6. Distinct(v)
    BY <1>3, <1>13, <2>1, <2>3, <2>4, <2>5, ConcatKeeps
  <2> QED BY <2>1, <2>6
<1>15. Sorted'
  BY <1>1, <1>13 DEF Sorted, Ascending
<1>16. NeverEarly'
  <2>1. ASSUME NEW i \in 1..Len(expQ') PROVE expire[expQ'[i]] <= now
    <3>1. CASE i \in 1..Len(expQ) /\ expQ'[i] = expQ[i]
      BY <3>1 DEF Instants, NeverEarly
    <3>2. CASE \E b \in (m + 1)..k : expQ'[i] = evQ[b]
      <4>1. PICK b \in (m + 1)..k : expQ'[i] = evQ[b]
        BY <3>2
      <4>2. b \in 1..k /\ b \in 1..Len(evQ)
        BY QueueTypes
      <4>3. expire[evQ[b]] <= cutoff /\ cutoff <= now /\ expire[evQ[b]] \in Nat
        BY <1>1, <1>8, <4>2, QueueTypes DEF Instants
      <4> QED BY <4>1, <4>3, QueueTypes
    <3> QED BY <1>7, <3>1, <3>2
  <2> QED BY <1>1, <2>1 DEF NeverEarly
<1> QED BY <1>1, <1>12, <1>13, <1>14, <1>15, <1>16 DEF Queues, Once, Instants

LEMMA EmptyingKeeps ==
  ASSUME Control, Queues, Instants, CoreOpen \/ CloseFlush \/ CloseDrain
  PROVE  Queues' /\ Instants'
<1>1. Distinct(<<>>) /\ \A f : Ascending(<<>>, f)
  BY DEF Distinct, Ascending
<1>2. CASE CoreOpen
  <2>1. /\ evQ' = <<>> /\ expQ' = <<>>
        /\ slot' = [s \in Slot |-> IF slot[s] = "free" THEN "free" ELSE "leaked"]
        /\ hpc' = "body" /\ now' = now /\ cutoff' = cutoff
    BY <1>2 DEF CoreOpen, irqVars
  <2>2. Places'
    BY <2>1 DEF Places, Inserting
  <2> QED BY <1>1, <2>1, <2>2, SMTT(60) DEF Queues, Once, Instants, NeverEarly, Sorted
<1>3. CASE CloseFlush
  <2>1. /\ evQ' = <<>> /\ expQ' = expQ
        /\ slot' = [s \in Slot |-> IF slot[s] = "queued" THEN "free" ELSE slot[s]]
        /\ \A s \in Slot : slot[s] # "queued" => expire'[s] = expire[s]
        /\ hpc = "flush" /\ hpc' = "kill" /\ now' = now /\ cutoff' = cutoff
    BY <1>3, SMTT(60) DEF CloseFlush, Free, irqVars, expVars
  <2>2. \A i \in 1..Len(expQ) : slot[expQ[i]] = "expired" /\ expQ[i] \in Slot
    BY QueueTypes DEF Queues, Places
  <2>3. Places'
    BY <2>1, <2>2 DEF Queues, Places, Inserting
  <2>4. NeverEarly'
    BY <2>1, <2>2 DEF Instants, NeverEarly
  <2> QED BY <1>1, <2>1, <2>3, <2>4, SMTT(60) DEF Queues, Once, Instants, Sorted
<1>4. CASE CloseDrain
  <2>1. /\ expQ' = <<>> /\ evQ' = evQ
        /\ slot' = [s \in Slot |-> IF slot[s] = "expired" THEN "free" ELSE slot[s]]
        /\ \A s \in Slot : slot[s] # "expired" => expire'[s] = expire[s]
        /\ hpc = "drain" /\ hpc' = "idle" /\ now' = now /\ cutoff' = cutoff
    BY <1>4 DEF CloseDrain, Free, irqVars
  <2>2. \A i \in 1..Len(evQ) : slot[evQ[i]] = "queued" /\ evQ[i] \in Slot
    BY QueueTypes DEF Queues, Places
  <2>3. Places'
    BY <2>1, <2>2 DEF Queues, Places, Inserting
  <2>4. Sorted'
    BY <2>1, <2>2 DEF Instants, Sorted
  <2> QED BY <1>1, <2>1, <2>3, <2>4, SMTT(60) DEF Queues, Once, Instants, NeverEarly
<1> QED BY <1>2, <1>3, <1>4

LEMMA StillKeeps ==
  ASSUME Control, Queues, Instants, Control', Still
  PROVE  Queues' /\ Instants'
<1>1. now \in Nat /\ now' \in Nat /\ cutoff \in Nat
  BY QueueTypes, BoundAssumption DEF Control, TypeOK
<1>2. evQ' = evQ /\ expQ' = expQ /\ slot' = slot /\ expire' = expire
  BY DEF Still
<1>3. Places'
  BY <1>2 DEF Still, Queues, Places
<1>4. NeverEarly'
  <2>1. \A i \in 1..Len(expQ) : expire[expQ[i]] \in Nat /\ expire[expQ[i]] <= now
    BY QueueTypes DEF Instants, NeverEarly
  <2> QED BY <1>1, <1>2, <2>1 DEF Still, NeverEarly
<1>5. cutoff' <= now'
  BY <1>1 DEF Still, Instants
<1> QED BY <1>2, <1>3, <1>4, <1>5, SMTT(60) DEF Queues, Once, Instants, Sorted

LEMMA NextQueues ==
  ASSUME Control, Control', Queues, Instants, [Next]_vars
  PROVE  Queues' /\ Instants'
<1>1. CASE Moving
  BY <1>1, ScheduleKeeps, LinkKeeps, UnlinkHeadKeeps, UnlinkInnerKeeps, MoveKeeps,
     EndDeleteKeeps, EmptyingKeeps
     DEF Moving
<1>2. CASE Still
  BY <1>2, StillKeeps
<1> QED BY <1>1, <1>2, OthersAreStill

LEMMA InitQueues == Init => Queues /\ Instants
<1> SUFFICES ASSUME Init PROVE Queues /\ Instants
  OBVIOUS
<1>1. Distinct(<<>>)
  BY DEF Distinct
<1>2. Places
  BY DEF Init, Places, Inserting
<1> QED BY <1>1, <1>2, SMTT(60) DEF Init, Queues, Once, Instants, NeverEarly, Sorted

(* Every event is where its life says, and at one position there.              *)
THEOREM QueuesAreRight == Spec => [](Control /\ Queues /\ Instants)
<1>1. Init => Control /\ Queues /\ Instants
  BY InitControl, InitQueues
<1>2. Control /\ Queues /\ Instants /\ [Next]_vars => (Control /\ Queues /\ Instants)'
  BY NextControl, NextQueues
<1> QED BY <1>1, <1>2, PTL DEF Spec

(* Whatever the interleaving, no event drives a state machine before the       *)
(* instant it was scheduled for.                                               *)
THEOREM NothingIsEarly == Spec => []NeverEarly
<1>1. Instants => NeverEarly
  BY DEF Instants
<1> QED BY <1>1, QueuesAreRight, PTL

(* evQ is ordered by expiry in every reachable state.                          *)
THEOREM QueueIsSorted == Spec => []Sorted
<1>1. Instants => Sorted
  BY DEF Instants
<1> QED BY <1>1, QueuesAreRight, PTL

(* Every event is in exactly one place, and in one queue at most once.         *)
THEOREM EventsInOneQueueOnce == Spec => []InOneQueueOnce
<1>1. ASSUME Control, Queues PROVE InOneQueueOnce
  <2>0. PICK u \in Seq(Slot), w \in Seq(Slot) : u = evQ /\ w = expQ
    BY <1>1, QueueTypes
  <2>1. PICK v \in Seq(Slot) : v = u \o w
    BY <2>0, ConcatFacts
  <2>2. Joins(v, u, w)
    BY <2>0, <2>1, ConcatFacts DEF Joins
  <2>3. Distinct(u) /\ Distinct(w)
    BY <1>1, <2>0 DEF Queues, Once
  <2>4. Distinct(v)
    <3>1. Apart(u, w)
      BY <1>1, <2>0 DEF Queues, Places, Apart
    <3> QED BY <2>0, <2>1, <2>2, <2>3, <3>1, ConcatKeeps
  <2>5. \A i, j \in 1..Len(evQ \o expQ) : (evQ \o expQ)[i] = (evQ \o expQ)[j] => i = j
    BY <2>0, <2>1, <2>4 DEF Distinct
  <2> QED BY <1>1, <2>5 DEF Queues, Places, InOneQueueOnce
<1> QED BY <1>1, QueuesAreRight, PTL

-----------------------------------------------------------------------------
(* The order of handling.  The history only speaks of live events; within a    *)
(* queue, and from exp_ev_list to evQ, an event stands before one that was     *)
(* posted earlier only if it expires earlier.  Ranked, below, adds that of any  *)
(* two events that wait the history knows the first, and that only a late one  *)
(* stands behind one that expires after it.                                    *)

Live == {"queued", "expired", "leaked"}

BeforeLive ==
  \A a, b \in Slot : <<a, b>> \in before => slot[a] \in Live /\ slot[b] \in Live

Orderly(q, f, b) ==
  \A i, j \in 1..Len(q) : i < j /\ <<q[j], q[i]>> \in b => f[q[i]] < f[q[j]]

Across(u, w, f, b) ==
  \A i \in 1..Len(u), j \in 1..Len(w) : <<w[j], u[i]>> \in b => f[u[i]] < f[w[j]]

Order ==
  /\ BeforeLive
  /\ Orderly(evQ, expire, before)
  /\ Orderly(expQ, expire, before)
  /\ Across(expQ, evQ, expire, before)

LEMMA ThinOrderly ==
  ASSUME NEW q, NEW r, NEW h, Thins(r, q, h), NEW f, NEW b, NEW e, NEW c,
         Orderly(q, f, b), c \subseteq b,
         \A i \in 1..Len(r) : e[r[i]] = f[r[i]]
  PROVE  Orderly(r, e, c)
<1> SUFFICES ASSUME NEW i \in 1..Len(r), NEW j \in 1..Len(r), i < j, <<r[j], r[i]>> \in c
             PROVE  e[r[i]] < e[r[j]]
  BY DEF Orderly
<1>1. /\ h[i] \in 1..Len(q) /\ h[j] \in 1..Len(q) /\ h[i] < h[j]
      /\ r[i] = q[h[i]] /\ r[j] = q[h[j]]
  BY DEF Thins
<1>2. f[r[i]] < f[r[j]]
  BY <1>1 DEF Orderly
<1> QED BY <1>2

LEMMA ThinAcross ==
  ASSUME NEW u, NEW v, NEW g, Thins(v, u, g), NEW w, NEW x, NEW h, Thins(x, w, h),
         NEW f, NEW b, NEW e, NEW c, Across(u, w, f, b), c \subseteq b,
         \A i \in 1..Len(v) : e[v[i]] = f[v[i]],
         \A i \in 1..Len(x) : e[x[i]] = f[x[i]]
  PROVE  Across(v, x, e, c)
<1> SUFFICES ASSUME NEW i \in 1..Len(v), NEW j \in 1..Len(x), <<x[j], v[i]>> \in c
             PROVE  e[v[i]] < e[x[j]]
  BY DEF Across
<1>1. /\ g[i] \in 1..Len(u) /\ h[j] \in 1..Len(w)
      /\ v[i] = u[g[i]] /\ x[j] = w[h[j]]
  BY DEF Thins
<1>2. f[v[i]] < f[x[j]]
  BY <1>1 DEF Across
<1> QED BY <1>2

(* An event put behind those that do not expire later, as the last one posted. *)
NewIn(x, q, k, f) ==
  /\ \A i \in 1..Len(q) : q[i] # x
  /\ \A i \in 1..Len(q) : i > k => f[x] < f[q[i]]

Posted(x, S, b, c) ==
  \A y, z \in S : <<y, z>> \in c /\ z # x => <<y, z>> \in b /\ y # x

LEMMA InsertOrderly ==
  ASSUME NEW S, NEW q \in Seq(S), NEW r \in Seq(S), NEW x \in S,
         NEW k \in 0..Len(q), NEW p, p = k + 1, NEW f, NEW b, NEW c,
         Len(r) = Len(q) + 1, Inserts(r, q, k, p, x),
         Orderly(q, f, b), NewIn(x, q, k, f), Posted(x, S, b, c)
  PROVE  Orderly(r, f, c)
<1>0. Len(q) \in Nat /\ k \in Nat /\ k <= Len(q) /\ \A i \in 1..Len(q) : q[i] \in S
  OBVIOUS
<1>r. \A i \in 1..(Len(q) + 1) :
        r[i] = IF i <= k THEN q[i] ELSE IF i = k + 1 THEN x ELSE q[i - 1]
  BY DEF Inserts
<1>1. /\ \A i \in 1..Len(r) : i <= k => i \in 1..Len(q) /\ r[i] = q[i]
      /\ k + 1 \in 1..Len(r) /\ r[k + 1] = x
      /\ \A i \in 1..Len(r) : i > k + 1 => i - 1 \in 1..Len(q) /\ r[i] = q[i - 1]
  BY <1>0, <1>r
<1>2. ASSUME NEW i \in 1..Len(q), NEW j \in 1..Len(q), i < j, <<q[j], q[i]>> \in c
      PROVE  f[q[i]] < f[q[j]]
  <2>1. <<q[j], q[i]>> \in b
    BY <1>0, <1>2 DEF NewIn, Posted
  <2> QED BY <1>2, <2>1 DEF Orderly
<1>3. SUFFICES ASSUME NEW i \in 1..Len(r), NEW j \in 1..Len(r), i < j, <<r[j], r[i]>> \in c
               PROVE  f[r[i]] < f[r[j]]
  BY DEF Orderly
<1>4. CASE j <= k
  <2>1. r[i] = q[i] /\ r[j] = q[j] /\ i \in 1..Len(q) /\ j \in 1..Len(q)
    BY <1>0, <1>1, <1>3, <1>4
  <2> QED BY <1>2, <1>3, <2>1
<1>5. CASE i <= k /\ j = k + 1
  <2>1. r[i] = q[i] /\ i \in 1..Len(q) /\ r[j] = x /\ q[i] \in S
    BY <1>0, <1>1, <1>5
  <2>2. q[i] # x
    BY <2>1 DEF NewIn
  <2> QED BY <1>3, <2>1, <2>2 DEF Posted
<1>6. CASE i <= k /\ j > k + 1
  <2>1. /\ r[i] = q[i] /\ r[j] = q[j - 1] /\ i < j - 1
        /\ i \in 1..Len(q) /\ j - 1 \in 1..Len(q)
    BY <1>0, <1>1, <1>3, <1>6
  <2> QED BY <1>2, <1>3, <2>1
<1>7. CASE i = k + 1
  <2>1. r[i] = x /\ r[j] = q[j - 1] /\ j - 1 \in 1..Len(q) /\ j - 1 > k
    BY <1>0, <1>1, <1>3, <1>7
  <2> QED BY <2>1 DEF NewIn
<1>8. CASE i > k + 1
  <2>1. /\ r[i] = q[i - 1] /\ r[j] = q[j - 1] /\ i - 1 < j - 1
        /\ i - 1 \in 1..Len(q) /\ j - 1 \in 1..Len(q)
    BY <1>0, <1>1, <1>3, <1>8
  <2> QED BY <1>2, <1>3, <2>1
<1> QED BY <1>0, <1>3, <1>4, <1>5, <1>6, <1>7, <1>8

LEMMA JoinOrderly ==
  ASSUME NEW S, NEW u \in Seq(S), NEW w \in Seq(S), NEW v, Joins(v, u, w),
         NEW f, NEW b
  PROVE  /\ Orderly(u, f, b) /\ Orderly(w, f, b) /\ Across(u, w, f, b) => Orderly(v, f, b)
         /\ \A x : Across(u, x, f, b) /\ Across(w, x, f, b) => Across(v, x, f, b)
<1>0. Len(u) \in Nat /\ Len(w) \in Nat /\ Len(v) = Len(u) + Len(w)
  BY DEF Joins
<1>1. ASSUME NEW i \in 1..Len(v)
      PROVE  \/ i \in 1..Len(u) /\ v[i] = u[i]
             \/ i > Len(u) /\ i - Len(u) \in 1..Len(w) /\ v[i] = w[i - Len(u)]
  BY <1>0 DEF Joins
<1>2. ASSUME Orderly(u, f, b), Orderly(w, f, b), Across(u, w, f, b),
             NEW i \in 1..Len(v), NEW j \in 1..Len(v), i < j, <<v[j], v[i]>> \in b
      PROVE  f[v[i]] < f[v[j]]
  <2>1. CASE j \in 1..Len(u) /\ v[j] = u[j]
    <3>1. i \in 1..Len(u) /\ v[i] = u[i]
      BY <1>0, <1>1, <1>2, <2>1
    <3> QED BY <1>2, <2>1, <3>1 DEF Orderly
  <2>2. CASE i > Len(u) /\ i - Len(u) \in 1..Len(w) /\ v[i] = w[i - Len(u)]
    <3>1. j - Len(u) \in 1..Len(w) /\ v[j] = w[j - Len(u)] /\ i - Len(u) < j - Len(u)
      BY <1>0, <1>1, <1>2, <2>2
    <3> QED BY <1>2, <2>2, <3>1 DEF Orderly
  <2>3. CASE /\ i \in 1..Len(u) /\ v[i] = u[i]
             /\ j - Len(u) \in 1..Len(w) /\ v[j] = w[j - Len(u)]
    BY <1>2, <2>3 DEF Across
  <2> QED BY <1>1, <2>1, <2>2, <2>3
<1>3. ASSUME NEW x, Across(u, x, f, b), Across(w, x, f, b)
      PROVE  Across(v, x, f, b)
  <2> SUFFICES ASSUME NEW i \in 1..Len(v), NEW j \in 1..Len(x), <<x[j], v[i]>> \in b
               PROVE  f[v[i]] < f[x[j]]
    BY DEF Across
  <2> QED BY <1>1, <1>3 DEF Across
<1>4. Orderly(u, f, b) /\ Orderly(w, f, b) /\ Across(u, w, f, b) => Orderly(v, f, b)
  BY <1>2 DEF Orderly
<1> QED BY <1>3, <1>4

(* Freeing events that are taken out of the queues.                            *)
LEMMA FreedOrder ==
  ASSUME Control, Control', Queues', Order, NEW S, Free(S),
         NEW g, Thins(evQ', evQ, g), NEW h, Thins(expQ', expQ, h)
  PROVE  Order'
<1>1. /\ \A s \in Slot : s \notin S => slot'[s] = slot[s] /\ expire'[s] = expire[s]
      /\ \A s \in Slot : s \in S => slot'[s] = "free"
      /\ before' \subseteq before
      /\ \A a, b \in Slot : <<a, b>> \in before' => a \notin S /\ b \notin S
  BY DEF Free
<1>2. /\ \A i \in 1..Len(evQ') : evQ'[i] \in Slot /\ slot'[evQ'[i]] = "queued"
      /\ \A i \in 1..Len(expQ') : expQ'[i] \in Slot /\ slot'[expQ'[i]] = "expired"
  <2>1. PICK q \in Seq(Slot), r \in Seq(Slot) : q = evQ' /\ r = expQ'
    BY DEF Control, TypeOK
  <2>2. /\ \A i \in 1..Len(evQ') : slot'[evQ'[i]] = "queued"
        /\ \A i \in 1..Len(expQ') : slot'[expQ'[i]] = "expired"
    BY DEF Queues, Places
  <2> QED BY <2>1, <2>2
<1>3. /\ \A i \in 1..Len(evQ') : expire'[evQ'[i]] = expire[evQ'[i]]
      /\ \A i \in 1..Len(expQ') : expire'[expQ'[i]] = expire[expQ'[i]]
  BY <1>1, <1>2
<1>4. BeforeLive'
  BY <1>1 DEF Order, BeforeLive
<1>5. PICK q, r, e, c : q = evQ' /\ r = expQ' /\ e = expire' /\ c = before'
  OBVIOUS
<1>6. Orderly(q, e, c) /\ Orderly(r, e, c) /\ Across(r, q, e, c)
  <2>1. Orderly(q, e, c)
    BY <1>1, <1>3, <1>5, ThinOrderly DEF Order
  <2>2. Orderly(r, e, c)
    BY <1>1, <1>3, <1>5, ThinOrderly DEF Order
  <2>3. Across(r, q, e, c)
    BY <1>1, <1>3, <1>5, ThinAcross DEF Order
  <2> QED BY <2>1, <2>2, <2>3
<1> QED BY <1>4, <1>5, <1>6 DEF Order
LEMMA ScheduleOrder ==
  ASSUME Control, Control', Queues', Order, NEW s \in Slot, NEW d \in Delays, Schedule(s, d)
  PROVE  Order'
<1>1. /\ slot[s] = "free" /\ slot' = [slot EXCEPT ![s] = "held"]
      /\ evQ' = evQ /\ expQ' = expQ /\ before' = before
      /\ \A t \in Slot : t # s => expire'[t] = expire[t]
  BY QueueTypes DEF Schedule, expVars
<1>2. /\ \A i \in 1..Len(evQ) : evQ[i] \in Slot /\ slot'[evQ[i]] = "queued"
      /\ \A i \in 1..Len(expQ) : expQ[i] \in Slot /\ slot'[expQ[i]] = "expired"
  BY <1>1, QueueTypes DEF Queues, Places
<1>3. slot'[s] = "held"
  BY <1>1, QueueTypes
<1>4. /\ \A i \in 1..Len(evQ) : expire'[evQ[i]] = expire[evQ[i]]
      /\ \A i \in 1..Len(expQ) : expire'[expQ[i]] = expire[expQ[i]]
  BY <1>1, <1>2, <1>3
<1>5. BeforeLive'
  BY <1>1, QueueTypes DEF Order, BeforeLive, Live
<1>6. /\ Orderly(evQ, expire', before) /\ Orderly(expQ, expire', before)
      /\ Across(expQ, evQ, expire', before)
  BY <1>4 DEF Order, Orderly, Across
<1> QED BY <1>1, <1>5, <1>6 DEF Order

LEMMA LinkOrder ==
  ASSUME Control, Queues, Instants, Order, NEW k \in 0..Len(evQ), Link(k)
  PROVE  Order'
<1>1. /\ cur \in Slot /\ slot[cur] = "held"
      /\ slot' = [slot EXCEPT ![cur] = "queued"]
      /\ expQ' = expQ /\ expire' = expire
      /\ WalksTo(k, cur)
      /\ before' = before \cup {<<a, cur>> : a \in {b \in Slot : slot[b] \in {"queued", "expired"}}}
  BY SMTT(60) DEF Link, Control, StepsRelyOn, Queues, Places, Inserting, expVars
<1>2. PICK x \in Slot, q \in Seq(Slot) : x = cur /\ q = evQ
  BY <1>1, QueueTypes
<1>3. PICK r \in Seq(Slot) :
        /\ r = evQ' /\ Len(r) = Len(q) + 1
        /\ \A i \in 1..(Len(q) + 1) :
             r[i] = IF i <= k THEN q[i] ELSE IF i = k + 1 THEN x ELSE q[i - 1]
  <2>1. PICK p : p = k + 1
    OBVIOUS
  <2>2. evQ' = InsertAt(q, p, x)
    BY <1>2, <2>1 DEF Link
  <2>3. /\ InsertAt(q, p, x) \in Seq(Slot)
        /\ Len(InsertAt(q, p, x)) = Len(q) + 1
        /\ Inserts(InsertAt(q, p, x), q, k, p, x)
    BY <1>2, <2>1, InsertFacts
  <2>4. PICK r \in Seq(Slot) : r = InsertAt(q, p, x)
    BY <2>3
  <2> QED BY <2>1, <2>2, <2>3, <2>4 DEF Inserts
<1>4. /\ \A i \in 1..Len(q) : q[i] # x
      /\ \A i \in 1..Len(expQ) : expQ[i] # x /\ expQ[i] \in Slot
  BY <1>1, <1>2, QueueTypes DEF Queues, Places
<1>5. PICK c : c = before'
  OBVIOUS
<1>6. /\ \A y, z \in Slot : <<y, z>> \in c /\ z # x => <<y, z>> \in before /\ y # x
      /\ \A y, z \in Slot : <<y, z>> \in c => y # x
  <2>1. \A y, z \in Slot : <<y, z>> \in before => y # x /\ z # x
    BY <1>1, <1>2 DEF Order, BeforeLive, Live
  <2>2. ASSUME NEW y \in Slot, NEW z \in Slot, <<y, z>> \in c
        PROVE  <<y, z>> \in before \/ (z = x /\ slot[y] \in {"queued", "expired"})
    BY <1>1, <1>2, <1>5, <2>2
  <2> QED BY <1>1, <1>2, <2>1, <2>2
<1>7. BeforeLive'
  <2>1. ASSUME NEW y \in Slot, NEW z \in Slot, <<y, z>> \in before'
        PROVE  slot'[y] \in Live /\ slot'[z] \in Live
    <3>1. CASE <<y, z>> \in before
      BY <1>1, <3>1, QueueTypes DEF Order, BeforeLive, Live
    <3>2. CASE z = cur /\ slot[y] \in {"queued", "expired"}
      BY <1>1, <3>2, QueueTypes DEF Live
    <3> QED BY <1>1, <2>1, <3>1, <3>2
  <2> QED BY <2>1 DEF BeforeLive
<1>8. Orderly(r, expire, c)
  <2>1. ASSUME NEW i \in 1..Len(q), i > k PROVE expire[x] < expire[q[i]]
    <3>1. k + 1 \in 1..Len(q) /\ k < Len(q) /\ (k + 1 = i \/ k + 1 < i)
      BY <1>2, <2>1
    <3>2. expire[q[k + 1]] > expire[x]
      BY <1>1, <1>2, <3>1 DEF WalksTo
    <3>3. expire[q[k + 1]] <= expire[q[i]]
      BY <1>2, <3>1, QueueTypes DEF Instants, Sorted
    <3>4. expire[x] \in Nat /\ expire[q[k + 1]] \in Nat /\ expire[q[i]] \in Nat
      BY <1>2, <3>1, QueueTypes
    <3> QED BY <3>2, <3>3, <3>4
  <2>2. Orderly(q, expire, before)
    BY <1>2 DEF Order
  <2>3. k \in 0..Len(q)
    BY <1>2
  <2>4. PICK f, b : f = expire /\ b = before
    OBVIOUS
  <2>5. PICK p : p = k + 1
    OBVIOUS
  <2>6. Len(r) = Len(q) + 1 /\ Inserts(r, q, k, p, x)
    BY <1>3, <2>5 DEF Inserts
  <2>7. NewIn(x, q, k, f)
    BY <1>4, <2>1, <2>4 DEF NewIn
  <2>8. Orderly(q, f, b) /\ Posted(x, Slot, b, c)
    BY <1>6, <2>2, <2>4 DEF Posted
  <2>9. Orderly(r, f, c)
    BY <2>3, <2>5, <2>6, <2>7, <2>8, InsertOrderly
  <2> QED BY <2>4, <2>9
<1>9. Orderly(expQ, expire, c)
  BY <1>4, <1>6 DEF Order, Orderly
<1>10. Across(expQ, r, expire, c)
  <2> SUFFICES ASSUME NEW i \in 1..Len(expQ), NEW j \in 1..Len(r), <<r[j], expQ[i]>> \in c
               PROVE  expire[expQ[i]] < expire[r[j]]
    BY DEF Across
  <2>1. r[j] \in Slot /\ <<r[j], expQ[i]>> \in before /\ r[j] # x
    BY <1>3, <1>4, <1>6
  <2>2. PICK l \in 1..Len(q) : r[j] = q[l]
    <3>1. CASE j <= k
      <4>1. j \in 1..Len(q) /\ r[j] = q[j]
        BY <1>2, <1>3, <3>1
      <4> QED BY <4>1
    <3>2. CASE j > k + 1
      <4>1. j - 1 \in 1..Len(q) /\ r[j] = q[j - 1]
        BY <1>2, <1>3, <3>2
      <4> QED BY <4>1
    <3>3. j # k + 1
      BY <1>2, <1>3, <2>1
    <3> QED BY <1>2, <1>3, <3>1, <3>2, <3>3
  <2> QED BY <1>2, <2>1, <2>2 DEF Order, Across
<1>11. Orderly(evQ', expire', before') /\ Orderly(expQ', expire', before')
  BY <1>1, <1>3, <1>5, <1>8, <1>9
<1>12. Across(expQ', evQ', expire', before')
  BY <1>1, <1>3, <1>5, <1>10
<1> QED BY <1>7, <1>11, <1>12 DEF Order

LEMMA RemoveThins ==
  ASSUME NEW S, NEW q \in Seq(S), NEW k \in 1..Len(q)
  PROVE  Thins(RemoveAt(q, k), q, [i \in 1..(Len(q) - 1) |-> IF i < k THEN i ELSE i + 1])
<1>1. PICK g : g = [i \in 1..(Len(q) - 1) |-> IF i < k THEN i ELSE i + 1]
  OBVIOUS
<1>2. PICK r : r = RemoveAt(q, k)
  OBVIOUS
<1>3. /\ Len(q) \in Nat /\ Len(r) = Len(q) - 1
      /\ \A i \in 1..(Len(q) - 1) : r[i] = IF i < k THEN q[i] ELSE q[i + 1]
  BY <1>2, RemoveFacts
<1>4. g \in [1..Len(r) -> 1..Len(q)]
  BY <1>1, <1>3
<1>5. \A i, j \in 1..Len(r) : i < j => g[i] < g[j]
  BY <1>1, <1>3
<1>6. \A i \in 1..Len(r) : r[i] = q[g[i]]
  BY <1>1, <1>3
<1> QED BY <1>1, <1>2, <1>4, <1>5, <1>6 DEF Thins

LEMMA NothingThins ==
  ASSUME NEW q
  PROVE  Thins(<<>>, q, <<>>)
BY DEF Thins

LEMMA RemovingOrder ==
  ASSUME Control, Control', Queues', Order,
         \/ UnlinkHead \/ \E k \in 1..Len(evQ) : UnlinkInner(k)
         \/ EndDelete \/ CloseFlush \/ CloseDrain
  PROVE  Order'
<1>1. /\ Thins(evQ, evQ, [i \in 1..Len(evQ) |-> i])
      /\ Thins(expQ, expQ, [i \in 1..Len(expQ) |-> i])
  BY QueueTypes, ThinsItself
<1>2. CASE UnlinkHead
  <2>1. Free({cur}) /\ evQ # <<>> /\ evQ' = Tail(evQ) /\ expQ' = expQ
    BY <1>2 DEF UnlinkHead, expVars
  <2>2. \E g : Thins(evQ', evQ, g)
    BY <2>1, QueueTypes, TailThins
  <2>3. \E h : Thins(expQ', expQ, h)
    BY <1>1, <2>1
  <2> QED BY <2>1, <2>2, <2>3, FreedOrder
<1>3. ASSUME NEW k \in 1..Len(evQ), UnlinkInner(k) PROVE Order'
  <2>1. Free({cur}) /\ evQ' = RemoveAt(evQ, k) /\ expQ' = expQ
    BY <1>3 DEF UnlinkInner, expVars
  <2>2. \E g : Thins(evQ', evQ, g)
    BY <2>1, QueueTypes, RemoveThins
  <2>3. \E h : Thins(expQ', expQ, h)
    BY <1>1, <2>1
  <2> QED BY <2>1, <2>2, <2>3, FreedOrder
<1>4. CASE EndDelete
  <2>1. Free({Head(expQ)}) /\ expQ # <<>> /\ expQ' = Tail(expQ) /\ evQ' = evQ
    BY <1>4, SMTT(60) DEF EndDelete, Control, StepsRelyOn
  <2>2. \E h : Thins(expQ', expQ, h)
    BY <2>1, QueueTypes, TailThins
  <2>3. \E g : Thins(evQ', evQ, g)
    BY <1>1, <2>1
  <2> QED BY <2>1, <2>2, <2>3, FreedOrder
<1>5. CASE CloseFlush
  <2>1. Free({s \in Slot : slot[s] = "queued"}) /\ evQ' = <<>> /\ expQ' = expQ
    BY <1>5 DEF CloseFlush, expVars
  <2>2. \E g : Thins(evQ', evQ, g)
    BY <2>1, NothingThins
  <2>3. \E h : Thins(expQ', expQ, h)
    BY <1>1, <2>1
  <2> QED BY <2>1, <2>2, <2>3, FreedOrder
<1>6. CASE CloseDrain
  <2>1. Free({s \in Slot : slot[s] = "expired"}) /\ evQ' = evQ /\ expQ' = <<>>
    BY <1>6 DEF CloseDrain
  <2>2. \E h : Thins(expQ', expQ, h)
    BY <2>1, NothingThins
  <2>3. \E g : Thins(evQ', evQ, g)
    BY <1>1, <2>1
  <2> QED BY <2>1, <2>2, <2>3, FreedOrder
<1> QED BY <1>2, <1>3, <1>4, <1>5, <1>6

LEMMA MoveOrder ==
  ASSUME Control, Control', Queues, Order,
         NEW k \in 0..Len(evQ), NEW m \in 0..Len(evQ), NEW cut \in BOOLEAN,
         m <= k, Move(k, m, cut)
  PROVE  Order'
<1>1. PICK q \in Seq(Slot), u \in Seq(Slot) : q = evQ /\ u = expQ
  BY QueueTypes
<1>f. PICK f, b : f = expire /\ b = before
  OBVIOUS
<1>2. /\ Len(q) \in Nat /\ k \in 0..Len(q) /\ m \in 0..Len(q) /\ Len(q) \in 0..Len(q)
      /\ k + 1 \in 1..(Len(q) + 1) /\ m + 1 \in 1..(Len(q) + 1)
      /\ k + 1 <= Len(q) + 1 /\ m + 1 <= k + 1
  BY <1>1
<1>3. PICK w \in Seq(Slot), r \in Seq(Slot) :
        w = SubSeq(q, m + 1, k) /\ r = SubSeq(q, k + 1, Len(q))
  BY <1>2, SubSeqFacts
<1>4. /\ evQ' = r /\ expQ' = u \o w /\ expire' = f /\ before' = b
      /\ slot' = [s \in Slot |-> IF \E i \in 1..m : evQ[i] = s THEN "leaked"
                                ELSE IF \E i \in (m + 1)..k : evQ[i] = s THEN "expired"
                                ELSE slot[s]]
  BY <1>1, <1>3, <1>f DEF Move
<1>5. PICK v : v = u \o w /\ Joins(v, u, w)
  <2>1. PICK v \in Seq(Slot) : v = u \o w
    BY ConcatFacts
  <2>2. Joins(v, u, w)
    BY <2>1, ConcatFacts DEF Joins
  <2> QED BY <2>1, <2>2
<1>6. PICK g, h : /\ Thins(w, q, g) /\ Thins(r, q, h)
                  /\ g = [i \in 1..(k - (m + 1) + 1) |-> (m + 1) + i - 1]
                  /\ h = [i \in 1..(Len(q) - (k + 1) + 1) |-> (k + 1) + i - 1]
  BY <1>2, <1>3, SubSeqThins
<1>7. Thins(u, u, [i \in 1..Len(u) |-> i])
  BY ThinsItself
<1>8. Orderly(q, f, b) /\ Orderly(u, f, b) /\ Across(u, q, f, b)
  BY <1>1, <1>f DEF Order
<1>9. Orderly(w, f, b) /\ Orderly(r, f, b)
  BY <1>6, <1>8, ThinOrderly
<1>10. Across(u, w, f, b) /\ Across(u, r, f, b)
  BY <1>6, <1>7, <1>8, ThinAcross
<1>11. Across(w, r, f, b)
  <2> SUFFICES ASSUME NEW i \in 1..Len(w), NEW j \in 1..Len(r), <<r[j], w[i]>> \in b
               PROVE  f[w[i]] < f[r[j]]
    BY DEF Across
  <2>1. /\ Len(w) = k - (m + 1) + 1 /\ Len(r) = Len(q) - (k + 1) + 1
    BY <1>2, <1>3, SubSeqFacts
  <2>2. g[i] = m + i /\ h[j] = k + j /\ g[i] < h[j]
    BY <1>2, <1>6, <2>1
  <2>3. g[i] \in 1..Len(q) /\ h[j] \in 1..Len(q) /\ w[i] = q[g[i]] /\ r[j] = q[h[j]]
    BY <1>6 DEF Thins
  <2> QED BY <1>8, <2>2, <2>3 DEF Orderly
<1>12. Orderly(v, f, b) /\ Across(v, r, f, b)
  <2>1. Orderly(v, f, b)
    BY <1>5, <1>8, <1>9, <1>10, JoinOrderly
  <2>2. Across(v, r, f, b)
    BY <1>5, <1>10, <1>11, JoinOrderly
  <2> QED BY <2>1, <2>2
<1>13. BeforeLive'
  BY <1>f, <1>4, QueueTypes DEF Order, BeforeLive, Live
<1> QED BY <1>4, <1>5, <1>9, <1>12, <1>13 DEF Order

LEMMA OpenOrder ==
  ASSUME Control, Order, CoreOpen
  PROVE  Order'
<1>1. /\ evQ' = <<>> /\ expQ' = <<>> /\ before' = before
      /\ slot' = [s \in Slot |-> IF slot[s] = "free" THEN "free" ELSE "leaked"]
  BY DEF CoreOpen
<1>2. BeforeLive'
  BY <1>1, QueueTypes DEF Order, BeforeLive, Live
<1>3. \A f, b : Orderly(<<>>, f, b) /\ Across(<<>>, <<>>, f, b)
  BY DEF Orderly, Across
<1> QED BY <1>1, <1>2, <1>3 DEF Order

LEMMA NextOrder ==
  ASSUME Control, Control', Queues, Queues', Instants, Order, [Next]_vars
  PROVE  Order'
<1>1. CASE Moving
  BY <1>1, ScheduleOrder, LinkOrder, RemovingOrder, MoveOrder, OpenOrder DEF Moving
<1>2. CASE Still
  <2>1. UNCHANGED <<evQ, expQ, slot, expire, before>>
    BY <1>2 DEF Still
  <2> QED BY <2>1 DEF Order, BeforeLive
<1> QED BY <1>1, <1>2, OthersAreStill

LEMMA InitOrder == Init => Order
<1>1. \A f, b : Orderly(<<>>, f, b) /\ Across(<<>>, <<>>, f, b)
  BY DEF Orderly, Across
<1> QED BY <1>1 DEF Init, Order, BeforeLive

Waiting == {"queued", "expired"}

Lagging(q, f, l) == \A i, j \in 1..Len(q) : i < j /\ f[q[j]] < f[q[i]] => q[j] \in l

Ranked ==
  /\ \A a, b \in Slot : a # b /\ slot[a] \in Waiting /\ slot[b] \in Waiting
                        => <<a, b>> \in before \/ <<b, a>> \in before
  /\ \A a, b \in Slot : slot[a] = "expired" /\ slot[b] = "queued" /\ expire[b] < expire[a]
                        => b \in late
  /\ Lagging(expQ, expire, late)

LEMMA RankedSchedule ==
  ASSUME Control, Queues, Ranked, NEW s \in Slot, NEW d \in Delays, Schedule(s, d)
  PROVE  Ranked'
<1>1. /\ slot' = [slot EXCEPT ![s] = "held"] /\ slot[s] = "free"
      /\ expQ' = expQ /\ before' = before /\ late' = late
      /\ \A t \in Slot : t # s => expire'[t] = expire[t]
  BY QueueTypes DEF Schedule, expVars
<1>2. slot'[s] = "held" /\ \A t \in Slot : t # s => slot'[t] = slot[t]
  BY <1>1, QueueTypes
<1>3. \A i \in 1..Len(expQ) : expQ[i] \in Slot /\ expQ[i] # s
  BY <1>1, QueueTypes DEF Queues, Places
<1>4. Lagging(expQ, expire', late)
  BY <1>1, <1>3 DEF Ranked, Lagging
<1> QED BY <1>1, <1>2, <1>4 DEF Ranked, Waiting

(* Who links an event behind one that was moved comes late: that one's instant *)
(* has passed, and this one's before it.                                       *)
LEMMA RankedLink ==
  ASSUME Control, Queues, Instants, Ranked, NEW k \in 0..Len(evQ), Link(k)
  PROVE  Ranked'
<1>1. /\ cur \in Slot /\ slot[cur] = "held"
      /\ slot' = [slot EXCEPT ![cur] = "queued"]
      /\ expQ' = expQ /\ expire' = expire
      /\ before' = before \cup {<<a, cur>> : a \in {b \in Slot : slot[b] \in {"queued", "expired"}}}
      /\ late' = IF expire[cur] < now THEN late \cup {cur} ELSE late
  BY SMTT(60) DEF Link, Control, StepsRelyOn, Queues, Places, Inserting, expVars
<1>2. slot'[cur] = "queued" /\ \A t \in Slot : t # cur => slot'[t] = slot[t]
  BY <1>1, QueueTypes
<1>3. ASSUME NEW a \in Slot, NEW b \in Slot, a # b, slot'[a] \in Waiting, slot'[b] \in Waiting
      PROVE  <<a, b>> \in before' \/ <<b, a>> \in before'
  <2>1. CASE a = cur
    BY <1>1, <1>2, <1>3, <2>1 DEF Waiting
  <2>2. CASE b = cur
    BY <1>1, <1>2, <1>3, <2>2 DEF Waiting
  <2>3. CASE a # cur /\ b # cur
    BY <1>1, <1>2, <1>3, <2>3 DEF Ranked
  <2> QED BY <2>1, <2>2, <2>3
<1>4. ASSUME NEW a \in Slot, NEW b \in Slot,
             slot'[a] = "expired", slot'[b] = "queued", expire[b] < expire[a]
      PROVE  b \in late'
  <2>1. a # cur /\ slot[a] = "expired"
    BY <1>1, <1>2, <1>4
  <2>2. CASE b = cur
    <3>1. PICK i \in 1..Len(expQ) : expQ[i] = a
      BY <2>1 DEF Queues, Places, Contains
    <3>2. expire[a] <= now /\ expire[a] \in Nat /\ expire[b] \in Nat /\ now \in Nat
      BY <3>1, QueueTypes DEF Instants, NeverEarly
    <3>3. expire[cur] < now
      BY <1>4, <2>2, <3>2
    <3> QED BY <1>1, <2>2, <3>3
  <2>3. CASE b # cur
    BY <1>1, <1>2, <1>4, <2>1, <2>3 DEF Ranked
  <2> QED BY <2>2, <2>3
<1>5. Lagging(expQ, expire, late')
  BY <1>1 DEF Ranked, Lagging
<1> QED BY <1>1, <1>3, <1>4, <1>5 DEF Ranked

LEMMA FreedRanked ==
  ASSUME Control, Control', Queues', Ranked, NEW S, Free(S), NEW h, Thins(expQ', expQ, h)
  PROVE  Ranked'
<1>1. /\ \A s \in Slot : s \notin S => slot'[s] = slot[s] /\ expire'[s] = expire[s]
      /\ \A s \in Slot : s \in S => slot'[s] = "free"
      /\ \A a, b \in Slot : <<a, b>> \in before /\ a \notin S /\ b \notin S => <<a, b>> \in before'
      /\ \A s \in Slot : s \in late /\ s \notin S => s \in late'
  BY DEF Free
<1>2. \A i \in 1..Len(expQ') : expQ'[i] \in Slot /\ slot'[expQ'[i]] = "expired"
  <2>1. PICK r \in Seq(Slot) : r = expQ'
    BY DEF Control, TypeOK
  <2>2. \A i \in 1..Len(expQ') : slot'[expQ'[i]] = "expired"
    BY DEF Queues, Places
  <2> QED BY <2>1, <2>2
<1>3. \A i \in 1..Len(expQ') : expire'[expQ'[i]] = expire[expQ'[i]] /\ expQ'[i] \notin S
  BY <1>1, <1>2
<1>4. ASSUME NEW i \in 1..Len(expQ'), NEW j \in 1..Len(expQ'), i < j,
             expire'[expQ'[j]] < expire'[expQ'[i]]
      PROVE  expQ'[j] \in late'
  <2>1. /\ h[i] \in 1..Len(expQ) /\ h[j] \in 1..Len(expQ) /\ h[i] < h[j]
        /\ expQ'[i] = expQ[h[i]] /\ expQ'[j] = expQ[h[j]]
    BY <1>4 DEF Thins
  <2>2. expQ'[j] \in late
    BY <1>3, <1>4, <2>1 DEF Ranked, Lagging
  <2> QED BY <1>1, <1>2, <1>3, <2>2
<1>5. Lagging(expQ', expire', late')
  BY <1>4 DEF Lagging
<1>6. ASSUME NEW a \in Slot, NEW b \in Slot, a # b, slot'[a] \in Waiting, slot'[b] \in Waiting
      PROVE  <<a, b>> \in before' \/ <<b, a>> \in before'
  BY <1>1, <1>6 DEF Ranked, Waiting
<1>7. \A a, b \in Slot : slot'[a] = "expired" /\ slot'[b] = "queued" /\ expire'[b] < expire'[a]
                         => b \in late'
  BY <1>1 DEF Ranked
<1> QED BY <1>5, <1>6, <1>7 DEF Ranked

LEMMA RankedRemoving ==
  ASSUME Control, Control', Queues', Ranked,
         \/ UnlinkHead \/ \E k \in 1..Len(evQ) : UnlinkInner(k)
         \/ EndDelete \/ CloseFlush \/ CloseDrain
  PROVE  Ranked'
<1>1. \E h : Thins(expQ, expQ, h)
  BY QueueTypes, ThinsItself
<1>2. CASE UnlinkHead
  BY <1>1, <1>2, FreedRanked DEF UnlinkHead, expVars
<1>3. CASE \E k \in 1..Len(evQ) : UnlinkInner(k)
  BY <1>1, <1>3, FreedRanked DEF UnlinkInner, expVars
<1>4. CASE EndDelete
  <2>1. Free({Head(expQ)}) /\ expQ # <<>> /\ expQ' = Tail(expQ)
    BY <1>4, SMTT(60) DEF EndDelete, Control, StepsRelyOn
  <2>2. \E h : Thins(expQ', expQ, h)
    BY <2>1, QueueTypes, TailThins
  <2> QED BY <2>1, <2>2, FreedRanked
<1>5. CASE CloseFlush
  BY <1>1, <1>5, FreedRanked DEF CloseFlush, expVars
<1>6. CASE CloseDrain
  <2>1. Free({s \in Slot : slot[s] = "expired"}) /\ expQ' = <<>>
    BY <1>6 DEF CloseDrain
  <2> QED BY <2>1, NothingThins, FreedRanked
<1> QED BY <1>2, <1>3, <1>4, <1>5, <1>6

(* The callback moves a prefix of an ordered queue, or the end of one.         *)
LEMMA RankedMove ==
  ASSUME Control, Queues, Instants, Ranked,
         NEW k \in 0..Len(evQ), NEW m \in 0..Len(evQ), NEW cut \in BOOLEAN,
         m <= k, Move(k, m, cut)
  PROVE  Ranked'
<1>1. /\ expQ' = expQ \o SubSeq(evQ, m + 1, k)
      /\ slot' = [s \in Slot |-> IF \E i \in 1..m : evQ[i] = s THEN "leaked"
                                ELSE IF \E i \in (m + 1)..k : evQ[i] = s THEN "expired"
                                ELSE slot[s]]
      /\ expire' = expire /\ before' = before /\ late' = late
  BY DEF Move
<1>2. PICK q \in Seq(Slot), u \in Seq(Slot), f \in [Slot -> Nat] :
        q = evQ /\ u = expQ /\ f = expire
  BY QueueTypes
<1>3. /\ Len(q) \in Nat /\ k \in 0..Len(q) /\ m \in 0..Len(q) /\ m <= k
      /\ m + 1 \in 1..(Len(q) + 1) /\ m + 1 <= k + 1
      /\ \A i \in 1..k : i \in 1..Len(q)
  BY <1>2
<1>4. PICK w \in Seq(Slot) :
        w = SubSeq(q, m + 1, k) /\ Len(w) = k - m /\ \A i \in 1..(k - m) : w[i] = q[m + i]
  <2>1. PICK w \in Seq(Slot) : w = SubSeq(q, m + 1, k)
    BY <1>3, SubSeqFacts
  <2>2. /\ Len(w) = k - (m + 1) + 1
        /\ \A i \in 1..(k - (m + 1) + 1) : w[i] = q[(m + 1) + i - 1]
    BY <1>3, <2>1, SubSeqFacts
  <2>3. k - (m + 1) + 1 = k - m /\ \A i \in 1..(k - m) : (m + 1) + i - 1 = m + i
    BY <1>3
  <2> QED BY <2>1, <2>2, <2>3
<1>5. /\ \A j \in 1..Len(q) : slot[q[j]] = "queued" /\ q[j] \in Slot
      /\ \A j \in 1..Len(u) : slot[u[j]] = "expired" /\ u[j] \in Slot
      /\ \A i, j \in 1..Len(q) : i < j => f[q[i]] <= f[q[j]]
  BY <1>2, QueueTypes DEF Queues, Places, Instants, Sorted
<1>6. ASSUME NEW s \in Slot
      PROVE  /\ slot'[s] = "expired" => slot[s] = "expired" \/ \E i \in 1..k : q[i] = s
             /\ slot'[s] = "queued" => slot[s] = "queued" /\ \A i \in 1..k : q[i] # s
             /\ slot'[s] \in Waiting => slot[s] \in Waiting
  <2>1. slot'[s] = IF \E i \in 1..m : q[i] = s THEN "leaked"
                   ELSE IF \E i \in (m + 1)..k : q[i] = s THEN "expired" ELSE slot[s]
    BY <1>1, <1>2
  <2>2. \A i \in 1..m : i \in 1..k
    BY <1>3
  <2>3. \A i \in (m + 1)..k : i \in 1..k /\ i \in 1..Len(q)
    BY <1>3
  <2>4. CASE \E i \in 1..m : q[i] = s
    BY <2>1, <2>4 DEF Waiting
  <2>5. CASE (~\E i \in 1..m : q[i] = s) /\ \E i \in (m + 1)..k : q[i] = s
    <3>1. slot'[s] = "expired" /\ slot[s] = "queued" /\ \E i \in 1..k : q[i] = s
      BY <1>5, <2>1, <2>3, <2>5
    <3> QED BY <3>1 DEF Waiting
  <2>6. CASE (~\E i \in 1..m : q[i] = s) /\ ~\E i \in (m + 1)..k : q[i] = s
    <3>1. slot'[s] = slot[s]
      BY <2>1, <2>6
    <3>2. \A i \in 1..k : i \in 1..m \/ i \in (m + 1)..k
      BY <1>3
    <3> QED BY <2>6, <3>1, <3>2
  <2> QED BY <2>4, <2>5, <2>6
<1>7. ASSUME NEW a \in Slot, NEW b \in Slot,
             slot'[a] = "expired", slot'[b] = "queued", f[b] < f[a]
      PROVE  b \in late
  <2>1. slot[b] = "queued" /\ \A i \in 1..k : q[i] # b
    BY <1>6, <1>7
  <2>2. CASE slot[a] = "expired"
    BY <1>2, <1>7, <2>1, <2>2 DEF Ranked
  <2>3. CASE \E i \in 1..k : q[i] = a
    <3>1. PICK i \in 1..k : q[i] = a
      BY <2>3
    <3>2. PICK j \in 1..Len(q) : q[j] = b
      BY <1>2, <2>1 DEF Queues, Places, Contains
    <3>3. i \in 1..Len(q) /\ i < j
      BY <1>3, <2>1, <3>1, <3>2
    <3>4. f[a] <= f[b]
      BY <1>5, <3>1, <3>2, <3>3
    <3> QED BY <1>7, <3>4
  <2> QED BY <1>6, <1>7, <2>2, <2>3
<1>8. PICK v : v = u \o w /\ Joins(v, u, w)
  <2>1. PICK v \in Seq(Slot) : v = u \o w
    BY ConcatFacts
  <2>2. Joins(v, u, w)
    BY <2>1, ConcatFacts DEF Joins
  <2> QED BY <2>1, <2>2
<1>9. Lagging(v, f, late)
  <2>0. /\ Len(u) \in Nat /\ Len(w) = k - m /\ Len(v) = Len(u) + (k - m)
        /\ k - m \in Nat /\ k \in Nat /\ m \in Nat /\ k <= Len(q) /\ Len(q) \in Nat
    <3>1. k \in Nat /\ m \in Nat /\ m <= k /\ k <= Len(q) /\ Len(q) \in Nat
      BY <1>3
    <3>2. Len(w) = k - m /\ k - m \in Nat
      BY <1>4, <3>1
    <3>3. Len(v) = Len(u) + Len(w)
      BY <1>8 DEF Joins
    <3> QED BY <3>1, <3>2, <3>3
  <2>1. ASSUME NEW i \in 1..Len(v)
        PROVE  \/ i \in 1..Len(u) /\ v[i] = u[i]
               \/ \E a \in 1..(k - m) :
                    /\ i = Len(u) + a /\ m + a \in 1..Len(q) /\ v[i] = q[m + a]
    <3>1. v[i] = IF i <= Len(u) THEN u[i] ELSE w[i - Len(u)]
      BY <1>8, <2>0 DEF Joins
    <3>2. CASE i <= Len(u)
      BY <2>0, <3>1, <3>2
    <3>3. CASE i > Len(u)
      <4>0. i \in Nat /\ i <= Len(v)
        BY <2>0
      <4>1. PICK a \in 1..(k - m) : a = i - Len(u)
        <5>1. PICK L \in Nat, M \in Nat : L = Len(u) /\ M = k - m
          BY <2>0
        <5>2. i \in Nat /\ i <= L + M /\ i > L
          BY <2>0, <3>3, <4>0, <5>1
        <5>3. i - L \in 1..M
          BY <5>2
        <5> QED BY <5>1, <5>3
      <4>2. i = Len(u) + a /\ m + a \in 1..Len(q)
        BY <2>0, <4>1
      <4>3. v[i] = q[m + a]
        BY <1>4, <2>0, <3>1, <3>3, <4>1
      <4> QED BY <4>2, <4>3
    <3> QED BY <2>0, <3>2, <3>3
  <2>5. SUFFICES ASSUME NEW i \in 1..Len(v), NEW j \in 1..Len(v), i < j, f[v[j]] < f[v[i]]
                 PROVE  v[j] \in late
    BY DEF Lagging
  <2>2. CASE j \in 1..Len(u) /\ v[j] = u[j]
    <3>1. PICK L \in Nat, N \in Nat : L = Len(u) /\ N = Len(v) /\ i \in 1..N /\ j \in 1..L /\ i < j
      <4>1. Len(u) \in Nat /\ Len(v) \in Nat
        BY <2>0
      <4> QED BY <2>2, <2>5, <4>1
    <3>2. i \in 1..L /\ \A a \in 1..(k - m) : i # L + a
      BY <2>0, <3>1
    <3>3. i \in 1..Len(u) /\ v[i] = u[i]
      BY <2>1, <3>1, <3>2
    <3> QED BY <1>2, <2>2, <2>5, <3>3 DEF Ranked, Lagging
  <2>3. ASSUME NEW a \in 1..(k - m), i = Len(u) + a, m + a \in 1..Len(q), v[i] = q[m + a]
        PROVE  FALSE
    <3>0. i \in Nat /\ j \in Nat /\ i < j /\ a \in Nat /\ a > 0
      BY <2>0, <2>3, <2>5
    <3>1. ~(j \in 1..Len(u))
      BY <2>0, <2>3, <3>0
    <3>2. PICK b \in 1..(k - m) : j = Len(u) + b /\ m + b \in 1..Len(q) /\ v[j] = q[m + b]
      BY <2>1, <3>1
    <3>3. b \in Nat /\ a < b
      BY <2>0, <2>3, <3>0, <3>2
    <3>4. m + a < m + b
      BY <2>0, <3>0, <3>3
    <3>5. f[q[m + a]] <= f[q[m + b]] /\ q[m + a] \in Slot /\ q[m + b] \in Slot
      BY <1>5, <2>3, <3>2, <3>4
    <3>6. f[v[i]] <= f[v[j]] /\ f[v[i]] \in Nat /\ f[v[j]] \in Nat
      BY <2>3, <3>2, <3>5
    <3>7. f[v[j]] < f[v[i]]
      BY <2>5
    <3> QED BY <3>6, <3>7
  <2>4. ASSUME NEW b \in 1..(k - m), m + b \in 1..Len(q), v[j] = q[m + b],
               i \in 1..Len(u), v[i] = u[i]
        PROVE  v[j] \in late
    <3>1. slot[v[i]] = "expired" /\ slot[v[j]] = "queued" /\ v[i] \in Slot /\ v[j] \in Slot
      BY <1>5, <2>4
    <3> QED BY <1>2, <2>5, <3>1 DEF Ranked
  <2> QED BY <2>1, <2>2, <2>3, <2>4
<1>10. expQ' = v
  BY <1>1, <1>2, <1>4, <1>8
<1>11. \A a, b \in Slot : a # b /\ slot'[a] \in Waiting /\ slot'[b] \in Waiting
                          => <<a, b>> \in before' \/ <<b, a>> \in before'
  BY <1>1, <1>6 DEF Ranked
<1> QED BY <1>1, <1>2, <1>7, <1>9, <1>10, <1>11 DEF Ranked

LEMMA RankedOpen ==
  ASSUME Control, CoreOpen
  PROVE  Ranked'
<1>1. /\ expQ' = <<>>
      /\ slot' = [s \in Slot |-> IF slot[s] = "free" THEN "free" ELSE "leaked"]
  BY DEF CoreOpen
<1>2. \A f, l : Lagging(<<>>, f, l)
  BY DEF Lagging
<1> QED BY <1>1, <1>2 DEF Ranked, Waiting

LEMMA NextRanked ==
  ASSUME Control, Control', Queues, Queues', Instants, Ranked, [Next]_vars
  PROVE  Ranked'
<1>1. CASE Moving
  BY <1>1, RankedSchedule, RankedLink, RankedRemoving, RankedMove, RankedOpen DEF Moving
<1>2. CASE Still
  <2>1. UNCHANGED <<expQ, slot, expire, before, late>>
    BY <1>2 DEF Still
  <2> QED BY <2>1 DEF Ranked
<1> QED BY <1>1, <1>2, OthersAreStill

LEMMA InitRanked == Init => Ranked
<1>1. \A f, l : Lagging(<<>>, f, l)
  BY DEF Lagging
<1> QED BY <1>1 DEF Init, Ranked, Waiting

(* The promise of the runtime, read as the parts of Order and Ranked.          *)
LEMMA OrderHandles ==
  ASSUME Control, Queues, Instants, Order, Ranked
  PROVE  HandledInOrder
<1>1. PICK u \in Seq(Slot), w \in Seq(Slot), f \in [Slot -> Nat] :
        u = expQ /\ w = evQ /\ f = expire
  BY QueueTypes
<1>2. PICK v \in Seq(Slot) : v = u \o w
  BY <1>1, ConcatFacts
<1>3. Joins(v, u, w)
  BY <1>1, <1>2, ConcatFacts DEF Joins
<1>4. Orderly(u, f, before) /\ Orderly(w, f, before) /\ Across(u, w, f, before)
  BY <1>1 DEF Order
<1>5. Orderly(v, f, before)
  BY <1>3, <1>4, JoinOrderly
<1>6. /\ \A i \in 1..Len(u) : u[i] \in Slot /\ slot[u[i]] = "expired"
      /\ \A i \in 1..Len(w) : w[i] \in Slot /\ slot[w[i]] = "queued"
      /\ \A i, j \in 1..Len(u) : i < j => u[i] # u[j]
      /\ \A i, j \in 1..Len(w) : i < j => w[i] # w[j] /\ f[w[i]] <= f[w[j]]
  BY <1>1, QueueTypes DEF Queues, Places, Once, Distinct, Instants, Sorted
<1>7. ASSUME NEW i \in 1..Len(v), NEW j \in 1..Len(v), i < j
      PROVE  \/ f[v[i]] < f[v[j]]
             \/ /\ <<v[i], v[j]>> \in before
                /\ \/ f[v[i]] = f[v[j]]
                   \/ i <= Len(u) /\ v[j] \in late
  <2>0. Len(u) \in Nat /\ Len(w) \in Nat /\ Len(v) = Len(u) + Len(w)
    BY <1>3 DEF Joins
  <2>1. ASSUME NEW l \in 1..Len(v)
        PROVE  \/ l \in 1..Len(u) /\ v[l] = u[l]
               \/ \E a \in 1..Len(w) : l = Len(u) + a /\ v[l] = w[a]
    <3>1. v[l] = IF l <= Len(u) THEN u[l] ELSE w[l - Len(u)]
      BY <1>3, <2>0 DEF Joins
    <3>2. CASE l <= Len(u)
      BY <2>0, <3>1, <3>2
    <3>3. CASE l > Len(u)
      <4>1. PICK a \in 1..Len(w) : a = l - Len(u)
        <5>1. PICK L \in Nat, M \in Nat : L = Len(u) /\ M = Len(w)
          BY <2>0
        <5>2. l \in Nat /\ l <= L + M /\ l > L
          BY <2>0, <3>3, <5>1
        <5>3. l - L \in 1..M
          BY <5>2
        <5> QED BY <5>1, <5>3
      <4> QED BY <2>0, <3>1, <3>3, <4>1
    <3> QED BY <2>0, <3>2, <3>3
  <2>2. /\ v[i] \in Slot /\ v[j] \in Slot /\ v[i] # v[j]
        /\ slot[v[i]] \in Waiting /\ slot[v[j]] \in Waiting
        /\ f[v[j]] < f[v[i]] => i <= Len(u) /\ v[j] \in late
    <3>1. CASE j \in 1..Len(u) /\ v[j] = u[j]
      <4>1. i \in 1..Len(u) /\ v[i] = u[i] /\ i <= Len(u)
        BY <1>7, <2>0, <2>1, <3>1
      <4>2. f[u[j]] < f[u[i]] => u[j] \in late
        BY <1>1, <1>7, <3>1, <4>1 DEF Ranked, Lagging
      <4> QED BY <1>6, <1>7, <3>1, <4>1, <4>2 DEF Waiting
    <3>2. ASSUME NEW a \in 1..Len(w), i = Len(u) + a, v[i] = w[a]
          PROVE  /\ v[i] \in Slot /\ v[j] \in Slot /\ v[i] # v[j]
                 /\ slot[v[i]] \in Waiting /\ slot[v[j]] \in Waiting
                 /\ ~(f[v[j]] < f[v[i]])
      <4>0. i \in Nat /\ j \in Nat /\ i < j /\ a \in Nat /\ a > 0 /\ ~(j \in 1..Len(u))
        BY <1>7, <2>0, <3>2
      <4>5. PICK b \in 1..Len(w) : j = Len(u) + b /\ v[j] = w[b]
        BY <2>1, <4>0
      <4>1. b \in 1..Len(w) /\ v[j] = w[b] /\ a < b
        BY <2>0, <3>2, <4>0, <4>5
      <4>2. /\ w[a] \in Slot /\ w[b] \in Slot /\ w[a] # w[b] /\ f[w[a]] <= f[w[b]]
            /\ slot[w[a]] = "queued" /\ slot[w[b]] = "queued"
        BY <1>6, <4>1
      <4>3. f[w[a]] \in Nat /\ f[w[b]] \in Nat /\ ~(f[w[b]] < f[w[a]])
        BY <4>2
      <4>4. v[i] = w[a] /\ v[j] = w[b]
        BY <3>2, <4>1
      <4> QED BY <4>2, <4>3, <4>4 DEF Waiting
    <3>3. ASSUME NEW b \in 1..Len(w), v[j] = w[b], i \in 1..Len(u), v[i] = u[i]
          PROVE  /\ v[i] \in Slot /\ v[j] \in Slot /\ v[i] # v[j]
                 /\ slot[v[i]] \in Waiting /\ slot[v[j]] \in Waiting
                 /\ f[v[j]] < f[v[i]] => i <= Len(u) /\ v[j] \in late
      <4>1. /\ u[i] \in Slot /\ slot[u[i]] = "expired" /\ w[b] \in Slot /\ slot[w[b]] = "queued"
            /\ i <= Len(u)
        BY <1>6, <2>0, <3>3
      <4>2. f[w[b]] < f[u[i]] => w[b] \in late
        BY <1>1, <4>1 DEF Ranked
      <4> QED BY <3>3, <4>1, <4>2 DEF Waiting
    <3> QED BY <2>1, <3>1, <3>2, <3>3
  <2>3. <<v[j], v[i]>> \in before => f[v[i]] < f[v[j]]
    BY <1>5, <1>7 DEF Orderly
  <2>4. <<v[i], v[j]>> \in before \/ <<v[j], v[i]>> \in before
    BY <2>2 DEF Ranked
  <2>5. f[v[i]] \in Nat /\ f[v[j]] \in Nat
    BY <2>2
  <2> QED BY <2>2, <2>3, <2>4, <2>5
<1>8. expQ \o evQ = v
  BY <1>1, <1>2
<1> QED BY <1>1, <1>7, <1>8 DEF HandledInOrder

(* Whatever the interleaving and however many CPUs, events are handled by      *)
(* expiry, those of one instant in the order they were posted, and behind one  *)
(* that expires later only those whose instant had passed when they came.      *)
THEOREM EventsHandledInOrder == Spec => []HandledInOrder
<1> DEFINE IInv == Control /\ Queues /\ Instants /\ Order /\ Ranked
<1>1. Init => IInv
  BY InitControl, InitQueues, InitOrder, InitRanked
<1>2. IInv /\ [Next]_vars => IInv'
  <2> SUFFICES ASSUME IInv, [Next]_vars PROVE IInv'
    OBVIOUS
  <2>1. Control'
    BY NextControl
  <2>2. Queues' /\ Instants'
    BY <2>1, NextQueues
  <2> QED BY <2>1, <2>2, NextOrder, NextRanked
<1>3. IInv => HandledInOrder
  BY OrderHandles
<1> QED BY <1>1, <1>2, <1>3, PTL DEF Spec

-----------------------------------------------------------------------------
(* One CPU.  A section that disables interrupts is not interrupted, so the     *)
(* position of one context tells where the others are, and what each place may *)
(* rely on.                                                                    *)

Served ==
  IF evQ = <<>> THEN tmState = "STOP" /\ armed = NoTimer
                ELSE tmState = "RUN" /\ armed = expire[Head(evQ)]

Alone ==
  /\ irq # "off" => owner = "none" /\ tlet # "unlink"
  /\ tlet # "off" => owner \in {"none", "tasklet"} \/ hpc = "kill"
  /\ hpc = "drain" => tlet = "off" /\ ~tletSched

Whole ==
  /\ OopsOnlyClosed
  /\ coreState = "opened" <=> dev = "up"
  /\ coreState = "opened" => ready
  /\ owner \in {"open", "close"} => coreState = "opened"
  /\ expQ # <<>> => tletSched \/ tlet # "off" \/ irq = "sched"

AtHolder ==
  /\ hpc \in {"idle", "body", "insert", "link", "remove", "unlink", "halt"} /\ irq = "off" => Served
  /\ hpc \in {"state", "restart"} => tmState = "RUN" \/ (tmState = "STOP" /\ armed = NoTimer)
  /\ hpc \in {"remove", "unlink"} => evQ # <<>>
  /\ hpc = "cancel" => tmState = "RUN"
  /\ hpc = "run" => armed = expire[Head(evQ)]
  /\ hpc = "stop" => evQ = <<>>
  /\ hpc \in {"flush", "kill", "drain"} => tmState = "STOP" /\ armed = NoTimer
  /\ hpc \in {"kill", "drain"} => evQ = <<>>

AtCallback ==
  /\ irq # "off" => armed = NoTimer
  /\ irq = "quit" => evQ = <<>>
  /\ irq \in {"reload", "run", "again"} => evQ # <<>>
  /\ irq \in {"run", "again"} => reload = expire[Head(evQ)]
  /\ irq = "again" => tmState = "RUN"

OneCpu == Alone /\ Whole /\ AtHolder /\ AtCallback

(* A step that leaves the queue and the instants of its events.                *)
LEMMA OneCpuStill ==
  ASSUME ~MultiCpu, Control, OneCpu, [Next]_vars, ~Moving
  PROVE  OneCpu'
<1> USE DEF OneCpu, Alone, Whole, OopsOnlyClosed, AtHolder, AtCallback, Served, InUse, NoTimer, Control,
       LocksHeld, ListSteps, HolderRuns, TaskletRuns, ProcessRuns, IrqEnabled,
       coreVars, lockVars, queueVars, irqVars, expVars, tletVars
<1>1. CASE Tick
  BY <1>1, SMTT(60) DEF Tick
<1>2. CASE Drive \/ HandlerReturn
  BY <1>2, SMTT(60) DEF Drive, HandlerReturn, TypeOK
<1>3. CASE LockInsert \/ LockRemove
  BY <1>3, SMTT(60) DEF LockInsert, LockRemove, TakeListLock
<1>4. CASE TestState
  BY <1>4, SMTT(60) DEF TestState, BackToBody
<1>17. CASE Restart
  <2>1. CASE tmState = "STOP"
    BY <1>17, <2>1, SMTT(60) DEF Restart
  <2>2. CASE tmState = "RUN"
    BY <1>17, <2>2, SMTT(60) DEF Restart
  <2>3. tmState \in {"STOP", "RUN"}
    BY <1>17 DEF Restart
  <2> QED BY <2>1, <2>2, <2>3
<1>5. CASE Arm \/ MarkRun \/ CancelAndArm
  BY <1>5, SMTT(60) DEF Arm, MarkRun, CancelAndArm, BackToBody, StepsRelyOn
<1>6. CASE UnlinkFails \/ StopEmpty
  BY <1>6, SMTT(60) DEF UnlinkFails, StopEmpty, StopTimer, BackToBody
<1>7. CASE Fire
  <2>1. armed # NoTimer
    BY <1>7, BoundAssumption, SMTT(60) DEF Fire, TypeOK
  <2> QED BY <1>7, <2>1, SMTT(60) DEF Fire
<1>18. CASE ReadTime \/ Check \/ IrqLock
  BY <1>18, SMTT(60) DEF ReadTime, Check, IrqLock, CallbackEnds, TypeOK
<1>8. CASE ScheduleTasklet \/ TestMore \/ Quit
  BY <1>8, SMTT(60) DEF ScheduleTasklet, TestMore, Quit, CallbackEnds
<1>9. CASE Reload \/ Rerun \/ Again
  BY <1>9, SMTT(60) DEF Reload, Rerun, Again, CallbackEnds
<1>10. CASE StartTasklet \/ TestList \/ DriveExpired \/ BeginDelete
  BY <1>10, SMTT(60) DEF StartTasklet, TestList, DriveExpired, BeginDelete
<1>11. CASE DevOpen \/ DevDown \/ CoreClose
  BY <1>11, SMTT(60) DEF DevOpen, DevDown, CoreClose
<1>12. CASE CloseStop \/ CloseKill
  BY <1>12, SMTT(60) DEF CloseStop, CloseKill, StopTimer
<1>13. CASE \E s \in Slot : Cancel(s)
  BY <1>13, SMTT(60) DEF Cancel
<1>14. CASE ArmUnready \/ UnlinkEmpty \/ ReloadNull \/ AgainBug
  BY <1>14, SMTT(60) DEF ArmUnready, UnlinkEmpty, ReloadNull, AgainBug, Crash, TypeOK
<1>15. CASE CoreOpenInUse \/ CloseDrainInUse
  BY <1>15, SMTT(60) DEF CoreOpenInUse, CloseDrainInUse, Crash, TypeOK
<1>16. CASE UNCHANGED vars
  BY <1>16, SMTT(60) DEF vars
<1> QED
  BY <1>1, <1>2, <1>3, <1>4, <1>5, <1>6, <1>7, <1>8, <1>9, <1>10, <1>11, <1>12,
     <1>13, <1>14, <1>15, <1>16, <1>17, <1>18, Zenon
     DEF Next, Handler, ListOp, Callback, Tasklet, Closing, Opening, Moving

(* An event linked behind the head, or taken out behind it, leaves the head.   *)
LEMMA HeadFacts ==
  ASSUME NEW S, NEW q \in Seq(S)
  PROVE  /\ q # <<>> => Len(q) \in Nat /\ Len(q) >= 1 /\ Head(q) = q[1] /\ Head(q) \in S
         /\ \A r \in Seq(S) : Len(r) > 0 => r # <<>> /\ Head(r) = r[1]
  OBVIOUS

LEMMA OneCpuSchedule ==
  ASSUME ~MultiCpu, Control, Queues, OneCpu, NEW s \in Slot, NEW d \in Delays, Schedule(s, d)
  PROVE  OneCpu'
<1>1. slot[s] = "free" /\ \A t \in Slot : t # s => expire'[t] = expire[t]
  BY QueueTypes DEF Schedule
<1>2. evQ # <<>> => expire'[Head(evQ)] = expire[Head(evQ)]
  BY <1>1, QueueTypes, HeadFacts DEF Queues, Places
<1> QED BY <1>2, SMTT(60)
  DEF Schedule, OneCpu, Alone, Whole, OopsOnlyClosed, AtHolder, AtCallback, Served, InUse, Control, LocksHeld,
      ListSteps, HolderRuns, irqVars, coreVars, expVars, tletVars

LEMMA OneCpuLink ==
  ASSUME ~MultiCpu, Control, Queues, OneCpu, NEW k \in 0..Len(evQ), Link(k)
  PROVE  OneCpu'
<1>1. cur \in Slot /\ evQ \in Seq(Slot)
  BY SMTT(60) DEF Link, Control, StepsRelyOn, TypeOK
<1>2. PICK p : p = k + 1
  OBVIOUS
<1>3. /\ evQ' \in Seq(Slot) /\ Len(evQ') = Len(evQ) + 1
      /\ Inserts(evQ', evQ, k, p, cur)
  BY <1>1, <1>2, InsertFacts DEF Link
<1>4. evQ' # <<>> /\ Head(evQ') = evQ'[1]
  BY <1>1, <1>3, HeadFacts
<1>5. k # 0 => evQ # <<>> /\ Head(evQ') = Head(evQ)
  <2>1. ASSUME k # 0 PROVE evQ # <<>> /\ Head(evQ') = Head(evQ)
    <3>1. Len(evQ) >= 1 /\ 1 <= k /\ 1 \in 1..(Len(evQ) + 1)
      BY <1>1, <2>1
    <3>2. evQ # <<>>
      BY <1>1, <3>1
    <3>3. evQ'[1] = evQ[1]
      BY <1>3, <3>1 DEF Inserts
    <3> QED BY <1>1, <1>4, <3>2, <3>3, HeadFacts
  <2> QED BY <2>1
<1>6. /\ hpc = "link" /\ HolderRuns
      /\ \/ k = 0 /\ hpc' = "state" /\ UNCHANGED <<tmLock, cur>>
         \/ k # 0 /\ hpc' = "body" /\ tmLock' = "none"
      /\ UNCHANGED <<coreVars, owner, tmState, expire, armed, irqVars, expVars, tletVars, oops>>
  BY DEF Link
<1> QED BY <1>4, <1>5, <1>6, SMTT(60)
  DEF OneCpu, Alone, Whole, OopsOnlyClosed, AtHolder, AtCallback, Served, InUse, Control, LocksHeld,
      ListSteps, HolderRuns, irqVars, coreVars, expVars, tletVars

LEMMA OneCpuUnlinkHead ==
  ASSUME ~MultiCpu, Control, OneCpu, UnlinkHead
  PROVE  OneCpu'
<1>1. Len(evQ) \in Nat /\ Len(evQ) >= 1 /\ Len(Tail(evQ)) = Len(evQ) - 1
  BY QueueTypes, TailFacts DEF UnlinkHead
<1>2. Len(evQ) = 1 => Tail(evQ) = <<>>
  <2>1. PICK t \in Seq(Slot) : t = Tail(evQ)
    BY QueueTypes, TailFacts DEF UnlinkHead
  <2>2. Len(t) = 0 => t = <<>>
    OBVIOUS
  <2> QED BY <1>1, <2>1, <2>2
<1> QED BY <1>2, SMTT(60)
  DEF UnlinkHead, OneCpu, Alone, Whole, OopsOnlyClosed, AtHolder, AtCallback, Served, InUse, Control,
      LocksHeld, ListSteps, HolderRuns, irqVars, coreVars, expVars, tletVars

LEMMA OneCpuUnlinkInner ==
  ASSUME ~MultiCpu, Control, Queues, OneCpu, NEW k \in 1..Len(evQ), UnlinkInner(k)
  PROVE  OneCpu'
<1>1. /\ k > 1 /\ evQ[k] = cur /\ evQ' = RemoveAt(evQ, k)
      /\ \A s \in Slot : s # cur => expire'[s] = expire[s]
  BY DEF UnlinkInner, Free
<1>2. /\ evQ' \in Seq(Slot) /\ Len(evQ) \in Nat /\ Len(evQ) >= 2 /\ Len(evQ') = Len(evQ) - 1
      /\ evQ'[1] = evQ[1]
  <2>1. PICK q \in Seq(Slot) : q = evQ
    BY QueueTypes
  <2>2. PICK r : r = RemoveAt(q, k)
    OBVIOUS
  <2>3. /\ r \in Seq(Slot) /\ Len(r) = Len(q) - 1 /\ k \in 1..Len(q) /\ Len(q) \in Nat
        /\ \A i \in 1..(Len(q) - 1) : r[i] = IF i < k THEN q[i] ELSE q[i + 1]
    <3>1. k \in 1..Len(q)
      BY <2>1
    <3>2. Len(q) \in Nat
      BY <2>1
    <3>3. /\ RemoveAt(q, k) \in Seq(Slot) /\ Len(RemoveAt(q, k)) = Len(q) - 1
          /\ \A i \in 1..(Len(q) - 1) : RemoveAt(q, k)[i] = IF i < k THEN q[i] ELSE q[i + 1]
      BY <3>1, RemoveFacts
    <3> QED BY <2>2, <3>1, <3>2, <3>3
  <2>4. Len(q) >= 2 /\ 1 \in 1..(Len(q) - 1) /\ 1 < k
    BY <1>1, <2>3
  <2> QED BY <1>1, <2>1, <2>2, <2>3, <2>4
<1>3. /\ evQ # <<>> /\ evQ' # <<>> /\ Head(evQ) = evQ[1] /\ Head(evQ) \in Slot
      /\ Head(evQ') = Head(evQ)
  BY <1>2, QueueTypes, HeadFacts
<1>4. Head(evQ) # cur
  BY <1>1, <1>2, <1>3 DEF Queues, Once, Distinct
<1>5. expire'[Head(evQ')] = expire[Head(evQ)]
  BY <1>1, <1>3, <1>4
<1>6. /\ hpc = "unlink" /\ hpc' = "body" /\ HolderRuns
      /\ UNCHANGED <<coreVars, owner, tmState, armed, irqVars, expVars, tletVars, oops>>
  BY DEF UnlinkInner, BackToBody
<1> QED BY <1>3, <1>5, <1>6, SMTT(60)
  DEF OneCpu, Alone, Whole, OopsOnlyClosed, AtHolder, AtCallback, Served, InUse, Control,
      LocksHeld, ListSteps, HolderRuns, irqVars, coreVars, expVars, tletVars

LEMMA OneCpuEndDelete ==
  ASSUME ~MultiCpu, Control, Queues, OneCpu, EndDelete
  PROVE  OneCpu'
<1>1. expQ # <<>> /\ slot[Head(expQ)] = "expired"
  BY QueueTypes, HeadFacts, SMTT(60) DEF EndDelete, Control, StepsRelyOn, Queues, Places
<1>2. evQ # <<>> => expire'[Head(evQ)] = expire[Head(evQ)]
  BY <1>1, QueueTypes, HeadFacts DEF EndDelete, Free, Queues, Places
<1> QED BY <1>1, <1>2, SMTT(60)
  DEF EndDelete, OneCpu, Alone, Whole, OopsOnlyClosed, AtHolder, AtCallback, Served, InUse, Control,
      LocksHeld, ListSteps, TaskletRuns, irqVars, coreVars, lockVars

LEMMA OneCpuMove ==
  ASSUME ~MultiCpu, Control, OneCpu,
         \E k \in 0..Len(evQ), m \in 0..Len(evQ), cut \in BOOLEAN : m <= k /\ Move(k, m, cut)
  PROVE  OneCpu'
<1>1. /\ ~oops /\ irq = "move" /\ irq' = "sched"
      /\ UNCHANGED <<coreVars, lockVars, tmState, armed, tletVars, oops>>
  BY DEF Move
<1> QED BY <1>1, SMTT(60)
  DEF OneCpu, Alone, Whole, OopsOnlyClosed, AtHolder, AtCallback, Served, InUse, Control,
      LocksHeld, ListSteps, coreVars, lockVars, tletVars

LEMMA OneCpuEmptying ==
  ASSUME ~MultiCpu, Control, OneCpu, CoreOpen \/ CloseFlush \/ CloseDrain
  PROVE  OneCpu'
<1> USE DEF OneCpu, Alone, Whole, OopsOnlyClosed, AtHolder, AtCallback, Served, InUse, Control,
       LocksHeld, ListSteps, HolderRuns, ProcessRuns, irqVars, coreVars, expVars, tletVars
<1>1. CASE CoreOpen
  BY <1>1, SMTT(60) DEF CoreOpen
<1>2. CASE CloseFlush
  BY <1>2, SMTT(60) DEF CloseFlush
<1>3. CASE CloseDrain
  BY <1>3, SMTT(60) DEF CloseDrain
<1> QED BY <1>1, <1>2, <1>3

LEMMA OneCpuNext ==
  ASSUME ~MultiCpu, Control, Queues, OneCpu, [Next]_vars
  PROVE  OneCpu'
<1>1. CASE Moving
  BY <1>1, OneCpuSchedule, OneCpuLink, OneCpuUnlinkHead, OneCpuUnlinkInner, OneCpuMove,
     OneCpuEndDelete, OneCpuEmptying DEF Moving
<1> QED BY <1>1, OneCpuStill

LEMMA OneCpuInit == Init => OneCpu
BY BoundAssumption, SMTT(60)
   DEF Init, OneCpu, Alone, Whole, OopsOnlyClosed, AtHolder, AtCallback, Served, InUse, NoTimer

(* The strengthening the theorems on one CPU rest on.                          *)
THEOREM OneCpuIsRight ==
  ASSUME ~MultiCpu
  PROVE  Spec => []OneCpu
<1> DEFINE IInv == Control /\ Queues /\ Instants /\ OneCpu
<1>1. Init => IInv
  BY InitControl, InitQueues, OneCpuInit
<1>2. IInv /\ [Next]_vars => IInv'
  <2> SUFFICES ASSUME IInv, [Next]_vars PROVE IInv'
    OBVIOUS
  <2>1. Control'
    BY NextControl
  <2>2. Queues' /\ Instants'
    BY <2>1, NextQueues
  <2>3. OneCpu'
    BY OneCpuNext
  <2> QED BY <2>1, <2>2, <2>3
<1>3. IInv => OneCpu
  OBVIOUS
<1> QED BY <1>1, <1>2, <1>3, PTL DEF Spec

(* With one CPU an open core meets no NULL pointer, freed entry, timer that was *)
(* not initialised or BUG_ON, whatever the handlers schedule and cancel and     *)
(* however often the device goes down and up; a closed one meets two, by name.  *)
THEOREM OneCpuSurvives ==
  ASSUME ~MultiCpu
  PROVE  Spec => []OopsOnlyClosed
<1>1. OneCpu => OopsOnlyClosed
  BY DEF OneCpu, Whole
<1> QED BY <1>1, OneCpuIsRight, PTL

(* With one CPU no wake-up is lost: between two sections of the timer code the *)
(* hrtimer is enqueued for the first event of evQ.                             *)
THEOREM OneCpuServesHead ==
  ASSUME ~MultiCpu
  PROVE  Spec => []TimerServesHead
<1>1. Control /\ OneCpu => TimerServesHead
  BY SMTT(60) DEF TimerServesHead, OneCpu, AtHolder, Served, Control, TypeOK, LocksHeld, ListSteps
<1> QED BY <1>1, OneCpuIsRight, QueuesAreRight, PTL

LEMMA OnlyDrainCloses ==
  ASSUME [Next]_vars, coreState = "opened", coreState' = "closed"
  PROVE  CloseDrain
<1> USE DEF coreVars
<1>1. CASE Tick \/ Drive \/ Handler \/ Fire \/ Opening \/ CoreClose \/ DevDown
  BY <1>1 DEF Tick, Drive, Handler, HandlerReturn, Schedule, Cancel, Fire, Opening, DevOpen,
     CoreOpen, CoreOpenInUse, CoreClose, DevDown, Crash
<1>2. CASE ListOp
  BY <1>2 DEF ListOp, LockInsert, LockRemove, TakeListLock, Link, TestState, Restart, Arm,
     ArmUnready, MarkRun, CancelAndArm, UnlinkHead, UnlinkInner, UnlinkFails, UnlinkEmpty,
     StopEmpty, Crash
<1>3. CASE Callback
  BY <1>3 DEF Callback, ReadTime, Check, IrqLock, Move, ScheduleTasklet, TestMore, Quit,
     Reload, ReloadNull, Rerun, Again, AgainBug, Crash
<1>4. CASE Tasklet
  BY <1>4 DEF Tasklet, StartTasklet, TestList, DriveExpired, BeginDelete, EndDelete
<1>5. CASE Closing
  BY <1>5 DEF Closing, CloseStop, CloseFlush, CloseKill, CloseDrainInUse, Crash
<1>6. CASE UNCHANGED vars
  BY <1>6 DEF vars
<1> QED BY <1>1, <1>2, <1>3, <1>4, <1>5, <1>6 DEF Next

(* With one CPU closing leaves no callback, no tasklet and no event behind,     *)
(* whatever came while the core was open or closed before.                      *)
THEOREM OneCpuClosesQuietly ==
  ASSUME ~MultiCpu
  PROVE  Spec => ClosesQuiet
<1> DEFINE Closes == coreState = "opened" /\ coreState' = "closed"
           Quiet == ~InUse' /\ evQ' = <<>> /\ expQ' = <<>>
<1>1. ASSUME Control, OneCpu, [Next]_vars, Closes PROVE Quiet
  <2>1. CloseDrain
    BY <1>1, OnlyDrainCloses
  <2> QED BY <1>1, <2>1, SMTT(60)
      DEF CloseDrain, HolderRuns, OneCpu, Alone, AtHolder, InUse, Control, LocksHeld,
          irqVars, tletVars
<1>2. Control /\ OneCpu /\ [Next]_vars => [Closes => Quiet]_vars
  BY <1>1
<1> QED BY <1>2, OneCpuIsRight, QueuesAreRight, PTL DEF Spec, ClosesQuiet

-----------------------------------------------------------------------------
(* One CPU: FsmTimer implements EventService.  The event the tasklet takes is  *)
(* the one whose turn it is among all that wait: exp_ev_list is ordered, what  *)
(* is on it expires before what is in evQ or on its way there, and of any two  *)
(* events the history knows which came first.                                  *)

InTurn ==
  /\ \A a, b \in Slot : slot[a] = "expired" /\ slot[b] \in {"queued", "held"}
                        => expire[a] <= expire[b]
  /\ Ascending(expQ, expire)
  /\ \A s \in Slot : slot[s] # "leaked"
  /\ ~expCut

LEMMA TurnSchedule ==
  ASSUME Control, Queues, Instants, InTurn, NEW s \in Slot, NEW d \in Delays, Schedule(s, d)
  PROVE  InTurn'
<1>1. /\ slot[s] = "free" /\ slot' = [slot EXCEPT ![s] = "held"]
      /\ expQ' = expQ /\ before' = before /\ expCut' = expCut
      /\ expire' = [expire EXCEPT ![s] = now + (IF d = 0 THEN 1 ELSE d)]
  BY DEF Schedule, Due, expVars
<1>2. now \in Nat /\ d \in Nat /\ expire'[s] >= now /\ expire'[s] \in Nat
  BY <1>1, QueueTypes, DelayAssumption
<1>3. ASSUME NEW a \in Slot, slot[a] = "expired" PROVE expire[a] <= now /\ expire[a] \in Nat
  <2>1. PICK i \in 1..Len(expQ) : expQ[i] = a
    BY <1>3 DEF Queues, Places, Contains
  <2> QED BY <2>1, QueueTypes DEF Instants, NeverEarly
<1>4. /\ \A t \in Slot : t # s => expire'[t] = expire[t] /\ slot'[t] = slot[t]
      /\ slot'[s] = "held"
      /\ \A i \in 1..Len(expQ) : expQ[i] \in Slot /\ expQ[i] # s
  BY <1>1, QueueTypes DEF Queues, Places
<1>5. \A a, b \in Slot : slot'[a] = "expired" /\ slot'[b] \in {"queued", "held"}
                         => expire'[a] <= expire'[b]
  <2> SUFFICES ASSUME NEW a \in Slot, NEW b \in Slot,
                      slot'[a] = "expired", slot'[b] \in {"queued", "held"}
               PROVE  expire'[a] <= expire'[b]
    OBVIOUS
  <2>1. a # s /\ slot[a] = "expired" /\ expire'[a] = expire[a]
    BY <1>4
  <2>2. CASE b = s
    BY <1>2, <1>3, <2>1, <2>2
  <2>3. CASE b # s
    BY <1>4, <2>1, <2>3 DEF InTurn
  <2> QED BY <2>2, <2>3
<1>6. Ascending(expQ, expire')
  BY <1>4 DEF InTurn, Ascending
<1> QED BY <1>1, <1>4, <1>5, <1>6 DEF InTurn

LEMMA TurnLink ==
  ASSUME Control, Queues, InTurn, NEW k \in 0..Len(evQ), Link(k)
  PROVE  InTurn'
<1>1. /\ cur \in Slot /\ slot[cur] = "held"
      /\ slot' = [slot EXCEPT ![cur] = "queued"]
      /\ expQ' = expQ /\ expire' = expire /\ expCut' = expCut
      /\ before' = before \cup {<<a, cur>> : a \in {b \in Slot : slot[b] \in {"queued", "expired"}}}
  BY SMTT(60) DEF Link, Control, StepsRelyOn, Queues, Places, Inserting, expVars
<1>2. slot'[cur] = "queued" /\ \A t \in Slot : t # cur => slot'[t] = slot[t]
  BY <1>1, QueueTypes
<1>4. \A a, b \in Slot : slot'[a] = "expired" /\ slot'[b] \in {"queued", "held"}
                         => expire'[a] <= expire'[b]
  BY <1>1, <1>2 DEF InTurn
<1> QED BY <1>1, <1>2, <1>4 DEF InTurn

LEMMA FreedTurn ==
  ASSUME Control, Control', Queues', InTurn, NEW S, Free(S),
         NEW h, Thins(expQ', expQ, h), expCut' = expCut
  PROVE  InTurn'
<1>1. /\ \A s \in Slot : s \notin S => slot'[s] = slot[s] /\ expire'[s] = expire[s]
      /\ \A s \in Slot : s \in S => slot'[s] = "free"
      /\ \A a, b \in Slot : <<a, b>> \in before /\ a \notin S /\ b \notin S => <<a, b>> \in before'
  BY DEF Free
<1>2. \A i \in 1..Len(expQ') : expQ'[i] \in Slot /\ slot'[expQ'[i]] = "expired"
  <2>1. PICK r \in Seq(Slot) : r = expQ'
    BY DEF Control, TypeOK
  <2>2. \A i \in 1..Len(expQ') : slot'[expQ'[i]] = "expired"
    BY DEF Queues, Places
  <2> QED BY <2>1, <2>2
<1>3. \A i \in 1..Len(expQ') : expire'[expQ'[i]] = expire[expQ'[i]]
  BY <1>1, <1>2
<1>4. PICK q \in Seq(Slot), r \in Seq(Slot) : q = expQ /\ r = expQ'
  BY DEF Control, TypeOK
<1>5. Ascending(r, expire)
  BY <1>4, ThinKeeps DEF InTurn
<1>6. Ascending(expQ', expire')
  BY <1>3, <1>4, <1>5 DEF Ascending
<1>8. \A a, b \in Slot : slot'[a] = "expired" /\ slot'[b] \in {"queued", "held"}
                         => expire'[a] <= expire'[b]
  BY <1>1 DEF InTurn
<1>9. \A s \in Slot : slot'[s] # "leaked"
  BY <1>1 DEF InTurn
<1> QED BY <1>6, <1>8, <1>9 DEF InTurn

LEMMA TurnRemoving ==
  ASSUME Control, Control', Queues', InTurn,
         \/ UnlinkHead \/ \E k \in 1..Len(evQ) : UnlinkInner(k)
         \/ EndDelete \/ CloseFlush \/ CloseDrain
  PROVE  InTurn'
<1>1. \E h : Thins(expQ, expQ, h)
  BY QueueTypes, ThinsItself
<1>2. CASE UnlinkHead
  BY <1>1, <1>2, FreedTurn DEF UnlinkHead, expVars
<1>3. CASE \E k \in 1..Len(evQ) : UnlinkInner(k)
  BY <1>1, <1>3, FreedTurn DEF UnlinkInner, expVars
<1>4. CASE EndDelete
  <2>1. Free({Head(expQ)}) /\ expQ # <<>> /\ expQ' = Tail(expQ) /\ expCut' = expCut
    BY <1>4, SMTT(60) DEF EndDelete, Control, StepsRelyOn
  <2>2. \E h : Thins(expQ', expQ, h)
    BY <2>1, QueueTypes, TailThins
  <2> QED BY <2>1, <2>2, FreedTurn
<1>5. CASE CloseFlush
  BY <1>1, <1>5, FreedTurn DEF CloseFlush, expVars
<1>6. CASE CloseDrain
  <2>1. Free({s \in Slot : slot[s] = "expired"}) /\ expQ' = <<>> /\ expCut' = expCut
    BY <1>6 DEF CloseDrain
  <2> QED BY <2>1, NothingThins, FreedTurn
<1> QED BY <1>2, <1>3, <1>4, <1>5, <1>6

(* What expires is a prefix of an ordered queue; none of it is lost.           *)
LEMMA MoveIsWhole ==
  ASSUME ~MultiCpu, Control, OneCpu, InTurn,
         NEW k \in 0..Len(evQ), NEW m \in 0..Len(evQ), NEW cut \in BOOLEAN,
         m <= k, Move(k, m, cut)
  PROVE  /\ m = 0 /\ expCut' = FALSE
         /\ expQ' = expQ \o SubSeq(evQ, 1, k)
         /\ slot' = [s \in Slot |-> IF \E i \in 1..k : evQ[i] = s THEN "expired" ELSE slot[s]]
<1>1. irq = "move" /\ tlet # "unlink" /\ ~ListRace
  BY DEF Move, OneCpu, Alone, ListRace
<1>2. m = 0 /\ ~expCut
  BY <1>1 DEF Move, InTurn
<1>3. ~cut
  BY <1>2, QueueTypes DEF Move
<1>4. m + 1 = 1 /\ \A i \in 1..m : FALSE
  BY <1>2
<1> QED BY <1>2, <1>3, <1>4 DEF Move

LEMMA BelowBoth ==
  ASSUME NEW L \in Nat, NEW N \in Int, NEW i \in 1..N, NEW j \in 1..L, i < j
  PROVE  i \in 1..L /\ ~(i > L)
OBVIOUS

LEMMA TurnMove ==
  ASSUME ~MultiCpu, Control, Queues, Instants, OneCpu, InTurn,
         NEW k \in 0..Len(evQ), NEW m \in 0..Len(evQ), NEW cut \in BOOLEAN,
         m <= k, Move(k, m, cut)
  PROVE  InTurn'
<1>1. /\ expCut' = FALSE /\ expQ' = expQ \o SubSeq(evQ, 1, k)
      /\ slot' = [s \in Slot |-> IF \E i \in 1..k : evQ[i] = s THEN "expired" ELSE slot[s]]
      /\ expire' = expire /\ before' = before
  BY MoveIsWhole DEF Move
<1>2. PICK q \in Seq(Slot), u \in Seq(Slot), f \in [Slot -> Nat] :
        q = evQ /\ u = expQ /\ f = expire
  BY QueueTypes
<1>3. /\ Len(q) \in Nat /\ k \in 0..Len(q) /\ \A i \in 1..k : i \in 1..Len(q)
      /\ 1 \in 1..(Len(q) + 1) /\ 1 <= k + 1
  BY <1>2
<1>4. PICK w \in Seq(Slot) :
        w = SubSeq(q, 1, k) /\ Len(w) = k /\ \A i \in 1..k : w[i] = q[i]
  <2>1. PICK w \in Seq(Slot) : w = SubSeq(q, 1, k)
    BY <1>3, SubSeqFacts
  <2>2. Len(w) = k - 1 + 1 /\ \A i \in 1..(k - 1 + 1) : w[i] = q[1 + i - 1]
    BY <1>3, <2>1, SubSeqFacts
  <2>3. k - 1 + 1 = k /\ \A i \in 1..k : 1 + i - 1 = i
    BY <1>3
  <2> QED BY <2>1, <2>2, <2>3
<1>5. /\ \A j \in 1..Len(q) : slot[q[j]] = "queued" /\ q[j] \in Slot
      /\ \A j \in 1..Len(u) : slot[u[j]] = "expired" /\ u[j] \in Slot
      /\ \A i, j \in 1..Len(q) : i < j => f[q[i]] <= f[q[j]]
  BY <1>2, QueueTypes DEF Queues, Places, Instants, Sorted
<1>6. ASSUME NEW s \in Slot
      PROVE  /\ slot'[s] = "expired" => slot[s] = "expired" \/ \E i \in 1..k : q[i] = s
             /\ slot'[s] = "queued" => slot[s] = "queued" /\ \A i \in 1..k : q[i] # s
             /\ slot'[s] = "held" => slot[s] = "held"
             /\ slot'[s] = "leaked" => slot[s] = "leaked"
             /\ slot'[s] \in {"queued", "expired"} => slot[s] \in {"queued", "expired"}
  <2>1. slot'[s] = IF \E i \in 1..k : q[i] = s THEN "expired" ELSE slot[s]
    BY <1>1, <1>2
  <2>2. CASE \E i \in 1..k : q[i] = s
    <3>1. slot[s] = "queued"
      BY <1>3, <1>5, <2>2
    <3> QED BY <2>1, <2>2, <3>1
  <2>3. CASE ~\E i \in 1..k : q[i] = s
    BY <2>1, <2>3
  <2> QED BY <2>2, <2>3
<1>7. \A s \in Slot : slot[s] # "held"
  BY SMTT(60) DEF Move, OneCpu, Alone, Control, LocksHeld, Queues, Places, Inserting
<1>8. ASSUME NEW a \in Slot, NEW b \in Slot,
             slot'[a] = "expired", slot'[b] \in {"queued", "held"}
      PROVE  f[a] <= f[b]
  <2>1. slot[b] = "queued" /\ \A i \in 1..k : q[i] # b
    BY <1>6, <1>7, <1>8
  <2>2. CASE slot[a] = "expired"
    BY <1>2, <2>1, <2>2 DEF InTurn
  <2>3. CASE \E i \in 1..k : q[i] = a
    <3>1. PICK i \in 1..k : q[i] = a
      BY <2>3
    <3>2. PICK j \in 1..Len(q) : q[j] = b
      BY <1>2, <2>1 DEF Queues, Places, Contains
    <3>3. i \in 1..Len(q) /\ i < j
      BY <1>3, <2>1, <3>1, <3>2
    <3> QED BY <1>5, <3>1, <3>2, <3>3
  <2> QED BY <1>6, <1>8, <2>2, <2>3
<1>9. PICK v : v = u \o w /\ Joins(v, u, w)
  <2>1. PICK v \in Seq(Slot) : v = u \o w
    BY ConcatFacts
  <2>2. Joins(v, u, w)
    BY <2>1, ConcatFacts DEF Joins
  <2> QED BY <2>1, <2>2
<1>10. Ascending(v, f)
  <2>0. Len(u) \in Nat /\ Len(v) = Len(u) + k
    BY <1>4, <1>9 DEF Joins
  <2>1. ASSUME NEW i \in 1..Len(v)
        PROVE  \/ i \in 1..Len(u) /\ v[i] = u[i]
               \/ i > Len(u) /\ i - Len(u) \in 1..k /\ v[i] = q[i - Len(u)]
    <3>1. v[i] = IF i <= Len(u) THEN u[i] ELSE w[i - Len(u)]
      BY <1>9, <2>0 DEF Joins
    <3>2. CASE i <= Len(u)
      BY <2>0, <3>1, <3>2
    <3>3. CASE i > Len(u)
      <4>1. PICK L \in Nat, M \in Nat : L = Len(u) /\ M = k
        BY <2>0
      <4>2. i \in Nat /\ i <= L + M /\ i > L
        BY <2>0, <3>3, <4>1
      <4>3. i - L \in 1..M
        BY <4>2
      <4>4. v[i] = w[i - Len(u)]
        BY <2>0, <3>1, <3>3
      <4> QED BY <1>4, <3>3, <4>1, <4>3, <4>4
    <3> QED BY <2>0, <3>2, <3>3
  <2> SUFFICES ASSUME NEW i \in 1..Len(v), NEW j \in 1..Len(v), i < j
               PROVE  f[v[i]] <= f[v[j]]
    BY DEF Ascending
  <2>2. CASE j \in 1..Len(u) /\ v[j] = u[j]
    <3>1. Len(u) \in Nat /\ Len(v) \in Int
      BY <1>3, <2>0
    <3>2. i \in 1..Len(u) /\ ~(i > Len(u))
      BY <2>2, <3>1, BelowBoth, Zenon
    <3>3. i \in 1..Len(u) /\ v[i] = u[i]
      BY <2>1, <3>2
    <3> QED BY <1>2, <2>2, <3>3 DEF InTurn, Ascending
  <2>3. CASE i > Len(u) /\ i - Len(u) \in 1..k /\ v[i] = q[i - Len(u)]
    <3>4. i \in Nat /\ j \in Nat /\ i < j /\ j > Len(u) /\ ~(j \in 1..Len(u))
      BY <2>0, <2>3
    <3>5. j - Len(u) \in 1..k /\ v[j] = q[j - Len(u)]
      BY <2>1, <3>4
    <3>1. j - Len(u) \in 1..k /\ v[j] = q[j - Len(u)] /\ i - Len(u) < j - Len(u)
      BY <2>0, <3>4, <3>5
    <3> QED BY <1>3, <1>5, <2>3, <3>1
  <2>4. CASE /\ i \in 1..Len(u) /\ v[i] = u[i]
             /\ j - Len(u) \in 1..k /\ v[j] = q[j - Len(u)]
    BY <1>2, <1>3, <1>5, <2>4 DEF InTurn
  <2> QED BY <2>1, <2>2, <2>3, <2>4
<1>11. expQ' = v
  BY <1>1, <1>2, <1>4, <1>9
<1>12. \A s \in Slot : slot'[s] # "leaked"
  BY <1>6 DEF InTurn
<1> QED BY <1>1, <1>2, <1>8, <1>10, <1>11, <1>12 DEF InTurn

LEMMA OpenFindsNothing ==
  ASSUME ~MultiCpu, Control, Queues, OneCpu, InTurn, CoreOpen
  PROVE  /\ \A s \in Slot : slot[s] = "free"
         /\ slot' = slot /\ evQ = <<>> /\ expQ = <<>>
<1>1. /\ hpc = "idle" /\ irq = "off" /\ tlet = "off" /\ ~tletSched /\ armed = NoTimer
  BY SMTT(60) DEF CoreOpen, InUse, Control, TypeOK, LocksHeld
<1>e. evQ \in Seq(Slot) /\ \A q \in Seq(Slot) : q # <<>> => Head(q) \in Slot
  BY QueueTypes, HeadFacts
<1>2. evQ = <<>> /\ expQ = <<>>
  <2>1. evQ # <<>> => expire[Head(evQ)] # NoTimer
    BY <1>e, QueueTypes DEF NoTimer
  <2> QED BY <1>1, <2>1, SMTT(60) DEF OneCpu, Whole, AtHolder, Served
<1>3. \A s \in Slot : slot[s] = "free"
  BY <1>1, <1>2, QueueTypes DEF Queues, Places, Inserting, Contains, InTurn
<1>4. slot' = slot
  BY <1>3, QueueTypes DEF CoreOpen
<1> QED BY <1>2, <1>3, <1>4

LEMMA TurnOpen ==
  ASSUME ~MultiCpu, Control, Queues, OneCpu, InTurn, CoreOpen
  PROVE  InTurn'
<1>1. slot' = slot /\ expire' = expire /\ before' = before /\ expQ' = <<>> /\ expCut' = FALSE
  BY OpenFindsNothing DEF CoreOpen
<1>2. \A f : Ascending(<<>>, f)
  BY DEF Ascending
<1> QED BY <1>1, <1>2 DEF InTurn

LEMMA TurnNext ==
  ASSUME ~MultiCpu, Control, Control', Queues, Queues', Instants, OneCpu, InTurn, [Next]_vars
  PROVE  InTurn'
<1>1. CASE Moving
  BY <1>1, TurnSchedule, TurnLink, TurnRemoving, TurnMove, TurnOpen DEF Moving
<1>2. CASE Still
  <2>1. UNCHANGED <<expQ, slot, expire, before, expCut>>
    BY <1>2 DEF Still
  <2> QED BY <2>1 DEF InTurn
<1> QED BY <1>1, <1>2, OthersAreStill

LEMMA InitTurn == Init => InTurn
<1>1. \A f : Ascending(<<>>, f)
  BY DEF Ascending
<1> QED BY <1>1 DEF Init, InTurn

(* The first expired event is the next one the service may handle.             *)
LEMMA HeadIsNext ==
  ASSUME Control, Queues, Order, Ranked, InTurn, expQ # <<>>,
         NEW t \in Slot, t # Head(expQ), slot[t] \in {"queued", "expired"}
  PROVE  \/ expire[Head(expQ)] < expire[t]
         \/ expire[Head(expQ)] = expire[t] /\ <<Head(expQ), t>> \in before
<1>1. PICK s \in Slot : s = Head(expQ) /\ s = expQ[1] /\ 1 \in 1..Len(expQ)
  BY QueueTypes, HeadFacts
<1>2. slot[s] = "expired" /\ expire[s] \in Nat /\ expire[t] \in Nat
  BY <1>1, QueueTypes DEF Queues, Places
<1>3. expire[s] <= expire[t] /\ (<<t, s>> \in before => expire[s] < expire[t])
  <2>1. CASE slot[t] = "queued"
    <3>1. PICK j \in 1..Len(evQ) : evQ[j] = t
      BY <2>1 DEF Queues, Places, Contains
    <3> QED BY <1>1, <1>2, <2>1, <3>1 DEF InTurn, Order, Across
  <2>2. CASE slot[t] = "expired"
    <3>1. PICK j \in 1..Len(expQ) : expQ[j] = t
      BY <2>2 DEF Queues, Places, Contains
    <3>2. 1 < j
      BY <1>1, <3>1
    <3> QED BY <1>1, <3>1, <3>2 DEF InTurn, Ascending, Order, Orderly
  <2> QED BY <2>1, <2>2
<1>4. <<s, t>> \in before \/ <<t, s>> \in before
  BY <1>1, <1>2 DEF Ranked, Waiting
<1> QED BY <1>1, <1>2, <1>3, <1>4

(* What the mapping shows of an event, and of whoever runs a handler.          *)
Stage(place, first) ==
  IF place = "held" THEN "posting"
  ELSE IF place = "queued" THEN "waiting"
  ELSE IF place = "expired" THEN IF first THEN "handling" ELSE "waiting"
  ELSE "free"

Taken(s) == Running /\ s = Head(expQ)

Status == [s \in Slot |-> CASE slot[s] = "held" -> "posting"
                            [] slot[s] = "queued" -> "waiting"
                            [] slot[s] = "expired" ->
                                 IF Running /\ s = Head(expQ) THEN "handling" ELSE "waiting"
                            [] OTHER -> "free"]

Busy == CASE owner = "none" -> "nobody" [] owner = "tasklet" -> "event" [] OTHER -> "other"

LEMMA StatusIs ==
  /\ Status = [s \in Slot |-> Stage(slot[s], Taken(s))]
  /\ Status' = [s \in Slot |-> Stage(slot'[s], Taken(s)')]
  BY DEF Status, Stage, Taken

LEMMA BusyIs ==
  /\ Busy = IF owner = "none" THEN "nobody" ELSE IF owner = "tasklet" THEN "event" ELSE "other"
  /\ Busy' = IF owner' = "none" THEN "nobody" ELSE IF owner' = "tasklet" THEN "event" ELSE "other"
  BY DEF Busy

LEMMA MapsStutter ==
  ASSUME now' = now, Status' = Status, expire' = expire, before' = before, Busy' = Busy
  PROVE  UNCHANGED Service!vars
  BY DEF Service!vars, Status, Busy

LEMMA MapsPost ==
  ASSUME NEW s, NEW d, Busy # "nobody", Status[s] = "free",
         Status' = [Status EXCEPT ![s] = "posting"],
         expire' = [expire EXCEPT ![s] = now + (IF d = 0 THEN 1 ELSE d)],
         now' = now, before' = before, Busy' = Busy
  PROVE  Service!Post(s, d)
  BY DEF Service!Post, Status, Busy

LEMMA MapsCommit ==
  ASSUME NEW s, Status[s] = "posting", Status' = [Status EXCEPT ![s] = "waiting"],
         before' = before \cup {<<t, s>> : t \in {u \in Slot : Status[u] \in {"waiting", "handling"}}},
         now' = now, expire' = expire, Busy' = Busy
  PROVE  Service!Commit(s)
  BY DEF Service!Commit, Status, Busy

LEMMA MapsHandle ==
  ASSUME NEW s \in Slot, Status[s] = "waiting", Busy = "nobody", Busy' = "event",
         expire[s] <= now,
         \A t \in Slot : t # s /\ Status[t] = "waiting" =>
           expire[s] < expire[t] \/ (expire[s] = expire[t] /\ <<s, t>> \in before),
         Status' = [Status EXCEPT ![s] = "handling"],
         now' = now, expire' = expire, before' = before
  PROVE  Service!Handle(s)
  BY DEF Service!Handle, Service!IsNext, Service!Waiting, Status, Busy

LEMMA MapsGone ==
  ASSUME NEW S, Status' = [s \in Slot |-> IF s \in S THEN "free" ELSE Status[s]],
         expire' = [s \in Slot |-> IF s \in S THEN 0 ELSE expire[s]],
         before' = {p \in before : p[1] \notin S /\ p[2] \notin S}
  PROVE  Service!Gone(S)
  BY DEF Service!Gone, Status

LEMMA MapsEnds ==
  ASSUME NEW s \in Slot, Service!Gone({s}), now' = now, Busy' = Busy
  PROVE  /\ Busy # "nobody" /\ Status[s] = "waiting" => Service!Cancel(s)
         /\ Busy # "event" /\ Status[s] = "handling" => Service!Finish(s)
  BY DEF Service!Cancel, Service!Finish, Service!Waiting, Status, Busy

LEMMA MapsDiscard ==
  ASSUME NEW S \in SUBSET Slot, \A s \in S : Status[s] = "waiting", Service!Gone(S),
         Busy = "other", Busy' \in {"other", "nobody"}, now' = now
  PROVE  Service!Discard
  BY DEF Service!Discard, Service!Waiting, Status, Busy

LEMMA MapsTurn ==
  ASSUME now' = now, Status' = Status, expire' = expire, before' = before
  PROVE  /\ Busy = "nobody" /\ Busy' = "other" => Service!Enter
         /\ Busy = "other" /\ Busy' = "nobody" => Service!Leave
         /\ Busy = "event" /\ Busy' = "nobody" => Service!Return
  BY DEF Service!Enter, Service!Leave, Service!Return, Status, Busy

(* The events a step frees leave the service.                                  *)
LEMMA FreedGone ==
  ASSUME NEW S, Free(S),
         \A s \in Slot : s \notin S /\ slot[s] = "expired" => (Taken(s)' <=> Taken(s))
  PROVE  Service!Gone(S)
<1>1. Status' = [s \in Slot |-> IF s \in S THEN "free" ELSE Status[s]]
  <2>1. slot' = [s \in Slot |-> IF s \in S THEN "free" ELSE slot[s]]
    BY DEF Free
  <2>2. ASSUME NEW s \in Slot
        PROVE  Stage(slot'[s], Taken(s)') = IF s \in S THEN "free" ELSE Stage(slot[s], Taken(s))
    BY <2>1 DEF Stage
  <2> QED BY <2>2, StatusIs
<1> QED BY <1>1, MapsGone DEF Free

LEMMA SameStatus ==
  ASSUME UNCHANGED <<slot, expQ>>, Running' <=> Running
  PROVE  Status' = Status
<1>1. \A s \in Slot : Taken(s)' <=> Taken(s)
  BY DEF Taken
<1>2. \A s \in Slot : Stage(slot'[s], Taken(s)') = Stage(slot[s], Taken(s))
  BY <1>1 DEF Stage
<1> QED BY <1>2, StatusIs

LEMMA RefinesSchedule ==
  ASSUME Control, NEW s \in Slot, NEW d \in Delays, Schedule(s, d)
  PROVE  Service!Post(s, d)
<1>1. /\ slot[s] = "free" /\ slot' = [slot EXCEPT ![s] = "held"] /\ owner # "none"
      /\ UNCHANGED <<now, owner, expQ, tlet, before>>
      /\ expire' = [expire EXCEPT ![s] = now + (IF d = 0 THEN 1 ELSE d)]
  BY SMTT(60) DEF Schedule, Due, Control, LocksHeld, expVars, tletVars
<1>2. /\ slot'[s] = "held" /\ \A t \in Slot : t # s => slot'[t] = slot[t]
      /\ \A t \in Slot : Taken(t)' <=> Taken(t)
  BY <1>1, QueueTypes DEF Taken, Running
<1>3. Status[s] = "free" /\ Status' = [Status EXCEPT ![s] = "posting"]
  <2>1. Stage(slot[s], Taken(s)) = "free" /\ Stage(slot'[s], Taken(s)') = "posting"
    BY <1>1, <1>2 DEF Stage
  <2>2. \A t \in Slot : t # s => Stage(slot'[t], Taken(t)') = Stage(slot[t], Taken(t))
    BY <1>2 DEF Stage
  <2> QED BY <2>1, <2>2, StatusIs
<1>4. Busy # "nobody" /\ Busy' = Busy
  BY <1>1, BusyIs
<1> QED BY <1>1, <1>3, <1>4, MapsPost

LEMMA RefinesLink ==
  ASSUME Control, Queues, NEW k \in 0..Len(evQ), Link(k)
  PROVE  \E s \in Slot : Service!Commit(s)
<1>0. PICK s \in Slot : s = cur
  BY SMTT(60) DEF Link, Control, StepsRelyOn
<1>1. /\ slot[s] = "held" /\ slot' = [slot EXCEPT ![s] = "queued"]
      /\ UNCHANGED <<now, owner, expQ, tlet, expire>>
      /\ before' = before \cup {<<a, s>> : a \in {b \in Slot : slot[b] \in {"queued", "expired"}}}
  BY <1>0, SMTT(60) DEF Link, Queues, Places, Inserting, expVars, tletVars
<1>2. /\ slot'[s] = "queued" /\ \A t \in Slot : t # s => slot'[t] = slot[t]
      /\ \A t \in Slot : Taken(t)' <=> Taken(t)
  BY <1>1, QueueTypes DEF Taken, Running
<1>3. Status[s] = "posting" /\ Status' = [Status EXCEPT ![s] = "waiting"]
  <2>1. Stage(slot[s], Taken(s)) = "posting" /\ Stage(slot'[s], Taken(s)') = "waiting"
    BY <1>1, <1>2 DEF Stage
  <2>2. \A t \in Slot : t # s => Stage(slot'[t], Taken(t)') = Stage(slot[t], Taken(t))
    BY <1>2 DEF Stage
  <2> QED BY <2>1, <2>2, StatusIs
<1>4. {b \in Slot : slot[b] \in {"queued", "expired"}}
        = {u \in Slot : Status[u] \in {"waiting", "handling"}}
  <2>1. \A u \in Slot : Stage(slot[u], Taken(u)) \in {"waiting", "handling"}
                          <=> slot[u] \in {"queued", "expired"}
    BY DEF Stage
  <2> QED BY <2>1, StatusIs
<1>5. Busy' = Busy
  BY <1>1, BusyIs
<1>6. before' = before \cup {<<t, s>> : t \in {u \in Slot : Status[u] \in {"waiting", "handling"}}}
  BY <1>1, <1>4
<1> QED BY <1>1, <1>3, <1>5, <1>6, MapsCommit

LEMMA RefinesUnlink ==
  ASSUME Control, Queues, UnlinkHead \/ \E k \in 1..Len(evQ) : UnlinkInner(k)
  PROVE  \E s \in Slot : Service!Cancel(s)
<1>1. /\ cur \in Slot /\ slot[cur] = "queued" /\ Free({cur}) /\ owner # "none"
      /\ UNCHANGED <<now, owner, expQ, tlet>>
  <2>1. CASE UnlinkHead
    <3>1. cur = evQ[1] /\ 1 \in 1..Len(evQ)
      BY <2>1, QueueTypes, HeadFacts DEF UnlinkHead
    <3> QED BY <2>1, <3>1, QueueTypes, SMTT(60)
         DEF UnlinkHead, Queues, Places, Control, LocksHeld, expVars, tletVars
  <2>2. CASE \E k \in 1..Len(evQ) : UnlinkInner(k)
    BY <2>2, QueueTypes, SMTT(60)
       DEF UnlinkInner, Queues, Places, Control, LocksHeld, expVars, tletVars
  <2> QED BY <2>1, <2>2
<1>2. \A s \in Slot : Taken(s)' <=> Taken(s)
  BY <1>1 DEF Taken, Running
<1>3. PICK s \in Slot : s = cur
  BY <1>1
<1>4. Status[s] = "waiting"
  BY <1>1, <1>3, StatusIs DEF Stage
<1>5. Busy # "nobody" /\ Busy' = Busy
  BY <1>1, BusyIs
<1>6. Service!Gone({s})
  BY <1>1, <1>2, <1>3, FreedGone
<1> QED BY <1>1, <1>4, <1>5, <1>6, MapsEnds

LEMMA RefinesDriveExpired ==
  ASSUME Control, Queues, Instants, Order, Ranked, InTurn, DriveExpired
  PROVE  \E s \in Slot : Service!Handle(s)
<1>1. /\ expQ # <<>> /\ tlet = "lock" /\ tlet' = "drive" /\ owner = "none" /\ owner' = "tasklet"
      /\ UNCHANGED <<now, slot, expQ, expire, before>>
  BY SMTT(60) DEF DriveExpired, Control, StepsRelyOn, queueVars, expVars
<1>2. PICK s \in Slot : s = Head(expQ) /\ s = expQ[1] /\ 1 \in 1..Len(expQ)
  BY <1>1, QueueTypes, HeadFacts
<1>3. slot[s] = "expired" /\ expire[s] <= now
  BY <1>2 DEF Queues, Places, Instants, NeverEarly
<1>4. /\ \A t \in Slot : ~Taken(t)
      /\ \A t \in Slot : Taken(t)' <=> t = s
  BY <1>1, <1>2 DEF Taken, Running
<1>5. Status[s] = "waiting" /\ Status' = [Status EXCEPT ![s] = "handling"]
  <2>1. Stage(slot[s], Taken(s)) = "waiting" /\ Stage(slot'[s], Taken(s)') = "handling"
    BY <1>1, <1>3, <1>4 DEF Stage
  <2>2. \A t \in Slot : t # s => Stage(slot'[t], Taken(t)') = Stage(slot[t], Taken(t))
    BY <1>1, <1>4 DEF Stage
  <2> QED BY <2>1, <2>2, StatusIs
<1>6. ASSUME NEW t \in Slot, t # s, Status[t] = "waiting"
      PROVE  expire[s] < expire[t] \/ (expire[s] = expire[t] /\ <<s, t>> \in before)
  <2>1. slot[t] \in {"queued", "expired"}
    BY <1>6, StatusIs DEF Stage
  <2> QED BY <1>1, <1>2, <1>6, <2>1, HeadIsNext
<1>7. Busy = "nobody" /\ Busy' = "event"
  BY <1>1, BusyIs
<1> QED BY <1>1, <1>3, <1>5, <1>6, <1>7, MapsHandle

LEMMA RefinesEndDelete ==
  ASSUME Control, Queues, EndDelete
  PROVE  \E s \in Slot : Service!Finish(s)
<1>1. /\ expQ # <<>> /\ tlet = "unlink" /\ tlet' = "test" /\ owner # "tasklet"
      /\ Free({Head(expQ)}) /\ UNCHANGED <<now, owner>>
  BY SMTT(60) DEF EndDelete, Control, StepsRelyOn, LocksHeld, lockVars
<1>2. PICK s \in Slot : s = Head(expQ) /\ slot[s] = "expired"
  BY <1>1, QueueTypes, HeadFacts DEF Queues, Places
<1>3. /\ \A t \in Slot : Taken(t) <=> t = s
      /\ \A t \in Slot : ~Taken(t)'
  BY <1>1, <1>2 DEF Taken, Running
<1>4. Service!Gone({s})
  BY <1>1, <1>2, <1>3, FreedGone
<1>5. Status[s] = "handling"
  BY <1>2, <1>3, StatusIs DEF Stage
<1>6. Busy # "event" /\ Busy' = Busy
  BY <1>1, BusyIs
<1> QED BY <1>1, <1>4, <1>5, <1>6, MapsEnds

LEMMA RefinesDiscard ==
  ASSUME Control, OneCpu, CloseFlush \/ CloseDrain
  PROVE  Service!Discard
<1>1. tlet = "off" /\ owner = "close"
  BY SMTT(60) DEF CloseFlush, CloseDrain, OneCpu, Alone, Control, LocksHeld
<1>2. PICK S \in SUBSET Slot : Free(S) /\ \A s \in S : slot[s] \in {"queued", "expired"}
  BY DEF CloseFlush, CloseDrain
<1>3. now' = now /\ tlet' = tlet /\ owner' \in {"close", "none"}
  BY <1>1 DEF CloseFlush, CloseDrain, tletVars
<1>4. \A s \in Slot : ~Taken(s) /\ ~Taken(s)'
  BY <1>1, <1>3 DEF Taken, Running
<1>5. \A s \in S : Status[s] = "waiting"
  BY <1>2, <1>4, StatusIs DEF Stage
<1>6. Busy = "other" /\ Busy' \in {"other", "nobody"}
  BY <1>1, <1>3, BusyIs
<1>7. Service!Gone(S)
  BY <1>2, <1>4, FreedGone
<1> QED BY <1>2, <1>3, <1>5, <1>6, <1>7, MapsDiscard

LEMMA RefinesMove ==
  ASSUME ~MultiCpu, Control, Queues, OneCpu, InTurn,
         NEW k \in 0..Len(evQ), NEW m \in 0..Len(evQ), NEW cut \in BOOLEAN,
         m <= k, Move(k, m, cut)
  PROVE  UNCHANGED Service!vars
<1>1. /\ expQ' = expQ \o SubSeq(evQ, 1, k)
      /\ slot' = [s \in Slot |-> IF \E i \in 1..k : evQ[i] = s THEN "expired" ELSE slot[s]]
      /\ UNCHANGED <<now, owner, tlet, expire, before>>
  BY MoveIsWhole DEF Move, lockVars, tletVars
<1>2. Running => Head(expQ') = Head(expQ) /\ slot[Head(expQ)] = "expired"
  <2>1. ASSUME Running PROVE expQ # <<>>
    BY <2>1, SMTT(60) DEF Running, Control, StepsRelyOn
  <2>2. PICK u \in Seq(Slot), w \in Seq(Slot) : u = expQ /\ w = SubSeq(evQ, 1, k)
    <3>1. 1 \in 1..(Len(evQ) + 1) /\ k \in 0..Len(evQ) /\ 1 <= k + 1
      BY QueueTypes
    <3> QED BY <3>1, QueueTypes, SubSeqFacts
  <2>3. u # <<>> => Head(u \o w) = Head(u)
    OBVIOUS
  <2>4. expQ # <<>> => slot[Head(expQ)] = "expired"
    BY QueueTypes, HeadFacts DEF Queues, Places
  <2> QED BY <1>1, <2>1, <2>2, <2>3, <2>4
<1>3. ASSUME NEW s \in Slot
      PROVE  Stage(slot'[s], Taken(s)') = Stage(slot[s], Taken(s))
  <2>1. Taken(s)' <=> Taken(s)
    BY <1>1, <1>2 DEF Taken, Running
  <2>2. CASE \E i \in 1..k : evQ[i] = s
    <3>1. slot[s] = "queued" /\ slot'[s] = "expired"
      BY <1>1, <2>2, QueueTypes DEF Queues, Places
    <3>2. ~Taken(s)
      BY <1>2, <3>1 DEF Taken
    <3> QED BY <2>1, <3>1, <3>2 DEF Stage
  <2>3. CASE ~\E i \in 1..k : evQ[i] = s
    BY <1>1, <2>1, <2>3 DEF Stage
  <2> QED BY <2>2, <2>3
<1>4. Status' = Status
  BY <1>3, StatusIs
<1>5. Busy' = Busy
  BY <1>1, BusyIs
<1> QED BY <1>1, <1>4, <1>5, MapsStutter

(* The steps the service does not see: other contexts' positions, the timer.   *)
Unseen ==
  UNCHANGED <<now, owner, slot, expQ, expire, before>> /\ (Running' <=> Running)

LEMMA RefinesOthers ==
  ASSUME Control, [Next]_vars, ~Moving,
         ~(Tick \/ Drive \/ HandlerReturn \/ DriveExpired \/ CoreClose)
  PROVE  Unseen
<1> USE DEF Unseen, Running, coreVars, lockVars, queueVars, irqVars, expVars, tletVars
<1>1. CASE LockInsert \/ LockRemove
  BY <1>1 DEF LockInsert, LockRemove, TakeListLock
<1>2. CASE TestState \/ Restart
  BY <1>2 DEF TestState, Restart
<1>3. CASE Arm \/ MarkRun \/ CancelAndArm
  BY <1>3 DEF Arm, MarkRun, CancelAndArm
<1>4. CASE UnlinkFails \/ StopEmpty
  BY <1>4 DEF UnlinkFails, StopEmpty
<1>5. CASE ArmUnready \/ UnlinkEmpty \/ ReloadNull \/ AgainBug \/ CoreOpenInUse \/ CloseDrainInUse
  BY <1>5 DEF ArmUnready, UnlinkEmpty, ReloadNull, AgainBug, CoreOpenInUse, CloseDrainInUse, Crash
<1>6. CASE Fire \/ ReadTime \/ Check \/ IrqLock
  BY <1>6 DEF Fire, ReadTime, Check, IrqLock
<1>7. CASE ScheduleTasklet \/ TestMore \/ Quit
  BY <1>7 DEF ScheduleTasklet, TestMore, Quit
<1>8. CASE Reload \/ Rerun \/ Again
  BY <1>8 DEF Reload, Rerun, Again
<1>9. CASE StartTasklet \/ TestList \/ BeginDelete
  BY <1>9, SMTT(60) DEF StartTasklet, TestList, BeginDelete
<1>10. CASE DevOpen \/ DevDown
  BY <1>10 DEF DevOpen, DevDown
<1>11. CASE CloseStop \/ CloseKill
  BY <1>11 DEF CloseStop, CloseKill
<1>12. CASE \E s \in Slot : Cancel(s)
  BY <1>12 DEF Cancel
<1>13. CASE UNCHANGED vars
  BY <1>13 DEF vars
<1> QED
  BY <1>1, <1>2, <1>3, <1>4, <1>5, <1>6, <1>7, <1>8, <1>9, <1>10, <1>11, <1>12, <1>13, Zenon
     DEF Next, Handler, ListOp, Callback, Tasklet, Closing, Opening, Moving

LEMMA RefinesTurns ==
  ASSUME ~MultiCpu, Control, Queues, OneCpu, InTurn,
         Drive \/ HandlerReturn \/ CoreClose \/ CoreOpen
  PROVE  Service!Next \/ UNCHANGED Service!vars
<1>1. /\ UNCHANGED <<now, slot, expQ, expire, before>>
      /\ \/ owner = "none" /\ owner' \in {"drive", "close", "open"}
         \/ owner # "none" /\ owner' = "none"
         \/ owner' = owner
      /\ Running' <=> Running
  <2>1. CASE Drive \/ CoreClose
    BY <2>1 DEF Drive, CoreClose, Running, queueVars, expVars, tletVars
  <2>2. CASE HandlerReturn
    BY <2>2, SMTT(60) DEF HandlerReturn, Control, TypeOK, LocksHeld, Running, queueVars, expVars
  <2>3. CASE CoreOpen
    <3>1. UNCHANGED <<slot, expQ>>
      BY <2>3, OpenFindsNothing DEF CoreOpen
    <3> QED BY <2>3, <3>1 DEF CoreOpen, Running, tletVars
  <2> QED BY <2>1, <2>2, <2>3
<1>2. Status' = Status
  BY <1>1, SameStatus
<1>3. CASE owner' = owner
  BY <1>1, <1>2, <1>3, BusyIs, MapsStutter
<1>4. CASE owner' # owner
  <2>1. \/ Busy = "nobody" /\ Busy' = "other"
        \/ Busy \in {"other", "event"} /\ Busy' = "nobody"
    BY <1>1, <1>4, BusyIs
  <2> QED BY <1>1, <1>2, <2>1, MapsTurn DEF Service!Next
<1> QED BY <1>3, <1>4

LEMMA RefinesNext ==
  ASSUME ~MultiCpu, Control, Queues, Instants, OneCpu, Order, Ranked, InTurn, [Next]_vars
  PROVE  [Service!Next]_(Service!vars)
<1>1. CASE Tick
  <2>1. /\ now < MaxTime /\ now' = now + 1 /\ UNCHANGED <<slot, expQ, expire, before, owner>>
        /\ Running' <=> Running
    BY <1>1 DEF Tick, Running, lockVars, queueVars, expVars, tletVars
  <2>2. Status' = Status /\ Busy' = Busy
    BY <2>1, SameStatus, BusyIs
  <2>3. Service!Pass
    BY <2>1, <2>2 DEF Service!Pass, Status, Busy
  <2> QED BY <2>3 DEF Service!Next
<1>2. CASE Drive \/ HandlerReturn \/ CoreClose \/ CoreOpen
  BY <1>2, RefinesTurns
<1>3. CASE DriveExpired
  BY <1>3, RefinesDriveExpired DEF Service!Next
<1>4. CASE \E s \in Slot, d \in Delays : Schedule(s, d)
  BY <1>4, RefinesSchedule DEF Service!Next
<1>5. CASE \E k \in 0..Len(evQ) : Link(k)
  BY <1>5, RefinesLink DEF Service!Next
<1>6. CASE UnlinkHead \/ \E k \in 1..Len(evQ) : UnlinkInner(k)
  BY <1>6, RefinesUnlink DEF Service!Next
<1>7. CASE \E k \in 0..Len(evQ), m \in 0..Len(evQ), cut \in BOOLEAN : m <= k /\ Move(k, m, cut)
  BY <1>7, RefinesMove
<1>8. CASE EndDelete
  BY <1>8, RefinesEndDelete DEF Service!Next
<1>9. CASE CloseFlush \/ CloseDrain
  BY <1>9, RefinesDiscard DEF Service!Next
<1>10. CASE Unseen
  BY <1>10, SameStatus, BusyIs, MapsStutter DEF Unseen
<1> QED BY <1>1, <1>2, <1>3, <1>4, <1>5, <1>6, <1>7, <1>8, <1>9, <1>10, RefinesOthers DEF Moving

LEMMA RefinesInit == Init => Service!Init
<1> SUFFICES ASSUME Init PROVE Service!Init
  OBVIOUS
<1>1. Status = [s \in Slot |-> "free"]
  <2>1. \A s \in Slot : Stage(slot[s], Taken(s)) = "free"
    BY DEF Init, Stage
  <2> QED BY <2>1, StatusIs
<1>2. Busy = "nobody"
  BY BusyIs DEF Init
<1> QED BY <1>1, <1>2 DEF Init, Service!Init, Status, Busy

(* With one CPU the queue, the callback, the tasklet and the locks do what the *)
(* runtime promises the state machines: an event is handled once, alone, not   *)
(* before it is due, and in its turn.                                          *)
THEOREM OneCpuImplementsService ==
  ASSUME ~MultiCpu
  PROVE  Spec => ImplementsService
<1> DEFINE IInv == Control /\ Queues /\ Instants /\ OneCpu /\ Order /\ Ranked /\ InTurn
<1>1. Init => IInv
  BY InitControl, InitQueues, OneCpuInit, InitOrder, InitRanked, InitTurn
<1>2. IInv /\ [Next]_vars => IInv'
  <2> SUFFICES ASSUME IInv, [Next]_vars PROVE IInv'
    OBVIOUS
  <2>1. Control'
    BY NextControl
  <2>2. Queues' /\ Instants'
    BY <2>1, NextQueues
  <2>3. OneCpu'
    BY OneCpuNext
  <2>4. Order'
    BY <2>1, <2>2, NextOrder
  <2>5. Ranked'
    BY <2>1, <2>2, NextRanked
  <2>6. InTurn'
    BY <2>1, <2>2, TurnNext
  <2> QED BY <2>1, <2>2, <2>3, <2>4, <2>5, <2>6
<1>3. IInv /\ [Next]_vars => [Service!Next]_(Service!vars)
  BY RefinesNext
<1> QED BY RefinesInit, <1>1, <1>2, <1>3, PTL DEF Spec, ImplementsService, Service!Spec

(* fsm_schedule_cancel reports FSM_EXEC_FAIL for no event that is queued.      *)
THEOREM CancelFailsOnlyWhenGone == Spec => FailsOnlyWhenGone
<1> DEFINE Fails == hpc = "unlink" /\ hpc' = "body" /\ evQ' = evQ
<1>1. ASSUME Control, Queues, [Next]_vars, Fails PROVE slot[cur] # "queued"
  <2>1. tmLock = "holder" /\ owner # "none" /\ cur \in Slot
    BY <1>1, SMTT(60) DEF Control, LocksHeld, StepsRelyOn, ListSteps
  <2>2. CASE UnlinkFails
    BY <1>1, <2>1, <2>2 DEF UnlinkFails, Queues, Places
  <2>3. CASE \E k \in 1..Len(evQ) : UnlinkInner(k)
    <3>1. PICK k \in 1..Len(evQ) : UnlinkInner(k)
      BY <2>3
    <3>2. PICK q \in Seq(Slot) : q = evQ
      BY <1>1, QueueTypes
    <3>3. k \in 1..Len(q)
      BY <3>2
    <3>4. Len(RemoveAt(q, k)) = Len(q) - 1 /\ Len(q) \in Nat
      BY <3>2, <3>3, RemoveFacts
    <3>5. RemoveAt(q, k) = q
      BY <1>1, <3>1, <3>2 DEF UnlinkInner
    <3>6. Len(q) # Len(q) - 1
      BY <3>4
    <3> QED BY <3>4, <3>5, <3>6
  <2>4. CASE Handler \/ Drive \/ Opening \/ CoreClose \/ Closing \/ UnlinkHead
    <3>1. CASE Handler
      BY <1>1, <3>1, SMTT(60) DEF Handler, HandlerReturn, Schedule, Cancel
    <3>2. CASE Drive \/ Opening \/ CoreClose
      BY <1>1, <2>1, <3>2, SMTT(60)
         DEF Drive, Opening, CoreClose, DevOpen, CoreOpen, CoreOpenInUse, Crash, lockVars
    <3>3. CASE Closing
      BY <1>1, <3>3, SMTT(60)
         DEF Closing, CloseStop, CloseFlush, CloseKill, CloseDrain, CloseDrainInUse,
             Crash, lockVars
    <3>4. CASE UnlinkHead
      BY <1>1, <3>4 DEF UnlinkHead
    <3> QED BY <2>4, <3>1, <3>2, <3>3, <3>4
  <2>5. CASE Tick \/ Fire \/ Callback \/ DevDown
    BY <1>1, <2>1, <2>5, SMTT(60)
       DEF Tick, Fire, Callback, DevDown, ReadTime, Check, IrqLock, Move,
           ScheduleTasklet, TestMore, Quit, Reload, ReloadNull, Rerun, Again,
           AgainBug, Crash, lockVars
  <2>6. CASE Tasklet
    BY <1>1, <2>1, <2>6, SMTT(60)
       DEF Tasklet, StartTasklet, TestList, DriveExpired, BeginDelete, EndDelete, lockVars
  <2>7. CASE \/ LockInsert \/ (\E k \in 0..Len(evQ) : Link(k)) \/ TestState \/ Restart
             \/ Arm \/ ArmUnready \/ MarkRun \/ CancelAndArm \/ LockRemove
             \/ UnlinkEmpty \/ StopEmpty
    BY <1>1, <2>1, <2>7, SMTT(60)
       DEF LockInsert, Link, TestState, Restart, Arm, ArmUnready, MarkRun,
           CancelAndArm, LockRemove, TakeListLock, UnlinkEmpty, StopEmpty, Crash,
           lockVars
  <2>8. CASE UNCHANGED vars
    BY <1>1, <2>8 DEF vars, lockVars
  <2> QED BY <1>1, <2>2, <2>3, <2>4, <2>5, <2>6, <2>7, <2>8 DEF Next, ListOp
<1>2. Control /\ Queues /\ [Next]_vars => [Fails => slot[cur] # "queued"]_vars
  BY <1>1
<1> QED BY <1>2, QueuesAreRight, PTL DEF Spec, FailsOnlyWhenGone
=============================================================================
