-------------------------- MODULE FsmPacketsProofs ---------------------------
(***************************************************************************)
(* Theorems about FsmPackets, for any CPUs, modules and lines: no wake-up of a *)
(* tasklet is lost; the runtime keeps the promise of ModuleLinks; on one CPU   *)
(* an ioctl sent before a packet is handled before it.                         *)
(***************************************************************************)
EXTENDS FsmPackets, TLAPS

Has(p, l) == Contains(tasklets[p], l) \/ Contains(batch[p], l)

\* What goes with the place a CPU is at.
Fits(r) ==
  /\ r.at = "idle" => r = Idle
  /\ r.at \in {"test", "remove", "end"} => r.line # None
  /\ r.at = "remove" => r.line.by = "ioctl"
  /\ r.at \in {"lock", "body", "kick"} => r.item # None
  /\ r.at = "kick" <=> r.kick # None

Shape == \A p \in Cpu : Fits(run[p])

\* A tasklet that is marked as scheduled waits on the list of a CPU.
Listed == \A l \in Line : sched[l] => \E p \in Cpu : Has(p, l)

\* A tasklet runs on one CPU at a time.
RunsOnce == \A p, q \in Cpu : run[p].line = run[q].line /\ run[p].line # None => p = q

\* While an ioctl is being served it is on its list.
Held ==
  \A p \in Cpu :
    run[p].line # None /\ run[p].line.by = "ioctl"
      /\ run[p].at \in {"lock", "body", "kick", "remove"} => queue[run[p].line] # <<>>

\* The inductive invariant behind Awake.
Inv == TypeOK /\ Shape /\ Listed /\ RunsOnce /\ Held /\ Awake

-----------------------------------------------------------------------------
(* Sequences: what appending adds and taking the head leaves.                *)

LEMMA AppendFacts ==
  ASSUME NEW S, NEW s \in Seq(S), NEW e \in S
  PROVE  /\ Append(s, e) \in Seq(S) /\ Append(s, e) # <<>>
         /\ Contains(Append(s, e), e)
         /\ \A x : Contains(s, x) => Contains(Append(s, e), x)
<1>1. /\ Append(s, e) \in Seq(S) /\ Len(Append(s, e)) = Len(s) + 1
      /\ Append(s, e)[Len(s) + 1] = e
      /\ \A i \in 1..Len(s) : Append(s, e)[i] = s[i]
  OBVIOUS
<1>2. Len(s) \in Nat
  OBVIOUS
<1> QED BY <1>1, <1>2 DEF Contains

LEMMA TailFacts ==
  ASSUME NEW S, NEW s \in Seq(S), s # <<>>
  PROVE  /\ Tail(s) \in Seq(S) /\ Head(s) \in S
         /\ Contains(s, Head(s))
         /\ \A x : Contains(s, x) => x = Head(s) \/ Contains(Tail(s), x)
<1>1. /\ Len(s) \in Nat /\ Len(s) >= 1 /\ Len(Tail(s)) = Len(s) - 1
      /\ \A i \in 1..(Len(s) - 1) : Tail(s)[i] = s[i + 1]
      /\ Head(s) = s[1] /\ Tail(s) \in Seq(S) /\ Head(s) \in S
  OBVIOUS
<1>2. ASSUME NEW x, NEW i \in 1..Len(s), s[i] = x, x # Head(s)
      PROVE  Contains(Tail(s), x)
  <2>1. i - 1 \in 1..Len(Tail(s)) /\ Tail(s)[i - 1] = x
    BY <1>1, <1>2
  <2> QED BY <2>1 DEF Contains
<1> QED BY <1>1, <1>2 DEF Contains

LEMMA EmptyHasNothing == ASSUME NEW x PROVE ~Contains(<<>>, x)
BY DEF Contains

-----------------------------------------------------------------------------
(* The order of the links.  Where the numbers sent on a line are: still to be  *)
(* taken from the queue, with a CPU, or begun.                               *)

\* While an ioctl is being handled it is still the head of its list.
Serves(r, l) == r.line = l /\ l.by = "ioctl" /\ r.at \in {"body", "kick", "remove"}
Todo(l) == IF \E p \in Cpu : Serves(run[p], l) THEN Tail(queue[l]) ELSE queue[l]

Nums(s) == {s[i].n : i \in DOMAIN s}
AtHand(r, l) == IF r.at = "lock" /\ r.item.line = l /\ l.by # "ioctl" THEN {r.item.n} ELSE {}
InBacklog(p, l) == {backlog[p][i].n : i \in {j \in DOMAIN backlog[p] : backlog[p][j].line = l}}
With(p, l) == AtHand(run[p], l) \cup InBacklog(p, l)
Done(l) == {begun[l][i] : i \in DOMAIN begun[l]}

Before(S, T) == \A x \in S, y \in T : x < y

\* Of the numbers up to N each is in one place, and those to be taken from the
\* queue are the last.
Placed(T, D, P, N) ==
  /\ 1..N = T \cup D \cup UNION {P[p] : p \in Cpu}
  /\ Before(D, T)
  /\ \A p \in Cpu : Before(P[p], T) /\ P[p] \cap D = {}
  /\ \A p, q \in Cpu : p # q => P[p] \cap P[q] = {}

\* x is the first of T, and U is the rest; CPU p gets x, or loses it.
Takes(T, U, x) == T = U \cup {x} /\ \A y \in U : x < y
Gets(P, Q, p, x) == Q[p] = P[p] \cup {x} /\ \A q \in Cpu : q # p => Q[q] = P[q]
Loses(P, Q, p, x) == x \in P[p] /\ Q[p] = P[p] \ {x} /\ \A q \in Cpu : q # p => Q[q] = P[q]

Holding(l) == [p \in Cpu |-> With(p, l)]
Placing(l) == Placed(Nums(Todo(l)), Done(l), Holding(l), sent[l])
AllPlaced == \A l \in Line : Placing(l)

\* A queue is in order, and is that of one line; no one queues on a wire.
Ascending(s) == \A i, j \in DOMAIN s : i < j => s[i].n < s[j].n
InQueues ==
  \A l \in Line :
    /\ Ascending(queue[l]) /\ \A i \in DOMAIN queue[l] : queue[l][i].line = l
    /\ Nums(queue[l]) \subseteq 1..sent[l]
    /\ l.by = "wire" => queue[l] = <<>>

\* A backlog is in order for each line; what a CPU has taken off it comes first.
Lined(s) ==
  /\ \A i \in DOMAIN s : s[i].line \in Line /\ s[i].line.by \in {"rx", "wire"}
  /\ \A i, j \in DOMAIN s : i < j /\ s[i].line = s[j].line => s[i].n < s[j].n
InBacklogs ==
  \A p \in Cpu : Lined(backlog[p]) /\ \A l \in Line : Before(AtHand(run[p], l), InBacklog(p, l))

\* What is at hand comes from the line whose tasklet runs, or from the backlog.
FromLine(r) ==
  r.at = "lock" =>
    /\ r.line # None =>
         /\ r.item.line = r.line /\ r.line.by \in {"tx", "ioctl"}
         /\ r.line.by = "ioctl" => r.item = Head(queue[r.line])
    /\ r.line = None /\ r.item.line # None => r.item.line.by \in {"rx", "wire"}
InHands == \A p \in Cpu : FromLine(run[p])

\* A line in order has begun its numbers one by one.
Counted == \A l \in InOrder : \A i \in DOMAIN begun[l] : begun[l][i] = i

\* Only CPUs that are online do anything.
Online ==
  \A p \in Cpu : p \notin setup.cpus =>
    run[p] = Idle /\ tasklets[p] = <<>> /\ batch[p] = <<>> /\ backlog[p] = <<>>

Locked == \A p \in Cpu : run[p].at \in {"body", "kick"} => owner[run[p].item.to] = p

Order == AllPlaced /\ InQueues /\ InBacklogs /\ InHands /\ Counted /\ Online /\ Locked

-----------------------------------------------------------------------------
(* Indications.                                                              *)

\* The tasklet of a line is about to look at its queue on CPU p.
Soon(p, l) == Contains(batch[p], l) \/ (run[p].line = l /\ run[p].at # "end")

\* i is an ioctl, u a packet up.
CanLead(i, u) ==
  i.line \in Line /\ i.line.by = "ioctl" /\ u.line \in Line /\ u.line.by = "rx"

\* u is on its queue, whose tasklet comes with that of i's or later.
Behind(p, i, u) ==
  /\ u.n \in Nums(Todo(u.line)) /\ Contains(tasklets[p], i.line)
  /\ ~Contains(batch[p], u.line) /\ run[p].line # u.line

Comes(p, i, u) ==
  \/ Contains(begun[i.line], i.n)
  \/ /\ i.n \in Nums(Todo(i.line))
     /\ ~Contains(begun[u.line], u.n) /\ u.n \notin AtHand(run[p], u.line) /\ u.n \in 1..sent[u.line]
     /\ Soon(p, i.line) \/ Behind(p, i, u)

\* A packet's handler and what it asked for.
AskedFor(p, i) ==
  /\ run[p].at \in {"body", "kick"} /\ InNetRx(p) /\ i.line \in Line /\ i.line.by = "ioctl"
  /\ \/ Contains(begun[i.line], i.n)
     \/ /\ i.n \in Nums(Todo(i.line))
        /\ Contains(tasklets[p], i.line) \/ run[p].kick = i.line
Asked(p) ==
  /\ run[p].item # None /\ InNetRx(p) => batch[p] = <<>>
  /\ run[p].asked # None => AskedFor(p, run[p].asked)

Leads(p) == Asked(p) /\ \A pair \in led : CanLead(pair[1], pair[2]) /\ Comes(p, pair[1], pair[2])

Indicated == \A p \in setup.cpus : setup.cpus = {p} => Leads(p)

-----------------------------------------------------------------------------
(* Sets of numbers.                                                          *)

\* Another number is sent: it is queued, or a CPU has it.
LEMMA NewInQueue ==
  ASSUME NEW T, NEW D, NEW P, NEW N \in Nat, Placed(T, D, P, N)
  PROVE  Placed(T \cup {N + 1}, D, P, N + 1)
<1>1. 1..(N + 1) = (1..N) \cup {N + 1}
  OBVIOUS
<1>2. \A x \in 1..N : x < N + 1
  OBVIOUS
<1>3. \A x : x \in D \/ (\E p \in Cpu : x \in P[p]) => x \in 1..N
  BY DEF Placed
<1>4. 1..(N + 1) = (T \cup {N + 1}) \cup D \cup UNION {P[p] : p \in Cpu}
  BY <1>1 DEF Placed
<1>5. Before(D, T \cup {N + 1}) /\ \A p \in Cpu : Before(P[p], T \cup {N + 1})
  BY <1>2, <1>3 DEF Placed, Before
<1> QED BY <1>4, <1>5 DEF Placed

LEMMA NewWithCpu ==
  ASSUME NEW D, NEW P, NEW Q, NEW N \in Nat, Placed({}, D, P, N), NEW p \in Cpu,
         Gets(P, Q, p, N + 1)
  PROVE  Placed({}, D, Q, N + 1)
<1> USE DEF Gets
<1>1. 1..(N + 1) = (1..N) \cup {N + 1} /\ N + 1 \notin 1..N
  OBVIOUS
<1>2. \A x : x \in D \/ (\E q \in Cpu : x \in P[q]) <=> x \in 1..N
  BY DEF Placed
<1>3. 1..(N + 1) = {} \cup D \cup UNION {Q[q] : q \in Cpu}
  <2>1. ASSUME NEW x PROVE x \in 1..(N + 1) <=> x \in D \/ \E q \in Cpu : x \in Q[q]
    BY <1>1, <1>2
  <2> QED BY <2>1
<1>4. \A q \in Cpu : Q[q] \cap D = {}
  BY <1>1, <1>2 DEF Placed
<1>5. ASSUME NEW q \in Cpu, NEW z \in Cpu, q # z PROVE Q[q] \cap Q[z] = {}
  BY <1>1, <1>2, <1>5 DEF Placed
<1> QED BY <1>3, <1>4, <1>5 DEF Placed, Before

\* The first of the queue goes to a CPU.
LEMMA QueueToCpu ==
  ASSUME NEW T, NEW U, NEW x, NEW D, NEW P, NEW Q, NEW N \in Nat, Placed(T, D, P, N), NEW p \in Cpu,
         Takes(T, U, x), Gets(P, Q, p, x)
  PROVE  Placed(U, D, Q, N)
<1> USE DEF Takes, Gets
<1>1. 1..N = U \cup D \cup UNION {Q[q] : q \in Cpu}
  <2>1. ASSUME NEW y PROVE y \in T \cup D \cup UNION {P[q] : q \in Cpu} <=>
                           y \in U \cup D \cup UNION {Q[q] : q \in Cpu}
    OBVIOUS
  <2> QED BY <2>1 DEF Placed
<1>2. \A y \in T : y \in Nat
  BY DEF Placed
<1>3. x \notin D /\ \A q \in Cpu : x \notin P[q]
  BY <1>2 DEF Placed, Before
<1>4. Before(D, U) /\ \A q \in Cpu : Before(Q[q], U) /\ Q[q] \cap D = {}
  BY <1>3 DEF Placed, Before
<1>5. ASSUME NEW q \in Cpu, NEW z \in Cpu, q # z PROVE Q[q] \cap Q[z] = {}
  BY <1>3, <1>5 DEF Placed
<1> QED BY <1>1, <1>4, <1>5 DEF Placed

\* What a CPU has is begun.
LEMMA CpuToDone ==
  ASSUME NEW T, NEW D, NEW P, NEW Q, NEW N \in Nat, Placed(T, D, P, N), NEW p \in Cpu, NEW x, Loses(P, Q, p, x)
  PROVE  Placed(T, D \cup {x}, Q, N)
<1> USE DEF Loses
<1>1. 1..N = T \cup (D \cup {x}) \cup UNION {Q[q] : q \in Cpu}
  <2>1. ASSUME NEW y PROVE y \in T \cup D \cup UNION {P[q] : q \in Cpu} <=>
                           y \in T \cup (D \cup {x}) \cup UNION {Q[q] : q \in Cpu}
    OBVIOUS
  <2> QED BY <2>1 DEF Placed
<1>2. \A q \in Cpu : Q[q] \subseteq P[q] /\ x \notin Q[q]
  BY DEF Placed
<1>3. Before(D \cup {x}, T)
  BY DEF Placed, Before
<1>4. \A q \in Cpu : Before(Q[q], T) /\ Q[q] \cap (D \cup {x}) = {}
  BY <1>2 DEF Placed, Before
<1>5. \A q, z \in Cpu : q # z => Q[q] \cap Q[z] = {}
  BY <1>2 DEF Placed
<1> QED BY <1>1, <1>3, <1>4, <1>5 DEF Placed

\* The first of the queue is begun.
LEMMA QueueToDone ==
  ASSUME NEW T, NEW U, NEW x, NEW D, NEW P, NEW N \in Nat, Placed(T, D, P, N),
         Takes(T, U, x)
  PROVE  Placed(U, D \cup {x}, P, N)
<1> USE DEF Takes
<1>1. 1..N = U \cup (D \cup {x}) \cup UNION {P[q] : q \in Cpu}
  BY DEF Placed
<1>2. \A y \in T : y \in Nat
  BY DEF Placed
<1>3. \A q \in Cpu : x \notin P[q]
  BY <1>2 DEF Placed, Before
<1> QED BY <1>1, <1>3 DEF Placed, Before

-----------------------------------------------------------------------------
(* Numbers in sequences.                                                     *)

LEMMA ItemNumber == \A i \in Item : i.n \in Nat
BY DEF Item

LEMMA NumsAppend ==
  ASSUME NEW s \in Seq(Item), NEW e \in Item
  PROVE  /\ Nums(Append(s, e)) = Nums(s) \cup {e.n}
         /\ Ascending(s) /\ (\A x \in Nums(s) : x < e.n) => Ascending(Append(s, e))
<1>1. /\ DOMAIN s = 1..Len(s) /\ DOMAIN Append(s, e) = 1..(Len(s) + 1) /\ Len(s) \in Nat
      /\ Append(s, e)[Len(s) + 1] = e /\ \A i \in 1..Len(s) : Append(s, e)[i] = s[i]
  OBVIOUS
<1>2. Nums(Append(s, e)) = Nums(s) \cup {e.n}
  BY <1>1 DEF Nums
<1>3. ASSUME Ascending(s), \A x \in Nums(s) : x < e.n, NEW i \in 1..(Len(s) + 1), NEW j \in 1..(Len(s) + 1), i < j
      PROVE  Append(s, e)[i].n < Append(s, e)[j].n
  <2>1. i \in 1..Len(s)
    BY <1>1, <1>3
  <2>2. CASE j \in 1..Len(s)
    BY <1>1, <1>3, <2>1, <2>2 DEF Ascending
  <2>3. CASE j = Len(s) + 1
    BY <1>1, <1>3, <2>1, <2>3 DEF Nums
  <2> QED BY <1>1, <2>2, <2>3
<1> QED BY <1>1, <1>2, <1>3 DEF Ascending

LEMMA NumsTail ==
  ASSUME NEW s \in Seq(Item), s # <<>>, Ascending(s)
  PROVE  /\ Nums(s) = Nums(Tail(s)) \cup {Head(s).n} /\ \A y \in Nums(Tail(s)) : Head(s).n < y
         /\ Ascending(Tail(s))
<1>1. /\ Len(s) \in Nat /\ Len(s) >= 1 /\ DOMAIN s = 1..Len(s) /\ DOMAIN Tail(s) = 1..(Len(s) - 1)
      /\ Head(s) = s[1] /\ \A i \in 1..(Len(s) - 1) : Tail(s)[i] = s[i + 1]
  OBVIOUS
<1>2. \A i \in 1..(Len(s) - 1) : i + 1 \in 1..Len(s)
  BY <1>1
<1>3. \A i \in 1..Len(s) : i = 1 \/ i - 1 \in 1..(Len(s) - 1)
  BY <1>1
<1>4. Nums(s) = Nums(Tail(s)) \cup {Head(s).n}
  <2>1. \A x : x \in Nums(s) <=> \E i \in 1..Len(s) : x = s[i].n
    BY <1>1 DEF Nums
  <2>2. \A x : x \in Nums(Tail(s)) <=> \E i \in 1..(Len(s) - 1) : x = Tail(s)[i].n
    BY <1>1 DEF Nums
  <2>3. \A i \in 1..Len(s) : i = 1 \/ s[i] = Tail(s)[i - 1]
    BY <1>1, <1>3
  <2>4. 1 \in 1..Len(s)
    BY <1>1
  <2>5. ASSUME NEW x, x \in Nums(s) PROVE x \in Nums(Tail(s)) \/ x = s[1].n
    <3>1. PICK i \in 1..Len(s) : x = s[i].n
      BY <2>1, <2>5
    <3>2. CASE i = 1
      BY <3>1, <3>2
    <3>3. CASE i # 1
      <4>1. i - 1 \in 1..(Len(s) - 1) /\ x = Tail(s)[i - 1].n
        BY <1>3, <2>3, <3>1, <3>3
      <4> QED BY <2>2, <4>1
    <3> QED BY <3>2, <3>3
  <2>6. ASSUME NEW x, x \in Nums(Tail(s)) \/ x = s[1].n PROVE x \in Nums(s)
    BY <1>1, <1>2, <2>1, <2>2, <2>4, <2>6
  <2> QED BY <1>1, <2>5, <2>6
<1>5. \A i \in 1..(Len(s) - 1) : s[1].n < s[i + 1].n
  <2> SUFFICES ASSUME NEW i \in 1..(Len(s) - 1) PROVE s[1].n < s[i + 1].n
    OBVIOUS
  <2>1. 1 < i + 1 /\ i + 1 \in DOMAIN s /\ 1 \in DOMAIN s
    BY <1>1, <1>2
  <2> QED BY <2>1 DEF Ascending
<1>6. Ascending(Tail(s))
  <2> SUFFICES ASSUME NEW i \in 1..(Len(s) - 1), NEW j \in 1..(Len(s) - 1), i < j PROVE Tail(s)[i].n < Tail(s)[j].n
    BY <1>1 DEF Ascending
  <2>1. i + 1 < j + 1 /\ i + 1 \in DOMAIN s /\ j + 1 \in DOMAIN s
    BY <1>1, <1>2
  <2>2. s[i + 1].n < s[j + 1].n
    BY <2>1 DEF Ascending
  <2> QED BY <1>1, <2>2
<1> QED BY <1>1, <1>4, <1>5, <1>6 DEF Nums

\* Under an entry that stays at the head, the rest grows with the queue.
LEMMA TailOfAppend ==
  ASSUME NEW s \in Seq(Item), s # <<>>, NEW e \in Item
  PROVE  Tail(Append(s, e)) = Append(Tail(s), e)
OBVIOUS

-----------------------------------------------------------------------------
(* Steps and the order.                                                      *)

LEMMA QueueTypes ==
  ASSUME TypeOK, NEW l \in Line
  PROVE  /\ queue[l] \in Seq(Item) /\ (queue[l] # <<>> => Tail(queue[l]) \in Seq(Item))
         /\ sent[l] \in Nat /\ begun[l] \in Seq(0..MaxItem)
BY DEF TypeOK

\* A number is in the backlog for what stands there.
LEMMA BacklogAppend ==
  ASSUME TypeOK, NEW p \in Cpu, NEW i \in Item, NEW l \in Line,
         backlog' = [backlog EXCEPT ![p] = Append(@, i)]
  PROVE  /\ InBacklog(p, l)' = InBacklog(p, l) \cup (IF i.line = l THEN {i.n} ELSE {})
         /\ \A q \in Cpu : q # p => InBacklog(q, l)' = InBacklog(q, l)
<1>1. /\ backlog[p] \in Seq(Item) /\ backlog'[p] = Append(backlog[p], i)
      /\ \A q \in Cpu : q # p => backlog'[q] = backlog[q]
  BY DEF TypeOK
<1> DEFINE s == backlog[p]
<1>2. /\ DOMAIN s = 1..Len(s) /\ DOMAIN Append(s, i) = 1..(Len(s) + 1) /\ Len(s) \in Nat
      /\ Append(s, i)[Len(s) + 1] = i /\ \A j \in 1..Len(s) : Append(s, i)[j] = s[j]
  BY <1>1
<1>3. \A j \in 1..(Len(s) + 1) : j \in 1..Len(s) \/ j = Len(s) + 1
  BY <1>2
<1>4. 1..Len(s) \subseteq 1..(Len(s) + 1) /\ Len(s) + 1 \in 1..(Len(s) + 1)
  BY <1>2
<1>5. \A x : x \in InBacklog(p, l)' <=> \E j \in 1..(Len(s) + 1) : Append(s, i)[j].line = l /\ x = Append(s, i)[j].n
  BY <1>1, <1>2 DEF InBacklog
<1>6. \A x : x \in InBacklog(p, l) <=> \E j \in 1..Len(s) : s[j].line = l /\ x = s[j].n
  BY <1>2 DEF InBacklog
<1> HIDE DEF s
<1>7. \A x : x \in InBacklog(p, l)' <=> x \in InBacklog(p, l) \/ (i.line = l /\ x = i.n)
  BY <1>2, <1>3, <1>4, <1>5, <1>6
<1> QED BY <1>1, <1>7 DEF InBacklog

LEMMA BacklogTail ==
  ASSUME TypeOK, InBacklogs, NEW p \in Cpu, backlog[p] # <<>>, NEW l \in Line,
         backlog' = [backlog EXCEPT ![p] = Tail(@)]
  PROVE  /\ Head(backlog[p]).line = l =>
              /\ InBacklog(p, l) = InBacklog(p, l)' \cup {Head(backlog[p]).n}
              /\ \A y \in InBacklog(p, l)' : Head(backlog[p]).n < y
         /\ Head(backlog[p]).line # l => InBacklog(p, l)' = InBacklog(p, l)
         /\ \A q \in Cpu : q # p => InBacklog(q, l)' = InBacklog(q, l)
<1>1. /\ backlog[p] \in Seq(Item) /\ backlog'[p] = Tail(backlog[p])
      /\ \A q \in Cpu : q # p => backlog'[q] = backlog[q]
  BY DEF TypeOK
<1> DEFINE s == backlog[p]
<1>2. /\ Len(s) \in Nat /\ Len(s) >= 1 /\ DOMAIN s = 1..Len(s) /\ DOMAIN Tail(s) = 1..(Len(s) - 1)
      /\ Head(s) = s[1] /\ \A i \in 1..(Len(s) - 1) : Tail(s)[i] = s[i + 1]
  BY <1>1
<1>3. /\ \A i \in 1..(Len(s) - 1) : i + 1 \in 1..Len(s) /\ 1 < i + 1
      /\ \A i \in 1..Len(s) : i = 1 \/ (i - 1 \in 1..(Len(s) - 1) /\ s[i] = Tail(s)[i - 1])
      /\ 1 \in 1..Len(s)
  BY <1>2
<1>4. \A x : x \in InBacklog(p, l)' <=> \E j \in 1..(Len(s) - 1) : Tail(s)[j].line = l /\ x = Tail(s)[j].n
  <2>1. InBacklog(p, l)' = {Tail(s)[j].n : j \in {k \in DOMAIN Tail(s) : Tail(s)[k].line = l}}
    BY <1>1 DEF InBacklog
  <2>2. DOMAIN Tail(s) = 1..(Len(s) - 1)
    BY <1>2
  <2> DEFINE t == Tail(s)
             d == 1..(Len(s) - 1)
  <2>3. InBacklog(p, l)' = {t[j].n : j \in {k \in d : t[k].line = l}}
    BY <2>1, <2>2
  <2> HIDE DEF t, d
  <2>4. \A x : x \in InBacklog(p, l)' <=> \E j \in d : t[j].line = l /\ x = t[j].n
    BY <2>3
  <2> QED BY <2>4 DEF t, d
<1>5. \A x : x \in InBacklog(p, l) <=> \E j \in 1..Len(s) : s[j].line = l /\ x = s[j].n
  BY <1>2 DEF InBacklog
<1>6. \A i \in 1..(Len(s) - 1) : s[1].line = s[i + 1].line => s[1].n < s[i + 1].n
  BY <1>2, <1>3 DEF InBacklogs, Lined
<1> HIDE DEF s
<1>7. \A x : x \in InBacklog(p, l) <=> x \in InBacklog(p, l)' \/ (s[1].line = l /\ x = s[1].n)
  <2>1. ASSUME NEW x, x \in InBacklog(p, l) PROVE x \in InBacklog(p, l)' \/ (s[1].line = l /\ x = s[1].n)
    <3>1. PICK j \in 1..Len(s) : s[j].line = l /\ x = s[j].n
      BY <1>5, <2>1
    <3>2. CASE j = 1
      BY <3>1, <3>2
    <3>3. CASE j # 1
      <4>1. j - 1 \in 1..(Len(s) - 1) /\ s[j] = Tail(s)[j - 1]
        BY <1>3, <3>3
      <4> QED BY <1>4, <3>1, <4>1
    <3> QED BY <3>2, <3>3
  <2>2. ASSUME NEW x, x \in InBacklog(p, l)' PROVE x \in InBacklog(p, l)
    <3>1. PICK j \in 1..(Len(s) - 1) : Tail(s)[j].line = l /\ x = Tail(s)[j].n
      BY <1>4, <2>2
    <3>2. j + 1 \in 1..Len(s) /\ Tail(s)[j] = s[j + 1]
      BY <1>2, <1>3
    <3> QED BY <1>5, <3>1, <3>2
  <2>3. ASSUME s[1].line = l PROVE s[1].n \in InBacklog(p, l)
    BY <1>3, <1>5, <2>3
  <2> QED BY <2>1, <2>2, <2>3
<1>8. s[1].line = l => \A y \in InBacklog(p, l)' : s[1].n < y
  BY <1>2, <1>3, <1>4, <1>6
<1>9. Head(backlog[p]) = s[1]
  BY <1>2 DEF s
<1>10. s[1].line = l => InBacklog(p, l) = InBacklog(p, l)' \cup {s[1].n}
  <2>1. ASSUME s[1].line = l, NEW x PROVE x \in InBacklog(p, l) <=> x \in InBacklog(p, l)' \cup {s[1].n}
    BY <1>7, <2>1
  <2> QED BY <2>1
<1>11. s[1].line # l => InBacklog(p, l)' = InBacklog(p, l)
  <2>1. ASSUME s[1].line # l, NEW x PROVE x \in InBacklog(p, l) <=> x \in InBacklog(p, l)'
    BY <1>7, <2>1
  <2> QED BY <2>1
<1>12. \A q \in Cpu : q # p => InBacklog(q, l)' = InBacklog(q, l)
  BY <1>1 DEF InBacklog
<1> QED BY <1>8, <1>9, <1>10, <1>11, <1>12

\* What a backlog holds stays in order.
LEMMA LinedTail ==
  ASSUME NEW s \in Seq(Item), Lined(s), s # <<>>
  PROVE  Lined(Tail(s))
<1>1. /\ Len(s) \in Nat /\ Len(s) >= 1 /\ DOMAIN s = 1..Len(s) /\ DOMAIN Tail(s) = 1..(Len(s) - 1)
      /\ \A i \in 1..(Len(s) - 1) : Tail(s)[i] = s[i + 1]
  OBVIOUS
<1>2. \A i \in 1..(Len(s) - 1) : i + 1 \in DOMAIN s
  BY <1>1
<1>3. \A i, j \in 1..(Len(s) - 1) : i < j => i + 1 < j + 1
  BY <1>1
<1>4. \A i \in 1..(Len(s) - 1) : Tail(s)[i].line \in Line /\ Tail(s)[i].line.by \in {"rx", "wire"}
  BY <1>1, <1>2 DEF Lined
<1>5. \A i, j \in 1..(Len(s) - 1) :
        i < j /\ Tail(s)[i].line = Tail(s)[j].line => Tail(s)[i].n < Tail(s)[j].n
  BY <1>1, <1>2, <1>3 DEF Lined
<1> QED BY <1>1, <1>4, <1>5 DEF Lined

LEMMA LinedAppend ==
  ASSUME NEW s \in Seq(Item), Lined(s), NEW e \in Item, e.line \in Line, e.line.by \in {"rx", "wire"},
         \A i \in DOMAIN s : s[i].line = e.line => s[i].n < e.n
  PROVE  Lined(Append(s, e))
<1>1. /\ Len(s) \in Nat /\ DOMAIN s = 1..Len(s) /\ DOMAIN Append(s, e) = 1..(Len(s) + 1)
      /\ \A i \in 1..Len(s) : Append(s, e)[i] = s[i]
      /\ Append(s, e)[Len(s) + 1] = e
  OBVIOUS
<1>2. \A i \in 1..(Len(s) + 1) : i \in DOMAIN s \/ i = Len(s) + 1
  BY <1>1
<1>3. \A i, j \in 1..(Len(s) + 1) : i < j => i \in DOMAIN s
  BY <1>1
<1>4. \A i \in 1..(Len(s) + 1) : Append(s, e)[i].line \in Line /\ Append(s, e)[i].line.by \in {"rx", "wire"}
  BY <1>1, <1>2 DEF Lined
<1>5. \A i, j \in 1..(Len(s) + 1) :
        i < j /\ Append(s, e)[i].line = Append(s, e)[j].line => Append(s, e)[i].n < Append(s, e)[j].n
  BY <1>1, <1>2, <1>3 DEF Lined
<1> QED BY <1>1, <1>4, <1>5 DEF Lined

-----------------------------------------------------------------------------
(* The types.                                                                *)

USE NoneAssumption, LineAssumption, SetupAssumption

LEMMA RunFacts ==
  ASSUME TypeOK, NEW p \in Cpu
  PROVE  /\ run[p].line # None => run[p].line \in Line
         /\ run[p].kick # None => run[p].kick \in Line
         /\ run[p].item # None =>
              /\ run[p].item \in Item
              /\ run[p].item.line # None => run[p].item.line \in Line
              /\ run[p].item.to \in Module /\ run[p].item.n \in 0..MaxItem
         /\ run[p] \in Run
BY DEF TypeOK, Run, Item

\* A step of one CPU leaves the others where they are.
LEMMA StepOfOne ==
  ASSUME TypeOK, Shape, NEW p \in Cpu, NEW r \in Run, Fits(r), Goes(p, r)
  PROVE  /\ run' \in [Cpu -> Run] /\ Shape'
         /\ run'[p] = r /\ \A q \in Cpu : q # p => run'[q] = run[q]
BY DEF TypeOK, Shape, Goes

LEMMA IdleFits == Idle \in Run /\ Fits(Idle)
BY DEF Idle, Run, Fits

LEMMA IdleFacts ==
  ASSUME TypeOK, Shape, NEW p \in Cpu, run[p].at = "idle"
  PROVE  /\ run[p] = Idle /\ run[p] \in Run
         /\ run[p].line = None /\ run[p].item = None /\ run[p].kick = None
<1>1. run[p] = Idle
  BY DEF Shape, Fits
<1> QED BY <1>1, IdleFits DEF Idle

\* A CPU that was idle begins to run a handler, or a tasklet.
LEMMA BeginsToHandle ==
  ASSUME TypeOK, Shape, NEW p \in Cpu, run[p].at = "idle", NEW i \in Item
  PROVE  LET r == [run[p] EXCEPT !.at = "lock", !.item = i]
         IN  r \in Run /\ Fits(r) /\ r.at = "lock" /\ r.line = None /\ r.kick = None
<1> DEFINE r == [run[p] EXCEPT !.at = "lock", !.item = i]
<1>1. r \in Run /\ r.at = "lock" /\ r.item = i /\ r.line = None /\ r.kick = None
  BY IdleFacts DEF Run
<1> QED BY <1>1 DEF Fits

LEMMA BeginsToServe ==
  ASSUME TypeOK, Shape, NEW p \in Cpu, run[p].at = "idle", NEW l \in Line
  PROVE  LET r == [run[p] EXCEPT !.at = "test", !.line = l]
         IN  r \in Run /\ Fits(r) /\ r.at = "test" /\ r.line = l /\ r.kick = None
<1> DEFINE r == [run[p] EXCEPT !.at = "test", !.line = l]
<1>1. r \in Run /\ r.at = "test" /\ r.line = l /\ r.kick = None
  BY IdleFacts DEF Run
<1> QED BY <1>1 DEF Fits

\* A CPU that runs a tasklet or a handler goes on.
LEMMA GoesOn ==
  ASSUME TypeOK, Shape, NEW p \in Cpu, NEW a \in {"test", "body", "end"},
         a \in {"test", "end"} => run[p].line # None,
         a = "body" => run[p].item # None, run[p].kick = None
  PROVE  LET r == [run[p] EXCEPT !.at = a]
         IN  r \in Run /\ Fits(r) /\ r.at = a /\ r.line = run[p].line /\ r.kick = None
<1> DEFINE r == [run[p] EXCEPT !.at = a]
<1>1. r \in Run /\ r.at = a /\ r.item = run[p].item /\ r.line = run[p].line
      /\ r.kick = run[p].kick
  BY RunFacts DEF Run
<1> QED BY <1>1 DEF Fits

LEMMA HandsOver ==
  ASSUME TypeOK, Shape, NEW p \in Cpu, run[p].at = "test", NEW i \in Item
  PROVE  LET r == [run[p] EXCEPT !.at = "lock", !.item = i]
         IN  r \in Run /\ Fits(r) /\ r.at = "lock" /\ r.line = run[p].line /\ r.kick = None
<1> DEFINE r == [run[p] EXCEPT !.at = "lock", !.item = i]
<1>1. run[p].kick = None
  BY DEF Shape, Fits
<1>2. run[p] \in Run
  BY RunFacts
<1>3. r \in Run
  BY <1>2 DEF Run
<1>4. r.at = "lock" /\ r.item = i /\ r.line = run[p].line /\ r.kick = None
  BY <1>1, <1>2 DEF Run
<1> QED BY <1>3, <1>4 DEF Fits

LEMMA Kicks ==
  ASSUME TypeOK, Shape, NEW p \in Cpu, run[p].at = "kick"
  PROVE  LET r == [run[p] EXCEPT !.at = "body", !.kick = None]
         IN  r \in Run /\ Fits(r) /\ r.at = "body" /\ r.line = run[p].line /\ r.kick = None
<1> DEFINE r == [run[p] EXCEPT !.at = "body", !.kick = None]
<1>1. run[p].item # None
  BY DEF Shape, Fits
<1>2. r \in Run /\ r.at = "body" /\ r.item = run[p].item /\ r.line = run[p].line
      /\ r.kick = None
  BY RunFacts DEF Run
<1> QED BY <1>1, <1>2 DEF Fits

LEMMA Returns ==
  ASSUME TypeOK, Shape, NEW p \in Cpu, run[p].at = "body"
  PROVE  LET l == run[p].line
             r == IF l = None THEN Idle
                  ELSE [Idle EXCEPT !.at = IF l.by = "ioctl" THEN "remove" ELSE "test",
                                    !.line = l]
         IN  /\ r \in Run /\ Fits(r) /\ r.line = l /\ r.kick = None /\ r.at # "end"
             /\ \/ l # None /\ l.by = "ioctl" /\ r.at = "remove"
                \/ r.at \in {"idle", "test"}
<1> DEFINE l == run[p].line
           a == IF l.by = "ioctl" THEN "remove" ELSE "test"
           r == [Idle EXCEPT !.at = a, !.line = l]
<1>1. CASE l = None
  BY <1>1, IdleFits DEF Idle
<1>2. CASE l # None
  <2>1. l \in Line
    BY <1>2, RunFacts
  <2>2. r \in Run /\ r.at = a /\ r.line = l /\ r.kick = None
    BY <2>1, IdleFits DEF Run, Idle
  <2>3. r.at \in {"test", "remove"} /\ (r.at = "remove" => l.by = "ioctl")
    BY <2>2
  <2>4. Fits(r)
    BY <1>2, <2>2, <2>3 DEF Fits
  <2> QED BY <1>2, <2>2, <2>3, <2>4
<1> QED BY <1>1, <1>2

-----------------------------------------------------------------------------
(* The inductive step.                                                       *)

\* A step that only changes what one CPU runs, not whose tasklet.
LEMMA OnlyRun ==
  ASSUME Inv, NEW p \in Cpu, NEW r \in Run, Fits(r), Goes(p, r),
         UNCHANGED <<queue, sched, tasklets, batch>>,
         r.line = run[p].line,
         run[p].kick # None => r.kick = run[p].kick,
         r.at = "end" => queue[r.line] = <<>>,
         r.line # None /\ r.line.by = "ioctl"
           /\ r.at \in {"lock", "body", "kick", "remove"} => queue[r.line] # <<>>
  PROVE  Shape' /\ run' \in [Cpu -> Run] /\ Listed' /\ RunsOnce' /\ Held' /\ Awake'
<1>1. /\ run' \in [Cpu -> Run] /\ Shape'
      /\ run'[p] = r /\ \A q \in Cpu : q # p => run'[q] = run[q]
  BY StepOfOne DEF Inv
<1>2. Listed'
  BY DEF Inv, Listed, Has
<1>3. \A q \in Cpu : run'[q].line = run[q].line
  BY <1>1
<1>4. RunsOnce'
  BY <1>3 DEF Inv, RunsOnce
<1>5. Held'
  BY <1>1 DEF Inv, Held
<1>6. ASSUME NEW l \in Line, queue'[l] # <<>>
      PROVE  \E q \in Cpu : \/ Contains(tasklets'[q], l) \/ Contains(batch'[q], l)
                            \/ run'[q].line = l /\ run'[q].at # "end"
                            \/ run'[q].kick = l
  <2>1. PICK q \in Cpu : \/ Contains(tasklets[q], l) \/ Contains(batch[q], l)
                         \/ run[q].line = l /\ run[q].at # "end"
                         \/ run[q].kick = l
    BY <1>6 DEF Inv, Awake
  <2>2. CASE q # p
    BY <1>1, <2>1, <2>2
  <2>3. CASE q = p
    <3>1. l # None
      OBVIOUS
    <3> QED BY <1>1, <1>6, <2>1, <2>3, <3>1
  <2> QED BY <2>2, <2>3
<1>7. Awake'
  BY <1>6 DEF Awake
<1> QED BY <1>1, <1>2, <1>4, <1>5, <1>7

LEMMA InvNetRx == ASSUME Inv, NEW p \in Cpu, NetRx(p) PROVE Inv'
<1> USE DEF NetRx
<1>1. TypeOK /\ Shape
  BY DEF Inv
<1>2. Tail(backlog[p]) \in Seq(Item) /\ Head(backlog[p]) \in Item
  BY <1>1, TailFacts DEF TypeOK
<1> DEFINE r == [run[p] EXCEPT !.at = "lock", !.item = Head(backlog[p])]
<1>3. r \in Run /\ Fits(r) /\ r.at = "lock" /\ r.line = None /\ r.kick = None
  BY <1>1, <1>2, BeginsToHandle
<1>4. run[p].line = None /\ run[p].kick = None
  BY <1>1, IdleFacts
<1> HIDE DEF r
<1>5. Goes(p, r)
  BY DEF r
<1>6. Shape' /\ run' \in [Cpu -> Run] /\ Listed' /\ RunsOnce' /\ Held' /\ Awake'
  BY <1>3, <1>4, <1>5, OnlyRun
<1>7. TypeOK'
  BY <1>1, <1>2, <1>6 DEF TypeOK
<1> QED BY <1>6, <1>7 DEF Inv

LEMMA InvBeginBatch == ASSUME Inv, NEW p \in Cpu, BeginBatch(p) PROVE Inv'
<1> USE DEF BeginBatch
<1>1. TypeOK' /\ Shape' /\ RunsOnce' /\ Held'
  BY DEF Inv, TypeOK, Shape, RunsOnce, Held
<1>2. ASSUME NEW q \in Cpu, NEW l \in Line, Has(q, l) PROVE Has(q, l)'
  <2>1. tasklets'[p] = <<>> /\ batch'[p] = tasklets[p] /\ batch[p] = <<>>
    BY DEF Inv, TypeOK
  <2>2. q # p => tasklets'[q] = tasklets[q] /\ batch'[q] = batch[q]
    BY DEF Inv, TypeOK
  <2> QED BY <1>2, <2>1, <2>2, EmptyHasNothing DEF Has
<1>3. Listed'
  BY <1>2 DEF Inv, Listed
<1>4. Awake'
  BY <1>2 DEF Inv, Awake, Has
<1> QED BY <1>1, <1>3, <1>4 DEF Inv

LEMMA InvPutBack == ASSUME Inv, NEW p \in Cpu, PutBack(p) PROVE Inv'
<1> USE DEF PutBack
<1> DEFINE h == Head(batch[p])
<1>1. /\ Tail(batch[p]) \in Seq(Line) /\ h \in Line
      /\ \A x : Contains(batch[p], x) => x = h \/ Contains(Tail(batch[p]), x)
  BY TailFacts DEF Inv, TypeOK
<1>2. /\ Append(tasklets[p], h) \in Seq(Line)
      /\ Contains(Append(tasklets[p], h), h)
      /\ \A x : Contains(tasklets[p], x) => Contains(Append(tasklets[p], h), x)
  BY <1>1, AppendFacts DEF Inv, TypeOK
<1>3. /\ tasklets'[p] = Append(tasklets[p], h) /\ batch'[p] = Tail(batch[p])
      /\ \A q \in Cpu : q # p => tasklets'[q] = tasklets[q] /\ batch'[q] = batch[q]
  BY DEF Inv, TypeOK
<1>4. TypeOK' /\ Shape' /\ RunsOnce' /\ Held'
  BY <1>1, <1>2 DEF Inv, TypeOK, Shape, RunsOnce, Held
<1>5. ASSUME NEW q \in Cpu, NEW l \in Line, Has(q, l) PROVE Has(q, l)'
  BY <1>1, <1>2, <1>3, <1>5 DEF Has
<1>6. Listed'
  BY <1>5 DEF Inv, Listed
<1>7. Awake'
  BY <1>5 DEF Inv, Awake, Has
<1> QED BY <1>4, <1>6, <1>7 DEF Inv

\* The tasklet leaves the list and runs.
LEMMA InvStartTasklet == ASSUME Inv, NEW p \in Cpu, StartTasklet(p) PROVE Inv'
<1> USE DEF StartTasklet
<1> DEFINE h == Head(batch[p])
           r == [run[p] EXCEPT !.at = "test", !.line = h]
<1>1. TypeOK /\ Shape
  BY DEF Inv
<1>2. /\ Tail(batch[p]) \in Seq(Line) /\ h \in Line
      /\ \A x : Contains(batch[p], x) => x = h \/ Contains(Tail(batch[p]), x)
  BY <1>1, TailFacts DEF TypeOK
<1> HIDE DEF h
<1>3. r \in Run /\ Fits(r) /\ r.at = "test" /\ r.line = h /\ r.kick = None
  BY <1>1, <1>2, BeginsToServe
<1>4. run[p].line = None /\ run[p].kick = None
  BY <1>1, IdleFacts
<1> HIDE DEF r
<1>5. Goes(p, r)
  BY DEF r, h
<1>6. /\ run' \in [Cpu -> Run] /\ Shape'
      /\ run'[p] = r /\ \A q \in Cpu : q # p => run'[q] = run[q]
  BY <1>1, <1>3, <1>5, StepOfOne
<1>7. TypeOK'
  BY <1>1, <1>2, <1>6 DEF TypeOK, h
<1>8. RunsOnce'
  BY <1>3, <1>4, <1>6 DEF Inv, RunsOnce, h
<1>9. Held'
  BY <1>3, <1>6 DEF Inv, Held
<1>10. ASSUME NEW q \in Cpu, NEW l \in Line, Has(q, l), l # h PROVE Has(q, l)'
  <2>1. /\ tasklets' = tasklets /\ batch'[p] = Tail(batch[p])
        /\ q # p => batch'[q] = batch[q]
    BY <1>1 DEF TypeOK
  <2> QED BY <1>2, <1>10, <2>1 DEF Has
<1>11. Listed'
  <2>1. ~sched'[h] /\ \A l \in Line : l # h => sched'[l] = sched[l]
    BY <1>1, <1>2 DEF TypeOK, h
  <2> QED BY <1>10, <2>1 DEF Inv, Listed
<1>12. Awake'
  <2> SUFFICES ASSUME NEW l \in Line, queue'[l] # <<>>
               PROVE  \E q \in Cpu : \/ Contains(tasklets'[q], l) \/ Contains(batch'[q], l)
                                     \/ run'[q].line = l /\ run'[q].at # "end"
                                     \/ run'[q].kick = l
    BY DEF Awake
  <2>1. CASE l = h
    BY <1>3, <1>6, <2>1
  <2>2. CASE l # h
    <3>1. PICK q \in Cpu : \/ Has(q, l)
                           \/ run[q].line = l /\ run[q].at # "end"
                           \/ run[q].kick = l
      BY DEF Inv, Awake, Has
    <3>2. l # None
      OBVIOUS
    <3> QED BY <1>4, <1>6, <1>10, <2>2, <3>1, <3>2 DEF Has
  <2> QED BY <2>1, <2>2
<1> QED BY <1>6, <1>7, <1>8, <1>9, <1>11, <1>12 DEF Inv

LEMMA InvEmpty == ASSUME Inv, NEW p \in Cpu, Empty(p) PROVE Inv'
<1> USE DEF Empty, cpuVars
<1>1. TypeOK /\ Shape
  BY DEF Inv
<1>2. run[p].line # None /\ run[p].kick = None
  BY <1>1 DEF Shape, Fits
<1> DEFINE r == [run[p] EXCEPT !.at = "end"]
<1>3. r \in Run /\ Fits(r) /\ r.at = "end" /\ r.line = run[p].line /\ r.kick = None
  BY <1>1, <1>2, GoesOn
<1> HIDE DEF r
<1>4. Goes(p, r)
  BY DEF r
<1>5. Shape' /\ run' \in [Cpu -> Run] /\ Listed' /\ RunsOnce' /\ Held' /\ Awake'
  BY <1>2, <1>3, <1>4, OnlyRun
<1>6. TypeOK'
  BY <1>1, <1>5 DEF TypeOK
<1> QED BY <1>5, <1>6 DEF Inv

LEMMA InvFinish == ASSUME Inv, NEW p \in Cpu, Finish(p) PROVE Inv'
<1> USE DEF Finish, cpuVars
<1>1. TypeOK /\ Shape
  BY DEF Inv
<1>2. run[p].kick = None
  BY <1>1 DEF Shape, Fits
<1>3. Idle \in Run /\ Fits(Idle) /\ Idle.line = None
  BY IdleFits DEF Idle
<1>4. /\ run' \in [Cpu -> Run] /\ Shape'
      /\ run'[p] = Idle /\ \A q \in Cpu : q # p => run'[q] = run[q]
  BY <1>1, <1>3, StepOfOne
<1>5. TypeOK' /\ Listed'
  BY <1>1, <1>4 DEF Inv, TypeOK, Listed, Has
<1>6. RunsOnce' /\ Held'
  BY <1>3, <1>4 DEF Inv, RunsOnce, Held
<1>7. Awake'
  <2> SUFFICES ASSUME NEW l \in Line, queue'[l] # <<>>
               PROVE  \E q \in Cpu : \/ Contains(tasklets'[q], l) \/ Contains(batch'[q], l)
                                     \/ run'[q].line = l /\ run'[q].at # "end"
                                     \/ run'[q].kick = l
    BY DEF Awake
  <2>1. PICK q \in Cpu : \/ Contains(tasklets[q], l) \/ Contains(batch[q], l)
                         \/ run[q].line = l /\ run[q].at # "end"
                         \/ run[q].kick = l
    BY DEF Inv, Awake
  <2>2. l # None
    OBVIOUS
  <2> QED BY <1>2, <1>4, <2>1, <2>2
<1> QED BY <1>4, <1>5, <1>6, <1>7 DEF Inv

\* A step of a running tasklet that takes the head off its queue.
LEMMA TakesHead ==
  ASSUME Inv, NEW p \in Cpu, NEW r \in Run, Fits(r), Goes(p, r),
         run[p].line \in Line, queue[run[p].line] # <<>>, run[p].at # "end",
         r.line = run[p].line, r.at \in {"lock", "test"}, r.kick = run[p].kick,
         r.at = "lock" => r.line.by # "ioctl",
         queue' = [queue EXCEPT ![run[p].line] = Tail(@)],
         UNCHANGED <<sched, tasklets, batch>>
  PROVE  /\ Shape' /\ run' \in [Cpu -> Run] /\ queue' \in [Line -> Seq(Item)]
         /\ Listed' /\ RunsOnce' /\ Held' /\ Awake'
<1> DEFINE l == run[p].line
<1>1. /\ run' \in [Cpu -> Run] /\ Shape'
      /\ run'[p] = r /\ \A q \in Cpu : q # p => run'[q] = run[q]
  BY StepOfOne DEF Inv
<1>2. queue \in [Line -> Seq(Item)] /\ Tail(queue[l]) \in Seq(Item)
  BY TailFacts DEF Inv, TypeOK
<1>3. queue' \in [Line -> Seq(Item)] /\ \A k \in Line : k # l => queue'[k] = queue[k]
  BY <1>2
<1>4. Listed' /\ RunsOnce'
  BY <1>1 DEF Inv, Listed, Has, RunsOnce
<1>5. Held'
  <2> SUFFICES ASSUME NEW q \in Cpu, run'[q].line # None, run'[q].line.by = "ioctl",
                      run'[q].at \in {"lock", "body", "kick", "remove"}
               PROVE  queue'[run'[q].line] # <<>>
    BY DEF Held
  <2>1. q # p
    BY <1>1
  <2>2. run[q].line # l /\ run[q].line \in Line /\ queue[run[q].line] # <<>>
    BY <1>1, <2>1, RunFacts DEF Inv, RunsOnce, Held
  <2> QED BY <1>1, <1>3, <2>1, <2>2
<1>6. Awake'
  <2> SUFFICES ASSUME NEW k \in Line, queue'[k] # <<>>
               PROVE  \E q \in Cpu : \/ Contains(tasklets'[q], k) \/ Contains(batch'[q], k)
                                     \/ run'[q].line = k /\ run'[q].at # "end"
                                     \/ run'[q].kick = k
    BY DEF Awake
  <2>1. CASE k = l
    BY <1>1, <2>1
  <2>2. CASE k # l
    <3>1. PICK q \in Cpu : \/ Contains(tasklets[q], k) \/ Contains(batch[q], k)
                           \/ run[q].line = k /\ run[q].at # "end"
                           \/ run[q].kick = k
      BY <1>3, <2>2 DEF Inv, Awake
    <3> QED BY <1>1, <2>2, <3>1
  <2> QED BY <2>1, <2>2
<1> QED BY <1>1, <1>3, <1>4, <1>5, <1>6

LEMMA InvPassUp == ASSUME Inv, NEW p \in Cpu, PassUp(p) PROVE Inv'
<1> USE DEF PassUp
<1> DEFINE l == run[p].line
<1>1. TypeOK /\ Shape
  BY DEF Inv
<1>2. l \in Line
  BY <1>1, RunFacts DEF Shape, Fits
<1>3. Tail(queue[l]) \in Seq(Item) /\ Head(queue[l]) \in Item
  BY <1>1, <1>2, TailFacts DEF TypeOK
<1>4. TypeOK'
  <2>1. Append(backlog[p], Head(queue[l])) \in Seq(Item)
    BY <1>1, <1>3 DEF TypeOK
  <2> QED BY <1>1, <1>2, <1>3, <2>1 DEF TypeOK
<1>5. run[p] \in Run /\ Fits(run[p]) /\ Goes(p, run[p])
  BY <1>1, RunFacts DEF Shape, TypeOK, Goes
<1>6. Shape' /\ Listed' /\ RunsOnce' /\ Held' /\ Awake'
  BY <1>2, <1>5, TakesHead
<1> QED BY <1>4, <1>6 DEF Inv

LEMMA InvPassDown == ASSUME Inv, NEW p \in Cpu, PassDown(p) PROVE Inv'
<1> USE DEF PassDown, cpuVars
<1> DEFINE l == run[p].line
           i == Head(queue[l])
           r == [run[p] EXCEPT !.at = "lock", !.item = i]
<1>1. TypeOK /\ Shape
  BY DEF Inv
<1>2. l \in Line /\ run[p].kick = None
  BY <1>1, RunFacts DEF Shape, Fits
<1>3. i \in Item
  BY <1>1, <1>2, TailFacts DEF TypeOK
<1>4. r \in Run /\ Fits(r) /\ r.at = "lock" /\ r.line = run[p].line /\ r.kick = None
  <2> HIDE DEF i
  <2> QED BY <1>1, <1>3, HandsOver
<1> HIDE DEF r
<1>5. Goes(p, r)
  BY DEF r
<1>6. /\ Shape' /\ run' \in [Cpu -> Run] /\ queue' \in [Line -> Seq(Item)]
      /\ Listed' /\ RunsOnce' /\ Held' /\ Awake'
  BY <1>2, <1>4, <1>5, TakesHead
<1>7. TypeOK'
  BY <1>1, <1>6 DEF TypeOK
<1> QED BY <1>6, <1>7 DEF Inv

LEMMA InvPassIoctl == ASSUME Inv, NEW p \in Cpu, PassIoctl(p) PROVE Inv'
<1> USE DEF PassIoctl, cpuVars
<1> DEFINE l == run[p].line
           i == Head(queue[l])
           r == [run[p] EXCEPT !.at = "lock", !.item = i]
<1>1. TypeOK /\ Shape
  BY DEF Inv
<1>2. l \in Line /\ run[p].kick = None
  BY <1>1, RunFacts DEF Shape, Fits
<1>3. i \in Item
  BY <1>1, <1>2, TailFacts DEF TypeOK
<1>4. r \in Run /\ Fits(r) /\ r.at = "lock" /\ r.line = run[p].line /\ r.kick = None
  <2> HIDE DEF i
  <2> QED BY <1>1, <1>3, HandsOver
<1> HIDE DEF r
<1>5. Goes(p, r)
  BY DEF r
<1>6. Shape' /\ run' \in [Cpu -> Run] /\ Listed' /\ RunsOnce' /\ Held' /\ Awake'
  BY <1>2, <1>4, <1>5, OnlyRun
<1>7. TypeOK'
  BY <1>1, <1>6 DEF TypeOK
<1> QED BY <1>6, <1>7 DEF Inv

LEMMA InvIoctlDone == ASSUME Inv, NEW p \in Cpu, IoctlDone(p) PROVE Inv'
<1> USE DEF IoctlDone, cpuVars
<1> DEFINE r == [run[p] EXCEPT !.at = "test"]
<1>1. TypeOK /\ Shape
  BY DEF Inv
<1>2. /\ run[p].line \in Line /\ run[p].line # None /\ run[p].line.by = "ioctl"
      /\ run[p].kick = None
  BY <1>1, RunFacts DEF Shape, Fits
<1>3. queue[run[p].line] # <<>>
  BY <1>2 DEF Inv, Held
<1>4. r \in Run /\ Fits(r) /\ r.at = "test" /\ r.line = run[p].line /\ r.kick = None
  BY <1>1, <1>2, GoesOn
<1> HIDE DEF r
<1>5. Goes(p, r)
  BY DEF r
<1>6. /\ Shape' /\ run' \in [Cpu -> Run] /\ queue' \in [Line -> Seq(Item)]
      /\ Listed' /\ RunsOnce' /\ Held' /\ Awake'
  BY <1>2, <1>3, <1>4, <1>5, TakesHead
<1>7. TypeOK'
  BY <1>1, <1>6 DEF TypeOK
<1> QED BY <1>6, <1>7 DEF Inv

LEMMA InvLock == ASSUME Inv, NEW p \in Cpu, Lock(p) PROVE Inv'
<1> USE DEF Lock, cpuVars
<1> DEFINE i == run[p].item
           r == [run[p] EXCEPT !.at = "body"]
<1>1. TypeOK /\ Shape
  BY DEF Inv
<1>2. i # None /\ run[p].kick = None
  BY <1>1 DEF Shape, Fits
<1>3. r \in Run /\ Fits(r) /\ r.at = "body" /\ r.line = run[p].line /\ r.kick = None
  BY <1>1, <1>2, GoesOn
<1> HIDE DEF r
<1>4. Goes(p, r)
  BY DEF r
<1>5. r.line # None /\ r.line.by = "ioctl" => queue[r.line] # <<>>
  BY <1>3 DEF Inv, Held
<1>6. Shape' /\ run' \in [Cpu -> Run] /\ Listed' /\ RunsOnce' /\ Held' /\ Awake'
  BY <1>2, <1>3, <1>4, <1>5, OnlyRun
<1>7. owner' \in [Module -> Cpu \cup {None}] /\ begun' \in [Line -> Seq(0..MaxItem)]
  <2>1. i.to \in Module /\ i.n \in 0..MaxItem /\ (i.line # None => i.line \in Line)
    BY <1>1, <1>2, RunFacts
  <2>2. i.line # None => Append(begun[i.line], i.n) \in Seq(0..MaxItem)
    BY <1>1, <2>1 DEF TypeOK
  <2> QED BY <1>1, <2>1, <2>2 DEF TypeOK
<1>8. TypeOK'
  BY <1>1, <1>6, <1>7 DEF TypeOK
<1> QED BY <1>6, <1>8 DEF Inv

LEMMA InvReturn == ASSUME Inv, NEW p \in Cpu, Return(p) PROVE Inv'
<1> USE DEF Return, cpuVars
<1> DEFINE l == run[p].line
           r == IF l = None THEN Idle
                ELSE [Idle EXCEPT !.at = IF l.by = "ioctl" THEN "remove" ELSE "test",
                                  !.line = l]
<1>1. TypeOK /\ Shape
  BY DEF Inv
<1>2. run[p].item # None /\ run[p].kick = None
  BY <1>1 DEF Shape, Fits
<1>3. /\ r \in Run /\ Fits(r) /\ r.line = l /\ r.kick = None /\ r.at # "end"
  BY <1>1, Returns
<1> HIDE DEF r
<1>4. Goes(p, r)
  BY DEF r
<1>5. r.line # None /\ r.line.by = "ioctl" => queue[r.line] # <<>>
  BY <1>3 DEF Inv, Held
<1>6. Shape' /\ run' \in [Cpu -> Run] /\ Listed' /\ RunsOnce' /\ Held' /\ Awake'
  BY <1>2, <1>3, <1>4, <1>5, OnlyRun
<1>7. owner' \in [Module -> Cpu \cup {None}]
  BY <1>1, <1>2, RunFacts DEF TypeOK
<1>8. TypeOK'
  BY <1>1, <1>6, <1>7 DEF TypeOK
<1> QED BY <1>6, <1>8 DEF Inv

LEMMA InvCall == ASSUME Inv, NEW p \in Cpu, NEW m \in Module, Call(p, m) PROVE Inv'
<1> USE DEF Call, cpuVars
<1> DEFINE i == [line |-> None, n |-> 0, to |-> m]
           r == [run[p] EXCEPT !.at = "lock", !.item = i]
<1>1. TypeOK /\ Shape
  BY DEF Inv
<1>2. i \in Item
  BY DEF Item
<1>3. r \in Run /\ Fits(r) /\ r.at = "lock" /\ r.line = None /\ r.kick = None
  <2> HIDE DEF i
  <2> QED BY <1>1, <1>2, BeginsToHandle
<1>4. run[p].line = None /\ run[p].kick = None
  BY <1>1, IdleFacts
<1> HIDE DEF r
<1>5. Goes(p, r)
  BY DEF r
<1>6. Shape' /\ run' \in [Cpu -> Run] /\ Listed' /\ RunsOnce' /\ Held' /\ Awake'
  BY <1>3, <1>4, <1>5, OnlyRun
<1>7. TypeOK'
  BY <1>1, <1>6 DEF TypeOK
<1> QED BY <1>6, <1>7 DEF Inv

LEMMA RoomFor ==
  ASSUME TypeOK, NEW l \in Line, sent[l] < setup.most[l]
  PROVE  sent[l] \in Nat /\ sent[l] + 1 \in 0..MaxItem
<1>1. setup.most[l] \in 0..MaxItem /\ MaxItem \in Nat
  BY SetupAssumption DEF TypeOK
<1> QED BY <1>1 DEF TypeOK

LEMMA InvArrive ==
  ASSUME Inv, NEW p \in Cpu, NEW l \in Line, NEW m \in Module, Arrive(p, l, m)
  PROVE  Inv'
<1> USE DEF Arrive, cpuVars
<1> DEFINE i == [line |-> l, n |-> sent[l] + 1, to |-> m]
<1>1. sent[l] + 1 \in 0..MaxItem /\ i \in Item
  BY RoomFor DEF Inv, TypeOK, Item
<1>2. Append(backlog[p], i) \in Seq(Item)
  <2> HIDE DEF i
  <2> QED BY <1>1 DEF Inv, TypeOK
<1>3. TypeOK'
  BY <1>1, <1>2 DEF Inv, TypeOK
<1> QED BY <1>3 DEF Inv, Shape, Listed, Has, RunsOnce, Held, Awake

\* A sender has queued and is about to schedule the tasklet.
LEMMA InvSend ==
  ASSUME Inv, NEW p \in Cpu, NEW l \in Line, NEW m \in Module, Send(p, l, m)
  PROVE  Inv'
<1> USE DEF Send, cpuVars
<1> DEFINE i == [line |-> l, n |-> sent[l] + 1, to |-> m]
           a == IF InNetRx(p) /\ l.by = "ioctl" THEN i ELSE run[p].asked
           r == [run[p] EXCEPT !.at = "kick", !.kick = l, !.asked = a]
<1>1. TypeOK /\ Shape
  BY DEF Inv
<1>2. run[p].kick = None
  BY <1>1 DEF Shape, Fits
<1>3. sent[l] + 1 \in 0..MaxItem /\ i \in Item
  BY <1>1, RoomFor DEF TypeOK, Item
<1>4. a \in Item \cup {None}
  BY <1>1, <1>3, RunFacts DEF Run
<1>5. r \in Run /\ Fits(r) /\ r.at = "kick" /\ r.line = run[p].line /\ r.kick = l
  <2>1. run[p].item # None /\ l # None /\ run[p] \in Run
    BY <1>1, RunFacts DEF Shape, Fits
  <2> HIDE DEF a, Send
  <2>2. r \in Run /\ r.at = "kick" /\ r.item = run[p].item /\ r.line = run[p].line
        /\ r.kick = l
    BY <1>4, <2>1 DEF Run
  <2> QED BY <2>1, <2>2 DEF Fits
<1>6. Goes(p, r)
  OBVIOUS
<1> HIDE DEF r, a, i
<1>7. /\ run' \in [Cpu -> Run] /\ Shape'
      /\ run'[p] = r /\ \A q \in Cpu : q # p => run'[q] = run[q]
  BY <1>1, <1>5, <1>6, StepOfOne
<1>8. Append(queue[l], i) \in Seq(Item) /\ Append(queue[l], i) # <<>>
  BY <1>1, <1>3, AppendFacts DEF TypeOK
<1>9. /\ queue' \in [Line -> Seq(Item)] /\ queue'[l] # <<>>
      /\ \A k \in Line : k # l => queue'[k] = queue[k]
  BY <1>1, <1>8 DEF TypeOK, i
<1>10. led' \subseteq Item \X Item
  <2>1. run[p].asked # None => run[p].asked \in Item
    BY <1>1, RunFacts DEF Run
  <2>2. led \subseteq Item \X Item
    BY <1>1 DEF TypeOK
  <2> QED BY <1>3, <2>1, <2>2 DEF i
<1>11. TypeOK'
  BY <1>1, <1>3, <1>7, <1>9, <1>10 DEF TypeOK
<1>12. Listed' /\ RunsOnce'
  BY <1>5, <1>7 DEF Inv, Listed, Has, RunsOnce
<1>13. Held'
  <2> SUFFICES ASSUME NEW q \in Cpu, run'[q].line # None, run'[q].line.by = "ioctl",
                      run'[q].at \in {"lock", "body", "kick", "remove"}
               PROVE  queue'[run'[q].line] # <<>>
    BY DEF Held
  <2>1. run[q].line = run'[q].line /\ run[q].at \in {"lock", "body", "kick", "remove"}
    BY <1>5, <1>7
  <2>2. run[q].line \in Line /\ queue[run[q].line] # <<>>
    BY <1>1, <2>1, RunFacts DEF Inv, Held
  <2> QED BY <1>9, <2>1, <2>2
<1>14. Awake'
  <2> SUFFICES ASSUME NEW k \in Line, queue'[k] # <<>>
               PROVE  \E q \in Cpu : \/ Contains(tasklets'[q], k) \/ Contains(batch'[q], k)
                                     \/ run'[q].line = k /\ run'[q].at # "end"
                                     \/ run'[q].kick = k
    BY DEF Awake
  <2>1. CASE k = l
    BY <1>5, <1>7, <2>1
  <2>2. CASE k # l
    <3>1. PICK q \in Cpu : \/ Contains(tasklets[q], k) \/ Contains(batch[q], k)
                           \/ run[q].line = k /\ run[q].at # "end"
                           \/ run[q].kick = k
      BY <1>9, <2>2 DEF Inv, Awake
    <3>2. k # None
      OBVIOUS
    <3> QED BY <1>2, <1>5, <1>7, <3>1, <3>2
  <2> QED BY <2>1, <2>2
<1> QED BY <1>7, <1>11, <1>12, <1>13, <1>14 DEF Inv

\* tasklet_schedule leaves the tasklet on a list, whether it was there or not.
LEMMA InvKick == ASSUME Inv, NEW p \in Cpu, Kick(p) PROVE Inv'
<1> USE DEF Kick
<1> DEFINE l == run[p].kick
           r == [run[p] EXCEPT !.at = "body", !.kick = None]
<1>1. TypeOK /\ Shape
  BY DEF Inv
<1>2. l \in Line
  BY <1>1, RunFacts DEF Shape, Fits
<1>3. r \in Run /\ Fits(r) /\ r.at = "body" /\ r.line = run[p].line /\ r.kick = None
  BY <1>1, Kicks
<1>4. Goes(p, r)
  OBVIOUS
<1> HIDE DEF r
<1>5. /\ run' \in [Cpu -> Run] /\ Shape'
      /\ run'[p] = r /\ \A q \in Cpu : q # p => run'[q] = run[q]
  BY <1>1, <1>3, <1>4, StepOfOne
<1>6. /\ Append(tasklets[p], l) \in Seq(Line)
      /\ Contains(Append(tasklets[p], l), l)
      /\ \A x : Contains(tasklets[p], x) => Contains(Append(tasklets[p], l), x)
  BY <1>1, <1>2, AppendFacts DEF TypeOK
<1>7. TypeOK'
  BY <1>1, <1>2, <1>5, <1>6 DEF TypeOK
<1>8. ASSUME NEW q \in Cpu, NEW k \in Line, Has(q, k) PROVE Has(q, k)'
  <2>1. CASE sched[l]
    BY <1>8, <2>1 DEF Has
  <2>2. CASE ~sched[l]
    <3>1. /\ tasklets'[p] = Append(tasklets[p], l) /\ batch' = batch
          /\ q # p => tasklets'[q] = tasklets[q]
      BY <1>1, <2>2 DEF TypeOK
    <3> QED BY <1>6, <1>8, <3>1 DEF Has
  <2> QED BY <2>1, <2>2
<1>9. \E q \in Cpu : Contains(tasklets'[q], l) \/ Contains(batch'[q], l)
  <2>1. CASE sched[l]
    <3>1. PICK q \in Cpu : Has(q, l)
      BY <1>2, <2>1 DEF Inv, Listed
    <3> QED BY <2>1, <3>1 DEF Has
  <2>2. CASE ~sched[l]
    <3>1. tasklets'[p] = Append(tasklets[p], l)
      BY <1>1, <2>2 DEF TypeOK
    <3> QED BY <1>6, <3>1
  <2> QED BY <2>1, <2>2
<1>10. Listed'
  <2> SUFFICES ASSUME NEW k \in Line, sched'[k] PROVE \E q \in Cpu : Has(q, k)'
    BY DEF Listed
  <2>1. CASE k = l
    BY <1>9, <2>1 DEF Has
  <2>2. CASE k # l
    <3>1. sched[k]
      BY <1>1, <2>2 DEF TypeOK
    <3> QED BY <1>8, <3>1 DEF Inv, Listed
  <2> QED BY <2>1, <2>2
<1>11. RunsOnce'
  BY <1>3, <1>5 DEF Inv, RunsOnce
<1>12. Held'
  BY <1>3, <1>5 DEF Inv, Held
<1>13. Awake'
  <2> SUFFICES ASSUME NEW k \in Line, queue'[k] # <<>>
               PROVE  \E q \in Cpu : \/ Contains(tasklets'[q], k) \/ Contains(batch'[q], k)
                                     \/ run'[q].line = k /\ run'[q].at # "end"
                                     \/ run'[q].kick = k
    BY DEF Awake
  <2>1. CASE k = l
    BY <1>9, <2>1
  <2>2. CASE k # l
    <3>1. PICK q \in Cpu : \/ Has(q, k)
                           \/ run[q].line = k /\ run[q].at # "end"
                           \/ run[q].kick = k
      BY DEF Inv, Awake, Has
    <3> QED BY <1>3, <1>5, <1>8, <2>2, <3>1 DEF Has
  <2> QED BY <2>1, <2>2
<1> QED BY <1>5, <1>7, <1>10, <1>11, <1>12, <1>13 DEF Inv

LEMMA InvInit == ASSUME Init PROVE Inv
<1> USE DEF Init
<1>1. Idle \in Run /\ Fits(Idle) /\ Idle.line = None
  BY IdleFits DEF Idle
<1>2. TypeOK
  BY <1>1 DEF TypeOK
<1>3. Shape
  BY <1>1 DEF Shape
<1>4. Listed /\ Awake
  BY DEF Listed, Awake
<1>5. RunsOnce /\ Held
  BY <1>1 DEF RunsOnce, Held
<1> QED BY <1>2, <1>3, <1>4, <1>5 DEF Inv

LEMMA InvStep == ASSUME Inv, [Next]_vars PROVE Inv'
<1>1. CASE UNCHANGED vars
  BY <1>1 DEF vars, cpuVars, Inv, TypeOK, Shape, Listed, Has, RunsOnce, Held, Awake
<1>2. ASSUME NEW p \in Cpu, Softirq(p) PROVE Inv'
  BY <1>2, InvNetRx, InvBeginBatch, InvPutBack, InvStartTasklet DEF Softirq
<1>3. ASSUME NEW p \in Cpu, Serve(p) PROVE Inv'
  BY <1>3, InvEmpty, InvFinish, InvPassUp, InvPassDown, InvPassIoctl, InvIoctlDone
     DEF Serve
<1> QED
  BY <1>1, <1>2, <1>3, InvLock, InvKick, InvReturn, InvSend, InvArrive, InvCall DEF Next

-----------------------------------------------------------------------------
(* For any number of CPUs, modules and lines: no wake-up of a tasklet is lost  *)
(* (fsm_pkt_send and fsm_do_ioctrl queue before tasklet_schedule; the tasklets *)
(* look at their queue until it is empty).                                     *)
THEOREM AlwaysAwake == Spec => []Awake
<1>1. Init => Inv
  BY InvInit
<1>2. Inv /\ [Next]_vars => Inv'
  BY InvStep
<1>3. Inv => Awake
  BY DEF Inv
<1> QED BY <1>1, <1>2, <1>3, PTL DEF Spec

(* The model's state is well formed, whatever the constants are.               *)
THEOREM TypeIsRight == Spec => []TypeOK
<1>1. Init => Inv
  BY InvInit
<1>2. Inv /\ [Next]_vars => Inv'
  BY InvStep
<1>3. Inv => TypeOK
  BY DEF Inv
<1> QED BY <1>1, <1>2, <1>3, PTL DEF Spec

-----------------------------------------------------------------------------
(* What steps leave alone.                                                   *)

LEMMA TodoSame ==
  ASSUME NEW l \in Line, queue'[l] = queue[l], NEW p \in Cpu, \A q \in Cpu : q # p => run'[q] = run[q],
         Serves(run'[p], l) <=> Serves(run[p], l)
  PROVE  Todo(l)' = Todo(l)
<1>1. \A q \in Cpu : Serves(run'[q], l) <=> Serves(run[q], l)
  OBVIOUS
<1> QED BY <1>1 DEF Todo

LEMMA PlacingSame ==
  ASSUME Order, NEW l \in Line, Todo(l)' = Todo(l), begun'[l] = begun[l], sent'[l] = sent[l],
         \A q \in Cpu : With(q, l)' = With(q, l)
  PROVE  Placing(l)'
<1>1. Holding(l)' = Holding(l)
  BY DEF Holding
<1>2. Done(l)' = Done(l)
  BY DEF Done
<1>3. Placing(l)
  BY DEF Order, AllPlaced
<1> QED BY <1>1, <1>2, <1>3 DEF Placing

LEMMA OnlineStays ==
  ASSUME Order, NEW p \in Cpu, p \in setup.cpus, setup' = setup,
         \A q \in Cpu : q # p => /\ run'[q] = run[q] /\ tasklets'[q] = tasklets[q]
                                 /\ batch'[q] = batch[q] /\ backlog'[q] = backlog[q]
  PROVE  Online'
BY DEF Order, Online

\* A CPU that does something is online.
LEMMA Active ==
  ASSUME Order, NEW p \in Cpu,
         run[p].at # "idle" \/ tasklets[p] # <<>> \/ batch[p] # <<>> \/ backlog[p] # <<>>
  PROVE  p \in setup.cpus
BY DEF Order, Online, Idle

LEMMA LockedStays ==
  ASSUME Order, NEW p \in Cpu, \A q \in Cpu : q # p => run'[q] = run[q], owner' = owner,
         run'[p].at \in {"body", "kick"} => run[p].at \in {"body", "kick"} /\ run'[p].item = run[p].item
  PROVE  Locked'
BY DEF Order, Locked

\* A step that moves no number.
LEMMA QuietOrder ==
  ASSUME Order, NEW p \in Cpu, \A q \in Cpu : q # p => run'[q] = run[q],
         UNCHANGED <<setup, sent, queue, backlog, begun>>,
         \A l \in Line : /\ AtHand(run'[p], l) = AtHand(run[p], l)
                         /\ Serves(run'[p], l) <=> Serves(run[p], l),
         FromLine(run[p])'
  PROVE  AllPlaced' /\ InQueues' /\ InBacklogs' /\ InHands' /\ Counted'
<1>1. ASSUME NEW l \in Line PROVE Placing(l)'
  <2>1. Todo(l)' = Todo(l)
    BY TodoSame
  <2>2. \A q \in Cpu : With(q, l)' = With(q, l)
    BY DEF With, InBacklog
  <2> QED BY <2>1, <2>2, PlacingSame
<1>2. InQueues'
  BY DEF Order, InQueues, Ascending, Nums
<1>3. InBacklogs'
  <2> SUFFICES ASSUME NEW q \in Cpu
               PROVE  Lined(backlog'[q]) /\ \A l \in Line : Before(AtHand(run'[q], l), InBacklog(q, l)')
    BY DEF InBacklogs
  <2>1. \A l \in Line : AtHand(run'[q], l) = AtHand(run[q], l) /\ InBacklog(q, l)' = InBacklog(q, l)
    BY DEF InBacklog
  <2> QED BY <2>1 DEF Order, InBacklogs
<1>4. InHands'
  BY DEF Order, InHands, FromLine
<1>5. Counted'
  BY DEF Order, Counted, InOrder, OneCpu
<1> QED BY <1>1, <1>2, <1>3, <1>4, <1>5 DEF AllPlaced

-----------------------------------------------------------------------------
(* The quiet steps.                                                          *)

\* A CPU not at "lock" has nothing at hand.
LEMMA NotAtHand ==
  ASSUME NEW r, r.at # "lock"
  PROVE  FromLine(r) /\ \A l \in Line : AtHand(r, l) = {}
BY DEF FromLine, AtHand

LEMMA NotServed ==
  ASSUME NEW r, r.at \notin {"body", "kick", "remove"}
  PROVE  \A l \in Line : ~Serves(r, l)
BY DEF Serves

LEMMA RunTail ==
  ASSUME TypeOK, NEW p \in Cpu, NEW r, run' = [run EXCEPT ![p] = r]
  PROVE  run'[p] = r /\ \A q \in Cpu : q # p => run'[q] = run[q]
BY DEF TypeOK

LEMMA OrderBeginBatch == ASSUME Inv, Order, NEW p \in Cpu, BeginBatch(p) PROVE Order'
<1> USE DEF BeginBatch
<1>1. p \in setup.cpus
  BY Active
<1>2. \A q \in Cpu : q # p => tasklets'[q] = tasklets[q] /\ batch'[q] = batch[q]
  BY DEF Inv, TypeOK
<1>3. Online'
  BY <1>1, <1>2, OnlineStays
<1>4. FromLine(run[p])'
  BY DEF Order, InHands, FromLine
<1>5. AllPlaced' /\ InQueues' /\ InBacklogs' /\ InHands' /\ Counted'
  BY <1>4, QuietOrder
<1>6. Locked'
  BY LockedStays
<1> QED BY <1>3, <1>5, <1>6 DEF Order

LEMMA OrderPutBack == ASSUME Inv, Order, NEW p \in Cpu, PutBack(p) PROVE Order'
<1> USE DEF PutBack
<1>1. p \in setup.cpus
  BY Active
<1>2. \A q \in Cpu : q # p => tasklets'[q] = tasklets[q] /\ batch'[q] = batch[q]
  BY DEF Inv, TypeOK
<1>3. Online'
  BY <1>1, <1>2, OnlineStays
<1>4. FromLine(run[p])'
  BY DEF Order, InHands, FromLine
<1>5. AllPlaced' /\ InQueues' /\ InBacklogs' /\ InHands' /\ Counted'
  BY <1>4, QuietOrder
<1>6. Locked'
  BY LockedStays
<1> QED BY <1>3, <1>5, <1>6 DEF Order

\* Between a place with nothing at hand and another.
LEMMA OrderBetween ==
  ASSUME Inv, Order, NEW p \in Cpu, NEW r, Goes(p, r), p \in setup.cpus,
         UNCHANGED <<setup, sent, queue, backlog, begun, owner>>,
         \A q \in Cpu : q # p => tasklets'[q] = tasklets[q] /\ batch'[q] = batch[q],
         run[p].at # "lock", r.at \notin {"lock", "remove"},
         \/ run[p].at \notin {"body", "kick", "remove"} /\ r.at \notin {"body", "kick"}
         \/ /\ run[p].at \in {"body", "kick"} /\ r.at \in {"body", "kick"}
            /\ r.line = run[p].line /\ r.item = run[p].item
  PROVE  Order'
<1>1. run'[p] = r /\ \A q \in Cpu : q # p => run'[q] = run[q]
  BY RunTail DEF Inv, Goes
<1>2. \A l \in Line : /\ AtHand(run'[p], l) = AtHand(run[p], l)
                      /\ Serves(run'[p], l) <=> Serves(run[p], l)
  BY <1>1, NotAtHand DEF Serves
<1>3. FromLine(run[p])'
  BY <1>1 DEF FromLine
<1>4. AllPlaced' /\ InQueues' /\ InBacklogs' /\ InHands' /\ Counted'
  BY <1>1, <1>2, <1>3, QuietOrder
<1>5. Online'
  BY <1>1, OnlineStays
<1>6. Locked'
  BY <1>1, LockedStays
<1> QED BY <1>4, <1>5, <1>6 DEF Order

LEMMA OrderStartTasklet == ASSUME Inv, Order, NEW p \in Cpu, StartTasklet(p) PROVE Order'
<1> DEFINE r == [run[p] EXCEPT !.at = "test", !.line = Head(batch[p])]
<1>1. p \in setup.cpus
  BY Active DEF StartTasklet
<1>2. r.at = "test"
  BY DEF Inv, TypeOK, Run
<1>3. /\ Goes(p, r) /\ UNCHANGED <<setup, sent, queue, backlog, begun, owner>> /\ run[p].at = "idle"
      /\ \A q \in Cpu : q # p => tasklets'[q] = tasklets[q] /\ batch'[q] = batch[q]
  BY DEF StartTasklet, Inv, TypeOK
<1> HIDE DEF r
<1> QED BY <1>1, <1>2, <1>3, OrderBetween

LEMMA OrderEmpty == ASSUME Inv, Order, NEW p \in Cpu, Empty(p) PROVE Order'
<1> DEFINE r == [run[p] EXCEPT !.at = "end"]
<1>1. p \in setup.cpus
  BY Active DEF Empty
<1>2. r.at = "end"
  BY DEF Inv, TypeOK, Run
<1>3. /\ Goes(p, r) /\ UNCHANGED <<setup, sent, queue, tasklets, batch, backlog, begun, owner>>
      /\ run[p].at = "test"
  BY DEF Empty, cpuVars
<1> HIDE DEF r
<1> QED BY <1>1, <1>2, <1>3, OrderBetween

LEMMA OrderFinish == ASSUME Inv, Order, NEW p \in Cpu, Finish(p) PROVE Order'
<1>1. p \in setup.cpus
  BY Active DEF Finish
<1>2. Idle.at = "idle"
  BY DEF Idle
<1>3. /\ Goes(p, Idle) /\ UNCHANGED <<setup, sent, queue, tasklets, batch, backlog, begun, owner>>
      /\ run[p].at = "end"
  BY DEF Finish, cpuVars
<1> QED BY <1>1, <1>2, <1>3, OrderBetween

LEMMA OrderKick == ASSUME Inv, Order, NEW p \in Cpu, Kick(p) PROVE Order'
<1> DEFINE r == [run[p] EXCEPT !.at = "body", !.kick = None]
<1>1. p \in setup.cpus
  BY Active DEF Kick
<1>2. r.at = "body" /\ r.line = run[p].line /\ r.item = run[p].item
  BY DEF Inv, TypeOK, Run
<1>3. /\ Goes(p, r) /\ UNCHANGED <<setup, sent, queue, batch, backlog, begun, owner>>
      /\ run[p].at = "kick"
      /\ \A q \in Cpu : q # p => tasklets'[q] = tasklets[q] /\ batch'[q] = batch[q]
  BY DEF Kick, Inv, TypeOK
<1> HIDE DEF r
<1> QED BY <1>1, <1>2, <1>3, OrderBetween

-----------------------------------------------------------------------------
(* Steps that take something from a queue.                                   *)

LEMMA OrderFacts == ASSUME Order, NEW l \in Line PROVE Placing(l)
BY DEF Order, AllPlaced

\* The first of a queue.
LEMMA FirstOf ==
  ASSUME Inv, Order, NEW l \in Line, queue[l] # <<>>
  PROVE  /\ Head(queue[l]) \in Item /\ Head(queue[l]).line = l /\ Head(queue[l]).n \in Nums(queue[l])
         /\ Nums(queue[l]) = Nums(Tail(queue[l])) \cup {Head(queue[l]).n}
         /\ \A y \in Nums(Tail(queue[l])) : Head(queue[l]).n < y
<1>1. queue[l] \in Seq(Item) /\ Ascending(queue[l])
  BY DEF Inv, TypeOK, Order, InQueues
<1>2. 1 \in DOMAIN queue[l] /\ Head(queue[l]) = queue[l][1] /\ Head(queue[l]) \in Item
  BY <1>1
<1>3. Head(queue[l]).line = l
  BY <1>2 DEF Order, InQueues
<1> QED BY <1>1, <1>2, <1>3, NumsTail

LEMMA TakenFromQueue ==
  ASSUME Inv, Order, NEW l \in Line, queue[l] # <<>>, queue' = [queue EXCEPT ![l] = Tail(@)], sent' = sent
  PROVE  /\ InQueues' /\ queue'[l] = Tail(queue[l]) /\ \A k \in Line : k # l => queue'[k] = queue[k]
<1>1. queue'[l] = Tail(queue[l]) /\ \A k \in Line : k # l => queue'[k] = queue[k]
  BY DEF Inv, TypeOK
<1>2. queue[l] \in Seq(Item) /\ Ascending(queue[l]) /\ Nums(queue[l]) \subseteq 1..sent[l] /\ l.by # "wire"
      /\ \A i \in DOMAIN queue[l] : queue[l][i].line = l
  BY DEF Inv, TypeOK, Order, InQueues
<1>3. Ascending(Tail(queue[l])) /\ Nums(Tail(queue[l])) \subseteq 1..sent[l]
  BY <1>2, NumsTail
<1>4. \A i \in DOMAIN Tail(queue[l]) : Tail(queue[l])[i].line = l
  <2>1. \A i \in DOMAIN Tail(queue[l]) : i + 1 \in DOMAIN queue[l] /\ Tail(queue[l])[i] = queue[l][i + 1]
    BY <1>2
  <2> QED BY <1>2, <2>1
<1>5. ASSUME NEW k \in Line
      PROVE  /\ Ascending(queue'[k]) /\ \A i \in DOMAIN queue'[k] : queue'[k][i].line = k
             /\ Nums(queue'[k]) \subseteq 1..sent'[k]
             /\ k.by = "wire" => queue'[k] = <<>>
  <2>1. CASE k = l
    BY <1>1, <1>2, <1>3, <1>4, <2>1
  <2>2. CASE k # l
    BY <1>1, <2>2 DEF Order, InQueues
  <2> QED BY <2>1, <2>2
<1>6. \A k \in Line : Nums(queue[k])' = Nums(queue'[k]) /\ (Ascending(queue[k])' <=> Ascending(queue'[k]))
  BY DEF Nums, Ascending
<1> QED BY <1>1, <1>5, <1>6 DEF InQueues

\* Only an ioctl is served while it is on its list.
LEMMA TodoIsQueue ==
  ASSUME NEW l \in Line, l.by # "ioctl"
  PROVE  Todo(l) = queue[l] /\ Todo(l)' = queue'[l]
BY DEF Todo, Serves

\* What waits in a backlog has not come by another kind of line.
LEMMA BacklogKinds ==
  ASSUME Inv, Order, NEW p \in Cpu, NEW l \in Line, l.by \in {"tx", "ioctl"}
  PROVE  InBacklog(p, l) = {}
BY DEF Order, InBacklogs, Lined, InBacklog

LEMMA WithNumbers ==
  ASSUME Inv, Order, NEW p \in Cpu, NEW l \in Line
  PROVE  /\ With(p, l) \subseteq 1..sent[l] /\ Before(With(p, l), Nums(Todo(l)))
         /\ With(p, l) \cap Done(l) = {} /\ Nums(Todo(l)) \cup Done(l) \subseteq 1..sent[l]
<1>1. Placed(Nums(Todo(l)), Done(l), Holding(l), sent[l])
  BY OrderFacts DEF Placing
<1>2. Holding(l)[p] = With(p, l)
  BY DEF Holding
<1> QED BY <1>1, <1>2 DEF Placed

LEMMA OrderNetRx == ASSUME Inv, Order, NEW p \in Cpu, NetRx(p) PROVE Order'
<1> DEFINE h == Head(backlog[p])
           r == [run[p] EXCEPT !.at = "lock", !.item = h]
<1>1. p \in setup.cpus
  BY Active DEF NetRx
<1>2. /\ backlog[p] \in Seq(Item) /\ backlog[p] # <<>> /\ Lined(backlog[p])
      /\ h = backlog[p][1] /\ 1 \in DOMAIN backlog[p] /\ h \in Item
  BY DEF NetRx, Inv, TypeOK, Order, InBacklogs
<1>3. h.line \in Line /\ h.line.by \in {"rx", "wire"}
  BY <1>2 DEF Lined
<1>4. r.at = "lock" /\ r.item = h /\ r.line = None
  BY IdleFacts DEF NetRx, Inv, Run
<1>5. /\ run'[p] = r /\ \A q \in Cpu : q # p => run'[q] = run[q] /\ backlog'[q] = backlog[q]
      /\ run[p].at = "idle" /\ backlog'[p] = Tail(backlog[p])
      /\ UNCHANGED <<setup, sent, queue, sched, tasklets, batch, owner, begun, led>>
  BY DEF NetRx, Goes, Inv, TypeOK
<1> HIDE DEF r
<1>6. \A l \in Line : AtHand(r, l) = IF h.line = l THEN {h.n} ELSE {}
  BY <1>3, <1>4 DEF AtHand
<1> HIDE DEF h
<1>7. ASSUME NEW l \in Line
      PROVE  /\ With(p, l)' = With(p, l) /\ \A q \in Cpu : q # p => With(q, l)' = With(q, l)
             /\ Before(AtHand(run'[p], l), InBacklog(p, l)')
  <2>1. /\ h.line = l => /\ InBacklog(p, l) = InBacklog(p, l)' \cup {h.n}
                         /\ \A y \in InBacklog(p, l)' : h.n < y
        /\ h.line # l => InBacklog(p, l)' = InBacklog(p, l)
        /\ \A q \in Cpu : q # p => InBacklog(q, l)' = InBacklog(q, l)
    BY BacklogTail DEF Inv, Order, NetRx, h
  <2>2. AtHand(run[p], l) = {}
    BY <1>5, NotAtHand
  <2> QED BY <1>5, <1>6, <2>1, <2>2 DEF With, Before
<1>8. AllPlaced'
  <2> SUFFICES ASSUME NEW l \in Line PROVE Placing(l)'
    BY DEF AllPlaced
  <2>1. Todo(l)' = Todo(l)
    <3>1. Serves(run'[p], l) <=> Serves(run[p], l)
      BY <1>4, <1>5 DEF Serves
    <3> QED BY <1>5, <3>1, TodoSame
  <2> QED BY <1>5, <1>7, <2>1, PlacingSame
<1>9. InQueues'
  BY <1>5 DEF Order, InQueues, Ascending, Nums
<1>10. InBacklogs'
  <2> SUFFICES ASSUME NEW q \in Cpu
               PROVE  Lined(backlog'[q]) /\ \A l \in Line : Before(AtHand(run'[q], l), InBacklog(q, l)')
    BY DEF InBacklogs
  <2>1. CASE q = p
    BY <1>2, <1>5, <1>7, <2>1, LinedTail
  <2>2. CASE q # p
    <3>1. run'[q] = run[q] /\ backlog'[q] = backlog[q] /\ \A l \in Line : InBacklog(q, l)' = InBacklog(q, l)
      BY <1>5, <2>2 DEF InBacklog
    <3> QED BY <3>1 DEF Order, InBacklogs
  <2> QED BY <2>1, <2>2
<1>11. InHands'
  <2> SUFFICES ASSUME NEW q \in Cpu PROVE FromLine(run[q])'
    BY DEF InHands
  <2>1. CASE q = p
    BY <1>3, <1>4, <1>5, <2>1 DEF FromLine
  <2>2. CASE q # p
    BY <1>5, <2>2 DEF Order, InHands, FromLine
  <2> QED BY <2>1, <2>2
<1>12. Counted'
  BY <1>5 DEF Order, Counted, InOrder, OneCpu
<1>13. Online'
  BY <1>1, <1>5, OnlineStays
<1>14. Locked'
  BY <1>4, <1>5, LockedStays
<1> QED BY <1>8, <1>9, <1>10, <1>11, <1>12, <1>13, <1>14 DEF Order

LEMMA OrderPassUp == ASSUME Inv, Order, NEW p \in Cpu, PassUp(p) PROVE Order'
<1>0. PICK l \in Line : l = run[p].line /\ l.by = "rx" /\ queue[l] # <<>> /\ run[p].at = "test"
  BY RunFacts DEF PassUp, Inv, Shape, Fits
<1>h. PICK h \in Item : h = Head(queue[l])
  BY <1>0, FirstOf
<1>1. /\ p \in setup.cpus /\ l.by = "rx" /\ queue[l] # <<>> /\ run[p].at = "test" /\ run[p].line = l
      /\ queue' = [queue EXCEPT ![l] = Tail(@)] /\ backlog' = [backlog EXCEPT ![p] = Append(@, h)]
      /\ UNCHANGED <<setup, sent, sched, tasklets, batch, run, owner, begun, led>>
  BY <1>0, <1>h, Active DEF PassUp
<1>2. /\ h \in Item /\ h.line = l /\ h.n \in Nums(queue[l])
      /\ Nums(queue[l]) = Nums(Tail(queue[l])) \cup {h.n}
      /\ \A y \in Nums(Tail(queue[l])) : h.n < y
  BY <1>1, <1>h, FirstOf
<1>3. InQueues' /\ queue'[l] = Tail(queue[l]) /\ \A k \in Line : k # l => queue'[k] = queue[k]
  BY <1>1, TakenFromQueue
<1>4. /\ backlog[p] \in Seq(Item) /\ backlog'[p] = Append(backlog[p], h)
      /\ \A q \in Cpu : q # p => backlog'[q] = backlog[q]
  BY <1>1 DEF Inv, TypeOK
<1>5. \A k \in Line : /\ InBacklog(p, k)' = InBacklog(p, k) \cup (IF h.line = k THEN {h.n} ELSE {})
                      /\ \A q \in Cpu : q # p => InBacklog(q, k)' = InBacklog(q, k)
  <2> TAKE k \in Line
  <2>1. TypeOK /\ backlog' = [backlog EXCEPT ![p] = Append(@, h)]
    BY <1>1 DEF Inv
  <2> QED BY <2>1, BacklogAppend
<1>6. \A k \in Line : AtHand(run[p], k) = {}
  BY <1>1, NotAtHand
<1>7. Todo(l) = queue[l] /\ Todo(l)' = Tail(queue[l])
  BY <1>1, <1>3, TodoIsQueue
<1>8. Placing(l)'
  <2>1. Placed(Nums(queue[l]), Done(l), Holding(l), sent[l])
    BY <1>1, <1>7, OrderFacts DEF Placing
  <2>2. /\ Holding(l)'[p] = Holding(l)[p] \cup {h.n}
        /\ \A q \in Cpu : q # p => Holding(l)'[q] = Holding(l)[q]
    BY <1>1, <1>2, <1>5 DEF Holding, With
  <2>3. sent[l] \in Nat
    BY <1>1, QueueTypes DEF Inv
  <2> DEFINE D == Done(l)
             P == Holding(l)
             Q == Holding(l)'
             T == Nums(queue[l])
             U == Nums(Tail(queue[l]))
             x == h.n
             N == sent[l]
  <2> HIDE DEF D, P, Q, T, U, x, N
  <2>4. Placed(T, D, P, N) /\ N \in Nat /\ Takes(T, U, x) /\ Gets(P, Q, p, x)
    BY <1>2, <2>1, <2>2, <2>3 DEF D, P, Q, T, U, x, N, Takes, Gets
  <2>5. Placed(U, D, Q, N)
    BY <2>4, QueueToCpu
  <2>6. D' = D /\ N' = N
    BY <1>1 DEF D, N, Done
  <2>7. Nums(Todo(l))' = U
    BY <1>7 DEF U, Nums
  <2> QED BY <2>5, <2>6, <2>7 DEF Placing, D, Q, N
<1>9. AllPlaced'
  <2> SUFFICES ASSUME NEW k \in Line PROVE Placing(k)'
    BY DEF AllPlaced
  <2>1. CASE k = l
    BY <1>8, <2>1
  <2>2. CASE k # l
    <3>1. Todo(k)' = Todo(k)
      BY <1>1, <1>3, <2>2, TodoSame
    <3>2. \A q \in Cpu : With(q, k)' = With(q, k)
      BY <1>1, <1>2, <1>5, <2>2 DEF With
    <3> QED BY <1>1, <3>1, <3>2, PlacingSame
  <2> QED BY <2>1, <2>2
<1>10. InBacklogs'
  <2> SUFFICES ASSUME NEW q \in Cpu
               PROVE  Lined(backlog'[q]) /\ \A k \in Line : Before(AtHand(run'[q], k), InBacklog(q, k)')
    BY DEF InBacklogs
  <2>1. CASE q = p
    <3>1. \A i \in DOMAIN backlog[p] : backlog[p][i].line = h.line => backlog[p][i].n < h.n
      <4>1. Before(With(p, l), Nums(queue[l]))
        BY <1>1, <1>7, WithNumbers
      <4> QED BY <1>2, <4>1 DEF With, InBacklog, Before
    <3>2. Lined(Append(backlog[p], h))
      BY <1>1, <1>2, <1>4, <3>1, LinedAppend DEF Order, InBacklogs
    <3> QED BY <1>1, <1>4, <1>6, <2>1, <3>2 DEF Before
  <2>2. CASE q # p
    <3>1. run'[q] = run[q] /\ backlog'[q] = backlog[q] /\ \A k \in Line : InBacklog(q, k)' = InBacklog(q, k)
      BY <1>1, <1>4, <1>5, <2>2
    <3> QED BY <3>1 DEF Order, InBacklogs
  <2> QED BY <2>1, <2>2
<1>11. InHands'
  <2> SUFFICES ASSUME NEW q \in Cpu PROVE FromLine(run[q])'
    BY DEF InHands
  <2>1. FromLine(run[q]) /\ run'[q] = run[q]
    BY <1>1 DEF Order, InHands
  <2>2. run[q].line # None /\ run[q].line.by = "ioctl" => queue'[run[q].line] = queue[run[q].line]
    BY <1>1, <1>3, RunFacts DEF Inv
  <2> QED BY <2>1, <2>2 DEF FromLine
<1>12. Counted' /\ Locked'
  BY <1>1 DEF Order, Counted, InOrder, OneCpu, Locked
<1>13. Online'
  BY <1>1, <1>4, OnlineStays
<1> QED BY <1>3, <1>9, <1>10, <1>11, <1>12, <1>13 DEF Order

LEMMA OrderPassDown == ASSUME Inv, Order, NEW p \in Cpu, PassDown(p) PROVE Order'
<1>0. PICK l \in Line : l = run[p].line /\ l.by = "tx" /\ queue[l] # <<>> /\ run[p].at = "test"
  BY RunFacts DEF PassDown, Inv, Shape, Fits
<1>h. PICK h \in Item : h = Head(queue[l])
  BY <1>0, FirstOf
<1> DEFINE r == [run[p] EXCEPT !.at = "lock", !.item = h]
<1>1. /\ p \in setup.cpus /\ l.by = "tx" /\ queue[l] # <<>> /\ run[p].at = "test" /\ run[p].line = l
      /\ queue' = [queue EXCEPT ![l] = Tail(@)] /\ Goes(p, r)
      /\ UNCHANGED <<setup, sent, sched, tasklets, batch, backlog, owner, begun, led>>
  BY <1>0, <1>h, Active DEF PassDown, cpuVars
<1>2. r.at = "lock" /\ r.item = h /\ r.line = l
  BY <1>0 DEF Inv, TypeOK, Run
<1> HIDE DEF r
<1>3. /\ h \in Item /\ h.line = l /\ h.n \in Nums(queue[l])
      /\ Nums(queue[l]) = Nums(Tail(queue[l])) \cup {h.n}
      /\ \A y \in Nums(Tail(queue[l])) : h.n < y
  BY <1>1, <1>h, FirstOf
<1>4. InQueues' /\ queue'[l] = Tail(queue[l]) /\ \A k \in Line : k # l => queue'[k] = queue[k]
  BY <1>1, TakenFromQueue
<1>5. run'[p] = r /\ \A q \in Cpu : q # p => run'[q] = run[q]
  BY <1>1, RunTail DEF Inv, Goes
<1>6. \A k \in Line : AtHand(run[p], k) = {} /\ AtHand(r, k) = IF k = l THEN {h.n} ELSE {}
  BY <1>1, <1>2, <1>3, NotAtHand DEF AtHand
<1>7. Todo(l) = queue[l] /\ Todo(l)' = Tail(queue[l])
  BY <1>1, <1>4, TodoIsQueue
<1>8. \A q \in Cpu, k \in Line : InBacklog(q, k)' = InBacklog(q, k)
  BY <1>1 DEF InBacklog
<1>9. Placing(l)'
  <2>1. Placed(Nums(queue[l]), Done(l), Holding(l), sent[l])
    BY <1>1, <1>7, OrderFacts DEF Placing
  <2>2. /\ Holding(l)'[p] = Holding(l)[p] \cup {h.n}
        /\ \A q \in Cpu : q # p => Holding(l)'[q] = Holding(l)[q]
    BY <1>1, <1>5, <1>6, <1>8 DEF Holding, With
  <2>3. sent[l] \in Nat
    BY <1>1, QueueTypes DEF Inv
  <2> DEFINE D == Done(l)
             P == Holding(l)
             Q == Holding(l)'
             T == Nums(queue[l])
             U == Nums(Tail(queue[l]))
             x == h.n
             N == sent[l]
  <2> HIDE DEF D, P, Q, T, U, x, N
  <2>4. Placed(T, D, P, N) /\ N \in Nat /\ Takes(T, U, x) /\ Gets(P, Q, p, x)
    BY <1>3, <2>1, <2>2, <2>3 DEF D, P, Q, T, U, x, N, Takes, Gets
  <2>5. Placed(U, D, Q, N)
    BY <2>4, QueueToCpu
  <2>6. D' = D /\ N' = N
    BY <1>1 DEF D, N, Done
  <2>7. Nums(Todo(l))' = U
    BY <1>7 DEF U, Nums
  <2> QED BY <2>5, <2>6, <2>7 DEF Placing, D, Q, N
<1>10. AllPlaced'
  <2> SUFFICES ASSUME NEW k \in Line PROVE Placing(k)'
    BY DEF AllPlaced
  <2>1. CASE k = l
    BY <1>9, <2>1
  <2>2. CASE k # l
    <3>1. Todo(k)' = Todo(k)
      <4>1. Serves(run'[p], k) <=> Serves(run[p], k)
        BY <1>1, <1>2, <1>5, NotServed
      <4> QED BY <1>4, <1>5, <2>2, <4>1, TodoSame
    <3>2. \A q \in Cpu : With(q, k)' = With(q, k)
      BY <1>5, <1>6, <1>8, <2>2 DEF With
    <3> QED BY <1>1, <3>1, <3>2, PlacingSame
  <2> QED BY <2>1, <2>2
<1>11. InBacklogs'
  <2> SUFFICES ASSUME NEW q \in Cpu
               PROVE  Lined(backlog'[q]) /\ \A k \in Line : Before(AtHand(run'[q], k), InBacklog(q, k)')
    BY DEF InBacklogs
  <2>1. CASE q = p
    <3>1. InBacklog(p, l)' = {}
      BY <1>1, <1>8, BacklogKinds
    <3> QED BY <1>1, <1>5, <1>6, <2>1, <3>1 DEF Before, Order, InBacklogs
  <2>2. CASE q # p
    <3>1. run'[q] = run[q] /\ backlog'[q] = backlog[q] /\ \A k \in Line : InBacklog(q, k)' = InBacklog(q, k)
      BY <1>1, <1>5, <1>8, <2>2
    <3> QED BY <3>1 DEF Order, InBacklogs
  <2> QED BY <2>1, <2>2
<1>12. InHands'
  <2> SUFFICES ASSUME NEW q \in Cpu PROVE FromLine(run[q])'
    BY DEF InHands
  <2>1. CASE q = p
    BY <1>1, <1>2, <1>3, <1>5, <2>1 DEF FromLine
  <2>2. CASE q # p
    <3>1. FromLine(run[q]) /\ run'[q] = run[q]
      BY <1>5, <2>2 DEF Order, InHands
    <3>2. run[q].line # None /\ run[q].line.by = "ioctl" => queue'[run[q].line] = queue[run[q].line]
      BY <1>1, <1>4, RunFacts DEF Inv
    <3> QED BY <3>1, <3>2 DEF FromLine
  <2> QED BY <2>1, <2>2
<1>13. Counted'
  BY <1>1 DEF Order, Counted, InOrder, OneCpu
<1>14. Online'
  BY <1>1, <1>5, OnlineStays
<1>15. Locked'
  BY <1>1, <1>2, <1>5, LockedStays
<1> QED BY <1>4, <1>10, <1>11, <1>12, <1>13, <1>14, <1>15 DEF Order

-----------------------------------------------------------------------------
(* The other steps of a tasklet and of a handler.                            *)

LEMMA OrderPassIoctl == ASSUME Inv, Order, NEW p \in Cpu, PassIoctl(p) PROVE Order'
<1>1. PICK l \in Line : l = run[p].line /\ l.by = "ioctl" /\ queue[l] # <<>> /\ run[p].at = "test"
  BY RunFacts DEF PassIoctl, Inv, Shape, Fits
<1>2. PICK h \in Item : h = Head(queue[l]) /\ h.line = l
  BY <1>1, FirstOf
<1> DEFINE r == [run[p] EXCEPT !.at = "lock", !.item = h]
<1>3. /\ p \in setup.cpus /\ Goes(p, r)
      /\ UNCHANGED <<setup, sent, queue, sched, tasklets, batch, backlog, owner, begun, led>>
  BY <1>1, <1>2, Active DEF PassIoctl, cpuVars
<1>4. r.at = "lock" /\ r.item = h /\ r.line = l
  BY <1>1 DEF Inv, TypeOK, Run
<1> HIDE DEF r
<1>5. run'[p] = r /\ \A q \in Cpu : q # p => run'[q] = run[q]
  BY <1>3, RunTail DEF Inv, Goes
<1>6. \A k \in Line : /\ AtHand(run'[p], k) = AtHand(run[p], k)
                      /\ Serves(run'[p], k) <=> Serves(run[p], k)
  BY <1>1, <1>2, <1>4, <1>5 DEF AtHand, Serves
<1>7. FromLine(run[p])'
  BY <1>1, <1>2, <1>3, <1>4, <1>5 DEF FromLine
<1>8. AllPlaced' /\ InQueues' /\ InBacklogs' /\ InHands' /\ Counted'
  BY <1>3, <1>5, <1>6, <1>7, QuietOrder
<1>9. Online'
  BY <1>3, <1>5, OnlineStays
<1>10. Locked'
  BY <1>3, <1>4, <1>5, LockedStays
<1> QED BY <1>8, <1>9, <1>10 DEF Order

\* What an ioctl's tasklet takes off its list has been begun before.
LEMMA OrderIoctlDone == ASSUME Inv, Order, NEW p \in Cpu, IoctlDone(p) PROVE Order'
<1>1. PICK l \in Line : l = run[p].line /\ l.by = "ioctl" /\ queue[l] # <<>> /\ run[p].at = "remove"
  BY RunFacts DEF IoctlDone, Inv, Shape, Fits, Held
<1> DEFINE r == [run[p] EXCEPT !.at = "test"]
<1>2. /\ p \in setup.cpus /\ Goes(p, r) /\ queue' = [queue EXCEPT ![l] = Tail(@)]
      /\ UNCHANGED <<setup, sent, sched, tasklets, batch, backlog, owner, begun, led>>
  BY <1>1, Active DEF IoctlDone, cpuVars
<1>3. r.at = "test" /\ r.line = l
  BY <1>1 DEF Inv, TypeOK, Run
<1> HIDE DEF r
<1>4. run'[p] = r /\ \A q \in Cpu : q # p => run'[q] = run[q]
  BY <1>2, RunTail DEF Inv, Goes
<1>5. InQueues' /\ queue'[l] = Tail(queue[l]) /\ \A k \in Line : k # l => queue'[k] = queue[k]
  BY <1>1, <1>2, TakenFromQueue
<1>6. \A q \in Cpu : q # p => run[q].line # l
  BY <1>1, NoneAssumption DEF Inv, RunsOnce
<1>7. ASSUME NEW k \in Line PROVE Todo(k)' = Todo(k)
  <2>1. CASE k = l
    <3>1. Serves(run[p], l) /\ \A q \in Cpu : ~Serves(run'[q], l)
      BY <1>1, <1>3, <1>4, <1>6 DEF Serves
    <3> QED BY <1>5, <2>1, <3>1 DEF Todo
  <2>2. CASE k # l
    <3>1. Serves(run'[p], k) <=> Serves(run[p], k)
      BY <1>1, <1>3, <1>4, <2>2 DEF Serves
    <3> QED BY <1>4, <1>5, <2>2, <3>1, TodoSame
  <2> QED BY <2>1, <2>2
<1>8. \A k \in Line, q \in Cpu : AtHand(run'[q], k) = AtHand(run[q], k)
  BY <1>1, <1>3, <1>4, NotAtHand
<1>9. \A k \in Line, q \in Cpu : InBacklog(q, k)' = InBacklog(q, k)
  BY <1>2 DEF InBacklog
<1>10. AllPlaced'
  <2> SUFFICES ASSUME NEW k \in Line PROVE Placing(k)'
    BY DEF AllPlaced
  <2>1. \A q \in Cpu : With(q, k)' = With(q, k)
    BY <1>8, <1>9 DEF With
  <2> QED BY <1>2, <1>7, <2>1, PlacingSame
<1>11. InBacklogs'
  BY <1>2, <1>8, <1>9 DEF Order, InBacklogs
<1>12. InHands'
  <2> SUFFICES ASSUME NEW q \in Cpu PROVE FromLine(run[q])'
    BY DEF InHands
  <2>1. CASE q = p
    BY <1>3, <1>4, <2>1 DEF FromLine
  <2>2. CASE q # p
    <3>1. FromLine(run[q]) /\ run'[q] = run[q]
      BY <1>4, <2>2 DEF Order, InHands
    <3>2. run[q].line # None => queue'[run[q].line] = queue[run[q].line]
      BY <1>5, <1>6, <2>2, RunFacts DEF Inv
    <3> QED BY <3>1, <3>2 DEF FromLine
  <2> QED BY <2>1, <2>2
<1>13. Counted'
  BY <1>2 DEF Order, Counted, InOrder, OneCpu
<1>14. Online'
  BY <1>2, <1>4, OnlineStays
<1>15. Locked'
  BY <1>2, <1>3, <1>4, LockedStays
<1> QED BY <1>5, <1>10, <1>11, <1>12, <1>13, <1>14, <1>15 DEF Order

LEMMA OrderReturn == ASSUME Inv, Order, NEW p \in Cpu, Return(p) PROVE Order'
<1> DEFINE l == run[p].line
           r == IF l = None THEN Idle
                ELSE [Idle EXCEPT !.at = IF l.by = "ioctl" THEN "remove" ELSE "test", !.line = l]
<1>1. /\ p \in setup.cpus /\ Goes(p, r) /\ run[p].at = "body"
      /\ owner' = [owner EXCEPT ![run[p].item.to] = None]
      /\ UNCHANGED <<setup, sent, queue, sched, tasklets, batch, backlog, begun, led>>
  BY Active DEF Return, cpuVars
<1>2. r.at \notin {"lock", "body", "kick"} /\ r.line = l /\ (r.at = "remove" <=> l # None /\ l.by = "ioctl")
  BY DEF Idle
<1> HIDE DEF r
<1>3. run'[p] = r /\ \A q \in Cpu : q # p => run'[q] = run[q]
  BY <1>1, RunTail DEF Inv, Goes
<1>4. \A k \in Line : /\ AtHand(run'[p], k) = AtHand(run[p], k)
                      /\ Serves(run'[p], k) <=> Serves(run[p], k)
  BY <1>1, <1>2, <1>3, NoneAssumption DEF AtHand, Serves
<1>5. FromLine(run[p])'
  BY <1>2, <1>3 DEF FromLine
<1>6. AllPlaced' /\ InQueues' /\ InBacklogs' /\ InHands' /\ Counted'
  BY <1>1, <1>3, <1>4, <1>5, QuietOrder
<1>7. Online'
  BY <1>1, <1>3, OnlineStays
<1>8. Locked'
  <2> SUFFICES ASSUME NEW q \in Cpu, run'[q].at \in {"body", "kick"} PROVE owner'[run'[q].item.to] = q
    BY DEF Locked
  <2>1. q # p /\ run'[q] = run[q]
    BY <1>2, <1>3
  <2>2. owner[run[q].item.to] = q /\ owner[run[p].item.to] = p
    BY <1>1, <2>1 DEF Order, Locked
  <2>3. run[q].item.to \in Module
    BY <2>1, RunFacts DEF Inv, Shape, Fits
  <2> QED BY <1>1, <2>1, <2>2, <2>3 DEF Inv, TypeOK
<1> QED BY <1>6, <1>7, <1>8 DEF Order

LEMMA OrderCall == ASSUME Inv, Order, NEW p \in Cpu, NEW m \in Module, Call(p, m) PROVE Order'
<1> DEFINE r == [run[p] EXCEPT !.at = "lock", !.item = [line |-> None, n |-> 0, to |-> m]]
<1>1. /\ p \in setup.cpus /\ Goes(p, r) /\ run[p].at = "idle"
      /\ UNCHANGED <<setup, sent, queue, sched, tasklets, batch, backlog, owner, begun, led>>
  BY DEF Call, cpuVars
<1>2. r.at = "lock" /\ r.line = None /\ r.item.line = None
  BY <1>1, IdleFacts DEF Inv, Run
<1> HIDE DEF r
<1>3. run'[p] = r /\ \A q \in Cpu : q # p => run'[q] = run[q]
  BY <1>1, RunTail DEF Inv, Goes
<1>4. \A k \in Line : /\ AtHand(run'[p], k) = AtHand(run[p], k)
                      /\ Serves(run'[p], k) <=> Serves(run[p], k)
  BY <1>1, <1>2, <1>3, NoneAssumption DEF AtHand, Serves
<1>5. FromLine(run[p])'
  BY <1>2, <1>3 DEF FromLine
<1>6. AllPlaced' /\ InQueues' /\ InBacklogs' /\ InHands' /\ Counted'
  BY <1>1, <1>3, <1>4, <1>5, QuietOrder
<1>7. Online'
  BY <1>1, <1>3, OnlineStays
<1>8. Locked'
  BY <1>1, <1>2, <1>3, LockedStays
<1> QED BY <1>6, <1>7, <1>8 DEF Order

-----------------------------------------------------------------------------
(* A handler begins.                                                         *)

LEMMA NumberPlaces ==
  ASSUME Inv, Order, NEW l \in Line
  PROVE  /\ \A n \in 1..sent[l] : n \in Nums(Todo(l)) \/ n \in Done(l) \/ \E q \in Cpu : n \in With(q, l)
         /\ Before(Done(l), Nums(Todo(l))) /\ Nums(Todo(l)) \subseteq 1..sent[l]
<1>1. Placed(Nums(Todo(l)), Done(l), Holding(l), sent[l])
  BY OrderFacts DEF Placing
<1>2. \A q \in Cpu : Holding(l)[q] = With(q, l)
  BY DEF Holding
<1> QED BY <1>1, <1>2 DEF Placed

\* Where the item of a CPU at "lock" stood, by kind of line.
LEMMA AtLock ==
  ASSUME Inv, Order, NEW p \in Cpu, run[p].at = "lock", NEW l \in Line, run[p].item.line = l
  PROVE  /\ run[p].item \in Item
         /\ l.by # "ioctl" => AtHand(run[p], l) = {run[p].item.n}
         /\ l.by = "ioctl" => /\ run[p].line = l /\ queue[l] # <<>> /\ run[p].item = Head(queue[l])
                              /\ Todo(l) = queue[l]
         /\ l.by \in {"tx", "ioctl"} => run[p].line = l
<1>1. run[p].item \in Item
  BY RunFacts DEF Inv, Shape, Fits
<1>2. l.by # "ioctl" => AtHand(run[p], l) = {run[p].item.n}
  BY DEF AtHand
<1>3. l.by \in {"tx", "ioctl"} => run[p].line = l
  BY NoneAssumption DEF Order, InHands, FromLine
<1>4. ASSUME l.by = "ioctl" PROVE queue[l] # <<>> /\ run[p].item = Head(queue[l]) /\ Todo(l) = queue[l]
  <2>1. run[p].line = l
    BY <1>3, <1>4
  <2>2. run[p].item = Head(queue[l])
    BY <1>4, <2>1, NoneAssumption DEF Order, InHands, FromLine
  <2>3. queue[l] # <<>>
    BY <1>4, <2>1, NoneAssumption DEF Inv, Held
  <2>4. \A q \in Cpu : ~Serves(run[q], l)
    BY <2>1, NoneAssumption DEF Inv, RunsOnce, Serves
  <2> QED BY <2>2, <2>3, <2>4 DEF Todo
<1> QED BY <1>1, <1>2, <1>3, <1>4

\* On a line in order it is the next.
LEMMA NextToBegin ==
  ASSUME Inv, Order, NEW p \in Cpu, run[p].at = "lock", NEW l \in InOrder, run[p].item.line = l
  PROVE  run[p].item.n = Len(begun[l]) + 1
<1> DEFINE x == run[p].item.n
           m == Len(begun[l]) + 1
<1>1. /\ l \in Line /\ l.by \in {"rx", "tx", "ioctl", "wire"}
      /\ begun[l] \in Seq(0..MaxItem) /\ sent[l] \in Nat /\ queue[l] \in Seq(Item)
  BY LineAssumption DEF InOrder, Inv, TypeOK
<1>a. /\ l.by # "ioctl" => x \in AtHand(run[p], l) /\ x \in With(p, l)
      /\ l.by = "ioctl" => queue[l] # <<>> /\ x = Head(queue[l]).n /\ Todo(l) = queue[l]
  <2>1. /\ l.by # "ioctl" => AtHand(run[p], l) = {x}
        /\ l.by = "ioctl" => queue[l] # <<>> /\ run[p].item = Head(queue[l]) /\ Todo(l) = queue[l]
    BY <1>1, AtLock
  <2> QED BY <2>1 DEF With
<1>2. Done(l) = 1..Len(begun[l])
  <2>1. DOMAIN begun[l] = 1..Len(begun[l])
    BY <1>1
  <2> QED BY <2>1 DEF Done, Order, Counted
<1>3. x \in 1..sent[l] /\ x \notin Done(l)
  <2>1. CASE l.by # "ioctl"
    <3>1. x \in With(p, l)
      BY <1>a, <2>1
    <3> QED BY <1>1, <3>1, WithNumbers
  <2>2. CASE l.by = "ioctl"
    <3>1. x \in Nums(Todo(l))
      BY <1>1, <1>a, <2>2, FirstOf
    <3>2. x \in 1..sent[l] /\ Before(Done(l), Nums(Todo(l)))
      BY <1>1, <3>1, NumberPlaces
    <3>3. ASSUME x \in Done(l) PROVE FALSE
      <4>1. x < x
        BY <3>1, <3>2, <3>3 DEF Before
      <4> QED BY <3>2, <4>1
    <3> QED BY <3>2, <3>3
  <2> QED BY <2>1, <2>2
<1>4. Len(begun[l]) \in Nat /\ x \in Nat /\ x >= m
  BY <1>1, <1>2, <1>3
<1>5. ASSUME x > m PROVE FALSE
  <2>1. m \in 1..sent[l] /\ m \notin Done(l)
    BY <1>1, <1>2, <1>3, <1>4, <1>5
  <2>2. CASE m \in Nums(Todo(l))
    <3>1. CASE l.by # "ioctl"
      <4>1. x \in With(p, l)
        BY <1>a, <3>1
      <4>2. x < m
        BY <1>1, <2>2, <4>1, WithNumbers DEF Before
      <4> QED BY <1>4, <1>5, <4>2
    <3>2. CASE l.by = "ioctl"
      <4>0. Nums(queue[l]) = Nums(Tail(queue[l])) \cup {Head(queue[l]).n} /\ m \in Nums(queue[l])
        BY <1>1, <1>a, <2>2, <3>2, FirstOf
      <4>1. m \in Nums(Tail(queue[l])) \/ m = x
        BY <1>a, <3>2, <4>0
      <4>2. m \in Nums(Tail(queue[l])) => x < m
        BY <1>1, <1>a, <3>2, FirstOf
      <4> QED BY <1>4, <1>5, <4>1, <4>2
    <3> QED BY <3>1, <3>2
  <2>3. CASE \E q \in Cpu : m \in With(q, l)
    <3>1. PICK q \in Cpu : m \in With(q, l)
      BY <2>3
    <3>2. CASE l.by = "ioctl"
      BY <1>1, <3>1, <3>2, BacklogKinds DEF With, AtHand
    <3>3. CASE l.by = "tx"
      <4>1. m \in AtHand(run[q], l)
        BY <1>1, <3>1, <3>3, BacklogKinds DEF With
      <4>2. run[q].at = "lock" /\ run[q].item.line = l /\ m = run[q].item.n
        BY <4>1 DEF AtHand
      <4>3. run[q].line = l /\ run[p].line = l
        BY <1>1, <3>3, <4>2, AtLock
      <4>4. q = p
        BY <1>1, <4>3, NoneAssumption DEF Inv, RunsOnce
      <4> QED BY <1>4, <1>5, <4>2, <4>4
    <3>4. CASE l.by \in {"rx", "wire"}
      <4>1. PICK c \in Cpu : setup.cpus = {c}
        BY <3>4 DEF InOrder, OneCpu
      <4>2. p = c
        BY <4>1, Active
      <4>3. q = p
        <5>1. ASSUME q # p PROVE FALSE
          <6>1. run[q] = Idle /\ backlog[q] = <<>>
            BY <4>1, <4>2, <5>1 DEF Order, Online
          <6> QED BY <3>1, <6>1 DEF With, AtHand, InBacklog, Idle
        <5> QED BY <5>1
      <4>4. m \in AtHand(run[p], l) => m = x
        BY DEF AtHand
      <4>5. m \in InBacklog(p, l) => x < m
        <5>1. x \in AtHand(run[p], l)
          BY <1>a, <3>4
        <5> QED BY <1>1, <5>1 DEF Order, InBacklogs, Before
      <4> QED BY <1>4, <1>5, <3>1, <4>3, <4>4, <4>5 DEF With
    <3> QED BY <1>1, <3>2, <3>3, <3>4
  <2> QED BY <1>1, <2>1, <2>2, <2>3, NumberPlaces
<1> QED BY <1>4, <1>5

LEMMA BegunAppend ==
  ASSUME TypeOK, NEW l \in Line, NEW n \in 0..MaxItem, begun' = [begun EXCEPT ![l] = Append(@, n)]
  PROVE  /\ begun'[l] = Append(begun[l], n) /\ \A k \in Line : k # l => begun'[k] = begun[k]
         /\ Done(l)' = Done(l) \cup {n}
<1>1. /\ begun[l] \in Seq(0..MaxItem) /\ begun'[l] = Append(begun[l], n)
      /\ \A k \in Line : k # l => begun'[k] = begun[k]
  BY DEF TypeOK
<1> DEFINE s == begun[l]
<1>2. /\ DOMAIN s = 1..Len(s) /\ DOMAIN Append(s, n) = 1..(Len(s) + 1) /\ Len(s) \in Nat
      /\ Append(s, n)[Len(s) + 1] = n /\ \A j \in 1..Len(s) : Append(s, n)[j] = s[j]
  BY <1>1
<1>3. \A j \in 1..(Len(s) + 1) : j \in 1..Len(s) \/ j = Len(s) + 1
  BY <1>2
<1>4. 1..Len(s) \subseteq 1..(Len(s) + 1) /\ Len(s) + 1 \in 1..(Len(s) + 1)
  BY <1>2
<1>5. \A x : x \in Done(l)' <=> \E j \in 1..(Len(s) + 1) : x = Append(s, n)[j]
  BY <1>1, <1>2 DEF Done
<1>6. \A x : x \in Done(l) <=> \E j \in 1..Len(s) : x = s[j]
  BY <1>2 DEF Done
<1> HIDE DEF s
<1>7. \A x : x \in Done(l)' <=> x \in Done(l) \/ x = n
  BY <1>2, <1>3, <1>4, <1>5, <1>6
<1> QED BY <1>1, <1>7

\* With an event or a call, a handler that takes nothing from a line.
LEMMA LockOther ==
  ASSUME Inv, Order, NEW p \in Cpu, Lock(p), run[p].item.line = None
  PROVE  AllPlaced' /\ InQueues' /\ InBacklogs' /\ InHands' /\ Counted'
<1> DEFINE r == [run[p] EXCEPT !.at = "body"]
<1>1. /\ Goes(p, r) /\ run[p].at = "lock"
      /\ UNCHANGED <<setup, sent, queue, sched, tasklets, batch, backlog, begun, led>>
  BY DEF Lock, cpuVars
<1>2. r.at = "body" /\ r.line = run[p].line
  BY DEF Inv, TypeOK, Run
<1> HIDE DEF r
<1>3. run'[p] = r /\ \A q \in Cpu : q # p => run'[q] = run[q]
  BY <1>1, RunTail DEF Inv, Goes
<1>4. run[p].line = None
  BY <1>1, NoneAssumption DEF Order, InHands, FromLine
<1>5. \A k \in Line : /\ AtHand(run'[p], k) = AtHand(run[p], k)
                      /\ Serves(run'[p], k) <=> Serves(run[p], k)
  BY <1>1, <1>2, <1>3, <1>4, NoneAssumption DEF AtHand, Serves
<1>6. FromLine(run[p])'
  BY <1>2, <1>3 DEF FromLine
<1> QED BY <1>1, <1>3, <1>5, <1>6, QuietOrder

LEMMA LockItem ==
  ASSUME Inv, Order, NEW p \in Cpu, Lock(p), NEW l \in Line, run[p].item.line = l
  PROVE  AllPlaced' /\ InQueues' /\ InBacklogs' /\ InHands' /\ Counted'
<1>1. PICK i \in Item : i = run[p].item /\ i.line = l
  BY RunFacts DEF Lock, Inv, Shape, Fits
<1> DEFINE r == [run[p] EXCEPT !.at = "body"]
<1>2. /\ Goes(p, r) /\ run[p].at = "lock" /\ begun' = [begun EXCEPT ![l] = Append(@, i.n)]
      /\ UNCHANGED <<setup, sent, queue, sched, tasklets, batch, backlog, led>>
  BY <1>1, NoneAssumption DEF Lock, cpuVars
<1>3. r.at = "body" /\ r.line = run[p].line
  BY DEF Inv, TypeOK, Run
<1> HIDE DEF r
<1>4. run'[p] = r /\ \A q \in Cpu : q # p => run'[q] = run[q]
  BY <1>2, RunTail DEF Inv, Goes
<1>5. /\ begun'[l] = Append(begun[l], i.n) /\ Done(l)' = Done(l) \cup {i.n}
      /\ \A k \in Line : k # l => begun'[k] = begun[k]
  <2>1. i.n \in 0..MaxItem
    BY DEF Item
  <2> QED BY <1>2, <2>1, BegunAppend DEF Inv
<1>6. /\ l.by # "ioctl" => AtHand(run[p], l) = {i.n}
      /\ l.by = "ioctl" => run[p].line = l /\ queue[l] # <<>> /\ i = Head(queue[l]) /\ Todo(l) = queue[l]
  BY <1>1, <1>2, AtLock
<1>7. \A k \in Line : k # l => /\ AtHand(run[p], k) = {} /\ ~Serves(run[p], k) /\ run[p].line # k
  BY <1>1, <1>2, NoneAssumption DEF AtHand, Serves, Order, InHands, FromLine
<1>8. \A k \in Line : AtHand(run'[p], k) = {}
  BY <1>3, <1>4, NotAtHand
<1>9. \A q \in Cpu, k \in Line : InBacklog(q, k)' = InBacklog(q, k)
  BY <1>2 DEF InBacklog
<1>10. sent[l] \in Nat /\ Placed(Nums(Todo(l)), Done(l), Holding(l), sent[l])
  BY OrderFacts, QueueTypes DEF Placing, Inv
<1>11. ASSUME l.by # "ioctl" PROVE Placing(l)'
  <2>1. Serves(run'[p], l) <=> Serves(run[p], l)
    BY <1>11 DEF Serves
  <2>2. Todo(l)' = Todo(l)
    BY <1>2, <1>4, <2>1, TodoSame
  <2>3. Loses(Holding(l), Holding(l)', p, i.n)
    <3>1. Before(AtHand(run[p], l), InBacklog(p, l))
      BY DEF Order, InBacklogs
    <3>2. i.n \notin InBacklog(p, l)
      <4>1. ASSUME i.n \in InBacklog(p, l) PROVE FALSE
        <5>1. i.n < i.n
          BY <1>6, <1>11, <3>1, <4>1 DEF Before
        <5> QED BY <5>1, ItemNumber
      <4> QED BY <4>1
    <3>3. With(p, l) = {i.n} \cup InBacklog(p, l) /\ With(p, l)' = InBacklog(p, l)
      BY <1>6, <1>8, <1>9, <1>11 DEF With
    <3>4. \A q \in Cpu : q # p => With(q, l)' = With(q, l)
      BY <1>4, <1>9 DEF With
    <3> QED BY <3>2, <3>3, <3>4 DEF Loses, Holding
  <2> DEFINE D == Done(l)
             P == Holding(l)
             Q == Holding(l)'
             T == Nums(Todo(l))
             N == sent[l]
  <2>4. Placed(T, D, P, N) /\ N \in Nat /\ Loses(P, Q, p, i.n)
    BY <1>10, <2>3
  <2>5. Nums(Todo(l))' = T
    BY <2>2 DEF Nums
  <2>6. N' = N
    BY <1>2
  <2> HIDE DEF D, P, Q, T, N
  <2>7. Placed(T, D \cup {i.n}, Q, N)
    BY <2>4, CpuToDone
  <2> QED BY <1>5, <2>5, <2>6, <2>7 DEF Placing, D, Q, N
<1>12. ASSUME l.by = "ioctl" PROVE Placing(l)'
  <2>1. Todo(l)' = Tail(queue[l])
    BY <1>2, <1>3, <1>4, <1>6, <1>12 DEF Todo, Serves
  <2>2. Takes(Nums(queue[l]), Nums(Tail(queue[l])), i.n)
    BY <1>6, <1>12, FirstOf DEF Takes
  <2>3. Holding(l)' = Holding(l)
    <3>1. \A q \in Cpu : With(q, l)' = With(q, l)
      BY <1>4, <1>9, <1>12 DEF With, AtHand
    <3> QED BY <3>1 DEF Holding
  <2> DEFINE D == Done(l)
             P == Holding(l)
             T == Nums(queue[l])
             U == Nums(Tail(queue[l]))
             N == sent[l]
  <2>4. Placed(T, D, P, N) /\ N \in Nat /\ Takes(T, U, i.n)
    BY <1>6, <1>10, <1>12, <2>2
  <2>5. Nums(Todo(l))' = U
    BY <2>1 DEF Nums
  <2>6. N' = N
    BY <1>2
  <2> HIDE DEF D, P, T, U, N
  <2>7. Placed(U, D \cup {i.n}, P, N)
    BY <2>4, QueueToDone
  <2> QED BY <1>5, <2>3, <2>5, <2>6, <2>7 DEF Placing, D, P, N
<1>13. AllPlaced'
  <2> SUFFICES ASSUME NEW k \in Line PROVE Placing(k)'
    BY DEF AllPlaced
  <2>1. CASE k = l
    BY <1>11, <1>12, <2>1
  <2>2. CASE k # l
    <3>1. Serves(run'[p], k) <=> Serves(run[p], k)
      BY <1>3, <1>4, <1>7, <2>2 DEF Serves
    <3>2. Todo(k)' = Todo(k)
      BY <1>2, <1>4, <3>1, TodoSame
    <3>3. \A q \in Cpu : With(q, k)' = With(q, k)
      BY <1>4, <1>7, <1>8, <1>9, <2>2 DEF With
    <3> QED BY <1>2, <1>5, <2>2, <3>2, <3>3, PlacingSame
  <2> QED BY <2>1, <2>2
<1>14. InQueues'
  BY <1>2 DEF Order, InQueues, Ascending, Nums
<1>15. InBacklogs'
  <2> SUFFICES ASSUME NEW q \in Cpu
               PROVE  Lined(backlog'[q]) /\ \A k \in Line : Before(AtHand(run'[q], k), InBacklog(q, k)')
    BY DEF InBacklogs
  <2>1. Lined(backlog'[q])
    BY <1>2 DEF Order, InBacklogs
  <2>2. \A k \in Line : AtHand(run'[q], k) = {} \/ AtHand(run'[q], k) = AtHand(run[q], k)
    BY <1>4, <1>8
  <2>3. \A k \in Line : Before(AtHand(run[q], k), InBacklog(q, k))
    BY DEF Order, InBacklogs
  <2> QED BY <1>9, <2>1, <2>2, <2>3 DEF Before
<1>16. InHands'
  <2> SUFFICES ASSUME NEW q \in Cpu PROVE FromLine(run[q])'
    BY DEF InHands
  <2>1. CASE q = p
    BY <1>3, <1>4, <2>1 DEF FromLine
  <2>2. CASE q # p
    BY <1>2, <1>4, <2>2 DEF Order, InHands, FromLine
  <2> QED BY <2>1, <2>2
<1>17. Counted'
  <2> SUFFICES ASSUME NEW k \in InOrder, NEW j \in DOMAIN begun'[k] PROVE begun'[k][j] = j
    BY <1>2 DEF Counted, InOrder, OneCpu
  <2>1. k \in Line /\ \A x \in DOMAIN begun[k] : begun[k][x] = x
    BY DEF Order, Counted, InOrder
  <2>2. CASE k = l
    <3>1. i.n = Len(begun[l]) + 1
      BY <1>1, <1>2, <2>2, NextToBegin
    <3>2. /\ begun[l] \in Seq(0..MaxItem) /\ Len(begun[l]) \in Nat /\ DOMAIN begun[l] = 1..Len(begun[l])
      BY DEF Inv, TypeOK
    <3>3. j \in 1..(Len(begun[l]) + 1)
      BY <1>5, <2>2, <3>2
    <3>4. CASE j = Len(begun[l]) + 1
      BY <1>5, <2>2, <3>1, <3>2, <3>4
    <3>5. CASE j \in 1..Len(begun[l])
      <4>1. begun[l][j] = j
        BY <2>1, <2>2, <3>2, <3>5
      <4>2. ASSUME NEW s \in Seq(0..MaxItem), NEW x, NEW y \in 1..Len(s) PROVE Append(s, x)[y] = s[y]
        OBVIOUS
      <4>3. Append(begun[l], i.n)[j] = begun[l][j]
        BY <3>2, <3>5, <4>2
      <4>4. begun'[l][j] = begun[l][j]
        BY <1>5, <4>3
      <4>5. begun'[l][j] = j
        BY <4>1, <4>4
      <4> QED BY <2>2, <4>5
    <3>6. j = Len(begun[l]) + 1 \/ j \in 1..Len(begun[l])
      <4>1. PICK n \in Nat : n = Len(begun[l])
        BY <3>2
      <4>2. j \in 1..(n + 1)
        BY <3>3, <4>1
      <4>3. j = n + 1 \/ j \in 1..n
        BY <4>2
      <4> QED BY <4>1, <4>3
    <3> QED BY <3>4, <3>5, <3>6
  <2>3. CASE k # l
    BY <1>5, <2>1, <2>3
  <2> QED BY <2>2, <2>3
<1> QED BY <1>13, <1>14, <1>15, <1>16, <1>17

LEMMA OrderLock == ASSUME Inv, Order, NEW p \in Cpu, Lock(p) PROVE Order'
<1>1. AllPlaced' /\ InQueues' /\ InBacklogs' /\ InHands' /\ Counted'
  <2>1. run[p].item.line = None \/ run[p].item.line \in Line
    BY RunFacts DEF Lock, Inv, Shape, Fits
  <2> QED BY <2>1, LockOther, LockItem
<1> DEFINE r == [run[p] EXCEPT !.at = "body"]
<1>2. /\ p \in setup.cpus /\ Goes(p, r) /\ owner[run[p].item.to] = None
      /\ owner' = [owner EXCEPT ![run[p].item.to] = p]
      /\ UNCHANGED <<setup, tasklets, batch, backlog>>
  BY Active DEF Lock, cpuVars
<1>3. r.at = "body" /\ r.item = run[p].item
  BY DEF Inv, TypeOK, Run
<1>4. run[p].item.to \in Module
  BY RunFacts DEF Lock, Inv, Shape, Fits
<1> HIDE DEF r
<1>5. run'[p] = r /\ \A q \in Cpu : q # p => run'[q] = run[q]
  BY <1>2, RunTail DEF Inv, Goes
<1>6. Online'
  BY <1>2, <1>5, OnlineStays
<1>7. Locked'
  <2> SUFFICES ASSUME NEW q \in Cpu, run'[q].at \in {"body", "kick"} PROVE owner'[run'[q].item.to] = q
    BY DEF Locked
  <2>1. CASE q = p
    BY <1>2, <1>3, <1>4, <1>5, <2>1 DEF Inv, TypeOK
  <2>2. CASE q # p
    <3>1. owner[run[q].item.to] = q /\ run'[q] = run[q]
      BY <1>5, <2>2 DEF Order, Locked
    <3>2. run[q].item.to # run[p].item.to
      BY <1>2, <3>1, NoneAssumption
    <3>3. run[q].item.to \in Module
      BY <3>1, RunFacts DEF Inv, Shape, Fits
    <3> QED BY <1>2, <3>1, <3>2, <3>3 DEF Inv, TypeOK
  <2> QED BY <2>1, <2>2
<1> QED BY <1>1, <1>6, <1>7 DEF Order

-----------------------------------------------------------------------------
(* Something is sent.                                                        *)

LEMMA SentMore ==
  ASSUME Inv, NEW l \in Line, sent[l] < setup.most[l], sent' = [sent EXCEPT ![l] = @ + 1]
  PROVE  /\ sent[l] \in Nat /\ sent'[l] = sent[l] + 1 /\ \A k \in Line : k # l => sent'[k] = sent[k]
         /\ sent[l] + 1 \in 0..MaxItem
BY RoomFor DEF Inv, TypeOK

\* While the head is being served, what is queued goes behind it.
LEMMA TodoGrows ==
  ASSUME Inv, Order, NEW l \in Line, NEW i \in Item, queue'[l] = Append(queue[l], i),
         \A q \in Cpu : Serves(run'[q], l) <=> Serves(run[q], l)
  PROVE  Todo(l)' = Append(Todo(l), i) /\ Todo(l) \in Seq(Item)
<1>1. queue[l] \in Seq(Item)
  BY QueueTypes DEF Inv
<1>2. CASE \E q \in Cpu : Serves(run[q], l)
  <2>1. queue[l] # <<>>
    BY <1>2, NoneAssumption DEF Serves, Inv, Held
  <2>2. Tail(Append(queue[l], i)) = Append(Tail(queue[l]), i) /\ Tail(queue[l]) \in Seq(Item)
    BY <1>1, <2>1, TailOfAppend
  <2> QED BY <1>2, <2>2 DEF Todo
<1>3. CASE ~\E q \in Cpu : Serves(run[q], l)
  BY <1>1, <1>3 DEF Todo
<1> QED BY <1>2, <1>3

LEMMA OrderSend ==
  ASSUME Inv, Order, NEW p \in Cpu, NEW l \in Line, NEW m \in Module, Send(p, l, m)
  PROVE  Order'
<1>1. sent[l] \in Nat /\ sent'[l] = sent[l] + 1 /\ (\A k \in Line : k # l => sent'[k] = sent[k])
      /\ sent[l] + 1 \in 0..MaxItem
  BY SentMore DEF Send
<1>2. PICK i \in Item : i = [line |-> l, n |-> sent[l] + 1, to |-> m]
  BY <1>1 DEF Item
<1> DEFINE r == [run[p] EXCEPT !.at = "kick", !.kick = l,
                               !.asked = IF InNetRx(p) /\ l.by = "ioctl" THEN i ELSE @]
<1>3. /\ p \in setup.cpus /\ Goes(p, r) /\ run[p].at = "body" /\ l.by # "wire"
      /\ queue' = [queue EXCEPT ![l] = Append(@, i)]
      /\ UNCHANGED <<setup, sched, tasklets, batch, backlog, owner, begun>>
  BY <1>2, Active DEF Send, cpuVars
<1>4. r.at = "kick" /\ r.line = run[p].line /\ r.item = run[p].item
  <2>1. run[p] \in Run
    BY DEF Inv, TypeOK
  <2> DEFINE a == IF InNetRx(p) /\ l.by = "ioctl" THEN i ELSE run[p].asked
  <2>2. r = [run[p] EXCEPT !.at = "kick", !.kick = l, !.asked = a]
    OBVIOUS
  <2> HIDE DEF a, r
  <2> QED BY <2>1, <2>2 DEF Run
<1> HIDE DEF r
<1>5. run'[p] = r /\ \A q \in Cpu : q # p => run'[q] = run[q]
  BY <1>3, RunTail DEF Inv, Goes
<1>6. queue'[l] = Append(queue[l], i) /\ \A k \in Line : k # l => queue'[k] = queue[k]
  BY <1>3 DEF Inv, TypeOK
<1>7. \A q \in Cpu, k \in Line : /\ Serves(run'[q], k) <=> Serves(run[q], k)
                                 /\ With(q, k)' = With(q, k) /\ AtHand(run'[q], k) = AtHand(run[q], k)
                                 /\ InBacklog(q, k)' = InBacklog(q, k)
  <2> TAKE q \in Cpu, k \in Line
  <2>1. Serves(run'[q], k) <=> Serves(run[q], k)
    BY <1>3, <1>4, <1>5 DEF Serves
  <2>2. AtHand(run'[q], k) = AtHand(run[q], k)
    BY <1>3, <1>4, <1>5 DEF AtHand
  <2>3. InBacklog(q, k)' = InBacklog(q, k)
    BY <1>3 DEF InBacklog
  <2> QED BY <2>1, <2>2, <2>3 DEF With
<1>8. Placing(l)'
  <2>1. Todo(l)' = Append(Todo(l), i) /\ Todo(l) \in Seq(Item)
    BY <1>6, <1>7, TodoGrows
  <2>2. Nums(Todo(l))' = Nums(Todo(l)) \cup {sent[l] + 1}
    <3>1. Nums(Append(Todo(l), i)) = Nums(Todo(l)) \cup {i.n}
      BY <2>1, NumsAppend
    <3> QED BY <1>2, <2>1, <3>1 DEF Nums
  <2>3. Holding(l)' = Holding(l) /\ Done(l)' = Done(l)
    BY <1>3, <1>7 DEF Holding, Done
  <2> DEFINE D == Done(l)
             P == Holding(l)
             T == Nums(Todo(l))
             N == sent[l]
  <2>4. Placed(T, D, P, N) /\ N \in Nat
    BY <1>1, OrderFacts DEF Placing
  <2>5. T' = T \cup {N + 1} /\ D' = D /\ P' = P /\ N' = N + 1
    BY <1>1, <2>2, <2>3
  <2> HIDE DEF D, P, T, N
  <2>6. Placed(T \cup {N + 1}, D, P, N + 1)
    BY <2>4, NewInQueue
  <2>7. Placed(T', D', P', N')
    BY <2>5, <2>6
  <2> QED BY <2>7 DEF Placing, D, P, T, N
<1>9. AllPlaced'
  <2> SUFFICES ASSUME NEW k \in Line PROVE Placing(k)'
    BY DEF AllPlaced
  <2>1. CASE k = l
    BY <1>8, <2>1
  <2>2. CASE k # l
    <3>1. Todo(k)' = Todo(k)
      BY <1>5, <1>6, <1>7, <2>2, TodoSame
    <3> QED BY <1>1, <1>3, <1>7, <2>2, <3>1, PlacingSame
  <2> QED BY <2>1, <2>2
<1>10. InQueues'
  <2>1. queue[l] \in Seq(Item) /\ Ascending(queue[l]) /\ Nums(queue[l]) \subseteq 1..sent[l]
        /\ \A j \in DOMAIN queue[l] : queue[l][j].line = l
    BY DEF Inv, TypeOK, Order, InQueues
  <2>2. \A x \in Nums(queue[l]) : x < i.n
    BY <1>1, <1>2, <2>1
  <2>3. Ascending(Append(queue[l], i)) /\ Nums(Append(queue[l], i)) = Nums(queue[l]) \cup {i.n}
    BY <2>1, <2>2, NumsAppend
  <2>4. Nums(Append(queue[l], i)) \subseteq 1..(sent[l] + 1)
    BY <1>1, <1>2, <2>1, <2>3
  <2>5. \A j \in DOMAIN Append(queue[l], i) : Append(queue[l], i)[j].line = l
    BY <1>2, <2>1
  <2>6. ASSUME NEW k \in Line
        PROVE  /\ Ascending(queue'[k]) /\ \A j \in DOMAIN queue'[k] : queue'[k][j].line = k
               /\ Nums(queue'[k]) \subseteq 1..sent'[k]
               /\ k.by = "wire" => queue'[k] = <<>>
    <3>1. CASE k = l
      BY <1>1, <1>3, <1>6, <2>3, <2>4, <2>5, <3>1
    <3>2. CASE k # l
      BY <1>1, <1>6, <3>2 DEF Order, InQueues
    <3> QED BY <3>1, <3>2
  <2>7. \A k \in Line : Nums(queue[k])' = Nums(queue'[k]) /\ (Ascending(queue[k])' <=> Ascending(queue'[k]))
    BY DEF Nums, Ascending
  <2> QED BY <2>6, <2>7 DEF InQueues
<1>11. InBacklogs'
  BY <1>3, <1>7 DEF Order, InBacklogs
<1>12. InHands'
  <2> SUFFICES ASSUME NEW q \in Cpu PROVE FromLine(run[q])'
    BY DEF InHands
  <2>1. CASE q = p
    BY <1>4, <1>5, <2>1 DEF FromLine
  <2>2. CASE q # p
    <3>1. FromLine(run[q]) /\ run'[q] = run[q]
      BY <1>5, <2>2 DEF Order, InHands
    <3>2. ASSUME run[q].at = "lock", run[q].line # None, run[q].line.by = "ioctl"
          PROVE  Head(queue'[run[q].line]) = Head(queue[run[q].line])
      <4>1. PICK k \in Line : k = run[q].line /\ queue[k] # <<>>
        BY <3>2, RunFacts DEF Inv, Held
      <4>2. queue[k] \in Seq(Item)
        BY QueueTypes DEF Inv
      <4> QED BY <1>6, <4>1, <4>2
    <3> QED BY <3>1, <3>2 DEF FromLine
  <2> QED BY <2>1, <2>2
<1>13. Counted'
  BY <1>3 DEF Order, Counted, InOrder, OneCpu
<1>14. Online'
  BY <1>3, <1>5, OnlineStays
<1>15. Locked'
  BY <1>3, <1>4, <1>5, LockedStays
<1> QED BY <1>9, <1>10, <1>11, <1>12, <1>13, <1>14, <1>15 DEF Order

LEMMA OrderArrive ==
  ASSUME Inv, Order, NEW p \in Cpu, NEW l \in Line, NEW m \in Module, Arrive(p, l, m)
  PROVE  Order'
<1>1. sent[l] \in Nat /\ sent'[l] = sent[l] + 1 /\ (\A k \in Line : k # l => sent'[k] = sent[k])
      /\ sent[l] + 1 \in 0..MaxItem
  BY SentMore DEF Arrive
<1>2. PICK i \in Item : i = [line |-> l, n |-> sent[l] + 1, to |-> m]
  BY <1>1 DEF Item
<1>3. /\ p \in setup.cpus /\ l.by = "wire" /\ backlog' = [backlog EXCEPT ![p] = Append(@, i)]
      /\ UNCHANGED <<setup, queue, sched, tasklets, batch, run, owner, begun>>
  BY <1>2 DEF Arrive
<1>4. /\ backlog[p] \in Seq(Item) /\ backlog'[p] = Append(backlog[p], i)
      /\ \A q \in Cpu : q # p => backlog'[q] = backlog[q]
  BY <1>3 DEF Inv, TypeOK
<1>5. \A k \in Line : /\ InBacklog(p, k)' = InBacklog(p, k) \cup (IF i.line = k THEN {i.n} ELSE {})
                      /\ \A q \in Cpu : q # p => InBacklog(q, k)' = InBacklog(q, k)
  <2> TAKE k \in Line
  <2>1. TypeOK /\ backlog' = [backlog EXCEPT ![p] = Append(@, i)]
    BY <1>3 DEF Inv
  <2> QED BY <2>1, BacklogAppend
<1>6. Todo(l) = <<>> /\ \A k \in Line : Todo(k)' = Todo(k)
  BY <1>3, TodoIsQueue, TodoSame DEF Order, InQueues
<1>7. Placing(l)'
  <2>1. Nums(Todo(l)) = {} /\ Nums(Todo(l))' = {}
    BY <1>6 DEF Nums
  <2>2. Gets(Holding(l), Holding(l)', p, sent[l] + 1)
    BY <1>2, <1>3, <1>5 DEF Gets, Holding, With
  <2> DEFINE D == Done(l)
             P == Holding(l)
             Q == Holding(l)'
             N == sent[l]
  <2>3. Placed({}, D, P, N) /\ N \in Nat /\ Gets(P, Q, p, N + 1)
    BY <1>1, <2>1, <2>2, OrderFacts DEF Placing
  <2>4. D' = D /\ N' = N + 1
    BY <1>1, <1>3 DEF Done
  <2> HIDE DEF D, P, Q, N
  <2>5. Placed({}, D, Q, N + 1)
    BY <2>3, NewWithCpu
  <2>6. Placed({}, D', Q, N')
    BY <2>4, <2>5
  <2> QED BY <2>1, <2>6 DEF Placing, D, Q, N
<1>8. AllPlaced'
  <2> SUFFICES ASSUME NEW k \in Line PROVE Placing(k)'
    BY DEF AllPlaced
  <2>1. CASE k = l
    BY <1>7, <2>1
  <2>2. CASE k # l
    <3>1. \A q \in Cpu : With(q, k)' = With(q, k)
      BY <1>2, <1>3, <1>5, <2>2 DEF With
    <3> QED BY <1>1, <1>3, <1>6, <2>2, <3>1, PlacingSame
  <2> QED BY <2>1, <2>2
<1>9. InQueues'
  <2>1. \A k \in Line : Nums(queue[k]) \subseteq 1..sent'[k]
    <3> TAKE k \in Line
    <3>1. Nums(queue[k]) \subseteq 1..sent[k] /\ sent[k] \in Nat
      BY QueueTypes DEF Order, InQueues, Inv
    <3> QED BY <1>1, <3>1
  <2> QED BY <1>3, <2>1 DEF Order, InQueues, Ascending, Nums
<1>10. InBacklogs'
  <2> SUFFICES ASSUME NEW q \in Cpu
               PROVE  Lined(backlog'[q]) /\ \A k \in Line : Before(AtHand(run'[q], k), InBacklog(q, k)')
    BY DEF InBacklogs
  <2>1. \A k \in Line : With(q, k) \subseteq 1..sent[k]
    BY WithNumbers
  <2>2. CASE q = p
    <3>1. \A j \in DOMAIN backlog[p] : backlog[p][j].line = i.line => backlog[p][j].n < i.n
      <4>1. InBacklog(p, l) \subseteq 1..sent[l]
        BY <2>1, <2>2 DEF With
      <4>2. \A x \in InBacklog(p, l) : x < i.n
        BY <1>1, <1>2, <4>1
      <4>3. \A j \in DOMAIN backlog[p] : backlog[p][j].line = l => backlog[p][j].n \in InBacklog(p, l)
        BY DEF InBacklog
      <4> QED BY <1>2, <4>2, <4>3
    <3>2. Lined(Append(backlog[p], i))
      BY <1>2, <1>3, <1>4, <3>1, LinedAppend DEF Order, InBacklogs
    <3>3. ASSUME NEW k \in Line PROVE Before(AtHand(run[p], k), InBacklog(p, k)')
      <4>1. Before(AtHand(run[p], k), InBacklog(p, k))
        BY DEF Order, InBacklogs
      <4>2. i.line = k => Before(AtHand(run[p], k), {i.n})
        <5>1. AtHand(run[p], l) \subseteq 1..sent[l]
          BY <2>1, <2>2 DEF With
        <5> QED BY <1>1, <1>2, <5>1 DEF Before
      <4> QED BY <1>5, <4>1, <4>2 DEF Before
    <3> QED BY <1>3, <1>4, <2>2, <3>2, <3>3
  <2>3. CASE q # p
    <3>1. run'[q] = run[q] /\ backlog'[q] = backlog[q] /\ \A k \in Line : InBacklog(q, k)' = InBacklog(q, k)
      BY <1>3, <1>4, <1>5, <2>3
    <3> QED BY <3>1 DEF Order, InBacklogs
  <2> QED BY <2>2, <2>3
<1>11. InHands' /\ Counted' /\ Locked'
  BY <1>3 DEF Order, InHands, FromLine, Counted, InOrder, OneCpu, Locked
<1>12. Online'
  BY <1>3, <1>4, OnlineStays
<1> QED BY <1>8, <1>9, <1>10, <1>11, <1>12 DEF Order

LEMMA OrderInit == ASSUME Init PROVE Order
<1> USE DEF Init
<1>1. \A l \in Line, p \in Cpu : AtHand(run[p], l) = {} /\ InBacklog(p, l) = {} /\ ~Serves(run[p], l)
  BY DEF AtHand, InBacklog, Serves, Idle
<1>2. ASSUME NEW l \in Line PROVE Placing(l)
  <2>1. Nums(Todo(l)) = {} /\ Done(l) = {} /\ sent[l] = 0 /\ \A p \in Cpu : Holding(l)[p] = {}
    BY <1>1 DEF Nums, Todo, Done, Holding, With
  <2>2. 1..0 = {}
    OBVIOUS
  <2>3. UNION {Holding(l)[p] : p \in Cpu} = {}
    BY <2>1
  <2> QED BY <2>1, <2>2, <2>3 DEF Placing, Placed, Before
<1>3. InQueues
  BY DEF InQueues, Ascending, Nums
<1>4. InBacklogs
  BY <1>1 DEF InBacklogs, Lined, Before
<1>5. InHands /\ Locked
  BY DEF InHands, FromLine, Locked, Idle
<1>6. Counted /\ Online
  BY DEF Counted, InOrder, Online
<1> QED BY <1>2, <1>3, <1>4, <1>5, <1>6 DEF Order, AllPlaced

LEMMA OrderStep == ASSUME Inv, Order, [Next]_vars PROVE Order'
<1>1. CASE UNCHANGED vars
  <2>1. UNCHANGED <<setup, sent, queue, tasklets, batch, backlog, run, owner, begun>>
    BY <1>1 DEF vars, cpuVars
  <2>2. \A l \in Line, q \in Cpu : InBacklog(q, l)' = InBacklog(q, l) /\ With(q, l)' = With(q, l)
    BY <2>1 DEF InBacklog, With
  <2>3. ASSUME NEW l \in Line PROVE Placing(l)'
    <3>1. Todo(l)' = Todo(l)
      BY <2>1 DEF Todo
    <3> QED BY <2>1, <2>2, <3>1, PlacingSame
  <2>4. InQueues'
    BY <2>1 DEF Order, InQueues, Ascending, Nums
  <2>5. InBacklogs'
    BY <2>1, <2>2 DEF Order, InBacklogs
  <2>6. InHands' /\ Counted' /\ Online' /\ Locked'
    BY <2>1 DEF Order, InHands, FromLine, Counted, InOrder, OneCpu, Online, Locked
  <2> QED BY <2>3, <2>4, <2>5, <2>6 DEF Order, AllPlaced
<1>2. ASSUME NEW p \in Cpu, Softirq(p) PROVE Order'
  BY <1>2, OrderNetRx, OrderBeginBatch, OrderPutBack, OrderStartTasklet DEF Softirq
<1>3. ASSUME NEW p \in Cpu, Serve(p) PROVE Order'
  BY <1>3, OrderEmpty, OrderFinish, OrderPassUp, OrderPassDown, OrderPassIoctl, OrderIoctlDone
     DEF Serve
<1> QED
  BY <1>1, <1>2, <1>3, OrderLock, OrderKick, OrderReturn, OrderSend, OrderArrive, OrderCall DEF Next

-----------------------------------------------------------------------------
(* The refinement.                                                           *)

busyOwners == [m \in Module |-> owner[m] # None]

LEMMA BeginIsNew ==
  ASSUME Inv, Order, NEW p \in Cpu, run[p].at = "lock", NEW l \in Line, run[p].item.line = l
  PROVE  run[p].item.n \in 1..sent[l] /\ ~Contains(begun[l], run[p].item.n)
<1> DEFINE x == run[p].item.n
<1>1. x \in 1..sent[l] /\ x \notin Done(l)
  <2>1. CASE l.by # "ioctl"
    <3>1. x \in With(p, l)
      BY <2>1 DEF With, AtHand
    <3> QED BY <3>1, WithNumbers
  <2>2. CASE l.by = "ioctl"
    <3>1. x \in Nums(Todo(l))
      BY <2>2, AtLock, FirstOf
    <3>2. x \in 1..sent[l] /\ Before(Done(l), Nums(Todo(l))) /\ sent[l] \in Nat
      BY <3>1, NumberPlaces, QueueTypes DEF Inv
    <3>3. ASSUME x \in Done(l) PROVE FALSE
      <4>1. x < x
        BY <3>1, <3>2, <3>3 DEF Before
      <4> QED BY <3>2, <4>1
    <3> QED BY <3>2, <3>3
  <2> QED BY <2>1, <2>2
<1>2. begun[l] \in Seq(0..MaxItem) /\ DOMAIN begun[l] = 1..Len(begun[l])
  BY QueueTypes DEF Inv
<1> HIDE DEF x
<1>3. ~Contains(begun[l], x)
  BY <1>1, <1>2 DEF Contains, Done
<1> QED BY <1>1, <1>3 DEF x

LEMMA LockIsBegin ==
  ASSUME Inv, Order, NEW p \in Cpu, Lock(p)
  PROVE  Links!Next
<1>1. run[p].item \in Item /\ run[p].item.to \in Module /\ run[p].at = "lock"
      /\ (run[p].item.line # None => run[p].item.line \in Line)
  BY RunFacts DEF Lock, Inv, Shape, Fits
<1>2. PICK m \in Module : m = run[p].item.to
  BY <1>1
<1>3. /\ ~busyOwners[m] /\ busyOwners' = [busyOwners EXCEPT ![m] = TRUE]
      /\ UNCHANGED <<setup, sent>>
  BY <1>1, <1>2, NoneAssumption DEF Lock, busyOwners, Inv, TypeOK
<1>4. InOrder' = InOrder
  BY <1>3 DEF InOrder, OneCpu
<1>5. CASE run[p].item.line = None
  <2>1. begun' = begun
    BY <1>5 DEF Lock
  <2>2. Links!Other(m)
    BY <1>3, <1>4, <2>1 DEF Links!Other, busyOwners
  <2> QED BY <2>2 DEF Links!Next
<1>6. CASE run[p].item.line # None
  <2>1. PICK l \in Line : l = run[p].item.line
    BY <1>1, <1>6
  <2>2. PICK n \in 1..sent[l] : n = run[p].item.n /\ ~Contains(begun[l], n)
    BY <1>1, <2>1, BeginIsNew
  <2>3. l \in InOrder => n = Len(begun[l]) + 1
    BY <1>1, <2>1, <2>2, NextToBegin
  <2>4. begun' = [begun EXCEPT ![l] = Append(@, n)]
    BY <1>6, <2>1, <2>2 DEF Lock
  <2>5. Links!Begin(m, l, n)
    <3>1. ~Links!Contains(begun[l], n)
      BY <2>2 DEF Links!Contains, Contains
    <3> QED BY <1>3, <1>4, <2>3, <2>4, <3>1 DEF Links!Begin, busyOwners
  <2> QED BY <2>5 DEF Links!Next
<1> QED BY <1>5, <1>6

LEMMA ReturnIsEnd ==
  ASSUME Inv, Order, NEW p \in Cpu, Return(p)
  PROVE  Links!Next
<1>1. run[p].item.to \in Module /\ run[p].at = "body"
  BY RunFacts DEF Return, Inv, Shape, Fits
<1>2. PICK m \in Module : m = run[p].item.to
  BY <1>1
<1>3. owner[m] = p
  BY <1>1, <1>2 DEF Order, Locked
<1>4. /\ busyOwners[m] /\ busyOwners' = [busyOwners EXCEPT ![m] = FALSE]
      /\ UNCHANGED <<setup, sent, begun>>
  BY <1>1, <1>2, <1>3, NoneAssumption DEF Return, busyOwners, Inv, TypeOK
<1>5. InOrder' = InOrder
  BY <1>4 DEF InOrder, OneCpu
<1>6. Links!End(m)
  BY <1>4, <1>5 DEF Links!End, busyOwners
<1> QED BY <1>6 DEF Links!Next

LEMMA LinksStep == ASSUME Inv, Order, [Next]_vars
                   PROVE  [Links!Next]_<<InOrder, sent, begun, busyOwners>>
<1>1. ASSUME UNCHANGED <<setup, sent, begun, owner>>
      PROVE  UNCHANGED <<InOrder, sent, begun, busyOwners>>
  BY <1>1 DEF InOrder, OneCpu, busyOwners
<1>2. ASSUME NEW l \in Line, sent' = [sent EXCEPT ![l] = @ + 1], UNCHANGED <<setup, begun, owner>>
      PROVE  Links!Next
  <2>1. Links!Send(l)
    BY <1>2 DEF Links!Send, InOrder, OneCpu
  <2> QED BY <2>1 DEF Links!Next
<1>3. CASE UNCHANGED vars
  BY <1>1, <1>3 DEF vars
<1>4. ASSUME NEW p \in Cpu, Softirq(p) \/ Serve(p) \/ Kick(p) PROVE UNCHANGED <<setup, sent, begun, owner>>
  BY <1>4 DEF Softirq, Serve, Kick, NetRx, BeginBatch, PutBack, StartTasklet, Empty, Finish, PassUp,
              PassDown, PassIoctl, IoctlDone
<1>5. ASSUME NEW p \in Cpu, NEW l \in Line, NEW m \in Module, Send(p, l, m) \/ Arrive(p, l, m)
      PROVE  sent' = [sent EXCEPT ![l] = @ + 1] /\ UNCHANGED <<setup, begun, owner>>
  BY <1>5 DEF Send, Arrive
<1>6. ASSUME NEW p \in Cpu, NEW m \in Module, Call(p, m) PROVE UNCHANGED <<setup, sent, begun, owner>>
  BY <1>6 DEF Call
<1> QED
  BY <1>1, <1>2, <1>3, <1>4, <1>5, <1>6, LockIsBegin, ReturnIsEnd DEF Next

LEMMA LinksInit == ASSUME Init PROVE Links!Init
BY DEF Init, Links!Init, InOrder

\* For any CPUs, modules and lines, one CPU or several: what FsmPackets does is
\* what ModuleLinks promises (fsm_pkt_send, fsm_do_ioctrl and their tasklets).
THEOREM KeepsThePromise == Spec => ImplementsLinks
<1>1. Init => Inv /\ Order
  BY InvInit, OrderInit
<1>2. Inv /\ Order /\ [Next]_vars => Inv' /\ Order'
  BY InvStep, OrderStep
<1>3. Init => Links!Init
  BY LinksInit
<1>4. Inv /\ Order /\ [Next]_vars => [Links!Next]_<<InOrder, sent, begun, busyOwners>>
  BY LinksStep
<1> QED BY <1>1, <1>2, <1>3, <1>4, PTL DEF Spec, ImplementsLinks, Links!Spec, busyOwners

-----------------------------------------------------------------------------
(* One CPU: an ioctl that goes first comes first.                            *)

LEMMA NotAsking ==
  ASSUME NEW p \in Cpu, Leads(p), run[p].at \notin {"body", "kick"}
  PROVE  run[p].asked = None
BY DEF Leads, Asked, AskedFor

\* Comes is kept by what only adds to the queues and goes on with the tasklet.
LEMMA ComesOn ==
  ASSUME NEW p \in Cpu, begun' = begun, batch'[p] = batch[p],
         \A x : Contains(tasklets[p], x) => Contains(tasklets'[p], x),
         run'[p].line = run[p].line, run'[p].at = "end" => run[p].at = "end",
         \A k \in Line : /\ k.by = "ioctl" \/ k # run[p].line => Nums(Todo(k)) \subseteq Nums(Todo(k))'
                         /\ 1..sent[k] \subseteq 1..sent'[k]
                         /\ k.by = "rx" => AtHand(run'[p], k) \subseteq AtHand(run[p], k),
         NEW i, NEW u, CanLead(i, u), Comes(p, i, u)
  PROVE  Comes(p, i, u)'
<1>1. CASE Contains(begun[i.line], i.n)
  BY <1>1 DEF Comes
<1>2. CASE ~Contains(begun[i.line], i.n)
  <2>1. /\ i.n \in Nums(Todo(i.line)) /\ u.n \in 1..sent[u.line]
        /\ ~Contains(begun[u.line], u.n) /\ u.n \notin AtHand(run[p], u.line)
        /\ Soon(p, i.line) \/ Behind(p, i, u)
    BY <1>2 DEF Comes
  <2>2. /\ i.n \in Nums(Todo(i.line))' /\ u.n \in 1..sent'[u.line]
        /\ ~Contains(begun'[u.line], u.n) /\ u.n \notin AtHand(run'[p], u.line)
    BY <2>1 DEF CanLead
  <2>3. Soon(p, i.line) => Soon(p, i.line)'
    BY DEF Soon
  <2>4. Behind(p, i, u) => Behind(p, i, u)'
    BY DEF Behind, CanLead
  <2> QED BY <2>1, <2>2, <2>3, <2>4 DEF Comes
<1> QED BY <1>1, <1>2

\* A step that is no "Send" and keeps all promises to come.
LEMMA LeadsIf ==
  ASSUME NEW p \in Cpu, Leads(p), led' = led, Asked(p)',
         \A i, u : CanLead(i, u) /\ Comes(p, i, u) => Comes(p, i, u)'
  PROVE  Leads(p)'
<1>1. ASSUME NEW pair \in led' PROVE CanLead(pair[1], pair[2]) /\ Comes(p, pair[1], pair[2])'
  BY DEF Leads
<1> QED BY <1>1 DEF Leads, CanLead

\* A CPU that handles no packet and waits for no ioctl.
LEMMA AsksNothing ==
  ASSUME NEW p \in Cpu, run'[p].asked = None,
         run'[p].item = None \/ run'[p].line # None \/ run'[p].item.line = None \/ batch'[p] = <<>>
  PROVE  Asked(p)'
BY DEF Asked, InNetRx

LEMMA IdleAsksNothing ==
  ASSUME Inv, NEW p \in Cpu, run[p].at = "idle"
  PROVE  /\ run[p] = Idle /\ run[p].line = None /\ run[p].item = None /\ run[p].asked = None
         /\ \A k \in Line : ~Serves(run[p], k) /\ AtHand(run[p], k) = {}
BY IdleFacts DEF Inv, Idle, Serves, AtHand

LEMMA LeadsNetRx == ASSUME Inv, Order, NEW p \in Cpu, Leads(p), NetRx(p) PROVE Leads(p)'
<1> DEFINE h == Head(backlog[p])
           r == [run[p] EXCEPT !.at = "lock", !.item = h]
<1>1. run[p] = Idle /\ run[p].line = None /\ run[p].asked = None
  BY IdleAsksNothing DEF NetRx
<1>2. r.at = "lock" /\ r.item = h /\ r.line = None /\ r.asked = None
  BY <1>1 DEF Idle
<1>3. /\ run'[p] = r /\ batch[p] = <<>> /\ \A q \in Cpu : q # p => run'[q] = run[q]
      /\ UNCHANGED <<sent, queue, tasklets, batch, begun, led>>
  BY DEF NetRx, Goes, Inv, TypeOK
<1>4. /\ backlog[p] \in Seq(Item) /\ backlog[p] # <<>>
      /\ h = backlog[p][1] /\ 1 \in DOMAIN backlog[p]
  BY DEF NetRx, Inv, TypeOK
<1> HIDE DEF r, h
<1>5. \A k \in Line : Todo(k)' = Todo(k)
  <2> TAKE k \in Line
  <2>1. Serves(run'[p], k) <=> Serves(run[p], k)
    BY <1>1, <1>2, <1>3 DEF Serves, Idle
  <2> QED BY <1>3, <2>1, TodoSame
<1>6. Asked(p)'
  BY <1>2, <1>3, AsksNothing
<1>7. ASSUME NEW i, NEW u, CanLead(i, u), Comes(p, i, u), ~Contains(begun[i.line], i.n)
      PROVE  Comes(p, i, u)'
  <2>1. /\ i.n \in Nums(Todo(i.line)) /\ u.n \in 1..sent[u.line]
        /\ ~Contains(begun[u.line], u.n)
        /\ Soon(p, i.line) \/ Behind(p, i, u)
    BY <1>7 DEF Comes
  <2>2. Behind(p, i, u)
    BY <1>1, <1>3, <1>7, <2>1, EmptyHasNothing, NoneAssumption DEF Soon, CanLead
  <2>3. i.n \in Nums(Todo(i.line))'
    BY <1>5, <1>7, <2>1 DEF CanLead, Nums
  <2>4. Behind(p, i, u)'
    <3>1. Nums(Todo(u.line))' = Nums(Todo(u.line))
      BY <1>5, <1>7 DEF CanLead, Nums
    <3> QED BY <1>1, <1>2, <1>3, <2>2, <3>1 DEF Behind
  <2>5. u.n \notin AtHand(run'[p], u.line)
    <3>1. CASE h.line = u.line
      <4>1. h.n \in With(p, u.line)
        BY <1>4, <3>1 DEF With, InBacklog
      <4>2. u.n \in Nums(Todo(u.line)) /\ u.line \in Line
        BY <1>7, <2>2 DEF Behind, CanLead
      <4>3. h.n < u.n
        BY <4>1, <4>2, WithNumbers DEF Before
      <4>4. u.n \in Nat
        BY <2>1
      <4> QED BY <1>2, <1>3, <4>3, <4>4 DEF AtHand
    <3>2. CASE h.line # u.line
      BY <1>2, <1>3, <3>2 DEF AtHand
    <3> QED BY <3>1, <3>2
  <2> QED BY <1>3, <2>1, <2>3, <2>4, <2>5 DEF Comes
<1>8. \A i, u : CanLead(i, u) /\ Comes(p, i, u) => Comes(p, i, u)'
  <2>1. \A i, u : Contains(begun[i.line], i.n) => Comes(p, i, u)'
    BY <1>3 DEF Comes
  <2> QED BY <1>7, <2>1
<1> QED BY <1>3, <1>6, <1>8, LeadsIf

LEMMA LeadsBeginBatch == ASSUME Inv, Order, NEW p \in Cpu, Leads(p), BeginBatch(p) PROVE Leads(p)'
<1>1. run[p] = Idle /\ run[p].line = None /\ run[p].item = None /\ run[p].asked = None
  BY IdleAsksNothing DEF BeginBatch
<1>2. /\ run' = run /\ batch[p] = <<>> /\ batch'[p] = tasklets[p]
      /\ UNCHANGED <<sent, queue, begun, led>>
  BY DEF BeginBatch, Inv, TypeOK
<1>3. \A k \in Line : Nums(Todo(k))' = Nums(Todo(k))
  BY <1>2 DEF Todo, Nums
<1>4. Asked(p)'
  BY <1>1, <1>2, AsksNothing
<1>5. ASSUME NEW i, NEW u, CanLead(i, u), Comes(p, i, u) PROVE Comes(p, i, u)'
  <2>1. Soon(p, i.line) \/ Behind(p, i, u) => Soon(p, i.line)'
    BY <1>1, <1>2, <1>5, EmptyHasNothing, NoneAssumption DEF Soon, Behind, CanLead
  <2>2. Nums(Todo(i.line))' = Nums(Todo(i.line))
    BY <1>3, <1>5 DEF CanLead
  <2> QED BY <1>2, <1>5, <2>1, <2>2 DEF Comes
<1> QED BY <1>2, <1>4, <1>5, LeadsIf

\* On one CPU no other runs the tasklet.
LEMMA NoPutBack == ASSUME Inv, Order, NEW p \in Cpu, setup.cpus = {p}, PutBack(p) PROVE FALSE
<1>1. PICK q \in Cpu : run[q].line = Head(batch[p])
  BY DEF PutBack
<1>2. batch[p] \in Seq(Line) /\ batch[p] # <<>>
  BY DEF PutBack, Inv, TypeOK
<1>3. Head(batch[p]) \in Line
  BY <1>2
<1>4. run[q].line = None
  <2>1. CASE q = p
    BY <2>1, IdleAsksNothing DEF PutBack
  <2>2. CASE q # p
    BY <2>2 DEF Order, Online, Idle
  <2> QED BY <2>1, <2>2
<1> QED BY <1>1, <1>3, <1>4, NoneAssumption

LEMMA LeadsStartTasklet == ASSUME Inv, Order, NEW p \in Cpu, Leads(p), StartTasklet(p) PROVE Leads(p)'
<1> DEFINE r == [run[p] EXCEPT !.at = "test", !.line = Head(batch[p])]
<1>1. run[p] = Idle /\ run[p].line = None /\ run[p].item = None /\ run[p].asked = None
  BY IdleAsksNothing DEF StartTasklet
<1>2. r.at = "test" /\ r.item = None /\ r.line = Head(batch[p]) /\ r.asked = None
  BY <1>1 DEF Idle
<1>3. /\ run'[p] = r /\ batch[p] # <<>> /\ \A q \in Cpu : q # p => run'[q] = run[q]
      /\ batch'[p] = Tail(batch[p]) /\ batch[p] \in Seq(Line)
      /\ UNCHANGED <<sent, queue, tasklets, begun, led>>
  BY DEF StartTasklet, Goes, Inv, TypeOK
<1> HIDE DEF r
<1>4. \A x : Contains(batch[p], x) => x = Head(batch[p]) \/ Contains(batch'[p], x)
  BY <1>3, TailFacts
<1>5. \A x : Contains(batch'[p], x) => Contains(batch[p], x)
  <2> TAKE x
  <2> HAVE Contains(batch'[p], x)
  <2>1. PICK j \in 1..Len(Tail(batch[p])) : Tail(batch[p])[j] = x
    BY <1>3 DEF Contains
  <2>2. j + 1 \in 1..Len(batch[p]) /\ batch[p][j + 1] = x
    BY <1>3, <2>1
  <2> QED BY <2>2 DEF Contains
<1>6. Contains(batch[p], Head(batch[p]))
  BY <1>3, TailFacts
<1>7. \A k \in Line : Nums(Todo(k))' = Nums(Todo(k))
  <2> TAKE k \in Line
  <2>1. Serves(run'[p], k) <=> Serves(run[p], k)
    BY <1>1, <1>2, <1>3 DEF Serves, Idle
  <2>2. Todo(k)' = Todo(k)
    BY <1>3, <2>1, TodoSame
  <2> QED BY <2>2 DEF Nums
<1>8. Asked(p)'
  BY <1>2, <1>3, AsksNothing
<1>9. ASSUME NEW i, NEW u, CanLead(i, u), Comes(p, i, u) PROVE Comes(p, i, u)'
  <2>1. Soon(p, i.line) => Soon(p, i.line)'
    BY <1>1, <1>2, <1>3, <1>4, <1>9, NoneAssumption DEF Soon, CanLead
  <2>2. /\ Nums(Todo(i.line))' = Nums(Todo(i.line)) /\ Nums(Todo(u.line))' = Nums(Todo(u.line))
        /\ AtHand(run'[p], u.line) = {}
    BY <1>2, <1>3, <1>7, <1>9, NotAtHand DEF CanLead
  <2>3. Behind(p, i, u) => Behind(p, i, u)'
    BY <1>2, <1>3, <1>5, <1>6, <2>2 DEF Behind
  <2> QED BY <1>3, <1>9, <2>1, <2>2, <2>3 DEF Comes
<1> QED BY <1>3, <1>8, <1>9, LeadsIf

\* A tasklet that finds its queue empty has nothing to come.
LEMMA LeadsEmpty == ASSUME Inv, Order, NEW p \in Cpu, Leads(p), Empty(p) PROVE Leads(p)'
<1> DEFINE r == [run[p] EXCEPT !.at = "end"]
<1>1. run[p].at = "test" /\ run[p].asked = None /\ run[p].line # None /\ run[p] \in Run
  BY NotAsking DEF Empty, Inv, Shape, Fits, TypeOK
<1>2. r.at = "end" /\ r.line = run[p].line /\ r.asked = None
  BY <1>1 DEF Run
<1>3. /\ run'[p] = r /\ \A q \in Cpu : q # p => run'[q] = run[q]
      /\ queue[run[p].line] = <<>>
      /\ UNCHANGED <<sent, queue, tasklets, batch, begun, led>>
  BY DEF Empty, Goes, Inv, TypeOK, cpuVars
<1> HIDE DEF r
<1>4. \A k \in Line : Nums(Todo(k))' = Nums(Todo(k))
  <2> TAKE k \in Line
  <2>1. Serves(run'[p], k) <=> Serves(run[p], k)
    BY <1>1, <1>2, <1>3 DEF Serves
  <2>2. Todo(k)' = Todo(k)
    BY <1>3, <2>1, TodoSame
  <2> QED BY <2>2 DEF Nums
<1>5. Asked(p)'
  BY <1>1, <1>2, <1>3, AsksNothing
<1>6. Nums(Todo(run[p].line)) = {}
  <2>1. \A q \in Cpu : ~Serves(run[q], run[p].line)
    BY <1>1 DEF Inv, RunsOnce, Serves
  <2> QED BY <1>3, <2>1 DEF Todo, Nums
<1>7. ASSUME NEW i, NEW u, CanLead(i, u), Comes(p, i, u) PROVE Comes(p, i, u)'
  <2>1. i.n \in Nums(Todo(i.line)) => run[p].line # i.line
    BY <1>6
  <2>2. i.n \in Nums(Todo(i.line)) /\ Soon(p, i.line) => Soon(p, i.line)'
    BY <1>3, <2>1 DEF Soon
  <2>3. /\ Nums(Todo(i.line))' = Nums(Todo(i.line)) /\ Nums(Todo(u.line))' = Nums(Todo(u.line))
        /\ AtHand(run'[p], u.line) = {}
    BY <1>2, <1>3, <1>4, <1>7, NotAtHand DEF CanLead
  <2>4. Behind(p, i, u) => Behind(p, i, u)'
    BY <1>2, <1>3, <2>3 DEF Behind
  <2> QED BY <1>3, <1>7, <2>2, <2>3, <2>4 DEF Comes
<1> QED BY <1>3, <1>5, <1>7, LeadsIf

LEMMA LeadsFinish == ASSUME Inv, Order, NEW p \in Cpu, Leads(p), Finish(p) PROVE Leads(p)'
<1>1. run[p].at = "end" /\ run'[p] = Idle /\ \A q \in Cpu : q # p => run'[q] = run[q]
  BY DEF Finish, Goes, Inv, TypeOK
<1>2. UNCHANGED <<sent, queue, tasklets, batch, begun, led>>
  BY DEF Finish, cpuVars
<1>3. Idle.at = "idle" /\ Idle.line = None /\ Idle.item = None /\ Idle.asked = None
  BY DEF Idle
<1>4. \A k \in Line : Nums(Todo(k))' = Nums(Todo(k))
  <2> TAKE k \in Line
  <2>1. Serves(run'[p], k) <=> Serves(run[p], k)
    BY <1>1, <1>3 DEF Serves
  <2>2. Todo(k)' = Todo(k)
    BY <1>1, <1>2, <2>1, TodoSame
  <2> QED BY <2>2 DEF Nums
<1>5. Asked(p)'
  BY <1>1, <1>3, AsksNothing
<1>6. ASSUME NEW i, NEW u, CanLead(i, u), Comes(p, i, u) PROVE Comes(p, i, u)'
  <2>1. Soon(p, i.line) => Soon(p, i.line)'
    BY <1>1, <1>2 DEF Soon
  <2>2. /\ Nums(Todo(i.line))' = Nums(Todo(i.line)) /\ Nums(Todo(u.line))' = Nums(Todo(u.line))
        /\ AtHand(run'[p], u.line) = {}
    BY <1>1, <1>3, <1>4, <1>6, NotAtHand DEF CanLead
  <2>3. Behind(p, i, u) => Behind(p, i, u)'
    BY <1>1, <1>2, <1>3, <1>6, <2>2, NoneAssumption DEF Behind, CanLead
  <2> QED BY <1>2, <1>6, <2>1, <2>2, <2>3 DEF Comes
<1> QED BY <1>2, <1>5, <1>6, LeadsIf

LEMMA LeadsPassUp == ASSUME Inv, Order, NEW p \in Cpu, Leads(p), PassUp(p) PROVE Leads(p)'
<1>1. run[p].at = "test" /\ run[p].asked = None /\ run[p].line # None
  BY NotAsking DEF PassUp, Inv, Shape, Fits
<1>2. PICK l \in Line : l = run[p].line /\ l.by = "rx" /\ queue[l] # <<>>
  BY <1>1, RunFacts DEF PassUp, Inv
<1>3. queue' = [queue EXCEPT ![l] = Tail(@)] /\ UNCHANGED <<sent, tasklets, batch, run, begun, led>>
  BY <1>2 DEF PassUp
<1>4. \A k \in Line : k # l => queue'[k] = queue[k]
  BY <1>3 DEF Inv, TypeOK
<1>5. ASSUME NEW k \in Line, k # l PROVE Nums(Todo(k))' = Nums(Todo(k))
  <2>1. Todo(k)' = Todo(k)
    BY <1>3, <1>4, <1>5, TodoSame
  <2> QED BY <2>1 DEF Nums
<1>6. Asked(p)'
  BY <1>1, <1>3, AsksNothing
<1>7. \A i, u : CanLead(i, u) /\ Comes(p, i, u) => Comes(p, i, u)'
  <2>1. \A k \in Line : /\ k.by = "ioctl" \/ k # run[p].line => Nums(Todo(k)) \subseteq Nums(Todo(k))'
                        /\ 1..sent[k] \subseteq 1..sent'[k]
                        /\ k.by = "rx" => AtHand(run'[p], k) \subseteq AtHand(run[p], k)
    BY <1>2, <1>3, <1>5
  <2> QED BY <1>3, <2>1, ComesOn
<1> QED BY <1>3, <1>6, <1>7, LeadsIf

LEMMA LeadsPassDown == ASSUME Inv, Order, NEW p \in Cpu, Leads(p), PassDown(p) PROVE Leads(p)'
<1>1. run[p].at = "test" /\ run[p].asked = None /\ run[p].line # None /\ run[p] \in Run
  BY NotAsking DEF PassDown, Inv, Shape, Fits, TypeOK
<1>2. PICK l \in Line : l = run[p].line /\ l.by = "tx" /\ queue[l] # <<>>
  BY <1>1, RunFacts DEF PassDown, Inv
<1>3. PICK h \in Item : h = Head(queue[l]) /\ h.line = l
  BY <1>2, FirstOf
<1> DEFINE r == [run[p] EXCEPT !.at = "lock", !.item = h]
<1>4. r.at = "lock" /\ r.item = h /\ r.line = l /\ r.asked = None
  BY <1>1, <1>2 DEF Run
<1>5. /\ run'[p] = r /\ \A q \in Cpu : q # p => run'[q] = run[q]
      /\ queue' = [queue EXCEPT ![l] = Tail(@)] /\ UNCHANGED <<sent, tasklets, batch, begun, led>>
  BY <1>2, <1>3 DEF PassDown, Goes, Inv, TypeOK, cpuVars
<1> HIDE DEF r
<1>6. \A k \in Line : k # l => Nums(Todo(k))' = Nums(Todo(k))
  <2> TAKE k \in Line
  <2>1. Serves(run'[p], k) <=> Serves(run[p], k)
    BY <1>1, <1>4, <1>5 DEF Serves
  <2>2. k # l => queue'[k] = queue[k]
    BY <1>5 DEF Inv, TypeOK
  <2>3. k # l => Todo(k)' = Todo(k)
    BY <1>5, <2>1, <2>2, TodoSame
  <2> QED BY <2>3 DEF Nums
<1>7. Asked(p)'
  BY <1>4, <1>5, AsksNothing, NoneAssumption
<1>8. \A i, u : CanLead(i, u) /\ Comes(p, i, u) => Comes(p, i, u)'
  <2>1. \A k \in Line : /\ k.by = "ioctl" \/ k # run[p].line => Nums(Todo(k)) \subseteq Nums(Todo(k))'
                        /\ 1..sent[k] \subseteq 1..sent'[k]
                        /\ k.by = "rx" => AtHand(run'[p], k) \subseteq AtHand(run[p], k)
    BY <1>2, <1>3, <1>4, <1>5, <1>6 DEF AtHand
  <2> QED BY <1>2, <1>4, <1>5, <2>1, ComesOn
<1> QED BY <1>5, <1>7, <1>8, LeadsIf

LEMMA LeadsPassIoctl == ASSUME Inv, Order, NEW p \in Cpu, Leads(p), PassIoctl(p) PROVE Leads(p)'
<1>1. run[p].at = "test" /\ run[p].asked = None /\ run[p].line # None /\ run[p] \in Run
  BY NotAsking DEF PassIoctl, Inv, Shape, Fits, TypeOK
<1>2. PICK l \in Line : l = run[p].line /\ l.by = "ioctl" /\ queue[l] # <<>>
  BY <1>1, RunFacts DEF PassIoctl, Inv
<1>3. PICK h \in Item : h = Head(queue[l]) /\ h.line = l
  BY <1>2, FirstOf
<1> DEFINE r == [run[p] EXCEPT !.at = "lock", !.item = h]
<1>4. r.at = "lock" /\ r.item = h /\ r.line = l /\ r.asked = None
  BY <1>1, <1>2 DEF Run
<1>5. /\ run'[p] = r /\ \A q \in Cpu : q # p => run'[q] = run[q]
      /\ UNCHANGED <<sent, queue, tasklets, batch, begun, led>>
  BY <1>2, <1>3 DEF PassIoctl, Goes, Inv, TypeOK, cpuVars
<1> HIDE DEF r
<1>6. \A k \in Line : Nums(Todo(k))' = Nums(Todo(k))
  <2> TAKE k \in Line
  <2>1. Serves(run'[p], k) <=> Serves(run[p], k)
    BY <1>1, <1>4, <1>5 DEF Serves
  <2>2. Todo(k)' = Todo(k)
    BY <1>5, <2>1, TodoSame
  <2> QED BY <2>2 DEF Nums
<1>7. Asked(p)'
  BY <1>4, <1>5, AsksNothing, NoneAssumption
<1>8. \A i, u : CanLead(i, u) /\ Comes(p, i, u) => Comes(p, i, u)'
  <2>1. \A k \in Line : /\ k.by = "ioctl" \/ k # run[p].line => Nums(Todo(k)) \subseteq Nums(Todo(k))'
                        /\ 1..sent[k] \subseteq 1..sent'[k]
                        /\ k.by = "rx" => AtHand(run'[p], k) \subseteq AtHand(run[p], k)
    BY <1>2, <1>3, <1>4, <1>5, <1>6 DEF AtHand
  <2> QED BY <1>2, <1>4, <1>5, <2>1, ComesOn
<1> QED BY <1>5, <1>7, <1>8, LeadsIf

LEMMA LeadsIoctlDone == ASSUME Inv, Order, NEW p \in Cpu, Leads(p), IoctlDone(p) PROVE Leads(p)'
<1>1. run[p].at = "remove" /\ run[p].asked = None /\ run[p].line # None /\ run[p].line.by = "ioctl"
      /\ run[p] \in Run
  BY NotAsking DEF IoctlDone, Inv, Shape, Fits, TypeOK
<1>2. PICK l \in Line : l = run[p].line
  BY <1>1, RunFacts DEF Inv
<1> DEFINE r == [run[p] EXCEPT !.at = "test"]
<1>3. r.at = "test" /\ r.line = l /\ r.asked = None
  BY <1>1, <1>2 DEF Run
<1>4. /\ run'[p] = r /\ \A q \in Cpu : q # p => run'[q] = run[q]
      /\ queue'[l] = Tail(queue[l]) /\ \A k \in Line : k # l => queue'[k] = queue[k]
      /\ UNCHANGED <<sent, tasklets, batch, begun, led>>
  BY <1>2 DEF IoctlDone, Goes, Inv, TypeOK, cpuVars
<1> HIDE DEF r
<1>5. \A q \in Cpu : q # p => run[q].line # l
  BY <1>2, NoneAssumption DEF Inv, RunsOnce
<1>6. \A k \in Line : Nums(Todo(k))' = Nums(Todo(k))
  <2> SUFFICES ASSUME NEW k \in Line PROVE Todo(k)' = Todo(k)
    BY DEF Nums
  <2>1. CASE k = l
    <3>1. Serves(run[p], l) /\ \A q \in Cpu : ~Serves(run'[q], l)
      BY <1>1, <1>2, <1>3, <1>4, <1>5 DEF Serves
    <3> QED BY <1>4, <2>1, <3>1 DEF Todo
  <2>2. CASE k # l
    <3>1. Serves(run'[p], k) <=> Serves(run[p], k)
      BY <1>2, <1>3, <1>4, <2>2 DEF Serves
    <3> QED BY <1>4, <2>2, <3>1, TodoSame
  <2> QED BY <2>1, <2>2
<1>7. Asked(p)'
  BY <1>2, <1>3, <1>4, AsksNothing, NoneAssumption
<1>8. \A i, u : CanLead(i, u) /\ Comes(p, i, u) => Comes(p, i, u)'
  <2>1. \A k \in Line : /\ k.by = "ioctl" \/ k # run[p].line => Nums(Todo(k)) \subseteq Nums(Todo(k))'
                        /\ 1..sent[k] \subseteq 1..sent'[k]
                        /\ k.by = "rx" => AtHand(run'[p], k) \subseteq AtHand(run[p], k)
    BY <1>3, <1>4, <1>6 DEF AtHand
  <2> QED BY <1>2, <1>3, <1>4, <2>1, ComesOn
<1> QED BY <1>4, <1>7, <1>8, LeadsIf

LEMMA LeadsCall == ASSUME Inv, Order, NEW p \in Cpu, NEW m \in Module, Leads(p), Call(p, m) PROVE Leads(p)'
<1> DEFINE r == [run[p] EXCEPT !.at = "lock", !.item = [line |-> None, n |-> 0, to |-> m]]
<1>1. run[p] = Idle /\ run[p].line = None /\ run[p].asked = None
  BY IdleAsksNothing DEF Call
<1>2. r.at = "lock" /\ r.item.line = None /\ r.line = None /\ r.asked = None
  BY <1>1 DEF Idle
<1>3. /\ run'[p] = r /\ \A q \in Cpu : q # p => run'[q] = run[q]
      /\ UNCHANGED <<sent, queue, tasklets, batch, begun, led>>
  BY DEF Call, Goes, Inv, TypeOK, cpuVars
<1> HIDE DEF r
<1>4. \A k \in Line : Nums(Todo(k))' = Nums(Todo(k))
  <2> TAKE k \in Line
  <2>1. Serves(run'[p], k) <=> Serves(run[p], k)
    BY <1>1, <1>2, <1>3 DEF Serves, Idle
  <2>2. Todo(k)' = Todo(k)
    BY <1>3, <2>1, TodoSame
  <2> QED BY <2>2 DEF Nums
<1>5. Asked(p)'
  BY <1>2, <1>3, AsksNothing
<1>6. \A i, u : CanLead(i, u) /\ Comes(p, i, u) => Comes(p, i, u)'
  <2>1. \A k \in Line : /\ k.by = "ioctl" \/ k # run[p].line => Nums(Todo(k)) \subseteq Nums(Todo(k))'
                        /\ 1..sent[k] \subseteq 1..sent'[k]
                        /\ k.by = "rx" => AtHand(run'[p], k) \subseteq AtHand(run[p], k)
    BY <1>2, <1>3, <1>4, NoneAssumption DEF AtHand
  <2> QED BY <1>1, <1>2, <1>3, <2>1, ComesOn
<1> QED BY <1>3, <1>5, <1>6, LeadsIf

LEMMA LeadsReturn == ASSUME Inv, Order, NEW p \in Cpu, Leads(p), Return(p) PROVE Leads(p)'
<1> DEFINE l == run[p].line
           r == IF l = None THEN Idle
                ELSE [Idle EXCEPT !.at = IF l.by = "ioctl" THEN "remove" ELSE "test", !.line = l]
<1>1. r.at \in {"idle", "remove", "test"} /\ r.line = l /\ (r.at = "remove" <=> l # None /\ l.by = "ioctl")
      /\ r.asked = None /\ r.item = None
  BY DEF Idle
<1>2. /\ run[p].at = "body" /\ run'[p] = r /\ \A q \in Cpu : q # p => run'[q] = run[q]
      /\ UNCHANGED <<sent, queue, tasklets, batch, begun, led>>
  BY DEF Return, Goes, Inv, TypeOK, cpuVars
<1> HIDE DEF r
<1>3. \A k \in Line : Nums(Todo(k))' = Nums(Todo(k))
  <2> TAKE k \in Line
  <2>1. Serves(run'[p], k) <=> Serves(run[p], k)
    BY <1>1, <1>2, NoneAssumption DEF Serves
  <2>2. Todo(k)' = Todo(k)
    BY <1>2, <2>1, TodoSame
  <2> QED BY <2>2 DEF Nums
<1>4. Asked(p)'
  BY <1>1, <1>2, AsksNothing
<1>5. \A i, u : CanLead(i, u) /\ Comes(p, i, u) => Comes(p, i, u)'
  <2>1. \A k \in Line : /\ k.by = "ioctl" \/ k # run[p].line => Nums(Todo(k)) \subseteq Nums(Todo(k))'
                        /\ 1..sent[k] \subseteq 1..sent'[k]
                        /\ k.by = "rx" => AtHand(run'[p], k) \subseteq AtHand(run[p], k)
    BY <1>1, <1>2, <1>3 DEF AtHand
  <2> QED BY <1>1, <1>2, <2>1, ComesOn
<1> QED BY <1>2, <1>4, <1>5, LeadsIf

LEMMA LeadsArrive ==
  ASSUME Inv, Order, NEW p \in Cpu, NEW l \in Line, NEW m \in Module, Leads(p), Arrive(p, l, m)
  PROVE  Leads(p)'
<1>1. sent[l] \in Nat /\ sent'[l] = sent[l] + 1 /\ (\A k \in Line : k # l => sent'[k] = sent[k])
  BY SentMore DEF Arrive
<1>2. run[p].at \notin {"body", "kick"} /\ UNCHANGED <<queue, tasklets, batch, run, begun, led>>
  BY DEF Arrive
<1>3. \A k \in Line : Nums(Todo(k))' = Nums(Todo(k))
  BY <1>2 DEF Todo, Nums
<1>4. Asked(p)'
  BY <1>2, NotAsking DEF Leads, Asked, InNetRx
<1>5. \A i, u : CanLead(i, u) /\ Comes(p, i, u) => Comes(p, i, u)'
  <2>1. \A k \in Line : 1..sent[k] \subseteq 1..sent'[k]
    <3> TAKE k \in Line
    <3> QED BY <1>1
  <2>2. \A k \in Line : /\ k.by = "ioctl" \/ k # run[p].line => Nums(Todo(k)) \subseteq Nums(Todo(k))'
                        /\ 1..sent[k] \subseteq 1..sent'[k]
                        /\ k.by = "rx" => AtHand(run'[p], k) \subseteq AtHand(run[p], k)
    BY <1>2, <1>3, <2>1
  <2> QED BY <1>2, <2>2, ComesOn
<1> QED BY <1>2, <1>4, <1>5, LeadsIf

LEMMA LeadsKick ==
  ASSUME Inv, Order, NEW p \in Cpu, setup.cpus = {p}, Leads(p), Kick(p)
  PROVE  Leads(p)'
<1>1. PICK l \in Line : l = run[p].kick
  BY RunFacts DEF Kick, Inv, Shape, Fits
<1> DEFINE r == [run[p] EXCEPT !.at = "body", !.kick = None]
<1>2. run[p].at = "kick" /\ run[p] \in Run
  BY DEF Kick, Inv, TypeOK
<1>3. r.at = "body" /\ r.line = run[p].line /\ r.item = run[p].item /\ r.asked = run[p].asked
  BY <1>2 DEF Run
<1>4. /\ run'[p] = r /\ \A q \in Cpu : q # p => run'[q] = run[q]
      /\ UNCHANGED <<sent, queue, batch, begun, led>>
  BY DEF Kick, Goes, Inv, TypeOK
<1> HIDE DEF r
<1>5. tasklets[p] \in Seq(Line) /\ IF sched[l] THEN tasklets'[p] = tasklets[p]
                                   ELSE tasklets'[p] = Append(tasklets[p], l)
  BY <1>1 DEF Kick, Inv, TypeOK
<1>6. \A x : Contains(tasklets[p], x) => Contains(tasklets'[p], x)
  BY <1>5, AppendFacts
<1>7. batch[p] = <<>> => Contains(tasklets'[p], l)
  <2>1. CASE sched[l]
    <3>1. PICK q \in Cpu : Has(q, l)
      BY <2>1 DEF Inv, Listed
    <3>2. q = p
      BY <3>1, EmptyHasNothing DEF Has, Order, Online
    <3>3. batch[p] = <<>> => ~Contains(batch[p], l)
      BY EmptyHasNothing
    <3> QED BY <1>6, <3>1, <3>2, <3>3 DEF Has
  <2>2. CASE ~sched[l]
    <3>1. tasklets[p] \in Seq(Line) /\ tasklets'[p] = Append(tasklets[p], l)
      BY <1>5, <2>2
    <3>2. Contains(Append(tasklets[p], l), l)
      BY <3>1, AppendFacts
    <3> QED BY <3>1, <3>2
  <2> QED BY <2>1, <2>2
<1>8. \A k \in Line : Nums(Todo(k))' = Nums(Todo(k))
  <2> TAKE k \in Line
  <2>1. Serves(run'[p], k) <=> Serves(run[p], k)
    BY <1>2, <1>3, <1>4 DEF Serves
  <2>2. Todo(k)' = Todo(k)
    BY <1>4, <2>1, TodoSame
  <2> QED BY <2>2 DEF Nums
<1>9. Asked(p)'
  <2>1. InNetRx(p)' <=> InNetRx(p)
    BY <1>3, <1>4 DEF InNetRx
  <2>2. run[p].item # None
    BY <1>2 DEF Inv, Shape, Fits
  <2>3. ASSUME run[p].asked # None PROVE AskedFor(p, run[p].asked)'
    <3>1. PICK i : i = run[p].asked
      OBVIOUS
    <3>2. AskedFor(p, i)
      BY <2>3, <3>1 DEF Leads, Asked
    <3>3. batch[p] = <<>>
      BY <2>2, <3>2 DEF Leads, Asked, AskedFor
    <3>4. run'[p].asked = i
      BY <1>3, <1>4, <3>1
    <3>5. Nums(Todo(i.line))' = Nums(Todo(i.line))
      BY <1>8, <3>2 DEF AskedFor
    <3>6. AskedFor(p, i)'
      BY <1>1, <1>3, <1>4, <1>6, <1>7, <2>1, <3>2, <3>3, <3>5 DEF AskedFor
    <3> QED BY <1>3, <1>4, <3>1, <3>4, <3>6 DEF AskedFor
  <2>4. InNetRx(p) => batch[p] = <<>>
    BY <2>2 DEF Leads, Asked
  <2> QED BY <1>3, <1>4, <2>1, <2>3, <2>4 DEF Asked, AskedFor
<1>10. \A i, u : CanLead(i, u) /\ Comes(p, i, u) => Comes(p, i, u)'
  <2>1. \A k \in Line : /\ k.by = "ioctl" \/ k # run[p].line => Nums(Todo(k)) \subseteq Nums(Todo(k))'
                        /\ 1..sent[k] \subseteq 1..sent'[k]
                        /\ k.by = "rx" => AtHand(run'[p], k) \subseteq AtHand(run[p], k)
    BY <1>3, <1>4, <1>8 DEF AtHand
  <2> QED BY <1>3, <1>4, <1>6, <2>1, ComesOn
<1> QED BY <1>4, <1>9, <1>10, LeadsIf

LEMMA OnlyAppended ==
  ASSUME NEW S, NEW s \in Seq(S), NEW e \in S, NEW x, Contains(Append(s, e), x)
  PROVE  Contains(s, x) \/ x = e
<1>1. /\ Len(Append(s, e)) = Len(s) + 1 /\ Append(s, e)[Len(s) + 1] = e
      /\ Len(s) \in Nat /\ \A i \in 1..Len(s) : Append(s, e)[i] = s[i]
  OBVIOUS
<1>2. PICK i \in 1..(Len(s) + 1) : Append(s, e)[i] = x
  BY <1>1 DEF Contains
<1> QED BY <1>1, <1>2 DEF Contains

LEMMA LeadsLock == ASSUME Inv, Order, NEW p \in Cpu, Leads(p), Lock(p) PROVE Leads(p)'
<1>1. run[p].at = "lock" /\ run[p].asked = None /\ run[p].item # None /\ run[p] \in Run
  BY NotAsking DEF Lock, Inv, Shape, Fits, TypeOK
<1>2. PICK x \in Item : x = run[p].item
  BY <1>1, RunFacts DEF Inv
<1> DEFINE r == [run[p] EXCEPT !.at = "body"]
<1>3. r.at = "body" /\ r.line = run[p].line /\ r.item = run[p].item /\ r.asked = None
  BY <1>1 DEF Run
<1>4. /\ run'[p] = r /\ \A q \in Cpu : q # p => run'[q] = run[q]
      /\ UNCHANGED <<sent, queue, tasklets, batch, led>>
  BY DEF Lock, Goes, Inv, TypeOK, cpuVars
<1> HIDE DEF r
<1>5. \A k \in Line : /\ x.line = k => begun'[k] = Append(begun[k], x.n)
                      /\ x.line # k => begun'[k] = begun[k]
                      /\ begun[k] \in Seq(0..MaxItem)
  BY <1>2, NoneAssumption DEF Lock, Inv, TypeOK
<1>6. x.n \in 0..MaxItem
  BY DEF Item
<1>7. \A k \in Line : /\ \A n : Contains(begun[k], n) => Contains(begun'[k], n)
                      /\ x.line = k => Contains(begun'[k], x.n)
                      /\ \A n : Contains(begun'[k], n) => Contains(begun[k], n) \/ (x.line = k /\ n = x.n)
  <2> TAKE k \in Line
  <2>1. CASE x.line = k
    <3>1. begun[k] \in Seq(0..MaxItem) /\ begun'[k] = Append(begun[k], x.n)
      BY <1>5, <2>1
    <3>2. /\ \A n : Contains(begun[k], n) => Contains(Append(begun[k], x.n), n)
          /\ Contains(Append(begun[k], x.n), x.n)
      BY <1>6, <3>1, AppendFacts
    <3>3. \A n : Contains(Append(begun[k], x.n), n) => Contains(begun[k], n) \/ n = x.n
      BY <1>6, <3>1, OnlyAppended
    <3> QED BY <2>1, <3>1, <3>2, <3>3
  <2>2. CASE x.line # k
    BY <1>5, <2>2
  <2> QED BY <2>1, <2>2
<1>8. Asked(p)'
  BY <1>1, <1>3, <1>4 DEF Asked, Leads, InNetRx
<1>9. ASSUME NEW k \in Line, k.by # "ioctl" PROVE Nums(Todo(k))' = Nums(Todo(k))
  BY <1>4, <1>9, TodoIsQueue DEF Nums
<1>10. ASSUME NEW k \in Line, k.by = "ioctl"
       PROVE  \A n \in Nums(Todo(k)) : n \in Nums(Todo(k))' \/ (x.line = k /\ n = x.n)
  <2>1. CASE x.line = k
    <3>1. /\ run[p].line = k /\ queue[k] # <<>> /\ x = Head(queue[k]) /\ Todo(k) = queue[k]
      BY <1>1, <1>2, <1>10, <2>1, AtLock
    <3>2. Todo(k)' = Tail(queue[k])
      BY <1>3, <1>4, <1>10, <3>1 DEF Todo, Serves
    <3>3. Nums(Todo(k)) = Nums(Tail(queue[k])) \cup {x.n}
      BY <3>1, FirstOf
    <3> QED BY <2>1, <3>2, <3>3 DEF Nums
  <2>2. CASE x.line # k
    <3>1. run[p].line # k
      BY <1>1, <1>2, <2>2, NoneAssumption DEF Order, InHands, FromLine
    <3>2. Serves(run'[p], k) <=> Serves(run[p], k)
      BY <1>3, <1>4, <3>1 DEF Serves
    <3>3. Todo(k)' = Todo(k)
      BY <1>4, <3>2, TodoSame
    <3> QED BY <3>3 DEF Nums
  <2> QED BY <2>1, <2>2
<1>11. ASSUME NEW i, NEW u, CanLead(i, u), Comes(p, i, u), ~Contains(begun'[i.line], i.n)
       PROVE  Comes(p, i, u)'
  <2>1. /\ i.n \in Nums(Todo(i.line)) /\ u.n \in 1..sent[u.line]
        /\ ~Contains(begun[u.line], u.n) /\ u.n \notin AtHand(run[p], u.line)
        /\ Soon(p, i.line) \/ Behind(p, i, u)
    BY <1>7, <1>11 DEF Comes, CanLead
  <2>2. i.n \in Nums(Todo(i.line))'
    BY <1>7, <1>10, <1>11, <2>1 DEF CanLead
  <2>3. ~Contains(begun'[u.line], u.n)
    BY <1>1, <1>2, <1>7, <1>11, <2>1 DEF CanLead, AtHand
  <2>4. AtHand(run'[p], u.line) = {}
    BY <1>3, <1>4 DEF AtHand
  <2>5. Soon(p, i.line) => Soon(p, i.line)'
    BY <1>3, <1>4 DEF Soon
  <2>6. Behind(p, i, u) => Behind(p, i, u)'
    <3>1. Nums(Todo(u.line))' = Nums(Todo(u.line))
      BY <1>9, <1>11 DEF CanLead
    <3> QED BY <1>3, <1>4, <3>1 DEF Behind
  <2> QED BY <1>4, <2>1, <2>2, <2>3, <2>4, <2>5, <2>6 DEF Comes
<1>12. \A i, u : CanLead(i, u) /\ Comes(p, i, u) => Comes(p, i, u)'
  <2>1. \A i, u : Contains(begun'[i.line], i.n) => Comes(p, i, u)'
    BY DEF Comes
  <2> QED BY <1>11, <2>1
<1> QED BY <1>4, <1>8, <1>12, LeadsIf

LEMMA LeadsSend ==
  ASSUME Inv, Order, NEW p \in Cpu, NEW l \in Line, NEW m \in Module, Leads(p), Send(p, l, m)
  PROVE  Leads(p)'
<1>1. sent[l] \in Nat /\ sent'[l] = sent[l] + 1 /\ (\A k \in Line : k # l => sent'[k] = sent[k])
      /\ sent[l] + 1 \in 0..MaxItem
  BY SentMore DEF Send
<1>2. PICK i \in Item : i = [line |-> l, n |-> sent[l] + 1, to |-> m]
  BY <1>1 DEF Item
<1>3. run[p].at = "body" /\ run[p] \in Run /\ run[p].item # None /\ run[p].kick = None
  BY DEF Send, Inv, TypeOK, Shape, Fits
<1>4. PICK a : a = IF InNetRx(p) /\ l.by = "ioctl" THEN i ELSE run[p].asked
  OBVIOUS
<1>5. a \in Item \cup {None}
  BY <1>3, <1>4 DEF Run
<1> DEFINE r == [run[p] EXCEPT !.at = "kick", !.kick = l, !.asked = a]
<1>6. r.at = "kick" /\ r.line = run[p].line /\ r.item = run[p].item /\ r.asked = a /\ r.kick = l
  BY <1>3 DEF Run
<1>7. Goes(p, r)
  BY <1>2, <1>4 DEF Send, Goes
<1> HIDE DEF r
<1>8. /\ run'[p] = r /\ \A q \in Cpu : q # p => run'[q] = run[q]
      /\ queue'[l] = Append(queue[l], i) /\ \A k \in Line : k # l => queue'[k] = queue[k]
      /\ UNCHANGED <<tasklets, batch, begun>>
  BY <1>2, <1>7 DEF Send, Goes, Inv, TypeOK, cpuVars
<1>9. led' = led \/ (l.by = "rx" /\ run[p].asked # None /\ led' = led \cup {<<run[p].asked, i>>})
  BY <1>2 DEF Send
<1>10. \A q \in Cpu, k \in Line : Serves(run'[q], k) <=> Serves(run[q], k)
  BY <1>3, <1>6, <1>8 DEF Serves
<1>11. Nums(Todo(l))' = Nums(Todo(l)) \cup {i.n}
  <2>1. Todo(l)' = Append(Todo(l), i) /\ Todo(l) \in Seq(Item)
    BY <1>8, <1>10, TodoGrows
  <2>2. Nums(Append(Todo(l), i)) = Nums(Todo(l)) \cup {i.n}
    BY <2>1, NumsAppend
  <2> QED BY <2>1, <2>2 DEF Nums
<1>12. \A k \in Line : Nums(Todo(k)) \subseteq Nums(Todo(k))'
  <2> TAKE k \in Line
  <2>1. CASE k = l
    BY <1>11, <2>1
  <2>2. CASE k # l
    <3>1. Todo(k)' = Todo(k)
      BY <1>8, <1>10, <2>2, TodoSame
    <3> QED BY <3>1 DEF Nums
  <2> QED BY <2>1, <2>2
<1>13. InNetRx(p)' <=> InNetRx(p)
  BY <1>6, <1>8 DEF InNetRx
<1>14. ASSUME run[p].asked # None
       PROVE  /\ AskedFor(p, run[p].asked) /\ batch[p] = <<>> /\ run[p].line = None
              /\ Contains(begun[run[p].asked.line], run[p].asked.n)
                 \/ Contains(tasklets[p], run[p].asked.line)
  <2>1. AskedFor(p, run[p].asked)
    BY <1>14 DEF Leads, Asked
  <2>2. run[p].asked.line # None /\ InNetRx(p)
    BY <2>1, NoneAssumption DEF AskedFor
  <2> QED BY <1>3, <2>1, <2>2 DEF AskedFor, Leads, Asked, InNetRx
<1>15. Asked(p)'
  <2>1. InNetRx(p) => batch[p] = <<>>
    BY <1>3 DEF Leads, Asked
  <2>2. ASSUME a # None PROVE AskedFor(p, a)'
    <3>1. CASE InNetRx(p) /\ l.by = "ioctl"
      <4>1. a.line = l /\ a.n = i.n
        BY <1>2, <1>4, <3>1
      <4>2. a.n \in Nums(Todo(a.line))'
        BY <1>11, <4>1
      <4> QED BY <1>6, <1>8, <1>13, <3>1, <4>1, <4>2 DEF AskedFor
    <3>2. CASE ~(InNetRx(p) /\ l.by = "ioctl")
      <4>1. a = run[p].asked
        BY <1>4, <3>2
      <4>2. /\ AskedFor(p, a)
            /\ Contains(begun[a.line], a.n) \/ Contains(tasklets[p], a.line)
        BY <1>14, <2>2, <4>1
      <4>3. a.n \in Nums(Todo(a.line)) => a.n \in Nums(Todo(a.line))'
        BY <1>12, <4>2 DEF AskedFor
      <4> QED BY <1>6, <1>8, <1>13, <4>2, <4>3 DEF AskedFor
    <3> QED BY <3>1, <3>2
  <2>3. run'[p].asked = a
    BY <1>6, <1>8
  <2>4. a # None => AskedFor(p, run[p].asked)'
    BY <2>2, <2>3 DEF AskedFor
  <2> QED BY <1>8, <1>13, <2>1, <2>3, <2>4 DEF Asked
<1>16. \A j, u : CanLead(j, u) /\ Comes(p, j, u) => Comes(p, j, u)'
  <2>1. \A k \in Line : 1..sent[k] \subseteq 1..sent'[k]
    <3> TAKE k \in Line
    <3> QED BY <1>1
  <2>2. \A k \in Line : /\ k.by = "ioctl" \/ k # run[p].line => Nums(Todo(k)) \subseteq Nums(Todo(k))'
                        /\ 1..sent[k] \subseteq 1..sent'[k]
                        /\ k.by = "rx" => AtHand(run'[p], k) \subseteq AtHand(run[p], k)
    BY <1>6, <1>8, <1>12, <2>1 DEF AtHand
  <2> QED BY <1>6, <1>8, <2>2, ComesOn
<1>17. CASE led' = led
  BY <1>15, <1>16, <1>17, LeadsIf
<1>18. CASE l.by = "rx" /\ run[p].asked # None /\ led' = led \cup {<<run[p].asked, i>>}
  <2>1. PICK j : j = run[p].asked
    OBVIOUS
  <2>2. /\ AskedFor(p, j) /\ batch[p] = <<>> /\ run[p].line = None
        /\ Contains(begun[j.line], j.n) \/ Contains(tasklets[p], j.line)
    BY <1>14, <1>18, <2>1
  <2>3. CanLead(j, i)
    BY <1>2, <1>18, <2>2 DEF CanLead, AskedFor
  <2>4. Comes(p, j, i)'
    <3>1. CASE Contains(begun[j.line], j.n)
      BY <1>8, <3>1 DEF Comes
    <3>2. CASE ~Contains(begun[j.line], j.n)
      <4>1. j.n \in Nums(Todo(j.line))' /\ Contains(tasklets'[p], j.line)
        BY <1>8, <1>12, <2>2, <3>2 DEF AskedFor
      <4>2. i.n \notin Done(l)
        <5>1. Done(l) \subseteq 1..sent[l]
          BY WithNumbers
        <5> QED BY <1>1, <1>2, <5>1
      <4>3. ~Contains(begun'[i.line], i.n)
        <5>1. begun[l] \in Seq(0..MaxItem)
          BY QueueTypes DEF Inv
        <5> QED BY <1>2, <1>8, <4>2, <5>1 DEF Contains, Done
      <4>4. i.n \in 1..sent'[i.line] /\ AtHand(run'[p], i.line) = {}
        BY <1>1, <1>2, <1>6, <1>8 DEF AtHand
      <4>5. i.n \in Nums(Todo(i.line))' /\ run'[p].line # i.line
        BY <1>2, <1>6, <1>8, <1>11, <2>2, NoneAssumption
      <4>6. Behind(p, j, i)'
        BY <1>8, <2>2, <4>1, <4>5, EmptyHasNothing DEF Behind
      <4> QED BY <4>1, <4>3, <4>4, <4>6 DEF Comes
    <3> QED BY <3>1, <3>2
  <2>5. ASSUME NEW pair \in led' PROVE CanLead(pair[1], pair[2]) /\ Comes(p, pair[1], pair[2])'
    <3>1. CASE pair \in led
      BY <1>16, <3>1 DEF Leads
    <3>2. CASE pair = <<j, i>>
      BY <2>3, <2>4, <3>2
    <3> QED BY <1>18, <2>1, <3>1, <3>2
  <2> QED BY <1>15, <2>5 DEF Leads, CanLead
<1> QED BY <1>9, <1>17, <1>18

LEMMA IndicatedStep == ASSUME Inv, Order, Indicated, [Next]_vars PROVE Indicated'
<1>1. setup' = setup
  <2>1. ASSUME NEW q \in Cpu, Softirq(q) \/ Serve(q) PROVE setup' = setup
    BY <2>1 DEF Softirq, Serve, NetRx, BeginBatch, PutBack, StartTasklet, Empty, Finish, PassUp, PassDown,
                PassIoctl, IoctlDone
  <2>2. ASSUME NEW q \in Cpu, Lock(q) \/ Kick(q) \/ Return(q) PROVE setup' = setup
    BY <2>2 DEF Lock, Kick, Return
  <2>3. ASSUME NEW q \in Cpu, NEW l \in Line, NEW m \in Module, Send(q, l, m) \/ Arrive(q, l, m)
        PROVE  setup' = setup
    BY <2>3 DEF Send, Arrive
  <2>4. ASSUME NEW q \in Cpu, NEW m \in Module, Call(q, m) PROVE setup' = setup
    BY <2>4 DEF Call
  <2> QED BY <2>1, <2>2, <2>3, <2>4 DEF Next, vars
<1> SUFFICES ASSUME NEW p \in setup.cpus, setup.cpus = {p} PROVE Leads(p)'
  BY <1>1 DEF Indicated
<1>2. p \in Cpu /\ Leads(p)
  BY SetupAssumption DEF Indicated, Inv, TypeOK
<1>3. CASE UNCHANGED vars
  <2>1. UNCHANGED <<sent, queue, tasklets, batch, run, begun, led>>
    BY <1>3 DEF vars, cpuVars
  <2>2. \A k \in Line : Nums(Todo(k))' = Nums(Todo(k))
    BY <2>1 DEF Todo, Nums
  <2>3. Asked(p)'
    <3>1. ASSUME NEW i, AskedFor(p, i) PROVE AskedFor(p, i)'
      <4>1. Nums(Todo(i.line))' = Nums(Todo(i.line))
        BY <2>2, <3>1 DEF AskedFor
      <4> QED BY <2>1, <3>1, <4>1 DEF AskedFor, InNetRx
    <3>2. run[p].asked # None => AskedFor(p, run[p].asked)
      BY <1>2 DEF Leads, Asked
    <3> QED BY <1>2, <2>1, <3>1, <3>2 DEF Asked, AskedFor, InNetRx, Leads
  <2>4. \A i, u : CanLead(i, u) /\ Comes(p, i, u) => Comes(p, i, u)'
    <3>1. \A k \in Line : /\ k.by = "ioctl" \/ k # run[p].line => Nums(Todo(k)) \subseteq Nums(Todo(k))'
                          /\ 1..sent[k] \subseteq 1..sent'[k]
                          /\ k.by = "rx" => AtHand(run'[p], k) \subseteq AtHand(run[p], k)
      BY <2>1, <2>2
    <3> QED BY <1>2, <2>1, <3>1, ComesOn
  <2> QED BY <1>2, <2>1, <2>3, <2>4, LeadsIf
<1>4. ASSUME NEW q \in Cpu, Softirq(q) PROVE Leads(p)'
  <2>1. q = p
    <3>1. tasklets[q] # <<>> \/ batch[q] # <<>> \/ backlog[q] # <<>>
      BY <1>4 DEF Softirq, NetRx, BeginBatch, PutBack, StartTasklet
    <3> QED BY <3>1, Active
  <2> QED BY <1>2, <1>4, <2>1, LeadsNetRx, LeadsBeginBatch, NoPutBack, LeadsStartTasklet DEF Softirq
<1>5. ASSUME NEW q \in Cpu, Serve(q) PROVE Leads(p)'
  <2>1. q = p
    <3>1. run[q].at # "idle"
      BY <1>5 DEF Serve, Empty, Finish, PassUp, PassDown, PassIoctl, IoctlDone
    <3> QED BY <3>1, Active
  <2> QED BY <1>2, <1>5, <2>1, LeadsEmpty, LeadsFinish, LeadsPassUp, LeadsPassDown, LeadsPassIoctl,
             LeadsIoctlDone DEF Serve
<1>6. ASSUME NEW q \in Cpu, Lock(q) \/ Kick(q) \/ Return(q) PROVE Leads(p)'
  <2>1. q = p
    BY <1>6, Active DEF Lock, Kick, Return
  <2> QED BY <1>2, <1>6, <2>1, LeadsLock, LeadsKick, LeadsReturn
<1>7. ASSUME NEW q \in Cpu, NEW l \in Line, NEW m \in Module, Send(q, l, m) \/ Arrive(q, l, m)
      PROVE  Leads(p)'
  <2>1. q = p
    BY <1>7, Active DEF Send, Arrive
  <2> QED BY <1>2, <1>7, <2>1, LeadsSend, LeadsArrive
<1>8. ASSUME NEW q \in Cpu, NEW m \in Module, Call(q, m) PROVE Leads(p)'
  <2>1. q = p
    BY <1>8 DEF Call
  <2> QED BY <1>2, <1>8, <2>1, LeadsCall
<1> QED BY <1>3, <1>4, <1>5, <1>6, <1>7, <1>8 DEF Next

\* For any modules and lines, on one CPU: the ioctl sent first is handled before
\* the packet (mac_pkthandler.c:996 of the base station relies on it).
THEOREM IndicationsFirst == Spec => []IndicationFirst
<1>1. Init => Inv /\ Order
  BY InvInit, OrderInit
<1>2. Init => Indicated
  <2> SUFFICES ASSUME Init, NEW p \in setup.cpus PROVE Leads(p)
    BY DEF Indicated
  <2>1. run[p] = Idle /\ led = {}
    BY SetupAssumption DEF Init
  <2> QED BY <2>1 DEF Leads, Asked, Idle
<1>3. Inv /\ Order /\ Indicated /\ [Next]_vars => Inv' /\ Order' /\ Indicated'
  BY InvStep, OrderStep, IndicatedStep
<1>4. Inv /\ Indicated => IndicationFirst
  <2> SUFFICES ASSUME Inv, Indicated, NEW p \in Cpu, setup.cpus = {p}, NEW pair \in led,
                      Contains(begun[pair[2].line], pair[2].n)
               PROVE  Contains(begun[pair[1].line], pair[1].n)
    BY DEF IndicationFirst, OneCpu
  <2>1. Leads(p)
    BY DEF Indicated
  <2> QED BY <2>1 DEF Leads, Comes
<1> QED BY <1>1, <1>2, <1>3, <1>4, PTL DEF Spec
=============================================================================
