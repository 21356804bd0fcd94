------------------------------ MODULE RlcProofs ------------------------------
(***************************************************************************)
(* Theorems about RlcAm, for every size of the window, polling interval and   *)
(* threshold: the transmitter keeps what it has not given up; and, as long as *)
(* the air overtakes by less than a window, no status acknowledges what has   *)
(* not come and the bearer implements RlcService.  Theorems about             *)
(* RlcUmSegment, for every sizes of SDUs and of what MAC offers, any losses   *)
(* and any modulus: PDCP gets whole SDUs in order, each whose octets arrived, *)
(* and MAC is told of all that waits.                                        *)
(***************************************************************************)
EXTENDS RlcAm, RlcUmSegment, FiniteSetTheorems, SequenceTheorems, WellFoundedInduction, TLAPS

\* A number below the modulus is its own remainder.
LEMMA SmallRemainder ==
  ASSUME NEW m \in Nat, NEW n \in 0 .. m - 1
  PROVE  n % m = n
OBVIOUS

\* A new unit is sent only while the window is open, and so before the numbers
\* wrap.
LEMMA OpenWindow ==
  ASSUME vt_s \in 0 .. W, isInsideTranWin(vt_s)
  PROVE  vt_s < W /\ (vt_s + 1) % M = vt_s + 1
<1>1. M \in Nat /\ W < M /\ W \in Nat
  BY WAssumption DEF M
<1>2. vt_s % M = vt_s /\ W % M = W
  <2>1. vt_s \in 0 .. M - 1 /\ W \in 0 .. M - 1
    BY <1>1
  <2> QED BY <1>1, <2>1, SmallRemainder
<1>3. vt_s - vt_a = vt_s /\ vt_ms - vt_a = W
  BY <1>1 DEF vt_a, vt_ms
<1>4. vt_s < W
  BY <1>2, <1>3 DEF isInsideTranWin
<1>5. vt_s + 1 \in 0 .. M - 1
  BY <1>1, <1>4
<1> QED BY <1>1, <1>4, <1>5, SmallRemainder

-----------------------------------------------------------------------------
(* The inductive invariant.  The window does not move, so that the numbers    *)
(* sent are all of those below vt_s; what waits for retransmission is a copy. *)
KeptInv ==
  /\ vt_s \in 0 .. W
  /\ Kept
  /\ retx \subseteq transmitted

\* Most steps leave the transmitter's lists alone.
LEMMA Untouched ==
  ASSUME KeptInv, UNCHANGED <<vt_s, transmitted, retx, abandoned>>
  PROVE  KeptInv'
BY DEF KeptInv, Kept

LEMMA TransmitKeeps == KeptInv /\ Transmit => KeptInv'
<1> SUFFICES ASSUME KeptInv, Transmit PROVE KeptInv'
  OBVIOUS
<1>1. vt_s < W /\ vt_s' = vt_s + 1
  BY OpenWindow DEF KeptInv, Transmit
<1>2. transmitted' = transmitted \cup {vt_s} /\ retx' = retx /\ abandoned' = abandoned
  BY DEF Transmit
<1>3. 0 .. vt_s' - 1 \subseteq (0 .. vt_s - 1) \cup {vt_s}
  BY <1>1, WAssumption DEF KeptInv
<1>4. Kept'
  BY <1>2, <1>3 DEF KeptInv, Kept
<1>5. vt_s' \in 0 .. W
  BY <1>1, WAssumption DEF KeptInv
<1> QED BY <1>2, <1>4, <1>5 DEF KeptInv

\* A unit that leaves the list has been tried often enough, and leaves both.
LEMMA PollKeeps == KeptInv /\ poll_retx => KeptInv'
<1> SUFFICES ASSUME KeptInv, poll_retx PROVE KeptInv'
  OBVIOUS
<1>1. vt_s' = vt_s
  BY DEF poll_retx
<1>2. CASE Polled \in transmitted /\ Count = maxRetxThreshold
  <2>1. transmitted' = transmitted \ {Polled} /\ abandoned' = abandoned \cup {Polled} /\ retx' = retx \ {Polled}
    BY <1>2 DEF poll_retx, TransmittedAfter, RetxAfter
  <2> QED BY <1>1, <2>1 DEF KeptInv, Kept
<1>3. CASE Polled \in transmitted /\ Count # maxRetxThreshold
  <2>1. transmitted' = transmitted /\ abandoned' = abandoned /\ retx' = retx \cup {Polled}
    BY <1>3 DEF poll_retx, TransmittedAfter, RetxAfter
  <2> QED BY <1>1, <1>3, <2>1 DEF KeptInv, Kept
<1>4. CASE Polled \notin transmitted
  BY <1>1, <1>4, Untouched DEF poll_retx
<1> QED BY <1>2, <1>3, <1>4

LEMMA NextKeeps == KeptInv /\ [Next]_vars => KeptInv'
<1> SUFFICES ASSUME KeptInv, [Next]_vars PROVE KeptInv'
  OBVIOUS
<1>1. CASE Transmit
  BY <1>1, TransmitKeeps
<1>2. CASE poll_retx
  BY <1>2, PollKeeps
<1>3. CASE Retransmit \/ PollExpires \/ Lose
  BY <1>3, Untouched DEF Retransmit, PollExpires, Lose, sender
<1>4. CASE Drop \/ Receive
  BY <1>4, Untouched DEF Drop, Receive, sender
<1>5. CASE ReorderExpires \/ AmReorder \/ StatPro \/ TransmitStatus
  BY <1>5, Untouched DEF ReorderExpires, AmReorder, StatPro, TransmitStatus, sender
<1>6. CASE UNCHANGED vars
  BY <1>6, Untouched DEF vars, sender
<1> QED BY <1>1, <1>2, <1>3, <1>4, <1>5, <1>6 DEF Next

(* Nothing is lost by the transmitter (RlcAm, Kept): whatever expires and       *)
(* however often a unit moves between the lists of arq.c:692 and 826, a unit   *)
(* sent is in amTransmittedBuffer or has been given up.                       *)
THEOREM AlwaysKept == Spec => []Kept
<1>1. Init => KeptInv
  BY WAssumption DEF Init, KeptInv, Kept
<1>2. KeptInv => Kept
  BY DEF KeptInv
<1> QED BY <1>1, <1>2, NextKeeps, PTL DEF Spec

-----------------------------------------------------------------------------
(* Numbers.                                                                  *)

\* Of every set of natural numbers there is a least.
LEMMA Least ==
  ASSUME NEW T \in SUBSET Nat, T # {}
  PROVE  \E x \in T : \A y \in T : x <= y
<1>1. PICK x \in T : \A y \in T : ~(<<y, x>> \in OpToRel(<, Nat))
  BY NatLessThanWellFounded, WFMin, Zenon
<1>2. \A y \in T : ~(y < x)
  BY <1>1, Zenon DEF OpToRel
<1> QED BY <1>2

LEMMA NegativeRemainder ==
  ASSUME NEW m \in Nat, m > 0, NEW n \in (-m) .. -1
  PROVE  n % m = n + m
<1>1. n % m \in 0 .. m - 1 /\ n = ((n \div m) * m) + (n % m) /\ n \div m \in Int
  OBVIOUS
<1>2. n \div m = -1
  BY <1>1
<1> QED BY <1>1, <1>2

LEMMA Modulus == M \in Nat /\ W \in Nat /\ W > 0 /\ M = W + W /\ M > W
BY WAssumption DEF M

\* No number of the receiver goes beyond W, so that the next one does not wrap.
LEMMA NoWrap ==
  ASSUME NEW n \in 0 .. W
  PROVE  n % M = n
BY Modulus, SmallRemainder

\* The receiver's window is open upwards.
LEMMA InsideIsNotBelow ==
  ASSUME NEW u \in 0 .. W - 1, NEW r \in 0 .. W
  PROVE  isInsideAmRecvWin(u, r, (r + W) % M) <=> u >= r
<1>1. r + W \in Nat /\ W \in Nat /\ W > 0 /\ M = W + W /\ W < M
  BY Modulus
<1>2. (((r + W) % M) - r) % M = W
  <2>1. CASE r < W
    <3>1. (r + W) % M = r + W
      BY <1>1, <2>1, SmallRemainder
    <3>2. ((r + W) % M) - r = W
      BY <1>1, <3>1
    <3> QED BY <3>2, <1>1, NoWrap
  <2>2. CASE r = W
    <3>1. (r + W) % M = 0
      BY <1>1, <2>2
    <3>2. -W \in (-M) .. -1
      BY <1>1
    <3>3. (-W) % M = W
      BY <1>1, <3>2, NegativeRemainder
    <3>4. ((r + W) % M) - r = -W
      BY <1>1, <2>2, <3>1
    <3> QED BY <3>3, <3>4
  <2> QED BY <1>1, <2>1, <2>2
<1>3. CASE u >= r
  <2>1. u - r \in 0 .. W
    BY <1>1, <1>3
  <2>2. (u - r) % M = u - r
    BY <2>1, NoWrap
  <2> QED BY <1>1, <1>2, <1>3, <2>2 DEF isInsideAmRecvWin
<1>4. CASE u < r
  <2>1. u - r \in (-M) .. -1
    BY <1>1, <1>4
  <2>2. (u - r) % M = u - r + M
    BY <2>1, <1>1, NegativeRemainder
  <2> QED BY <1>1, <1>2, <1>4, <2>2 DEF isInsideAmRecvWin
<1> QED BY <1>1, <1>3, <1>4

-----------------------------------------------------------------------------
(* The receiver's window.                                                    *)

LEMMA FirstMissingIs ==
  ASSUME NEW h \in 0 .. W, NEW n \in 0 .. h, NEW win \in SUBSET (0 .. h - 1)
  PROVE  /\ FirstMissing(n, win) \in n .. h
         /\ FirstMissing(n, win) \notin win
         /\ \A j \in n .. FirstMissing(n, win) - 1 : j \in win
<1> DEFINE Stops(k) == k = M \/ (n + k) % M \notin win
           StopsFirst(k) == Stops(k) /\ \A j \in 0 .. k - 1 : (n + j) % M \in win
           k0 == CHOOSE k \in 0 .. M : StopsFirst(k)
           T == {k \in 0 .. M : Stops(k)}
<1>1. M \in Nat /\ W \in Nat /\ W < M /\ h \in Nat /\ n \in Nat /\ n <= h /\ h <= W
  BY Modulus
<1>2. \A k \in 0 .. h - n : (n + k) % M = n + k
  <2> SUFFICES ASSUME NEW k \in 0 .. h - n PROVE (n + k) % M = n + k
    OBVIOUS
  <2>1. n + k \in 0 .. W
    BY <1>1
  <2> QED BY <2>1, NoWrap
<1>3. h - n \in T
  <2>1. (n + (h - n)) % M = h
    BY <1>1, <1>2
  <2> QED BY <1>1, <2>1
<1>4. \E k \in 0 .. M : StopsFirst(k)
  <2>1. T \in SUBSET Nat /\ T # {}
    BY <1>1, <1>3
  <2>2. PICK k \in T : \A y \in T : k <= y
    BY <2>1, Least
  <2>3. \A j \in 0 .. k - 1 : j \in 0 .. M /\ j \notin T
    BY <2>2, <1>1
  <2> QED BY <2>2, <2>3
<1>5. k0 \in 0 .. M /\ StopsFirst(k0)
  BY <1>4
<1> HIDE DEF k0
<1>6. k0 <= h - n
  <2>1. h - n \in Nat /\ (n + (h - n)) % M = h /\ h \notin win
    BY <1>1, <1>2
  <2>2. h - n \notin 0 .. k0 - 1
    BY <1>5, <2>1
  <2> QED BY <1>1, <1>5, <2>1, <2>2
<1>7. /\ (n + k0) % M = n + k0 /\ n + k0 \in n .. h /\ k0 # M
      /\ k0 \in Nat
  BY <1>1, <1>2, <1>5, <1>6
<1>8. \A j \in n .. n + k0 - 1 : j \in win
  <2> SUFFICES ASSUME NEW j \in n .. n + k0 - 1 PROVE j \in win
    OBVIOUS
  <2>1. j - n \in 0 .. k0 - 1 /\ j - n \in 0 .. h - n /\ n + (j - n) = j
    BY <1>1, <1>6, <1>7
  <2>2. (n + (j - n)) % M \in win /\ (n + (j - n)) % M = n + (j - n)
    BY <1>2, <1>5, <2>1
  <2> QED BY <2>1, <2>2
<1>9. FirstMissing(n, win) = n + k0
  BY <1>7 DEF FirstMissing, k0
<1> QED BY <1>5, <1>7, <1>8, <1>9

LEMMA VisitedIs ==
  ASSUME NEW h \in 0 .. W, NEW r \in 0 .. h, NEW win \in SUBSET (0 .. h - 1)
  PROVE  /\ Visited(win, h, r) = {n \in win : n < r}
         /\ \A n \in win : (n - h - 1) % M = n - h - 1 + M
<1>1. M \in Nat /\ W \in Nat /\ W > 0 /\ M = W + W /\ h \in Nat /\ h <= W /\ r \in Nat /\ r <= h
  BY Modulus
<1>2. \A n \in 0 .. h : (n - h - 1) % M = n - h - 1 + M
  <2> SUFFICES ASSUME NEW n \in 0 .. h PROVE (n - h - 1) % M = n - h - 1 + M
    OBVIOUS
  <2>1. n - h - 1 \in (-M) .. -1
    BY <1>1
  <2> QED BY <1>1, <2>1, NegativeRemainder
<1>3. \A n \in win : n \in 0 .. h
  BY <1>1
<1>4. \A n \in win : (n - h - 1) % M < (r - h - 1) % M <=> n < r
  BY <1>1, <1>2, <1>3
<1> QED BY <1>2, <1>3, <1>4 DEF Visited

\* What grows at every step grows by one at least.
LEMMA Climbs ==
  ASSUME NEW k \in Nat, NEW a \in Int, NEW s \in [1 .. k -> Int],
         \A i, j \in 1 .. k : i < j => s[i] < s[j],
         NEW m \in 1 .. k, s[m] >= a + m
  PROVE  \A j \in m .. k : s[j] >= a + j
<1> DEFINE T == {j \in m .. k : s[j] < a + j}
<1> SUFFICES ASSUME T # {} PROVE FALSE
  OBVIOUS
<1>1. PICK j \in T : \A i \in T : j <= i
  <2>1. T \in SUBSET Nat
    OBVIOUS
  <2> QED BY <2>1, Least
<1>2. j # m /\ j \in m .. k /\ s[j] < a + j
  BY <1>1
<1>3. j - 1 \in m .. k /\ j - 1 \notin T
  BY <1>1, <1>2
<1>4. s[j - 1] >= a + (j - 1) /\ s[j - 1] < s[j] /\ s[j] \in Int /\ s[j - 1] \in Int
  BY <1>2, <1>3
<1> QED BY <1>2, <1>4

\* The numbers a + 1 .. a + k have one ascending order.
LEMMA OneOrder ==
  ASSUME NEW k \in Nat, NEW a \in Int, NEW s \in [1 .. k -> a + 1 .. a + k],
         \A i, j \in 1 .. k : i < j => s[i] < s[j]
  PROVE  \A i \in 1 .. k : s[i] = a + i
<1> SUFFICES ASSUME NEW m \in 1 .. k PROVE s[m] = a + m
  OBVIOUS
<1>1. s \in [1 .. k -> Int] /\ \A i \in 1 .. k : s[i] \in Int /\ s[i] >= a + 1 /\ s[i] <= a + k
  OBVIOUS
<1>2. 1 \in 1 .. k /\ k \in 1 .. k /\ m \in Nat /\ m >= 1 /\ m <= k
  OBVIOUS
<1>3. s[m] >= a + m
  <2>1. s[1] >= a + 1
    BY <1>1, <1>2
  <2>2. \A j \in 1 .. k : s[j] >= a + j
    BY <1>1, <1>2, <2>1, Climbs
  <2> QED BY <2>2
<1>4. ~(s[m] >= (a + 1) + m)
  <2> SUFFICES ASSUME s[m] >= (a + 1) + m PROVE FALSE
    OBVIOUS
  <2>1. a + 1 \in Int
    OBVIOUS
  <2>2. \A j \in m .. k : s[j] >= (a + 1) + j
    BY <1>1, <2>1, Climbs
  <2>3. s[k] >= (a + 1) + k
    BY <1>2, <2>2
  <2> QED BY <1>1, <1>2, <2>3
<1> QED BY <1>1, <1>3, <1>4

\* What is visited is handed over in the order of sending.
LEMMA WalkIs ==
  ASSUME NEW h \in 0 .. W, NEW b \in 0 .. h, NEW a \in -1 .. b - 1
  PROVE  LET units == a + 1 .. b - 1
         IN  Walk(units, h) = [i \in 1 .. b - 1 - a |-> a + i]
<1> DEFINE units == a + 1 .. b - 1
           k == b - 1 - a
           line == [i \in 1 .. k |-> a + i]
           Ascends(s) == \A i, j \in DOMAIN s : i < j => (s[i] - h - 1) % M < (s[j] - h - 1) % M
<1>1. M \in Nat /\ W \in Nat /\ W > 0 /\ M = W + W /\ h \in Nat /\ h <= W /\ b <= h /\ a \in Int /\ b \in Nat
  BY Modulus
<1>2. k \in Nat /\ b - 1 = a + k
  BY <1>1
<1>3. Cardinality(units) = k
  <2>1. a + 1 \in Int /\ b - 1 \in Int
    BY <1>1
  <2>2. Cardinality(units) = IF a + 1 > b - 1 THEN 0 ELSE (b - 1) - (a + 1) + 1
    BY <2>1, FS_Interval
  <2> QED BY <1>1, <2>2
<1>4. \A n \in units : n \in Int /\ (n - h - 1) % M = n - h - 1 + M
  <2> SUFFICES ASSUME NEW n \in units PROVE (n - h - 1) % M = n - h - 1 + M
    BY <1>1
  <2>1. n - h - 1 \in (-M) .. -1
    BY <1>1
  <2> QED BY <1>1, <2>1, NegativeRemainder
<1>5. \A s \in [1 .. k -> units] :
        Ascends(s) <=> \A i, j \in 1 .. k : i < j => s[i] < s[j]
  <2> SUFFICES ASSUME NEW s \in [1 .. k -> units]
               PROVE  Ascends(s) <=> \A i, j \in 1 .. k : i < j => s[i] < s[j]
    OBVIOUS
  <2>1. DOMAIN s = 1 .. k /\ \A i \in 1 .. k : s[i] \in units
    OBVIOUS
  <2>2. \A x, y \in units : (x - h - 1) % M < (y - h - 1) % M <=> x < y
    BY <1>1, <1>4
  <2> HIDE DEF units, k
  <2> QED BY <2>1, <2>2
<1>6. line \in [1 .. k -> units] /\ Ascends(line)
  <2>1. line \in [1 .. k -> units]
    BY <1>1, <1>2
  <2>2. \A i, j \in 1 .. k : i < j => line[i] < line[j]
    BY <1>1, <1>2
  <2> QED BY <1>5, <2>1, <2>2
<1>7. ASSUME NEW s \in [1 .. k -> units], Ascends(s) PROVE s = line
  <2>1. \A i, j \in 1 .. k : i < j => s[i] < s[j]
    BY <1>5, <1>7
  <2>2. s \in [1 .. k -> a + 1 .. a + k] /\ k \in Nat /\ a \in Int
    BY <1>1, <1>2, <1>7
  <2>3. \A i \in 1 .. k : s[i] = a + i
    <3> HIDE DEF k
    <3> QED BY <2>1, <2>2, OneOrder
  <2> QED BY <1>7, <2>3
<1>8. Walk(units, h) = CHOOSE s \in [1 .. k -> units] : Ascends(s)
  BY <1>3 DEF Walk
<1> HIDE DEF units, k, line, Ascends
<1>9. Walk(units, h) = line
  BY <1>6, <1>7, <1>8
<1> QED BY <1>9 DEF units, k, line

-----------------------------------------------------------------------------
(* The inductive invariant of the order.                                     *)

\* What is on the air was sent, and is not far behind.
Fresh == air \subseteq 0 .. vt_s - 1 /\ \A u \in air : u + Behind >= vt_s - 1

\* The receiver's numbers are those of units that came.
Numbers ==
  /\ vt_s \in 0 .. W /\ vr_h \in 0 .. vt_s /\ vr_r \in 0 .. vr_h
  /\ vr_mr = (vr_r + W) % M
  /\ vr_ms \in 0 .. vr_h /\ vr_x \in 0 .. vr_h

\* The first missing unit is missing, and the newest of those behind it is there.
Stored ==
  /\ window \subseteq vr_r .. vr_h - 1 /\ vr_r \notin window
  /\ vr_h > vr_r => vr_h - 1 \in window

\* StatusIsTrue, of a status at its place.
Told ==
  /\ ctrlPdus \in Seq(Status)
  /\ \A i \in 1 .. Len(ctrlPdus) : \A n \in 0 .. ctrlPdus[i].ACK_SN - 1 :
       n \in ctrlPdus[i].NACKs \/ n < vr_r \/ n \in window

Rx == Fresh /\ Numbers /\ Stored /\ Told

\* A unit below the window came already.
LEMMA RxBounds ==
  ASSUME Rx
  PROVE  /\ vt_s \in Nat /\ vt_s <= W /\ vr_h \in Nat /\ vr_h <= vt_s /\ vr_r \in Nat /\ vr_r <= vr_h
         /\ vr_ms \in Nat /\ vr_ms <= vr_h /\ vr_x \in Nat /\ vr_x <= vr_h
         /\ vr_h \in 0 .. W /\ vr_r \in 0 .. W /\ W \in Nat /\ W > 0
         /\ window \in SUBSET (0 .. vr_h - 1)
BY Modulus DEF Rx, Numbers, Stored

LEMMA RxStays ==
  ASSUME Rx, UNCHANGED <<vt_s, vr_h, vr_r, vr_mr, vr_ms, vr_x, window, ctrlPdus>>, air' \subseteq air
  PROVE  Rx'
BY DEF Rx, Fresh, Numbers, Stored, Told

\* What came stays known: it is stored or below the window.
LEMMA ToldStays ==
  ASSUME Told, ctrlPdus' = ctrlPdus,
         \A n \in Nat : n < vr_r \/ n \in window => n < vr_r' \/ n \in window'
  PROVE  Told'
<1>1. ctrlPdus \in Seq(Status)
  BY DEF Told
<1>2. ASSUME NEW i \in 1 .. Len(ctrlPdus), NEW n \in 0 .. ctrlPdus[i].ACK_SN - 1
      PROVE  n \in ctrlPdus[i].NACKs \/ n < vr_r' \/ n \in window'
  <2>1. n \in ctrlPdus[i].NACKs \/ n < vr_r \/ n \in window
    BY <1>2 DEF Told
  <2>2. n \in Nat
    <3>1. ctrlPdus[i] \in Status
      BY <1>1
    <3>2. ctrlPdus[i].ACK_SN \in 0 .. M - 1
      BY <3>1 DEF Status, SN
    <3> QED BY <3>2, Modulus
  <2> QED BY <2>1, <2>2
<1> QED BY <1>1, <1>2 DEF Told

LEMMA TransmitRx ==
  ASSUME Rx, Transmit
  PROVE  Rx' /\ vt_s' = vt_s + 1 /\ handed' = <<>>
<1>1. /\ vt_s' = vt_s + 1 /\ vt_s < W
      /\ air' = {u \in air : u >= vt_s - Behind} \cup {vt_s}
      /\ UNCHANGED <<vr_h, vr_r, vr_mr, vr_ms, vr_x, window, ctrlPdus>> /\ handed' = <<>>
  BY OpenWindow DEF Rx, Numbers, Transmit, receiver
<1>2. Behind \in Nat /\ W \in Nat
  BY ParameterAssumption, WAssumption
<1>3. Fresh'
  <2> SUFFICES ASSUME NEW u \in air' PROVE u \in 0 .. vt_s' - 1 /\ u + Behind >= vt_s' - 1
    BY DEF Fresh
  <2>1. vt_s \in Nat
    BY RxBounds
  <2>2. CASE u = vt_s
    BY <1>1, <1>2, <2>1, <2>2
  <2>3. CASE u \in air /\ u >= vt_s - Behind
    <3>1. u \in 0 .. vt_s - 1
      BY <2>3 DEF Rx, Fresh
    <3> QED BY <1>1, <1>2, <2>1, <2>3, <3>1
  <2> QED BY <1>1, <2>2, <2>3
<1>4. Numbers'
  BY <1>1, <1>2 DEF Rx, Numbers
<1> QED BY <1>1, <1>3, <1>4 DEF Rx, Stored, Told

\* Where the three numbers go when a unit is kept.
LEMMA ReceiveMoves ==
  ASSUME Behind + 1 < W, Rx, NEW u \in air,
         isInsideAmRecvWin(u, vr_r, vr_mr), u \notin window
  PROVE  LET win == window \cup {u}
             h == MovedH(u)
             r == FirstMissing(vr_r, win)
         IN  /\ u >= vr_r /\ u < vt_s
             /\ h \in 0 .. vt_s /\ h >= vr_h /\ h > u /\ (h = vr_h \/ h = u + 1)
             /\ win \in SUBSET (vr_r .. h - 1)
             /\ r \in vr_r .. h /\ r \notin win /\ \A j \in vr_r .. r - 1 : j \in win
             /\ FirstMissing(vr_ms, win) \in 0 .. h
<1> DEFINE win == window \cup {u}
           h == MovedH(u)
<1>1. u \in Nat /\ u < vt_s /\ u + Behind >= vt_s - 1 /\ Behind \in Nat
  BY RxBounds, ParameterAssumption DEF Rx, Fresh
<1>2. u >= vr_r
  <2>1. u \in 0 .. W - 1 /\ vr_mr = (vr_r + W) % M
    BY <1>1, RxBounds DEF Rx, Numbers
  <2> QED BY <2>1, RxBounds, InsideIsNotBelow
<1>3. h = IF u >= vr_h THEN u + 1 ELSE vr_h
  <2>1. (u + 1) % M = u + 1
    <3>1. u + 1 \in 0 .. W
      BY <1>1, RxBounds
    <3> QED BY <3>1, NoWrap
  <2>2. ~(u <= vr_h - W)
    BY <1>1, RxBounds
  <2> QED BY <2>1, <2>2 DEF MovedH
<1> HIDE DEF h
<1>4. h \in 0 .. vt_s /\ h >= vr_h /\ h > u /\ (h = vr_h \/ h = u + 1)
  <2>1. CASE u >= vr_h
    BY <1>1, <1>3, <2>1, RxBounds
  <2>2. CASE ~(u >= vr_h)
    BY <1>1, <1>3, <2>2, RxBounds
  <2> QED BY <2>1, <2>2
<1>5. win \in SUBSET (vr_r .. h - 1)
  BY <1>1, <1>2, <1>4, RxBounds DEF Rx, Stored
<1>6. win \in SUBSET (0 .. h - 1) /\ h \in 0 .. W /\ vr_r \in 0 .. h /\ vr_ms \in 0 .. h
  BY <1>4, <1>5, RxBounds
<1> HIDE DEF win
<1>7. /\ FirstMissing(vr_r, win) \in vr_r .. h /\ FirstMissing(vr_r, win) \notin win
      /\ \A j \in vr_r .. FirstMissing(vr_r, win) - 1 : j \in win
  BY <1>6, FirstMissingIs
<1>8. FirstMissing(vr_ms, win) \in vr_ms .. h
  BY <1>6, FirstMissingIs
<1>9. FirstMissing(vr_ms, win) \in 0 .. h
  BY <1>6, <1>8
<1> QED BY <1>1, <1>2, <1>4, <1>5, <1>7, <1>9 DEF win, h

\* The units a receiver hands over when it goes from a to b.
Run(a, b) == [i \in 1 .. b - a |-> (a - 1) + i]

LEMMA DeliverIs ==
  ASSUME NEW h \in 0 .. W, NEW a \in 0 .. h, NEW b \in a .. h, NEW win \in SUBSET (a .. h - 1),
         \A j \in a .. b - 1 : j \in win, Deliver(win, h, b)
  PROVE  handed' = Run(a, b) /\ window' = win \ (a .. b - 1)
<1>1. W \in Nat
  BY Modulus
<1>2. win \in SUBSET (0 .. h - 1) /\ b \in 0 .. h
  BY <1>1
<1>3. Visited(win, h, b) = {n \in win : n < b}
  BY <1>1, <1>2, VisitedIs
<1>4. Visited(win, h, b) = a .. b - 1
  <2>1. \A n \in win : n < b => n \in a .. b - 1
    BY <1>1
  <2>2. \A n \in a .. b - 1 : n \in win /\ n < b
    BY <1>1
  <2> QED BY <1>3, <2>1, <2>2
<1>5. a - 1 \in -1 .. b - 1 /\ (a - 1) + 1 = a /\ b - 1 - (a - 1) = b - a
  BY <1>1
<1>6. Walk((a - 1) + 1 .. b - 1, h) = [i \in 1 .. b - 1 - (a - 1) |-> (a - 1) + i]
  BY <1>2, <1>5, WalkIs
<1>7. Walk(a .. b - 1, h) = Run(a, b)
  BY <1>5, <1>6 DEF Run
<1> QED BY <1>4, <1>7 DEF Deliver

\* Intervals: a lower part taken away leaves the upper part.
LEMMA Parts ==
  ASSUME NEW a \in Int, NEW b \in Int, a <= b
  PROVE  /\ b > a => a \in a .. b - 1
         /\ \A n \in Int : n >= b => n \notin a .. b - 1
         /\ \A n \in Int : n > b => n - 1 \notin a .. b - 1
         /\ \A h \in Int : \A n \in a .. h - 1 : n \notin a .. b - 1 => n \in b .. h - 1
OBVIOUS

LEMMA ReceiveRx ==
  ASSUME Behind + 1 < W, Rx, Receive
  PROVE  /\ Rx' /\ vt_s' = vt_s
         /\ \/ handed' = <<>> /\ vr_r' = vr_r
            \/ vr_r < vr_r' /\ vr_r' <= vt_s /\ handed' = Run(vr_r, vr_r')
<1>1. PICK u \in air :
        /\ isInsideAmRecvWin(u, vr_r, vr_mr) /\ u \notin window
        /\ Arrives(u)
        /\ vr_h' = MovedH(u)
        /\ vr_ms' = FirstMissing(vr_ms, window \cup {u})
        /\ vr_r' = FirstMissing(vr_r, window \cup {u})
        /\ vr_mr' = IF vr_r \in window \cup {u} THEN (vr_r' + W) % M ELSE vr_mr
        /\ IF vr_r \in window \cup {u} THEN Deliver(window \cup {u}, vr_h', vr_r')
           ELSE window' = window \cup {u} /\ handed' = <<>>
        /\ SetReorderTimer(u, vr_h', vr_r', vr_mr')
        /\ vt_s' = vt_s /\ ctrlPdus' = ctrlPdus
  BY DEF Receive, sender
<1> DEFINE win == window \cup {u}
<1>2. /\ u >= vr_r /\ u < vt_s
      /\ vr_h' \in 0 .. vt_s /\ vr_h' >= vr_h /\ vr_h' > u /\ (vr_h' = vr_h \/ vr_h' = u + 1)
      /\ win \in SUBSET (vr_r .. vr_h' - 1)
      /\ vr_r' \in vr_r .. vr_h' /\ vr_r' \notin win /\ \A j \in vr_r .. vr_r' - 1 : j \in win
      /\ vr_ms' \in 0 .. vr_h'
  BY <1>1, ReceiveMoves
<1>3. u \in Nat /\ vr_r \in Nat /\ vr_h \in Nat /\ vt_s \in Nat /\ W \in Nat /\ vt_s <= W
  BY RxBounds DEF Rx, Fresh
<1>4. /\ vr_r' \in Int /\ vr_h' \in Int /\ vr_r \in Int
      /\ vr_r <= vr_r' /\ vr_r' <= vr_h'
  BY <1>2, <1>3
<1>5. /\ vr_r' > vr_r => vr_r \in vr_r .. vr_r' - 1
      /\ \A n \in Int : n >= vr_r' => n \notin vr_r .. vr_r' - 1
      /\ vr_h' > vr_r' => vr_h' - 1 \notin vr_r .. vr_r' - 1
      /\ \A n \in vr_r .. vr_h' - 1 : n \notin vr_r .. vr_r' - 1 => n \in vr_r' .. vr_h' - 1
  BY <1>4, Parts
<1>6. air' \subseteq air
  BY <1>1 DEF Arrives
<1>7. vr_h' > vr_r' => vr_h' - 1 \in win
  <2>1. CASE vr_h' = u + 1
    BY <2>1, <1>3
  <2>2. CASE vr_h' = vr_h
    BY <2>2, <1>2, <1>3 DEF Rx, Stored
  <2> QED BY <1>2, <2>1, <2>2
<1>8. vr_x' \in 0 .. vr_h'
  <2>1. vr_x' = vr_h' \/ vr_x' = vr_x
    BY <1>1 DEF SetReorderTimer
  <2> QED BY <1>2, <1>3, <2>1, RxBounds
<1>9. CASE vr_r \in win
  <2>1. handed' = Run(vr_r, vr_r') /\ window' = win \ (vr_r .. vr_r' - 1)
    <3>1. Deliver(win, vr_h', vr_r')
      BY <1>1, <1>9
    <3>2. vr_h' \in 0 .. W /\ vr_r \in 0 .. vr_h' /\ vr_r' \in vr_r .. vr_h'
      BY <1>2, <1>3
    <3> HIDE DEF win
    <3> QED BY <1>2, <3>1, <3>2, DeliverIs
  <2>2. vr_r < vr_r' /\ vr_r' <= vt_s
    BY <1>2, <1>3, <1>9
  <2>3. vr_mr' = (vr_r' + W) % M
    BY <1>1, <1>9
  <2>4. Numbers'
    BY <1>1, <1>2, <1>3, <1>8, <2>2, <2>3 DEF Numbers
  <2>5. Stored'
    <3> HIDE DEF win
    <3>1. window' \subseteq vr_r' .. vr_h' - 1
      <4> SUFFICES ASSUME NEW n \in window' PROVE n \in vr_r' .. vr_h' - 1
        OBVIOUS
      <4>1. n \in vr_r .. vr_h' - 1 /\ n \notin vr_r .. vr_r' - 1
        BY <1>2, <2>1
      <4> QED BY <1>5, <4>1
    <3>2. vr_r' \notin window'
      BY <1>2, <2>1
    <3>3. vr_h' > vr_r' => vr_h' - 1 \in window'
      <4> SUFFICES ASSUME vr_h' > vr_r' PROVE vr_h' - 1 \in window'
        OBVIOUS
      <4>1. vr_h' - 1 \in win
        BY <1>7
      <4>2. vr_h' - 1 \notin vr_r .. vr_r' - 1
        BY <1>5
      <4> QED BY <2>1, <4>1, <4>2
    <3> QED BY <3>1, <3>2, <3>3 DEF Stored
  <2>6. \A n \in Nat : n < vr_r \/ n \in window => n < vr_r' \/ n \in window'
    <3> SUFFICES ASSUME NEW n \in Nat, n < vr_r \/ n \in window, ~(n < vr_r')
                 PROVE  n \in window'
      OBVIOUS
    <3>1. n \in window
      BY <1>2, <1>3, <2>2
    <3>2. n \notin vr_r .. vr_r' - 1
      <4>1. n \in Int /\ n >= vr_r'
        BY <1>4
      <4> QED BY <1>5, <4>1
    <3> QED BY <2>1, <3>1, <3>2
  <2>7. Told'
    <3>1. Told
      BY DEF Rx
    <3> HIDE DEF win
    <3> QED BY <1>1, <2>6, <3>1, ToldStays
  <2>8. Fresh'
    BY <1>1, <1>6 DEF Rx, Fresh
  <2> QED BY <1>1, <2>1, <2>2, <2>4, <2>5, <2>7, <2>8 DEF Rx
<1>10. CASE vr_r \notin win
  <2>1. window' = win /\ handed' = <<>> /\ vr_mr' = vr_mr
    BY <1>1, <1>10
  <2>2. vr_r' = vr_r
    <3> HIDE DEF win
    <3>1. vr_r' > vr_r => vr_r \in vr_r .. vr_r' - 1
      BY <1>5
    <3>2. ~(vr_r' > vr_r)
      BY <1>2, <1>10, <3>1
    <3> QED BY <1>2, <1>3, <3>2
  <2>3. Numbers'
    BY <1>1, <1>2, <1>3, <1>8, <2>1, <2>2 DEF Rx, Numbers
  <2>4. Stored'
    BY <1>2, <1>7, <2>1, <2>2 DEF Stored
  <2>5. Told'
    <3>1. \A n \in Nat : n < vr_r \/ n \in window => n < vr_r' \/ n \in window'
      BY <2>1, <2>2
    <3>2. Told
      BY DEF Rx
    <3> HIDE DEF win
    <3> QED BY <1>1, <3>1, <3>2, ToldStays
  <2>6. Fresh'
    BY <1>1, <1>6 DEF Rx, Fresh
  <2> QED BY <1>1, <2>1, <2>2, <2>3, <2>4, <2>5, <2>6 DEF Rx
<1> QED BY <1>9, <1>10

LEMMA ReorderRx ==
  ASSUME Rx, AmReorder
  PROVE  Rx' /\ vt_s' = vt_s /\ vr_r' = vr_r /\ handed' = <<>>
<1>1. /\ UNCHANGED <<vt_s, air, vr_r, vr_mr, vr_h, ctrlPdus>> /\ Deliver(window, vr_h, vr_r)
      /\ vr_ms' = vr_x /\ (vr_x' = vr_h \/ vr_x' = vr_x)
  BY DEF AmReorder, sender
<1>2. handed' = Run(vr_r, vr_r) /\ window' = window \ (vr_r .. vr_r - 1)
  <2>1. /\ vr_h \in 0 .. W /\ vr_r \in 0 .. vr_h /\ vr_r \in vr_r .. vr_h
        /\ window \in SUBSET (vr_r .. vr_h - 1) /\ \A j \in vr_r .. vr_r - 1 : j \in window
    BY RxBounds DEF Rx, Stored
  <2> QED BY <1>1, <2>1, DeliverIs
<1>3. handed' = <<>> /\ window' = window
  <2>1. vr_r .. vr_r - 1 = {} /\ vr_r - vr_r = 0
    BY RxBounds
  <2>2. Run(vr_r, vr_r) = <<>>
    BY <2>1 DEF Run
  <2> QED BY <1>2, <2>1, <2>2
<1>4. Numbers'
  BY <1>1, RxBounds DEF Rx, Numbers
<1> QED BY <1>1, <1>3, <1>4 DEF Rx, Fresh, Stored, Told

\* A status lists whatever misses; where it lists nothing, nothing misses.
LEMMA StatProRx ==
  ASSUME Rx, StatPro
  PROVE  Rx' /\ vt_s' = vt_s /\ vr_r' = vr_r /\ handed' = <<>>
<1>1. /\ UNCHANGED <<vt_s, air, window, vr_r, vr_mr, vr_h, vr_ms, vr_x>> /\ handed' = <<>>
      /\ ctrlPdus' = Append(ctrlPdus, StatusNow) \/ ctrlPdus' = ctrlPdus
  BY DEF StatPro, sender
<1>2. StatusNow \in Status
  <2>1. vr_ms \in 0 .. M - 1
    BY RxBounds, Modulus
  <2>2. vr_r .. vr_ms - 1 \subseteq 0 .. M - 1
    BY RxBounds, Modulus
  <2> QED BY <2>1, <2>2 DEF StatusNow, Status, SN
<1>3. ASSUME NEW n \in 0 .. StatusNow.ACK_SN - 1
      PROVE  n \in StatusNow.NACKs \/ n < vr_r \/ n \in window
  <2>1. n \in Nat /\ n <= vr_ms - 1 /\ StatusNow.ACK_SN = vr_ms
    BY RxBounds DEF StatusNow
  <2>2. CASE vr_r < vr_h - 1
    <3>1. n < vr_r \/ n \in vr_r .. vr_ms - 1
      BY <2>1, RxBounds
    <3>2. StatusNow.NACKs = (vr_r .. vr_ms - 1) \ window
      BY <2>2 DEF StatusNow
    <3> QED BY <3>1, <3>2
  <2>3. CASE ~(vr_r < vr_h - 1)
    <3>1. n <= vr_h - 1 /\ vr_h - 1 <= vr_r
      BY <2>1, <2>3, RxBounds
    <3>2. n < vr_r \/ (n = vr_h - 1 /\ vr_h > vr_r)
      BY <2>1, <3>1, RxBounds
    <3> QED BY <3>2 DEF Rx, Stored
  <2> QED BY <2>2, <2>3
<1>4. Told'
  <2>1. CASE ctrlPdus' = ctrlPdus
    BY <1>1, <2>1 DEF Rx, Told
  <2>2. CASE ctrlPdus' = Append(ctrlPdus, StatusNow)
    <3>1. ctrlPdus \in Seq(Status)
      BY DEF Rx, Told
    <3>2. ctrlPdus' \in Seq(Status) /\ Len(ctrlPdus') = Len(ctrlPdus) + 1
      BY <1>2, <2>2, <3>1
    <3>3. \A i \in 1 .. Len(ctrlPdus') :
            \/ i \in 1 .. Len(ctrlPdus) /\ ctrlPdus'[i] = ctrlPdus[i]
            \/ ctrlPdus'[i] = StatusNow
      BY <1>2, <2>2, <3>1
    <3>4. ASSUME NEW i \in 1 .. Len(ctrlPdus'), NEW n \in 0 .. ctrlPdus'[i].ACK_SN - 1
          PROVE  n \in ctrlPdus'[i].NACKs \/ n < vr_r \/ n \in window
      <4>1. CASE i \in 1 .. Len(ctrlPdus) /\ ctrlPdus'[i] = ctrlPdus[i]
        BY <3>4, <4>1 DEF Rx, Told
      <4>2. CASE ctrlPdus'[i] = StatusNow
        BY <1>3, <3>4, <4>2
      <4> QED BY <3>3, <3>4, <4>1, <4>2
    <3> QED BY <1>1, <3>2, <3>4 DEF Told
  <2> QED BY <1>1, <2>1, <2>2
<1> QED BY <1>1, <1>4 DEF Rx, Fresh, Numbers, Stored

LEMMA TransmitStatusRx ==
  ASSUME Rx, TransmitStatus
  PROVE  Rx' /\ vt_s' = vt_s /\ vr_r' = vr_r /\ handed' = <<>>
<1>1. PICK k \in 0 .. Len(ctrlPdus) :
        /\ ctrlPdus' = SubSeq(ctrlPdus, k + 1, Len(ctrlPdus))
        /\ UNCHANGED <<vt_s, air, window, vr_r, vr_mr, vr_h, vr_ms, vr_x>> /\ handed' = <<>>
  BY DEF TransmitStatus
<1>2. ctrlPdus \in Seq(Status)
  BY DEF Rx, Told
<1>3. /\ ctrlPdus' \in Seq(Status)
      /\ \A i \in 1 .. Len(ctrlPdus') : i + k \in 1 .. Len(ctrlPdus) /\ ctrlPdus'[i] = ctrlPdus[i + k]
  BY <1>1, <1>2
<1>4. Told'
  <2>1. ASSUME NEW i \in 1 .. Len(ctrlPdus'), NEW n \in 0 .. ctrlPdus'[i].ACK_SN - 1
        PROVE  n \in ctrlPdus'[i].NACKs \/ n < vr_r \/ n \in window
    BY <1>3, <2>1 DEF Rx, Told
  <2> QED BY <1>1, <1>3, <2>1 DEF Told
<1> QED BY <1>1, <1>4 DEF Rx, Fresh, Numbers, Stored

\* What a step does, seen from the layer above.
LEMMA StepRx ==
  ASSUME Behind + 1 < W, Rx, [Next]_vars
  PROVE  /\ Rx'
         /\ \/ vt_s' = vt_s + 1 /\ vr_r' = vr_r /\ handed' = <<>>
            \/ vt_s' = vt_s /\ vr_r < vr_r' /\ vr_r' <= vt_s /\ handed' = Run(vr_r, vr_r')
            \/ vt_s' = vt_s /\ vr_r' = vr_r /\ handed' = <<>>
            \/ UNCHANGED <<vt_s, vr_r, handed>>
<1>1. CASE Transmit
  BY <1>1, TransmitRx DEF Transmit, receiver
<1>2. CASE Receive
  BY <1>2, ReceiveRx
<1>3. CASE AmReorder
  BY <1>3, ReorderRx
<1>4. CASE StatPro
  BY <1>4, StatProRx
<1>5. CASE TransmitStatus
  BY <1>5, TransmitStatusRx
<1>6. CASE Retransmit \/ PollExpires \/ poll_retx \/ Lose
  <2>1. /\ UNCHANGED <<vt_s, vr_h, vr_r, vr_mr, vr_ms, vr_x, window, ctrlPdus>>
        /\ air' \subseteq air /\ handed' = <<>>
    BY <1>6 DEF Retransmit, PollExpires, poll_retx, Lose, sender, receiver
  <2> QED BY <2>1, RxStays
<1>7. CASE Drop \/ ReorderExpires
  <2>1. /\ UNCHANGED <<vt_s, vr_h, vr_r, vr_mr, vr_ms, vr_x, window, ctrlPdus>>
        /\ air' \subseteq air /\ handed' = <<>>
    BY <1>7 DEF Drop, Arrives, ReorderExpires, sender, receiver
  <2> QED BY <2>1, RxStays
<1>8. CASE UNCHANGED vars
  <2>1. UNCHANGED <<vt_s, vr_h, vr_r, vr_mr, vr_ms, vr_x, window, ctrlPdus, handed>> /\ air' \subseteq air
    BY <1>8 DEF vars, sender, receiver
  <2> QED BY <2>1, RxStays
<1> QED BY <1>1, <1>2, <1>3, <1>4, <1>5, <1>6, <1>7, <1>8 DEF Next

\* What is handed over starts where the receiver was and ends where it is.
GoesFrom(s, a, b) ==
  /\ s # <<>>
  /\ \A i \in DOMAIN s :
       /\ s[i] \in Int /\ s[i] < b
       /\ s[i] = IF i = 1 THEN a ELSE s[i - 1] + 1
  /\ b = s[Len(s)] + 1

LEMMA RunIs ==
  ASSUME NEW a \in Nat, NEW b \in Nat, a < b
  PROVE  GoesFrom(Run(a, b), a, b)
<1> DEFINE k == b - a
           run == [i \in 1 .. k |-> (a - 1) + i]
<1>1. k \in Nat /\ k > 0
  OBVIOUS
<1>2. DOMAIN run = 1 .. k /\ \A i \in 1 .. k : run[i] = (a - 1) + i
  OBVIOUS
<1>3. run \in Seq(Int) /\ Len(run) = k
  BY <1>1
<1>4. run # <<>>
  BY <1>1, <1>3
<1>5. \A i \in 1 .. k :
        /\ run[i] = IF i = 1 THEN a ELSE run[i - 1] + 1
        /\ run[i] < b
  <2> SUFFICES ASSUME NEW i \in 1 .. k
               PROVE  run[i] = (IF i = 1 THEN a ELSE run[i - 1] + 1) /\ run[i] < b
    OBVIOUS
  <2>1. run[i] = (a - 1) + i /\ (i # 1 => i - 1 \in 1 .. k)
    BY <1>1, <1>2
  <2>2. i # 1 => run[i - 1] = (a - 1) + (i - 1)
    BY <1>2, <2>1
  <2> HIDE DEF run
  <2> QED BY <1>1, <2>1, <2>2
<1>6. b = run[Len(run)] + 1
  <2>1. run[k] = (a - 1) + k
    BY <1>1, <1>2
  <2> HIDE DEF run
  <2> QED BY <1>3, <2>1
<1>7. Run(a, b) = run
  BY DEF Run
<1>8. \A i \in 1 .. k : run[i] \in Int
  BY <1>2
<1> HIDE DEF run, k
<1> QED BY <1>2, <1>4, <1>5, <1>6, <1>7, <1>8 DEF GoesFrom

LEMMA InitRx == Init => Rx
<1> SUFFICES ASSUME Init PROVE Rx
  OBVIOUS
<1>1. W \in Nat /\ W < M
  BY Modulus
<1>2. (0 + W) % M = W
  BY <1>1, NoWrap
<1>3. Numbers
  BY <1>1, <1>2 DEF Init, Numbers
<1>4. ctrlPdus = <<>> /\ Told
  BY DEF Init, Told
<1> QED BY <1>1, <1>3, <1>4 DEF Init, Rx, Fresh, Stored

(* A status of the receiver never acknowledges what has not come (RlcAm,        *)
(* StatusIsTrue): not after the late expiry of the reordering timer, and not   *)
(* when rlc_ctrl_pkt_trans leaves the list empty (arq.c:138).  The air may     *)
(* lose, repeat and reorder, but by less than a window.                        *)
THEOREM StatusStaysTrue ==
  ASSUME Behind + 1 < W
  PROVE  Spec => []StatusIsTrue
<1>1. Rx /\ [Next]_vars => Rx'
  BY StepRx
<1>2. Rx => StatusIsTrue
  <2> SUFFICES ASSUME Rx, NEW s \in ToSet(ctrlPdus), NEW n \in 0 .. s.ACK_SN - 1
               PROVE  n \in s.NACKs \/ n < vr_r \/ n \in window
    BY DEF StatusIsTrue
  <2>1. PICK i \in 1 .. Len(ctrlPdus) : s = ctrlPdus[i]
    BY DEF ToSet, Rx, Told
  <2> QED BY <2>1 DEF Rx, Told
<1> QED BY <1>1, <1>2, InitRx, PTL DEF Spec

(* Under the same condition the bearer gives what RlcService promises in        *)
(* acknowledged mode (RlcAm, ImplementsService): units leave the receiver in   *)
(* the order of sending, without gap or repetition.                            *)
THEOREM BearerImplementsService ==
  ASSUME Behind + 1 < W
  PROVE  Spec => ImplementsService
<1>1. Init => Service!Init
  BY DEF Init, Service!Init
<1>2. Rx /\ [Next]_vars => Rx'
  BY StepRx
<1>3. Rx /\ [Next]_vars => [Service!Next]_(Service!vars)
  <2> SUFFICES ASSUME Rx, [Next]_vars PROVE [Service!Next]_(Service!vars)
    OBVIOUS
  <2>1. CASE vt_s' = vt_s + 1 /\ vr_r' = vr_r /\ handed' = <<>>
    BY <2>1 DEF Service!Next, Service!Send
  <2>2. CASE vt_s' = vt_s /\ vr_r < vr_r' /\ vr_r' <= vt_s /\ handed' = Run(vr_r, vr_r')
    <3>1. Rx'
      BY <1>2
    <3>2. vr_r \in Nat /\ vr_r' \in Nat /\ vt_s \in Nat
      BY <3>1, RxBounds DEF Rx, Numbers
    <3>3. GoesFrom(handed', vr_r, vr_r')
      <4>1. GoesFrom(Run(vr_r, vr_r'), vr_r, vr_r')
        BY <2>2, <3>2, RunIs
      <4> QED BY <2>2, <4>1
    <3>4. ASSUME NEW i \in DOMAIN handed'
          PROVE  LET expected == IF i = 1 THEN vr_r ELSE handed'[i - 1] + 1
                 IN handed'[i] >= expected /\ handed'[i] < vt_s /\ handed'[i] = expected
      <4>1. /\ handed'[i] \in Int /\ handed'[i] < vr_r'
            /\ handed'[i] = IF i = 1 THEN vr_r ELSE handed'[i - 1] + 1
        BY <3>3 DEF GoesFrom
      <4> QED BY <2>2, <3>2, <4>1
    <3> QED BY <2>2, <3>3, <3>4 DEF GoesFrom, Service!Next, Service!Deliver
  <2>3. CASE vt_s' = vt_s /\ vr_r' = vr_r /\ handed' = <<>>
    BY <2>3 DEF Service!Next, Service!Quiet
  <2>4. CASE UNCHANGED <<vt_s, vr_r, handed>>
    BY <2>4 DEF Service!vars
  <2> QED BY <2>1, <2>2, <2>3, <2>4, StepRx
<1> QED BY <1>1, <1>2, <1>3, InitRx, PTL DEF Spec, ImplementsService, Service!Spec

-----------------------------------------------------------------------------
(* Unacknowledged mode: the queue, its counter and reassembly.               *)

Octet == Nat \X Nat
Part == [data : Seq(Octet), part : BOOLEAN]

\* The SDUs that have left the queue, and what is left of those in it: they follow
\* one another, and only the first may have been sent in part.
Gone == Len(lengths) - Len(buf)
Ahead == IF buf = <<>> THEN 0 ELSE lengths[Gone + 1] - Length(1)
From(i, k, n) == [j \in 1 .. n |-> <<i, k + j>>]
Queued ==
  /\ lengths \in Seq(Lengths) /\ buf \in Seq(Part) /\ Len(buf) <= Len(lengths)
  /\ \A i \in DOMAIN buf :
       LET k == IF i = 1 THEN Ahead ELSE 0
       IN /\ Length(i) = lengths[Gone + i] - k /\ k >= 0
          /\ buf[i].part <=> k > 0
          /\ buf[i].data = From(Gone + i, k, Length(i))

\* What is queued has not arrived.
Unsent ==
  \A o \in arrived : o \in Octet /\ (o[1] <= Gone \/ (o[1] = Gone + 1 /\ o[2] \in 1 .. Ahead))

\* All that came of units of at most two SDUs is older than the i-th.
Newer(i, s) == \A d \in ToSet(s) : ~d.crowded => d.data[1][1] \in Nat /\ d.data[1][1] < i

\* The start the receiver keeps is that of one SDU, the next one's if nothing has been
\* lost since.
KeptStart(i, k) ==
  /\ left.data = Sdu(i, k) /\ k < lengths[i] /\ i <= Gone + 1
  /\ missing = 0 /\ Ahead > 0 => i = Gone + 1 /\ k = Ahead
  /\ Newer(i, delivered)
LeftRight ==
  /\ sn \in 0 .. Mod - 1 /\ missing \in 0 .. MaxMissing
  /\ left.crowded \in BOOLEAN
  /\ left.sn # None =>
       /\ left.sn \in 0 .. Mod - 1 /\ left.sn + 1 + missing \in {sn, sn + Mod}
       /\ ~left.crowded => \E i \in DOMAIN lengths : \E k \in 1 .. lengths[i] : KeptStart(i, k)

\* What was delivered has left the queue, or nothing of it is left there.
IsOver(i) == i <= Gone \/ (i = Gone + 1 /\ Ahead > 0 /\ Ahead = lengths[i])
Ordered(s) ==
  /\ s \in Seq(ToSet(s))
  /\ \A d \in ToSet(s) : d.crowded \in BOOLEAN
  /\ \A j, k \in DOMAIN s :
       j < k /\ ~s[j].crowded /\ ~s[k].crowded => s[j].data[1][1] < s[k].data[1][1]
DeliveredRight ==
  /\ Ordered(delivered)
  /\ \A d \in ToSet(delivered) : ~d.crowded => \E i \in DOMAIN lengths : IsSdu(d.data, i) /\ IsOver(i)

\* What arrived was delivered, or its start is kept.
Arrived(i, k) == ToSet(Sdu(i, k)) \subseteq arrived
Delivered(i) == \E d \in ToSet(delivered) : IsSdu(d.data, i)
ArrivedRight ==
  /\ \A i \in 1 .. Gone : Arrived(i, lengths[i]) => Delivered(i)
  /\ Ahead > 0 /\ Arrived(Gone + 1, Ahead) =>
       \/ Ahead = lengths[Gone + 1] /\ Delivered(Gone + 1)
       \/ /\ Ahead < lengths[Gone + 1] /\ left.sn # None /\ missing = 0 /\ ~left.crowded
          /\ left.data = Sdu(Gone + 1, Ahead)

-----------------------------------------------------------------------------
(* The octets of a queue.                                                    *)

\* A queue has a sum for each of its beginnings.
LEMMA SumsExist ==
  ASSUME NEW N \in Nat, NEW L \in [1 .. N -> Nat], NEW n \in 0 .. N
  PROVE  \E f \in [0 .. n -> Nat] : f[0] = 0 /\ \A i \in 1 .. n : f[i] = f[i - 1] + L[i]
<1> DEFINE Sums(m, f) == f[0] = 0 /\ \A i \in 1 .. m : f[i] = f[i - 1] + L[i]
           T == {m \in 0 .. N : ~\E f \in [0 .. m -> Nat] : Sums(m, f)}
<1> SUFFICES ASSUME T # {} PROVE FALSE
  OBVIOUS
<1>1. PICK m \in T : \A y \in T : m <= y
  <2>1. T \in SUBSET Nat
    OBVIOUS
  <2> QED BY <2>1, Least
<1>2. CASE m = 0
  <2>1. [i \in 0 .. 0 |-> 0] \in [0 .. 0 -> Nat] /\ Sums(0, [i \in 0 .. 0 |-> 0])
    OBVIOUS
  <2> QED BY <1>1, <1>2, <2>1
<1>3. CASE m # 0
  <2>1. m \in Nat /\ m - 1 \in 0 .. N /\ m - 1 \notin T /\ m \in 1 .. N
    <3>1. m \in 0 .. N
      BY <1>1
    <3>2. m - 1 \in 0 .. N /\ m \in 1 .. N /\ ~(m <= m - 1)
      BY <3>1, <1>3
    <3> HIDE DEF T
    <3> QED BY <3>1, <3>2, <1>1
  <2>2. PICK f \in [0 .. m - 1 -> Nat] : Sums(m - 1, f)
    BY <2>1
  <2> DEFINE g == [i \in 0 .. m |-> IF i = m THEN f[m - 1] + L[m] ELSE f[i]]
  <2>3. m - 1 \in 0 .. m - 1 /\ f[m - 1] \in Nat /\ L[m] \in Nat
    BY <2>1
  <2>4. \A i \in 0 .. m : i # m => i \in 0 .. m - 1
    BY <2>1
  <2>5. g \in [0 .. m -> Nat]
    BY <2>3, <2>4
  <2>6. Sums(m, g)
    <3>1. g[0] = 0
      BY <1>3, <2>1, <2>2
    <3>2. ASSUME NEW i \in 1 .. m PROVE g[i] = g[i - 1] + L[i]
      <4>1. i - 1 \in 0 .. m /\ i - 1 # m /\ i \in 0 .. m
        BY <2>1
      <4>2. CASE i = m
        BY <4>1, <4>2
      <4>3. CASE i # m
        <5>1. i \in 1 .. m - 1
          BY <2>1, <4>3
        <5>2. f[i] = f[i - 1] + L[i]
          BY <2>2, <5>1
        <5> QED BY <4>1, <4>3, <5>2
      <4> QED BY <4>2, <4>3
    <3> QED BY <3>1, <3>2
  <2> QED BY <1>1, <2>5, <2>6
<1> QED BY <1>2, <1>3

\* Upto is what its definition says.
LEMMA UptoFacts ==
  ASSUME NEW s \in Seq(Part)
  PROVE  /\ Upto(s, 0) = 0
         /\ \A n \in 1 .. Len(s) : Upto(s, n) = Upto(s, n - 1) + Len(s[n].data)
         /\ \A n \in 0 .. Len(s) : Upto(s, n) \in Nat
<1> DEFINE N == Len(s)
           L == [i \in 1 .. N |-> Len(s[i].data)]
           IsSum(f) == f = [i \in 0 .. N |-> IF i = 0 THEN 0 ELSE f[i - 1] + Len(s[i].data)]
           sum == CHOOSE f : IsSum(f)
<1>1. N \in Nat /\ L \in [1 .. N -> Nat]
  <2> SUFFICES ASSUME NEW i \in 1 .. N PROVE Len(s[i].data) \in Nat
    OBVIOUS
  <2>1. s[i] \in Part
    OBVIOUS
  <2>2. s[i].data \in Seq(Octet)
    BY <2>1 DEF Part
  <2> QED BY <2>2
<1>2. PICK f \in [0 .. N -> Nat] : f[0] = 0 /\ \A i \in 1 .. N : f[i] = f[i - 1] + L[i]
  <2>1. N \in 0 .. N
    BY <1>1
  <2> HIDE DEF N, L
  <2> QED BY <1>1, <2>1, SumsExist
<1>3. IsSum(f)
  <2>1. \A i \in 0 .. N : i # 0 => i \in 1 .. N
    BY <1>1
  <2>2. \A i \in 0 .. N : f[i] = IF i = 0 THEN 0 ELSE f[i - 1] + Len(s[i].data)
    BY <1>2, <2>1
  <2> QED BY <1>2, <2>2
<1>4. IsSum(sum)
  BY <1>3
<1>5. \A n : Upto(s, n) = sum[n]
  BY DEF Upto
<1> HIDE DEF sum
<1>6. sum[0] = 0 /\ \A i \in 1 .. N : sum[i] = sum[i - 1] + L[i]
  <2>1. \A i \in 1 .. N : i \in 0 .. N /\ i # 0 /\ L[i] = Len(s[i].data)
    BY <1>1
  <2>2. 0 \in 0 .. N
    BY <1>1
  <2> QED BY <1>4, <2>1, <2>2
<1> DEFINE T == {n \in 0 .. N : sum[n] \notin Nat}
<1>7. T = {}
  <2> SUFFICES ASSUME T # {} PROVE FALSE
    OBVIOUS
  <2>1. PICK n \in T : \A y \in T : n <= y
    <3>1. T \in SUBSET Nat
      OBVIOUS
    <3> QED BY <3>1, Least
  <2>2. n # 0 /\ n \in 1 .. N
    BY <1>1, <1>6, <2>1
  <2>3. n - 1 \in 0 .. N /\ n - 1 \notin T
    BY <1>1, <2>1, <2>2
  <2>4. sum[n - 1] \in Nat
    BY <2>3
  <2>5. sum[n] = sum[n - 1] + L[n] /\ L[n] \in Nat
    BY <1>1, <1>6, <2>2
  <2>6. sum[n] \notin Nat
    BY <2>1
  <2> HIDE DEF T, L
  <2> QED BY <2>4, <2>5, <2>6
<1>8. \A n \in 1 .. N : L[n] = Len(s[n].data)
  OBVIOUS
<1>9. \A n \in 0 .. N : sum[n] \in Nat
  BY <1>7
<1> HIDE DEF T, L
<1> QED BY <1>1, <1>5, <1>6, <1>8, <1>9

\* Stretches of the same lengths have as many octets.
LEMMA UptoSame ==
  ASSUME NEW s \in Seq(Part), NEW t \in Seq(Part), NEW d \in 0 .. Len(s), NEW e \in 0 .. Len(t),
         Len(t) - e = Len(s) - d,
         \A j \in 1 .. Len(s) - d : Len(t[e + j].data) = Len(s[d + j].data)
  PROVE  Upto(t, Len(t)) - Upto(t, e) = Upto(s, Len(s)) - Upto(s, d)
<1>0. PICK k \in Nat : k = Len(s) - d /\ d + k = Len(s) /\ e + k = Len(t)
  <2>1. Len(s) \in Nat /\ Len(t) \in Nat
    OBVIOUS
  <2> QED BY <2>1
<1> DEFINE a == [j \in 0 .. k |-> Upto(t, e + j)]
           b == [j \in 0 .. k |-> Upto(s, d + j)]
           T == {j \in 0 .. k : a[j] - a[0] # b[j] - b[0]}
<1>1. \A j \in 0 .. k : a[j] \in Nat /\ b[j] \in Nat
  <2> SUFFICES ASSUME NEW j \in 0 .. k PROVE a[j] \in Nat /\ b[j] \in Nat
    OBVIOUS
  <2>1. e + j \in 0 .. Len(t) /\ d + j \in 0 .. Len(s)
    BY <1>0
  <2> QED BY <2>1, UptoFacts
<1>2. ASSUME NEW j \in 1 .. k PROVE a[j] - a[j - 1] = b[j] - b[j - 1]
  <2>1. /\ e + j \in 1 .. Len(t) /\ d + j \in 1 .. Len(s) /\ j - 1 \in 0 .. k /\ j \in 0 .. k
        /\ (e + j) - 1 = e + (j - 1) /\ (d + j) - 1 = d + (j - 1)
        /\ Len(t[e + j].data) = Len(s[d + j].data)
    BY <1>0
  <2>2. Upto(t, e + j) = Upto(t, e + (j - 1)) + Len(t[e + j].data)
    BY <2>1, UptoFacts
  <2>3. Upto(s, d + j) = Upto(s, d + (j - 1)) + Len(s[d + j].data)
    BY <2>1, UptoFacts
  <2>4. Len(s[d + j].data) \in Nat
    <3>1. s[d + j] \in Part
      BY <2>1
    <3>2. s[d + j].data \in Seq(Octet)
      BY <3>1 DEF Part
    <3> QED BY <3>2
  <2>5. a[j - 1] \in Nat /\ b[j - 1] \in Nat
    BY <1>1, <2>1
  <2>6. a[j] = a[j - 1] + Len(s[d + j].data) /\ b[j] = b[j - 1] + Len(s[d + j].data)
    BY <2>1, <2>2, <2>3
  <2> HIDE DEF a, b
  <2> QED BY <2>4, <2>5, <2>6
<1>3. a[0] = Upto(t, e) /\ b[0] = Upto(s, d) /\ a[k] = Upto(t, e + k) /\ b[k] = Upto(s, d + k)
  OBVIOUS
<1> HIDE DEF a, b
<1>4. T = {}
  <2> SUFFICES ASSUME T # {} PROVE FALSE
    OBVIOUS
  <2>1. PICK j \in T : \A y \in T : j <= y
    <3>1. T \in SUBSET Nat
      OBVIOUS
    <3> QED BY <3>1, Least
  <2>2. j # 0 /\ j \in 1 .. k /\ 0 \in 0 .. k
    <3>1. j \in 0 .. k /\ a[j] - a[0] # b[j] - b[0] /\ 0 \in 0 .. k
      BY <2>1
    <3>2. j # 0
      BY ONLY <1>1, <3>1
    <3> QED BY ONLY <3>1, <3>2
  <2>3. j - 1 \in 0 .. k /\ j - 1 \notin T /\ j \in 0 .. k
    BY <2>1, <2>2
  <2>4. a[j] - a[j - 1] = b[j] - b[j - 1] /\ a[j - 1] - a[0] = b[j - 1] - b[0]
    BY <1>2, <2>2, <2>3
  <2>5. a[j] - a[0] # b[j] - b[0]
    BY <2>1
  <2>6. a[j] \in Nat /\ b[j] \in Nat /\ a[j - 1] \in Nat /\ b[j - 1] \in Nat /\ a[0] \in Nat /\ b[0] \in Nat
    BY <1>1, <2>2, <2>3
  <2>7. PICK p \in Nat, q \in Nat, r \in Nat, u \in Nat, v \in Nat, w \in Nat :
          p = a[j] /\ q = a[j - 1] /\ r = a[0] /\ u = b[j] /\ v = b[j - 1] /\ w = b[0]
    BY <2>6, Zenon
  <2>8. p - q = u - v /\ q - r = v - w /\ p - r # u - w
    BY <2>4, <2>5, <2>7, Zenon
  <2> QED BY ONLY <2>8
<1>5. k \in 0 .. k
  OBVIOUS
<1> QED BY <1>0, <1>3, <1>4, <1>5

-----------------------------------------------------------------------------
(* The sender's step.                                                        *)

\* What the queue holds, in numbers.
LEMMA QueuedNumbers ==
  ASSUME Queued
  PROVE  /\ Gone \in Nat /\ Ahead \in Nat /\ Len(lengths) \in Nat /\ Len(buf) = Len(lengths) - Gone
         /\ Len(buf) \in Nat
         /\ \A i \in DOMAIN lengths : lengths[i] \in Nat /\ lengths[i] > 0
         /\ Ahead > 0 => Gone + 1 \in DOMAIN lengths /\ Ahead <= lengths[Gone + 1]
         /\ \A i \in DOMAIN buf :
              /\ buf[i] \in Part /\ Gone + i \in DOMAIN lengths /\ Length(i) \in Nat
              /\ Length(i) = lengths[Gone + i] - IF i = 1 THEN Ahead ELSE 0
<1>1. Len(lengths) \in Nat /\ Len(buf) \in Nat /\ Gone \in Nat /\ Len(buf) = Len(lengths) - Gone
  BY DEF Queued, Gone
<1>2. \A i \in DOMAIN lengths : lengths[i] \in Nat /\ lengths[i] > 0
  <2>1. lengths \in Seq(Lengths)
    BY DEF Queued
  <2>2. \A i \in DOMAIN lengths : lengths[i] \in Lengths
    BY <2>1
  <2> SUFFICES ASSUME NEW i \in DOMAIN lengths PROVE lengths[i] \in Nat /\ lengths[i] > 0
    OBVIOUS
  <2>3. PICK n \in Lengths : n = lengths[i]
    BY <2>2
  <2>4. n \in Nat /\ n # 0
    BY LengthsAssumption
  <2>5. n > 0
    BY <2>4
  <2> QED BY <2>3, <2>4, <2>5
<1>3. ASSUME NEW i \in DOMAIN buf
      PROVE  /\ buf[i] \in Part /\ Gone + i \in DOMAIN lengths /\ Length(i) \in Nat
             /\ Length(i) = lengths[Gone + i] - IF i = 1 THEN Ahead ELSE 0
  <2>1. i \in 1 .. Len(buf) /\ buf[i] \in Part
    BY DEF Queued
  <2>2. Gone + i \in DOMAIN lengths
    BY <1>1, <2>1 DEF Queued
  <2>3. buf[i].data \in Seq(Octet)
    BY <2>1 DEF Part
  <2>4. Length(i) \in Nat
    BY <2>3 DEF Length
  <2> QED BY <2>1, <2>2, <2>4 DEF Queued
<1>4. Ahead \in Nat /\ (Ahead > 0 => Gone + 1 \in DOMAIN lengths /\ Ahead <= lengths[Gone + 1])
  <2>1. CASE buf = <<>>
    BY <2>1 DEF Ahead
  <2>2. CASE buf # <<>>
    <3>1. 1 \in DOMAIN buf
      BY <1>1, <2>2 DEF Queued
    <3>2. Ahead = lengths[Gone + 1] - Length(1)
      BY <2>2 DEF Ahead
    <3>3. lengths[Gone + 1] \in Nat /\ Gone + 1 \in DOMAIN lengths /\ Length(1) \in Nat
      BY <1>2, <1>3, <3>1
    <3>4. Ahead >= 0
      BY <3>1 DEF Queued
    <3> QED BY <3>2, <3>3, <3>4
  <2> QED BY <2>1, <2>2
<1> HIDE DEF Gone
<1> QED BY <1>1, <1>2, <1>3, <1>4

\* The SDUs that share in a unit are the first ones the room suffices for.
LEMMA SharesFacts ==
  ASSUME Queued, buf # <<>>, NEW grant \in 3 .. MaxGrant
  PROVE  /\ Shares(grant) \in DOMAIN buf
         /\ Copied(grant) \in 0 .. Length(Shares(grant))
         /\ Length(Shares(grant)) > 0 => Copied(grant) > 0
         /\ Room(grant, Shares(grant)) < Length(Shares(grant)) <=> Copied(grant) < Length(Shares(grant))
<1> DEFINE Fits(i) == Room(grant, i) > Length(i) + 2
           T == {i \in DOMAIN buf : i = Len(buf) \/ ~Fits(i)}
           N == Len(buf)
<1>1. N \in Nat /\ N > 0 /\ DOMAIN buf = 1 .. N /\ buf \in Seq(Part) /\ grant \in Int /\ grant >= 3
  BY BoundsAssumption DEF Queued
<1>2. \A i \in 1 .. N : Length(i) \in Nat
  BY <1>1, QueuedNumbers
<1>3. \A i \in 0 .. N : Upto(buf, i) \in Nat
  BY <1>1, UptoFacts
<1>4. \A i \in 1 .. N : Upto(buf, i) = Upto(buf, i - 1) + Length(i)
  BY <1>1, UptoFacts DEF Length
<1>5. Upto(buf, 0) = 0
  BY <1>1, UptoFacts
<1>6. \A i \in 1 .. N : Room(grant, i) \in Int
  BY <1>1, <1>3 DEF Room
<1>7. \A i \in 1 .. N - 1 : Room(grant, i + 1) = Room(grant, i) - Length(i) - 2
  <2> SUFFICES ASSUME NEW i \in 1 .. N - 1 PROVE Room(grant, i + 1) = Room(grant, i) - Length(i) - 2
    OBVIOUS
  <2> HIDE DEF N
  <2>1. i \in 1 .. N /\ i \in 0 .. N /\ i - 1 \in 0 .. N /\ (i + 1) - 1 = i
    BY <1>1
  <2>2. PICK a \in Nat, b \in Nat, l \in Nat : a = Upto(buf, i - 1) /\ b = Upto(buf, i) /\ l = Length(i)
    BY <1>2, <1>3, <2>1
  <2>3. b = a + l
    BY <1>4, <2>1, <2>2
  <2>4. Room(grant, i + 1) = grant - 2 - b - 2 * i /\ Room(grant, i) = grant - 2 - a - 2 * (i - 1)
    BY <2>1, <2>2 DEF Room
  <2>5. PICK g \in Int : g = grant
    BY <1>1
  <2>6. g - 2 - b - 2 * i = (g - 2 - a - 2 * (i - 1)) - l - 2
    BY <2>1, <2>3
  <2> QED BY <2>2, <2>4, <2>5, <2>6
<1>8. Room(grant, 1) > 0
  BY <1>1, <1>5 DEF Room
<1> HIDE DEF N
<1>9. \E c \in DOMAIN buf : (c = Len(buf) \/ Room(grant, c) <= Length(c) + 2)
                            /\ \A i \in 1 .. c - 1 : Room(grant, i) > Length(i) + 2
  <2>1. T \in SUBSET Nat /\ N \in T
    BY <1>1 DEF N
  <2>2. PICK c \in T : \A y \in T : c <= y
    <3> HIDE DEF T
    <3> QED BY <2>1, Least
  <2>3. c \in 1 .. N
    BY <1>1, <2>2
  <2>4. c = Len(buf) \/ Room(grant, c) <= Length(c) + 2
    BY <1>2, <1>6, <2>2, <2>3
  <2>5. ASSUME NEW i \in 1 .. c - 1 PROVE Room(grant, i) > Length(i) + 2
    <3>1. i \in DOMAIN buf /\ ~(c <= i)
      BY <1>1, <2>3
    <3>2. i \notin T
      BY <2>2, <3>1
    <3> QED BY <3>1, <3>2
  <2> QED BY <1>1, <2>3, <2>4, <2>5
<1>10. /\ Shares(grant) \in DOMAIN buf
       /\ \A i \in 1 .. Shares(grant) - 1 : Room(grant, i) > Length(i) + 2
  BY <1>9 DEF Shares
<1>11. PICK c \in 1 .. N : c = Shares(grant)
  BY <1>1, <1>10
<1>12. Room(grant, c) > 0
  <2>1. CASE c = 1
    BY <1>8, <2>1
  <2>2. CASE c # 1
    <3>1. c - 1 \in 1 .. N /\ c - 1 \in 1 .. c - 1 /\ c - 1 \in 1 .. N - 1 /\ (c - 1) + 1 = c
      BY <1>1, <2>2
    <3>2. Room(grant, c - 1) > Length(c - 1) + 2
      BY <1>10, <1>11, <3>1
    <3>3. Room(grant, c) = Room(grant, c - 1) - Length(c - 1) - 2
      BY <1>7, <3>1
    <3>4. Room(grant, c - 1) \in Int /\ Length(c - 1) \in Nat /\ Room(grant, c) \in Int
      BY <1>2, <1>6, <3>1
    <3> QED BY <3>2, <3>3, <3>4
  <2> QED BY <2>1, <2>2
<1>13. Copied(grant) = IF Room(grant, c) < Length(c) THEN Room(grant, c) ELSE Length(c)
  BY <1>11 DEF Copied
<1>14. Room(grant, c) \in Int /\ Length(c) \in Nat
  BY <1>2, <1>6, <1>11
<1> QED BY <1>1, <1>11, <1>12, <1>13, <1>14

\* What is left of a queue when the first `cut' are taken, and `put' entries put back.
Cut(s, cut, put, back) == (IF put = 0 THEN <<>> ELSE <<back>>) \o SubSeq(s, cut + 1, Len(s))

\* What is in a queue that was cut.
LEMMA CutQueue ==
  ASSUME NEW s \in Seq(Part), NEW cut \in 1 .. Len(s), NEW put \in 0 .. 1, NEW back \in Part
  PROVE  /\ Cut(s, cut, put, back) \in Seq(Part) /\ Len(Cut(s, cut, put, back)) = put + (Len(s) - cut)
         /\ put = 1 => Cut(s, cut, put, back)[1] = back
         /\ \A i \in 1 .. Len(s) - cut : Cut(s, cut, put, back)[put + i] = s[cut + i]
         /\ Upto(Cut(s, cut, put, back), Len(Cut(s, cut, put, back))) = Upto(s, Len(s)) - Upto(s, cut) + put * Len(back.data)
<1>0. PICK remains : remains = Cut(s, cut, put, back)
  OBVIOUS
<1>1. PICK n \in Nat : n = Len(s) /\ cut \in 1 .. n
  OBVIOUS
<1>2. PICK u \in Seq(Part) : u = SubSeq(s, cut + 1, n) /\ Len(u) = n - cut /\ \A i \in 1 .. n - cut : u[i] = s[cut + i]
  <2>1. cut + 1 \in Int /\ n \in Int /\ \A i \in cut + 1 .. n : s[i] \in Part
    BY <1>1
  <2>2. /\ SubSeq(s, cut + 1, n) \in Seq(Part)
        /\ Len(SubSeq(s, cut + 1, n)) = IF cut + 1 <= n THEN n - (cut + 1) + 1 ELSE 0
        /\ \A i \in 1 .. n - (cut + 1) + 1 : SubSeq(s, cut + 1, n)[i] = s[cut + 1 + i - 1]
    BY ONLY <2>1, SubSeqProperties
  <2>3. n - (cut + 1) + 1 = n - cut /\ (cut + 1 <= n <=> n - cut # 0) /\ \A i \in 1 .. n - cut : cut + 1 + i - 1 = cut + i
    BY ONLY <1>1
  <2>4. PICK u \in Seq(Part) : u = SubSeq(s, cut + 1, n)
    BY ONLY <2>2
  <2>5. Len(u) = n - cut
    BY ONLY <2>2, <2>3, <2>4, <1>1
  <2>6. \A i \in 1 .. n - cut : u[i] = s[cut + i]
    BY ONLY <2>2, <2>3, <2>4
  <2> QED BY ONLY <2>4, <2>5, <2>6
<1>3. remains \in Seq(Part) /\ Len(remains) = put + (n - cut) /\ (put = 1 => remains[1] = back) /\ \A i \in 1 .. n - cut : remains[put + i] = u[i]
  <2>1. CASE put = 0
    <3>1. remains = <<>> \o u
      BY <1>1, <1>2, <2>1, <1>0 DEF Cut
    <3>2. remains = u
      BY <3>1, ConcatEmptySeq
    <3>3. 0 + (n - cut) = n - cut /\ \A i \in 1 .. n - cut : 0 + i = i
      BY ONLY <1>1
    <3>4. \A i \in 1 .. n - cut : remains[0 + i] = u[i]
      BY ONLY <3>2, <3>3
    <3>5. remains \in Seq(Part) /\ Len(remains) = 0 + (n - cut)
      BY ONLY <1>2, <3>2, <3>3
    <3> QED BY ONLY <2>1, <3>4, <3>5
  <2>2. CASE put = 1
    <3>1. remains = <<back>> \o u /\ <<back>> \in Seq(Part) /\ Len(<<back>>) = 1
      BY <1>1, <1>2, <2>2, <1>0 DEF Cut
    <3>2. PICK w \in Seq(Part) : w = <<back>> /\ Len(w) = 1 /\ w[1] = back
      BY ONLY <3>1, back \in Part
    <3>3. /\ w \o u \in Seq(Part) /\ Len(w \o u) = Len(w) + Len(u)
          /\ \A i \in 1 .. Len(w) + Len(u) : (w \o u)[i] = IF i <= Len(w) THEN w[i] ELSE u[i - Len(w)]
      BY ONLY u \in Seq(Part), w \in Seq(Part), ConcatProperties, Zenon
    <3>4. /\ remains \in Seq(Part) /\ Len(remains) = 1 + (n - cut)
          /\ \A i \in 1 .. 1 + (n - cut) : remains[i] = IF i <= 1 THEN w[i] ELSE u[i - 1]
      BY ONLY <1>2, <3>1, <3>2, <3>3
    <3>5. remains[1] = back
      <4>1. 1 \in 1 .. 1 + (n - cut)
        BY ONLY <1>1
      <4> QED BY ONLY <3>2, <3>4, <4>1
    <3>6. ASSUME NEW i \in 1 .. n - cut PROVE remains[1 + i] = u[i]
      <4>1. 1 + i \in 1 .. 1 + (n - cut) /\ ~(1 + i <= 1) /\ (1 + i) - 1 = i
        BY ONLY <1>1, i \in 1 .. n - cut
      <4> QED BY ONLY <3>4, <4>1
    <3>7. \A i \in 1 .. n - cut : remains[put + i] = u[i]
      BY ONLY <2>2, <3>6
    <3>8. Len(remains) = put + (n - cut)
      BY ONLY <2>2, <3>4
    <3> QED BY ONLY <3>4, <3>5, <3>7, <3>8
  <2>3. put = 0 \/ put = 1
    BY ONLY put \in 0 .. 1
  <2> QED BY ONLY <2>1, <2>2, <2>3, Zenon
<1>4. Upto(remains, put + (n - cut)) - Upto(remains, put) = Upto(s, cut + (n - cut)) - Upto(s, cut)
  <2>1. \A j \in 1 .. n - cut : Len(remains[put + j].data) = Len(s[cut + j].data)
    BY <1>2, <1>3
  <2>2. n - cut \in Nat /\ cut \in Nat /\ put \in Nat /\ cut + (n - cut) <= Len(s) /\ put + (n - cut) <= Len(remains)
    <3>1. n - cut \in Nat /\ cut \in Nat /\ put \in Nat /\ cut + (n - cut) = n /\ n <= n
      BY ONLY <1>1, put \in 0 .. 1
    <3>2. put + (n - cut) <= put + (n - cut)
      BY ONLY <3>1
    <3> QED BY ONLY <1>1, <1>3, <3>1, <3>2
  <2>3. Len(remains) - put = Len(s) - cut /\ cut \in 0 .. Len(s) /\ put \in 0 .. Len(remains)
    BY ONLY <1>1, <1>3, <2>2
  <2>4. remains \in Seq(Part) /\ s \in Seq(Part) /\ \A j \in 1 .. Len(s) - cut : Len(remains[put + j].data) = Len(s[cut + j].data)
    BY ONLY s \in Seq(Part), <1>1, <1>3, <2>1
  <2>5. Upto(remains, Len(remains)) - Upto(remains, put) = Upto(s, Len(s)) - Upto(s, cut)
    BY ONLY <2>3, <2>4, UptoSame
  <2>6. cut + (n - cut) = n
    BY ONLY <1>1
  <2> QED BY ONLY <1>1, <1>3, <2>5, <2>6
<1>5. cut + (n - cut) = n
  BY <1>1
<1>6. Upto(remains, put) = put * Len(back.data)
  <2>1. Upto(remains, 0) = 0
    BY <1>3, UptoFacts
  <2>2. CASE put = 0
    BY <2>1, <2>2
  <2>3. CASE put = 1
    <3>1. 1 \in 1 .. Len(remains)
      BY <1>1, <1>3, <2>3
    <3>2. Upto(remains, 1) = Upto(remains, 1 - 1) + Len(remains[1].data)
      BY <1>3, <3>1, UptoFacts
    <3>3. back.data \in Seq(Octet)
      BY DEF Part
    <3>4. Len(back.data) \in Nat
      BY <3>3
    <3> QED BY <1>3, <2>1, <2>3, <3>2, <3>4
  <2> QED BY <2>2, <2>3
<1>7. /\ Upto(remains, put + (n - cut)) \in Nat /\ Upto(remains, put) \in Nat /\ Upto(s, cut) \in Nat /\ Upto(s, n) \in Nat
  <2>1. put + (n - cut) \in 0 .. Len(remains) /\ put \in 0 .. Len(remains) /\ cut \in 0 .. Len(s) /\ n \in 0 .. Len(s)
    <3>1. /\ put + (n - cut) \in 0 .. put + (n - cut) /\ put \in 0 .. put + (n - cut)
          /\ cut \in 0 .. n /\ n \in 0 .. n
      BY ONLY <1>1, put \in 0 .. 1
    <3> QED BY ONLY <1>1, <1>3, <3>1
  <2> QED BY <1>3, <2>1, UptoFacts
<1>8. PICK a \in Nat, b \in Nat, d \in Nat, e \in Nat :
        a = Upto(remains, put + (n - cut)) /\ b = Upto(remains, put) /\ d = Upto(s, cut) /\ e = Upto(s, n)
  BY <1>7
<1>9. a - b = e - d
  BY <1>4, <1>5, <1>8
<1>10. a = e - d + b
  BY <1>9
<1> QED BY ONLY <1>0, <1>1, <1>2, <1>3, <1>6, <1>8, <1>10

LEMMA CutIsQueue ==
  ASSUME NEW s \in Seq(Part), NEW cut \in 1 .. Len(s), NEW put \in 0 .. 1, NEW back \in Part
  PROVE  Cut(s, cut, put, back) \in Seq(Part) /\ Len(Cut(s, cut, put, back)) = put + (Len(s) - cut)
BY CutQueue

LEMMA CutEntries ==
  ASSUME NEW s \in Seq(Part), NEW cut \in 1 .. Len(s), NEW put \in 0 .. 1, NEW back \in Part
  PROVE  /\ put = 1 => Cut(s, cut, put, back)[1] = back
         /\ \A i \in 1 .. Len(s) - cut : Cut(s, cut, put, back)[put + i] = s[cut + i]
BY CutQueue

LEMMA CutSum ==
  ASSUME NEW s \in Seq(Part), NEW cut \in 1 .. Len(s), NEW put \in 0 .. 1, NEW back \in Part
  PROVE  Upto(Cut(s, cut, put, back), Len(Cut(s, cut, put, back)))
           = Upto(s, Len(s)) - Upto(s, cut) + put * Len(back.data)
BY CutQueue

\* The end of an SDU is a stretch of it.
LEMMA CutSdu ==
  ASSUME NEW id \in Nat, NEW at \in Nat, NEW all \in Nat, NEW part \in 0 .. all
  PROVE  /\ From(id, at, all) \in Seq(Octet) /\ Len(From(id, at, all)) = all
         /\ SubSeq(From(id, at, all), part + 1, all) = From(id, at + part, all - part)
         /\ SubSeq(From(id, at, all), 1, part) = From(id, at, part)
<1> DEFINE s == From(id, at, all)
<1>1. s \in Seq(Octet) /\ Len(s) = all /\ DOMAIN s = 1 .. all /\ \A j \in 1 .. all : s[j] = <<id, at + j>>
  BY DEF From, Octet
<1> HIDE DEF s
<1>2. ASSUME NEW a \in 0 .. all, NEW b \in 0 .. all, a <= b PROVE SubSeq(s, a + 1, b) = From(id, at + a, b - a)
  <2>1. a + 1 \in Int /\ b \in Int /\ \A j \in a + 1 .. b : j \in 1 .. all
    OBVIOUS
  <2>2. \A j \in a + 1 .. b : s[j] \in Octet
    BY <1>1, <2>1 DEF Octet
  <2>3. /\ SubSeq(s, a + 1, b) \in Seq(Octet)
        /\ Len(SubSeq(s, a + 1, b)) = IF a + 1 <= b THEN b - (a + 1) + 1 ELSE 0
        /\ \A j \in 1 .. b - (a + 1) + 1 : SubSeq(s, a + 1, b)[j] = s[a + 1 + j - 1]
    BY ONLY <2>1, <2>2, SubSeqProperties
  <2>4. PICK t \in Seq(Octet) : t = SubSeq(s, a + 1, b)
    BY <2>3
  <2>5. Len(t) = b - a
    BY <1>2, <2>3, <2>4
  <2>6. ASSUME NEW j \in 1 .. b - a PROVE t[j] = <<id, (at + a) + j>>
    <3>1. j \in 1 .. b - (a + 1) + 1 /\ a + 1 + j - 1 = a + j /\ a + j \in 1 .. all /\ at + (a + j) = (at + a) + j
      BY <1>2
    <3> QED BY <1>1, <2>3, <2>4, <3>1
  <2>7. t = [j \in 1 .. b - a |-> t[j]]
    BY <2>5
  <2> QED BY <2>4, <2>6, <2>7 DEF From
<1>3. SubSeq(s, part + 1, all) = From(id, at + part, all - part)
  <2>1. part \in 0 .. all /\ all \in 0 .. all /\ part <= all
    OBVIOUS
  <2> QED BY ONLY <1>2, <2>1
<1>4. SubSeq(s, 0 + 1, part) = From(id, at + 0, part - 0) /\ at + 0 = at /\ part - 0 = part /\ 0 + 1 = 1
  <2>1. 0 \in 0 .. all /\ part \in 0 .. all /\ 0 <= part
    OBVIOUS
  <2>2. at + 0 = at /\ part - 0 = part /\ 0 + 1 = 1
    OBVIOUS
  <2>3. SubSeq(s, 0 + 1, part) = From(id, at + 0, part - 0)
    BY ONLY <1>2, <2>1
  <2> QED BY <2>2, <2>3
<1> QED BY <1>1, <1>3, <1>4 DEF s

LEMMA SduIs ==
  ASSUME NEW id \in Nat, NEW at \in Nat, NEW all \in Nat
  PROVE  From(id, at, all) \in Seq(Octet) /\ Len(From(id, at, all)) = all
<1>1. 0 \in 0 .. all
  OBVIOUS
<1> QED BY <1>1, CutSdu

LEMMA CutEnd ==
  ASSUME NEW id \in Nat, NEW at \in Nat, NEW all \in Nat, NEW part \in 0 .. all
  PROVE  SubSeq(From(id, at, all), part + 1, all) = From(id, at + part, all - part)
BY CutSdu

LEMMA CutStart ==
  ASSUME NEW id \in Nat, NEW at \in Nat, NEW all \in Nat, NEW part \in 0 .. all
  PROVE  SubSeq(From(id, at, all), 1, part) = From(id, at, part)
BY CutSdu

\* What a unit leaves of the queue: of its last SDU, of which m octets were copied,
\* r entries stay.
LEMMA Shrinks ==
  ASSUME Queued, NEW c, NEW m, NEW r, r \in 0 .. 1,
         c \in DOMAIN buf, m \in 0 .. Length(c), Length(c) > 0 => m > 0,
         IF c = 1 THEN r = 0 <=> m = Length(c) ELSE r = 0 <=> Length(c) - m = m,
         lengths' = lengths,
         NEW p, p = [data |-> SubSeq(buf[c].data, m + 1, Length(c)), part |-> TRUE],
         buf' = Cut(buf, c, r, p)
  PROVE  /\ Queued'
         /\ Gone' = Gone + c - r
         /\ Ahead' = IF r = 0 THEN 0 ELSE m + IF c = 1 THEN Ahead ELSE 0
         /\ Pending' <= Pending - Upto(buf, c - 1) - m
<1>1. PICK N, L, A, G, n :
        /\ N \in Nat /\ L \in Nat /\ A \in Nat /\ G \in Nat /\ n \in Nat
        /\ N = Len(buf) /\ L = Length(c) /\ A = Ahead /\ G = Gone /\ n = Len(lengths)
  BY QueuedNumbers, Zenon
<1>2. /\ buf \in Seq(Part) /\ lengths \in Seq(Lengths) /\ N = n - G /\ DOMAIN buf = 1 .. N
      /\ \A i \in 1 .. N : /\ G + i \in DOMAIN lengths /\ Length(i) \in Nat /\ buf[i] \in Part
                           /\ Length(i) = lengths[G + i] - IF i = 1 THEN A ELSE 0
                           /\ buf[i].part <=> (IF i = 1 THEN A ELSE 0) > 0
                           /\ buf[i].data = From(G + i, IF i = 1 THEN A ELSE 0, Length(i))
  <2>1. buf \in Seq(Part) /\ lengths \in Seq(Lengths) /\ N = n - G
    BY ONLY Queued, <1>1, QueuedNumbers DEF Queued
  <2>2. DOMAIN buf = 1 .. N
    BY ONLY <1>1, <2>1, LenProperties
  <2> QED BY ONLY Queued, <1>1, <2>1, <2>2, QueuedNumbers DEF Queued
<1>3. \A i \in DOMAIN lengths : lengths[i] \in Nat /\ lengths[i] > 0
  BY ONLY Queued, QueuedNumbers
<1>4. c \in 1 .. N /\ m \in 0 .. L /\ (L > 0 => m > 0) /\ r \in 0 .. 1
  BY ONLY c \in DOMAIN buf, m \in 0 .. Length(c), r \in 0 .. 1, Length(c) > 0 => m > 0, <1>1, <1>2
<1>5. PICK k : k \in Nat /\ k = IF c = 1 THEN A ELSE 0
  BY ONLY <1>1
<1>18. N = n - G /\ c \in 1 .. N /\ c \in Nat
  BY ONLY <1>2, <1>4, <1>1
<1>6. L = lengths[G + c] - k /\ buf[c].data = From(G + c, k, L) /\ G + c \in DOMAIN lengths /\ G + c \in Nat
  <2>1. /\ G + c \in DOMAIN lengths /\ Length(c) = lengths[G + c] - (IF c = 1 THEN A ELSE 0)
        /\ buf[c].data = From(G + c, IF c = 1 THEN A ELSE 0, Length(c))
    BY ONLY <1>2, <1>4
  <2>2. G + c \in Nat
    BY ONLY <1>18, <1>1
  <2> QED BY ONLY <1>1, <1>5, <2>1, <2>2
<1>7. p \in Part /\ p.part = TRUE /\ p.data = From(G + c, k + m, L - m) /\ Len(p.data) = L - m
  <2>5. PICK h : h \in Nat /\ h = G + c
    BY ONLY <1>6
  <2>6. m \in 0 .. L
    BY ONLY <1>4
  <2>1. SubSeq(From(G + c, k, L), m + 1, L) = From(G + c, k + m, L - m)
    <3>1. SubSeq(From(h, k, L), m + 1, L) = From(h, k + m, L - m)
      <4>1. h \in Nat /\ k \in Nat /\ L \in Nat
        BY ONLY <1>1, <1>5, <2>5
      <4> QED BY ONLY <2>6, <4>1, CutEnd
    <3> QED BY ONLY <2>5, <3>1
  <2>2. k + m \in Nat /\ L - m \in Nat /\ 0 \in 0 .. L - m
    BY ONLY <1>4, <1>5, <1>1
  <2>3. From(G + c, k + m, L - m) \in Seq(Octet) /\ Len(From(G + c, k + m, L - m)) = L - m
    <3>1. PICK x, y : x \in Nat /\ y \in Nat /\ x = k + m /\ y = L - m
      BY ONLY <2>2
    <3>3. From(h, x, y) \in Seq(Octet) /\ Len(From(h, x, y)) = y
      BY ONLY <2>5, <3>1, SduIs
    <3> QED BY ONLY <2>5, <3>1, <3>3
  <2>4. p = [data |-> From(G + c, k + m, L - m), part |-> TRUE]
    BY ONLY p = [data |-> SubSeq(buf[c].data, m + 1, Length(c)), part |-> TRUE], <1>1, <1>6, <2>1
  <2> QED BY ONLY <2>3, <2>4 DEF Part
<1>8. PICK t : /\ t = buf' /\ t \in Seq(Part) /\ Len(t) = r + (N - c)
               /\ r = 1 => t[1] = p
               /\ \A i \in 1 .. N - c : t[r + i] = buf[c + i]
               /\ Upto(t, Len(t)) = Upto(buf, N) - Upto(buf, c) + r * Len(p.data)
  <2>1. PICK t : t = Cut(buf, c, r, p)
    OBVIOUS
  <2>2. /\ t \in Seq(Part) /\ Len(t) = r + (Len(buf) - c)
        /\ r = 1 => t[1] = p
        /\ \A i \in 1 .. Len(buf) - c : t[r + i] = buf[c + i]
        /\ Upto(t, Len(t)) = Upto(buf, Len(buf)) - Upto(buf, c) + r * Len(p.data)
    <3>1. buf \in Seq(Part) /\ c \in 1 .. Len(buf) /\ r \in 0 .. 1 /\ p \in Part
      BY ONLY <1>1, <1>2, <1>4, <1>7
    <3>2. Cut(buf, c, r, p) \in Seq(Part) /\ Len(Cut(buf, c, r, p)) = r + (Len(buf) - c)
      BY ONLY <3>1, CutIsQueue, Zenon
    <3>3. /\ r = 1 => Cut(buf, c, r, p)[1] = p
          /\ \A i \in 1 .. Len(buf) - c : Cut(buf, c, r, p)[r + i] = buf[c + i]
      BY ONLY <3>1, CutEntries, Zenon
    <3>4. Upto(Cut(buf, c, r, p), Len(Cut(buf, c, r, p))) = Upto(buf, Len(buf)) - Upto(buf, c) + r * Len(p.data)
      BY ONLY <3>1, CutSum, Zenon
    <3> QED BY ONLY <2>1, <3>2, <3>3, <3>4, Zenon
  <2>3. t = buf'
    BY <2>1
  <2> QED BY ONLY <1>1, <2>2, <2>3
<1>9. Gone' = G + c - r
  <2>1. Gone' = n - (r + (N - c))
    BY ONLY <1>1, <1>8, lengths' = lengths DEF Gone
  <2> QED BY ONLY <1>18, <2>1, r \in 0 .. 1, <1>1
<1>10. PICK g : g \in Nat /\ g = G + c - r
  BY ONLY <1>4, <1>1
<1>11. r = 1 => m + k > 0
  <2>1. c # 1 => L > 0
    BY ONLY <1>3, <1>5, <1>6
  <2>2. r = 1 /\ c = 1 => m # L
    BY <1>1
  <2> QED BY ONLY <1>4, <2>1, <2>2, <1>5, <1>1
<1>12. ASSUME NEW i \in 1 .. N - c
       PROVE  /\ t[r + i] = buf[c + i] /\ c + i \in 1 .. N /\ c + i # 1
              /\ g + (r + i) = G + (c + i) /\ r + i \in DOMAIN t
              /\ Len(t[r + i].data) = lengths[g + (r + i)] /\ ~t[r + i].part
              /\ t[r + i].data = From(g + (r + i), 0, Len(t[r + i].data))
              /\ lengths[g + (r + i)] \in Nat
  <2>1. c + i \in 1 .. N /\ c + i # 1 /\ g + (r + i) = G + (c + i) /\ r + i \in 1 .. r + (N - c)
    BY ONLY <1>4, <1>10, i \in 1 .. N - c, <1>1
  <2>2. t[r + i] = buf[c + i]
    BY ONLY <1>8, i \in 1 .. N - c
  <2>3. PICK j \in 1 .. N : j = c + i
    BY ONLY <2>1
  <2>4. G + j \in DOMAIN lengths /\ Length(j) = lengths[G + j] - 0 /\ (buf[j].part <=> 0 > 0)
        /\ buf[j].data = From(G + j, 0, Length(j)) /\ buf[j] \in Part
    BY ONLY <1>2, <2>1, <2>3, j \in 1 .. N
  <2>5. Length(j) = lengths[G + j] /\ lengths[G + j] \in Nat /\ ~buf[j].part
    BY ONLY <1>3, <2>4
  <2>6. r + i \in DOMAIN t
    BY ONLY <1>8, <2>1
  <2> QED BY ONLY <2>1, <2>2, <2>3, <2>4, <2>5, <2>6 DEF Length
<1>13. r = 1 => 1 \in DOMAIN t /\ t[1].part = TRUE /\ Len(t[1].data) = lengths[g + 1] - (m + k)
                /\ t[1].data = From(g + 1, m + k, Len(t[1].data))
  <2> SUFFICES ASSUME r = 1
               PROVE  1 \in DOMAIN t /\ t[1].part = TRUE /\ Len(t[1].data) = lengths[g + 1] - (m + k)
                      /\ t[1].data = From(g + 1, m + k, Len(t[1].data))
    OBVIOUS
  <2>1. t[1] = p /\ g + 1 = G + c /\ m + k = k + m
    BY ONLY <1>4, <1>8, <1>10, r = 1, <1>1, <1>5
  <2>2. 1 \in 1 .. r + (N - c)
    BY ONLY <1>4, r = 1, <1>1
  <2>3. 1 \in DOMAIN t
    BY ONLY <1>8, <2>2
  <2>4. lengths[G + c] \in Nat
    BY ONLY <1>3, <1>6
  <2>5. L - m = lengths[G + c] - (m + k)
    BY ONLY <1>4, <1>6, <2>4, <1>5, <1>1
  <2> QED BY ONLY <1>7, <2>1, <2>3, <2>5
<1>14. Ahead' = IF r = 0 THEN 0 ELSE m + k
  <2>1. CASE t = <<>>
    <3>1. Len(t) = 0
      BY ONLY <2>1
    <3>2. r = 0
      BY ONLY <1>4, <1>8, <3>1, <1>1
    <3>3. Ahead' = 0
      BY ONLY <1>8, <2>1 DEF Ahead
    <3> QED BY ONLY <3>2, <3>3
  <2>2. CASE t # <<>>
    <3>1. Ahead' = lengths[g + 1] - Len(t[1].data)
      BY ONLY <1>8, <1>9, <1>10, <2>2, lengths' = lengths DEF Ahead, Length
    <3>2. CASE r = 0
      <4>1. Len(t) # 0
        BY ONLY <1>8, <2>2
      <4>2. 1 \in 1 .. N - c /\ r + 1 = 1
        BY ONLY <1>4, <1>8, <3>2, <4>1, <1>1
      <4>3. Len(t[r + 1].data) = lengths[g + (r + 1)] /\ lengths[g + (r + 1)] \in Nat
        BY ONLY <1>12, <4>2
      <4> QED BY ONLY <3>1, <3>2, <4>2, <4>3
    <3>3. CASE r = 1
      <4>1. g + 1 = G + c
        BY ONLY <1>4, <1>10, <3>3, <1>1
      <4>2. lengths[g + 1] \in Nat
        BY ONLY <1>3, <1>6, <4>1
      <4> QED BY ONLY <1>4, <1>13, <3>1, <3>3, <4>2, <1>5
    <3> QED BY ONLY <1>4, <3>2, <3>3
  <2> QED BY ONLY <2>1, <2>2
<1>15. Queued'
  <2>1. lengths' \in Seq(Lengths) /\ t \in Seq(Part) /\ Len(t) <= Len(lengths')
    <3>1. r + (N - c) <= n
      BY ONLY <1>10, <1>18, r \in 0 .. 1, <1>1
    <3> QED BY ONLY <1>1, <1>2, <1>8, <3>1, lengths' = lengths
  <2>2. ASSUME NEW i \in DOMAIN t
        PROVE  /\ Len(t[i].data) = lengths[g + i] - (IF i = 1 THEN Ahead' ELSE 0)
               /\ (IF i = 1 THEN Ahead' ELSE 0) >= 0
               /\ t[i].part <=> (IF i = 1 THEN Ahead' ELSE 0) > 0
               /\ t[i].data = From(g + i, IF i = 1 THEN Ahead' ELSE 0, Len(t[i].data))
    <3>1. i \in 1 .. r + (N - c)
      BY ONLY <1>8, i \in DOMAIN t
    <3>2. CASE i > r
      <4>1. PICK j \in 1 .. N - c : i = r + j
        <5>1. i - r \in 1 .. N - c /\ i = r + (i - r)
          BY ONLY <1>4, <3>1, <3>2, <1>1
        <5> QED BY ONLY <5>1
      <4>2. (IF i = 1 THEN Ahead' ELSE 0) = 0
        BY ONLY <1>4, <1>14, <3>1, <3>2, <1>1
      <4>3. /\ Len(t[i].data) = lengths[g + i] /\ ~t[i].part /\ lengths[g + i] \in Nat
            /\ t[i].data = From(g + i, 0, Len(t[i].data))
        BY ONLY <1>12, <4>1, j \in 1 .. N - c
      <4>4. lengths[g + i] - 0 = lengths[g + i]
        BY ONLY <4>3
      <4> QED BY ONLY <4>2, <4>3, <4>4
    <3>3. CASE ~(i > r)
      <4>1. i = 1 /\ r = 1
        BY ONLY <1>4, <3>1, <3>3, <1>1
      <4>2. Ahead' = m + k /\ m + k > 0
        BY ONLY <1>11, <1>14, <4>1
      <4>3. m + k >= 0
        BY ONLY <1>4, <1>5, <1>1
      <4> QED BY ONLY <1>13, <4>1, <4>2, <4>3
    <3> QED BY ONLY <3>2, <3>3
  <2>3. Gone' = g /\ buf' = t /\ lengths' = lengths
    BY <1>8, <1>9, <1>10
  <2>4. \A i \in DOMAIN buf' :
          /\ Len(buf'[i].data) = lengths'[Gone' + i] - (IF i = 1 THEN Ahead' ELSE 0)
          /\ (IF i = 1 THEN Ahead' ELSE 0) >= 0
          /\ buf'[i].part <=> (IF i = 1 THEN Ahead' ELSE 0) > 0
          /\ buf'[i].data = From(Gone' + i, IF i = 1 THEN Ahead' ELSE 0, Len(buf'[i].data))
    BY ONLY <2>2, <2>3
  <2>5. lengths' \in Seq(Lengths) /\ buf' \in Seq(Part) /\ Len(buf') <= Len(lengths')
    BY ONLY <2>1, <2>3
  <2> QED BY ONLY <2>4, <2>5 DEF Queued, Length
<1>16. Pending' <= Pending - Upto(buf, c - 1) - m
  <2>1. /\ Upto(buf, c - 1) \in Nat /\ Upto(buf, c) \in Nat /\ Upto(buf, N) \in Nat
        /\ Upto(buf, c) = Upto(buf, c - 1) + L
    <3>1. c - 1 \in 0 .. N /\ c \in 0 .. N /\ N \in 0 .. N
      BY ONLY <1>4, <1>1
    <3>2. /\ \A i \in 1 .. N : Upto(buf, i) = Upto(buf, i - 1) + Len(buf[i].data)
          /\ \A i \in 0 .. N : Upto(buf, i) \in Nat
      BY ONLY <1>1, <1>2, UptoFacts
    <3> QED BY ONLY <1>1, <1>4, <3>1, <3>2 DEF Length
  <2>2. PICK a, b, d : a \in Nat /\ b \in Nat /\ d \in Nat /\ a = Upto(buf, c - 1) /\ b = Upto(buf, c) /\ d = Upto(buf, N)
    BY ONLY <2>1
  <2>3. r * Len(p.data) <= L - m /\ r * Len(p.data) \in Nat
    BY ONLY <1>4, <1>7, <1>1
  <2>4. PICK x : x \in Nat /\ x = r * Len(p.data)
    BY ONLY <2>3
  <2>5. Pending = d /\ Pending' = d - b + x
    <3>1. Pending = Upto(buf, N)
      BY ONLY <1>1 DEF Pending
    <3>2. Pending' = Upto(t, Len(t))
      BY ONLY <1>8 DEF Pending, Upto
    <3> QED BY ONLY <1>8, <2>2, <2>4, <3>1, <3>2
  <2>6. d - b + x <= d - a - m
    <3>1. b = a + L /\ x <= L - m /\ m \in 0 .. L
      BY ONLY <1>4, <2>1, <2>2, <2>3, <2>4
    <3>2. a \in Nat /\ b \in Nat /\ d \in Nat /\ x \in Nat /\ L \in Nat
      BY ONLY <1>1, <2>2, <2>4
    <3> QED BY ONLY <3>1, <3>2
  <2> QED BY ONLY <2>2, <2>5, <2>6
<1>17. m + k = m + IF c = 1 THEN A ELSE 0
  BY ONLY <1>5
<1> QED BY ONLY <1>1, <1>9, <1>14, <1>15, <1>16, <1>17

-----------------------------------------------------------------------------
(* From here on the queue is seen in numbers: how many SDUs have left it, and *)
(* how much of the next one has been sent.                                   *)
LeftOf(i) == lengths[Gone + i] - IF i = 1 THEN Ahead ELSE 0

\* A unit takes all of the first SDUs but the c-th, and m octets of that one.
Takes(c, m, r) ==
  /\ c \in Nat /\ c > 0 /\ m \in Nat /\ r \in 0 .. 1
  /\ Gone + c \in DOMAIN lengths
  /\ m <= LeftOf(c) /\ (LeftOf(c) > 0 => m > 0)
  /\ IF c = 1 THEN r = 0 <=> m = LeftOf(c) ELSE r = 0 <=> LeftOf(c) - m = m
  /\ Gone' = Gone + c - r
  /\ Ahead' = IF r = 0 THEN 0 ELSE m + IF c = 1 THEN Ahead ELSE 0
  /\ lengths' = lengths

\* The queue after a unit was filled from it.
LEMMA UnitTakes ==
  ASSUME Queued, ReportCovers, buf # <<>>, NEW grant \in 3 .. MaxGrant,
         buf' = Rest(grant) \o SubSeq(buf, Shares(grant) + 1, Len(buf)),
         size' = SizeAfter(grant), lengths' = lengths
  PROVE  Queued' /\ ReportCovers' /\ \E r : Takes(Shares(grant), Copied(grant), r)
<1>1. PICK c, m : c = Shares(grant) /\ m = Copied(grant)
  OBVIOUS
<1>2. c \in DOMAIN buf /\ m \in 0 .. Length(c) /\ (Length(c) > 0 => m > 0)
  BY SharesFacts, <1>1
<1>3. Length(c) \in Nat /\ Gone + c \in DOMAIN lengths /\ Length(c) = LeftOf(c)
  BY ONLY Queued, <1>2, QueuedNumbers DEF LeftOf
<1>4. c \in Nat /\ c > 0 /\ m \in Nat /\ m <= Length(c)
  <2>1. buf \in Seq(Part)
    BY DEF Queued
  <2>2. c \in 1 .. Len(buf) /\ Len(buf) \in Nat
    BY ONLY <1>2, <2>1, LenProperties
  <2> QED BY ONLY <1>2, <1>3, <2>2
<1> DEFINE rest == SubSeq(buf[c].data, m + 1, Length(c))
<1>5. Len(rest) = Length(c) - m /\ (rest = <<>> <=> m = Length(c))
  <2>1. buf[c].data \in Seq(Octet) /\ Len(buf[c].data) = Length(c)
    BY ONLY Queued, <1>2, QueuedNumbers DEF Part, Length
  <2>2. PICK s, n : s = buf[c].data /\ n = Length(c)
    OBVIOUS
  <2>3. s \in Seq(Octet) /\ n \in Nat /\ n = Len(s) /\ m + 1 \in Int
    BY ONLY <1>3, <1>4, <2>1, <2>2
  <2>4. \A i \in m + 1 .. n : s[i] \in Octet
    BY ONLY <1>4, <2>3
  <2>5. SubSeq(s, m + 1, n) \in Seq(Octet) /\ Len(SubSeq(s, m + 1, n)) = IF m + 1 <= n THEN n - (m + 1) + 1 ELSE 0
    BY ONLY <2>3, <2>4, SubSeqProperties
  <2>6. m \in Nat /\ m <= n
    BY ONLY <1>4, <2>2
  <2>7. Len(SubSeq(s, m + 1, n)) = n - m
    BY ONLY <2>3, <2>5, <2>6
  <2>8. PICK t : t = rest
    OBVIOUS
  <2>9. t \in Seq(Octet) /\ Len(t) = n - m
    BY ONLY <2>2, <2>5, <2>7, <2>8
  <2>10. t = <<>> <=> Len(t) = 0
    BY ONLY <2>9, EmptySeq
  <2>11. n - m = 0 <=> m = n
    BY ONLY <2>3, <2>6
  <2> HIDE DEF rest
  <2> QED BY ONLY <2>2, <2>8, <2>9, <2>10, <2>11
<1>6. PICK r : r = IF IF c = 1 THEN m = Length(c) ELSE Length(c) - m = m THEN 0 ELSE 1
  OBVIOUS
<1>7. r \in 0 .. 1 /\ IF c = 1 THEN r = 0 <=> m = Length(c) ELSE r = 0 <=> Length(c) - m = m
  BY ONLY <1>6
<1>8. PICK p : p = [data |-> rest, part |-> TRUE]
  OBVIOUS
<1>9. Rest(grant) = IF r = 0 THEN <<>> ELSE <<p>>
  <2>1. Rest(grant) = IF IF c = 1 THEN rest = <<>> ELSE Len(rest) = m THEN <<>> ELSE <<p>>
    BY ONLY <1>1, <1>8 DEF Rest
  <2> HIDE DEF rest
  <2> QED BY ONLY <1>5, <1>6, <2>1
<1>10. buf' = Cut(buf, c, r, p)
  <2>1. buf' = Rest(grant) \o SubSeq(buf, c + 1, Len(buf))
    BY <1>1
  <2> QED BY ONLY <1>9, <2>1 DEF Cut
<1>11. Queued' /\ Gone' = Gone + c - r /\ Ahead' = (IF r = 0 THEN 0 ELSE m + IF c = 1 THEN Ahead ELSE 0)
       /\ Pending' <= Pending - Upto(buf, c - 1) - m
  <2>1. Queued /\ lengths' = lengths
    OBVIOUS
  <2> QED BY ONLY <1>2, <1>7, <1>8, <1>10, <2>1, Shrinks
<1>12. ReportCovers'
  <2>1. size \in Nat /\ Pending <= size /\ size' = size - Upto(buf, c - 1) - m
    BY <1>1 DEF ReportCovers, SizeAfter
  <2>2. buf \in Seq(Part) /\ c - 1 \in 0 .. Len(buf) /\ Len(buf) \in 0 .. Len(buf)
    <3>1. buf \in Seq(Part)
      BY DEF Queued
    <3>2. c \in 1 .. Len(buf) /\ Len(buf) \in Nat
      BY ONLY <1>2, <3>1, LenProperties
    <3> QED BY ONLY <3>1, <3>2
  <2>3. Upto(buf, c - 1) \in Nat /\ Pending \in Nat
    BY ONLY <2>2, UptoFacts DEF Pending
  <2>4. buf' \in Seq(Part) /\ Len(buf') \in 0 .. Len(buf')
    <3>1. buf' \in Seq(Part)
      BY <1>11 DEF Queued
    <3> QED BY ONLY <3>1, LenProperties
  <2>5. Pending' \in Nat
    <3>1. PICK t : t = buf'
      OBVIOUS
    <3>2. Upto(t, Len(t)) \in Nat
      BY ONLY <2>4, <3>1, UptoFacts
    <3> QED BY ONLY <3>1, <3>2 DEF Pending, Upto
  <2>6. PICK x, y, z : x = Upto(buf, c - 1) /\ y = Pending /\ z = Pending'
    OBVIOUS
  <2>7. x \in Nat /\ y \in Nat /\ z \in Nat /\ z <= y - x - m /\ m \in Nat /\ size \in Nat /\ y <= size /\ size' = size - x - m
    BY ONLY <1>4, <1>11, <2>1, <2>3, <2>5, <2>6
  <2>8. size' \in Nat /\ z <= size'
    BY ONLY <2>7
  <2> QED BY ONLY <2>6, <2>8 DEF ReportCovers
<1>13. Takes(c, m, r)
  <2>1. lengths' = lengths
    OBVIOUS
  <2> QED BY ONLY <1>2, <1>3, <1>4, <1>7, <1>11, <2>1 DEF Takes
<1> QED BY ONLY <1>1, <1>11, <1>12, <1>13

\* The data of the SDUs before the last in a unit, when there is one at most.
LEMMA NoneBefore ==
  ASSUME NEW s, s = [i \in 1 .. 0 |-> buf[i].data]
  PROVE  FlattenSeq(s) = <<>>
<1>1. s = <<>>
  OBVIOUS
<1> QED BY <1>1 DEF FlattenSeq

LEMMA OneBefore ==
  ASSUME NEW s \in Seq(Seq(Octet)), Len(s) = 1
  PROVE  FlattenSeq(s) = s[1]
<1> DEFINE IsFlat(f) == f = [i \in 1 .. Len(s) |-> IF i = 1 THEN s[i] ELSE f[i - 1] \o s[i]]
           flat == CHOOSE f : IsFlat(f)
<1>1. IsFlat([i \in 1 .. 1 |-> s[1]])
  <2>1. [i \in 1 .. 1 |-> s[1]] = [i \in 1 .. Len(s) |-> IF i = 1 THEN s[i] ELSE [j \in 1 .. 1 |-> s[1]][i - 1] \o s[i]]
    <3>1. \A i \in 1 .. 1 : i = 1
      OBVIOUS
    <3> QED BY <3>1
  <2> QED BY <2>1
<1>2. IsFlat(flat)
  BY <1>1
<1>3. FlattenSeq(s) = flat[1]
  BY DEF FlattenSeq
<1> HIDE DEF flat
<1>4. flat[1] = s[1]
  <2>1. 1 \in 1 .. Len(s)
    OBVIOUS
  <2> QED BY <1>2, <2>1
<1> QED BY <1>3, <1>4

\* What a unit of one SDU, of two, or of more holds.
UnitIs(u, c, m) ==
  /\ u.sn = sn /\ u.FIfirst \in BOOLEAN /\ (u.FIfirst <=> Ahead > 0)
  /\ u.FIsecond \in BOOLEAN /\ (u.FIsecond <=> m < LeftOf(c))
  /\ u.LI = [i \in 1 .. c - 1 |-> Length(i)]
  /\ c = 1 => u.data = From(Gone + 1, Ahead, m)
  /\ c = 2 => u.data = From(Gone + 1, Ahead, LeftOf(1)) \o From(Gone + 2, 0, m)

LEMMA UnitFacts ==
  ASSUME Queued, buf # <<>>, NEW grant \in 3 .. MaxGrant
  PROVE  UnitIs(UnitOf(grant), Shares(grant), Copied(grant))
<1>0. PICK c, m, u : c = Shares(grant) /\ m = Copied(grant) /\ u = UnitOf(grant)
  OBVIOUS
<1>1. c \in DOMAIN buf /\ m \in 0 .. Length(c) /\ (Room(grant, c) < Length(c) <=> m < Length(c))
  BY <1>0, SharesFacts
<1>2. Length(c) = LeftOf(c) /\ Gone \in Nat /\ Ahead \in Nat /\ Length(c) \in Nat
  BY ONLY Queued, <1>1, QueuedNumbers DEF LeftOf
<1>3. buf \in Seq(Part) /\ Len(buf) \in Nat /\ DOMAIN buf = 1 .. Len(buf) /\ c \in 1 .. Len(buf)
  <2>1. buf \in Seq(Part)
    BY DEF Queued
  <2> QED BY ONLY <1>1, <2>1, LenProperties
<1>4. /\ u.sn = sn /\ u.FIfirst = buf[1].part /\ u.FIsecond = (Room(grant, c) < Length(c))
      /\ u.LI = [i \in 1 .. c - 1 |-> Length(i)]
      /\ u.data = Octets(1, c - 1) \o SubSeq(buf[c].data, 1, m)
  BY <1>0 DEF UnitOf
<1>5. 1 \in DOMAIN buf /\ 1 \in 1 .. Len(buf)
  BY ONLY <1>3
<1>6. u.FIfirst \in BOOLEAN /\ (u.FIfirst <=> Ahead > 0)
  <2>1. buf[1] \in Part
    BY ONLY <1>3, <1>5
  <2>2. buf[1].part \in BOOLEAN
    BY ONLY <2>1 DEF Part
  <2>3. buf[1].part <=> Ahead > 0
    BY ONLY Queued, <1>5 DEF Queued
  <2> QED BY ONLY <1>4, <2>2, <2>3
<1>7. u.FIsecond \in BOOLEAN /\ (u.FIsecond <=> m < LeftOf(c))
  <2>1. u.FIsecond = (Room(grant, c) < Length(c))
    BY ONLY <1>4
  <2>2. (Room(grant, c) < Length(c)) \in BOOLEAN
    OBVIOUS
  <2>3. Room(grant, c) < Length(c) <=> m < LeftOf(c)
    BY ONLY <1>1, <1>2
  <2> QED BY ONLY <2>1, <2>2, <2>3, Zenon
<1>8. SubSeq(buf[c].data, 1, m) = From(Gone + c, IF c = 1 THEN Ahead ELSE 0, m)
  <2>1. PICK h, k, l : h = Gone + c /\ k = (IF c = 1 THEN Ahead ELSE 0) /\ l = Length(c)
    OBVIOUS
  <2>2. h \in Nat /\ k \in Nat /\ l \in Nat
    BY ONLY <1>2, <1>3, <2>1
  <2>3. m \in 0 .. l
    BY ONLY <1>1, <2>1
  <2>4. buf[c].data = From(h, k, l)
    BY ONLY Queued, <1>1, <2>1 DEF Queued
  <2>5. SubSeq(From(h, k, l), 1, m) = From(h, k, m)
    BY ONLY <2>2, <2>3, CutStart
  <2> QED BY ONLY <2>1, <2>4, <2>5
<1>9. ASSUME c = 1 PROVE u.data = From(Gone + 1, Ahead, m)
  <2>1. Octets(1, c - 1) = <<>>
    <3>1. [i \in 1 .. c - 1 - 1 + 1 |-> buf[1 + i - 1].data] = [i \in 1 .. 0 |-> buf[i].data]
      BY ONLY <1>9
    <3>2. PICK s : s = [i \in 1 .. 0 |-> buf[i].data]
      OBVIOUS
    <3>3. FlattenSeq(s) = <<>>
      BY ONLY <3>2, NoneBefore
    <3> QED BY ONLY <3>1, <3>2, <3>3 DEF Octets
  <2>2. PICK h, k : h = Gone + 1 /\ k = Ahead
    OBVIOUS
  <2>3. h \in Nat /\ k \in Nat /\ m \in Nat
    BY ONLY <1>1, <1>2, <2>2
  <2>4. From(h, k, m) \in Seq(Octet)
    BY ONLY <2>3, SduIs
  <2>5. <<>> \o From(h, k, m) = From(h, k, m)
    BY ONLY <2>4, ConcatEmptySeq
  <2> QED BY ONLY <1>4, <1>8, <1>9, <2>1, <2>2, <2>5
<1>10. ASSUME c = 2 PROVE u.data = From(Gone + 1, Ahead, LeftOf(1)) \o From(Gone + 2, 0, m)
  <2>1. buf[1].data = From(Gone + 1, Ahead, LeftOf(1)) /\ buf[1].data \in Seq(Octet)
    <3>1. buf[1].data = From(Gone + 1, IF 1 = 1 THEN Ahead ELSE 0, Length(1))
      BY ONLY Queued, <1>5 DEF Queued
    <3>2. Length(1) = LeftOf(1)
      BY ONLY Queued, <1>5, QueuedNumbers DEF LeftOf
    <3>3. buf[1] \in Part
      BY ONLY <1>3, <1>5
    <3> QED BY ONLY <3>1, <3>2, <3>3 DEF Part
  <2>2. Octets(1, c - 1) = buf[1].data
    <3>1. PICK s : s = [i \in 1 .. 1 |-> buf[1 + i - 1].data]
      OBVIOUS
    <3>2. \A i \in 1 .. 1 : 1 + i - 1 = 1
      OBVIOUS
    <3>3. s \in Seq(Seq(Octet)) /\ Len(s) = 1 /\ s[1] = buf[1].data
      BY ONLY <2>1, <3>1, <3>2
    <3>4. FlattenSeq(s) = s[1]
      BY ONLY <3>3, OneBefore
    <3>5. c - 1 - 1 + 1 = 1
      BY ONLY <1>10
    <3>6. Octets(1, c - 1) = FlattenSeq(s)
      BY ONLY <3>1, <3>5 DEF Octets
    <3> QED BY ONLY <3>3, <3>4, <3>6
  <2>3. From(Gone + c, IF c = 1 THEN Ahead ELSE 0, m) = From(Gone + 2, 0, m)
    BY ONLY <1>10
  <2>4. u.data = Octets(1, c - 1) \o SubSeq(buf[c].data, 1, m)
    BY ONLY <1>4
  <2> QED BY ONLY <1>8, <2>1, <2>2, <2>3, <2>4, Zenon
<1>11. UnitIs(u, c, m)
  BY ONLY <1>4, <1>6, <1>7, <1>9, <1>10 DEF UnitIs
<1> QED BY ONLY <1>0, <1>11

-----------------------------------------------------------------------------
(* The receiver's step.                                                      *)

\* The two parts of a joined sequence.
LEMMA Halves ==
  ASSUME NEW S, NEW s \in Seq(S), NEW t \in Seq(S), NEW w, w = s \o t
  PROVE  /\ w \in Seq(S) /\ Len(w) = Len(s) + Len(t)
         /\ SubSeq(w, 1, Len(s)) = s /\ SubSeq(w, Len(s) + 1, Len(w)) = t
         /\ \A o \in ToSet(w) : o \in ToSet(s) \/ o \in ToSet(t)
<1>1. PICK x, y : x \in Nat /\ y \in Nat /\ x = Len(s) /\ y = Len(t)
  BY ONLY s \in Seq(S), t \in Seq(S), LenProperties
<1>2. w \in Seq(S) /\ Len(w) = x + y /\ \A i \in 1 .. x + y : w[i] = IF i <= x THEN s[i] ELSE t[i - x]
  BY <1>1, ConcatProperties
<1>3. \A i \in 1 .. x : w[i] = s[i] /\ i \in 1 .. x + y
  BY ONLY <1>1, <1>2
<1>4. \A i \in 1 .. y : w[x + i] = t[i] /\ x + i \in 1 .. x + y
  <2> SUFFICES ASSUME NEW i \in 1 .. y PROVE w[x + i] = t[i] /\ x + i \in 1 .. x + y
    OBVIOUS
  <2>1. x + i \in 1 .. x + y /\ ~(x + i <= x) /\ (x + i) - x = i
    BY ONLY <1>1, i \in 1 .. y
  <2> QED BY ONLY <1>2, <2>1
<1>5. SubSeq(w, 1, x) = s
  <2>1. \A i \in 1 .. x : w[i] \in S /\ s[i] \in S
    BY ONLY s \in Seq(S), <1>1, <1>3, ElementOfSeq
  <2>2. PICK z : z = SubSeq(w, 1, x)
    OBVIOUS
  <2>3. /\ z \in Seq(S) /\ Len(z) = (IF 1 <= x THEN x - 1 + 1 ELSE 0)
        /\ \A i \in 1 .. x - 1 + 1 : z[i] = w[1 + i - 1]
    BY ONLY <1>1, <2>1, <2>2, SubSeqProperties
  <2>4. x - 1 + 1 = x /\ (IF 1 <= x THEN x ELSE 0) = x /\ \A i \in 1 .. x : 1 + i - 1 = i
    BY ONLY <1>1
  <2>5. Len(z) = Len(s) /\ \A i \in 1 .. Len(s) : z[i] = s[i]
    BY ONLY <1>1, <1>3, <2>3, <2>4
  <2>6. z = s
    BY ONLY s \in Seq(S), <2>3, <2>5, SeqEqual
  <2> QED BY ONLY <2>2, <2>6
<1>6. SubSeq(w, x + 1, x + y) = t
  <2>1. \A i \in x + 1 .. x + y : w[i] \in S
    BY ONLY <1>1, <1>2, ElementOfSeq
  <2>2. PICK z : z = SubSeq(w, x + 1, x + y)
    OBVIOUS
  <2>3. x + 1 \in Int /\ x + y \in Int
    BY ONLY <1>1
  <2>4. /\ z \in Seq(S) /\ Len(z) = (IF x + 1 <= x + y THEN (x + y) - (x + 1) + 1 ELSE 0)
        /\ \A i \in 1 .. (x + y) - (x + 1) + 1 : z[i] = w[x + 1 + i - 1]
    BY ONLY <2>1, <2>2, <2>3, SubSeqProperties
  <2>5. (x + y) - (x + 1) + 1 = y /\ (IF x + 1 <= x + y THEN y ELSE 0) = y /\ \A i \in 1 .. y : x + 1 + i - 1 = x + i
    BY ONLY <1>1
  <2>6. Len(z) = Len(t) /\ \A i \in 1 .. Len(t) : z[i] = t[i]
    BY ONLY <1>1, <1>4, <2>4, <2>5
  <2>7. z = t
    BY ONLY t \in Seq(S), <2>4, <2>6, SeqEqual
  <2> QED BY ONLY <2>2, <2>7
<1>7. \A o \in ToSet(w) : o \in ToSet(s) \/ o \in ToSet(t)
  <2>1. DOMAIN w = 1 .. x + y /\ DOMAIN s = 1 .. x /\ DOMAIN t = 1 .. y
    BY ONLY s \in Seq(S), t \in Seq(S), <1>1, <1>2, LenProperties
  <2>2. \A i \in 1 .. x + y : i \in 1 .. x \/ (i - x \in 1 .. y /\ x + (i - x) = i)
    BY ONLY <1>1
  <2>3. ToSet(w) \subseteq ToSet(s) \cup ToSet(t)
    <3> SUFFICES ASSUME NEW i \in 1 .. x + y PROVE w[i] \in ToSet(s) \cup ToSet(t)
      BY <2>1 DEF ToSet
    <3>1. CASE i \in 1 .. x
      <4>1. w[i] = s[i]
        BY ONLY <1>3, <3>1
      <4> QED BY ONLY <2>1, <3>1, <4>1 DEF ToSet
    <3>2. CASE i - x \in 1 .. y /\ x + (i - x) = i
      <4>1. w[i] = t[i - x]
        <5>1. PICK k \in 1 .. y : k = i - x /\ x + k = i
          BY ONLY <3>2
        <5> QED BY ONLY <1>4, <5>1
      <4> QED BY ONLY <2>1, <3>2, <4>1 DEF ToSet
    <3> QED BY ONLY i \in 1 .. x + y, <2>2, <3>1, <3>2
  <2> QED BY ONLY <2>3
<1> QED BY ONLY <1>1, <1>2, <1>5, <1>6, <1>7

\* A stretch that follows the start of an SDU lengthens it.
LEMMA Lengthened ==
  ASSUME NEW i \in Nat, NEW k \in Nat, NEW n \in Nat
  PROVE  Sdu(i, k) \o From(i, k, n) = Sdu(i, k + n)
<1>1. Sdu(i, k) = From(i, 0, k) /\ Sdu(i, k + n) = From(i, 0, k + n)
  BY DEF Sdu, From
<1>2. PICK s, t, v : s = From(i, 0, k) /\ t = From(i, k, n) /\ v = From(i, 0, k + n)
  OBVIOUS
<1>3. s \in Seq(Octet) /\ t \in Seq(Octet) /\ v \in Seq(Octet) /\ Len(s) = k /\ Len(t) = n /\ Len(v) = k + n
  <2>1. 0 \in Nat /\ k + n \in Nat
    OBVIOUS
  <2> QED BY <1>2, <2>1, SduIs
<1>4. /\ \A j \in 1 .. k : s[j] = <<i, j>>
      /\ \A j \in 1 .. n : t[j] = <<i, k + j>>
      /\ \A j \in 1 .. k + n : v[j] = <<i, j>>
  BY <1>2 DEF From
<1>5. s \o t \in Seq(Octet) /\ Len(s \o t) = k + n
      /\ \A j \in 1 .. k + n : (s \o t)[j] = IF j <= k THEN s[j] ELSE t[j - k]
  BY ONLY <1>3, ConcatProperties
<1>6. ASSUME NEW j \in 1 .. k + n PROVE (s \o t)[j] = v[j]
  <2>1. CASE j <= k
    <3>1. j \in 1 .. k
      BY <2>1
    <3> QED BY ONLY j \in 1 .. k + n, <1>4, <1>5, <2>1, <3>1
  <2>2. CASE ~(j <= k)
    <3>1. j - k \in 1 .. n /\ k + (j - k) = j
      BY <2>2
    <3>2. t[j - k] = <<i, k + (j - k)>>
      BY ONLY <1>4, <3>1
    <3> QED BY ONLY j \in 1 .. k + n, <1>4, <1>5, <2>2, <3>1, <3>2
  <2> QED BY <2>1, <2>2
<1>7. s \o t = v
  BY ONLY <1>3, <1>5, <1>6, SeqEqual
<1> QED BY ONLY <1>1, <1>2, <1>7

\* A list in order stays so when something newer is added.
LEMMA AppendToSet ==
  ASSUME NEW S, NEW s \in Seq(S), NEW d \in S
  PROVE  ToSet(Append(s, d)) = ToSet(s) \cup {d}
<1>0. PICK t : t = Append(s, d)
  OBVIOUS
<1>1. s \in Seq(S) /\ d \in S
  OBVIOUS
<1>2. PICK n : n \in Nat /\ n = Len(s) /\ DOMAIN s = 1 .. n
  BY ONLY <1>1, LenProperties
<1>3. t \in Seq(S) /\ Len(t) = n + 1 /\ t[n + 1] = d /\ \A i \in 1 .. n : t[i] = s[i]
  BY ONLY <1>0, <1>1, <1>2, AppendProperties
<1>4. DOMAIN t = 1 .. n + 1
  BY ONLY <1>3, LenProperties
<1>5. \A i \in 1 .. n + 1 : i \in 1 .. n \/ i = n + 1
  BY ONLY <1>2
<1>6. \A i \in 1 .. n : i \in 1 .. n + 1
  BY ONLY <1>2
<1>7. n + 1 \in 1 .. n + 1
  BY ONLY <1>2
<1>8. ASSUME NEW i \in 1 .. n + 1 PROVE t[i] \in ToSet(s) \cup {d}
  BY ONLY i \in 1 .. n + 1, <1>2, <1>3, <1>5 DEF ToSet
<1>9. \A e \in ToSet(t) : \E i \in 1 .. n + 1 : e = t[i]
  BY ONLY <1>4 DEF ToSet
<1>10. d \in ToSet(t)
  BY ONLY <1>3, <1>4, <1>7 DEF ToSet
<1>11. ToSet(s) \subseteq ToSet(t)
  BY ONLY <1>2, <1>3, <1>4, <1>6 DEF ToSet
<1> QED BY ONLY <1>0, <1>8, <1>9, <1>10, <1>11

LEMMA AppendOrdered ==
  ASSUME NEW s, Ordered(s), NEW d, d.crowded \in BOOLEAN, NEW i \in Nat, Newer(i, s),
         ~d.crowded => d.data[1][1] = i
  PROVE  Ordered(Append(s, d)) /\ Newer(i + 1, Append(s, d))
<1>0. PICK t : t = Append(s, d)
  OBVIOUS
<1>1. s \in Seq(ToSet(s)) /\ \A e \in ToSet(s) : e.crowded \in BOOLEAN
  BY DEF Ordered
<1>2. PICK n : n \in Nat /\ n = Len(s) /\ DOMAIN s = 1 .. n
  BY ONLY <1>1, LenProperties
<1>3. /\ ToSet(t) = ToSet(s) \cup {d} /\ t \in Seq(ToSet(t)) /\ Len(t) = n + 1
      /\ t[n + 1] = d /\ \A j \in 1 .. n : t[j] = s[j]
  <2>1. PICK S : S = ToSet(s) \cup {d}
    OBVIOUS
  <2>2. d \in S /\ ToSet(s) \subseteq S
    BY ONLY <2>1
  <2>3. s \in Seq(S)
    BY ONLY <1>1, <2>2, SeqMonotonic
  <2>4. t = Append(s, d)
    BY ONLY <1>0
  <2>5. ToSet(t) = S
    BY ONLY <2>1, <2>2, <2>3, <2>4, AppendToSet
  <2>6. t \in Seq(S) /\ Len(t) = Len(s) + 1 /\ t[Len(s) + 1] = d /\ \A j \in 1 .. Len(s) : t[j] = s[j]
    BY ONLY <2>2, <2>3, <2>4, AppendProperties
  <2> QED BY ONLY <1>2, <2>1, <2>5, <2>6
<1>4. DOMAIN t = 1 .. n + 1
  BY ONLY <1>3, LenProperties
<1>5. ASSUME NEW j \in 1 .. n + 1, NEW k \in 1 .. n + 1, j < k, ~t[j].crowded, ~t[k].crowded
      PROVE  t[j].data[1][1] < t[k].data[1][1]
  <2>1. j \in 1 .. n
    BY ONLY j \in 1 .. n + 1, k \in 1 .. n + 1, <1>2, <1>5
  <2>2. CASE k \in 1 .. n
    <3>1. s[j].data[1][1] < s[k].data[1][1]
      BY <1>2, <1>3, <1>5, <2>1, <2>2 DEF Ordered
    <3> QED BY ONLY <1>3, <2>1, <2>2, <3>1
  <2>3. CASE k = n + 1
    <3>1. t[k].data[1][1] = i
      BY <1>3, <1>5, <2>3
    <3>2. s[j] \in ToSet(s)
      BY ONLY <1>2, <2>1 DEF ToSet
    <3>3. s[j].data[1][1] < i
      BY <1>3, <1>5, <2>1, <3>2 DEF Newer
    <3> QED BY ONLY <1>3, <2>1, <3>1, <3>3
  <2> QED BY ONLY k \in 1 .. n + 1, <1>2, <2>2, <2>3
<1>6. Ordered(t)
  <2>1. \A e \in ToSet(t) : e.crowded \in BOOLEAN
    BY <1>1, <1>3
  <2> QED BY ONLY <1>3, <1>4, <1>5, <2>1 DEF Ordered
<1>7. Newer(i + 1, t)
  <2>1. ASSUME NEW e \in ToSet(t), ~e.crowded PROVE e.data[1][1] \in Nat /\ e.data[1][1] < i + 1
    <3>1. CASE e \in ToSet(s)
      <4>1. PICK x : x = e.data[1][1]
        OBVIOUS
      <4>2. x \in Nat /\ x < i /\ i \in Nat
        BY <2>1, <3>1, <4>1 DEF Newer
      <4>3. x < i + 1
        BY ONLY <4>2
      <4> QED BY ONLY <4>1, <4>2, <4>3
    <3>2. CASE e = d
      BY <2>1, <3>2
    <3> QED BY <1>3, <3>1, <3>2
  <2> QED BY ONLY <2>1 DEF Newer
<1> QED BY ONLY <1>0, <1>3, <1>6, <1>7

\* Joining lists of one entry or none.
LEMMA JoinShort ==
  ASSUME NEW a, NEW b
  PROVE  /\ <<>> \o <<>> = <<>> /\ <<a>> \o <<>> = <<a>> /\ <<>> \o <<b>> = <<b>> /\ <<a>> \o <<b>> = <<a, b>>
         /\ Front(<<a>>) = <<>> /\ Last(<<a>>) = a /\ Front(<<a, b>>) = <<a>> /\ Last(<<a, b>>) = b
<1>1. PICK S : a \in S /\ b \in S
  <2>1. a \in {a, b} /\ b \in {a, b}
    OBVIOUS
  <2> QED BY <2>1
<1>2. <<>> \in Seq(S) /\ <<a>> \in Seq(S) /\ <<b>> \in Seq(S) /\ <<a, b>> \in Seq(S)
  BY ONLY <1>1
<1>3. <<>> \o <<>> = <<>> /\ <<a>> \o <<>> = <<a>> /\ <<>> \o <<b>> = <<b>>
  BY ONLY <1>2, ConcatEmptySeq
<1>4. <<a>> \o <<b>> = <<a, b>>
  <2>1. PICK s, t, v : s = <<a>> /\ t = <<b>> /\ v = <<a, b>>
    OBVIOUS
  <2>2. s \in Seq(S) /\ t \in Seq(S) /\ v \in Seq(S) /\ Len(s) = 1 /\ Len(t) = 1 /\ Len(v) = 2
        /\ s[1] = a /\ t[1] = b /\ v[1] = a /\ v[2] = b
    BY ONLY <1>2, <2>1
  <2>3. s \o t \in Seq(S) /\ Len(s \o t) = Len(s) + Len(t)
        /\ \A i \in 1 .. Len(s) + Len(t) : (s \o t)[i] = IF i <= Len(s) THEN s[i] ELSE t[i - Len(s)]
    BY ONLY <2>2, ConcatProperties
  <2>4. Len(s \o t) = 2 /\ (s \o t)[1] = a /\ (s \o t)[2] = b
    <3>1. Len(s) + Len(t) = 2 /\ 1 \in 1 .. 2 /\ 2 \in 1 .. 2 /\ 2 - Len(s) = 1 /\ ~(2 <= Len(s)) /\ 1 <= Len(s)
      BY ONLY <2>2
    <3> QED BY ONLY <2>2, <2>3, <3>1
  <2>5. \A i \in 1 .. 2 : i = 1 \/ i = 2
    OBVIOUS
  <2>6. \A i \in 1 .. Len(s \o t) : (s \o t)[i] = v[i]
    BY ONLY <2>2, <2>4, <2>5
  <2>7. Len(s \o t) = Len(v)
    BY ONLY <2>2, <2>4
  <2>8. s \o t = v
    BY ONLY <2>2, <2>3, <2>6, <2>7, SeqEqual
  <2> QED BY ONLY <2>1, <2>8
<1>5. Front(<<a>>) = <<>>
  <2>1. Len(<<a>>) - 1 = 0
    OBVIOUS
  <2>2. SubSeq(<<a>>, 1, 0) = <<>>
    BY SubSeqEmpty
  <2> QED BY ONLY <2>1, <2>2 DEF Front
<1>6. Front(<<a, b>>) = <<a>>
  <2>1. Len(<<a, b>>) - 1 = 1
    OBVIOUS
  <2>2. PICK v : v = <<a, b>>
    OBVIOUS
  <2>12. v[1] = a
    BY ONLY <2>2
  <2>3. \A i \in 1 .. 1 : i = 1
    OBVIOUS
  <2>4. \A i \in 1 .. 1 : v[i] \in S
    BY ONLY <1>1, <2>12, <2>3
  <2>5. PICK z : z = SubSeq(v, 1, 1)
    OBVIOUS
  <2>6. 1 \in Int
    OBVIOUS
  <2>7. /\ z \in Seq(S) /\ Len(z) = (IF 1 <= 1 THEN 1 - 1 + 1 ELSE 0)
        /\ \A i \in 1 .. 1 - 1 + 1 : z[i] = v[1 + i - 1]
    BY ONLY <2>4, <2>5, <2>6, SubSeqProperties
  <2>8. Len(z) = 1 /\ z[1] = a
    BY ONLY <2>12, <2>7
  <2>9. PICK w : w = <<a>>
    OBVIOUS
  <2>13. w \in Seq(S)
    BY ONLY <1>2, <2>9
  <2>14. Len(w) = 1 /\ w[1] = a
    BY ONLY <2>9
  <2>10. Len(z) = Len(w) /\ \A i \in 1 .. Len(z) : z[i] = w[i]
    BY ONLY <2>3, <2>8, <2>14
  <2>11. z = w
    BY ONLY <2>7, <2>13, <2>10, SeqEqual
  <2> QED BY ONLY <2>1, <2>2, <2>5, <2>9, <2>11 DEF Front
<1>7. Last(<<a>>) = a /\ Last(<<a, b>>) = b
  BY DEF Last
<1> QED BY ONLY <1>3, <1>4, <1>5, <1>6, <1>7

\* What becomes of a unit's pieces.
KeptOf(d) == [sn |-> sn, data |-> d.data, crowded |-> d.crowded]

LEMMA NoPieces ==
  ASSUME Ordered(delivered), NEW u, Reassemble(u), First(u) = <<>>, Second(u) = <<>>
  PROVE  delivered' = delivered /\ left' = NothingLeft
<1>1. Pieces(u) = <<>>
  BY ONLY First(u) = <<>>, Second(u) = <<>>, JoinShort DEF Pieces
<1>2. delivered' = delivered \o <<>> /\ left' = NothingLeft
  BY <1>1 DEF Reassemble
<1>3. delivered \o <<>> = delivered
  <2>1. delivered \in Seq(ToSet(delivered))
    BY DEF Ordered
  <2> QED BY ONLY <2>1, ConcatEmptySeq
<1> QED BY ONLY <1>2, <1>3

LEMMA OnePiece ==
  ASSUME Ordered(delivered), NEW u, Reassemble(u), u.sn = sn, u.FIsecond \in BOOLEAN, NEW d,
         \/ First(u) = <<>> /\ Second(u) = <<d>>
         \/ First(u) = <<d>> /\ Second(u) = <<>>
  PROVE  IF u.FIsecond THEN delivered' = delivered /\ left' = KeptOf(d)
                       ELSE delivered' = Append(delivered, d) /\ left' = NothingLeft
<1>1. Pieces(u) = <<d>>
  <2>1. \/ First(u) = <<>> /\ Second(u) = <<d>>
        \/ First(u) = <<d>> /\ Second(u) = <<>>
    OBVIOUS
  <2>2. Pieces(u) = First(u) \o Second(u)
    BY DEF Pieces
  <2>3. <<>> \o <<d>> = <<d>> /\ <<d>> \o <<>> = <<d>>
    BY ONLY JoinShort
  <2> QED BY ONLY <2>1, <2>2, <2>3
<1>2. <<d>> # <<>>
  OBVIOUS
<1>3. Front(<<d>>) = <<>> /\ Last(<<d>>) = d
  BY ONLY JoinShort
<1>4. /\ delivered' = delivered \o (IF u.FIsecond THEN <<>> ELSE <<d>>)
      /\ left' = IF u.FIsecond THEN KeptOf(d) ELSE NothingLeft
  BY <1>1, <1>2, <1>3 DEF Reassemble, KeptOf
<1>5. delivered \o <<>> = delivered /\ delivered \o <<d>> = Append(delivered, d)
  <2>1. PICK S : S = ToSet(delivered) \cup {d}
    OBVIOUS
  <2>2. delivered \in Seq(S) /\ d \in S
    BY <2>1, SeqMonotonic DEF Ordered
  <2> QED BY ONLY <2>2, ConcatEmptySeq, AppendIsConcat
<1> QED BY ONLY <1>4, <1>5

LEMMA TwoPieces ==
  ASSUME Ordered(delivered), NEW u, Reassemble(u), u.sn = sn, u.FIsecond \in BOOLEAN, NEW d, NEW e,
         First(u) = <<d>>, Second(u) = <<e>>
  PROVE  IF u.FIsecond THEN delivered' = Append(delivered, d) /\ left' = KeptOf(e)
                       ELSE delivered' = Append(Append(delivered, d), e) /\ left' = NothingLeft
<1>1. Pieces(u) = <<d, e>>
  <2>1. <<d>> \o <<e>> = <<d, e>>
    BY ONLY JoinShort
  <2> QED BY <2>1 DEF Pieces
<1>2. <<d, e>> # <<>>
  OBVIOUS
<1>3. Front(<<d, e>>) = <<d>> /\ Last(<<d, e>>) = e
  BY ONLY JoinShort
<1>4. /\ delivered' = delivered \o (IF u.FIsecond THEN <<d>> ELSE <<d, e>>)
      /\ left' = IF u.FIsecond THEN KeptOf(e) ELSE NothingLeft
  BY <1>1, <1>2, <1>3 DEF Reassemble, KeptOf
<1>5. delivered \o <<d>> = Append(delivered, d) /\ delivered \o <<d, e>> = Append(Append(delivered, d), e)
  <2>1. PICK S : S = ToSet(delivered) \cup {d, e}
    OBVIOUS
  <2>2. delivered \in Seq(S) /\ d \in S /\ e \in S
    BY <2>1, SeqMonotonic DEF Ordered
  <2>3. <<d>> \in Seq(S) /\ <<e>> \in Seq(S)
    BY ONLY <2>2
  <2>4. delivered \o <<d>> = Append(delivered, d) /\ Append(delivered, d) \in Seq(S)
    BY ONLY <2>2, AppendIsConcat, AppendProperties
  <2>5. (delivered \o <<d>>) \o <<e>> = delivered \o (<<d>> \o <<e>>)
    BY ONLY <2>2, <2>3, ConcatAssociative
  <2>6. <<d>> \o <<e>> = <<d, e>>
    BY ONLY JoinShort
  <2>7. Append(delivered, d) \o <<e>> = Append(Append(delivered, d), e)
    BY ONLY <2>2, <2>4, AppendIsConcat
  <2> QED BY ONLY <2>4, <2>5, <2>6, <2>7
<1> QED BY ONLY <1>4, <1>5

-----------------------------------------------------------------------------
\* The octets of a stretch of an SDU.
LEMMA StretchOctets ==
  ASSUME NEW i \in Nat, NEW k \in Nat, NEW n \in Nat
  PROVE  \A o \in ToSet(From(i, k, n)) : o \in Octet /\ o[1] = i /\ o[2] > k /\ o[2] <= k + n
<1>1. PICK f : f = From(i, k, n)
  OBVIOUS
<1>2. f = [j \in 1 .. n |-> <<i, k + j>>]
  BY <1>1 DEF From
<1>3. ASSUME NEW o \in ToSet(f) PROVE o \in Octet /\ o[1] = i /\ o[2] > k /\ o[2] <= k + n
  <2>1. PICK j \in 1 .. n : o = f[j]
    BY ONLY <1>2, <1>3 DEF ToSet
  <2>2. o = <<i, k + j>>
    BY ONLY <1>2, <2>1
  <2> QED BY <2>2 DEF Octet
<1> QED BY <1>1, <1>3

LEMMA OctetsOfSdu ==
  ASSUME NEW i \in Nat, NEW k \in Nat
  PROVE  Arrived(i, k) <=> \A j \in 1 .. k : <<i, j>> \in arrived
<1>1. ToSet(Sdu(i, k)) = {<<i, j>> : j \in 1 .. k}
  BY DEF ToSet, Sdu
<1> QED BY <1>1 DEF Arrived

\* A whole SDU tells which one it is.
LEMMA Known ==
  ASSUME Queued, NEW i \in DOMAIN lengths, NEW d, IsSdu(d.data, i)
  PROVE  d.data[1][1] = i /\ i \in Nat
<1>1. i \in Nat /\ lengths[i] \in Nat /\ lengths[i] > 0
  <2>1. lengths \in Seq(Lengths)
    BY DEF Queued
  <2>2. i \in Nat
    BY ONLY <2>1, i \in DOMAIN lengths, LenProperties
  <2> QED BY ONLY <2>2, Queued, i \in DOMAIN lengths, QueuedNumbers
<1>2. PICK n : n = lengths[i]
  OBVIOUS
<1>3. n \in Nat /\ n > 0 /\ 1 \in 1 .. n
  BY ONLY <1>1, <1>2
<1>4. d.data = [k \in 1 .. n |-> <<i, k>>]
  BY ONLY <1>2, IsSdu(d.data, i) DEF IsSdu, Sdu
<1> QED BY ONLY <1>1, <1>3, <1>4

\* The numbers a unit that is filled finds.
LEMMA TakesNumbers ==
  ASSUME Queued, buf # <<>>, NEW c, NEW m, NEW r, Takes(c, m, r)
  PROVE  /\ Gone \in Nat /\ Ahead \in Nat /\ Gone' \in Nat /\ Ahead' \in Nat
         /\ Gone + 1 \in DOMAIN lengths /\ lengths[Gone + 1] \in Nat /\ lengths[Gone + 1] > 0
         /\ Ahead <= lengths[Gone + 1] /\ LeftOf(1) = lengths[Gone + 1] - Ahead
         /\ c > 1 => LeftOf(c) = lengths[Gone + c]
         /\ lengths[Gone + c] \in Nat /\ lengths[Gone + c] > 0
         /\ \A i \in DOMAIN lengths : i \in Nat
<1>1. Gone \in Nat /\ Ahead \in Nat /\ \A i \in DOMAIN lengths : lengths[i] \in Nat /\ lengths[i] > 0
  BY ONLY Queued, QueuedNumbers
<1>2. Gone + 1 \in DOMAIN lengths /\ LeftOf(1) = lengths[Gone + 1] - Ahead /\ LeftOf(1) \in Nat
  <2>1. 1 \in DOMAIN buf
    <3>1. buf \in Seq(Part)
      BY DEF Queued
    <3>2. Len(buf) \in Nat /\ Len(buf) # 0 /\ DOMAIN buf = 1 .. Len(buf)
      BY ONLY <3>1, buf # <<>>, LenProperties, EmptySeq
    <3> QED BY ONLY <3>2
  <2>2. Gone + 1 \in DOMAIN lengths /\ Length(1) \in Nat /\ Length(1) = lengths[Gone + 1] - Ahead
    BY ONLY Queued, <2>1, QueuedNumbers
  <2> QED BY ONLY <2>2 DEF LeftOf
<1>3. lengths[Gone + 1] \in Nat /\ lengths[Gone + 1] > 0
  BY ONLY <1>1, <1>2
<1>4. Ahead <= lengths[Gone + 1]
  BY ONLY <1>1, <1>2, <1>3
<1>5. c \in Nat /\ c > 0 /\ m \in Nat /\ r \in 0 .. 1 /\ Gone' = Gone + c - r
      /\ Ahead' = IF r = 0 THEN 0 ELSE m + IF c = 1 THEN Ahead ELSE 0
  BY DEF Takes
<1>6. Gone' \in Nat /\ Ahead' \in Nat
  BY ONLY <1>1, <1>5
<1>7. Gone + c \in DOMAIN lengths
  BY DEF Takes
<1>8. lengths[Gone + c] \in Nat /\ lengths[Gone + c] > 0
  BY ONLY <1>1, <1>7
<1>9. c > 1 => LeftOf(c) = lengths[Gone + c]
  BY ONLY <1>5, <1>8 DEF LeftOf
<1>10. \A i \in DOMAIN lengths : i \in Nat
  <2>1. lengths \in Seq(Lengths)
    BY DEF Queued
  <2>2. DOMAIN lengths = 1 .. Len(lengths)
    BY ONLY <2>1, LenProperties
  <2> QED BY ONLY <2>2
<1> QED BY ONLY <1>1, <1>2, <1>3, <1>4, <1>6, <1>8, <1>9, <1>10

\* What is over stays over; what a unit takes is taken from the front.
LEMMA Progress ==
  ASSUME Queued, buf # <<>>, NEW c, NEW m, NEW r, Takes(c, m, r)
  PROVE  /\ Gone <= Gone'
         /\ Gone' = Gone => c = 1 /\ r = 1 /\ m > 0 /\ m < LeftOf(1) /\ Ahead' = Ahead + m
         /\ Ahead' > 0 => r = 1 /\ Gone' + 1 = Gone + c /\ m > 0
                          /\ (c = 1 => Ahead' = Ahead + m) /\ (c > 1 => Ahead' = m)
         /\ \A i \in Nat : IsOver(i) => i <= Gone'
<1>1. PICK g, a, G, A, l, lc :
        g = Gone /\ a = Ahead /\ G = Gone' /\ A = Ahead' /\ l = lengths[Gone + 1] /\ lc = LeftOf(c)
  OBVIOUS
<1>2. g \in Nat /\ a \in Nat /\ G \in Nat /\ A \in Nat /\ l \in Nat /\ l > 0 /\ a <= l /\ LeftOf(1) = l - a
  BY ONLY Queued, buf # <<>>, Takes(c, m, r), <1>1, TakesNumbers
<1>3. /\ c \in Nat /\ c > 0 /\ m \in Nat /\ r \in 0 .. 1 /\ m <= lc /\ (lc > 0 => m > 0)
      /\ IF c = 1 THEN r = 0 <=> m = lc ELSE r = 0 <=> lc - m = m
      /\ G = g + c - r /\ A = IF r = 0 THEN 0 ELSE m + IF c = 1 THEN a ELSE 0
  BY <1>1 DEF Takes
<1>4. (c = 1 => lc = l - a) /\ (c > 1 => lc \in Nat /\ lc > 0)
  <2>1. /\ LeftOf(1) = lengths[Gone + 1] - Ahead
        /\ c > 1 => LeftOf(c) = lengths[Gone + c]
        /\ lengths[Gone + c] \in Nat /\ lengths[Gone + c] > 0
    BY ONLY Queued, buf # <<>>, Takes(c, m, r), TakesNumbers
  <2> QED BY ONLY <1>1, <2>1
<1>5. g <= G
  BY ONLY <1>2, <1>3
<1>6. G = g => c = 1 /\ r = 1 /\ m > 0 /\ m < l - a /\ A = a + m
  BY ONLY <1>2, <1>3, <1>4
<1>7. A > 0 => r = 1 /\ G + 1 = g + c /\ m > 0 /\ (c = 1 => A = a + m) /\ (c > 1 => A = m)
  BY ONLY <1>2, <1>3, <1>4
<1>8. ASSUME NEW i \in Nat, IsOver(i) PROVE i <= G
  <2>1. i <= g \/ (i = g + 1 /\ a = l)
    BY ONLY <1>1, <1>8 DEF IsOver
  <2> QED BY ONLY <1>2, <1>3, <1>4, <2>1
<1> QED BY ONLY <1>1, <1>2, <1>5, <1>6, <1>7, <1>8

LEMMA OverStays ==
  ASSUME Queued, buf # <<>>, NEW c, NEW m, NEW r, Takes(c, m, r), NEW i \in Nat, IsOver(i)
  PROVE  IsOver(i)'
<1>1. i <= Gone'
  BY ONLY Queued, buf # <<>>, Takes(c, m, r), i \in Nat, IsOver(i), Progress
<1> QED BY ONLY <1>1 DEF IsOver

\* What has arrived of an SDU has been sent.
LEMMA OldArrived ==
  ASSUME Queued, Unsent, NEW i \in Nat, NEW k \in Nat, k > 0, <<i, k>> \in arrived
  PROVE  i <= Gone \/ (i = Gone + 1 /\ k <= Ahead)
<1>1. PICK o : o = <<i, k>>
  OBVIOUS
<1>2. o \in arrived /\ o[1] = i /\ o[2] = k
  BY <1>1
<1>3. Ahead \in Nat
  BY ONLY Queued, QueuedNumbers
<1>4. i <= Gone \/ (i = Gone + 1 /\ k \in 1 .. Ahead)
  BY ONLY Unsent, <1>2 DEF Unsent
<1> QED BY ONLY <1>3, <1>4

\* What a unit brings has been sent.
LEMMA StillUnsent ==
  ASSUME Queued, Unsent, buf # <<>>, NEW c, NEW m, NEW r, Takes(c, m, r), NEW new,
         arrived' = arrived \cup new,
         \A o \in new : o \in Octet /\ (o[1] <= Gone' \/ (o[1] = Gone' + 1 /\ o[2] \in 1 .. Ahead'))
  PROVE  Unsent'
<1>1. PICK g, a, G, A : g = Gone /\ a = Ahead /\ G = Gone' /\ A = Ahead'
  OBVIOUS
<1>2. g \in Nat /\ a \in Nat /\ G \in Nat /\ A \in Nat
  BY ONLY Queued, buf # <<>>, Takes(c, m, r), <1>1, TakesNumbers
<1>3. g <= G /\ (G = g => A >= a)
  <2>1. m \in Nat
    BY DEF Takes
  <2>2. g <= G /\ (G = g => A = a + m)
    BY ONLY Queued, buf # <<>>, Takes(c, m, r), <1>1, Progress
  <2> QED BY ONLY <1>2, <2>1, <2>2
<1>4. ASSUME NEW o \in arrived PROVE o \in Octet /\ (o[1] <= G \/ (o[1] = G + 1 /\ o[2] \in 1 .. A))
  <2>1. o \in Octet /\ (o[1] <= g \/ (o[1] = g + 1 /\ o[2] \in 1 .. a))
    BY ONLY Unsent, <1>1, <1>4 DEF Unsent
  <2>2. o[1] \in Nat /\ o[2] \in Nat
    BY ONLY <2>1 DEF Octet
  <2>3. PICK x, y : x = o[1] /\ y = o[2]
    OBVIOUS
  <2>4. x \in Nat /\ y \in Nat /\ (x <= g \/ (x = g + 1 /\ y \in 1 .. a))
    BY ONLY <2>1, <2>2, <2>3
  <2>5. x <= G \/ (x = G + 1 /\ y \in 1 .. A)
    BY ONLY <1>2, <1>3, <2>4
  <2> QED BY ONLY <2>1, <2>3, <2>5
<1>5. \A o \in arrived' : o \in Octet /\ (o[1] <= G \/ (o[1] = G + 1 /\ o[2] \in 1 .. A))
  BY <1>1, <1>4
<1> QED BY ONLY <1>1, <1>5 DEF Unsent

\* When nothing new arrives no more is owed to PDCP.
LEMMA NothingArrives ==
  ASSUME Queued, Unsent, ArrivedRight, buf # <<>>, NEW c, NEW m, NEW r, Takes(c, m, r),
         arrived' = arrived, ToSet(delivered) \subseteq ToSet(delivered')
  PROVE  Unsent' /\ ArrivedRight'
<1>0. lengths' = lengths
  BY DEF Takes
<1>1. Unsent'
  <2>1. PICK new : new = {}
    OBVIOUS
  <2>2. arrived' = arrived \cup new
    BY <2>1
  <2>3. \A o \in new : o \in Octet /\ (o[1] <= Gone' \/ (o[1] = Gone' + 1 /\ o[2] \in 1 .. Ahead'))
    BY ONLY <2>1
  <2> QED BY ONLY Queued, Unsent, buf # <<>>, Takes(c, m, r), <2>2, <2>3, StillUnsent
<1>2. PICK g, a, G, A : g = Gone /\ a = Ahead /\ G = Gone' /\ A = Ahead'
  OBVIOUS
<1>3. /\ g \in Nat /\ a \in Nat /\ G \in Nat /\ A \in Nat /\ g + 1 \in DOMAIN lengths
      /\ lengths[g + 1] \in Nat /\ lengths[g + 1] > 0 /\ a <= lengths[g + 1] /\ LeftOf(1) = lengths[g + 1] - a
  BY ONLY Queued, buf # <<>>, Takes(c, m, r), <1>2, TakesNumbers
<1>4. \A i \in Nat : IsOver(i) => i <= G
  BY ONLY Queued, buf # <<>>, Takes(c, m, r), <1>2, Progress
<1>5. c \in Nat /\ m \in Nat /\ r \in 0 .. 1 /\ Gone + c \in DOMAIN lengths /\ G = g + c - r
  BY <1>2 DEF Takes
<1>6. Queued'  => DOMAIN lengths = 1 .. Len(lengths) /\ Len(lengths) \in Nat
  <2>1. lengths \in Seq(Lengths)
    BY DEF Queued
  <2> QED BY ONLY <2>1, LenProperties
<1>7. ASSUME NEW i \in Nat, Delivered(i) PROVE Delivered(i)'
  BY ONLY <1>0, <1>7, ToSet(delivered) \subseteq ToSet(delivered') DEF Delivered, IsSdu
<1>8. ASSUME NEW i \in Nat, NEW k \in Nat, k > 0, Arrived(i, k) PROVE i <= g \/ (i = g + 1 /\ k <= a)
  <2>1. <<i, k>> \in arrived
    <3>1. k \in 1 .. k
      BY ONLY k \in Nat, k > 0
    <3>2. \A j \in 1 .. k : <<i, j>> \in arrived
      BY ONLY <1>8, OctetsOfSdu
    <3> QED BY ONLY <3>1, <3>2
  <2>2. k > 0
    BY ONLY <1>8
  <2> QED BY ONLY Queued, Unsent, i \in Nat, k \in Nat, <2>1, <2>2, <1>2, OldArrived
<1>9. ASSUME NEW i \in 1 .. G, Arrived(i, lengths[i]) PROVE Delivered(i)
  <2>1. i \in Nat /\ lengths[i] \in Nat /\ lengths[i] > 0
    <3>1. \A j \in DOMAIN lengths : lengths[j] \in Nat /\ lengths[j] > 0
      BY ONLY Queued, QueuedNumbers
    <3>2. i \in DOMAIN lengths
      <4>1. lengths \in Seq(Lengths)
        BY DEF Queued
      <4>2. PICK n \in Nat : DOMAIN lengths = 1 .. n
        BY ONLY <4>1, LenProperties
      <4>3. g + c \in 1 .. n
        BY ONLY <1>2, <1>5, <4>2
      <4>4. i \in 1 .. n
        BY ONLY <1>3, <1>5, <4>3, i \in 1 .. G, n \in Nat
      <4> QED BY ONLY <4>2, <4>4
    <3> QED BY ONLY <1>3, <3>1, <3>2, i \in 1 .. G
  <2>2. i <= g \/ (i = g + 1 /\ lengths[i] <= a)
    BY ONLY <1>8, <1>9, <2>1
  <2>3. CASE i <= g
    <3>1. i \in 1 .. Gone
      BY ONLY <1>2, <1>3, <2>1, <2>3, i \in 1 .. G
    <3> QED BY ONLY ArrivedRight, <1>9, <3>1 DEF ArrivedRight
  <2>4. CASE i = g + 1 /\ lengths[i] <= a
    <3>1. i = Gone + 1 /\ Ahead = lengths[i] /\ Ahead > 0
      BY ONLY <1>2, <1>3, <2>1, <2>4
    <3>2. Arrived(Gone + 1, Ahead) /\ ~(Ahead < lengths[Gone + 1])
      BY ONLY <1>2, <1>3, <1>9, <3>1
    <3>3. Delivered(Gone + 1)
      BY ONLY ArrivedRight, <3>1, <3>2 DEF ArrivedRight
    <3> QED BY ONLY <3>1, <3>3
  <2> QED BY ONLY <2>2, <2>3, <2>4
<1>10. ~(A > 0 /\ Arrived(G + 1, A))
  <2> SUFFICES ASSUME A > 0, Arrived(G + 1, A) PROVE FALSE
    OBVIOUS
  <2>1. G + 1 \in Nat
    BY ONLY <1>3
  <2>2. G + 1 <= g \/ (G + 1 = g + 1 /\ A <= a)
    BY ONLY <1>3, <1>8, <2>1, A > 0, Arrived(G + 1, A)
  <2>3. g <= G /\ (G = g => m > 0 /\ A = a + m)
    BY ONLY Queued, buf # <<>>, Takes(c, m, r), <1>2, Progress
  <2> QED BY ONLY <1>3, <1>5, <2>2, <2>3
<1>11. ASSUME NEW i, NEW k PROVE Arrived(i, k)' <=> Arrived(i, k)
  BY ONLY arrived' = arrived DEF Arrived
<1>12. \A i \in 1 .. G : Arrived(i, lengths[i])' => Delivered(i)'
  <2> TAKE i \in 1 .. G
  <2> SUFFICES ASSUME Arrived(i, lengths[i])' PROVE Delivered(i)'
    OBVIOUS
  <2>1. Arrived(i, lengths[i])
    BY ONLY arrived' = arrived, <1>0, Arrived(i, lengths[i])' DEF Arrived
  <2>2. i \in Nat
    BY ONLY <1>3, i \in 1 .. G
  <2> QED BY ONLY <1>7, <1>9, <2>1, <2>2, i \in 1 .. G
<1>13. ~(A > 0 /\ Arrived(Gone + 1, Ahead)')
  BY ONLY <1>2, <1>10, arrived' = arrived DEF Arrived
<1>14. ArrivedRight'
  BY ONLY <1>2, <1>12, <1>13 DEF ArrivedRight
<1> QED BY ONLY <1>1, <1>14

-----------------------------------------------------------------------------
(* The numbers of the units and what the receiver keeps.                     *)

\* The number after a number.
LEMMA Successor ==
  ASSUME NEW x \in 0 .. Mod - 1
  PROVE  /\ (x + 1) % Mod \in 0 .. Mod - 1
         /\ ((x + 1) % Mod = x + 1 /\ x + 1 < Mod) \/ (x + 1 = Mod /\ (x + 1) % Mod = 0)
<1>1. PICK n, y : n = Mod /\ y = x + 1
  OBVIOUS
<1>2. n \in Nat /\ n > 1 /\ y \in 1 .. n
  BY <1>1, ModAssumption
<1>3. CASE y = n
  <2>1. n % n = 0
    BY ONLY <1>2
  <2> QED BY ONLY <1>1, <1>2, <1>3, <2>1
<1>4. CASE y # n
  <2>1. y \in 0 .. n - 1
    BY ONLY <1>2, <1>4
  <2>2. y % n = y
    BY ONLY <1>2, <2>1, SmallRemainder
  <2>3. y < n
    BY ONLY <1>2, <2>1
  <2> QED BY ONLY <1>1, <1>2, <2>1, <2>2, <2>3
<1> QED BY ONLY <1>3, <1>4

\* A piece continues the start that is kept if no unit was lost since.
LEMMA JoinsWhen ==
  ASSUME LeftRight, NEW u, u.sn = sn
  PROVE  Joins(u) <=> left.sn # None /\ missing = 0
<1>1. Joins(u) <=> left.sn # None /\ (left.sn + 1) % Mod = sn
  BY DEF Joins
<1>2. ASSUME left.sn # None PROVE (left.sn + 1) % Mod = sn <=> missing = 0
  <2>1. PICK x, n, s, l : x = left.sn /\ n = Mod /\ s = sn /\ l = missing
    OBVIOUS
  <2>2. /\ x \in 0 .. n - 1 /\ x + 1 + l \in {s, s + n} /\ s \in 0 .. n - 1 /\ l \in 0 .. MaxMissing
    BY ONLY LeftRight, <1>2, <2>1 DEF LeftRight
  <2>3. MaxMissing \in 0 .. n - 2 /\ n \in Nat /\ n > 1
    BY ONLY <2>1, ModAssumption, BoundsAssumption
  <2>4. ((x + 1) % n = x + 1 /\ x + 1 < n) \/ (x + 1 = n /\ (x + 1) % n = 0)
    BY ONLY <2>1, <2>2, Successor
  <2>5. l \in 0 .. n - 2
    BY ONLY <2>2, <2>3
  <2>6. PICK y : y = (x + 1) % n
    OBVIOUS
  <2>7. (y = x + 1 /\ x + 1 < n) \/ (x + 1 = n /\ y = 0)
    BY ONLY <2>4, <2>6
  <2>8. y = s <=> l = 0
    BY ONLY <2>2, <2>3, <2>5, <2>7
  <2> QED BY ONLY <2>1, <2>6, <2>8
<1> QED BY ONLY <1>1, <1>2

\* The start the receiver keeps after a loss, after a unit that ends its SDU, and
\* after one that does not.
LEMMA LeftWhenLost ==
  ASSUME Queued, LeftRight, Gone \in Nat, Gone' \in Nat, Gone <= Gone', lengths' = lengths, left' = left,
         delivered' = delivered, missing < MaxMissing, missing' = missing + 1, sn' = (sn + 1) % Mod
  PROVE  LeftRight'
<1>1. PICK n, s, l, t : n = Mod /\ s = sn /\ l = missing /\ t = sn'
  OBVIOUS
<1>2. s \in 0 .. n - 1 /\ l \in 0 .. MaxMissing /\ left.crowded \in BOOLEAN
  BY ONLY LeftRight, <1>1 DEF LeftRight
<1>3. MaxMissing \in 0 .. n - 2 /\ n \in Nat /\ n > 1
  BY ONLY <1>1, ModAssumption, BoundsAssumption
<1>4. t \in 0 .. n - 1 /\ ((t = s + 1 /\ s + 1 < n) \/ (s + 1 = n /\ t = 0))
  <2>1. s \in 0 .. Mod - 1 /\ t = (s + 1) % Mod
    BY <1>1, <1>2
  <2> QED BY ONLY <1>1, <2>1, Successor
<1>5. missing' = l + 1 /\ missing' \in 0 .. MaxMissing /\ missing' # 0
  <2>1. missing' = l + 1 /\ l < MaxMissing
    BY <1>1
  <2> QED BY ONLY <1>2, <1>3, <2>1
<1>6. ASSUME left'.sn # None
      PROVE  /\ left'.sn \in 0 .. Mod - 1 /\ left'.sn + 1 + missing' \in {sn', sn' + Mod}
             /\ ~left'.crowded => (\E i \in DOMAIN lengths : \E k \in 1 .. lengths[i] : KeptStart(i, k))'
  <2>1. PICK x : x = left.sn
    OBVIOUS
  <2>2. x # None /\ left'.sn = x
    BY <1>6, <2>1
  <2>3. x \in 0 .. n - 1 /\ x + 1 + l \in {s, s + n}
    BY ONLY LeftRight, <1>1, <2>1, <2>2 DEF LeftRight
  <2>4. x + 1 + (l + 1) \in {t, t + n}
    BY ONLY <1>2, <1>3, <1>4, <2>3
  <2>5. ASSUME ~left'.crowded PROVE (\E i \in DOMAIN lengths : \E k \in 1 .. lengths[i] : KeptStart(i, k))'
    <3>7. PICK i : i \in DOMAIN lengths /\ \E k \in 1 .. lengths[i] : KeptStart(i, k)
      <4>1. ~left.crowded
        BY <2>5
      <4> QED BY ONLY LeftRight, <2>1, <2>2, <4>1 DEF LeftRight
    <3>1. PICK k : k \in 1 .. lengths[i] /\ KeptStart(i, k)
      BY ONLY <3>7
    <3>2. left.data = Sdu(i, k) /\ k < lengths[i] /\ Newer(i, delivered)
      BY ONLY <3>1 DEF KeptStart
    <3>3. left'.data = Sdu(i, k) /\ k < lengths'[i] /\ Newer(i, delivered')
      BY ONLY <3>2, lengths' = lengths, left' = left, delivered' = delivered
    <3>4. i <= Gone + 1
      BY ONLY <3>1 DEF KeptStart
    <3>5. i <= Gone' + 1
      <4>1. i \in Int
        <5>1. lengths \in Seq(Lengths)
          BY DEF Queued
        <5> QED BY ONLY <3>7, <5>1, LenProperties
      <4>2. PICK g, G : g = Gone /\ G = Gone'
        OBVIOUS
      <4>3. g \in Nat /\ G \in Nat /\ g <= G
        BY <4>2
      <4>4. i <= g + 1
        BY ONLY <3>4, <4>2
      <4>5. i <= G + 1
        BY ONLY <4>1, <4>3, <4>4
      <4> QED BY ONLY <4>2, <4>5
    <3>6. KeptStart(i, k)'
      BY ONLY <1>5, <3>3, <3>5 DEF KeptStart, Newer
    <3> QED BY ONLY <3>1, <3>6, <3>7, lengths' = lengths
  <2> QED BY ONLY <1>1, <1>5, <2>2, <2>3, <2>4, <2>5
<1>7. left'.crowded \in BOOLEAN /\ sn' \in 0 .. Mod - 1
  BY <1>1, <1>2, <1>4
<1> QED BY ONLY <1>5, <1>6, <1>7 DEF LeftRight

LEMMA LeftWhenNothing ==
  ASSUME LeftRight, left' = NothingLeft, missing' = 0, sn' = (sn + 1) % Mod
  PROVE  LeftRight'
<1>1. sn' \in 0 .. Mod - 1
  <2>1. sn \in 0 .. Mod - 1
    BY DEF LeftRight
  <2> QED BY <2>1, Successor
<1>2. left'.sn = None /\ left'.crowded = FALSE
  BY DEF NothingLeft
<1>3. missing' \in 0 .. MaxMissing
  BY BoundsAssumption
<1> QED BY ONLY <1>1, <1>2, <1>3 DEF LeftRight

LEMMA LeftWhenKept ==
  ASSUME LeftRight, left'.sn = sn, left'.crowded \in BOOLEAN, missing' = 0, sn' = (sn + 1) % Mod,
         ~left'.crowded => (\E i \in DOMAIN lengths : \E k \in 1 .. lengths[i] : KeptStart(i, k))'
  PROVE  LeftRight'
<1>1. PICK n, s, t : n = Mod /\ s = sn /\ t = sn'
  OBVIOUS
<1>2. s \in 0 .. n - 1
  BY ONLY LeftRight, <1>1 DEF LeftRight
<1>3. n \in Nat /\ n > 1
  BY ONLY <1>1, ModAssumption
<1>4. t \in 0 .. n - 1 /\ ((t = s + 1 /\ s + 1 < n) \/ (s + 1 = n /\ t = 0))
  <2>1. s \in 0 .. Mod - 1 /\ t = (s + 1) % Mod
    BY <1>1, <1>2
  <2> QED BY ONLY <1>1, <2>1, Successor
<1>5. s + 1 + 0 \in {t, t + n}
  BY ONLY <1>2, <1>3, <1>4
<1>6. left'.sn = s /\ missing' = 0 /\ missing' \in 0 .. MaxMissing
  BY <1>1, BoundsAssumption
<1>7. /\ left'.crowded \in BOOLEAN
      /\ ~left'.crowded => (\E i \in DOMAIN lengths : \E k \in 1 .. lengths[i] : KeptStart(i, k))'
  OBVIOUS
<1>8. sn' \in 0 .. Mod - 1 /\ left'.sn \in 0 .. Mod - 1 /\ left'.sn + 1 + missing' \in {sn', sn' + Mod}
  BY ONLY <1>1, <1>2, <1>4, <1>5, <1>6
<1> QED BY ONLY <1>6, <1>7, <1>8 DEF LeftRight

-----------------------------------------------------------------------------
(* The pieces of a unit of one SDU, of two and of more.                      *)

\* The limits in a unit of c SDUs.
LEMMA Limits ==
  ASSUME NEW u, NEW c, c \in Nat, c > 0, u.LI = [i \in 1 .. c - 1 |-> Length(i)]
  PROVE  /\ Crowded(u) = (c > 2) /\ (u.LI = <<>> <=> c = 1)
         /\ c > 1 => u.LI[1] = Length(1)
<1>1. PICK n : n = c - 1 /\ n \in Nat
  OBVIOUS
<1>2. PICK l : l = u.LI
  OBVIOUS
<1>3. l = [i \in 1 .. n |-> Length(i)]
  BY <1>1, <1>2
<1>4. Len(l) = n /\ (l = <<>> <=> n = 0)
  <2>1. PICK S : \A i \in 1 .. n : Length(i) \in S
    <3>1. \A i \in 1 .. n : Length(i) \in {Length(j) : j \in 1 .. n}
      OBVIOUS
    <3> QED BY <3>1
  <2>2. l \in Seq(S) /\ Len(l) = n
    BY ONLY <1>1, <1>3, <2>1
  <2>3. l = <<>> <=> Len(l) = 0
    BY ONLY <2>2, EmptySeq
  <2> QED BY ONLY <2>2, <2>3
<1>5. (Len(l) > 1) = (c > 2)
  BY ONLY <1>1, <1>4, c \in Nat
<1>6. Crowded(u) = (c > 2)
  BY ONLY <1>2, <1>5 DEF Crowded
<1>7. u.LI = <<>> <=> c = 1
  BY ONLY <1>1, <1>2, <1>4, c \in Nat
<1>8. c > 1 => u.LI[1] = Length(1)
  BY ONLY <1>1, <1>2, <1>3, c \in Nat
<1> QED BY ONLY <1>6, <1>7, <1>8

LEMMA PayloadIs ==
  ASSUME NEW u, Crowded(u) = FALSE, NEW S, u.data \in Seq(S)
  PROVE  Payload(u) = u.data
<1>1. PICK s, e : s = u.data /\ e = [i \in 1 .. 0 |-> LiOctet]
  OBVIOUS
<1>2. e = <<>>
  BY ONLY <1>1
<1>3. s \in Seq(S)
  BY <1>1
<1>4. <<>> \o s = s
  BY ONLY <1>3, ConcatEmptySeq
<1>5. Payload(u) = e \o s
  BY <1>1 DEF Payload, UnreadOctets
<1> QED BY ONLY <1>1, <1>2, <1>4, <1>5

LEMMA PieceOfOne ==
  ASSUME Queued, buf # <<>>, NEW u, NEW m, m \in Nat,
         u.LI = [i \in 1 .. 1 - 1 |-> Length(i)], u.data = From(Gone + 1, Ahead, m)
  PROVE  /\ Crowded(u) = FALSE /\ FirstPiece(u) = From(Gone + 1, Ahead, m) /\ Second(u) = <<>>
         /\ \A o \in ToSet(u.data) : o \in Octet /\ o[1] = Gone + 1 /\ o[2] > Ahead /\ o[2] <= Ahead + m
<1>1. PICK g, a : g = Gone + 1 /\ a = Ahead /\ g \in Nat /\ a \in Nat
  BY ONLY Queued, QueuedNumbers
<1>2. Crowded(u) = FALSE /\ u.LI = <<>>
  <2>1. PICK c : c = 1
    OBVIOUS
  <2>2. c \in Nat /\ c > 0 /\ u.LI = [i \in 1 .. c - 1 |-> Length(i)]
    BY <2>1
  <2>3. Crowded(u) = (c > 2) /\ (u.LI = <<>> <=> c = 1)
    BY ONLY <2>2, Limits
  <2>4. (c > 2) = FALSE
    BY ONLY <2>1
  <2> QED BY ONLY <2>1, <2>3, <2>4
<1>3. u.data \in Seq(Octet)
  <2>1. From(g, a, m) \in Seq(Octet)
    BY ONLY <1>1, m \in Nat, SduIs
  <2> QED BY <1>1, <2>1
<1>4. Payload(u) = u.data
  BY ONLY <1>2, <1>3, PayloadIs
<1>5. FirstPiece(u) = From(Gone + 1, Ahead, m) /\ Second(u) = <<>>
  BY <1>2, <1>4 DEF FirstPiece, Second
<1>6. \A o \in ToSet(From(g, a, m)) : o \in Octet /\ o[1] = g /\ o[2] > a /\ o[2] <= a + m
  BY ONLY <1>1, m \in Nat, StretchOctets
<1>7. \A o \in ToSet(u.data) : o \in Octet /\ o[1] = Gone + 1 /\ o[2] > Ahead /\ o[2] <= Ahead + m
  BY <1>1, <1>6
<1> QED BY ONLY <1>2, <1>5, <1>7

LEMMA PiecesOfTwo ==
  ASSUME Queued, buf # <<>>, NEW u, NEW m, m \in Nat,
         u.LI = [i \in 1 .. 2 - 1 |-> Length(i)],
         u.data = From(Gone + 1, Ahead, LeftOf(1)) \o From(Gone + 2, 0, m)
  PROVE  /\ Crowded(u) = FALSE /\ FirstPiece(u) = From(Gone + 1, Ahead, LeftOf(1))
         /\ Second(u) = << [data |-> Sdu(Gone + 2, m), crowded |-> FALSE] >>
         /\ \A o \in ToSet(u.data) : o \in Octet /\ ((o[1] = Gone + 1 /\ o[2] > Ahead) \/ (o[1] = Gone + 2 /\ o[2] > 0 /\ o[2] <= m))
<1>1. 1 \in DOMAIN buf
  <2>1. buf \in Seq(Part)
    BY DEF Queued
  <2>2. Len(buf) \in Nat /\ Len(buf) # 0 /\ DOMAIN buf = 1 .. Len(buf)
    BY ONLY <2>1, buf # <<>>, LenProperties, EmptySeq
  <2> QED BY ONLY <2>2
<1>2. PICK g, a, n : g = Gone /\ a = Ahead /\ n = LeftOf(1) /\ n = Length(1) /\ g \in Nat /\ a \in Nat /\ n \in Nat
  BY ONLY Queued, <1>1, QueuedNumbers DEF LeftOf
<1>3. Crowded(u) = FALSE /\ u.LI # <<>> /\ u.LI[1] = n
  <2>1. PICK c : c = 2
    OBVIOUS
  <2>2. c \in Nat /\ c > 0 /\ u.LI = [i \in 1 .. c - 1 |-> Length(i)]
    BY <2>1
  <2>3. Crowded(u) = (c > 2) /\ (u.LI = <<>> <=> c = 1) /\ (c > 1 => u.LI[1] = Length(1))
    BY ONLY <2>2, Limits
  <2>4. (c > 2) = FALSE /\ c # 1 /\ c > 1
    BY ONLY <2>1
  <2> QED BY ONLY <1>2, <2>3, <2>4
<1>4. PICK s, t, w : s = From(g + 1, a, n) /\ t = From(g + 2, 0, m) /\ w = s \o t
  OBVIOUS
<1>5. s \in Seq(Octet) /\ Len(s) = n /\ t \in Seq(Octet)
  <2>1. g + 1 \in Nat /\ g + 2 \in Nat /\ 0 \in Nat
    BY ONLY <1>2
  <2> QED BY ONLY <1>2, <1>4, <2>1, m \in Nat, SduIs
<1>6. /\ w \in Seq(Octet) /\ SubSeq(w, 1, Len(s)) = s /\ SubSeq(w, Len(s) + 1, Len(w)) = t
      /\ \A o \in ToSet(w) : o \in ToSet(s) \/ o \in ToSet(t)
  <2>1. w = s \o t
    BY ONLY <1>4
  <2>2. w \in Seq(Octet)
    BY ONLY <1>5, <2>1, Halves
  <2>3. SubSeq(w, 1, Len(s)) = s
    BY ONLY <1>5, <2>1, Halves
  <2>4. SubSeq(w, Len(s) + 1, Len(w)) = t
    BY ONLY <1>5, <2>1, Halves
  <2>5. \A o \in ToSet(w) : o \in ToSet(s) \/ o \in ToSet(t)
    BY ONLY <1>5, <2>1, Halves
  <2> QED BY ONLY <2>2, <2>3, <2>4, <2>5
<1>7. u.data = w
  BY <1>2, <1>4
<1>8. Payload(u) = w
  BY ONLY <1>3, <1>6, <1>7, PayloadIs
<1>9. FirstPiece(u) = s /\ LastPiece(u) = t
  BY ONLY <1>3, <1>5, <1>6, <1>8 DEF FirstPiece, LastPiece
<1>10. t = Sdu(g + 2, m)
  BY ONLY <1>4, m \in Nat DEF From, Sdu
<1>11. Second(u) = << [data |-> Sdu(Gone + 2, m), crowded |-> FALSE] >>
  BY ONLY <1>2, <1>3, <1>9, <1>10 DEF Second
<1>12. \A o \in ToSet(s) : o \in Octet /\ o[1] = g + 1 /\ o[2] > a
  <2>1. g + 1 \in Nat
    BY ONLY <1>2
  <2> QED BY ONLY <1>2, <1>4, <2>1, StretchOctets
<1>13. \A o \in ToSet(t) : o \in Octet /\ o[1] = g + 2 /\ o[2] > 0 /\ o[2] <= m
  <2>1. PICK h, z : h = g + 2 /\ z = 0
    OBVIOUS
  <2>2. h \in Nat /\ z \in Nat /\ t = From(h, z, m)
    BY ONLY <1>2, <1>4, <2>1
  <2>3. \A o \in ToSet(t) : o \in Octet /\ o[1] = h /\ o[2] > z /\ o[2] <= z + m
    BY ONLY <2>2, m \in Nat, StretchOctets
  <2>4. z + m = m
    BY ONLY <2>1, m \in Nat
  <2> QED BY ONLY <2>1, <2>3, <2>4
<1>14. \A o \in ToSet(w) : o \in Octet /\ ((o[1] = g + 1 /\ o[2] > a) \/ (o[1] = g + 2 /\ o[2] > 0 /\ o[2] <= m))
  BY ONLY <1>6, <1>12, <1>13
<1> QED BY ONLY <1>2, <1>3, <1>4, <1>7, <1>9, <1>11, <1>14

LEMMA PiecesOfMany ==
  ASSUME LeftRight, NEW u, NEW c, c \in Nat, c > 2, u.LI = [i \in 1 .. c - 1 |-> Length(i)]
  PROVE  /\ Crowded(u) = TRUE
         /\ First(u) = <<>> \/ \E d : First(u) = <<d>> /\ d.crowded = TRUE
         /\ \E e : Second(u) = <<e>> /\ e.crowded = TRUE
<1>1. Crowded(u) = TRUE /\ u.LI # <<>>
  <2>1. c > 0 /\ (c > 2) = TRUE /\ c # 1
    OBVIOUS
  <2>2. Crowded(u) = (c > 2) /\ (u.LI = <<>> <=> c = 1)
    BY ONLY <2>1, c \in Nat, u.LI = [i \in 1 .. c - 1 |-> Length(i)], Limits
  <2> QED BY ONLY <2>1, <2>2
<1>2. PICK e : e = [data |-> LastPiece(u), crowded |-> TRUE]
  OBVIOUS
<1>3. Second(u) = <<e>> /\ e.crowded = TRUE
  BY ONLY <1>1, <1>2 DEF Second
<1>4. First(u) = <<>> \/ \E d : First(u) = <<d>> /\ d.crowded = TRUE
  <2>1. CASE ~u.FIfirst
    <3>1. PICK d : d = [data |-> FirstPiece(u), crowded |-> TRUE]
      OBVIOUS
    <3>2. First(u) = <<d>>
      BY ONLY <1>1, <2>1, <3>1 DEF First
    <3>3. d.crowded = TRUE
      BY ONLY <3>1
    <3> QED BY ONLY <3>2, <3>3
  <2>2. CASE u.FIfirst /\ Joins(u)
    <3>1. (left.crowded \/ Crowded(u)) = TRUE
      BY ONLY <1>1
    <3>2. PICK d : d = [data |-> left.data \o FirstPiece(u), crowded |-> TRUE]
      OBVIOUS
    <3>3. First(u) = <<d>>
      BY ONLY <2>2, <3>1, <3>2 DEF First
    <3>4. d.crowded = TRUE
      BY ONLY <3>2
    <3> QED BY ONLY <3>3, <3>4
  <2>3. CASE u.FIfirst /\ ~Joins(u)
    BY ONLY <2>3 DEF First
  <2> QED BY ONLY <2>1, <2>2, <2>3
<1> QED BY ONLY <1>1, <1>3, <1>4

\* What was delivered is older than what follows it in the queue.
LEMMA AllNewer ==
  ASSUME Queued, DeliveredRight
  PROVE  Newer(Gone + 2, delivered) /\ (Ahead = 0 => Newer(Gone + 1, delivered))
<1>1. PICK g, a : g = Gone /\ a = Ahead /\ g \in Nat /\ a \in Nat
  BY ONLY Queued, QueuedNumbers
<1>2. ASSUME NEW d \in ToSet(delivered), ~d.crowded
      PROVE  d.data[1][1] \in Nat /\ d.data[1][1] < g + 2 /\ (a = 0 => d.data[1][1] < g + 1)
  <2>1. PICK i \in DOMAIN lengths : IsSdu(d.data, i) /\ IsOver(i)
    BY ONLY DeliveredRight, <1>2 DEF DeliveredRight
  <2>2. d.data[1][1] = i /\ i \in Nat
    BY ONLY Queued, i \in DOMAIN lengths, <2>1, Known
  <2>3. i <= g \/ (i = g + 1 /\ a > 0)
    BY ONLY <1>1, <2>1 DEF IsOver
  <2>4. i < g + 2 /\ (a = 0 => i < g + 1)
    BY ONLY <1>1, <2>2, <2>3
  <2> QED BY ONLY <2>2, <2>4
<1> QED BY ONLY <1>1, <1>2 DEF Newer

\* The start of the SDU next in the queue, and that it cannot be had any more.
Start(d, n) ==
  d.data = Sdu(Gone + 1, Ahead + n) /\ Ahead < lengths[Gone + 1] /\ Newer(Gone + 1, delivered)
Broken ==
  Ahead > 0 /\ (Arrived(Gone + 1, Ahead) => Ahead = lengths[Gone + 1] /\ Delivered(Gone + 1))

\* The first piece is the next stretch of its SDU, with all that came before it, or
\* its start did not come.
LEMMA FirstOf ==
  ASSUME Queued, LeftRight, DeliveredRight, ArrivedRight, Gone + 1 \in DOMAIN lengths,
         NEW u, u.sn = sn, u.FIfirst <=> Ahead > 0, Crowded(u) = FALSE,
         NEW n, n \in Nat, FirstPiece(u) = From(Gone + 1, Ahead, n)
  PROVE  \/ First(u) = <<>> /\ Broken
         \/ \E d : /\ First(u) = <<d>> /\ d.crowded \in BOOLEAN
                   /\ d.crowded => Broken
                   /\ ~d.crowded => Start(d, n)
<1>1. PICK g, a, l : g = Gone + 1 /\ a = Ahead /\ l = lengths[Gone + 1] /\ g \in Nat /\ a \in Nat /\ l \in Nat /\ l > 0
  <2>1. Gone \in Nat /\ Ahead \in Nat /\ \A i \in DOMAIN lengths : lengths[i] \in Nat /\ lengths[i] > 0
    BY ONLY Queued, QueuedNumbers
  <2>2. lengths[Gone + 1] \in Nat /\ lengths[Gone + 1] > 0 /\ Gone + 1 \in Nat
    BY ONLY <2>1, Gone + 1 \in DOMAIN lengths
  <2> QED BY ONLY <2>1, <2>2
<1>2. FirstPiece(u) = From(g, a, n)
  BY <1>1
<1>3. Joins(u) <=> left.sn # None /\ missing = 0
  BY ONLY LeftRight, u.sn = sn, JoinsWhen
<1>4. left.crowded \in BOOLEAN
  BY DEF LeftRight
<1>9. Sdu(g, a) \o From(g, a, n) = Sdu(g, a + n)
  <2>1. g \in Nat /\ a \in Nat /\ n \in Nat
    BY <1>1
  <2>2. \A i, k, j : i \in Nat /\ k \in Nat /\ j \in Nat => Sdu(i, k) \o From(i, k, j) = Sdu(i, k + j)
    BY ONLY Lengthened
  <2> QED BY ONLY <2>1, <2>2
<1>5. CASE a = 0
  <2>1. PICK d : d = [data |-> FirstPiece(u), crowded |-> FALSE]
    OBVIOUS
  <2>2. ~u.FIfirst
    BY <1>1, <1>5
  <2>3. First(u) = <<d>>
    BY ONLY <2>1, <2>2, Crowded(u) = FALSE DEF First
  <2>4. d.data = Sdu(g, a + n)
    BY ONLY <1>2, <1>5, <2>1, n \in Nat DEF From, Sdu
  <2>5. Newer(Gone + 1, delivered)
    BY ONLY Queued, DeliveredRight, <1>1, <1>5, AllNewer
  <2>6. Ahead < lengths[Gone + 1]
    BY ONLY <1>1, <1>5
  <2>7. Start(d, n)
    BY ONLY <1>1, <2>4, <2>5, <2>6 DEF Start
  <2>8. d.crowded = FALSE
    BY ONLY <2>1
  <2> QED BY ONLY <2>3, <2>7, <2>8
<1>6. CASE a > 0 /\ Joins(u)
  <2>1. u.FIfirst
    BY <1>1, <1>6
  <2>2. PICK d : d = [data |-> left.data \o FirstPiece(u), crowded |-> left.crowded]
    OBVIOUS
  <2>3. (left.crowded \/ Crowded(u)) = left.crowded
    BY ONLY <1>4, Crowded(u) = FALSE
  <2>4. First(u) = <<d>>
    BY ONLY <1>6, <2>1, <2>2, <2>3 DEF First
  <2>5. d.crowded = left.crowded /\ d.data = left.data \o From(g, a, n)
    BY ONLY <1>2, <2>2
  <2>6. left.sn # None /\ missing = 0
    BY ONLY <1>3, <1>6
  <2>7. ASSUME d.crowded PROVE Broken
    <3>1. left.crowded /\ Ahead > 0
      BY ONLY <1>1, <1>6, <2>5, <2>7
    <3> QED BY ONLY ArrivedRight, <3>1 DEF ArrivedRight, Broken
  <2>8. ASSUME ~d.crowded PROVE Start(d, n)
    <3>0. ~left.crowded
      BY ONLY <2>5, <2>8
    <3>1. PICK i : i \in DOMAIN lengths /\ \E k \in 1 .. lengths[i] : KeptStart(i, k)
      BY ONLY LeftRight, <2>6, <3>0 DEF LeftRight
    <3>2. PICK k : k \in 1 .. lengths[i] /\ KeptStart(i, k)
      BY ONLY <3>1
    <3>3. i = g /\ k = a
      BY ONLY <1>1, <1>6, <2>6, <3>2 DEF KeptStart
    <3>4. left.data = Sdu(g, a) /\ a < l /\ Newer(g, delivered)
      BY ONLY <1>1, <3>2, <3>3 DEF KeptStart
    <3>5. Sdu(g, a) \o From(g, a, n) = Sdu(g, a + n)
      BY ONLY <1>9
    <3> QED BY ONLY <1>1, <2>5, <3>4, <3>5 DEF Start
  <2>9. d.crowded \in BOOLEAN
    BY ONLY <1>4, <2>5
  <2> QED BY ONLY <2>4, <2>7, <2>8, <2>9
<1>7. CASE a > 0 /\ ~Joins(u)
  <2>1. u.FIfirst
    BY <1>1, <1>7
  <2>2. First(u) = <<>>
    BY ONLY <1>7, <2>1 DEF First
  <2>3. Broken
    <3>1. Ahead > 0 /\ ~(left.sn # None /\ missing = 0)
      BY ONLY <1>1, <1>3, <1>7
    <3> QED BY ONLY ArrivedRight, <3>1 DEF ArrivedRight, Broken
  <2> QED BY ONLY <2>2, <2>3
<1>8. a = 0 \/ a > 0
  BY ONLY <1>1
<1> QED BY ONLY <1>5, <1>6, <1>7, <1>8

-----------------------------------------------------------------------------
(* What a unit's arrival does.                                               *)

\* A list PDCP may have been given by the time the unit has left the queue.
Good(s) ==
  /\ Ordered(s)
  /\ \A d \in ToSet(s) : ~d.crowded => \E i \in DOMAIN lengths : IsSdu(d.data, i) /\ IsOver(i)'
Gives(f, s) == (f = <<>> /\ s = delivered) \/ \E d : f = <<d>> /\ s = Append(delivered, d)

\* What was in the list is still right, and so is what is added to it.
LEMMA GoodBefore ==
  ASSUME Queued, DeliveredRight, buf # <<>>, NEW c, NEW m, NEW r, Takes(c, m, r)
  PROVE  Good(delivered)
<1>1. Ordered(delivered)
  BY DEF DeliveredRight
<1>2. ASSUME NEW d \in ToSet(delivered), ~d.crowded
      PROVE  \E i \in DOMAIN lengths : IsSdu(d.data, i) /\ IsOver(i)'
  <2>1. PICK i \in DOMAIN lengths : IsSdu(d.data, i) /\ IsOver(i)
    BY ONLY DeliveredRight, <1>2 DEF DeliveredRight
  <2>2. i \in Nat
    BY ONLY Queued, buf # <<>>, Takes(c, m, r), i \in DOMAIN lengths, TakesNumbers
  <2>3. IsOver(i)'
    BY ONLY Queued, buf # <<>>, Takes(c, m, r), <2>1, <2>2, OverStays
  <2> QED BY ONLY <2>1, <2>3, i \in DOMAIN lengths
<1> QED BY ONLY <1>1, <1>2 DEF Good

LEMMA GoodAfter ==
  ASSUME lengths' = lengths, Good(delivered')
  PROVE  DeliveredRight'
<1>1. Ordered(delivered')
  BY DEF Good
<1>2. \A d \in ToSet(delivered') : ~d.crowded => \E i \in DOMAIN lengths' : IsSdu(d.data, i)' /\ IsOver(i)'
  <2>1. \A d \in ToSet(delivered') : ~d.crowded => \E i \in DOMAIN lengths : IsSdu(d.data, i) /\ IsOver(i)'
    BY DEF Good
  <2> QED BY ONLY <2>1, lengths' = lengths DEF IsSdu
<1> QED BY ONLY <1>1, <1>2 DEF DeliveredRight, Ordered

LEMMA GoodAppend ==
  ASSUME NEW s, Good(s), NEW d, d.crowded \in BOOLEAN, NEW i, i \in Nat, Newer(i, s),
         ~d.crowded => i \in DOMAIN lengths /\ i > 0 /\ lengths[i] \in Nat /\ lengths[i] > 0
                       /\ IsSdu(d.data, i) /\ IsOver(i)'
  PROVE  /\ Good(Append(s, d)) /\ ToSet(Append(s, d)) = ToSet(s) \cup {d}
         /\ Newer(i + 1, Append(s, d)) /\ (d.crowded => Newer(i, Append(s, d)))
<1>1. Ordered(s) /\ \A e \in ToSet(s) : ~e.crowded => \E j \in DOMAIN lengths : IsSdu(e.data, j) /\ IsOver(j)'
  BY DEF Good
<1>2. ~d.crowded => d.data[1][1] = i
  <2> SUFFICES ASSUME ~d.crowded PROVE d.data[1][1] = i
    OBVIOUS
  <2>1. PICK n : n = lengths[i]
    OBVIOUS
  <2>2. n \in Nat /\ n > 0 /\ d.data = [k \in 1 .. n |-> <<i, k>>]
    BY <2>1 DEF IsSdu, Sdu
  <2>3. 1 \in 1 .. n
    BY ONLY <2>2
  <2> QED BY ONLY <2>2, <2>3
<1>3. PICK t : t = Append(s, d)
  OBVIOUS
<1>4. Ordered(t) /\ ToSet(t) = ToSet(s) \cup {d} /\ Newer(i + 1, t)
  <2>1. Newer(i, s) /\ i \in Nat /\ d.crowded \in BOOLEAN
    OBVIOUS
  <2>2. Ordered(s)
    BY ONLY <1>1
  <2>3. Ordered(t) /\ Newer(i + 1, t)
    <3>1. \A l, e, j : Ordered(l) /\ e.crowded \in BOOLEAN /\ j \in Nat /\ Newer(j, l) /\ (~e.crowded => e.data[1][1] = j)
                         => Ordered(Append(l, e)) /\ Newer(j + 1, Append(l, e))
      BY ONLY AppendOrdered
    <3> QED BY ONLY <1>2, <1>3, <2>1, <2>2, <3>1
  <2>4. ToSet(Append(s, d)) = ToSet(s) \cup {d}
    <3>1. PICK S : S = ToSet(s) \cup {d}
      OBVIOUS
    <3>2. s \in Seq(S) /\ d \in S
      BY ONLY <2>2, <3>1, SeqMonotonic DEF Ordered
    <3>3. ToSet(t) = S
      BY ONLY <1>3, <3>1, <3>2, AppendToSet
    <3> QED BY ONLY <1>3, <3>1, <3>3
  <2> QED BY ONLY <1>3, <2>3, <2>4
<1>5. Good(t)
  <2>1. ASSUME NEW e \in ToSet(t), ~e.crowded PROVE \E j \in DOMAIN lengths : IsSdu(e.data, j) /\ IsOver(j)'
    <3>1. CASE e \in ToSet(s)
      BY ONLY <1>1, <2>1, <3>1
    <3>2. CASE e = d
      <4>1. i \in DOMAIN lengths /\ IsSdu(d.data, i) /\ IsOver(i)'
        BY <2>1, <3>2
      <4> QED BY ONLY <3>2, <4>1
    <3> QED BY ONLY <1>4, <2>1, <3>1, <3>2
  <2> QED BY ONLY <1>4, <2>1 DEF Good
<1>6. d.crowded => Newer(i, t)
  BY <1>4 DEF Newer
<1> QED BY ONLY <1>3, <1>4, <1>5, <1>6

\* The first piece, when it ends its SDU.
LEMMA FirstGoes ==
  ASSUME Queued, DeliveredRight, buf # <<>>, NEW c, NEW m, NEW r, Takes(c, m, r), Gone + 1 <= Gone',
         NEW f,
         \/ f = <<>> /\ Broken
         \/ \E d : /\ f = <<d>> /\ d.crowded \in BOOLEAN
                   /\ d.crowded => Broken
                   /\ ~d.crowded => Start(d, LeftOf(1))
  PROVE  \E s : /\ Gives(f, s) /\ Good(s) /\ Newer(Gone + 2, s) /\ ToSet(delivered) \subseteq ToSet(s)
                /\ Broken \/ \E x \in ToSet(s) : IsSdu(x.data, Gone + 1)
<1>1. Good(delivered)
  BY ONLY Queued, DeliveredRight, buf # <<>>, Takes(c, m, r), GoodBefore
<1>2. Newer(Gone + 2, delivered)
  BY ONLY Queued, DeliveredRight, AllNewer
<1>3. CASE f = <<>> /\ Broken
  <2>1. Gives(f, delivered)
    BY ONLY <1>3 DEF Gives
  <2> QED BY ONLY <1>1, <1>2, <1>3, <2>1
<1>4. ASSUME NEW d, f = <<d>>, d.crowded \in BOOLEAN, d.crowded => Broken, ~d.crowded => Start(d, LeftOf(1))
      PROVE  \E s : /\ Gives(f, s) /\ Good(s) /\ Newer(Gone + 2, s) /\ ToSet(delivered) \subseteq ToSet(s)
                    /\ Broken \/ \E x \in ToSet(s) : IsSdu(x.data, Gone + 1)
  <2>1. PICK s, g : s = Append(delivered, d) /\ g = Gone
    OBVIOUS
  <2>2. Gives(f, s)
    BY ONLY <1>4, <2>1 DEF Gives
  <2>3. /\ g \in Nat /\ g + 1 \in DOMAIN lengths /\ lengths[g + 1] \in Nat /\ lengths[g + 1] > 0
        /\ LeftOf(1) = lengths[g + 1] - Ahead /\ Ahead \in Nat
    BY ONLY Queued, buf # <<>>, Takes(c, m, r), <2>1, TakesNumbers
  <2>4. g + 1 \in Nat /\ g + 2 \in Nat /\ g + 1 > 0 /\ g + 1 + 1 = g + 2
    BY ONLY <2>3
  <2>5. CASE d.crowded
    <3>1. PICK h : h = g + 2
      OBVIOUS
    <3>2. h \in Nat /\ Newer(h, delivered) /\ d.crowded = TRUE /\ d.crowded \in BOOLEAN
      BY ONLY <1>2, <1>4, <2>1, <2>4, <2>5, <3>1
    <3>3. Good(s) /\ ToSet(s) = ToSet(delivered) \cup {d} /\ Newer(h, s)
      BY ONLY <1>1, <2>1, <3>2, GoodAppend
    <3>4. ToSet(delivered) \subseteq ToSet(s) /\ Broken
      BY ONLY <1>4, <3>2, <3>3
    <3>5. Newer(Gone + 2, s)
      BY ONLY <2>1, <3>1, <3>3
    <3> QED BY ONLY <2>2, <3>3, <3>4, <3>5
  <2>6. CASE ~d.crowded
    <3>1. d.data = Sdu(g + 1, Ahead + LeftOf(1)) /\ Newer(g + 1, delivered)
      BY ONLY <1>4, <2>1, <2>6 DEF Start
    <3>2. IsSdu(d.data, g + 1)
      <4>1. Ahead + LeftOf(1) = lengths[g + 1]
        BY ONLY <2>3
      <4> QED BY ONLY <3>1, <4>1 DEF IsSdu
    <3>3. IsOver(g + 1)'
      <4>1. g + 1 <= Gone'
        BY <2>1
      <4> QED BY ONLY <4>1 DEF IsOver
    <3>4. Good(s) /\ ToSet(s) = ToSet(delivered) \cup {d} /\ Newer(g + 1 + 1, s)
      <4>1. g + 1 \in DOMAIN lengths /\ lengths[g + 1] \in Nat /\ lengths[g + 1] > 0
        BY ONLY <2>3
      <4>2. Newer(g + 1, delivered)
        BY ONLY <3>1
      <4>3. PICK h : h = g + 1
        OBVIOUS
      <4>4. h \in Nat /\ h \in DOMAIN lengths /\ h > 0 /\ lengths[h] \in Nat /\ lengths[h] > 0 /\ IsSdu(d.data, h)
            /\ IsOver(h)' /\ Newer(h, delivered)
        BY ONLY <2>4, <3>2, <3>3, <4>1, <4>2, <4>3
      <4>5. Good(s) /\ ToSet(s) = ToSet(delivered) \cup {d} /\ Newer(h + 1, s)
        BY ONLY <1>1, <1>4, <2>1, <4>4, GoodAppend
      <4> QED BY ONLY <4>3, <4>5
    <3>5. d \in ToSet(s) /\ ToSet(delivered) \subseteq ToSet(s)
      BY ONLY <3>4
    <3> QED BY ONLY <2>1, <2>2, <2>4, <3>2, <3>4, <3>5
  <2> QED BY ONLY <1>4, <2>5, <2>6
<1> QED BY ONLY <1>3, <1>4,
         \/ f = <<>> /\ Broken
         \/ \E d : /\ f = <<d>> /\ d.crowded \in BOOLEAN
                   /\ d.crowded => Broken
                   /\ ~d.crowded => Start(d, LeftOf(1))

\* A unit brings no octet of what was sent before it.
FromHere(new) ==
  \A o \in new : o \in Octet /\ ((o[1] = Gone + 1 /\ o[2] > Ahead) \/ o[1] > Gone + 1)

LEMMA WasThere ==
  ASSUME Gone \in Nat, Ahead \in Nat, NEW new, arrived' = arrived \cup new, FromHere(new),
         NEW i \in Nat, NEW n \in Nat, NEW k \in Nat, k <= n, Arrived(i, n)',
         i <= Gone \/ (i = Gone + 1 /\ k <= Ahead)
  PROVE  Arrived(i, k)
<1>1. PICK g, a : g = Gone /\ a = Ahead
  OBVIOUS
<1>2. g \in Nat /\ a \in Nat /\ k <= n /\ (i <= g \/ (i = g + 1 /\ k <= a))
  BY <1>1
<1>3. ASSUME NEW j \in 1 .. k PROVE <<i, j>> \in arrived
  <2>1. PICK o : o = <<i, j>>
    OBVIOUS
  <2>2. o[1] = i /\ o[2] = j
    BY ONLY <2>1
  <2>3. o \in arrived'
    <3>1. ToSet(Sdu(i, n)) \subseteq arrived'
      BY DEF Arrived
    <3>2. ToSet(Sdu(i, n)) = {<<i, x>> : x \in 1 .. n}
      BY DEF ToSet, Sdu
    <3>3. j \in 1 .. n
      BY ONLY <1>2, j \in 1 .. k, k \in Nat, n \in Nat
    <3> QED BY ONLY <2>1, <3>1, <3>2, <3>3
  <2>4. o \notin new
    <3> SUFFICES ASSUME o \in new PROVE FALSE
      OBVIOUS
    <3>1. (o[1] = g + 1 /\ o[2] > a) \/ o[1] > g + 1
      BY ONLY FromHere(new), o \in new, <1>1 DEF FromHere
    <3>2. (i = g + 1 /\ j > a) \/ i > g + 1
      BY ONLY <2>2, <3>1
    <3> QED BY ONLY <1>2, <3>2, j \in 1 .. k, i \in Nat, k \in Nat
  <2> QED BY <2>1, <2>3, <2>4
<1> QED BY ONLY <1>3, i \in Nat, k \in Nat, OctetsOfSdu

\* What arrived of SDUs that had left the queue was delivered; and so was an SDU whose
\* start did not come if all of it arrived.
LEMMA OldDelivered ==
  ASSUME Queued, ArrivedRight, lengths' = lengths, ToSet(delivered) \subseteq ToSet(delivered'),
         NEW new, arrived' = arrived \cup new, FromHere(new), NEW i \in 1 .. Gone, Arrived(i, lengths[i])'
  PROVE  Delivered(i)'
<1>1. Gone \in Nat /\ Ahead \in Nat /\ \A j \in DOMAIN lengths : lengths[j] \in Nat
  BY ONLY Queued, QueuedNumbers
<1>2. i \in DOMAIN lengths
  <2>1. lengths \in Seq(Lengths)
    BY DEF Queued
  <2>2. PICK n : n = Len(lengths) /\ n \in Nat /\ DOMAIN lengths = 1 .. n
    BY ONLY <2>1, LenProperties
  <2>3. PICK b : b = Len(buf) /\ b \in Nat /\ b = n - Gone
    BY ONLY Queued, <2>2, QueuedNumbers
  <2>4. i \in 1 .. n
    BY ONLY i \in 1 .. Gone, <1>1, <2>2, <2>3
  <2> QED BY ONLY <2>2, <2>4
<1>3. i \in Nat /\ i <= Gone /\ lengths[i] \in Nat /\ lengths[i] <= lengths[i]
  BY ONLY <1>1, <1>2, i \in 1 .. Gone
<1>4. Arrived(i, lengths[i])
  <2>1. PICK n : n = lengths[i]
    OBVIOUS
  <2>2. n \in Nat /\ n <= n
    BY ONLY <1>3, <2>1
  <2>3. Arrived(i, n)'
    BY ONLY <2>1, lengths' = lengths, Arrived(i, lengths[i])' DEF Arrived
  <2>4. Arrived(i, n)
    BY ONLY <1>1, <1>3, <2>2, <2>3, arrived' = arrived \cup new, FromHere(new), WasThere
  <2> QED BY ONLY <2>1, <2>4
<1>5. Delivered(i)
  BY ONLY ArrivedRight, i \in 1 .. Gone, <1>4 DEF ArrivedRight
<1> QED BY ONLY <1>5, lengths' = lengths, ToSet(delivered) \subseteq ToSet(delivered') DEF Delivered, IsSdu

LEMMA BrokenDelivered ==
  ASSUME Queued, Broken, lengths' = lengths, ToSet(delivered) \subseteq ToSet(delivered'),
         NEW new, arrived' = arrived \cup new, FromHere(new),
         NEW n \in Nat, Ahead <= n, NEW g, g = Gone + 1, Arrived(g, n)'
  PROVE  Ahead = lengths[g] /\ Delivered(g)'
<1>1. Gone \in Nat /\ Ahead \in Nat
  BY ONLY Queued, QueuedNumbers
<1>2. Arrived(g, Ahead)
  <2>1. PICK a : a = Ahead
    OBVIOUS
  <2>2. g \in Nat /\ a \in Nat /\ a <= n /\ (g <= Gone \/ (g = Gone + 1 /\ a <= Ahead))
    BY <1>1, <2>1
  <2>3. Arrived(g, a)
    BY ONLY <1>1, <2>2, n \in Nat, Arrived(g, n)', arrived' = arrived \cup new, FromHere(new), WasThere
  <2> QED BY ONLY <2>1, <2>3
<1>3. Ahead = lengths[g] /\ Delivered(g)
  BY ONLY Broken, g = Gone + 1, <1>2 DEF Broken
<1>4. Delivered(g)'
  BY ONLY <1>3, lengths' = lengths, ToSet(delivered) \subseteq ToSet(delivered') DEF Delivered, IsSdu
<1> QED BY ONLY <1>3, <1>4

\* The second piece follows the first, or its start is kept.
LEMMA SecondGoes ==
  ASSUME Ordered(delivered), NEW u, Reassemble(u), u.sn = sn, u.FIsecond \in BOOLEAN,
         NEW s, Gives(First(u), s), NEW e, Second(u) = <<e>>
  PROVE  IF u.FIsecond THEN delivered' = s /\ left' = KeptOf(e)
                       ELSE delivered' = Append(s, e) /\ left' = NothingLeft
<1>1. CASE First(u) = <<>> /\ s = delivered
  <2>1. \/ First(u) = <<>> /\ Second(u) = <<e>>
        \/ First(u) = <<e>> /\ Second(u) = <<>>
    BY <1>1
  <2>2. IF u.FIsecond THEN delivered' = delivered /\ left' = KeptOf(e)
                      ELSE delivered' = Append(delivered, e) /\ left' = NothingLeft
    BY ONLY Ordered(delivered), Reassemble(u), u.sn = sn, u.FIsecond \in BOOLEAN, <2>1, OnePiece
  <2> QED BY ONLY <1>1, <2>2
<1>2. ASSUME NEW d, First(u) = <<d>>, s = Append(delivered, d)
      PROVE  IF u.FIsecond THEN delivered' = s /\ left' = KeptOf(e)
                           ELSE delivered' = Append(s, e) /\ left' = NothingLeft
  <2>1. IF u.FIsecond THEN delivered' = Append(delivered, d) /\ left' = KeptOf(e)
                      ELSE delivered' = Append(Append(delivered, d), e) /\ left' = NothingLeft
    BY ONLY Ordered(delivered), Reassemble(u), u.sn = sn, u.FIsecond \in BOOLEAN, <1>2, Second(u) = <<e>>, TwoPieces
  <2> QED BY ONLY <1>2, <2>1
<1> QED BY ONLY Gives(First(u), s), <1>1, <1>2 DEF Gives

\* A unit of more than two SDUs puts nothing but suspect pieces in the list.
LEMMA ArrivalOfMany ==
  ASSUME Queued, Unsent, LeftRight, DeliveredRight, ArrivedRight, buf # <<>>,
         NEW c, NEW m, NEW r, Takes(c, m, r), c > 2,
         NEW u, u.sn = sn, u.FIsecond \in BOOLEAN, u.LI = [i \in 1 .. c - 1 |-> Length(i)],
         Reassemble(u), missing' = 0, sn' = (sn + 1) % Mod
  PROVE  Unsent' /\ LeftRight' /\ DeliveredRight' /\ ArrivedRight'
<1>1. c \in Nat /\ lengths' = lengths
  BY DEF Takes
<1>2. Ordered(delivered) /\ Good(delivered)
  <2>1. Good(delivered)
    BY ONLY Queued, DeliveredRight, buf # <<>>, Takes(c, m, r), GoodBefore
  <2> QED BY ONLY <2>1 DEF Good
<1>3. PICK h : h = Gone + 2 /\ h \in Nat
  BY ONLY Queued, QueuedNumbers
<1>4. Newer(h, delivered)
  BY ONLY Queued, DeliveredRight, <1>3, AllNewer
<1>5. ASSUME NEW s, Good(s), Newer(h, s), NEW d, d.crowded = TRUE
      PROVE  Good(Append(s, d)) /\ Newer(h, Append(s, d)) /\ ToSet(s) \subseteq ToSet(Append(s, d))
  <2>1. PICK t : t = Append(s, d)
    OBVIOUS
  <2>2. h \in Nat /\ Good(s) /\ Newer(h, s) /\ d.crowded = TRUE /\ d.crowded \in BOOLEAN
    BY ONLY <1>3, <1>5
  <2>3. Good(t) /\ ToSet(t) = ToSet(s) \cup {d} /\ Newer(h, t)
    BY ONLY <2>1, <2>2, GoodAppend
  <2>4. ToSet(s) \subseteq ToSet(t)
    BY ONLY <2>3
  <2> QED BY ONLY <2>1, <2>3, <2>4
<1>6. /\ Crowded(u) = TRUE
      /\ First(u) = <<>> \/ \E d : First(u) = <<d>> /\ d.crowded = TRUE
      /\ \E e : Second(u) = <<e>> /\ e.crowded = TRUE
  BY ONLY LeftRight, <1>1, c > 2, u.LI = [i \in 1 .. c - 1 |-> Length(i)], PiecesOfMany
<1>7. PICK s : Gives(First(u), s) /\ Good(s) /\ Newer(h, s) /\ ToSet(delivered) \subseteq ToSet(s)
  <2>1. CASE First(u) = <<>>
    BY ONLY <1>2, <1>4, <2>1 DEF Gives
  <2>2. CASE \E d : First(u) = <<d>> /\ d.crowded = TRUE
    <3>1. PICK d : First(u) = <<d>> /\ d.crowded = TRUE
      BY ONLY <2>2
    <3>2. Good(Append(delivered, d)) /\ Newer(h, Append(delivered, d)) /\ ToSet(delivered) \subseteq ToSet(Append(delivered, d))
      BY ONLY <1>2, <1>4, <1>5, <3>1
    <3>3. Gives(First(u), Append(delivered, d))
      BY ONLY <3>1 DEF Gives
    <3> QED BY ONLY <3>2, <3>3
  <2> QED BY ONLY <1>6, <2>1, <2>2
<1>8. PICK e : Second(u) = <<e>> /\ e.crowded = TRUE
  BY ONLY <1>6
<1>9. IF u.FIsecond THEN delivered' = s /\ left' = KeptOf(e)
                    ELSE delivered' = Append(s, e) /\ left' = NothingLeft
  BY ONLY <1>2, <1>7, <1>8, Reassemble(u), u.sn = sn, u.FIsecond \in BOOLEAN, SecondGoes
<1>10. Good(delivered') /\ ToSet(delivered) \subseteq ToSet(delivered')
  <2>1. Good(Append(s, e)) /\ ToSet(s) \subseteq ToSet(Append(s, e))
    BY ONLY <1>5, <1>7, <1>8
  <2> QED BY ONLY <1>7, <1>9, <2>1
<1>11. DeliveredRight'
  BY ONLY <1>1, <1>10, GoodAfter
<1>12. LeftRight'
  <2>1. CASE u.FIsecond
    <3>1. left' = KeptOf(e)
      BY ONLY <1>9, <2>1
    <3>2. left'.sn = sn /\ left'.crowded = TRUE
      BY ONLY <1>8, <3>1 DEF KeptOf
    <3>3. /\ left'.crowded \in BOOLEAN
          /\ ~left'.crowded => (\E i \in DOMAIN lengths : \E k \in 1 .. lengths[i] : KeptStart(i, k))'
      BY ONLY <3>2
    <3> QED BY ONLY LeftRight, missing' = 0, sn' = (sn + 1) % Mod, <3>2, <3>3, LeftWhenKept
  <2>2. CASE ~u.FIsecond
    <3>1. left' = NothingLeft
      BY ONLY <1>9, <2>2
    <3> QED BY ONLY LeftRight, missing' = 0, sn' = (sn + 1) % Mod, <3>1, LeftWhenNothing
  <2> QED BY ONLY <2>1, <2>2
<1>13. arrived' = arrived
  BY <1>6 DEF Reassemble
<1>14. Unsent' /\ ArrivedRight'
  BY ONLY Queued, Unsent, ArrivedRight, buf # <<>>, Takes(c, m, r), <1>10, <1>13, NothingArrives
<1> QED BY ONLY <1>11, <1>12, <1>14

\* A unit of two SDUs ends the one and starts, or holds all of, the other.
LEMMA ArrivalOfTwo ==
  ASSUME Queued, Unsent, LeftRight, DeliveredRight, ArrivedRight, buf # <<>>,
         NEW m, NEW r, Takes(2, m, r),
         NEW u, u.sn = sn, u.FIfirst <=> Ahead > 0, u.FIsecond \in BOOLEAN, u.FIsecond <=> m < LeftOf(2),
         u.LI = [i \in 1 .. 2 - 1 |-> Length(i)],
         u.data = From(Gone + 1, Ahead, LeftOf(1)) \o From(Gone + 2, 0, m),
         Reassemble(u), missing' = 0, sn' = (sn + 1) % Mod
  PROVE  Unsent' /\ LeftRight' /\ DeliveredRight' /\ ArrivedRight'
<1>1. PICK g, a, l, n, G, A :
        g = Gone /\ a = Ahead /\ l = lengths[g + 1] /\ n = lengths[g + 2] /\ G = Gone' /\ A = Ahead'
  OBVIOUS
<1>2. /\ g \in Nat /\ a \in Nat /\ G \in Nat /\ A \in Nat /\ g + 1 \in DOMAIN lengths /\ l \in Nat /\ l > 0 /\ a <= l
      /\ LeftOf(1) = l - a
  BY ONLY Queued, buf # <<>>, Takes(2, m, r), <1>1, TakesNumbers
<1>3. LeftOf(2) = n /\ n \in Nat /\ n > 0
  <2>1. PICK c : c = 2
    OBVIOUS
  <2>2. Takes(c, m, r)
    BY <2>1
  <2>3. (c > 1 => LeftOf(c) = lengths[Gone + c]) /\ lengths[Gone + c] \in Nat /\ lengths[Gone + c] > 0
    BY ONLY Queued, buf # <<>>, <2>2, TakesNumbers
  <2>4. c > 1
    BY ONLY <2>1
  <2> QED BY ONLY <1>1, <2>1, <2>3, <2>4
<1>4. /\ m \in Nat /\ m > 0 /\ m <= n /\ r \in 0 .. 1 /\ (r = 0 <=> n - m = m) /\ g + 2 \in DOMAIN lengths
      /\ G = g + 2 - r /\ A = (IF r = 0 THEN 0 ELSE m) /\ lengths' = lengths
  <2>1. /\ m \in Nat /\ r \in 0 .. 1 /\ Gone + 2 \in DOMAIN lengths
        /\ m <= LeftOf(2) /\ (LeftOf(2) > 0 => m > 0)
        /\ (IF 2 = 1 THEN r = 0 <=> m = LeftOf(2) ELSE r = 0 <=> LeftOf(2) - m = m)
        /\ Gone' = Gone + 2 - r
        /\ Ahead' = (IF r = 0 THEN 0 ELSE m + IF 2 = 1 THEN Ahead ELSE 0)
        /\ lengths' = lengths
    BY DEF Takes
  <2>2. m + 0 = m
    BY ONLY <2>1
  <2> QED BY ONLY <1>1, <1>3, <2>1, <2>2
<1>5. PICK e, new : e = [data |-> Sdu(g + 2, m), crowded |-> FALSE] /\ new = ToSet(u.data)
  OBVIOUS
<1>6. /\ Crowded(u) = FALSE /\ FirstPiece(u) = From(Gone + 1, Ahead, LeftOf(1)) /\ Second(u) = <<e>>
      /\ \A o \in new : o \in Octet /\ ((o[1] = g + 1 /\ o[2] > a) \/ (o[1] = g + 2 /\ o[2] > 0 /\ o[2] <= m))
  <2>1. m \in Nat
    BY ONLY <1>4
  <2> QED BY ONLY Queued, buf # <<>>, <1>1, <1>5, <2>1, u.LI = [i \in 1 .. 2 - 1 |-> Length(i)],
                  u.data = From(Gone + 1, Ahead, LeftOf(1)) \o From(Gone + 2, 0, m), PiecesOfTwo
<1>7. PICK s : /\ Gives(First(u), s) /\ Good(s) /\ Newer(g + 2, s) /\ ToSet(delivered) \subseteq ToSet(s)
               /\ Broken \/ \E x \in ToSet(s) : IsSdu(x.data, g + 1)
  <2>1. LeftOf(1) \in Nat /\ Gone + 1 \in DOMAIN lengths /\ Gone + 1 <= Gone'
    BY ONLY <1>1, <1>2, <1>4
  <2>2. \/ First(u) = <<>> /\ Broken
        \/ \E d : /\ First(u) = <<d>> /\ d.crowded \in BOOLEAN
                  /\ d.crowded => Broken
                  /\ ~d.crowded => Start(d, LeftOf(1))
    BY ONLY Queued, LeftRight, DeliveredRight, ArrivedRight, u.sn = sn, u.FIfirst <=> Ahead > 0, <1>6, <2>1, FirstOf
  <2>3. \E s : /\ Gives(First(u), s) /\ Good(s) /\ Newer(Gone + 2, s) /\ ToSet(delivered) \subseteq ToSet(s)
               /\ Broken \/ \E x \in ToSet(s) : IsSdu(x.data, Gone + 1)
    BY ONLY Queued, DeliveredRight, buf # <<>>, Takes(2, m, r), <2>1, <2>2, FirstGoes
  <2> QED BY ONLY <1>1, <2>3
<1>8. Ordered(delivered)
  BY DEF DeliveredRight
<1>9. IF u.FIsecond THEN delivered' = s /\ left' = KeptOf(e)
                    ELSE delivered' = Append(s, e) /\ left' = NothingLeft
  BY ONLY <1>6, <1>7, <1>8, Reassemble(u), u.sn = sn, u.FIsecond \in BOOLEAN, SecondGoes
<1>10. arrived' = arrived \cup new
  BY <1>5, <1>6 DEF Reassemble
<1>11. FromHere(new)
  <2>1. \A o \in new : o \in Octet /\ ((o[1] = g + 1 /\ o[2] > a) \/ o[1] > g + 1)
    BY ONLY <1>2, <1>6
  <2> QED BY ONLY <1>1, <2>1 DEF FromHere
<1>12. Unsent'
  <2>1. ASSUME NEW o \in new PROVE o \in Octet /\ (o[1] <= Gone' \/ (o[1] = Gone' + 1 /\ o[2] \in 1 .. Ahead'))
    <3>1. PICK x, y : x = o[1] /\ y = o[2]
      OBVIOUS
    <3>2. o \in Octet /\ (x = g + 1 \/ (x = g + 2 /\ y > 0 /\ y <= m))
      BY ONLY <1>6, <2>1, <3>1
    <3>3. x \in Nat /\ y \in Nat
      BY ONLY <3>1, <3>2 DEF Octet
    <3>4. x <= G \/ (x = G + 1 /\ y \in 1 .. A)
      BY ONLY <1>2, <1>4, <3>2, <3>3
    <3> QED BY ONLY <1>1, <3>1, <3>2, <3>4
  <2> QED BY ONLY Queued, Unsent, buf # <<>>, Takes(2, m, r), <1>10, <2>1, StillUnsent
<1>13. ASSUME ToSet(s) \subseteq ToSet(delivered'), NEW i \in 1 .. g + 1, Arrived(i, lengths[i])' PROVE Delivered(i)'
  <2>1. ToSet(delivered) \subseteq ToSet(delivered')
    BY ONLY <1>7, <1>13
  <2>2. CASE i \in 1 .. g
    <3>1. i \in 1 .. Gone
      BY ONLY <1>1, <2>2
    <3> QED BY ONLY Queued, ArrivedRight, <1>4, <1>10, <1>11, <1>13, <2>1, <3>1, OldDelivered
  <2>3. CASE i = g + 1
    <3>1. CASE Broken
      <4>1. i = Gone + 1 /\ l \in Nat /\ Ahead <= l
        BY ONLY <1>1, <1>2, <2>3
      <4>2. Arrived(i, l)'
        BY ONLY <1>1, <1>4, <1>13, <2>3 DEF Arrived
      <4> QED BY ONLY Queued, <1>4, <1>10, <1>11, <2>1, <3>1, <4>1, <4>2, BrokenDelivered
    <3>2. CASE \E x \in ToSet(s) : IsSdu(x.data, g + 1)
      BY ONLY <1>4, <1>13, <2>3, <3>2 DEF Delivered, IsSdu
    <3> QED BY ONLY <1>7, <3>1, <3>2
  <2>4. i \in 1 .. g \/ i = g + 1
    BY ONLY <1>2, i \in 1 .. g + 1
  <2> QED BY ONLY <2>2, <2>3, <2>4
<1>14. CASE m < n
  <2>1. delivered' = s /\ left' = KeptOf(e)
    BY <1>3, <1>9, <1>14
  <2>2. DeliveredRight'
    BY ONLY <1>4, <1>7, <2>1, GoodAfter
  <2>3. left'.sn = sn /\ left'.crowded = FALSE /\ left'.data = Sdu(g + 2, m)
    BY ONLY <1>5, <2>1 DEF KeptOf
  <2>4. KeptStart(g + 2, m)'
    <3>1. left'.data = Sdu(g + 2, m) /\ m < lengths'[g + 2] /\ Newer(g + 2, delivered')
      BY ONLY <1>1, <1>4, <1>7, <1>14, <2>1, <2>3
    <3>2. g + 2 <= Gone' + 1 /\ (Ahead' > 0 => g + 2 = Gone' + 1 /\ m = Ahead')
      BY ONLY <1>1, <1>2, <1>4
    <3> QED BY ONLY <3>1, <3>2 DEF KeptStart, Newer
  <2>5. LeftRight'
    <3>1. m \in 1 .. lengths'[g + 2] /\ g + 2 \in DOMAIN lengths'
      BY ONLY <1>1, <1>3, <1>4
    <3>2. (\E i \in DOMAIN lengths : \E k \in 1 .. lengths[i] : KeptStart(i, k))'
      BY ONLY <2>4, <3>1
    <3>3. left'.sn = sn /\ left'.crowded \in BOOLEAN
      BY ONLY <2>3
    <3> QED BY ONLY LeftRight, missing' = 0, sn' = (sn + 1) % Mod, <3>2, <3>3, LeftWhenKept
  <2>6. ASSUME NEW i \in 1 .. G, Arrived(i, lengths[i])' PROVE Delivered(i)'
    <3>1. CASE i \in 1 .. g + 1
      BY ONLY <1>13, <2>1, <2>6, <3>1
    <3>2. CASE i = g + 2
      <4>1. PICK o : o = <<g + 2, n>>
        OBVIOUS
      <4>2. o \in arrived'
        <5>1. ToSet(Sdu(g + 2, n)) \subseteq arrived'
          BY ONLY <1>1, <1>4, <2>6, <3>2 DEF Arrived
        <5>2. ToSet(Sdu(g + 2, n)) = {<<g + 2, x>> : x \in 1 .. n}
          BY ONLY TRUE DEF ToSet, Sdu
        <5>3. n \in 1 .. n
          BY ONLY <1>3
        <5> QED BY ONLY <4>1, <5>1, <5>2, <5>3
      <4>3. o[1] = g + 2 /\ o[2] = n
        BY ONLY <4>1
      <4>4. o \notin new
        BY ONLY <1>2, <1>3, <1>4, <1>6, <1>14, <4>3
      <4>5. o \in arrived
        BY ONLY <1>10, <4>2, <4>4
      <4>6. g + 2 \in Nat
        BY ONLY <1>2
      <4>7. g + 2 <= g \/ (g + 2 = g + 1 /\ n <= a)
        BY ONLY Queued, Unsent, <1>1, <1>3, <4>1, <4>5, <4>6, OldArrived
      <4> QED BY ONLY <1>2, <4>7
    <3>3. i \in 1 .. g + 1 \/ i = g + 2
      BY ONLY <1>2, <1>4, i \in 1 .. G
    <3> QED BY ONLY <3>1, <3>2, <3>3
  <2>7. ASSUME A > 0
        PROVE  A < lengths'[G + 1] /\ left'.sn # None /\ missing' = 0 /\ ~left'.crowded /\ left'.data = Sdu(G + 1, A)
    <3>1. A = m /\ G + 1 = g + 2
      BY ONLY <1>2, <1>4, <2>7
    <3>2. left'.sn # None
      <4>1. sn \in 0 .. Mod - 1
        BY DEF LeftRight
      <4> QED BY ONLY <2>3, <4>1 DEF None
    <3> QED BY ONLY <1>1, <1>4, <1>14, <2>3, <3>1, <3>2, missing' = 0
  <2>8. ArrivedRight'
    BY ONLY <1>1, <2>6, <2>7 DEF ArrivedRight
  <2> QED BY ONLY <1>12, <2>2, <2>5, <2>8
<1>15. CASE m = n
  <2>1. delivered' = Append(s, e) /\ left' = NothingLeft
    BY <1>3, <1>4, <1>9, <1>15
  <2>2. r = 1 /\ G + 1 = g + 2 /\ A = n
    BY ONLY <1>2, <1>4, <1>15
  <2>3. PICK i : i = g + 2
    OBVIOUS
  <2>4. IsOver(i)' /\ IsSdu(e.data, i) /\ IsSdu(e.data, i)'
    <3>1. i = Gone' + 1 /\ Ahead' > 0 /\ Ahead' = lengths'[i]
      BY ONLY <1>1, <1>4, <1>15, <2>2, <2>3
    <3>2. e.data = Sdu(i, n) /\ n = lengths[i] /\ lengths' = lengths
      BY ONLY <1>1, <1>4, <1>5, <1>15, <2>3
    <3> QED BY ONLY <3>1, <3>2 DEF IsOver, IsSdu
  <2>5. Good(delivered') /\ ToSet(delivered') = ToSet(s) \cup {e}
    <3>1. i \in Nat /\ i > 0 /\ i \in DOMAIN lengths /\ lengths[i] \in Nat /\ lengths[i] > 0 /\ Newer(i, s)
      BY ONLY <1>1, <1>2, <1>3, <1>4, <1>7, <2>3
    <3>2. e.crowded = FALSE /\ e.crowded \in BOOLEAN
      BY ONLY <1>5
    <3>3. PICK t : t = Append(s, e)
      OBVIOUS
    <3>4. Good(t) /\ ToSet(t) = ToSet(s) \cup {e}
      BY ONLY <1>7, <2>4, <3>1, <3>2, <3>3, GoodAppend
    <3> QED BY ONLY <2>1, <3>3, <3>4
  <2>6. ToSet(s) \subseteq ToSet(delivered') /\ e \in ToSet(delivered')
    BY ONLY <2>5
  <2>7. DeliveredRight'
    BY ONLY <1>4, <2>5, GoodAfter
  <2>8. LeftRight'
    BY ONLY LeftRight, missing' = 0, sn' = (sn + 1) % Mod, <2>1, LeftWhenNothing
  <2>9. Delivered(i)'
    BY ONLY <2>4, <2>6 DEF Delivered
  <2>10. ASSUME NEW j \in 1 .. G, Arrived(j, lengths[j])' PROVE Delivered(j)'
    <3>1. j \in 1 .. g + 1
      BY ONLY <1>2, <2>2, j \in 1 .. G
    <3> QED BY ONLY <1>13, <2>6, <2>10, <3>1
  <2>11. A = lengths'[G + 1] /\ Delivered(G + 1)'
    BY ONLY <1>1, <1>4, <2>2, <2>3, <2>9
  <2>12. ArrivedRight'
    BY ONLY <1>1, <2>10, <2>11 DEF ArrivedRight
  <2> QED BY ONLY <1>12, <2>7, <2>8, <2>12
<1>16. m < n \/ m = n
  BY ONLY <1>3, <1>4
<1> QED BY ONLY <1>14, <1>15, <1>16

\* A unit of one SDU ends it, or holds a stretch of it.
LEMMA ArrivalOfOne ==
  ASSUME Queued, Unsent, LeftRight, DeliveredRight, ArrivedRight, buf # <<>>,
         NEW m, NEW r, Takes(1, m, r),
         NEW u, u.sn = sn, u.FIfirst <=> Ahead > 0, u.FIsecond \in BOOLEAN, u.FIsecond <=> m < LeftOf(1),
         u.LI = [i \in 1 .. 1 - 1 |-> Length(i)], u.data = From(Gone + 1, Ahead, m),
         Reassemble(u), missing' = 0, sn' = (sn + 1) % Mod
  PROVE  Unsent' /\ LeftRight' /\ DeliveredRight' /\ ArrivedRight'
<1>1. PICK g, a, l, G, A : g = Gone /\ a = Ahead /\ l = lengths[g + 1] /\ G = Gone' /\ A = Ahead'
  OBVIOUS
<1>2. /\ g \in Nat /\ a \in Nat /\ G \in Nat /\ A \in Nat /\ g + 1 \in DOMAIN lengths /\ l \in Nat /\ l > 0 /\ a <= l
      /\ LeftOf(1) = l - a
  BY ONLY Queued, buf # <<>>, Takes(1, m, r), <1>1, TakesNumbers
<1>3. /\ m \in Nat /\ m <= l - a /\ (l - a > 0 => m > 0) /\ r \in 0 .. 1 /\ (r = 0 <=> m = l - a)
      /\ G = g + 1 - r /\ A = (IF r = 0 THEN 0 ELSE m + a) /\ lengths' = lengths
  <2>1. /\ m \in Nat /\ r \in 0 .. 1
        /\ m <= LeftOf(1) /\ (LeftOf(1) > 0 => m > 0)
        /\ (IF 1 = 1 THEN r = 0 <=> m = LeftOf(1) ELSE r = 0 <=> LeftOf(1) - m = m)
        /\ Gone' = Gone + 1 - r
        /\ Ahead' = (IF r = 0 THEN 0 ELSE m + IF 1 = 1 THEN Ahead ELSE 0)
        /\ lengths' = lengths
    BY DEF Takes
  <2> QED BY ONLY <1>1, <1>2, <2>1
<1>4. PICK new : new = ToSet(u.data)
  OBVIOUS
<1>5. /\ Crowded(u) = FALSE /\ FirstPiece(u) = From(Gone + 1, Ahead, m) /\ Second(u) = <<>>
      /\ \A o \in new : o \in Octet /\ o[1] = g + 1 /\ o[2] > a /\ o[2] <= a + m
  <2>1. m \in Nat
    BY ONLY <1>3
  <2> QED BY ONLY Queued, buf # <<>>, <1>1, <1>4, <2>1, u.LI = [i \in 1 .. 1 - 1 |-> Length(i)],
                  u.data = From(Gone + 1, Ahead, m), PieceOfOne
<1>6. \/ First(u) = <<>> /\ Broken
      \/ \E d : /\ First(u) = <<d>> /\ d.crowded \in BOOLEAN
                /\ d.crowded => Broken
                /\ ~d.crowded => Start(d, m)
  <2>1. m \in Nat /\ Gone + 1 \in DOMAIN lengths
    BY ONLY <1>1, <1>2, <1>3
  <2> QED BY ONLY Queued, LeftRight, DeliveredRight, ArrivedRight, u.sn = sn, u.FIfirst <=> Ahead > 0, <1>5, <2>1, FirstOf
<1>7. Ordered(delivered) /\ Good(delivered)
  <2>1. Good(delivered)
    BY ONLY Queued, DeliveredRight, buf # <<>>, Takes(1, m, r), GoodBefore
  <2> QED BY ONLY <2>1 DEF Good
<1>8. arrived' = arrived \cup new
  BY <1>4, <1>5 DEF Reassemble
<1>9. FromHere(new)
  <2>1. \A o \in new : o \in Octet /\ ((o[1] = g + 1 /\ o[2] > a) \/ o[1] > g + 1)
    BY ONLY <1>2, <1>5
  <2> QED BY ONLY <1>1, <2>1 DEF FromHere
<1>10. Unsent'
  <2>1. ASSUME NEW o \in new PROVE o \in Octet /\ (o[1] <= Gone' \/ (o[1] = Gone' + 1 /\ o[2] \in 1 .. Ahead'))
    <3>1. PICK x, y : x = o[1] /\ y = o[2]
      OBVIOUS
    <3>2. o \in Octet /\ x = g + 1 /\ y > a /\ y <= a + m
      BY ONLY <1>5, <2>1, <3>1
    <3>3. x \in Nat /\ y \in Nat
      BY ONLY <3>1, <3>2 DEF Octet
    <3>4. x <= G \/ (x = G + 1 /\ y \in 1 .. A)
      BY ONLY <1>2, <1>3, <3>2, <3>3
    <3> QED BY ONLY <1>1, <3>1, <3>2, <3>4
  <2> QED BY ONLY Queued, Unsent, buf # <<>>, Takes(1, m, r), <1>8, <2>1, StillUnsent
<1>11. CASE m < l - a
  <2>1. u.FIsecond /\ r = 1 /\ G = g /\ A = a + m /\ m > 0 /\ A > 0 /\ A < l
    BY <1>2, <1>3, <1>11
  <2>2. delivered' = delivered
    <3>1. CASE First(u) = <<>>
      BY ONLY <1>5, <1>7, <3>1, Reassemble(u), NoPieces
    <3>2. ASSUME NEW d, First(u) = <<d>> PROVE delivered' = delivered
      BY ONLY <1>5, <1>7, <2>1, <3>2, Reassemble(u), u.sn = sn, u.FIsecond \in BOOLEAN, OnePiece
    <3> QED BY ONLY <1>6, <3>1, <3>2
  <2>3. DeliveredRight'
    <3>1. Good(delivered')
      BY ONLY <1>7, <2>2
    <3> QED BY ONLY <1>3, <3>1, GoodAfter
  <2>4. \/ left' = NothingLeft /\ Broken
        \/ left'.sn = sn /\ left'.crowded = TRUE /\ Broken
        \/ left'.sn = sn /\ left'.crowded = FALSE /\ left'.data = Sdu(g + 1, A) /\ Newer(g + 1, delivered')
    <3>1. CASE First(u) = <<>> /\ Broken
      BY ONLY <1>5, <1>7, <3>1, Reassemble(u), NoPieces
    <3>2. ASSUME NEW d, First(u) = <<d>>, d.crowded \in BOOLEAN, d.crowded => Broken, ~d.crowded => Start(d, m)
          PROVE  \/ left'.sn = sn /\ left'.crowded = TRUE /\ Broken
                 \/ left'.sn = sn /\ left'.crowded = FALSE /\ left'.data = Sdu(g + 1, A) /\ Newer(g + 1, delivered')
      <4>1. left' = KeptOf(d)
        BY ONLY <1>5, <1>7, <2>1, <3>2, Reassemble(u), u.sn = sn, u.FIsecond \in BOOLEAN, OnePiece
      <4>2. left'.sn = sn /\ left'.crowded = d.crowded /\ left'.data = d.data
        BY ONLY <4>1 DEF KeptOf
      <4>3. ASSUME ~d.crowded PROVE d.data = Sdu(g + 1, A) /\ Newer(g + 1, delivered')
        BY ONLY <1>1, <2>1, <2>2, <3>2, <4>3 DEF Start
      <4>4. d.crowded = TRUE \/ d.crowded = FALSE
        BY ONLY <3>2
      <4> QED BY ONLY <3>2, <4>2, <4>3, <4>4
    <3> QED BY ONLY <1>6, <3>1, <3>2
  <2>5. ASSUME left'.sn = sn, left'.crowded = FALSE, left'.data = Sdu(g + 1, A), Newer(g + 1, delivered')
        PROVE  (\E i \in DOMAIN lengths : \E k \in 1 .. lengths[i] : KeptStart(i, k))'
    <3>1. left'.data = Sdu(g + 1, A) /\ A < lengths'[g + 1] /\ Newer(g + 1, delivered')
      BY ONLY <1>1, <1>3, <2>1, <2>5
    <3>2. g + 1 <= Gone' + 1 /\ (Ahead' > 0 => g + 1 = Gone' + 1 /\ A = Ahead')
      BY ONLY <1>1, <1>2, <2>1
    <3>3. KeptStart(g + 1, A)'
      BY ONLY <3>1, <3>2 DEF KeptStart, Newer
    <3>4. A \in 1 .. lengths'[g + 1] /\ g + 1 \in DOMAIN lengths'
      BY ONLY <1>1, <1>2, <1>3, <2>1
    <3> QED BY ONLY <3>3, <3>4
  <2>6. LeftRight'
    <3>1. CASE left' = NothingLeft
      BY ONLY LeftRight, missing' = 0, sn' = (sn + 1) % Mod, <3>1, LeftWhenNothing
    <3>2. CASE left'.sn = sn /\ left'.crowded = TRUE
      <4>1. /\ left'.sn = sn /\ left'.crowded \in BOOLEAN
            /\ ~left'.crowded => (\E i \in DOMAIN lengths : \E k \in 1 .. lengths[i] : KeptStart(i, k))'
        BY ONLY <3>2
      <4> QED BY ONLY LeftRight, missing' = 0, sn' = (sn + 1) % Mod, <4>1, LeftWhenKept
    <3>3. CASE left'.sn = sn /\ left'.crowded = FALSE /\ left'.data = Sdu(g + 1, A) /\ Newer(g + 1, delivered')
      <4>1. (\E i \in DOMAIN lengths : \E k \in 1 .. lengths[i] : KeptStart(i, k))'
        BY ONLY <2>5, <3>3
      <4>2. left'.sn = sn /\ left'.crowded \in BOOLEAN
        BY ONLY <3>3
      <4> QED BY ONLY LeftRight, missing' = 0, sn' = (sn + 1) % Mod, <4>1, <4>2, LeftWhenKept
    <3> QED BY ONLY <2>4, <3>1, <3>2, <3>3
  <2>7. ASSUME NEW i \in 1 .. G, Arrived(i, lengths[i])' PROVE Delivered(i)'
    <3>1. i \in 1 .. Gone
      BY ONLY <1>1, <2>1, i \in 1 .. G
    <3>2. ToSet(delivered) \subseteq ToSet(delivered')
      BY ONLY <2>2
    <3> QED BY ONLY Queued, ArrivedRight, <1>3, <1>8, <1>9, <2>7, <3>1, <3>2, OldDelivered
  <2>8. ASSUME Arrived(G + 1, A)'
        PROVE  A < lengths'[G + 1] /\ left'.sn # None /\ missing' = 0 /\ ~left'.crowded /\ left'.data = Sdu(G + 1, A)
    <3>1. ~Broken
      <4> SUFFICES ASSUME Broken PROVE FALSE
        OBVIOUS
      <4>1. PICK h : h = g + 1
        OBVIOUS
      <4>2. h = Gone + 1 /\ A \in Nat /\ Ahead <= A
        BY ONLY <1>1, <1>2, <1>3, <2>1, <4>1
      <4>3. Arrived(h, A)'
        BY ONLY <2>1, <2>8, <4>1
      <4>4. ToSet(delivered) \subseteq ToSet(delivered')
        BY ONLY <2>2
      <4>5. Ahead = lengths[h]
        BY ONLY Queued, Broken, <1>3, <1>8, <1>9, <4>2, <4>3, <4>4, BrokenDelivered
      <4> QED BY ONLY <1>1, <1>2, <1>3, <2>1, <4>1, <4>5
    <3>2. left'.sn = sn /\ left'.crowded = FALSE /\ left'.data = Sdu(g + 1, A)
      BY ONLY <2>4, <3>1
    <3>3. left'.sn # None
      <4>1. sn \in 0 .. Mod - 1
        BY DEF LeftRight
      <4> QED BY ONLY <3>2, <4>1 DEF None
    <3> QED BY ONLY <1>1, <1>3, <2>1, <3>2, <3>3, missing' = 0
  <2>9. ArrivedRight'
    BY ONLY <1>1, <2>7, <2>8 DEF ArrivedRight
  <2> QED BY ONLY <1>10, <2>3, <2>6, <2>9
<1>12. CASE m = l - a
  <2>1. ~u.FIsecond /\ r = 0 /\ G = g + 1 /\ A = 0
    BY <1>2, <1>3, <1>12
  <2>2. PICK s : /\ Gives(First(u), s) /\ Good(s) /\ Newer(Gone + 2, s) /\ ToSet(delivered) \subseteq ToSet(s)
                 /\ Broken \/ \E x \in ToSet(s) : IsSdu(x.data, Gone + 1)
    <3>1. Gone + 1 <= Gone'
      BY ONLY <1>1, <1>2, <2>1
    <3>2. m = LeftOf(1)
      BY ONLY <1>2, <1>12
    <3>3. \/ First(u) = <<>> /\ Broken
          \/ \E d : /\ First(u) = <<d>> /\ d.crowded \in BOOLEAN
                    /\ d.crowded => Broken
                    /\ ~d.crowded => Start(d, LeftOf(1))
      BY ONLY <1>6, <3>2
    <3> QED BY ONLY Queued, DeliveredRight, buf # <<>>, Takes(1, m, r), <3>1, <3>3, FirstGoes
  <2>3. delivered' = s /\ left' = NothingLeft
    <3>1. CASE First(u) = <<>> /\ s = delivered
      BY ONLY <1>5, <1>7, <3>1, Reassemble(u), NoPieces
    <3>2. ASSUME NEW d, First(u) = <<d>>, s = Append(delivered, d) PROVE delivered' = s /\ left' = NothingLeft
      <4>1. delivered' = Append(delivered, d) /\ left' = NothingLeft
        BY ONLY <1>5, <1>7, <2>1, <3>2, Reassemble(u), u.sn = sn, u.FIsecond \in BOOLEAN, OnePiece
      <4> QED BY ONLY <3>2, <4>1
    <3>3. Gives(First(u), s)
      BY ONLY <2>2
    <3> QED BY ONLY <3>1, <3>2, <3>3 DEF Gives
  <2>4. DeliveredRight'
    <3>1. Good(delivered')
      BY ONLY <2>2, <2>3
    <3> QED BY ONLY <1>3, <3>1, GoodAfter
  <2>5. LeftRight'
    BY ONLY LeftRight, missing' = 0, sn' = (sn + 1) % Mod, <2>3, LeftWhenNothing
  <2>6. ASSUME NEW i \in 1 .. G, Arrived(i, lengths[i])' PROVE Delivered(i)'
    <3>1. ToSet(delivered) \subseteq ToSet(delivered')
      BY ONLY <2>2, <2>3
    <3>2. CASE i \in 1 .. g
      <4>1. i \in 1 .. Gone
        BY ONLY <1>1, <3>2
      <4> QED BY ONLY Queued, ArrivedRight, <1>3, <1>8, <1>9, <2>6, <3>1, <4>1, OldDelivered
    <3>3. CASE i = g + 1
      <4>1. CASE Broken
        <5>1. i = Gone + 1 /\ l \in Nat /\ Ahead <= l
          BY ONLY <1>1, <1>2, <3>3
        <5>2. Arrived(i, l)'
          BY ONLY <1>1, <1>3, <2>6, <3>3 DEF Arrived
        <5> QED BY ONLY Queued, <1>3, <1>8, <1>9, <3>1, <4>1, <5>1, <5>2, BrokenDelivered
      <4>2. CASE \E x \in ToSet(s) : IsSdu(x.data, Gone + 1)
        <5>1. \E x \in ToSet(s) : IsSdu(x.data, i)
          BY ONLY <1>1, <3>3, <4>2
        <5> QED BY ONLY <1>3, <2>3, <5>1 DEF Delivered, IsSdu
      <4> QED BY ONLY <2>2, <4>1, <4>2
    <3>4. i \in 1 .. g \/ i = g + 1
      BY ONLY <1>2, <2>1, i \in 1 .. G
    <3> QED BY ONLY <3>2, <3>3, <3>4
  <2>7. ArrivedRight'
    <3>1. ~(A > 0)
      BY ONLY <2>1
    <3> QED BY ONLY <1>1, <2>6, <3>1 DEF ArrivedRight
  <2> QED BY ONLY <1>10, <2>4, <2>5, <2>7
<1>13. m < l - a \/ m = l - a
  BY ONLY <1>2, <1>3
<1> QED BY ONLY <1>11, <1>12, <1>13

-----------------------------------------------------------------------------
(* An SDU that is queued changes nothing for those before it.                *)

\* The first SDUs of a queue hold the same when more are put behind them.
LEMMA UptoPrefix ==
  ASSUME NEW s \in Seq(Part), NEW t \in Seq(Part), Len(s) <= Len(t), \A i \in 1 .. Len(s) : t[i] = s[i]
  PROVE  Upto(t, Len(s)) = Upto(s, Len(s))
<1>1. PICK N, K : N = Len(s) /\ K = Len(t) /\ N \in Nat /\ K \in Nat /\ N <= K
  BY LenProperties
<1> DEFINE T == {n \in 0 .. N : Upto(t, n) # Upto(s, n)}
<1>2. Upto(s, 0) = 0 /\ Upto(t, 0) = 0
  BY ONLY s \in Seq(Part), t \in Seq(Part), UptoFacts
<1>3. /\ \A n \in 1 .. N : Upto(s, n) = Upto(s, n - 1) + Len(s[n].data)
      /\ \A n \in 1 .. K : Upto(t, n) = Upto(t, n - 1) + Len(t[n].data)
  BY ONLY s \in Seq(Part), t \in Seq(Part), <1>1, UptoFacts
<1>4. T = {}
  <2> SUFFICES ASSUME T # {} PROVE FALSE
    OBVIOUS
  <2>1. PICK n \in T : \A y \in T : n <= y
    <3>1. T \in SUBSET Nat
      BY <1>1
    <3> QED BY ONLY <3>1, T # {}, Least
  <2>2. n \in 0 .. N /\ Upto(t, n) # Upto(s, n)
    OBVIOUS
  <2>3. n # 0
    BY ONLY <1>2, <2>2
  <2>4. n \in 1 .. N /\ n \in 1 .. K /\ n - 1 \in 0 .. N /\ ~(n <= n - 1)
    BY ONLY <1>1, <2>2, <2>3
  <2>5. n - 1 \notin T
    BY ONLY <2>1, <2>4
  <2>6. Upto(t, n - 1) = Upto(s, n - 1)
    BY ONLY <2>4, <2>5
  <2>7. t[n] = s[n]
    BY <1>1, <2>4
  <2> QED BY ONLY <1>3, <2>2, <2>4, <2>6, <2>7
<1>5. N \in 0 .. N
  BY ONLY <1>1
<1>6. Upto(t, N) = Upto(s, N)
  BY ONLY <1>4, <1>5
<1> QED BY ONLY <1>1, <1>6

\* The queue with one more.
LEMMA QueueGrows ==
  ASSUME Queued, ReportCovers, NEW n \in Lengths, lengths' = Append(lengths, n), size' = size + n,
         buf' = Append(buf, [data |-> Sdu(Len(lengths) + 1, n), part |-> FALSE])
  PROVE  /\ Queued' /\ ReportCovers' /\ Gone' = Gone /\ Ahead' = Ahead
         /\ \A i \in DOMAIN lengths : i \in DOMAIN lengths' /\ lengths'[i] = lengths[i]
<1>1. PICK N, B, g, a, p :
        /\ N = Len(lengths) /\ B = Len(buf) /\ g = Gone /\ a = Ahead
        /\ p = [data |-> Sdu(Len(lengths) + 1, n), part |-> FALSE]
  OBVIOUS
<1>2. N \in Nat /\ B \in Nat /\ g \in Nat /\ a \in Nat /\ B = N - g
  BY ONLY Queued, <1>1, QueuedNumbers
<1>3. n \in Nat /\ n > 0
  BY LengthsAssumption
<1>4. lengths \in Seq(Lengths) /\ buf \in Seq(Part)
  BY DEF Queued
<1>5. /\ lengths' \in Seq(Lengths) /\ Len(lengths') = N + 1 /\ lengths'[N + 1] = n
      /\ \A i \in 1 .. N : lengths'[i] = lengths[i]
  <2>1. n \in Lengths /\ lengths' = Append(lengths, n)
    OBVIOUS
  <2> QED BY ONLY <1>1, <1>4, <2>1, AppendProperties
<1>6. p.data = From(N + 1, 0, n) /\ p.data \in Seq(Octet) /\ Len(p.data) = n /\ p.part = FALSE /\ p \in Part
  <2>1. p.data = From(N + 1, 0, n) /\ p.part = FALSE
    BY ONLY <1>1, <1>3 DEF Sdu, From
  <2>2. PICK h, z : h = N + 1 /\ z = 0
    OBVIOUS
  <2>3. h \in Nat /\ z \in Nat /\ n \in Nat
    BY ONLY <1>2, <1>3, <2>2
  <2>4. From(h, z, n) \in Seq(Octet) /\ Len(From(h, z, n)) = n
    BY ONLY <2>3, SduIs
  <2>5. p.data \in Seq(Octet) /\ Len(p.data) = n
    BY ONLY <2>1, <2>2, <2>4
  <2>6. p \in Part
    BY ONLY <1>1, <2>5, <2>1 DEF Part
  <2> QED BY ONLY <2>1, <2>5, <2>6
<1>7. buf' \in Seq(Part) /\ Len(buf') = B + 1 /\ buf'[B + 1] = p /\ \A i \in 1 .. B : buf'[i] = buf[i]
  <2>1. buf' = Append(buf, p)
    BY <1>1
  <2> QED BY ONLY <1>1, <1>4, <1>6, <2>1, AppendProperties
<1>8. DOMAIN lengths = 1 .. N /\ DOMAIN lengths' = 1 .. N + 1 /\ DOMAIN buf = 1 .. B /\ DOMAIN buf' = 1 .. B + 1
  <2>1. PICK s, t : s = lengths' /\ t = buf'
    OBVIOUS
  <2>2. s \in Seq(Lengths) /\ t \in Seq(Part) /\ Len(s) = N + 1 /\ Len(t) = B + 1
    BY ONLY <1>5, <1>7, <2>1
  <2>3. DOMAIN lengths = 1 .. N /\ DOMAIN buf = 1 .. B
    BY ONLY <1>1, <1>4, LenProperties
  <2>4. DOMAIN s = 1 .. N + 1 /\ DOMAIN t = 1 .. B + 1
    BY ONLY <2>2, LenProperties
  <2> QED BY ONLY <2>1, <2>3, <2>4
<1>9. Gone' = g
  <2>1. Gone' = Len(lengths') - Len(buf')
    BY DEF Gone
  <2> QED BY ONLY <1>2, <1>5, <1>7, <2>1
<1>10. buf' # <<>>
  <2>1. PICK t : t = buf'
    OBVIOUS
  <2>2. t \in Seq(Part) /\ Len(t) # 0
    BY ONLY <1>2, <1>7, <2>1
  <2> QED BY ONLY <2>1, <2>2, EmptySeq
<1>11. Ahead' = a
  <2>1. Ahead' = lengths'[g + 1] - Len(buf'[1].data)
    BY ONLY <1>9, <1>10 DEF Ahead, Length
  <2>2. CASE B = 0
    <3>1. buf = <<>>
      BY ONLY <1>1, <1>4, <2>2, EmptySeq
    <3>2. a = 0
      BY ONLY <1>1, <3>1 DEF Ahead
    <3>3. g + 1 = N + 1 /\ B + 1 = 1
      BY ONLY <1>2, <2>2
    <3>4. lengths'[g + 1] = n /\ Len(buf'[1].data) = n
      BY ONLY <1>5, <1>6, <1>7, <3>3
    <3> QED BY ONLY <1>3, <2>1, <3>2, <3>4
  <2>3. CASE B # 0
    <3>1. buf # <<>>
      BY ONLY <1>1, <1>4, <2>3, EmptySeq
    <3>2. a = lengths[g + 1] - Len(buf[1].data)
      BY ONLY <1>1, <3>1 DEF Ahead, Length
    <3>3. g + 1 \in 1 .. N /\ 1 \in 1 .. B
      BY ONLY <1>2, <2>3
    <3>4. lengths'[g + 1] = lengths[g + 1] /\ buf'[1] = buf[1]
      BY ONLY <1>5, <1>7, <3>3
    <3> QED BY ONLY <2>1, <3>2, <3>4
  <2> QED BY ONLY <2>2, <2>3
<1>12. Queued'
  <2>1. ASSUME NEW i \in 1 .. B + 1, NEW k, k = (IF i = 1 THEN a ELSE 0)
        PROVE  /\ Len(buf'[i].data) = lengths'[g + i] - k /\ k >= 0
               /\ buf'[i].part <=> k > 0
               /\ buf'[i].data = From(g + i, k, Len(buf'[i].data))
    <3>1. CASE i \in 1 .. B
      <4>1. /\ Length(i) = lengths[Gone + i] - k /\ k >= 0
            /\ buf[i].part <=> k > 0
            /\ buf[i].data = From(Gone + i, k, Length(i))
        BY ONLY Queued, <1>1, <1>8, <2>1, <3>1 DEF Queued
      <4>2. g + i \in 1 .. N
        BY ONLY <1>2, <3>1
      <4>3. buf'[i] = buf[i] /\ lengths'[g + i] = lengths[g + i]
        BY ONLY <1>5, <1>7, <3>1, <4>2
      <4> QED BY ONLY <1>1, <4>1, <4>3 DEF Length
    <3>2. CASE i = B + 1
      <4>1. g + i = N + 1
        BY ONLY <1>2, <3>2
      <4>2. k = 0
        <5>1. CASE i = 1
          <6>1. B = 0
            BY ONLY <1>2, <3>2, <5>1
          <6>2. buf = <<>>
            BY ONLY <1>1, <1>4, <6>1, EmptySeq
          <6> QED BY ONLY <1>1, <2>1, <5>1, <6>2 DEF Ahead
        <5>2. CASE i # 1
          BY ONLY <2>1, <5>2
        <5> QED BY ONLY <5>1, <5>2
      <4>3. buf'[i] = p /\ lengths'[g + i] = n
        BY ONLY <1>5, <1>7, <3>2, <4>1
      <4> QED BY ONLY <1>3, <1>6, <4>1, <4>2, <4>3
    <3>3. i \in 1 .. B \/ i = B + 1
      BY ONLY <1>2, i \in 1 .. B + 1
    <3> QED BY ONLY <3>1, <3>2, <3>3
  <2>2. Len(buf') <= Len(lengths')
    BY ONLY <1>2, <1>5, <1>7
  <2> QED BY ONLY <1>5, <1>7, <1>8, <1>9, <1>11, <2>1, <2>2 DEF Queued, Length
<1>13. ReportCovers'
  <2>1. PICK t : t = buf'
    OBVIOUS
  <2>2. t \in Seq(Part) /\ Len(t) = B + 1 /\ t[B + 1] = p /\ \A i \in 1 .. B : t[i] = buf[i]
    BY ONLY <1>7, <2>1
  <2>3. Upto(t, B) = Upto(buf, B)
    <3>1. Len(buf) <= Len(t) /\ \A i \in 1 .. Len(buf) : t[i] = buf[i]
      BY ONLY <1>1, <1>2, <2>2
    <3> QED BY ONLY <1>1, <1>4, <2>2, <3>1, UptoPrefix
  <2>4. Upto(t, B + 1) = Upto(t, B) + n
    <3>0. PICK b : b = B + 1
      OBVIOUS
    <3>1. t \in Seq(Part) /\ Len(t) = b /\ b \in 1 .. b /\ b - 1 = B /\ t[b] = p
      BY ONLY <1>2, <2>2, <3>0
    <3>2. \A i \in 1 .. Len(t) : Upto(t, i) = Upto(t, i - 1) + Len(t[i].data)
      BY ONLY <3>1, UptoFacts
    <3>3. Upto(t, b) = Upto(t, b - 1) + Len(t[b].data)
      BY ONLY <3>1, <3>2
    <3> QED BY ONLY <1>6, <3>0, <3>1, <3>3
  <2>5. size \in Nat /\ Upto(buf, B) <= size /\ size' = size + n
    BY <1>1 DEF ReportCovers, Pending
  <2>6. Upto(buf, B) \in Nat
    <3>1. B \in 0 .. B
      BY ONLY <1>2
    <3> QED BY ONLY <1>1, <1>4, <3>1, UptoFacts
  <2>7. PICK x : x = Upto(buf, B)
    OBVIOUS
  <2>8. size' \in Nat /\ x + n <= size'
    BY ONLY <1>3, <2>5, <2>6, <2>7
  <2>9. Pending' = x + n
    BY ONLY <2>1, <2>2, <2>3, <2>4, <2>7 DEF Pending, Upto
  <2> QED BY ONLY <2>8, <2>9 DEF ReportCovers
<1>14. \A i \in 1 .. N : i \in 1 .. N + 1
  BY ONLY <1>2
<1> QED BY ONLY <1>1, <1>5, <1>8, <1>9, <1>11, <1>12, <1>13, <1>14

\* Nothing else depends on it.
LEMMA OthersStay ==
  ASSUME Queued, Unsent, LeftRight, DeliveredRight, ArrivedRight, Gone' = Gone, Ahead' = Ahead,
         \A i \in DOMAIN lengths : i \in DOMAIN lengths' /\ lengths'[i] = lengths[i],
         sn' = sn, left' = left, missing' = missing, arrived' = arrived, delivered' = delivered
  PROVE  Unsent' /\ LeftRight' /\ DeliveredRight' /\ ArrivedRight'
<1>1. PICK g, a : g = Gone /\ a = Ahead /\ g = Gone' /\ a = Ahead'
  OBVIOUS
<1>2. /\ sn' = sn /\ left' = left /\ missing' = missing /\ arrived' = arrived /\ delivered' = delivered
      /\ \A i \in DOMAIN lengths : i \in DOMAIN lengths' /\ lengths'[i] = lengths[i]
  OBVIOUS
<1>3. Unsent'
  BY ONLY Unsent, <1>1, <1>2 DEF Unsent
<1>4. LeftRight'
  <2>1. sn' \in 0 .. Mod - 1 /\ missing' \in 0 .. MaxMissing /\ left'.crowded \in BOOLEAN
    BY ONLY LeftRight, <1>2 DEF LeftRight
  <2>2. ASSUME left'.sn # None
        PROVE  /\ left'.sn \in 0 .. Mod - 1 /\ left'.sn + 1 + missing' \in {sn', sn' + Mod}
               /\ ~left'.crowded => (\E i \in DOMAIN lengths : \E k \in 1 .. lengths[i] : KeptStart(i, k))'
    <3>1. left.sn # None
      BY ONLY <1>2, <2>2
    <3>2. left'.sn \in 0 .. Mod - 1 /\ left'.sn + 1 + missing' \in {sn', sn' + Mod}
      BY ONLY LeftRight, <1>2, <3>1 DEF LeftRight
    <3>3. ASSUME ~left'.crowded PROVE (\E i \in DOMAIN lengths : \E k \in 1 .. lengths[i] : KeptStart(i, k))'
      <4>0. ~left.crowded
        BY ONLY <1>2, <3>3
      <4>1. PICK i : i \in DOMAIN lengths /\ \E k \in 1 .. lengths[i] : KeptStart(i, k)
        BY ONLY LeftRight, <3>1, <4>0 DEF LeftRight
      <4>2. PICK k : k \in 1 .. lengths[i] /\ KeptStart(i, k)
        BY ONLY <4>1
      <4>3. i \in DOMAIN lengths' /\ k \in 1 .. lengths'[i]
        BY ONLY <1>2, <4>1, <4>2
      <4>4. /\ left.data = Sdu(i, k) /\ k < lengths[i] /\ i <= g + 1
            /\ missing = 0 /\ a > 0 => i = g + 1 /\ k = a
            /\ Newer(i, delivered)
        BY ONLY <1>1, <4>2 DEF KeptStart
      <4>5. /\ left'.data = Sdu(i, k) /\ k < lengths'[i] /\ i <= g + 1
            /\ missing' = 0 /\ a > 0 => i = g + 1 /\ k = a
            /\ Newer(i, delivered')
        BY ONLY <1>2, <4>1, <4>4
      <4>6. KeptStart(i, k)'
        BY ONLY <1>1, <4>5 DEF KeptStart, Newer
      <4> QED BY ONLY <4>3, <4>6
    <3> QED BY ONLY <3>2, <3>3
  <2> QED BY ONLY <2>1, <2>2 DEF LeftRight
<1>5. ASSUME NEW d, NEW i, i \in DOMAIN lengths, IsSdu(d.data, i) PROVE IsSdu(d.data, i)'
  BY ONLY <1>2, <1>5 DEF IsSdu
<1>6. DeliveredRight'
  <2>1. Ordered(delivered')
    <3>1. Ordered(delivered)
      BY DEF DeliveredRight
    <3> QED BY ONLY <1>2, <3>1
  <2>2. ASSUME NEW d \in ToSet(delivered'), ~d.crowded
        PROVE  \E i \in DOMAIN lengths' : IsSdu(d.data, i)' /\ IsOver(i)'
    <3>1. d \in ToSet(delivered) /\ ~d.crowded
      BY ONLY <1>2, <2>2
    <3>2. PICK i : i \in DOMAIN lengths /\ IsSdu(d.data, i) /\ IsOver(i)
      BY ONLY DeliveredRight, <3>1 DEF DeliveredRight
    <3>3. IsOver(i)'
      BY ONLY <1>1, <1>2, <3>2 DEF IsOver
    <3> QED BY ONLY <1>2, <1>5, <3>2, <3>3
  <2> QED BY ONLY <2>1, <2>2 DEF DeliveredRight, Ordered
<1>7. ASSUME NEW i, i \in DOMAIN lengths, Delivered(i) PROVE Delivered(i)'
  BY ONLY <1>2, <1>5, <1>7 DEF Delivered
<1>8. ArrivedRight'
  <2>1. ASSUME NEW i \in 1 .. g, Arrived(i, lengths[i])' PROVE Delivered(i)'
    <3>1. i \in DOMAIN lengths
      <4>1. lengths \in Seq(Lengths)
        BY DEF Queued
      <4>2. PICK n : n \in Nat /\ n = Len(lengths) /\ DOMAIN lengths = 1 .. n
        BY ONLY <4>1, LenProperties
      <4>3. PICK b : b \in Nat /\ b = n - g /\ g \in Nat
        BY ONLY Queued, <1>1, <4>2, QueuedNumbers
      <4>4. i \in 1 .. n
        BY ONLY <4>2, <4>3, i \in 1 .. g
      <4> QED BY ONLY <4>2, <4>4
    <3>2. Arrived(i, lengths[i])
      BY ONLY <1>2, <2>1, <3>1 DEF Arrived
    <3>3. Delivered(i)
      BY ONLY ArrivedRight, <1>1, <3>2, i \in 1 .. g DEF ArrivedRight
    <3> QED BY ONLY <1>7, <3>1, <3>3
  <2>2. ASSUME a > 0, Arrived(g + 1, a)'
        PROVE  \/ a = lengths'[g + 1] /\ Delivered(g + 1)'
               \/ /\ a < lengths'[g + 1] /\ left'.sn # None /\ missing' = 0 /\ ~left'.crowded
                  /\ left'.data = Sdu(g + 1, a)
    <3>1. PICK h : h = g + 1
      OBVIOUS
    <3>2. h \in DOMAIN lengths
      BY ONLY Queued, <1>1, <2>2, <3>1, QueuedNumbers
    <3>3. Arrived(h, a)
      BY ONLY <1>2, <2>2, <3>1 DEF Arrived
    <3>4. \/ a = lengths[h] /\ Delivered(h)
          \/ a < lengths[h] /\ left.sn # None /\ missing = 0 /\ ~left.crowded /\ left.data = Sdu(h, a)
      BY ONLY ArrivedRight, <1>1, <2>2, <3>1, <3>3 DEF ArrivedRight
    <3>5. lengths'[h] = lengths[h] /\ (Delivered(h) => Delivered(h)')
      BY ONLY <1>2, <1>7, <3>2
    <3>6. \/ a = lengths'[h] /\ Delivered(h)'
          \/ a < lengths'[h] /\ left'.sn # None /\ missing' = 0 /\ ~left'.crowded /\ left'.data = Sdu(h, a)
      BY ONLY <1>2, <3>4, <3>5
    <3> QED BY ONLY <3>1, <3>6
  <2> QED BY ONLY <1>1, <2>1, <2>2 DEF ArrivedRight
<1> QED BY ONLY <1>3, <1>4, <1>6, <1>8

-----------------------------------------------------------------------------
\* The inductive invariant.
UmInv == Queued /\ ReportCovers /\ Unsent /\ LeftRight /\ DeliveredRight /\ ArrivedRight

LEMMA UmStarts == UmInit => UmInv
<1> SUFFICES ASSUME UmInit PROVE UmInv
  OBVIOUS
<1>1. /\ buf = <<>> /\ size = 0 /\ sn = 0 /\ lengths = <<>> /\ missing = 0 /\ arrived = {} /\ delivered = <<>>
      /\ left.sn = None /\ left.crowded = FALSE
  BY DEF UmInit, NothingLeft
<1>2. Len(buf) = 0 /\ Len(lengths) = 0 /\ DOMAIN buf = {} /\ DOMAIN lengths = {} /\ DOMAIN delivered = {}
  BY ONLY <1>1
<1>3. Gone = 0 /\ Ahead = 0
  BY ONLY <1>1, <1>2 DEF Gone, Ahead
<1>4. Queued
  <2>1. lengths \in Seq(Lengths) /\ buf \in Seq(Part)
    BY ONLY <1>1
  <2> QED BY ONLY <1>2, <2>1 DEF Queued
<1>5. ReportCovers
  <2>1. PICK s : s = buf
    OBVIOUS
  <2>2. Upto(s, 0) = 0
    BY ONLY <1>4, <2>1, UptoFacts DEF Queued
  <2> QED BY ONLY <1>1, <1>2, <2>1, <2>2 DEF ReportCovers, Pending
<1>6. Unsent
  BY ONLY <1>1 DEF Unsent
<1>7. LeftRight
  <2>1. 0 \in 0 .. Mod - 1 /\ 0 \in 0 .. MaxMissing
    BY ONLY ModAssumption, BoundsAssumption
  <2> QED BY ONLY <1>1, <2>1 DEF LeftRight
<1>8. DeliveredRight
  <2>1. ToSet(delivered) = {}
    BY ONLY <1>2 DEF ToSet
  <2>2. delivered \in Seq(ToSet(delivered))
    BY ONLY <1>1
  <2> QED BY ONLY <1>2, <2>1, <2>2 DEF DeliveredRight, Ordered
<1>9. ArrivedRight
  <2>1. \A i \in 1 .. Gone : FALSE
    BY ONLY <1>3
  <2>2. ~(Ahead > 0)
    BY ONLY <1>3
  <2> QED BY ONLY <2>1, <2>2 DEF ArrivedRight
<1> QED BY ONLY <1>4, <1>5, <1>6, <1>7, <1>8, <1>9 DEF UmInv

\* Every step keeps it.
LEMMA QueueKeeps ==
  ASSUME UmInv, Queue
  PROVE  UmInv'
<1>1. Queued /\ ReportCovers /\ Unsent /\ LeftRight /\ DeliveredRight /\ ArrivedRight
  BY DEF UmInv
<1>2. PICK n \in Lengths :
        /\ lengths' = Append(lengths, n) /\ size' = size + n
        /\ buf' = Append(buf, [data |-> Sdu(Len(lengths) + 1, n), part |-> FALSE])
        /\ UNCHANGED <<sn, left, missing, arrived, delivered>>
  BY DEF Queue
<1>3. /\ Queued' /\ ReportCovers' /\ Gone' = Gone /\ Ahead' = Ahead
      /\ \A i \in DOMAIN lengths : i \in DOMAIN lengths' /\ lengths'[i] = lengths[i]
  BY ONLY <1>1, <1>2, QueueGrows
<1>4. Unsent' /\ LeftRight' /\ DeliveredRight' /\ ArrivedRight'
  BY ONLY <1>1, <1>2, <1>3, OthersStay
<1> QED BY ONLY <1>3, <1>4 DEF UmInv

\* A unit that is lost takes from the queue and brings nothing.
LEMMA LostKeeps ==
  ASSUME Queued, Unsent, LeftRight, DeliveredRight, ArrivedRight, buf # <<>>,
         NEW c, NEW m, NEW r, Takes(c, m, r), missing < MaxMissing, missing' = missing + 1, sn' = (sn + 1) % Mod,
         left' = left, arrived' = arrived, delivered' = delivered
  PROVE  Unsent' /\ LeftRight' /\ DeliveredRight' /\ ArrivedRight'
<1>1. lengths' = lengths
  BY DEF Takes
<1>2. Gone \in Nat /\ Gone' \in Nat
  BY ONLY Queued, buf # <<>>, Takes(c, m, r), TakesNumbers
<1>3. Gone <= Gone'
  BY ONLY Queued, buf # <<>>, Takes(c, m, r), Progress
<1>4. LeftRight'
  BY ONLY Queued, LeftRight, <1>1, <1>2, <1>3, left' = left, delivered' = delivered, missing < MaxMissing,
          missing' = missing + 1, sn' = (sn + 1) % Mod, LeftWhenLost
<1>5. DeliveredRight'
  <2>1. Good(delivered)
    BY ONLY Queued, DeliveredRight, buf # <<>>, Takes(c, m, r), GoodBefore
  <2>2. Good(delivered')
    BY ONLY <2>1, delivered' = delivered
  <2> QED BY ONLY <1>1, <2>2, GoodAfter
<1>6. ToSet(delivered) \subseteq ToSet(delivered')
  BY ONLY delivered' = delivered
<1>7. Unsent' /\ ArrivedRight'
  BY ONLY Queued, Unsent, ArrivedRight, buf # <<>>, Takes(c, m, r), arrived' = arrived, <1>6, NothingArrives
<1> QED BY ONLY <1>4, <1>5, <1>7

LEMMA UmTransmitKeeps ==
  ASSUME UmInv, UmTransmit
  PROVE  UmInv'
<1>1. Queued /\ ReportCovers /\ Unsent /\ LeftRight /\ DeliveredRight /\ ArrivedRight
  BY DEF UmInv
<1>2. PICK grant \in 3 .. MaxGrant :
        /\ buf # <<>>
        /\ buf' = Rest(grant) \o SubSeq(buf, Shares(grant) + 1, Len(buf))
        /\ size' = SizeAfter(grant)
        /\ sn' = (sn + 1) % Mod
        /\ \/ missing' = 0 /\ Reassemble(UnitOf(grant))
           \/ /\ missing < MaxMissing /\ missing' = missing + 1
              /\ UNCHANGED <<left, arrived, delivered>>
        /\ lengths' = lengths
  BY DEF UmTransmit
<1>3. PICK c, m, u : c = Shares(grant) /\ m = Copied(grant) /\ u = UnitOf(grant)
  OBVIOUS
<1>4. Queued' /\ ReportCovers' /\ \E r : Takes(Shares(grant), Copied(grant), r)
  BY ONLY <1>1, <1>2, UnitTakes
<1>5. PICK r : Takes(c, m, r)
  BY ONLY <1>3, <1>4
<1>6. c \in Nat /\ c > 0
  BY ONLY <1>5 DEF Takes
<1>7. /\ u.sn = sn /\ (u.FIfirst <=> Ahead > 0) /\ u.FIsecond \in BOOLEAN /\ (u.FIsecond <=> m < LeftOf(c))
      /\ u.LI = [i \in 1 .. c - 1 |-> Length(i)]
      /\ c = 1 => u.data = From(Gone + 1, Ahead, m)
      /\ c = 2 => u.data = From(Gone + 1, Ahead, LeftOf(1)) \o From(Gone + 2, 0, m)
  <2>1. Queued /\ buf # <<>> /\ grant \in 3 .. MaxGrant
    BY ONLY <1>1, <1>2, grant \in 3 .. MaxGrant
  <2>2. UnitIs(UnitOf(grant), Shares(grant), Copied(grant))
    BY ONLY <2>1, UnitFacts
  <2> QED BY ONLY <1>3, <2>2 DEF UnitIs
<1>8. CASE missing' = 0 /\ Reassemble(u)
  <2>1. CASE c > 2
    <3>1. Unsent' /\ LeftRight' /\ DeliveredRight' /\ ArrivedRight'
      BY ONLY <1>1, <1>2, <1>5, <1>7, <1>8, <2>1, ArrivalOfMany
    <3> QED BY ONLY <1>4, <3>1 DEF UmInv
  <2>2. CASE c = 2
    <3>1. Takes(2, m, r)
      BY ONLY <1>5, <2>2
    <3>2. /\ u.FIsecond <=> m < LeftOf(2)
          /\ u.LI = [i \in 1 .. 2 - 1 |-> Length(i)]
          /\ u.data = From(Gone + 1, Ahead, LeftOf(1)) \o From(Gone + 2, 0, m)
      BY ONLY <1>7, <2>2
    <3>3. Unsent' /\ LeftRight' /\ DeliveredRight' /\ ArrivedRight'
      BY ONLY <1>1, <1>2, <1>7, <1>8, <3>1, <3>2, ArrivalOfTwo
    <3> QED BY ONLY <1>4, <3>3 DEF UmInv
  <2>3. CASE c = 1
    <3>1. Takes(1, m, r)
      BY ONLY <1>5, <2>3
    <3>2. /\ u.FIsecond <=> m < LeftOf(1)
          /\ u.LI = [i \in 1 .. 1 - 1 |-> Length(i)]
          /\ u.data = From(Gone + 1, Ahead, m)
      BY ONLY <1>7, <2>3
    <3>3. Unsent' /\ LeftRight' /\ DeliveredRight' /\ ArrivedRight'
      BY ONLY <1>1, <1>2, <1>7, <1>8, <3>1, <3>2, ArrivalOfOne
    <3> QED BY ONLY <1>4, <3>3 DEF UmInv
  <2>4. c > 2 \/ c = 2 \/ c = 1
    BY ONLY <1>6
  <2> QED BY ONLY <2>1, <2>2, <2>3, <2>4
<1>9. CASE missing < MaxMissing /\ missing' = missing + 1 /\ UNCHANGED <<left, arrived, delivered>>
  <2>1. Unsent' /\ LeftRight' /\ DeliveredRight' /\ ArrivedRight'
    BY ONLY <1>1, <1>2, <1>5, <1>9, LostKeeps
  <2> QED BY ONLY <1>4, <2>1 DEF UmInv
<1> QED BY ONLY <1>2, <1>3, <1>8, <1>9

LEMMA NothingKeeps ==
  ASSUME UmInv, TransmitNothing
  PROVE  UmInv'
<1>1. Queued /\ ReportCovers /\ Unsent /\ LeftRight /\ DeliveredRight /\ ArrivedRight
  BY DEF UmInv
<1>2. /\ missing < MaxMissing /\ missing' = missing + 1 /\ sn' = (sn + 1) % Mod
      /\ buf' = buf /\ size' = size /\ left' = left /\ lengths' = lengths /\ arrived' = arrived /\ delivered' = delivered
  BY DEF TransmitNothing
<1>3. Gone' = Gone /\ Ahead' = Ahead
  BY ONLY <1>2 DEF Gone, Ahead, Length
<1>4. Queued'
  BY ONLY <1>1, <1>2, <1>3 DEF Queued, Length
<1>5. ReportCovers'
  BY ONLY <1>1, <1>2 DEF ReportCovers, Pending, Upto
<1>6. LeftRight'
  <2>1. Gone \in Nat /\ Gone' \in Nat /\ Gone <= Gone'
    <3>1. PICK g : g = Gone /\ g \in Nat
      BY ONLY <1>1, QueuedNumbers
    <3>2. g <= g
      BY ONLY <3>1
    <3> QED BY ONLY <1>3, <3>1, <3>2
  <2> QED BY ONLY <1>1, <1>2, <2>1, LeftWhenLost
<1>7. Unsent'
  BY ONLY <1>1, <1>2, <1>3 DEF Unsent
<1>8. DeliveredRight'
  BY ONLY <1>1, <1>2, <1>3 DEF DeliveredRight, IsOver, IsSdu, Ordered
<1>9. ArrivedRight'
  <2>1. ~(Ahead > 0)
    BY <1>2 DEF TransmitNothing, Ahead
  <2>2. \A i \in 1 .. Gone : Arrived(i, lengths[i])' => Delivered(i)'
    BY ONLY <1>1, <1>2 DEF ArrivedRight, Arrived, Delivered, IsSdu
  <2> QED BY ONLY <1>3, <2>1, <2>2 DEF ArrivedRight
<1> QED BY ONLY <1>4, <1>5, <1>6, <1>7, <1>8, <1>9 DEF UmInv

LEMMA UmSteps == UmInv /\ [UmNext]_umVars => UmInv'
<1> SUFFICES ASSUME UmInv, [UmNext]_umVars PROVE UmInv'
  OBVIOUS
<1>1. CASE Queue
  BY <1>1, QueueKeeps
<1>2. CASE UmTransmit
  BY <1>2, UmTransmitKeeps
<1>3. CASE TransmitNothing
  BY <1>3, NothingKeeps
<1>4. CASE UNCHANGED umVars
  <2>1. /\ buf' = buf /\ size' = size /\ sn' = sn /\ left' = left /\ lengths' = lengths
        /\ missing' = missing /\ arrived' = arrived /\ delivered' = delivered
    BY <1>4 DEF umVars
  <2>2. Queued /\ ReportCovers /\ Unsent /\ LeftRight /\ DeliveredRight /\ ArrivedRight
    BY DEF UmInv
  <2>3. Gone' = Gone /\ Ahead' = Ahead
    BY ONLY <2>1 DEF Gone, Ahead, Length
  <2>4. Queued'
    BY ONLY <2>1, <2>2, <2>3 DEF Queued, Length
  <2>5. ReportCovers'
    BY ONLY <2>1, <2>2 DEF ReportCovers, Pending, Upto
  <2>6. Unsent' /\ LeftRight' /\ DeliveredRight' /\ ArrivedRight'
    BY ONLY <2>1, <2>2, <2>3, OthersStay
  <2> QED BY ONLY <2>4, <2>5, <2>6 DEF UmInv
<1> QED BY <1>1, <1>2, <1>3, <1>4 DEF UmNext

\* At every moment the queue holds stretches that follow one another, counted in full, what
\* arrived was sent, and what the receiver keeps or has passed on is the start or the whole
\* of an SDU (segment.c: rlc_UM_segment, rlc_UM_reassemble_deliver).
THEOREM UmAlways == UmSpec => []UmInv
BY UmStarts, UmSteps, PTL DEF UmSpec

\* Of the entries PDCP got from units of at most two SDUs each is a whole SDU, and
\* each was queued after those before it (rlc_UM_reassemble_deliver).
THEOREM SdusWhole == UmSpec => []WholeInOrder
<1>1. UmInv => WholeInOrder
  <2> SUFFICES ASSUME UmInv PROVE WholeInOrder
    OBVIOUS
  <2>1. DeliveredRight
    BY DEF UmInv
  <2>2. \A d \in ToSet(delivered) : ~d.crowded => \E i \in DOMAIN lengths : IsSdu(d.data, i)
    BY ONLY <2>1 DEF DeliveredRight
  <2>3. \A j, k \in DOMAIN delivered :
          j < k /\ ~delivered[j].crowded /\ ~delivered[k].crowded => delivered[j].data[1][1] < delivered[k].data[1][1]
    BY ONLY <2>1 DEF DeliveredRight, Ordered
  <2> QED BY ONLY <2>2, <2>3 DEF WholeInOrder
<1> QED BY <1>1, UmAlways, PTL

\* An SDU all of whose octets arrived in such units has been sent to PDCP, whatever was lost
\* before and after it.
THEOREM ArrivedGoUp == UmSpec => []ArrivedIsDelivered
<1>1. UmInv => ArrivedIsDelivered
  <2> SUFFICES ASSUME UmInv PROVE ArrivedIsDelivered
    OBVIOUS
  <2>1. Queued /\ Unsent /\ ArrivedRight
    BY DEF UmInv
  <2>2. ASSUME NEW i \in DOMAIN lengths, Arrived(i, lengths[i]) PROVE Delivered(i)
    <3>1. PICK g, a, n : g = Gone /\ a = Ahead /\ n = lengths[i]
      OBVIOUS
    <3>2. g \in Nat /\ a \in Nat /\ n \in Nat /\ n > 0 /\ (a > 0 => a <= lengths[g + 1])
      BY ONLY <2>1, <3>1, i \in DOMAIN lengths, QueuedNumbers
    <3>3. i \in Nat /\ i > 0
      <4>1. lengths \in Seq(Lengths)
        BY ONLY <2>1 DEF Queued
      <4> QED BY ONLY <4>1, i \in DOMAIN lengths, LenProperties
    <3>4. <<i, n>> \in arrived
      <4>1. \A j \in 1 .. n : <<i, j>> \in arrived
        BY ONLY <2>2, <3>1, <3>2, <3>3, OctetsOfSdu
      <4>2. n \in 1 .. n
        BY ONLY <3>2
      <4> QED BY ONLY <4>1, <4>2
    <3>5. i <= g \/ (i = g + 1 /\ n <= a)
      BY ONLY <2>1, <3>1, <3>2, <3>3, <3>4, OldArrived
    <3>6. CASE i <= g
      <4>1. i \in 1 .. Gone
        BY ONLY <3>1, <3>2, <3>3, <3>6
      <4> QED BY ONLY <2>1, <2>2, <4>1 DEF ArrivedRight
    <3>7. CASE i = g + 1 /\ n <= a
      <4>1. i = Gone + 1 /\ Ahead = lengths[i] /\ Ahead > 0
        BY ONLY <3>1, <3>2, <3>7
      <4>2. Arrived(Gone + 1, Ahead)
        BY ONLY <2>2, <4>1
      <4>3. Ahead = lengths[Gone + 1] /\ Ahead \in Nat
        BY ONLY <3>1, <3>2, <4>1
      <4>4. ~(Ahead < lengths[Gone + 1])
        BY ONLY <4>3
      <4>5. Delivered(Gone + 1)
        BY ONLY <2>1, <4>1, <4>2, <4>4 DEF ArrivedRight
      <4> QED BY ONLY <4>1, <4>5
    <3> QED BY ONLY <3>5, <3>6, <3>7
  <2> QED BY ONLY <2>2 DEF ArrivedIsDelivered, Arrived, Delivered
<1> QED BY <1>1, UmAlways, PTL

\* MAC is never told of less than is queued, and the count it is told of does not
\* pass zero (umSduBufferSize).
THEOREM MacIsToldEnough == UmSpec => []ReportCovers
<1>1. UmInv => ReportCovers
  BY DEF UmInv
<1> QED BY <1>1, UmAlways, PTL
=============================================================================
