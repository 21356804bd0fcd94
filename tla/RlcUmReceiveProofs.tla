-------------------------- MODULE RlcUmReceiveProofs --------------------------
(***************************************************************************)
(* Theorems about RlcUmReceive: for every window, every bound on the         *)
(* traffic that leaves it room (TrafficFits) and any number of units sent,    *)
(* through every wrap of the numbers before which nothing was amiss, what is  *)
(* thrown away is late, nothing stored is overwritten or held long, and units *)
(* are handed over in order, each once.                                       *)
(*                                                                           *)
(* The receiver keeps numbers modulo 2 * W and compares them as they are.     *)
(* The invariant UmInv says which units the three numbers it keeps stand for, *)
(* that all three are of one cycle of numbers, and how far they lie apart: a  *)
(* gap is given up after two runs of the timer, so one that opened before the *)
(* numbers BeforeWrap means is closed by the time they wrap.  The lemmas      *)
(* translate each comparison of numbers into one of units, and each step into *)
(* what it does to the units.                                                 *)
(***************************************************************************)
EXTENDS RlcUmReceive, FiniteSetTheorems, WellFoundedInduction, TLAPS

-----------------------------------------------------------------------------
(* Numbers.                                                                  *)

LEMMA Modulus == W \in Nat /\ W > 1 /\ M \in Nat /\ M = W + W /\ M > W /\ M > 0
BY WAssumption DEF M

\* Of every set of natural numbers there is a least.
LEMMA Least ==
  ASSUME NEW T \in SUBSET Nat, T # {}
  PROVE  \E x \in T : \A y \in T : x <= y
<1>1. PICK x \in T : \A y \in T : ~(<<y, x>> \in OpToRel(<, Nat))
  BY NatLessThanWellFounded, WFMin, Zenon
<1>2. \A y \in T : ~(y < x)
  BY <1>1, Zenon DEF OpToRel
<1> QED BY <1>2

\* Division with remainder, of negative numbers too.
LEMMA Quotient ==
  ASSUME NEW m \in Nat, m > 0, NEW n \in Int
  PROVE  n % m \in 0 .. m - 1 /\ \E q \in Int : n = q * m + (n % m)
<1>1. n % m \in 0 .. m - 1 /\ n = ((n \div m) * m) + (n % m) /\ n \div m \in Int
  OBVIOUS
<1> QED BY <1>1

LEMMA SameQuotient ==
  ASSUME NEW m \in Nat, m > 0, NEW a \in Int, NEW b \in Int,
         a * m < b * m + m, b * m < a * m + m
  PROVE  a = b
OBVIOUS

\* The remainders of a run of numbers that begins with a multiple.
LEMMA Residue ==
  ASSUME NEW c \in Int, c % M = 0, NEW n \in c .. c + M - 1
  PROVE  n % M = n - c
<1>1. PICK b \in Int : c = b * M + (c % M)
  BY Modulus, Quotient
<1>2. n \in Int /\ n % M \in 0 .. M - 1
  BY Modulus, Quotient
<1>3. PICK a \in Int : n = a * M + (n % M)
  BY <1>2, Modulus, Quotient
<1>4. a * M \in Int /\ b * M \in Int /\ c = b * M
  BY <1>1, Modulus
<1>5. a * M < b * M + M /\ b * M < a * M + M
  BY <1>2, <1>3, <1>4, Modulus
<1>6. a = b
  BY <1>5, Modulus, SameQuotient
<1> QED BY <1>2, <1>3, <1>4, <1>6

\* The multiples of M next to a multiple.
LEMMA NextBase ==
  ASSUME NEW c \in Int, c % M = 0
  PROVE  (c + M) % M = 0 /\ (c - M) % M = 0
<1>1. PICK b \in Int : c = b * M + (c % M)
  BY Modulus, Quotient
<1>2. ASSUME NEW k \in {-1, 1} PROVE (c + k * M) % M = 0
  <2>1. c + k * M \in Int
    BY <1>2, Modulus
  <2>2. PICK a \in Int : c + k * M = a * M + ((c + k * M) % M)
    BY <2>1, Modulus, Quotient
  <2>3. (c + k * M) % M \in 0 .. M - 1
    BY <2>1, Modulus, Quotient
  <2>4. (b + k) * M = b * M + k * M /\ b * M \in Int /\ a * M \in Int /\ k * M \in Int /\ (b + k) * M \in Int
    BY <1>2, Modulus
  <2>5. c + k * M = (b + k) * M
    BY <1>1, <2>4
  <2>6. a * M < (b + k) * M + M /\ (b + k) * M < a * M + M
    BY <2>2, <2>3, <2>4, <2>5, Modulus
  <2>7. a = b + k
    BY <1>2, <2>6, Modulus, SameQuotient
  <2> QED BY <2>2, <2>3, <2>4, <2>5, <2>7
<1>3. c + 1 * M = c + M /\ c + (-1) * M = c - M
  BY Modulus
<1> QED BY <1>2, <1>3

\* The remainders in the two cycles around a multiple.
LEMMA Number ==
  ASSUME NEW c \in Int, c % M = 0, NEW n \in c - M .. c + M - 1
  PROVE  n % M = IF n >= c THEN n - c ELSE n - c + M
<1>1. CASE n >= c
  <2>1. n \in c .. c + M - 1
    BY <1>1, Modulus
  <2>2. n % M = n - c
    BY <2>1, Residue
  <2> QED BY <1>1, <2>2
<1>2. CASE n < c
  <2>1. c - M \in Int /\ (c - M) % M = 0 /\ n \in c - M .. (c - M) + M - 1
    BY <1>2, Modulus, NextBase
  <2>2. n % M = n - (c - M)
    BY <2>1, Residue
  <2> QED BY <1>2, <2>2, Modulus
<1> QED BY <1>1, <1>2, Modulus

\* The remainder of a difference of two numbers, or of a little more than one.
LEMMA Wrap ==
  ASSUME NEW z \in -M .. M + M - 1
  PROVE  z % M = IF z < 0 THEN z + M ELSE IF z < M THEN z ELSE z - M
<1>1. 0 \in Int /\ 0 % M = 0 /\ M % M = 0
  <2>1. 0 % M = 0
    BY Modulus
  <2>2. (0 + M) % M = 0 /\ 0 + M = M
    BY <2>1, NextBase, Modulus
  <2> QED BY <2>1, <2>2
<1>2. CASE z < M
  <2>1. z \in 0 - M .. 0 + M - 1
    BY <1>2, Modulus
  <2>2. z % M = IF z >= 0 THEN z - 0 ELSE z - 0 + M
    BY <1>1, <2>1, Number
  <2> QED BY <1>2, <2>2, Modulus
<1>3. CASE z >= M
  <2>1. z \in M .. M + M - 1 /\ M \in Int
    BY <1>3, Modulus
  <2>2. z % M = z - M
    BY <1>1, <2>1, Residue
  <2> QED BY <1>3, <2>2, Modulus
<1> QED BY <1>2, <1>3, Modulus

\* Two units less than a cycle apart have different numbers.
LEMMA SameNumber ==
  ASSUME NEW u \in Int, NEW v \in Int, u % M = v % M, u < v + M, v < u + M
  PROVE  u = v
<1>1. PICK a \in Int : u = a * M + (u % M)
  BY Modulus, Quotient
<1>2. PICK b \in Int : v = b * M + (v % M)
  BY Modulus, Quotient
<1>3. a * M \in Int /\ b * M \in Int /\ u % M \in Int
  BY Modulus, Quotient
<1>4. a * M < b * M + M /\ b * M < a * M + M
  BY <1>1, <1>2, <1>3, Modulus
<1>5. a = b
  BY <1>4, Modulus, SameQuotient
<1> QED BY <1>1, <1>2, <1>5

LEMMA InSN == \A n \in Int : n % M \in SN
BY Modulus, Quotient DEF SN

-----------------------------------------------------------------------------
(* The window, as the set of the units stored.                               *)

Units(win) == {win[n] : n \in SN} \ {None}
Filed(win) ==
  /\ win \in [SN -> Int]
  /\ \A n \in SN : win[n] # None => win[n] \in Nat /\ win[n] % M = n

\* A stored unit lies at its number.
LEMMA UnitFiled ==
  ASSUME NEW win, Filed(win), NEW v \in Units(win)
  PROVE  v \in Nat /\ v % M \in SN /\ win[v % M] = v /\ v # None
BY DEF Units, Filed, None

LEMMA FiledUnit ==
  ASSUME NEW win, Filed(win), NEW n \in SN, win[n] # None
  PROVE  win[n] \in Units(win)
BY DEF Units, Filed, None

\* A number is taken by the one unit near it that has this number.
LEMMA Slot ==
  ASSUME NEW win, Filed(win), NEW g \in Int, \A v \in Units(win) : v < g + M /\ g < v + M
  PROVE  /\ win[g % M] # None <=> g \in Units(win)
         /\ g \in Units(win) => win[g % M] = g
<1>1. g % M \in SN
  BY InSN
<1>2. ASSUME win[g % M] # None PROVE g \in Units(win)
  <2>1. win[g % M] \in Units(win) /\ win[g % M] \in Nat /\ win[g % M] % M = g % M
    BY <1>1, <1>2, FiledUnit DEF Filed
  <2>2. win[g % M] = g
    BY <2>1, SameNumber
  <2> QED BY <2>1, <2>2
<1> QED BY <1>2, UnitFiled

\* Storing a unit in a free place.
LEMMA Put ==
  ASSUME NEW win, Filed(win), NEW u \in Nat, win[u % M] = None
  PROVE  /\ Filed([win EXCEPT ![u % M] = u])
         /\ Units([win EXCEPT ![u % M] = u]) = Units(win) \cup {u}
<1> DEFINE new == [win EXCEPT ![u % M] = u]
<1>1. u % M \in SN /\ u # None
  BY InSN DEF None
<1>2. new \in [SN -> Int] /\ new[u % M] = u /\ \A n \in SN : n # u % M => new[n] = win[n]
  BY <1>1 DEF Filed
<1> HIDE DEF new
<1>3. Filed(new)
  BY <1>1, <1>2 DEF Filed
<1>4. Units(new) \subseteq Units(win) \cup {u}
  BY <1>2 DEF Units
<1>5. Units(win) \cup {u} \subseteq Units(new)
  BY <1>1, <1>2 DEF Units
<1> QED BY <1>3, <1>4, <1>5 DEF new

\* Emptying places.
LEMMA Taken ==
  ASSUME NEW win, Filed(win), NEW T \in SUBSET SN
  PROVE  /\ Filed([n \in SN |-> IF n \in T THEN None ELSE win[n]])
         /\ Units([n \in SN |-> IF n \in T THEN None ELSE win[n]]) = {v \in Units(win) : v % M \notin T}
<1> DEFINE new == [n \in SN |-> IF n \in T THEN None ELSE win[n]]
<1>1. new \in [SN -> Int] /\ (\A n \in SN : new[n] = IF n \in T THEN None ELSE win[n])
  BY DEF Filed, None
<1> HIDE DEF new
<1>2. Filed(new)
  BY <1>1 DEF Filed
<1>3. ASSUME NEW v \in Units(new) PROVE v \in Units(win) /\ v % M \notin T
  BY <1>1, <1>2, UnitFiled DEF Units
<1>4. ASSUME NEW v \in Units(win), v % M \notin T PROVE v \in Units(new)
  <2>1. v % M \in SN /\ win[v % M] = v /\ v # None
    BY UnitFiled
  <2>2. new[v % M] = v
    BY <1>1, <1>4, <2>1
  <2> QED BY <2>1, <2>2 DEF Units
<1> QED BY <1>2, <1>3, <1>4 DEF new

-----------------------------------------------------------------------------
(* Differences of numbers, as the receiver takes them.                       *)

LEMMA Shift ==
  ASSUME NEW z \in Int, NEW q \in Int
  PROVE  (z + q * M) % M = z % M
<1>1. q * M \in Int /\ z + q * M \in Int
  BY Modulus
<1>2. PICK a \in Int : z = a * M + (z % M)
  BY Modulus, Quotient
<1>3. PICK b \in Int : z + q * M = b * M + ((z + q * M) % M)
  BY <1>1, Modulus, Quotient
<1>4. z % M \in 0 .. M - 1 /\ (z + q * M) % M \in 0 .. M - 1
  BY <1>1, Modulus, Quotient
<1>5. (a + q) * M = a * M + q * M /\ a * M \in Int /\ b * M \in Int
  BY Modulus
<1>6. b * M < (a + q) * M + M /\ (a + q) * M < b * M + M
  BY <1>1, <1>2, <1>3, <1>4, <1>5, Modulus
<1>7. b = a + q
  BY <1>6, Modulus, SameQuotient
<1> QED BY <1>1, <1>2, <1>3, <1>4, <1>5, <1>7

\* A difference of numbers is the difference of the units, modulo M.
LEMMA Difference ==
  ASSUME NEW a \in Int, NEW b \in Int, NEW k \in Int
  PROVE  ((a % M) - (b % M) + k) % M = (a - b + k) % M
<1>1. PICK p \in Int : a = p * M + (a % M)
  BY Modulus, Quotient
<1>2. PICK q \in Int : b = q * M + (b % M)
  BY Modulus, Quotient
<1>3. a % M \in Int /\ b % M \in Int
  BY Modulus, Quotient
<1> DEFINE z == (a % M) - (b % M) + k
<1>4. z \in Int /\ p - q \in Int
  BY <1>3
<1>5. (p - q) * M = p * M - q * M /\ p * M \in Int /\ q * M \in Int
  BY Modulus
<1>6. z + (p - q) * M = a - b + k
  BY <1>1, <1>2, <1>3, <1>5
<1>7. (z + (p - q) * M) % M = z % M
  BY <1>4, Shift
<1> QED BY <1>6, <1>7

LEMMA Sum ==
  ASSUME NEW a \in Int, NEW k \in Int
  PROVE  ((a % M) + k) % M = (a + k) % M
<1>1. 0 % M = 0 /\ 0 \in Int
  BY Modulus
<1>2. ((a % M) - (0 % M) + k) % M = (a - 0 + k) % M
  BY <1>1, Difference
<1>3. (a % M) - (0 % M) + k = (a % M) + k /\ a - 0 + k = a + k
  <2>1. a % M \in Int
    BY Modulus, Quotient
  <2> QED BY <1>1, <2>1
<1> QED BY <1>2, <1>3

\* Where rlc_UM_reassemble_deliver visits a unit: from h + 1 on, around the circle.
LEMMA PlaceIs ==
  ASSUME NEW v \in Int, NEW h \in Int, v - h - 1 \in -M .. M - 1
  PROVE  Place(v % M, h % M) = IF v <= h THEN v - h - 1 + M ELSE v - h - 1
<1>1. ((v % M) - (h % M) + (-1)) % M = (v - h + (-1)) % M
  BY Difference
<1>2. (v % M) - (h % M) + (-1) = (v % M) - (h % M) - 1 /\ v - h + (-1) = v - h - 1
  <2>1. v % M \in Int /\ h % M \in Int
    BY Modulus, Quotient
  <2> QED BY <2>1
<1>3. v - h - 1 \in -M .. M + M - 1
  BY Modulus
<1>4. (v - h - 1) % M = IF v - h - 1 < 0 THEN v - h - 1 + M ELSE v - h - 1
  BY <1>3, Wrap, Modulus
<1> QED BY <1>1, <1>2, <1>4 DEF Place

\* The subtraction of isInsideUmRecvWin, in units.
LEMMA InsideIs ==
  ASSUME NEW x \in Int, NEW h \in Int, x - h + W \in -M .. M + M - 1
  PROVE  ((x % M) - ((h % M) - W)) % M
           = IF x - h + W < 0 THEN x - h + W + M ELSE IF x - h + W < M THEN x - h + W ELSE x - h + W - M
<1>1. W \in Int
  BY Modulus
<1>2. ((x % M) - (h % M) + W) % M = (x - h + W) % M
  BY <1>1, Difference
<1>3. (x % M) - (h % M) + W = (x % M) - ((h % M) - W)
  <2>1. x % M \in Int /\ h % M \in Int
    BY Modulus, Quotient
  <2> QED BY <1>1, <2>1
<1>4. (x - h + W) % M = IF x - h + W < 0 THEN x - h + W + M ELSE IF x - h + W < M THEN x - h + W ELSE x - h + W - M
  <2> DEFINE z == x - h + W
  <2>1. z \in -M .. M + M - 1
    OBVIOUS
  <2> HIDE DEF z
  <2>2. z % M = IF z < 0 THEN z + M ELSE IF z < M THEN z ELSE z - M
    BY <2>1, Wrap
  <2> QED BY <2>2, Modulus DEF z
<1> QED BY <1>2, <1>3, <1>4

-----------------------------------------------------------------------------
(* The order of delivery.                                                    *)

\* The elements of a finite set take every rank once.
LEMMA Ranks ==
  ASSUME NEW N, IsFiniteSet(N), NEW f \in [N -> Int],
         \A m, n \in N : f[m] = f[n] => m = n
  PROVE  LET Rank(n) == Cardinality({m \in N : f[m] <= f[n]})
         IN  /\ \A i \in 1 .. Cardinality(N) : \E n \in N : Rank(n) = i
             /\ \A n \in N : Rank(n) \in 1 .. Cardinality(N)
             /\ \A m, n \in N : Rank(m) <= Rank(n) <=> f[m] <= f[n]
<1> DEFINE Below(n) == {m \in N : f[m] <= f[n]}
           Rank(n) == Cardinality(Below(n))
           k == Cardinality(N)
<1>1. k \in Nat /\ \A n \in N : f[n] \in Int
  BY FS_CardinalityType
<1>2. \A n \in N : IsFiniteSet(Below(n)) /\ Below(n) \subseteq N /\ n \in Below(n)
  <2> TAKE n \in N
  <2>1. Below(n) \in SUBSET N
    OBVIOUS
  <2>2. IsFiniteSet(Below(n))
    BY <2>1, FS_Subset
  <2> QED BY <1>1, <2>1, <2>2
<1>3. \A n \in N : Rank(n) \in 1 .. k
  <2> TAKE n \in N
  <2>1. Rank(n) \in Nat /\ Rank(n) # 0
    BY <1>2, FS_CardinalityType, FS_EmptySet
  <2>2. Rank(n) <= k
    BY <1>2, FS_Subset
  <2> QED BY <1>1, <2>1, <2>2
<1>4. ASSUME NEW m \in N, NEW n \in N, f[m] <= f[n] PROVE Rank(m) <= Rank(n)
  <2>1. Below(m) \in SUBSET Below(n)
    BY <1>1, <1>4
  <2> QED BY <1>2, <2>1, FS_Subset
<1>5. ASSUME NEW m \in N, NEW n \in N, f[m] < f[n] PROVE Rank(m) < Rank(n)
  <2>1. f[m] <= f[n]
    BY <1>1, <1>5
  <2>2. Below(m) \in SUBSET Below(n) /\ Below(m) # Below(n)
    BY <1>1, <1>2, <1>5, <2>1
  <2>3. Rank(m) # Rank(n)
    BY <1>2, <2>2, FS_Subset
  <2>4. Rank(m) <= Rank(n)
    BY <1>4, <2>1
  <2>5. Rank(m) \in Int /\ Rank(n) \in Int
    BY <1>3
  <2> HIDE DEF Rank
  <2> QED BY <2>3, <2>4, <2>5
<1> HIDE DEF Rank, Below
<1>6. \A m, n \in N : Rank(m) <= Rank(n) <=> f[m] <= f[n]
  <2> TAKE m, n \in N
  <2>1. Rank(m) \in Int /\ Rank(n) \in Int /\ f[m] \in Int /\ f[n] \in Int
    BY <1>1, <1>3
  <2>2. CASE f[m] <= f[n]
    BY <1>4, <2>2
  <2>3. CASE f[n] < f[m]
    BY <1>5, <2>1, <2>3
  <2> QED BY <2>1, <2>2, <2>3
<1>7. \A i \in 1 .. k : \E n \in N : Rank(n) = i
  <2> DEFINE g == [n \in N |-> Rank(n)]
  <2>1. g \in [N -> 1 .. k] /\ \A n \in N : g[n] = Rank(n)
    BY <1>3
  <2>2. \A m, n \in N : g[m] = g[n] => m = n
    <3> TAKE m, n \in N
    <3> HAVE g[m] = g[n]
    <3>1. Rank(m) = Rank(n) /\ Rank(m) \in Int
      BY <1>3, <2>1
    <3>2. f[m] <= f[n] /\ f[n] <= f[m]
      BY <1>6, <3>1
    <3> QED BY <1>1, <3>2
  <2>3. DOMAIN g = N
    OBVIOUS
  <2> HIDE DEF g
  <2>4. g \in Injection(N, 1 .. k)
    BY <2>1, <2>2, <2>3 DEF Injection, IsInjective
  <2>5. IsFiniteSet(1 .. k) /\ Cardinality(1 .. k) = k
    <3>1. 1 \in Int /\ k \in Int
      BY <1>1
    <3> QED BY <1>1, <3>1, FS_Interval
  <2> HIDE DEF k
  <2>6. g \in Surjection(N, 1 .. k)
    BY <2>4, <2>5, FS_Injection DEF k
  <2> QED BY <2>1, <2>6 DEF Surjection
<1> QED BY <1>3, <1>6, <1>7 DEF Rank, Below

-----------------------------------------------------------------------------
(* Where the window's lower edge rests, and what is handed over.             *)

\* A number that starts at n goes on over k stored ones.
LEMMA RestIs ==
  ASSUME NEW n \in Int, NEW win, NEW range, NEW k \in 0 .. M - 1,
         \A i \in 0 .. k - 1 : win[(n + i) % M] # None /\ (n + i) % M \in range,
         win[(n + k) % M] = None \/ (n + k) % M \notin range
  PROVE  Rest(n % M, win, range) = (n + k) % M
<1> DEFINE over(j) == \A i \in 0 .. j - 1 : win[((n % M) + i) % M] # None /\ ((n % M) + i) % M \in range
           stops(j) == over(j) /\ (j = M \/ ~over(j + 1))
           c == CHOOSE j \in 0 .. M : stops(j)
<1>1. M \in Nat /\ k \in Nat /\ k < M
  BY Modulus
<1>2. \A i \in 0 .. M : ((n % M) + i) % M = (n + i) % M
  <2> TAKE i \in 0 .. M
  <2>1. i \in Int
    BY <1>1
  <2> QED BY <2>1, Sum
<1>3. over(k)
  <2> SUFFICES ASSUME NEW i \in 0 .. k - 1
               PROVE  win[((n % M) + i) % M] # None /\ ((n % M) + i) % M \in range
    OBVIOUS
  <2>1. i \in 0 .. M
    BY <1>1
  <2>2. ((n % M) + i) % M = (n + i) % M
    BY <1>2, <2>1
  <2> QED BY <2>2
<1>4. \A j \in 0 .. M : j > k => ~over(j)
  <2> TAKE j \in 0 .. M
  <2> HAVE j > k
  <2>1. k \in 0 .. j - 1 /\ k \in 0 .. M
    BY <1>1
  <2>2. ((n % M) + k) % M = (n + k) % M
    BY <1>2, <2>1
  <2> QED BY <2>1, <2>2
<1>5. k \in 0 .. M /\ stops(k)
  <2>1. k + 1 \in 0 .. M /\ k + 1 > k
    BY <1>1
  <2>2. ~over(k + 1)
    BY <1>4, <2>1
  <2> HIDE DEF over
  <2> QED BY <1>1, <1>3, <2>2
<1>6. c \in 0 .. M /\ stops(c)
  <2> HIDE DEF stops
  <2> QED BY <1>5
<1>7. ~(c < k)
  <2> SUFFICES ASSUME c < k PROVE FALSE
    OBVIOUS
  <2> HIDE DEF c
  <2>1. c + 1 <= k /\ c # M /\ c + 1 \in Nat
    BY <1>1, <1>6
  <2>2. over(c + 1)
    <3> SUFFICES ASSUME NEW i \in 0 .. (c + 1) - 1
                 PROVE  win[((n % M) + i) % M] # None /\ ((n % M) + i) % M \in range
      OBVIOUS
    <3>1. i \in 0 .. k - 1
      BY <1>1, <2>1
    <3> QED BY <1>3, <3>1
  <2> QED BY <1>6, <2>1, <2>2
<1>8. c = k
  <2> HIDE DEF c, over
  <2> QED BY <1>1, <1>4, <1>6, <1>7
<1>9. Rest(n % M, win, range) = ((n % M) + c) % M
  BY DEF Rest
<1> HIDE DEF c
<1>10. ((n % M) + k) % M = (n + k) % M
  BY <1>2, <1>5
<1> QED BY <1>8, <1>9, <1>10

\* What a delivery up to r leaves.
DeliversBelow(win, r) ==
  LET gone == {v \in Units(win) : v < r}
  IN  /\ Filed(window') /\ Units(window') = {v \in Units(win) : v >= r}
      /\ \A n \in SN : window'[n] \in {win[n], None}
      /\ gone = {} => handed' = <<>> /\ last' = last
      /\ gone # {} => /\ handed' # <<>> /\ last' = handed'[Len(handed')]
                      /\ Len(handed') \in Nat \ {0} /\ DOMAIN handed' = 1 .. Len(handed')
                      /\ \A i \in DOMAIN handed' : handed'[i] \in gone
                      /\ \A i, j \in DOMAIN handed' : i < j => handed'[i] < handed'[j]
                      /\ last' \in gone /\ \A v \in gone : v <= last'

\* rlc_UM_reassemble_deliver hands over what is stored below r, in order.
LEMMA Delivered ==
  ASSUME NEW win, Filed(win), NEW h \in Int, NEW r \in Int, r <= h, h + 1 - M <= r,
         \A v \in Units(win) : h + 1 - M <= v /\ v <= h,
         Deliver(win, h % M, r % M)
  PROVE  DeliversBelow(win, r)
<1> DEFINE found == Visited(win, h % M, r % M)
           gone == {v \in Units(win) : v < r}
           k == Cardinality(found)
           Rank(n) == Cardinality({m \in found : Place(m, h % M) <= Place(n, h % M)})
<1>1. \A v \in Units(win) : v \in Int /\ v % M \in SN /\ win[v % M] = v /\ v # None
  BY UnitFiled
<1>2. \A v \in Int : h + 1 - M <= v /\ v <= h => Place(v % M, h % M) = v - h - 1 + M
  <2> TAKE v \in Int
  <2> HAVE h + 1 - M <= v /\ v <= h
  <2>1. v - h - 1 \in -M .. M - 1
    BY Modulus
  <2> QED BY <2>1, PlaceIs
<1>3. Place(r % M, h % M) = r - h - 1 + M
  BY <1>2
<1>4. found = {n \in SN : win[n] # None /\ win[n] < r}
  <2>1. ASSUME NEW n \in SN, win[n] # None
        PROVE  Place(n, h % M) = win[n] - h - 1 + M /\ win[n] \in Int
    <3>1. win[n] \in Units(win) /\ win[n] % M = n
      BY <2>1, FiledUnit DEF Filed
    <3>2. win[n] \in Int /\ h + 1 - M <= win[n] /\ win[n] <= h
      BY <1>1, <3>1
    <3> QED BY <1>2, <3>1, <3>2
  <2>2. \A n \in SN : win[n] # None => (Place(n, h % M) < Place(r % M, h % M) <=> win[n] < r)
    <3> TAKE n \in SN
    <3> HAVE win[n] # None
    <3>1. Place(n, h % M) = win[n] - h - 1 + M /\ win[n] \in Int
      BY <2>1
    <3> QED BY <1>3, <3>1, Modulus
  <2> QED BY <2>2 DEF Visited
<1>5. \A n \in found : win[n] \in gone /\ win[n] % M = n /\ Place(n, h % M) = win[n] - h - 1 + M
  <2> TAKE n \in found
  <2>1. n \in SN /\ win[n] # None /\ win[n] < r
    BY <1>4
  <2>2. win[n] \in Units(win) /\ win[n] % M = n
    BY <2>1, FiledUnit DEF Filed
  <2>3. win[n] \in Int /\ h + 1 - M <= win[n] /\ win[n] <= h
    BY <1>1, <2>2
  <2>4. Place(win[n] % M, h % M) = win[n] - h - 1 + M
    BY <1>2, <2>3
  <2> QED BY <2>1, <2>2, <2>4
<1>6. \A v \in gone : v % M \in found /\ win[v % M] = v
  BY <1>1, <1>4
<1>7. \A v \in Units(win) : v % M \notin found <=> v >= r
  BY <1>1, <1>4
<1>8. found \in SUBSET SN
  BY <1>4
<1>9. IsFiniteSet(found)
  <2>1. IsFiniteSet(SN)
    <3>1. 0 \in Int /\ M - 1 \in Int
      BY Modulus
    <3> QED BY <3>1, FS_Interval DEF SN
  <2> QED BY <1>8, <2>1, FS_Subset
<1>10. /\ handed' = [i \in 1 .. k |-> win[Nth(i, found, h % M)]]
       /\ last' = IF found = {} THEN last ELSE handed'[k]
       /\ window' = [n \in SN |-> IF n \in found THEN None ELSE win[n]]
  BY DEF Deliver
<1> HIDE DEF found
<1>11. Filed(window') /\ Units(window') = {v \in Units(win) : v >= r}
  <2>1. Filed(window') /\ Units(window') = {v \in Units(win) : v % M \notin found}
    BY <1>8, <1>10, Taken
  <2> QED BY <1>7, <2>1
<1>12. \A n \in SN : window'[n] \in {win[n], None}
  BY <1>10
<1>13. gone = {} <=> found = {}
  BY <1>5, <1>6
<1>14. k \in Nat /\ (k = 0 <=> found = {})
  BY <1>9, FS_CardinalityType, FS_EmptySet
<1>15. ASSUME found = {} PROVE handed' = <<>> /\ last' = last
  BY <1>10, <1>14, <1>15
<1>16. /\ \A i \in 1 .. k : \E n \in found : Rank(n) = i
       /\ \A n \in found : Rank(n) \in 1 .. k
       /\ \A m, n \in found : Rank(m) <= Rank(n) <=> win[m] <= win[n]
  <2> DEFINE f == [n \in found |-> win[n]]
  <2>1. f \in [found -> Int] /\ \A n \in found : f[n] = win[n]
    BY <1>1, <1>5
  <2>2. \A m, n \in found : f[m] = f[n] => m = n
    BY <1>5, <2>1
  <2>3. \A n \in found : {m \in found : Place(m, h % M) <= Place(n, h % M)} = {m \in found : f[m] <= f[n]}
    <3> TAKE n \in found
    <3>1. \A m \in found : Place(m, h % M) <= Place(n, h % M) <=> f[m] <= f[n]
      <4> TAKE m \in found
      <4>1. win[m] \in Int /\ win[n] \in Int
        BY <1>1, <1>5
      <4> QED BY <1>5, <2>1, <4>1, Modulus
    <3> QED BY <3>1
  <2> HIDE DEF f
  <2>4. /\ \A i \in 1 .. k : \E n \in found : Cardinality({m \in found : f[m] <= f[n]}) = i
        /\ \A n \in found : Cardinality({m \in found : f[m] <= f[n]}) \in 1 .. k
        /\ \A m, n \in found : Cardinality({j \in found : f[j] <= f[m]}) <= Cardinality({j \in found : f[j] <= f[n]}) <=> f[m] <= f[n]
    BY <1>9, <2>1, <2>2, Ranks
  <2>5. \A n \in found : Rank(n) = Cardinality({m \in found : f[m] <= f[n]})
    BY <2>3
  <2> HIDE DEF Rank
  <2> QED BY <2>1, <2>4, <2>5
<1>17. \A i \in 1 .. k : Nth(i, found, h % M) \in found /\ Rank(Nth(i, found, h % M)) = i
  <2> TAKE i \in 1 .. k
  <2>1. Nth(i, found, h % M) = CHOOSE n \in found : Rank(n) = i
    BY DEF Nth
  <2> HIDE DEF Rank
  <2> QED BY <1>16, <2>1
<1> HIDE DEF Rank, k
<1>18. \A i \in 1 .. k : handed'[i] = win[Nth(i, found, h % M)] /\ handed'[i] \in gone
  BY <1>5, <1>10, <1>17
<1>19. DOMAIN handed' = 1 .. k /\ Len(handed') = k
  <2>1. DOMAIN handed' = 1 .. k
    BY <1>10
  <2>2. handed' = [i \in 1 .. k |-> win[Nth(i, found, h % M)]]
    BY <1>10
  <2>3. k \in Nat
    BY <1>14
  <2> QED BY ONLY <2>1, <2>2, <2>3
<1>20. \A i, j \in 1 .. k : i < j => handed'[i] < handed'[j]
  <2> TAKE i, j \in 1 .. k
  <2> HAVE i < j
  <2>1. ~(Rank(Nth(j, found, h % M)) <= Rank(Nth(i, found, h % M)))
    BY <1>14, <1>17
  <2>2. ~(handed'[j] <= handed'[i])
    BY <1>16, <1>17, <1>18, <2>1
  <2>3. handed'[i] \in Int /\ handed'[j] \in Int
    BY <1>1, <1>18
  <2> QED BY <2>2, <2>3
<1>21. ASSUME found # {}
       PROVE  last' \in gone /\ handed' # <<>> /\ last' = handed'[Len(handed')] /\ \A v \in gone : v <= last'
  <2>1. k \in 1 .. k /\ k # 0
    BY <1>14, <1>21
  <2>2. last' = handed'[k]
    BY <1>10, <1>21
  <2>3. handed' # <<>>
    BY <1>19, <2>1
  <2>4. ASSUME NEW v \in gone PROVE v <= last'
    <3>1. v % M \in found /\ win[v % M] = v
      BY <1>6
    <3>2. Rank(v % M) <= Rank(Nth(k, found, h % M))
      BY <1>14, <1>16, <1>17, <2>1, <3>1
    <3>3. win[v % M] <= win[Nth(k, found, h % M)]
      BY <1>16, <1>17, <2>1, <3>1, <3>2
    <3> QED BY <1>18, <2>1, <2>2, <3>1, <3>3
  <2> QED BY <1>18, <1>19, <2>1, <2>2, <2>3, <2>4
<1> HIDE DEF gone
<1> QED BY <1>11, <1>12, <1>13, <1>14, <1>15, <1>18, <1>19, <1>20, <1>21 DEF DeliversBelow, gone


-----------------------------------------------------------------------------
(* The inductive invariant.                                                  *)

\* What the window must leave room for: two runs of the timer, each with the units
\* under way as it starts, and the units missing between them.
TrafficFits == 2 * (Behind + Pace) + Gap + 1 <= W

\* Of a cycle of numbers: the unit of number 0 of the one the next new unit is in,
\* and the first of the numbers that BeforeWrap means.
Base == top - (top % M)
Margin == 2 * (Behind + Pace) + 3
Zone == Base + M - Margin

\* The units that vr_ur and vr_ux stand for, vr_uh standing for top; the units stored.
Lower == Base + vr_ur
Mark == Base + vr_ux
Held == Units(window)

\* What is on the air is recent.
Channel ==
  /\ sent \in Nat /\ top \in Nat /\ top <= sent /\ sent <= top + Gap + 1
  /\ \A u \in air : u \in Nat /\ sent - 1 - Behind <= u /\ u < sent

Timed == timer \in {"off", "runs", "due"} /\ stray \in Nat /\ since \in 0 .. Pace

\* What is stored came, is ahead of Lower, and has not been handed over; nor has
\* anything newer.
Stored ==
  /\ Filed(window) /\ last \in Int /\ -1 <= last /\ last < top /\ last \notin air
  /\ last = top - 1 \/ top - 1 \in Held
  /\ \A v \in Held : Lower < v /\ last < v /\ v < top /\ v \notin air

\* Everything below Lower is behind what was handed over.  A stray expiry takes Lower
\* back, but only over what has come.
Level ==
  /\ vr_uh = top % M /\ vr_ur \in SN /\ vr_ux \in SN
  /\ Lower <= top /\ Lower - 1 <= last
  /\ \A u \in air : (Lower <= u => last < u) /\ (Zone <= u => top <= u)

\* While an expiry is to come, stray or not, Mark was the newest unit not long ago,
\* and whatever lies between Mark and Lower has come.
Waiting ==
  /\ sent <= Mark + Behind + since /\ Mark <= top
  /\ Mark - 1 <= last \/ Mark - 1 \in Held
  /\ \A u \in air : Mark <= u => Lower <= u

\* While the timer runs, there is a gap below Mark, and what came before the wrap is
\* stored.
Running ==
  /\ Lower < Mark /\ Mark <= Lower + Behind + Pace + Gap + 1
  /\ \A v \in Int : Mark <= v /\ Zone <= v /\ v < top => v \in Held
  /\ Zone < top => Mark <= Zone + Behind + Pace + 1

\* While it does not, an expiry has left no gap, or one that the next unit to come
\* starts the timer for.
Idle ==
  /\ top <= Lower + Behind + Pace
  /\ Lower < top /\ Zone < top => top <= Zone + Behind + Pace

Calm ==
  /\ Stored /\ Level
  /\ timer # "off" \/ stray > 0 => Waiting
  /\ timer = "off" => Idle
  /\ timer # "off" => Running
  /\ stray > 0 => top <= Zone + Behind

UmInv == Channel /\ Timed /\ (~disturbed => Calm)

-----------------------------------------------------------------------------
(* What the invariant says of the numbers.                                   *)

\* What the assumptions say of the constants.
LEMMA Parameters ==
  ASSUME TrafficFits
  PROVE  /\ W \in Nat /\ W > 1 /\ M \in Nat /\ M = W + W
         /\ Gap \in Nat /\ Behind \in Nat /\ Pace \in Nat
         /\ Behind + Behind + Pace + Pace + Gap + 1 <= W /\ Behind + 2 <= W
         /\ Margin = Behind + Behind + Pace + Pace + 3 /\ Margin <= M
BY Modulus, BoundsAssumption DEF TrafficFits, Margin

LEMMA BaseIs ==
  ASSUME top \in Nat
  PROVE  /\ Base \in Int /\ Base % M = 0 /\ Base <= top /\ top < Base + M /\ top % M = top - Base
         /\ \A n \in Int : Base <= n /\ n < Base + M => n % M = n - Base
<1>1. PICK q \in Int : top = q * M + (top % M)
  BY Modulus, Quotient
<1>2. top % M \in 0 .. M - 1 /\ q * M \in Int
  BY Modulus, Quotient
<1>3. Base = 0 + q * M
  BY <1>1, <1>2 DEF Base
<1>4. (0 + q * M) % M = 0 % M /\ 0 % M = 0
  <2>1. 0 \in Int /\ 0 % M = 0
    BY Modulus
  <2> QED BY <2>1, Shift
<1>5. Base \in Int /\ Base % M = 0 /\ Base <= top /\ top < Base + M /\ top % M = top - Base
  BY <1>1, <1>2, <1>3, <1>4, Modulus
<1>6. ASSUME NEW n \in Int, Base <= n, n < Base + M PROVE n % M = n - Base
  <2>1. n \in Base .. Base + M - 1
    BY <1>5, <1>6, Modulus
  <2> QED BY <1>5, <2>1, Residue
<1> QED BY <1>5, <1>6

\* The three numbers and the units they stand for, and how far these lie apart.
LEMMA Facts ==
  ASSUME TrafficFits, UmInv, ~disturbed
  PROVE  /\ sent \in Nat /\ top \in Nat /\ top <= sent /\ sent <= top + Gap + 1
         /\ Base \in Int /\ Base % M = 0 /\ Base <= top /\ top < Base + M
         /\ \A n \in Int : Base <= n /\ n < Base + M => n % M = n - Base
         /\ Zone \in Int /\ Zone = Base + M - Margin /\ Base <= Zone
         /\ vr_uh = top - Base /\ vr_uh = top % M
         /\ Lower \in Int /\ Base <= Lower /\ Lower <= top /\ vr_ur = Lower - Base /\ vr_ur = Lower % M
         /\ Mark \in Int /\ Base <= Mark /\ Mark < Base + M /\ vr_ux = Mark - Base /\ vr_ux = Mark % M
         /\ sent <= Lower + Behind + Behind + Pace + Pace + Gap + 1
         /\ Filed(window) /\ last \in Int /\ since \in 0 .. Pace
         /\ \A v \in Held : v \in Nat /\ v \in Int /\ Lower < v /\ last < v /\ v < top /\ v \notin air
         /\ \A u \in air : u \in Nat /\ u \in Int /\ sent - 1 - Behind <= u /\ u < sent
<1>1. Channel /\ Timed /\ Calm
  BY DEF UmInv
<1>2. /\ sent \in Nat /\ top \in Nat /\ top <= sent /\ sent <= top + Gap + 1
      /\ \A u \in air : u \in Nat /\ sent - 1 - Behind <= u /\ u < sent
  BY <1>1 DEF Channel
<1>3. /\ Base \in Int /\ Base % M = 0 /\ Base <= top /\ top < Base + M /\ top % M = top - Base
      /\ \A n \in Int : Base <= n /\ n < Base + M => n % M = n - Base
  BY <1>2, BaseIs
<1>4. Zone \in Int /\ Zone = Base + M - Margin /\ Base <= Zone
  BY <1>3, Parameters DEF Zone
<1>5. vr_uh = top % M /\ vr_ur \in SN /\ vr_ux \in SN /\ Lower <= top
  BY <1>1 DEF Calm, Level
<1>6. /\ Lower \in Int /\ Base <= Lower /\ Lower < Base + M /\ vr_ur = Lower - Base
      /\ Mark \in Int /\ Base <= Mark /\ Mark < Base + M /\ vr_ux = Mark - Base
  BY <1>3, <1>5, Modulus DEF SN, Lower, Mark
<1>7. vr_ur = Lower % M /\ vr_ux = Mark % M
  BY <1>3, <1>6
<1>8. sent <= Lower + Behind + Behind + Pace + Pace + Gap + 1
  <2>1. CASE timer = "off"
    BY <1>1, <1>2, <1>6, <2>1, Parameters DEF Calm, Idle
  <2>2. CASE timer # "off"
    <3>1. Waiting /\ Running
      BY <1>1, <2>2 DEF Calm
    <3>2. sent <= Mark + Behind + since /\ Mark <= Lower + Behind + Pace + Gap + 1 /\ since \in 0 .. Pace
      BY <1>1, <3>1 DEF Waiting, Running, Timed
    <3> QED BY <1>2, <1>6, <3>2, Parameters
  <2> QED BY <2>1, <2>2
<1>9. /\ Filed(window) /\ last \in Int /\ since \in 0 .. Pace
      /\ \A v \in Held : Lower < v /\ last < v /\ v < top /\ v \notin air
  BY <1>1 DEF Calm, Stored, Timed
<1>10. \A v \in Held : v \in Nat
  BY <1>9, UnitFiled DEF Held
<1> QED BY <1>2, <1>3, <1>4, <1>5, <1>6, <1>7, <1>8, <1>9, <1>10

\* What is on the air has its place in the window free.
LEMMA Free ==
  ASSUME TrafficFits, UmInv, ~disturbed, NEW u \in air
  PROVE  window[u % M] = None /\ u \notin Held
<1>1. u \in Int /\ sent - 1 - Behind <= u /\ u < sent /\ u \notin Held
  BY Facts
<1>2. \A v \in Held : v < u + M /\ u < v + M
  <2> TAKE v \in Held
  <2>1. /\ v \in Int /\ Lower < v /\ v < top /\ top <= sent /\ Lower \in Int /\ top \in Nat /\ sent \in Nat
        /\ sent <= Lower + Behind + Behind + Pace + Pace + Gap + 1
    BY Facts
  <2> QED BY <1>1, <2>1, Parameters
<1>3. window[u % M] # None <=> u \in Held
  BY <1>1, <1>2, Facts, Slot DEF Held
<1> QED BY <1>1, <1>3

\* The early returns throw away what lies below Lower, and that alone.
LEMMA DroppedIs ==
  ASSUME TrafficFits, UmInv, ~disturbed, NEW u \in air
  PROVE  Dropped(u % M) <=> u < Lower
<1>1. /\ u \in Int /\ sent - 1 - Behind <= u /\ u < sent
      /\ top \in Nat /\ sent \in Nat /\ top <= sent /\ sent <= top + Gap + 1
      /\ Lower \in Int /\ Lower <= top /\ sent <= Lower + Behind + Behind + Pace + Pace + Gap + 1
      /\ vr_uh = top % M /\ vr_ur = Lower % M
  BY Facts
<1>2. /\ u - top + W \in -M .. M + M - 1 /\ u - top + W >= 0 /\ u - top + W < M
      /\ Lower - top + W \in -M .. M + M - 1 /\ Lower - top + W >= 0 /\ Lower - top + W < M
  BY <1>1, Parameters
<1>3. ((u % M) - (vr_uh - W)) % M = u - top + W
  BY <1>1, <1>2, InsideIs
<1>4. (vr_ur - (vr_uh - W)) % M = Lower - top + W
  BY <1>1, <1>2, InsideIs
<1>5. window[u % M] = None
  BY Free
<1> QED BY <1>1, <1>3, <1>4, <1>5, Parameters DEF Dropped, isOrderedUm

\* A unit thrown away is late.
LEMMA LateDropped ==
  ASSUME TrafficFits, UmInv
  PROVE  DroppedIsLate
<1> SUFFICES ASSUME ~disturbed, NEW u \in air, u < Lower PROVE u < last
  BY DroppedIs DEF DroppedIsLate
<1>1. Lower - 1 <= last /\ last \notin air
  BY DEF UmInv, Calm, Level, Stored
<1>2. u \in Int /\ last \in Int /\ Lower \in Int
  BY Facts
<1> QED BY <1>1, <1>2

\* No stored unit waits for long.
LEMMA Brief ==
  ASSUME TrafficFits, UmInv
  PROVE  HeldBriefly
<1> SUFFICES ASSUME ~disturbed, NEW n \in SN, window[n] # None
             PROVE  top - window[n] <= 2 * (Behind + Pace) + Gap
  BY DEF HeldBriefly
<1>1. window[n] \in Held
  BY Facts, FiledUnit DEF Held
<1>2. /\ window[n] \in Int /\ Lower < window[n] /\ top <= sent /\ top \in Nat /\ sent \in Nat /\ Lower \in Int
      /\ sent <= Lower + Behind + Behind + Pace + Pace + Gap + 1
  BY <1>1, Facts
<1>3. 2 * (Behind + Pace) = Behind + Behind + Pace + Pace
  BY Parameters
<1> QED BY <1>2, <1>3, Parameters

-----------------------------------------------------------------------------
(* The steps that leave the receiver alone.                                  *)

LEMMA InitAt ==
  ASSUME TrafficFits, Init
  PROVE  UmInv
<1>1. /\ sent = 0 /\ air = {} /\ top = 0 /\ vr_ur = 0 /\ vr_uh = 0 /\ vr_ux = 0
      /\ timer = "off" /\ stray = 0 /\ since = 0 /\ last = -1 /\ window = [n \in SN |-> None]
  BY DEF Init, None
<1>2. top % M = 0 /\ Base = 0 /\ Lower = 0
  BY <1>1, Modulus DEF Base, Lower
<1>3. Filed(window) /\ Held = {}
  <2>1. window \in [SN -> Int] /\ \A n \in SN : window[n] = None
    BY <1>1 DEF None
  <2> QED BY <2>1 DEF Filed, Held, Units
<1>4. 0 \in SN
  BY Modulus DEF SN
<1>5. Channel /\ Timed
  BY <1>1, Parameters DEF Channel, Timed
<1>6. Stored /\ Level /\ Idle
  BY <1>1, <1>2, <1>3, <1>4, Parameters DEF Stored, Level, Idle
<1> QED BY <1>1, <1>5, <1>6 DEF UmInv, Calm

\* A step that changes none of these changes no operator made of them.
LEMMA SameReceiver ==
  ASSUME UNCHANGED <<top, vr_ur, vr_ux, window>>
  PROVE  Base' = Base /\ Zone' = Zone /\ Lower' = Lower /\ Mark' = Mark /\ Held' = Held
BY DEF Base, Zone, Lower, Mark, Held, Units

LEMMA SendAt ==
  ASSUME TrafficFits, UmInv, Send
  PROVE  UmInv'
<1>1. /\ sent' = sent + 1 /\ air' = {u \in air : u >= sent - Behind} \cup {sent}
      /\ sent <= top + Gap
      /\ timer # "off" \/ stray > 0 => since < Pace /\ since' = since + 1
      /\ ~(timer # "off" \/ stray > 0) => since' = since
      /\ UNCHANGED <<top, vr_ur, vr_uh, vr_ux, window, timer, stray, last, disturbed>>
  BY DEF Send
<1>2. Channel /\ Timed
  BY DEF UmInv
<1>3. Channel' /\ Timed'
  BY <1>1, <1>2, Parameters DEF Channel, Timed
<1>4. ASSUME ~disturbed PROVE Calm'
  <2>1. Stored /\ Level
    BY <1>4 DEF UmInv, Calm
  <2>2. Base' = Base /\ Zone' = Zone /\ Lower' = Lower /\ Mark' = Mark /\ Held' = Held
    BY <1>1, SameReceiver
  <2>3. /\ sent \in Nat /\ top \in Nat /\ top <= sent /\ Lower \in Int /\ Mark \in Int /\ last \in Int
        /\ \A v \in Held : v \in Int
    BY <1>4, Facts
  <2>4. \A u \in air' : u \in air \/ u = sent
    BY <1>1
  <2>5. Stored'
    BY <1>1, <2>1, <2>2, <2>3, <2>4 DEF Stored
  <2>6. Level'
    BY <1>1, <2>1, <2>2, <2>3, <2>4 DEF Level, Stored
  <2>7. ASSUME timer' # "off" \/ stray' > 0 PROVE Waiting'
    <3>1. Waiting /\ since' = since + 1 /\ since \in Int
      BY <1>1, <1>2, <1>4, <2>7 DEF UmInv, Calm, Timed
    <3> QED BY <1>1, <2>1, <2>2, <2>3, <2>4, <3>1, Parameters DEF Waiting, Level
  <2>8. /\ timer' = "off" => Idle'
        /\ timer' # "off" => Running'
        /\ stray' > 0 => top' <= Zone' + Behind
    BY <1>1, <1>4, <2>2 DEF UmInv, Calm, Idle, Running
  <2> QED BY <2>5, <2>6, <2>7, <2>8 DEF Calm
<1> QED BY <1>1, <1>3, <1>4 DEF UmInv

\* A step that only takes a unit off the air, or lets the timer expire.
LEMMA QuietAt ==
  ASSUME TrafficFits, UmInv, air' \subseteq air, disturbed => disturbed',
         UNCHANGED <<sent, top, vr_ur, vr_uh, vr_ux, window, stray, since, last>>,
         timer' = timer \/ (timer = "runs" /\ timer' = "due")
  PROVE  UmInv'
<1>1. Base' = Base /\ Zone' = Zone /\ Lower' = Lower /\ Mark' = Mark /\ Held' = Held
  BY SameReceiver
<1>2. Channel' /\ Timed'
  BY DEF UmInv, Channel, Timed
<1>3. ASSUME ~disturbed' PROVE Calm'
  <2>1. Stored' /\ Level'
    BY <1>1, <1>3 DEF UmInv, Calm, Stored, Level
  <2>2. timer' = "off" <=> timer = "off"
    OBVIOUS
  <2>3. Waiting => Waiting'
    BY <1>1 DEF Waiting
  <2>4. (Idle => Idle') /\ (Running => Running')
    BY <1>1 DEF Idle, Running
  <2> QED BY <1>1, <1>3, <2>1, <2>2, <2>3, <2>4 DEF UmInv, Calm
<1> QED BY <1>2, <1>3 DEF UmInv

\* What an arrival does to the channel.
LEMMA ArrivesAt ==
  ASSUME TrafficFits, UmInv, NEW u \in air, Arrives(u)
  PROVE  /\ Channel' /\ u \in Nat /\ air' = air \ {u} /\ sent' = sent
         /\ top' = IF u >= top THEN u + 1 ELSE top
         /\ disturbed => disturbed'
         /\ Disturbs(u) => disturbed'
<1>1. air' = air \ {u} /\ sent' = sent /\ top' = IF u >= top THEN u + 1 ELSE top
  BY DEF Arrives
<1>2. (disturbed => disturbed') /\ (Disturbs(u) => disturbed')
  BY Zenon DEF Arrives
<1>3. Channel' /\ u \in Nat
  BY <1>1, Parameters DEF UmInv, Channel
<1> QED BY <1>1, <1>2, <1>3

LEMMA DropAt ==
  ASSUME TrafficFits, UmInv, Drop
  PROVE  UmInv'
<1>1. PICK u \in air : /\ Dropped(u % M) /\ Arrives(u)
                       /\ UNCHANGED <<vr_ur, vr_uh, vr_ux, window, timer, stray, since, last>>
  BY DEF Drop
<1>2. /\ Channel' /\ air' = air \ {u} /\ sent' = sent
      /\ top' = IF u >= top THEN u + 1 ELSE top
      /\ disturbed => disturbed'
  BY <1>1, ArrivesAt
<1>3. Timed'
  BY <1>1 DEF UmInv, Timed
<1>4. ASSUME ~disturbed' PROVE UmInv'
  <2>1. ~disturbed
    BY <1>2, <1>4
  <2>2. u < Lower /\ u \in Int /\ Lower \in Int /\ Lower <= top /\ top \in Nat
    BY <1>1, <2>1, DroppedIs, Facts
  <2>3. top' = top /\ air' \subseteq air
    BY <1>2, <2>2
  <2> QED BY <1>1, <1>2, <2>3, QuietAt
<1> QED BY <1>2, <1>3, <1>4 DEF UmInv

-----------------------------------------------------------------------------
(* Where the lower edge goes, and what is handed over.                       *)

\* A number that starts at that of n rests at that of the first unit not stored.
LEMMA RestsAt ==
  ASSUME NEW win, Filed(win), NEW n \in Nat, NEW t \in Int, n <= t, t < n + M, NEW range,
         \A v \in Units(win) : v < n + M /\ t < v + M /\ (n <= v => v < t /\ v % M \in range)
  PROVE  \E g \in Int : /\ n <= g /\ g <= t /\ g \notin Units(win)
                        /\ \A v \in Int : n <= v /\ v < g => v \in Units(win)
                        /\ Rest(n % M, win, range) = g % M
<1> DEFINE T == {g \in Nat : n <= g /\ g \notin Units(win)}
<1>1. t \in T
  OBVIOUS
<1>2. T \in SUBSET Nat /\ T # {}
  BY <1>1
<1>3. PICK g \in T : \A y \in T : g <= y
  BY <1>2, Least, Zenon
<1>4. g \in Nat /\ n <= g /\ g <= t /\ g \notin Units(win)
  BY <1>1, <1>3
<1>5. \A v \in Int : n <= v /\ v < g => v \in Units(win)
  BY <1>3, <1>4
<1>6. \A v \in Int : n <= v /\ v <= t => (win[v % M] # None <=> v \in Units(win))
  <2> TAKE v \in Int
  <2> HAVE n <= v /\ v <= t
  <2>1. \A y \in Units(win) : y \in Int
    BY UnitFiled
  <2>2. \A y \in Units(win) : y < v + M /\ v < y + M
    BY <2>1, Modulus
  <2> QED BY <2>2, Slot
<1> DEFINE k == g - n
<1>7. k \in 0 .. M - 1 /\ n + k = g
  BY <1>4, Modulus
<1>8. \A i \in 0 .. k - 1 : win[(n + i) % M] # None /\ (n + i) % M \in range
  <2> TAKE i \in 0 .. k - 1
  <2>1. n + i \in Int /\ n <= n + i /\ n + i < g /\ n + i <= t
    BY <1>4, <1>7
  <2>2. n + i \in Units(win)
    BY <1>5, <2>1
  <2> QED BY <1>6, <2>1, <2>2
<1>9. win[(n + k) % M] = None
  BY <1>4, <1>6, <1>7
<1> HIDE DEF k, T
<1>10. Rest(n % M, win, range) = (n + k) % M
  <2>1. n \in Int
    OBVIOUS
  <2>2. win[(n + k) % M] = None \/ (n + k) % M \notin range
    BY <1>9
  <2>3. k \in 0 .. M - 1
    BY <1>7
  <2>4. \A i \in 0 .. k - 1 : win[(n + i) % M] # None /\ (n + i) % M \in range
    BY <1>8
  <2> QED BY ONLY <2>1, <2>2, <2>3, <2>4, RestIs
<1> QED BY <1>4, <1>5, <1>7, <1>10

\* What a delivery does to the last unit handed over: the service's step.
LEMMA Handed ==
  ASSUME NEW win, Filed(win), NEW g \in Int, DeliversBelow(win, g),
         last \in Int, sent \in Nat, sent' = sent,
         \A v \in Units(win) : last < v /\ v < sent
  PROVE  /\ last' \in Int /\ last <= last'
         /\ last' = last \/ (last' \in Units(win) /\ last' < g)
         /\ \A v \in Units(win) : v < g => v <= last'
         /\ Service!Next
<1> DEFINE gone == {v \in Units(win) : v < g}
<1>1. \A v \in Units(win) : v \in Int
  BY UnitFiled
<1>2. CASE gone = {}
  <2>1. handed' = <<>> /\ last' = last
    BY <1>2 DEF DeliversBelow
  <2>2. Service!Quiet
    BY <2>1 DEF Service!Quiet
  <2> QED BY <1>2, <2>1, <2>2 DEF Service!Next
<1>3. CASE gone # {}
  <2>1. /\ handed' # <<>> /\ last' = handed'[Len(handed')]
        /\ Len(handed') \in Nat \ {0} /\ DOMAIN handed' = 1 .. Len(handed')
        /\ \A i \in DOMAIN handed' : handed'[i] \in gone
        /\ \A i, j \in DOMAIN handed' : i < j => handed'[i] < handed'[j]
        /\ last' \in gone /\ \A v \in gone : v <= last'
    BY <1>3 DEF DeliversBelow
  <2>2. last' \in Int /\ last <= last' /\ last' \in Units(win) /\ last' < g
    BY <1>1, <2>1
  <2>3. ASSUME NEW i \in DOMAIN handed'
        PROVE  LET expected == IF i = 1 THEN last + 1 ELSE handed'[i - 1] + 1
               IN handed'[i] >= expected /\ handed'[i] < sent
    <3>1. handed'[i] \in gone /\ handed'[i] \in Int /\ last < handed'[i] /\ handed'[i] < sent
      BY <1>1, <2>1
    <3>2. CASE i = 1
      BY <3>1, <3>2
    <3>3. CASE i # 1
      <4>1. i - 1 \in DOMAIN handed' /\ i - 1 < i
        BY <2>1, <3>3
      <4>2. handed'[i - 1] < handed'[i] /\ handed'[i - 1] \in Int
        BY <1>1, <2>1, <4>1
      <4> QED BY <3>1, <3>3, <4>2
    <3> QED BY <3>2, <3>3
  <2>4. Service!Deliver
    BY <2>1, <2>3 DEF Service!Deliver
  <2> QED BY <2>1, <2>2, <2>4 DEF Service!Next
<1> QED BY <1>2, <1>3

-----------------------------------------------------------------------------
(* An expiry.                                                                *)

\* Where an expiry takes the lower edge.
ReorderedTo(g) ==
  /\ Mark <= g /\ g <= top /\ g \notin Held
  /\ \A v \in Int : Mark <= v /\ v < g => v \in Held
  /\ vr_ur' = g % M /\ DeliversBelow(window, g)

LEMMA Reordered ==
  ASSUME TrafficFits, UmInv, ~disturbed, Reorder
  PROVE  Waiting /\ \E g \in Int : ReorderedTo(g)
<1>1. timer # "off" \/ stray > 0
  BY DEF Reorder
<1>2. Waiting /\ Mark <= top
  BY <1>1 DEF UmInv, Calm, Waiting
<1>3. /\ Mark \in Int /\ Base <= Mark /\ Mark < Base + M /\ top < Base + M /\ Base <= top /\ Base \in Int
      /\ vr_ux = Mark - Base /\ vr_ux = Mark % M /\ top \in Nat /\ vr_uh = top % M
      /\ \A n \in Int : Base <= n /\ n < Base + M => n % M = n - Base
      /\ \A v \in Held : v \in Int /\ Lower < v /\ v < top
      /\ Lower \in Int /\ Base <= Lower /\ Filed(window)
  BY Facts
<1>4. Mark \in Nat
  <2>1. Mark - 1 \in Nat \/ Mark - 1 <= last
    BY <1>2, Facts DEF Waiting
  <2>2. Base >= 0
    <3>1. top % M <= top
      BY <1>3, Modulus
    <3> QED BY <1>3, <3>1, Modulus DEF Base
  <2> QED BY <1>3, <2>2
<1>5. \A v \in Held : v < Mark + M /\ top < v + M /\ (Mark <= v => v < top /\ v % M \in vr_ux .. M - 1)
  <2> TAKE v \in Held
  <2>1. v \in Int /\ Base <= v /\ v < Base + M /\ v < top
    BY <1>3, Modulus
  <2>2. v % M = v - Base
    BY <1>3, <2>1
  <2> QED BY <1>3, <2>1, <2>2, Modulus
<1>6. Mark <= top /\ top < Mark + M /\ top \in Int
  BY <1>2, <1>3, Modulus
<1>7. PICK g \in Int : /\ Mark <= g /\ g <= top /\ g \notin Held
                       /\ \A v \in Int : Mark <= v /\ v < g => v \in Held
                       /\ Rest(Mark % M, window, vr_ux .. M - 1) = g % M
  <2> DEFINE range == vr_ux .. M - 1
  <2>1. \A v \in Held : v < Mark + M /\ top < v + M /\ (Mark <= v => v < top /\ v % M \in range)
    BY <1>5
  <2> HIDE DEF range
  <2>2. \E g \in Int : /\ Mark <= g /\ g <= top /\ g \notin Units(window)
                       /\ \A v \in Int : Mark <= v /\ v < g => v \in Units(window)
                       /\ Rest(Mark % M, window, range) = g % M
    BY <1>3, <1>4, <1>6, <2>1, RestsAt DEF Held
  <2> QED BY <2>2 DEF Held, range
<1>8. vr_ur' = g % M /\ Deliver(window, top % M, g % M)
  BY <1>3, <1>7 DEF Reorder
<1>9. DeliversBelow(window, g)
  <2>1. top + 1 - M <= g /\ \A v \in Units(window) : top + 1 - M <= v /\ v <= top
    BY <1>3, <1>7, Modulus DEF Held
  <2> QED BY <1>3, <1>7, <1>8, <2>1, Delivered
<1> QED BY <1>2, <1>7, <1>8, <1>9 DEF ReorderedTo

LEMMA ReorderAt ==
  ASSUME TrafficFits, UmInv, Reorder
  PROVE  UmInv'
<1>1. /\ UNCHANGED <<sent, air, top, disturbed, vr_uh, vr_ux, since>> /\ timer' = "off"
      /\ timer # "off" \/ stray > 0
      /\ \/ timer # "off" /\ stray' = stray
         \/ stray > 0 /\ stray' = IF timer = "off" THEN stray - 1 ELSE stray
  BY DEF Reorder, channel
<1>2. Channel' /\ Timed'
  BY <1>1 DEF UmInv, Channel, Timed
<1>3. ASSUME ~disturbed PROVE Calm'
  <2>1. Stored /\ Level /\ Waiting /\ stray \in Nat
    BY <1>1, <1>3 DEF UmInv, Calm, Timed
  <2>2. PICK g \in Int : ReorderedTo(g)
    BY <1>3, Reordered
  <2>3. /\ Base \in Int /\ Lower \in Int /\ Mark \in Int /\ Zone \in Int /\ Base <= Mark /\ top < Base + M
        /\ top \in Nat /\ sent \in Nat /\ last \in Int /\ since \in 0 .. Pace /\ top <= sent
        /\ \A v \in Held : v \in Int /\ Lower < v /\ last < v /\ v < top /\ v \notin air
        /\ \A u \in air : u \in Int
    BY <1>3, Facts
  <2>4. /\ Mark <= g /\ g <= top /\ g \notin Held /\ \A v \in Int : Mark <= v /\ v < g => v \in Held
        /\ DeliversBelow(window, g)
    BY <2>2 DEF ReorderedTo
  <2>5. vr_ur' = g - Base
    <3>1. Base <= g /\ g < Base + M
      BY <2>3, <2>4, Modulus
    <3>2. g % M = g - Base
      BY <1>3, <3>1, Facts
    <3> QED BY <2>2, <3>2 DEF ReorderedTo
  <2>6. Base' = Base /\ Zone' = Zone /\ Mark' = Mark /\ Lower' = g
    BY <1>1, <2>3, <2>5 DEF Base, Zone, Mark, Lower
  <2>7. Held' = {v \in Held : v >= g} /\ Filed(window')
    BY <2>4 DEF DeliversBelow, Held
  <2>8. /\ last' \in Int /\ last <= last' /\ (last' = last \/ (last' \in Held /\ last' < g))
        /\ \A v \in Held : v < g => v <= last'
    <3>1. Filed(window) /\ \A v \in Held : last < v /\ v < sent
      BY <1>3, <2>3, Facts
    <3> QED BY <1>1, <2>3, <2>4, <3>1, Handed DEF Held
  <2>9. \A v \in Held : v <= last' \/ v \in Held'
    BY <2>3, <2>7, <2>8
  <2>10. Stored'
    <3>1. last = top - 1 \/ top - 1 \in Held
      BY <2>1 DEF Stored
    <3>2. -1 <= last' /\ last' < top /\ last' \notin air
      BY <2>1, <2>3, <2>8 DEF Stored
    <3>3. last' = top - 1 \/ top - 1 \in Held'
      BY <2>3, <2>8, <2>9, <3>1, <3>2
    <3>4. \A v \in Held' : g < v /\ last' < v /\ v < top /\ v \notin air
      BY <2>3, <2>4, <2>7, <2>8
    <3> QED BY <1>1, <2>6, <2>7, <2>8, <3>2, <3>3, <3>4 DEF Stored
  <2>11. Mark - 1 <= last'
    <3>1. CASE Mark - 1 <= last
      BY <2>3, <2>8, <3>1
    <3>2. CASE Mark - 1 \in Held
      BY <2>3, <2>4, <2>8, <3>2
    <3> QED BY <2>1, <3>1, <3>2 DEF Waiting
  <2>12. Level'
    <3>1. g - 1 <= last'
      <4>1. CASE g = Mark
        BY <2>11, <4>1
      <4>2. CASE g # Mark
        <5>1. g - 1 \in Held /\ g - 1 < g
          BY <2>3, <2>4, <4>2
        <5> QED BY <2>8, <5>1
      <4> QED BY <4>1, <4>2
    <3>2. ASSUME NEW u \in air, g <= u PROVE last' < u
      <4>1. Mark <= u /\ u \in Int
        BY <2>3, <2>4, <3>2
      <4>2. last < u
        BY <2>1, <4>1 DEF Waiting, Level
      <4> QED BY <2>3, <2>8, <3>2, <4>1, <4>2
    <3>3. vr_ur' \in SN
      BY <2>3, <2>4, <2>5, Modulus DEF SN
    <3> QED BY <1>1, <2>1, <2>4, <2>6, <3>1, <3>2, <3>3 DEF Level
  <2>13. Waiting'
    <3>1. ASSUME NEW u \in air, Mark <= u PROVE g <= u
      <4>1. u \in Int /\ u \notin Held
        BY <2>3
      <4> QED BY <2>4, <3>1, <4>1
    <3> QED BY <1>1, <2>1, <2>6, <2>11, <3>1 DEF Waiting
  <2>14. Idle'
    <3>1. sent <= Mark + Behind + Pace
      BY <2>1, <2>3, Parameters DEF Waiting
    <3>2. ASSUME g < top, Zone < top PROVE top <= Zone + Behind + Pace
      <4>1. CASE timer = "off"
        BY <1>1, <1>3, <2>3, <4>1, Parameters DEF UmInv, Calm
      <4>2. CASE timer # "off"
        <5>1. ~(Zone <= g)
          BY <1>3, <2>3, <2>4, <3>2, <4>2 DEF UmInv, Calm, Running
        <5> QED BY <2>3, <2>4, <3>1, <5>1, Parameters
      <4> QED BY <4>1, <4>2
    <3> QED BY <1>1, <2>3, <2>4, <2>6, <3>1, <3>2, Parameters DEF Idle
  <2>15. stray' > 0 => top' <= Zone' + Behind
    BY <1>1, <1>3, <2>1, <2>6 DEF UmInv, Calm
  <2> QED BY <1>1, <2>10, <2>12, <2>13, <2>14, <2>15 DEF Calm
<1> QED BY <1>1, <1>2, <1>3 DEF UmInv

-----------------------------------------------------------------------------
(* A unit that comes.                                                        *)

\* The body of Receive.
ReceiveOne(u) ==
  LET win == [window EXCEPT ![u % M] = u]
      uh == MovedUh(u % M)
      ur == MovedUr(u % M)
  IN /\ ~Dropped(u % M)
     /\ Arrives(u)
     /\ vr_uh' = uh
     /\ IF win[ur] # None
        THEN /\ vr_ur' = Rest((ur + 1) % M, win, 0 .. uh)
             /\ Deliver(win, uh, vr_ur')
        ELSE /\ vr_ur' = ur /\ window' = win
             /\ handed' = <<>> /\ last' = last
     /\ SetTimer(uh, vr_ur')

LEMMA ReceiveIs ==
  ASSUME Receive
  PROVE  \E u \in air : ReceiveOne(u)
BY DEF Receive, ReceiveOne

\* One more than the newest unit once u has come.
Newest(u) == IF u >= top THEN u + 1 ELSE top

\* A unit that disturbs nothing is in the cycle of the newest, the window never
\* overflows, and vr_uh becomes the number of the newest.
LEMMA Arrival ==
  ASSUME TrafficFits, UmInv, ~disturbed', NEW u \in air, ~Dropped(u % M), Arrives(u)
  PROVE  /\ ~disturbed
         /\ Lower <= u /\ u < Base + M /\ u % M = u - Base
         /\ \A v \in Int : top <= v /\ v <= u /\ Zone <= v => v = u /\ stray = 0
         /\ MovedUr(u % M) = vr_ur /\ MovedUh(u % M) = Newest(u) % M
         /\ Newest(u) \in Int /\ Newest(u) <= sent /\ top <= Newest(u) /\ u < Newest(u)
<1>1. ~disturbed /\ ~Disturbs(u)
  BY ArrivesAt
<1>2. /\ sent \in Nat /\ top \in Nat /\ top <= sent /\ sent <= top + Gap + 1
      /\ Base \in Int /\ Base % M = 0 /\ Base <= top /\ top < Base + M
      /\ Zone \in Int /\ Zone = Base + M - Margin /\ Base <= Zone
      /\ vr_uh = top - Base /\ vr_uh = top % M
      /\ Lower \in Int /\ Base <= Lower /\ Lower <= top /\ vr_ur = Lower - Base
      /\ sent <= Lower + Behind + Behind + Pace + Pace + Gap + 1
      /\ u \in Int /\ sent - 1 - Behind <= u /\ u < sent
  BY <1>1, Facts
<1>3. \A n \in Int : Base <= n /\ n < Base + M => n % M = n - Base
  BY <1>1, Facts
<1>4. Lower <= u
  BY <1>1, <1>2, DroppedIs
<1>5. \A v \in Int : top <= v /\ v <= u /\ v < Base + M /\ Zone <= v => v = u /\ stray = 0
  <2> TAKE v \in Int
  <2> HAVE top <= v /\ v <= u /\ v < Base + M /\ Zone <= v
  <2>1. v % M = v - Base
    BY <1>2, <1>3
  <2>2. BeforeWrap(v)
    BY <1>2, <2>1, Parameters DEF BeforeWrap, Margin
  <2>3. v \in top .. u
    BY <1>2
  <2>4. v = u /\ ~(stray > 0)
    BY <1>1, <2>2, <2>3 DEF Disturbs
  <2>5. stray \in Nat
    BY DEF UmInv, Timed
  <2> QED BY <2>4, <2>5
<1>6. u < Base + M
  <2> SUFFICES ASSUME ~(u < Base + M) PROVE FALSE
    OBVIOUS
  <2> DEFINE v == Base + M - 1
  <2>1. v \in Int /\ top <= v /\ v <= u /\ v < Base + M /\ Zone <= v /\ v # u
    BY <1>2, Parameters
  <2> HIDE DEF v
  <2> QED BY <1>5, <2>1
<1>7. u % M = u - Base
  BY <1>2, <1>3, <1>4, <1>6
<1>8. CASE u >= top
  <2>1. Newest(u) = u + 1 /\ u + 1 \in Int /\ Outside(u % M)
    BY <1>2, <1>7, <1>8 DEF Newest, Outside
  <2>2. ((u % M) + 1) % M = (u + 1) % M
    BY <1>2, Sum
  <2>3. MovedUh(u % M) = (u + 1) % M
    BY <2>1, <2>2 DEF MovedUh
  <2>4. ~(vr_ur < ((u + 1) % M) - W)
    <3>1. CASE u + 1 < Base + M
      <4>1. (u + 1) % M = u + 1 - Base
        BY <1>2, <1>3, <1>4, <3>1
      <4> QED BY <1>2, <4>1, Parameters
    <3>2. CASE u + 1 = Base + M
      <4>1. (u + 1) % M = 0
        BY <1>2, <3>2, NextBase
      <4> QED BY <1>2, <4>1, Parameters
    <3> QED BY <1>2, <1>6, <3>1, <3>2, Modulus
  <2>5. MovedUr(u % M) = vr_ur
    BY <2>3, <2>4 DEF MovedUr
  <2> QED BY <1>1, <1>2, <1>4, <1>5, <1>6, <1>7, <1>8, <2>1, <2>3, <2>5, Modulus
<1>9. CASE u < top
  <2>1. Newest(u) = top /\ ~Outside(u % M)
    BY <1>2, <1>7, <1>9, Parameters DEF Newest, Outside
  <2>2. MovedUr(u % M) = vr_ur /\ MovedUh(u % M) = top % M
    BY <1>2, <2>1 DEF MovedUr, MovedUh
  <2> QED BY <1>1, <1>2, <1>4, <1>5, <1>6, <1>7, <1>9, <2>1, <2>2, Modulus
<1> QED BY <1>2, <1>8, <1>9

\* The last unit of a cycle finds nothing missing.
LEMMA Wraps ==
  ASSUME TrafficFits, UmInv, ~disturbed', NEW u \in air, ~Dropped(u % M), Arrives(u),
         Newest(u) = Base + M
  PROVE  u = Base + M - 1 /\ u = top /\ u = Lower /\ timer = "off" /\ stray = 0 /\ Held = {}
<1>1. /\ ~disturbed /\ Lower <= u
      /\ \A v \in Int : top <= v /\ v <= u /\ Zone <= v => v = u /\ stray = 0
  BY Arrival
<1>2. /\ sent \in Nat /\ top \in Nat /\ top <= sent
      /\ Base \in Int /\ Base <= top /\ top < Base + M
      /\ Zone \in Int /\ Zone = Base + M - Margin
      /\ Lower \in Int /\ Lower <= top /\ Mark \in Int /\ since \in 0 .. Pace
      /\ u \in Int /\ \A v \in Held : Lower < v /\ v < top /\ v \in Int
  BY <1>1, Facts
<1>3. u = Base + M - 1 /\ u >= top
  BY <1>2, Modulus DEF Newest
<1>4. Zone <= u - 1
  BY <1>2, <1>3, Parameters
<1>5. u = top /\ stray = 0
  <2>1. ~(top <= u - 1)
    BY <1>1, <1>2, <1>4
  <2>2. stray = 0
    BY <1>1, <1>2, <1>3, <1>4
  <2> QED BY <1>2, <1>3, <2>1, <2>2
<1>6. Lower = top /\ timer = "off"
  <2>1. CASE timer = "off"
    <3>1. Idle
      BY <1>1, <2>1 DEF UmInv, Calm
    <3>2. ~(Lower < top)
      BY <1>2, <1>3, <1>5, <3>1, Parameters DEF Idle
    <3> QED BY <1>2, <2>1, <3>2
  <2>2. CASE timer # "off"
    <3>1. Waiting /\ Running
      BY <1>1, <2>2 DEF UmInv, Calm
    <3>2. /\ Zone < top => Mark <= Zone + Behind + Pace + 1
          /\ sent <= Mark + Behind + since
      BY <3>1 DEF Waiting, Running
    <3> QED BY <1>2, <1>3, <1>5, <3>2, Parameters
  <2> QED BY <2>1, <2>2
<1> QED BY <1>2, <1>3, <1>5, <1>6

\* What an arrival does: the lower edge goes from Lower to g.
ReceivedTo(u, g) ==
  /\ Lower <= g /\ g <= Newest(u) /\ g \notin Held \cup {u}
  /\ \A v \in Int : Lower <= v /\ v < g => v \in Held \cup {u}
  /\ vr_uh' = Newest(u) % M /\ vr_ur' = g % M /\ SetTimer(Newest(u) % M, g % M)
  /\ Filed(window') /\ Held' = {v \in Held \cup {u} : v >= g}
  /\ \A n \in SN : window[n] # None => window'[n] \in {window[n], None}
  /\ last' \in Int /\ last <= last'
  /\ last' = last \/ (last' \in Held \cup {u} /\ last' < g)
  /\ \A v \in Held \cup {u} : v < g => v <= last'
  /\ Service!Next

LEMMA Received ==
  ASSUME TrafficFits, UmInv, ~disturbed', NEW u \in air, ReceiveOne(u)
  PROVE  \E g \in Int : ReceivedTo(u, g)
<1> DEFINE win == [window EXCEPT ![u % M] = u]
           t == Newest(u)
<1>1. ~Dropped(u % M) /\ Arrives(u)
  BY DEF ReceiveOne
<1>2. /\ ~disturbed /\ Lower <= u /\ u < Base + M /\ u % M = u - Base
      /\ MovedUr(u % M) = vr_ur /\ MovedUh(u % M) = t % M
      /\ t \in Int /\ t <= sent /\ top <= t /\ u < t
  BY <1>1, Arrival
<1>3. /\ vr_uh' = t % M
      /\ win[vr_ur] # None => vr_ur' = Rest((vr_ur + 1) % M, win, 0 .. t % M) /\ Deliver(win, t % M, vr_ur')
      /\ win[vr_ur] = None => vr_ur' = vr_ur /\ window' = win /\ handed' = <<>> /\ last' = last
      /\ SetTimer(t % M, vr_ur')
  BY <1>2 DEF ReceiveOne
<1>4. /\ sent \in Nat /\ top \in Nat /\ top < Base + M /\ Base \in Int /\ Base <= top
      /\ Lower \in Int /\ Base <= Lower /\ Lower <= top
      /\ Filed(window) /\ last \in Int /\ u \in Nat /\ u \in Int /\ u < sent
      /\ \A v \in Held : v \in Int /\ Lower < v /\ last < v /\ v < top /\ v \notin air
  BY <1>2, Facts
<1>5. window[u % M] = None /\ u \notin Held /\ vr_ur = Lower % M
  BY <1>2, Free, Facts
<1>6. Filed(win) /\ Units(win) = Held \cup {u}
  BY <1>4, <1>5, Put DEF Held
<1>7. \A n \in SN : window[n] # None => win[n] = window[n]
  <2>1. window \in [SN -> Int]
    BY <1>4 DEF Filed
  <2> QED BY <1>5, <2>1
<1>8. last < u
  BY <1>2 DEF UmInv, Calm, Level
<1>9. sent' = sent
  BY <1>1, ArrivesAt
<1>9a. t \in Int /\ t <= sent /\ top <= t /\ u < t /\ Lower <= u
  BY <1>2
<1> HIDE DEF win, t
<1>10. \A v \in Units(win) : v \in Int /\ Lower <= v /\ v < t /\ last < v /\ v < sent
  <2>1. \A v \in Held \cup {u} : v \in Int /\ Lower <= v /\ v < t /\ last < v /\ v < sent
    BY <1>4, <1>8, <1>9a
  <2> QED BY <1>6, <2>1
<1>11. t <= Base + M /\ (t = Base + M => Units(win) = {u} /\ u = Lower /\ t = u + 1)
  <2>1. t <= Base + M
    BY <1>2, <1>4, Modulus DEF t, Newest
  <2>2. ASSUME t = Base + M PROVE Units(win) = {u} /\ u = Lower /\ t = u + 1
    <3>1. u = Base + M - 1 /\ u = Lower /\ Held = {}
      BY <1>1, <2>2, Wraps DEF t
    <3>2. Units(win) = {u}
      BY <1>6, <3>1
    <3> QED BY <1>4, <2>2, <3>1, <3>2, Modulus
  <2> QED BY <2>1, <2>2
<1>12. win[vr_ur] # None <=> u = Lower
  <2>1. \A v \in Units(win) : v < Lower + M /\ Lower < v + M
    <3> TAKE v \in Units(win)
    <3>1. v \in Int /\ Lower <= v /\ v < t
      BY <1>10
    <3>2. v < Lower + M
      BY <1>4, <1>11, <1>9a, <3>1, Modulus
    <3>3. Lower < v + M
      BY <1>4, <3>1, Modulus
    <3> QED BY <3>2, <3>3
  <2>2. win[Lower % M] # None <=> Lower \in Units(win)
    BY <1>4, <1>6, <2>1, Slot
  <2>3. Lower \in Units(win) <=> u = Lower
    BY <1>4, <1>6
  <2> QED BY <1>5, <2>2, <2>3
<1>13. CASE u = Lower
  <2>1. vr_ur' = Rest((vr_ur + 1) % M, win, 0 .. t % M) /\ Deliver(win, t % M, vr_ur')
    BY <1>3, <1>12, <1>13
  <2>2. (vr_ur + 1) % M = (Lower + 1) % M
    BY <1>4, <1>5, Sum
  <2>3. Lower + 1 \in Nat /\ Lower + 1 <= t /\ t < Lower + 1 + M
    BY <1>4, <1>11, <1>13, <1>9a, Modulus
  <2>4. ASSUME NEW v \in Units(win)
        PROVE  v < Lower + 1 + M /\ t < v + M /\ (Lower + 1 <= v => v < t /\ v % M \in 0 .. t % M)
    <3>1. v \in Int /\ Lower <= v /\ v < t
      BY <1>10
    <3>2. v < Lower + 1 + M /\ t < v + M
      BY <1>4, <1>11, <1>9a, <3>1, Modulus
    <3>3. ASSUME Lower + 1 <= v PROVE v % M \in 0 .. t % M
      <4>1. t < Base + M
        <5>1. t # Base + M
          BY <1>4, <1>11, <1>13, <3>1, <3>3
        <5> QED BY <1>4, <1>11, <1>9a, <5>1, Modulus
      <4>2. Base <= v /\ v < Base + M /\ Base <= t
        BY <1>4, <1>9a, <3>1, <4>1, Modulus
      <4>3. \A n \in Int : Base <= n /\ n < Base + M => n % M = n - Base
        BY <1>2, Facts
      <4>4. v % M = v - Base /\ t % M = t - Base
        BY <1>9a, <3>1, <4>1, <4>2, <4>3
      <4> QED BY <1>4, <1>9a, <3>1, <4>2, <4>4
    <3> QED BY <3>1, <3>2, <3>3
  <2>5. PICK g \in Int : /\ Lower + 1 <= g /\ g <= t /\ g \notin Units(win)
                         /\ \A v \in Int : Lower + 1 <= v /\ v < g => v \in Units(win)
                         /\ Rest((Lower + 1) % M, win, 0 .. t % M) = g % M
    <3> DEFINE range == 0 .. t % M
               n == Lower + 1
    <3>1. \A v \in Units(win) : v < n + M /\ t < v + M /\ (n <= v => v < t /\ v % M \in range)
      BY <2>4
    <3>2. n \in Nat /\ n <= t /\ t < n + M
      BY <2>3
    <3> HIDE DEF range, n
    <3>3. \E g \in Int : /\ n <= g /\ g <= t /\ g \notin Units(win)
                         /\ \A v \in Int : n <= v /\ v < g => v \in Units(win)
                         /\ Rest(n % M, win, range) = g % M
      BY <1>6, <1>9a, <3>1, <3>2, RestsAt
    <3> QED BY <3>3 DEF n, range
  <2>6. vr_ur' = g % M /\ Deliver(win, t % M, g % M)
    BY <2>1, <2>2, <2>5
  <2>7. DeliversBelow(win, g)
    <3>1. t + 1 - M <= g
      BY <1>4, <1>11, <1>9a, <2>5, Modulus
    <3>2. ASSUME NEW v \in Units(win) PROVE t + 1 - M <= v /\ v <= t
      <4>1. v \in Int /\ Lower <= v /\ v < t
        BY <1>10
      <4> QED BY <1>4, <1>11, <1>9a, <4>1, Modulus
    <3> QED BY <1>9a, <1>6, <3>2, <2>5, <2>6, <3>1, Delivered
  <2>8. /\ last' \in Int /\ last <= last'
        /\ last' = last \/ (last' \in Units(win) /\ last' < g)
        /\ \A v \in Units(win) : v < g => v <= last'
        /\ Service!Next
    BY <1>4, <1>6, <1>9, <1>10, <2>7, Handed
  <2>9. Filed(window') /\ Held' = {v \in Units(win) : v >= g}
    BY <2>7 DEF DeliversBelow, Held
  <2>10. \A n \in SN : window[n] # None => window'[n] \in {window[n], None}
    BY <1>7, <2>7 DEF DeliversBelow
  <2>11. \A v \in Int : Lower <= v /\ v < g => v \in Units(win)
    BY <1>4, <1>6, <1>13, <2>5
  <2>12. Lower <= g
    BY <1>4, <2>5
  <2> QED BY <1>3, <1>6, <2>5, <2>6, <2>8, <2>9, <2>10, <2>11, <2>12 DEF ReceivedTo, t
<1>14. CASE u # Lower
  <2>1. vr_ur' = vr_ur /\ window' = win /\ handed' = <<>> /\ last' = last
    BY <1>3, <1>12, <1>14
  <2>2. Service!Quiet
    BY <1>9, <2>1 DEF Service!Quiet
  <2>3. Held' = {v \in Units(win) : v >= Lower}
    <3>1. Held' = Units(win)
      BY <2>1 DEF Held
    <3> QED BY <1>10, <3>1
  <2>4. /\ Lower <= t /\ Lower \notin Units(win)
        /\ \A v \in Units(win) : ~(v < Lower)
        /\ \A v \in Int : ~(Lower <= v /\ v < Lower)
    BY <1>2, <1>4, <1>6, <1>10, <1>14
  <2>5. Filed(window') /\ \A n \in SN : window[n] # None => window'[n] \in {window[n], None}
    BY <1>6, <1>7, <2>1
  <2>6. vr_ur' = Lower % M
    BY <1>5, <2>1
  <2>7. Service!Next
    BY <2>2 DEF Service!Next
  <2> QED BY <1>3, <1>4, <1>6, <2>1, <2>3, <2>4, <2>5, <2>6, <2>7 DEF ReceivedTo, t
<1> QED BY <1>13, <1>14

\* The timer is stopped once the lower edge has reached Mark, and started when a gap
\* is left and it is not running: the receiver's comparisons, in units.
LEMMA TimerIs ==
  ASSUME TrafficFits, UmInv, ~disturbed', NEW u \in air, ReceiveOne(u), Newest(u) < Base + M,
         NEW g \in Int, ReceivedTo(u, g)
  PROVE  LET stop == timer # "off" /\ Mark <= g
             start == (stop \/ timer = "off") /\ g < Newest(u)
         IN /\ timer' = IF start THEN "runs" ELSE IF stop THEN "off" ELSE timer
            /\ stray' = IF stop /\ timer = "due" THEN stray + 1 ELSE stray
            /\ Mark' = IF start THEN Newest(u) ELSE Mark
            /\ since' = IF start THEN 0 ELSE since
            /\ Base' = Base /\ Zone' = Zone /\ Lower' = g
            /\ top' = Newest(u) /\ vr_ur' \in SN /\ vr_ux' \in SN
<1> DEFINE t == Newest(u)
<1>1. ~Dropped(u % M) /\ Arrives(u)
  BY DEF ReceiveOne
<1>2. ~disturbed /\ t \in Int /\ t <= sent /\ top <= t /\ u < t /\ Lower <= u /\ t < Base + M
  BY <1>1, Arrival
<1>3. top' = t
  BY <1>1 DEF Arrives, Newest
<1> HIDE DEF t
<1>4. /\ sent \in Nat /\ top \in Nat /\ Base \in Int /\ Base <= top /\ Lower \in Int /\ Base <= Lower
      /\ Mark \in Int /\ Base <= Mark /\ Mark < Base + M /\ vr_ux = Mark - Base
      /\ since \in 0 .. Pace /\ u \in Int /\ sent - 1 - Behind <= u /\ u < sent
  BY <1>2, Facts
<1>5. /\ Lower <= g /\ g <= t /\ vr_uh' = t % M /\ vr_ur' = g % M /\ SetTimer(t % M, g % M)
  BY DEF ReceivedTo, t
<1>6. t % M = t - Base /\ g % M = g - Base
  <2>1. Base <= t /\ Base <= g /\ g < Base + M
    BY <1>2, <1>4, <1>5, Modulus
  <2>2. \A n \in Int : Base <= n /\ n < Base + M => n % M = n - Base
    BY <1>2, Facts
  <2> QED BY <1>2, <2>1, <2>2
<1>7. Base' = Base /\ Zone' = Zone /\ Lower' = g /\ vr_ur' \in SN
  <2>1. Base' = Base
    BY <1>2, <1>3, <1>4, <1>6 DEF Base
  <2>2. Lower' = g
    BY <1>4, <1>5, <1>6, <2>1 DEF Lower
  <2>3. vr_ur' \in SN
    BY <1>2, <1>4, <1>5, <1>6, Modulus DEF SN
  <2> QED BY <2>1, <2>2, <2>3 DEF Zone
<1>8. StopTimer(t % M, g % M) <=> timer # "off" /\ Mark <= g
  <2> SUFFICES ASSUME timer # "off"
               PROVE  /\ vr_ux <= g % M <=> Mark <= g
                      /\ ~(g % M <= vr_ux - W)
                      /\ isInsideUmRecvWin(vr_ux, t % M) \/ vr_ux = t % M
    BY DEF StopTimer
  <2>1. Waiting /\ Running
    BY <1>2 DEF UmInv, Calm
  <2>2. /\ sent <= Mark + Behind + since /\ Mark <= top
        /\ Mark - 1 <= last \/ Mark - 1 \in Held
        /\ Mark <= Lower + Behind + Pace + Gap + 1
    BY <2>1 DEF Waiting, Running
  <2>3. vr_ux <= g % M <=> Mark <= g
    BY <1>4, <1>6
  <2>4. Mark < g + W
    <3>1. CASE Behind + Pace >= 1
      BY <1>4, <1>5, <2>2, <3>1, Parameters
    <3>2. CASE Behind + Pace = 0
      <4>1. top = sent /\ Mark = sent /\ u = sent - 1
        BY <1>2, <1>4, <2>2, <3>2, Parameters
      <4>2. top - 1 \in Held \/ last = top - 1
        BY <1>2 DEF UmInv, Calm, Stored
      <4>3. last \notin air /\ \A v \in Held : v \notin air
        BY <1>2 DEF UmInv, Calm, Stored
      <4> QED BY <4>1, <4>2, <4>3
    <3> QED BY <3>1, <3>2, Parameters
  <2>5. isInsideUmRecvWin(vr_ux, t % M) \/ vr_ux = t % M
    <3>1. CASE Mark = t
      BY <1>4, <1>6, <3>1
    <3>2. CASE Mark < t
      <4>1. Mark - t + W \in -M .. M + M - 1 /\ Mark - t + W >= 0 /\ Mark - t + W < W
        BY <1>2, <1>4, <2>2, <3>2, Parameters
      <4>2. ((Mark % M) - ((t % M) - W)) % M = Mark - t + W
        BY <1>2, <1>4, <4>1, Parameters, InsideIs
      <4>3. vr_ux = Mark % M
        BY <1>2, Facts
      <4> QED BY <4>1, <4>2, <4>3 DEF isInsideUmRecvWin
    <3> QED BY <1>2, <1>4, <2>2, <3>1, <3>2
  <2> QED BY <1>4, <1>6, <2>3, <2>4, <2>5, Parameters
<1>9. StartTimer(t % M, g % M) <=> g < t
  BY <1>2, <1>4, <1>5, <1>6, Modulus DEF StartTimer
<1> DEFINE stop == timer # "off" /\ Mark <= g
           start == (stop \/ timer = "off") /\ g < t
<1>10. /\ timer' = IF start THEN "runs" ELSE IF stop THEN "off" ELSE timer
       /\ stray' = IF stop /\ timer = "due" THEN stray + 1 ELSE stray
       /\ vr_ux' = IF start THEN t % M ELSE vr_ux
       /\ since' = IF start THEN 0 ELSE since
  BY <1>5, <1>8, <1>9 DEF SetTimer
<1> HIDE DEF start, stop
<1>11. Mark' = IF start THEN t ELSE Mark
  BY <1>2, <1>4, <1>6, <1>7, <1>10 DEF Mark
<1>12. vr_ux' \in SN
  <2>1. vr_ux \in SN
    BY <1>2 DEF UmInv, Calm, Level
  <2> QED BY <1>2, <1>10, <2>1, InSN
<1> QED BY <1>3, <1>7, <1>10, <1>11, <1>12 DEF start, stop, t

\* When the last number of a cycle comes, nothing is stored, missing or to come.
LEMMA AfterWrap ==
  ASSUME TrafficFits, UmInv, ~disturbed', NEW u \in air, ReceiveOne(u), ~(Newest(u) < Base + M)
  PROVE  Calm'
<1>1. ~Dropped(u % M) /\ Arrives(u)
  BY DEF ReceiveOne
<1>2. ~disturbed /\ u < Base + M /\ Newest(u) \in Int
  BY <1>1, Arrival
<1>3. /\ sent \in Nat /\ top \in Nat /\ top < Base + M /\ Base \in Int /\ Base <= top /\ Base % M = 0
      /\ u \in Int /\ Zone \in Int
  BY <1>2, Facts
<1>4. Newest(u) = Base + M
  BY <1>2, <1>3, Modulus DEF Newest
<1>5. u = Base + M - 1 /\ u = top /\ u = Lower /\ timer = "off" /\ stray = 0 /\ Held = {}
  BY <1>1, <1>4, Wraps
<1>6. PICK g \in Int : ReceivedTo(u, g)
  BY Received
<1>7. g = Base + M
  <2>1. Lower <= g /\ g <= Newest(u) /\ g \notin Held \cup {u}
    BY <1>6 DEF ReceivedTo
  <2> QED BY <1>3, <1>4, <1>5, <2>1, Modulus
<1>8. (Base + M) % M = 0
  BY <1>3, NextBase
<1>9. /\ top' = Base + M /\ vr_uh' = 0 /\ vr_ur' = 0 /\ SetTimer(0, 0)
      /\ Filed(window') /\ Held' = {v \in {u} : v >= g}
      /\ last' \in Int /\ (\A v \in {u} : v < g => v <= last')
      /\ (last' = last \/ (last' \in {u} /\ last' < g))
  BY <1>1, <1>4, <1>5, <1>6, <1>7, <1>8 DEF ReceivedTo, Arrives, Newest
<1>10. Held' = {} /\ last' = u
  <2>1. last < u
    BY <1>2, <1>5 DEF UmInv, Calm, Level
  <2>2. u < g /\ last \in Int
    BY <1>2, <1>3, <1>5, <1>7, Facts
  <2> QED BY <1>3, <1>7, <1>9, <2>1, <2>2
<1>11. timer' = "off" /\ stray' = 0 /\ vr_ux' = vr_ux
  <2>1. ~StopTimer(0, 0) /\ ~StartTimer(0, 0)
    BY <1>5, Modulus DEF StopTimer, StartTimer
  <2> QED BY <1>5, <1>9, <2>1 DEF SetTimer
<1>12. Base' = Base + M /\ Lower' = Base + M /\ Zone' = Base + M + M - Margin
  <2>1. Base' = Base + M
    BY <1>3, <1>8, <1>9, Modulus DEF Base
  <2> QED BY <1>3, <1>9, <2>1, Parameters DEF Lower, Zone
<1>13. air' = air \ {u}
  BY <1>1 DEF Arrives
<1>14. Stored'
  BY <1>3, <1>5, <1>9, <1>10, <1>13, Modulus DEF Stored
<1>15. Level'
  <2>1. vr_ux \in SN
    BY <1>2 DEF UmInv, Calm, Level
  <2>2. 0 \in SN
    BY Modulus DEF SN
  <2>3. \A v \in air' : (Base + M <= v => u < v) /\ (Base + M + M - Margin <= v => Base + M <= v)
    <3> TAKE v \in air'
    <3>1. v \in Int
      BY <1>2, <1>13, Facts
    <3> QED BY <1>3, <1>5, <3>1, Parameters
  <2>4. Base + M - 1 <= u
    BY <1>5
  <2> QED BY <1>3, <1>8, <1>9, <1>10, <1>11, <1>12, <2>1, <2>2, <2>3, <2>4, Modulus DEF Level
<1>16. Idle'
  BY <1>3, <1>9, <1>12, Parameters DEF Idle
<1> QED BY <1>11, <1>14, <1>15, <1>16 DEF Calm

\* Any other unit that comes.
LEMMA AfterOther ==
  ASSUME TrafficFits, UmInv, ~disturbed', NEW u \in air, ReceiveOne(u), Newest(u) < Base + M
  PROVE  Calm'
<1> DEFINE t == Newest(u)
<1>1. ~Dropped(u % M) /\ Arrives(u)
  BY DEF ReceiveOne
<1>2. /\ ~disturbed /\ Lower <= u /\ t \in Int /\ t <= sent /\ top <= t /\ u < t
      /\ \A v \in Int : top <= v /\ v <= u /\ Zone <= v => v = u /\ stray = 0
  BY <1>1, Arrival
<1>3. PICK g \in Int : ReceivedTo(u, g)
  BY Received
<1> DEFINE stop == timer # "off" /\ Mark <= g
           start == (stop \/ timer = "off") /\ g < t
<1>4. /\ timer' = IF start THEN "runs" ELSE IF stop THEN "off" ELSE timer
      /\ stray' = IF stop /\ timer = "due" THEN stray + 1 ELSE stray
      /\ Mark' = IF start THEN t ELSE Mark
      /\ since' = IF start THEN 0 ELSE since
      /\ Base' = Base /\ Zone' = Zone /\ Lower' = g
      /\ top' = t /\ vr_ur' \in SN /\ vr_ux' \in SN
  BY <1>3, TimerIs
<1>5. (t = u + 1 /\ top <= u) \/ (t = top /\ u < top)
  <2>1. u \in Int /\ top \in Nat
    BY <1>2, Facts
  <2> QED BY <2>1 DEF Newest
<1> HIDE DEF t
<1>6. /\ sent \in Nat /\ top \in Nat /\ top <= sent /\ sent <= top + Gap + 1
      /\ Base \in Int /\ Zone \in Int /\ Lower \in Int /\ Lower <= top /\ Mark \in Int
      /\ last \in Int /\ since \in 0 .. Pace /\ u \in Int /\ sent - 1 - Behind <= u /\ u < sent
      /\ \A v \in Held : v \in Int /\ Lower < v /\ last < v /\ v < top /\ v \notin air
      /\ \A v \in air : v \in Int
  BY <1>2, Facts
<1>7. Stored /\ Level /\ stray \in Nat /\ (timer # "off" \/ stray > 0 => Waiting)
  BY <1>2 DEF UmInv, Calm, Timed
<1>8. /\ Lower <= g /\ g <= t /\ g \notin Held \cup {u}
      /\ \A v \in Int : Lower <= v /\ v < g => v \in Held \cup {u}
      /\ Filed(window') /\ Held' = {v \in Held \cup {u} : v >= g}
      /\ last' \in Int /\ last <= last'
      /\ last' = last \/ (last' \in Held \cup {u} /\ last' < g)
      /\ \A v \in Held \cup {u} : v < g => v <= last'
      /\ vr_uh' = t % M
  BY <1>3 DEF ReceivedTo, t
<1>9. air' = air \ {u} /\ sent' = sent
  BY <1>1 DEF Arrives
<1>10. last < u
  BY <1>2, <1>7 DEF Level
<1>11. \A v \in Held \cup {u} : v \in Int /\ Lower <= v /\ last < v /\ v < t /\ v \notin air'
  BY <1>2, <1>6, <1>9, <1>10
<1>12. \A v \in Held \cup {u} : v <= last' \/ v \in Held'
  BY <1>8, <1>11
\* What is left on the air between the old lower edge and the new one: nothing.
<1>13. \A v \in air' : Lower <= v => g <= v
  <2> TAKE v \in air'
  <2> HAVE Lower <= v
  <2>1. v \in Int /\ v \notin Held /\ v # u
    BY <1>6, <1>9
  <2> QED BY <1>8, <2>1
\* How far the newest unit may be while an expiry is awaited in vain.
<1>14. u < top => top <= Zone + Behind
  <2>1. u < top => u < Zone
    BY <1>6, <1>7 DEF Level
  <2> QED BY <1>6, <2>1, Parameters
<1>15. stray > 0 => t <= Zone + Behind
  <2>1. ASSUME stray > 0, top <= u PROVE u < Zone
    BY <1>2, <1>6, <2>1
  <2> QED BY <1>5, <1>6, <1>14, <2>1, Parameters
<1>16. Stored'
  <2>1. -1 <= last' /\ last' < t /\ last' \notin air'
    BY <1>6, <1>7, <1>8, <1>9, <1>11, <1>2 DEF Stored
  <2>2. t - 1 \in Held \cup {u} \/ t - 1 = last
    BY <1>5, <1>6, <1>7 DEF Stored
  <2>3. last' = t - 1 \/ t - 1 \in Held'
    BY <1>2, <1>8, <1>12, <2>1, <2>2
  <2>4. \A v \in Held' : g < v /\ last' < v /\ v < t /\ v \notin air'
    BY <1>8, <1>11
  <2> QED BY <1>4, <1>8, <2>1, <2>3, <2>4 DEF Stored
<1>17. t - 1 <= last' \/ t - 1 \in Held'
  <2>1. last' = top' - 1 \/ top' - 1 \in Held'
    BY <1>16 DEF Stored
  <2> QED BY <1>2, <1>4, <1>8, <2>1
<1>18. Level'
  <2>1. g - 1 <= last'
    <3>1. CASE g = Lower
      BY <1>6, <1>7, <1>8, <3>1 DEF Level
    <3>2. CASE g # Lower
      BY <1>6, <1>8, <3>2
    <3> QED BY <3>1, <3>2
  <2>2. ASSUME NEW v \in air' PROVE (g <= v => last' < v) /\ (Zone <= v => t <= v)
    <3>1. v \in Int /\ v \in air /\ v # u
      BY <1>6, <1>9
    <3>2. g <= v => last' < v
      <4>1. last < v \/ ~(g <= v)
        BY <1>6, <1>7, <1>8, <3>1 DEF Level
      <4> QED BY <1>6, <1>8, <1>11, <3>1, <4>1
    <3>3. Zone <= v => t <= v
      <4>1. Zone <= v => top <= v
        BY <1>7, <3>1 DEF Level
      <4>2. Zone <= v /\ top <= v /\ v <= u => FALSE
        BY <1>2, <3>1
      <4> QED BY <1>5, <1>6, <3>1, <4>1, <4>2
    <3> QED BY <3>2, <3>3
  <2> QED BY <1>4, <1>8, <2>1, <2>2 DEF Level
<1>19. CASE start
  <2>1. timer' = "runs" /\ Mark' = t /\ since' = 0 /\ g < t
    BY <1>4, <1>19
  <2>2. sent <= t + Behind
    BY <1>2, <1>5, <1>6, Parameters
  <2>3. Waiting'
    <3>1. \A v \in air' : t <= v => g <= v
      BY <1>6, <1>8, <1>9, <1>2
    <3>2. t <= t /\ sent <= t + Behind + 0
      BY <1>2, <1>6, <2>2, Parameters
    <3> QED BY <1>4, <1>9, <1>17, <2>1, <3>1, <3>2 DEF Waiting
  <2>4. t <= g + Behind + Pace + Gap + 1 /\ (Zone < t => t <= Zone + Behind + Pace + 1)
    <3>1. CASE timer = "off"
      <4>1. /\ top <= Lower + Behind + Pace
            /\ Lower < top /\ Zone < top => top <= Zone + Behind + Pace
        BY <1>2, <3>1 DEF UmInv, Calm, Idle
      <4>2. t <= g + Behind + Pace + Gap + 1
        BY <1>2, <1>6, <1>8, <4>1, Parameters
      <4>3. CASE u < top
        BY <1>5, <1>6, <1>14, <4>2, <4>3, Parameters
      <4>4. CASE top <= u /\ u <= Zone
        BY <1>5, <1>6, <4>2, <4>4, Parameters
      <4>5. CASE top <= u /\ Zone < u
        <5>1. top = u
          <6>1. ~(top <= u - 1)
            BY <1>2, <1>6, <4>5
          <6> QED BY <1>6, <4>5, <6>1
        <5>2. Lower # top
          BY <1>5, <1>6, <1>8, <2>1, <5>1
        <5>3. Lower < top /\ Zone < top
          BY <1>6, <4>5, <5>1, <5>2
        <5> QED BY <1>5, <1>6, <4>1, <4>2, <5>1, <5>3, Parameters
      <4> QED BY <1>6, <4>3, <4>4, <4>5
    <3>2. CASE timer # "off"
      <4>1. Waiting /\ Running /\ Mark <= g
        BY <1>2, <1>19, <3>2 DEF UmInv, Calm
      <4>2. u < top
        BY <1>2, <1>5, <1>6, <1>8, <4>1 DEF Waiting, Running
      <4>3. t <= g + Behind + Pace
        BY <1>2, <1>6, <4>1, Parameters DEF Waiting
      <4> QED BY <1>2, <1>5, <1>6, <1>8, <1>14, <4>2, <4>3, Parameters
    <3> QED BY <3>1, <3>2
  <2>5. Running'
    <3>1. \A v \in Int : ~(t <= v /\ v < t)
      BY <1>2
    <3> QED BY <1>4, <2>1, <2>4, <3>1 DEF Running
  <2>6. stray' > 0 => t <= Zone + Behind
    <3>1. CASE stop
      <4>1. Waiting /\ Running /\ Mark <= g
        BY <1>2, <3>1 DEF UmInv, Calm
      <4>2. u < top
        BY <1>2, <1>5, <1>6, <1>8, <4>1 DEF Waiting, Running
      <4> QED BY <1>5, <1>6, <1>14, <4>2
    <3>2. CASE ~stop
      BY <1>4, <1>15, <3>2
    <3> QED BY <3>1, <3>2
  <2> QED BY <1>4, <1>16, <1>18, <2>1, <2>3, <2>5, <2>6 DEF Calm
<1>20. CASE ~start /\ stop
  <2>1. Waiting /\ Running /\ Mark <= g
    BY <1>2, <1>20 DEF UmInv, Calm
  <2>2. timer' = "off" /\ Mark' = Mark /\ since' = since /\ g = t
    BY <1>4, <1>6, <1>8, <1>20, <1>2
  <2>3. u < top
    BY <1>2, <1>5, <1>6, <1>8, <2>1 DEF Waiting, Running
  <2>4. Waiting'
    <3>1. Mark - 1 <= last'
      <4>1. Lower <= Mark - 1 /\ Mark - 1 < g
        BY <1>6, <2>1 DEF Running
      <4>2. Mark - 1 \in Held \cup {u}
        BY <1>6, <1>8, <4>1
      <4> QED BY <1>8, <4>1, <4>2
    <3>2. ASSUME NEW v \in air', Mark <= v PROVE g <= v
      <4>1. v \in Int /\ Lower <= v
        BY <1>6, <1>9, <2>1, <3>2 DEF Running
      <4> QED BY <1>13, <4>1
    <3>3. Mark <= t
      BY <2>1, <2>2
    <3> QED BY <1>4, <1>9, <2>1, <2>2, <3>1, <3>2, <3>3 DEF Waiting
  <2>5. Idle'
    <3>1. t <= t + Behind + Pace /\ ~(t < t)
      BY <1>2, Parameters
    <3> QED BY <1>4, <2>2, <3>1 DEF Idle
  <2>6. t <= Zone + Behind
    BY <1>5, <1>6, <1>14, <2>3
  <2> QED BY <1>4, <1>16, <1>18, <2>2, <2>4, <2>5, <2>6 DEF Calm
<1>21. CASE ~start /\ ~stop /\ timer = "off"
  <2>1. timer' = "off" /\ Mark' = Mark /\ since' = since /\ g = t /\ stray' = stray
    BY <1>2, <1>4, <1>8, <1>21
  <2>2. ASSUME stray > 0 PROVE Waiting'
    <3>1. Waiting
      BY <1>7, <2>2
    <3>2. Mark - 1 <= last' \/ Mark - 1 \in Held'
      BY <1>6, <1>8, <1>12, <3>1 DEF Waiting
    <3>3. ASSUME NEW v \in air', Mark <= v PROVE g <= v
      BY <1>9, <1>13, <3>1, <3>3 DEF Waiting
    <3>4. Mark <= t
      BY <1>2, <1>6, <3>1 DEF Waiting
    <3> QED BY <1>4, <1>9, <2>1, <3>1, <3>2, <3>3, <3>4 DEF Waiting
  <2>3. Idle'
    <3>1. t <= t + Behind + Pace /\ ~(t < t)
      BY <1>2, Parameters
    <3> QED BY <1>4, <2>1, <3>1 DEF Idle
  <2> QED BY <1>4, <1>15, <1>16, <1>18, <2>1, <2>2, <2>3 DEF Calm
<1>22. CASE ~start /\ ~stop /\ timer # "off"
  <2>1. timer' = timer /\ Mark' = Mark /\ since' = since /\ stray' = stray /\ g < Mark
    BY <1>4, <1>6, <1>22
  <2>2. Waiting /\ Running
    BY <1>2, <1>22 DEF UmInv, Calm
  <2>3. Waiting'
    <3>1. Mark - 1 <= last' \/ Mark - 1 \in Held'
      BY <1>6, <1>8, <1>12, <2>2 DEF Waiting
    <3>2. \A v \in air' : Mark <= v => g <= v
      BY <1>6, <1>9, <2>1
    <3>3. Mark <= t
      BY <1>2, <1>6, <2>2 DEF Waiting
    <3> QED BY <1>4, <1>9, <2>1, <2>2, <3>1, <3>2, <3>3 DEF Waiting
  <2>4. Running'
    <3>1. ASSUME NEW v \in Int, Mark <= v, Zone <= v, v < t PROVE v \in Held'
      <4>1. CASE v < top
        BY <1>6, <1>8, <2>1, <2>2, <3>1, <4>1 DEF Running
      <4>2. CASE top <= v
        <5>1. v = u
          BY <1>2, <1>5, <1>6, <3>1, <4>2
        <5> QED BY <1>6, <1>8, <2>1, <3>1, <5>1
      <4> QED BY <1>6, <4>1, <4>2
    <3>2. Mark <= g + Behind + Pace + Gap + 1
      BY <1>6, <1>8, <2>2, Parameters DEF Running
    <3>3. Mark <= Zone + Behind + Pace + 1
      BY <1>6, <2>2, Parameters DEF Running, Waiting
    <3> QED BY <1>4, <2>1, <3>1, <3>2, <3>3 DEF Running
  <2> QED BY <1>4, <1>15, <1>16, <1>18, <1>22, <2>1, <2>3, <2>4 DEF Calm
<1> QED BY <1>19, <1>20, <1>21, <1>22

LEMMA ReceiveAt ==
  ASSUME TrafficFits, UmInv, Receive
  PROVE  UmInv'
<1>1. PICK u \in air : ReceiveOne(u)
  BY ReceiveIs
<1>2. Channel'
  BY <1>1, ArrivesAt DEF ReceiveOne
<1>3. Timed'
  <2>1. SetTimer(MovedUh(u % M), vr_ur')
    BY <1>1 DEF ReceiveOne
  <2>2. 0 \in 0 .. Pace
    BY BoundsAssumption
  <2> QED BY <2>1, <2>2 DEF SetTimer, UmInv, Timed
<1>4. ASSUME ~disturbed' PROVE Calm'
  BY <1>1, <1>4, AfterWrap, AfterOther
<1> QED BY <1>2, <1>3, <1>4 DEF UmInv

-----------------------------------------------------------------------------
(* The theorems.                                                             *)

LEMMA StepAt ==
  ASSUME TrafficFits, UmInv, [Next]_vars
  PROVE  UmInv'
<1>1. CASE Send
  BY <1>1, SendAt
<1>2. CASE Lose
  <2>1. PICK u \in air : air' = air \ {u}
    BY <1>2 DEF Lose
  <2>2. /\ UNCHANGED <<sent, top, vr_ur, vr_uh, vr_ux, window, stray, since, last>>
        /\ timer' = timer /\ (disturbed => disturbed')
    BY <1>2 DEF Lose
  <2> QED BY <2>1, <2>2, QuietAt
<1>3. CASE Drop
  BY <1>3, DropAt
<1>4. CASE Receive
  BY <1>4, ReceiveAt
<1>5. CASE Expire
  BY <1>5, QuietAt DEF Expire, channel
<1>6. CASE Reorder
  BY <1>6, ReorderAt
<1>7. CASE UNCHANGED vars
  <2>1. UNCHANGED <<sent, air, top, vr_ur, vr_uh, vr_ux, window, timer, stray, since, last, disturbed>>
    BY <1>7 DEF vars
  <2>2. disturbed => disturbed'
    BY <2>1, Zenon
  <2> QED BY <2>1, <2>2, QuietAt
<1> QED BY <1>1, <1>2, <1>3, <1>4, <1>5, <1>6, <1>7 DEF Next

\* The invariant of the receiver: the three numbers stand for the units Lower, Mark
\* and top, which lie so close to each other, and apart from a wrap, that the plain
\* comparisons of rlc_macfsm.c:1958 to 2066 compare the units; as long as nothing was
\* amiss at a wrap.
THEOREM UmInvAlways == TrafficFits /\ Spec => []UmInv
<1> SUFFICES ASSUME TrafficFits PROVE Spec => []UmInv
  OBVIOUS
<1>1. Init => UmInv
  BY InitAt
<1>2. UmInv /\ [Next]_vars => UmInv'
  BY StepAt
<1> QED BY <1>1, <1>2, PTL DEF Spec

\* As long as nothing was amiss at a wrap, a unit is thrown away on arrival only if a
\* newer one was handed over before (rlc_macfsm.c:1958).
THEOREM DroppedIsLateAlways == TrafficFits /\ Spec => []DroppedIsLate
<1> SUFFICES ASSUME TrafficFits PROVE Spec => []DroppedIsLate
  OBVIOUS
<1>1. UmInv => DroppedIsLate
  BY LateDropped
<1> QED BY <1>1, UmInvAlways, PTL

\* As long as nothing was amiss at a wrap, no gap holds a unit back for long, although
\* an expiry does not start the timer again (rlc_macfsm.c:455 and 2066).
THEOREM HeldBrieflyAlways == TrafficFits /\ Spec => []HeldBriefly
<1> SUFFICES ASSUME TrafficFits PROVE Spec => []HeldBriefly
  OBVIOUS
<1>1. UmInv => HeldBriefly
  BY Brief
<1> QED BY <1>1, UmInvAlways, PTL

\* What a step does to what is stored, and to what comes out.
LEMMA StepServes ==
  ASSUME TrafficFits, UmInv, Next, ~disturbed'
  PROVE  /\ \A n \in SN : window[n] # None => window'[n] \in {window[n], None}
         /\ Service!Next
<1>1. CASE Send
  <2>1. Service!Send
    BY <1>1 DEF Send, Service!Send
  <2> QED BY <1>1, <2>1 DEF Send, Service!Next
<1>2. CASE Lose \/ Drop \/ Expire
  <2>1. handed' = <<>> /\ UNCHANGED <<sent, last, window>>
    BY <1>2 DEF Lose, Drop, Expire, Arrives, channel
  <2>2. Service!Quiet
    BY <2>1 DEF Service!Quiet
  <2> QED BY <2>1, <2>2 DEF Service!Next
<1>3. CASE Receive
  <2>1. PICK u \in air : ReceiveOne(u)
    BY <1>3, ReceiveIs
  <2>2. PICK g \in Int : ReceivedTo(u, g)
    BY <2>1, Received
  <2> QED BY <2>2 DEF ReceivedTo
<1>4. CASE Reorder
  <2>1. ~disturbed /\ sent' = sent
    BY <1>4 DEF Reorder, channel
  <2>2. PICK g \in Int : ReorderedTo(g)
    BY <1>4, <2>1, Reordered
  <2>3. DeliversBelow(window, g)
    BY <2>2 DEF ReorderedTo
  <2>4. /\ sent \in Nat /\ last \in Int /\ Filed(window)
        /\ \A v \in Units(window) : last < v /\ v < sent
    <3>1. /\ sent \in Nat /\ top \in Nat /\ top <= sent /\ last \in Int /\ Filed(window)
          /\ \A v \in Held : v \in Int /\ last < v /\ v < top
      BY <2>1, Facts
    <3> QED BY <3>1 DEF Held
  <2>5. Service!Next
    BY <2>1, <2>3, <2>4, Handed
  <2> QED BY <2>3, <2>5 DEF DeliversBelow
<1> QED BY <1>1, <1>2, <1>3, <1>4 DEF Next

\* As long as nothing was amiss at a wrap, no unit is stored in the place of another
\* (rlc_macfsm.c:1988).
THEOREM NotLeakedAlways == TrafficFits /\ Spec => NotLeaked
<1> SUFFICES ASSUME TrafficFits PROVE Spec => NotLeaked
  OBVIOUS
<1>1. UmInv /\ [Next]_vars =>
        [~disturbed' => \A n \in SN : window[n] # None => window'[n] \in {window[n], None}]_vars
  BY StepServes
<1> QED BY <1>1, UmInvAlways, PTL DEF Spec, NotLeaked

\* As long as nothing was amiss at a wrap, the receiver implements the service of
\* unacknowledged mode: units reach reassembly in the order they were sent, each
\* once, some of them missing (rlc_UM_reassemble_deliver, segment.c:1379).
THEOREM UmImplementsService == TrafficFits /\ Spec => ImplementsService
<1> SUFFICES ASSUME TrafficFits PROVE Spec => ImplementsService
  OBVIOUS
<1>1. Init => Service!Init
  BY DEF Init, Service!Init, None
<1>2. UmInv /\ [Next]_vars => [~disturbed' => Service!Next]_vars
  BY StepServes
<1> QED BY <1>1, <1>2, UmInvAlways, PTL DEF Spec, ImplementsService
=============================================================================
