---------------------------- MODULE RlcUmSegment ----------------------------
(***************************************************************************)
(* Segmentation, concatenation and reassembly of a bearer in                *)
(* unacknowledged mode.  The sender cuts the queued SDUs to the size MAC     *)
(* offers; the receiver joins what it is handed.  RlcUmReceive shows that    *)
(* units are handed to reassembly in the order they were sent, less those    *)
(* lost, so a unit here is handed over when it is sent, or is lost.          *)
(*                                                                           *)
(* The k-th octet of the i-th SDU is <<i, k>>; sizes are the code's.         *)
(***************************************************************************)
EXTENDS Integers, SequencesExt

CONSTANTS
  Mod,        \* modulus of the unit numbers, 1024 in the code
  Lengths,    \* lengths of the SDUs
  MaxSdu,     \* bound on the SDUs
  MaxGrant,   \* bound on the size MAC offers
  MaxMissing  \* bound on the units lost in a row

ASSUME ModAssumption == Mod \in Nat /\ Mod > 1
ASSUME LengthsAssumption == Lengths \subseteq Nat \ {0}
ASSUME BoundsAssumption == MaxSdu \in Nat /\ MaxGrant \in Nat /\ MaxMissing \in 0 .. Mod - 2

None == -1
NothingLeft == [sn |-> None, data |-> <<>>, crowded |-> FALSE]
LiOctet == <<0, 0>>          \* an octet of a length indicator taken for data
Sdu(i, n) == [k \in 1 .. n |-> <<i, k>>]

VARIABLES
  buf,        \* umSduBuffer: the octets left of each SDU, and whether it is a LAST_SEGMENT
  size,       \* umSduBufferSize
  sn,         \* SN of the next unit
  left,       \* pduLft of the receiver: the start of an SDU, and the unit it came in
  lengths,    \* history: the lengths of the SDUs queued so far
  missing,    \* history: units lost since one arrived
  arrived,    \* history: octets that arrived in units of at most two SDUs
  delivered   \* history: what was sent to PDCP, and whether a unit of more SDUs had part in it

umVars == <<buf, size, sn, left, lengths, missing, arrived, delivered>>

UmInit ==
  /\ buf = <<>> /\ size = 0 /\ sn = 0
  /\ left = NothingLeft
  /\ lengths = <<>> /\ missing = 0 /\ arrived = {} /\ delivered = <<>>

-----------------------------------------------------------------------------
(* The sender.                                                               *)

Length(i) == Len(buf[i].data)

\* The octets of the first n SDUs of a queue.
Upto(queue, n) ==
  LET sum[i \in 0 .. Len(queue)] == IF i = 0 THEN 0 ELSE sum[i - 1] + Len(queue[i].data)
  IN sum[n]

\* What is left of the size before the i-th SDU in the queue: two octets go to
\* the fixed header, two to the length of each SDU that is followed by another.
Room(grant, i) == grant - 2 - Upto(buf, i - 1) - 2 * (i - 1)

\* How many SDUs have part in the unit.
Shares(grant) ==
  CHOOSE c \in DOMAIN buf :
    /\ c = Len(buf) \/ Room(grant, c) <= Length(c) + 2
    /\ \A i \in 1 .. c - 1 : Room(grant, i) > Length(i) + 2

Copied(grant) == IF Room(grant, Shares(grant)) < Length(Shares(grant))
                 THEN Room(grant, Shares(grant)) ELSE Length(Shares(grant))

Octets(from, to) == FlattenSeq([i \in 1 .. to - from + 1 |-> buf[from + i - 1].data])

UnitOf(grant) ==
  LET c == Shares(grant) IN
  [sn |-> sn,
   FIfirst |-> buf[1].part,
   FIsecond |-> Room(grant, c) < Length(c),
   LI |-> [i \in 1 .. c - 1 |-> Length(i)],
   data |-> Octets(1, c - 1) \o SubSeq(buf[c].data, 1, Copied(grant))]

MutSizeAfter(grant) == size - (grant - 2)
SizeAfter(grant) == size - Upto(buf, Shares(grant) - 1) - Copied(grant)

\* What stays of the last SDU. With others before it the SDU is deleted when as
\* much is left of it as was copied, and kept when nothing is.
MutRest(grant) ==
  LET c == Shares(grant)
      rest == SubSeq(buf[c].data, Copied(grant) + 1, Length(c))
  IN IF rest = <<>> THEN <<>> ELSE << [data |-> rest, part |-> FALSE] >>
Rest(grant) ==
  LET c == Shares(grant)
      rest == SubSeq(buf[c].data, Copied(grant) + 1, Length(c))
      gone == IF c = 1 THEN rest = <<>> ELSE Len(rest) = Copied(grant)
  IN IF gone THEN <<>> ELSE << [data |-> rest, part |-> TRUE] >>

-----------------------------------------------------------------------------
(* The receiver: rlc_UM_reassemble_deliver for one unit.  Of several length  *)
(* indicators it reads the first (get_UmPduhdExt); the others stay in the    *)
(* data.                                                                     *)

Crowded(u) == Len(u.LI) > 1
UnreadOctets(u) == IF Crowded(u) THEN 2 * (Len(u.LI) - 1) ELSE 0
Payload(u) == [i \in 1 .. UnreadOctets(u) |-> LiOctet] \o u.data
MutJoins(u) == left.sn # None
Joins(u) == left.sn # None /\ (left.sn + 1) % Mod = u.sn

\* The pieces of the unit: the first and the last SDU it has part in.
FirstPiece(u) == IF u.LI = <<>> THEN Payload(u) ELSE SubSeq(Payload(u), 1, u.LI[1])
LastPiece(u) == SubSeq(Payload(u), u.LI[1] + 1, Len(Payload(u)))

\* The first piece, joined to what is left if it continues an SDU; a piece
\* whose start is not there is dropped.
First(u) ==
  IF ~u.FIfirst THEN << [data |-> FirstPiece(u), crowded |-> Crowded(u)] >>
  ELSE IF Joins(u) THEN << [data |-> left.data \o FirstPiece(u), crowded |-> left.crowded \/ Crowded(u)] >>
  ELSE <<>>

Second(u) == IF u.LI = <<>> THEN <<>> ELSE << [data |-> LastPiece(u), crowded |-> Crowded(u)] >>

MutPieces(u) == Second(u) \o First(u)
Pieces(u) == First(u) \o Second(u)

Reassemble(u) ==
  LET pieces == Pieces(u)
      open == u.FIsecond /\ pieces # <<>>
  IN /\ delivered' = delivered \o (IF open THEN Front(pieces) ELSE pieces)
     /\ left' = IF open THEN [sn |-> u.sn, data |-> Last(pieces).data, crowded |-> Last(pieces).crowded]
                ELSE NothingLeft
     /\ arrived' = IF Crowded(u) THEN arrived ELSE arrived \cup ToSet(u.data)

-----------------------------------------------------------------------------
\* rlc_pkt_receive_from_upper
Queue ==
  \E n \in Lengths :
    /\ Len(lengths) < MaxSdu
    /\ buf' = Append(buf, [data |-> Sdu(Len(lengths) + 1, n), part |-> FALSE])
    /\ size' = size + n
    /\ lengths' = Append(lengths, n)
    /\ UNCHANGED <<sn, left, missing, arrived, delivered>>

\* MAC asks only those whose size is not 0.
UmTransmit ==
  \E grant \in 3 .. MaxGrant :
    /\ size > 0 /\ buf # <<>>
    /\ buf' = Rest(grant) \o SubSeq(buf, Shares(grant) + 1, Len(buf))
    /\ size' = SizeAfter(grant)
    /\ sn' = (sn + 1) % Mod
    /\ \/ missing' = 0 /\ Reassemble(UnitOf(grant))
       \/ /\ missing < MaxMissing /\ missing' = missing + 1
          /\ UNCHANGED <<left, arrived, delivered>>
    /\ UNCHANGED lengths

\* With size counted too high MAC asks an empty queue: a number is used up and
\* an empty unit sent, in which the receiver finds no header.
TransmitNothing ==
  /\ size > 0 /\ buf = <<>>
  /\ missing < MaxMissing /\ missing' = missing + 1
  /\ sn' = (sn + 1) % Mod
  /\ UNCHANGED <<buf, size, left, lengths, arrived, delivered>>

UmNext == Queue \/ UmTransmit \/ TransmitNothing

UmSpec == UmInit /\ [][UmNext]_umVars

-----------------------------------------------------------------------------
\* Every variable has its type; in particular the size told to MAC, a u32, is
\* not counted below 0, nor is there a start of an SDU without the unit it came in.
IsSdu(d, i) == d = Sdu(i, lengths[i])
Pending == Upto(buf, Len(buf))

(* Whatever units are lost, and wherever their limits fall, PDCP gets whole  *)
(* SDUs, never one with its start or its middle missing or one grown together *)
(* with another, in the order in which they were queued, and none of them     *)
(* twice, as long as no unit holds more than two.                            *)
WholeInOrder ==
  /\ \A d \in ToSet(delivered) : ~d.crowded => \E i \in DOMAIN lengths : IsSdu(d.data, i)
  /\ \A j, k \in DOMAIN delivered :
       j < k /\ ~delivered[j].crowded /\ ~delivered[k].crowded
         => delivered[j].data[1][1] < delivered[k].data[1][1]

\* The loss of a unit costs only the SDUs that had part in it: an SDU whose
\* octets all arrived has been sent to PDCP.
ArrivedIsDelivered ==
  \A i \in DOMAIN lengths :
    ToSet(Sdu(i, lengths[i])) \subseteq arrived => \E d \in ToSet(delivered) : IsSdu(d.data, i)

\* MAC is never told of less than is queued, and the counter, which is an
\* unsigned sum of lengths and of parts taken off, never passes zero: what is left
\* of an SDU is asked for again.  (It may be told of more, see Rest and
\* TransmitNothing.)
ReportCovers == size \in Nat /\ Pending <= size

\* The description of rlc_UM_reassemble_deliver, "transmit SDU to PDCP one by
\* one", taken of units of any number of SDUs: with three in a unit the second
\* length is taken for data and two of the SDUs reach PDCP as one.
OneByOne == \A d \in ToSet(delivered) : \E i \in DOMAIN lengths : IsSdu(d.data, i)
=============================================================================
