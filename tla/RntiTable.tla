------------------------------ MODULE RntiTable ------------------------------
(* The table of RNTIs of the base station's MAC (mac_scheduler.c): a random     *)
(* access response lends temporary ones, the answer to message 3 makes one a    *)
(* C-RNTI, a sweep takes back those that were not confirmed in time, and one    *)
(* flag says that a C-RNTI element came. Each action is one handler of the MAC, *)
(* which core.lock lets run alone.                                              *)
EXTENDS Naturals, FiniteSets

CONSTANTS
  NumRnti,   \* NUM_RNTI; Rnti stands for m_rnti 61, 62, ...
  MaxRa      \* preambles reported in one request

ASSUME TableAssumption == NumRnti \in Nat \ {0} /\ MaxRa \in Nat \ {0}

Rnti == 1..NumRnti
NoCe == 0

VARIABLES
  type,      \* Type_rnti: unallocated, tc (TC_RNTI) or c (CRNTI_TYPE)
  notes,     \* tc_rnti_notes: the RNTIs whose note is 1
  flag,      \* RAR_receive_crnti
  known,     \* RNTIs with a terminal in RRC
  bearers,   \* RNTIs with bearers in RLC, from which downlink packets come
  answered,  \* RNTIs a contention resolution was sent on: C-RNTIs of terminals
  withCe     \* history: RNTIs on which a C-RNTI element came since they were lent

tableVars == <<type, notes, flag, known, bearers, answered, withCe>>

Temporary(t) == {r \in Rnti : t[r] = "tc"}

TableInit ==
  /\ type = [r \in Rnti |-> "unallocated"]
  /\ notes = {}
  /\ flag = FALSE
  /\ known = {}
  /\ bearers = {}
  /\ answered = {}
  /\ withCe = {}

-----------------------------------------------------------------------------
(* The functions on the table.                                                 *)

\* recall_rnti: whatever the RNTI was, it is free.
Recall(t, r) == [t EXCEPT ![r] = "unallocated"]

\* convert_TcRntiToCRnti: prints an error for an RNTI that is not temporary.
Convert(t, r) == IF t[r] = "tc" THEN [t EXCEPT ![r] = "c"] ELSE t

\* Do_judge_rnti: a temporary RNTI judged while the flag is set is taken back.
Spent(t, f, r) == f /\ t[r] = "tc"

JudgedType(t, f, r) == IF Spent(t, f, r) THEN Recall(t, r) ELSE t
JudgedFlag(t, f, r) == f /\ ~Spent(t, f, r)

MutGrantable == {r \in Rnti : type[r] = "unallocated"}
Grantable == {r \in Rnti : type[r] = "unallocated" /\ r \notin notes}

\* DoAllocate_Rnti called n times takes the lowest; when none is left it hands
\* out what lies behind the table, which no packet is ever accepted for.
Granted(n) == {r \in Grantable : Cardinality({q \in Grantable : q < r}) < n}

-----------------------------------------------------------------------------
(* The handlers.                                                               *)

\* The response to n preambles; none is sent without uplink resources.
HandleRaReq(n) ==
  /\ type' = [r \in Rnti |-> IF r \in Granted(n) THEN "tc" ELSE type[r]]
  /\ withCe' = withCe \ Granted(n)
  /\ UNCHANGED <<notes, flag, known, bearers, answered>>

\* A terminal sends a C-RNTI element, or a request to RRC, or neither.
Contents == ({NoCe} \X BOOLEAN) \cup (answered \X {FALSE})

\* The element sets the flag and has its C-RNTI judged.
TakeElement(t, f, r, ce) ==
  IF ce = NoCe
    THEN type' = t /\ flag' = f /\ UNCHANGED withCe
    ELSE /\ type' = JudgedType(t, TRUE, ce)
         /\ flag' = JudgedFlag(t, TRUE, ce)
         /\ withCe' = withCe \cup {r}

\* RNTI_indicate: RRC opens a terminal and has its bearers built.
Indicate(r, ccch) ==
  /\ known' = IF ccch THEN known \cup {r} ELSE known
  /\ bearers' = IF ccch THEN bearers \cup {r} ELSE bearers

\* decomplexEndMacPdu for a C-RNTI; what comes on a free RNTI is destroyed.
UplinkConnected(r, ce, ccch) ==
  /\ type[r] = "c"
  /\ TakeElement(type, flag, r, ce)
  /\ Indicate(r, ccch)
  /\ UNCHANGED <<notes, answered>>

\* The same for a temporary RNTI: it is judged before the element is read.
UplinkTemporary(r, ce, ccch) ==
  /\ type[r] = "tc"
  /\ TakeElement(JudgedType(type, flag, r), JudgedFlag(type, flag, r), r, ce)
  /\ Indicate(r, ccch)
  /\ UNCHANGED <<notes, answered>>

\* complexEnbMacPdu for a temporary RNTI: the packet answers message 3, unless
\* it does not fit and is destroyed. On a C-RNTI it leaves the table alone.
DownlinkTemporary(r, fits) ==
  /\ r \in bearers
  /\ type[r] = "tc"
  /\ type' = LET t == JudgedType(type, flag, r)
             IN  IF fits THEN Convert(t, r) ELSE t
  /\ flag' = JudgedFlag(type, flag, r)
  /\ answered' = IF fits THEN answered \cup {r} ELSE answered
  /\ UNCHANGED <<notes, known, bearers, withCe>>

\* RRC closed a terminal: its RNTI comes back. Its bearers may outlive it, as the
\* message that has them go does not say which (rrcfsm_enb_ue.c:274).
Release(r) ==
  /\ r \in known
  /\ type' = Recall(type, r)
  /\ known' = known \ {r}
  /\ UNCHANGED <<notes, flag, bearers, answered, withCe>>

\* delete_overtime_tc_rnti, then note_tc_rnti, which only ever sets notes.
Swept == [r \in Rnti |-> IF r \in notes /\ type[r] = "tc" THEN "unallocated" ELSE type[r]]

MutSweep ==
  /\ type' = Swept
  /\ UNCHANGED <<notes, flag, known, bearers, answered, withCe>>

Sweep ==
  /\ type' = Swept
  /\ notes' = notes \cup Temporary(Swept)
  /\ UNCHANGED <<flag, known, bearers, answered, withCe>>

TableNext ==
  \/ \E n \in 1..MaxRa : HandleRaReq(n)
  \/ \E r \in Rnti, c \in Contents :
       UplinkConnected(r, c[1], c[2]) \/ UplinkTemporary(r, c[1], c[2])
  \/ \E r \in Rnti, fits \in BOOLEAN : DownlinkTemporary(r, fits)
  \/ \E r \in Rnti : Release(r)
  \/ Sweep

TableSpec == TableInit /\ [][TableNext]_tableVars

\* The sweep posts itself again before anything else, and the event service
\* delivers what is posted.
FairSpec == TableSpec /\ WF_tableVars(Sweep)

-----------------------------------------------------------------------------
(* Properties.                                                                 *)

\* Types of the table and its histories (struct rnti_array, tc_rnti_notes).
TypeOK ==
  /\ type \in [Rnti -> {"unallocated", "tc", "c"}]
  /\ notes \subseteq Rnti
  /\ flag \in BOOLEAN
  /\ known \subseteq Rnti
  /\ bearers \subseteq Rnti
  /\ answered \subseteq Rnti
  /\ withCe \subseteq Rnti

\* The abstract pool: an RNTI that is temporary and noted is an old loan.
Use(t) ==
  [r \in Rnti |-> CASE t[r] = "unallocated" -> "free"
                    [] t[r] = "tc" -> "lent"
                    [] t[r] = "c" -> "confirmed"]

Pool == INSTANCE RntiPool WITH
  use <- Use(type),
  old <- Temporary(type) \cap notes

\* The table implements the pool (mac_scheduler.c:266): a sweep takes back a
\* temporary RNTI if and only if the sweep before it saw the same loan, and
\* nothing but a release of that RNTI ends a C-RNTI.
ImplementsPool == Pool!Spec

\* A temporary RNTI does not stay one: it is confirmed or comes back
\* (mac_scheduler.c:234, "a TC-RNTI must be dealt with or is taken back").
TempIsTemporary == \A r \in Rnti : type[r] = "tc" ~> type[r] # "tc"

\* The comment mac_scheduler.c:279 says the sweep notes anew which RNTIs are
\* temporary: after it the notes are those that are.
NotesAreCurrent == [][Sweep => notes' = Temporary(type')]_tableVars

\* The comments mac_scheduler.c:422 and 424 say a temporary RNTI is taken back
\* when the MAC control elements received on it have a C-RNTI.
RecalledHadCrnti ==
  [][\A r \in Rnti :
       type[r] = "tc" /\ type'[r] = "unallocated" /\ ~Sweep /\ ~Release(r)
         => r \in withCe']_tableVars
=============================================================================
