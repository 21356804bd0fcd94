----------------------------- MODULE FsmPackets ------------------------------
(* How the kernel modules of a stack talk to each other, through the queues of *)
(* the FSM runtime (src/enb_eth/fsm/fsmcore.c): packets up, by the rx_queue    *)
(* and netif_rx; packets down, by the tx_queue and dev_queue_xmit; ioctls, by  *)
(* do_ioctl_list.  A tasklet empties each queue; handlers run in the receiver  *)
(* under its core.lock, with interrupts disabled.                              *)
(*                                                                             *)
(* Softirqs run on every CPU on their own: the network's, which hands out the  *)
(* packets of the CPU's backlog, and that of the tasklets, which takes all of  *)
(* the CPU's tasklets at once and runs them in turn.                           *)
EXTENDS Naturals, Sequences, SequencesExt

CONSTANTS
  Cpu,
  Module,
  Line,        \* the queues: whose (of), what kind (by), and to whom (to)
  None,        \* no CPU, no line, nothing at hand
  MaxItem,     \* bound: the most that goes by one line
  Setup        \* the instances: the CPUs online, and the bound of each line

ASSUME LineAssumption ==
  Line \subseteq [of : Module \cup {None}, by : {"rx", "tx", "ioctl", "wire"},
                  to : SUBSET Module]
ASSUME SetupAssumption ==
  /\ MaxItem \in Nat
  /\ Setup \subseteq [cpus : SUBSET Cpu, most : [Line -> 0..MaxItem]]

Item == [line : Line \cup {None}, n : 0..MaxItem, to : Module]

ASSUME NoneAssumption == None \notin Cpu \cup Line \cup Item

VARIABLES
  setup,     \* which CPUs are online; bound: what goes by each line
  sent,      \* how much was sent on each line
  queue,     \* rx_queue, tx_queue, do_ioctl_list
  sched,     \* TASKLET_STATE_SCHED of the queue's tasklet
  tasklets,  \* per CPU: the tasklets that wait (tasklet_vec)
  batch,     \* per CPU: those the softirq has taken and not yet run
  backlog,   \* per CPU: the packets netif_rx has queued
  run,       \* per CPU: what runs
  owner,     \* per module: who holds core.lock
  begun,     \* history: what each line's receivers have begun to handle
  led        \* history: <<i, u>> when a packet's handler sent ioctl i and then
             \*   packet u up, to the same module

cpuVars == <<tasklets, batch, backlog>>
vars == <<setup, sent, queue, sched, cpuVars, run, owner, begun, led>>

(* What a CPU runs: where it is, whose tasklet, which item is at hand, which   *)
(* tasklet the sender must still schedule, and the ioctl sent last.            *)
Idle == [at |-> "idle", line |-> None, item |-> None, kick |-> None, asked |-> None]

Run == [at : {"idle", "test", "lock", "body", "kick", "remove", "end"},
        line : Line \cup {None}, item : Item \cup {None},
        kick : Line \cup {None}, asked : Item \cup {None}]

Goes(p, r) == run' = [run EXCEPT ![p] = r]

TypeOK ==
  /\ setup \in Setup
  /\ sent \in [Line -> 0..MaxItem]
  /\ queue \in [Line -> Seq(Item)]
  /\ sched \in [Line -> BOOLEAN]
  /\ tasklets \in [Cpu -> Seq(Line)]
  /\ batch \in [Cpu -> Seq(Line)]
  /\ backlog \in [Cpu -> Seq(Item)]
  /\ run \in [Cpu -> Run]
  /\ owner \in [Module -> Cpu \cup {None}]
  /\ begun \in [Line -> Seq(0..MaxItem)]
  /\ led \subseteq Item \X Item

Init ==
  /\ setup \in Setup
  /\ sent = [l \in Line |-> 0]
  /\ queue = [l \in Line |-> <<>>]
  /\ sched = [l \in Line |-> FALSE]
  /\ tasklets = [p \in Cpu |-> <<>>]
  /\ batch = [p \in Cpu |-> <<>>]
  /\ backlog = [p \in Cpu |-> <<>>]
  /\ run = [p \in Cpu |-> Idle]
  /\ owner = [m \in Module |-> None]
  /\ begun = [l \in Line |-> <<>>]
  /\ led = {}
-----------------------------------------------------------------------------
(* The softirqs.                                                               *)

\* netif_receive_skb hands a packet of the backlog to its module.
NetRx(p) ==
  /\ run[p].at = "idle" /\ batch[p] = <<>> /\ backlog[p] # <<>>
  /\ backlog' = [backlog EXCEPT ![p] = Tail(@)]
  /\ Goes(p, [run[p] EXCEPT !.at = "lock", !.item = Head(backlog[p])])
  /\ UNCHANGED <<setup, sent, queue, sched, tasklets, batch, owner, begun, led>>

BeginBatch(p) ==
  /\ run[p].at = "idle" /\ batch[p] = <<>> /\ tasklets[p] # <<>>
  /\ batch' = [batch EXCEPT ![p] = tasklets[p]]
  /\ tasklets' = [tasklets EXCEPT ![p] = <<>>]
  /\ UNCHANGED <<setup, sent, queue, sched, backlog, run, owner, begun, led>>

\* A tasklet that another CPU runs is put back.
PutBack(p) ==
  /\ run[p].at = "idle" /\ batch[p] # <<>>
  /\ \E q \in Cpu : run[q].line = Head(batch[p])
  /\ batch' = [batch EXCEPT ![p] = Tail(@)]
  /\ tasklets' = [tasklets EXCEPT ![p] = Append(@, Head(batch[p]))]
  /\ UNCHANGED <<setup, sent, queue, sched, backlog, run, owner, begun, led>>

StartTasklet(p) ==
  /\ run[p].at = "idle" /\ batch[p] # <<>>
  /\ \A q \in Cpu : run[q].line # Head(batch[p])
  /\ batch' = [batch EXCEPT ![p] = Tail(@)]
  /\ sched' = [sched EXCEPT ![Head(batch[p])] = FALSE]
  /\ Goes(p, [run[p] EXCEPT !.at = "test", !.line = Head(batch[p])])
  /\ UNCHANGED <<setup, sent, queue, tasklets, backlog, owner, begun, led>>
-----------------------------------------------------------------------------
(* The tasklets __fsm_skb_netrx, __fsm_skb_xmit and __fsm_do_ioctl.            *)

Empty(p) ==
  /\ run[p].at = "test" /\ queue[run[p].line] = <<>>
  /\ Goes(p, [run[p] EXCEPT !.at = "end"])
  /\ UNCHANGED <<setup, sent, queue, sched, cpuVars, owner, begun, led>>

\* The function returns; until then the tasklet is marked as running.
Finish(p) ==
  /\ run[p].at = "end"
  /\ Goes(p, Idle)
  /\ UNCHANGED <<setup, sent, queue, sched, cpuVars, owner, begun, led>>

\* Mutant: the packet is handed to its module without netif_rx.
MutPassUp(p) ==
  LET l == run[p].line
  IN  /\ run[p].at = "test" /\ l.by = "rx" /\ queue[l] # <<>>
      /\ queue' = [queue EXCEPT ![l] = Tail(@)]
      /\ Goes(p, [run[p] EXCEPT !.at = "lock", !.item = Head(queue[l])])
      /\ UNCHANGED <<setup, sent, sched, cpuVars, owner, begun, led>>

\* NETIF_RX queues the packet on the backlog of the CPU that runs the tasklet.
PassUp(p) ==
  LET l == run[p].line
  IN  /\ run[p].at = "test" /\ l.by = "rx" /\ queue[l] # <<>>
      /\ queue' = [queue EXCEPT ![l] = Tail(@)]
      /\ backlog' = [backlog EXCEPT ![p] = Append(@, Head(queue[l]))]
      /\ UNCHANGED <<setup, sent, sched, tasklets, batch, run, owner, begun, led>>

\* DEV_QUEUE_XMIT calls the lower module.
PassDown(p) ==
  LET l == run[p].line
  IN  /\ run[p].at = "test" /\ l.by = "tx" /\ queue[l] # <<>>
      /\ queue' = [queue EXCEPT ![l] = Tail(@)]
      /\ Goes(p, [run[p] EXCEPT !.at = "lock", !.item = Head(queue[l])])
      /\ UNCHANGED <<setup, sent, sched, cpuVars, owner, begun, led>>

\* ndo_do_ioctl is called for the first of the list, which stays there.
PassIoctl(p) ==
  LET l == run[p].line
  IN  /\ run[p].at = "test" /\ l.by = "ioctl" /\ queue[l] # <<>>
      /\ Goes(p, [run[p] EXCEPT !.at = "lock", !.item = Head(queue[l])])
      /\ UNCHANGED <<setup, sent, queue, sched, cpuVars, owner, begun, led>>

\* Mutant: the tasklet serves one ioctl each time it runs.
MutIoctlDone(p) ==
  /\ run[p].at = "remove"
  /\ queue' = [queue EXCEPT ![run[p].line] = Tail(@)]
  /\ Goes(p, [run[p] EXCEPT !.at = "end"])
  /\ UNCHANGED <<setup, sent, sched, cpuVars, owner, begun, led>>

\* list_del, after ndo_do_ioctl has returned.
IoctlDone(p) ==
  /\ run[p].at = "remove"
  /\ queue' = [queue EXCEPT ![run[p].line] = Tail(@)]
  /\ Goes(p, [run[p] EXCEPT !.at = "test"])
  /\ UNCHANGED <<setup, sent, sched, cpuVars, owner, begun, led>>
-----------------------------------------------------------------------------
(* A handler, under core.lock of its module.                                   *)

\* Mutant: core.lock is not taken for an ioctl.
MutLock(p) ==
  LET i == run[p].item
  IN  /\ run[p].at = "lock"
      /\ (run[p].line # None /\ run[p].line.by = "ioctl") \/ owner[i.to] = None
      /\ owner' = [owner EXCEPT ![i.to] = p]
      /\ Goes(p, [run[p] EXCEPT !.at = "body"])
      /\ begun' = IF i.line = None THEN begun
                  ELSE [begun EXCEPT ![i.line] = Append(@, i.n)]
      /\ UNCHANGED <<setup, sent, queue, sched, cpuVars, led>>

Lock(p) ==
  LET i == run[p].item
  IN  /\ run[p].at = "lock" /\ owner[i.to] = None
      /\ owner' = [owner EXCEPT ![i.to] = p]
      /\ Goes(p, [run[p] EXCEPT !.at = "body"])
      /\ begun' = IF i.line = None THEN begun
                  ELSE [begun EXCEPT ![i.line] = Append(@, i.n)]
      /\ UNCHANGED <<setup, sent, queue, sched, cpuVars, led>>

\* A packet of the backlog is being handled.
InNetRx(p) == run[p].line = None /\ run[p].item.line # None

\* fsm_pkt_send or fsm_do_ioctrl, up to skb_queue_tail or list_add_tail.
Send(p, l, m) ==
  LET i == [line |-> l, n |-> sent[l] + 1, to |-> m]
  IN  /\ run[p].at = "body" /\ l.by # "wire"
      /\ l.of = run[p].item.to /\ m \in l.to /\ sent[l] < setup.most[l]
      /\ sent' = [sent EXCEPT ![l] = @ + 1]
      /\ queue' = [queue EXCEPT ![l] = Append(@, i)]
      /\ Goes(p, [run[p] EXCEPT !.at = "kick", !.kick = l,
                                !.asked = IF InNetRx(p) /\ l.by = "ioctl" THEN i ELSE @])
      /\ led' = IF l.by = "rx" /\ run[p].asked # None /\ run[p].asked.to = m
                THEN led \cup {<<run[p].asked, i>>} ELSE led
      /\ UNCHANGED <<setup, sched, cpuVars, owner, begun>>

\* Mutant: a tasklet that runs is not scheduled again.
MutKick(p) ==
  LET l == run[p].kick
  IN  /\ run[p].at = "kick"
      /\ IF sched[l] \/ \E q \in Cpu : run[q].line = l
         THEN UNCHANGED <<sched, tasklets>>
         ELSE /\ sched' = [sched EXCEPT ![l] = TRUE]
              /\ tasklets' = [tasklets EXCEPT ![p] = Append(@, l)]
      /\ Goes(p, [run[p] EXCEPT !.at = "body", !.kick = None])
      /\ UNCHANGED <<setup, sent, queue, batch, backlog, owner, begun, led>>

\* tasklet_schedule, on the CPU of the sender.
Kick(p) ==
  LET l == run[p].kick
  IN  /\ run[p].at = "kick"
      /\ IF sched[l] THEN UNCHANGED <<sched, tasklets>>
         ELSE /\ sched' = [sched EXCEPT ![l] = TRUE]
              /\ tasklets' = [tasklets EXCEPT ![p] = Append(@, l)]
      /\ Goes(p, [run[p] EXCEPT !.at = "body", !.kick = None])
      /\ UNCHANGED <<setup, sent, queue, batch, backlog, owner, begun, led>>

\* The handler returns to the softirq, the process or the tasklet it ran in.
Return(p) ==
  LET l == run[p].line
  IN  /\ run[p].at = "body"
      /\ owner' = [owner EXCEPT ![run[p].item.to] = None]
      /\ Goes(p, IF l = None THEN Idle
                 ELSE [Idle EXCEPT !.at = IF l.by = "ioctl" THEN "remove" ELSE "test",
                                   !.line = l])
      /\ UNCHANGED <<setup, sent, queue, sched, cpuVars, begun, led>>
-----------------------------------------------------------------------------
(* From outside.                                                               *)

\* A packet comes in by the network card of a CPU that takes interrupts.
Arrive(p, l, m) ==
  /\ l.by = "wire" /\ m \in l.to /\ sent[l] < setup.most[l]
  /\ p \in setup.cpus /\ run[p].at \notin {"body", "kick"}
  /\ sent' = [sent EXCEPT ![l] = @ + 1]
  /\ backlog' = [backlog EXCEPT ![p] =
                   Append(@, [line |-> l, n |-> sent[l] + 1, to |-> m])]
  /\ UNCHANGED <<setup, queue, sched, tasklets, batch, run, owner, begun, led>>

\* An event of FsmTimer (between the tasklets of a batch) or a call from user
\* space (between softirqs) drives module m.
Call(p, m) ==
  /\ p \in setup.cpus /\ run[p].at = "idle"
  /\ Goes(p, [run[p] EXCEPT !.at = "lock",
                            !.item = [line |-> None, n |-> 0, to |-> m]])
  /\ UNCHANGED <<setup, sent, queue, sched, cpuVars, owner, begun, led>>
-----------------------------------------------------------------------------
Softirq(p) == NetRx(p) \/ BeginBatch(p) \/ PutBack(p) \/ StartTasklet(p)

Serve(p) ==
  Empty(p) \/ Finish(p) \/ PassUp(p) \/ PassDown(p) \/ PassIoctl(p) \/ IoctlDone(p)

Next ==
  \E p \in Cpu :
    \/ Softirq(p) \/ Serve(p) \/ Lock(p) \/ Kick(p) \/ Return(p)
    \/ \E l \in Line, m \in Module : Send(p, l, m) \/ Arrive(p, l, m)
    \/ \E m \in Module : Call(p, m)

Spec == Init /\ [][Next]_vars

(* Pending softirqs are served, whatever processes do; a tasklet and a handler *)
(* go on; the spinning CPU gets a lock that is released time and again.        *)
Fairness ==
  \A p \in Cpu :
    /\ SF_vars(Softirq(p))
    /\ SF_vars(Lock(p))
    /\ WF_vars(Serve(p) \/ Kick(p) \/ Return(p))

FairSpec == Spec /\ Fairness
-----------------------------------------------------------------------------
(* No wake-up is lost: while a queue holds something its tasklet waits on the  *)
(* list of a CPU, or runs and will look again, or is about to be scheduled.    *)
(* The tasklets test their queue and end without telling the senders           *)
(* (fsmcore.c:1000, 1026, 1307), who schedule after they have queued.          *)
Awake ==
  \A l \in Line :
    queue[l] # <<>> =>
      \E p \in Cpu :
        \/ Contains(tasklets[p], l) \/ Contains(batch[p], l)
        \/ run[p].line = l /\ run[p].at # "end"
        \/ run[p].kick = l

OneCpu == \E p \in Cpu : setup.cpus = {p}

(* One CPU: the ioctl a packet's handler sends before it sends a packet up is  *)
(* handled before that packet.  The base station's MAC relies on it: it tells  *)
(* the identity of a terminal by ioctl (mac_pkthandler.c:996) and passes up the *)
(* request that RRC destroys when it does not know the terminal.               *)
IndicationFirst ==
  OneCpu =>
    \A pair \in led :
      Contains(begun[pair[2].line], pair[2].n) => Contains(begun[pair[1].line], pair[1].n)

(* The promise of the runtime: FsmPackets implements ModuleLinks.  netif_rx     *)
(* uses the backlog of the CPU it runs on, so with several CPUs neither what    *)
(* goes up nor what comes in is in order.                                      *)
InOrder == {l \in Line : l.by \in {"tx", "ioctl"} \/ OneCpu}

Links == INSTANCE ModuleLinks WITH
  busy <- [m \in Module |-> owner[m] # None], ordered <- InOrder

ImplementsLinks == Links!Spec

(* Whatever is sent is handled some day.                                       *)
Handled ==
  \A l \in Line : \A n \in 1..MaxItem : sent[l] >= n ~> Contains(begun[l], n)
=============================================================================
