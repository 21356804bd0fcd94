------------------------------ MODULE FsmTimer ------------------------------
(* The event service of the FSM runtime (src/enb_eth/fsm/fsmcore.c, of which   *)
(* every kernel module of the stack carries a copy): the ordered queue of      *)
(* timing events, the one hrtimer that serves it, the hard-interrupt callback  *)
(* that moves expired events to exp_ev_list, the tasklet that drives the state *)
(* machines with them under core.lock, and opening and closing the core.       *)
(*                                                                             *)
(* Four contexts interleave: whoever holds core.lock (a packet, an ioctl, the  *)
(* tasklet, open or close) and runs a state machine's handler; the hrtimer     *)
(* callback; the tasklet outside core.lock; and the clock.  With one CPU a     *)
(* section that disables interrupts runs without the others.                   *)
EXTENDS Naturals, Sequences, SequencesExt

CONSTANTS
  Slot,          \* addresses fsm_mem_alloc can return for a __tmEvent
  NoSlot,        \* no event at hand
  Delays,        \* delays the handlers ask for, in the 10 us base of the code
  MaxTime,       \* bound: last instant of the clock
  MaxClose,      \* bound: how often the device is taken down
  MultiCpu       \* whether a second CPU is online

ASSUME SlotAssumption  == NoSlot \notin Slot
ASSUME DelayAssumption == Delays \subseteq Nat
ASSUME BoundAssumption == MaxTime \in Nat /\ MaxClose \in Nat
ASSUME CpuAssumption   == MultiCpu \in BOOLEAN

NoTimer == MaxTime + 1       \* the hrtimer is not enqueued

VARIABLES
  now,        \* ktime_get(), in units of 10 us
  dev,        \* how far dev_open or dev_stop of the net device has got
  coreState,  \* fsm_core.state
  closes,     \* how often the core was closed
  ready,      \* tm_init has run at least once
  owner,      \* who holds core.lock
  hpc,        \* where the holder of core.lock is
  cur,        \* the event it inserts or removes (pE)
  tmLock,     \* who holds tmev_list_lock
  tmState,    \* __tmCtrlBlock.tm_state
  evQ,        \* __tmCtrlBlock.evQ
  expire,     \* pE->expire
  slot,       \* where each allocated event is
  before,     \* history: <<a, b>> when live event a was inserted before b
  late,       \* history: the live events whose instant had passed when inserted
  armed,      \* instant the hrtimer is enqueued for, or NoTimer
  irq,        \* where the hrtimer callback is
  cutoff,     \* its cur_time
  reload,     \* the expiry it gave hrtimer_set_expires
  expQ,       \* exp_ev_list, as the tasklet walks it
  expCut,     \* its head no longer reaches what is added at its tail
  tlet,       \* where the exp_ev_tsklt tasklet is
  tletSched,  \* TASKLET_STATE_SCHED
  oops        \* a NULL or dangling pointer, or a BUG_ON, was met

coreVars  == <<dev, coreState, closes, ready>>
lockVars  == <<owner, hpc, cur>>
queueVars == <<evQ, expire, slot, before, late>>
irqVars   == <<irq, cutoff, reload>>
expVars   == <<expQ, expCut>>
tletVars  == <<tlet, tletSched>>
vars == <<now, coreVars, lockVars, tmLock, tmState, queueVars, armed, irqVars,
          expVars, tletVars, oops>>

TypeOK ==
  /\ now \in 0..MaxTime
  /\ dev \in {"down", "opening", "up", "stopping"}
  /\ coreState \in {"closed", "opened"}
  /\ closes \in 0..MaxClose
  /\ ready \in BOOLEAN
  /\ owner \in {"none", "open", "close", "drive", "tasklet"}
  /\ hpc \in {"idle", "body", "insert", "link", "state", "restart", "arm", "run",
              "cancel", "remove", "unlink", "stop", "halt", "flush", "kill", "drain"}
  /\ cur \in Slot \cup {NoSlot}
  /\ tmLock \in {"none", "holder", "irq"}
  /\ tmState \in {"STOP", "RUN", "EXPIRE"}
  /\ evQ \in Seq(Slot)
  /\ expire \in [Slot -> 0..MaxTime]
  /\ slot \in [Slot -> {"free", "held", "queued", "expired", "leaked"}]
  /\ before \subseteq Slot \X Slot
  /\ late \subseteq Slot
  /\ armed \in 0..NoTimer
  /\ irq \in {"off", "enter", "check", "lock", "move", "sched", "test", "quit",
              "reload", "run", "again"}
  /\ cutoff \in 0..MaxTime
  /\ reload \in 0..MaxTime
  /\ expQ \in Seq(Slot)
  /\ expCut \in BOOLEAN
  /\ tlet \in {"off", "test", "lock", "drive", "del", "unlink"}
  /\ tletSched \in BOOLEAN
  /\ oops \in BOOLEAN

Init ==
  /\ now = 0
  /\ dev = "down" /\ coreState = "closed" /\ closes = 0 /\ ready = FALSE
  /\ owner = "none" /\ hpc = "idle" /\ cur = NoSlot
  /\ tmLock = "none" /\ tmState = "STOP"
  /\ evQ = <<>> /\ before = {} /\ late = {}
  /\ expire = [s \in Slot |-> 0]
  /\ slot = [s \in Slot |-> "free"]
  /\ armed = NoTimer
  /\ irq = "off" /\ cutoff = 0 /\ reload = 0
  /\ expQ = <<>> /\ expCut = FALSE
  /\ tlet = "off" /\ tletSched = FALSE
  /\ oops = FALSE
-----------------------------------------------------------------------------
(* Who may take a step.  core.lock and the list locks are taken with           *)
(* spin_lock_irqsave, the callback runs in hard-interrupt context: with one    *)
(* CPU neither is interrupted, and the tasklet only gives way to the callback. *)

HolderRuns   == ~oops /\ (MultiCpu \/ irq = "off")
TaskletRuns  == ~oops /\ (MultiCpu \/ (irq = "off" /\ (owner = "none" \/ hpc = "kill")))
ProcessRuns  == ~oops /\ (MultiCpu \/ (irq = "off" /\ tlet = "off"))
IrqEnabled   == MultiCpu \/ (owner = "none" /\ tlet # "unlink")

\* The tick of the clock every other step is measured against.
Tick ==
  /\ ~oops
  /\ now < MaxTime
  /\ now' = now + 1
  /\ UNCHANGED <<coreVars, lockVars, tmLock, tmState, queueVars, armed, irqVars,
                 expVars, tletVars, oops>>

\* fsm_mem_free of a set of events, which also leave the history.
Free(S) ==
  /\ slot' = [s \in Slot |-> IF s \in S THEN "free" ELSE slot[s]]
  /\ expire' = [s \in Slot |-> IF s \in S THEN 0 ELSE expire[s]]
  /\ before' = {p \in before : p[1] \notin S /\ p[2] \notin S}
  /\ late' = late \ S

\* Every instruction of the kernel stops here: what follows is a dead machine.
Crash ==
  /\ oops' = TRUE
  /\ UNCHANGED <<now, coreVars, lockVars, tmLock, tmState, queueVars, armed,
                 irqVars, expVars, tletVars>>
-----------------------------------------------------------------------------
(* core.lock: packets and ioctls drive a state machine, which runs its handler *)
(* to the end; the handler may schedule and cancel events any number of times. *)

\* fsm_core_pkt_drive, fsm_ioctrl_arrival: neither looks at fsm_core.state, and
\* __fsm_do_ioctl of another module calls the latter though the device is down.
Drive ==
  /\ ProcessRuns
  /\ owner = "none"
  /\ owner' = "drive" /\ hpc' = "body"
  /\ UNCHANGED <<now, coreVars, cur, tmLock, tmState, queueVars, armed, irqVars,
                 expVars, tletVars, oops>>

\* The handler ends: __fsm_ev_flush and the unlock of core.lock; in close, the
\* next thing is __fsm_tm_stop.
HandlerReturn ==
  /\ HolderRuns
  /\ hpc = "body"
  /\ IF owner = "close"
       THEN hpc' = "halt" /\ UNCHANGED <<owner, tlet>>
       ELSE /\ owner' = "none" /\ hpc' = "idle"
            /\ tlet' = IF owner = "tasklet" THEN "del" ELSE tlet
  /\ UNCHANGED <<now, coreVars, cur, tmLock, tmState, queueVars, armed, irqVars,
                 expVars, tletSched, oops>>

-----------------------------------------------------------------------------
(* Scheduling: fsm_schedule_self, fsm_schedule_exfsm and fsm_post_msg, through *)
(* __fsm_tm_ev_add and __fsm_tm_ev_insert.                                     *)

\* __fsm_tm_ev_add: a delay of 0 becomes one unit.
Due(d) == now + (IF d = 0 THEN 1 ELSE d)

Schedule(s, d) ==
  /\ HolderRuns
  /\ hpc = "body"
  /\ slot[s] = "free"
  /\ Due(d) <= MaxTime
  /\ slot' = [slot EXCEPT ![s] = "held"]
  /\ expire' = [expire EXCEPT ![s] = Due(d)]
  /\ cur' = s /\ hpc' = "insert"
  /\ UNCHANGED <<now, coreVars, owner, tmLock, tmState, evQ, before, late,
                 armed, irqVars, expVars, tletVars, oops>>

\* spin_lock_irqsave(&tmev_list_lock), before an insertion or a removal.
TakeListLock(from, to) ==
  /\ HolderRuns
  /\ hpc = from
  /\ tmLock = "none"
  /\ tmLock' = "holder" /\ hpc' = to
  /\ UNCHANGED <<now, coreVars, owner, cur, tmState, queueVars, armed, irqVars,
                 expVars, tletVars, oops>>

LockInsert == TakeListLock("insert", "link")
LockRemove == TakeListLock("remove", "unlink")

\* Mutant: the event is appended, whatever its instant.
MutWalksTo(k, s) == k = Len(evQ)

\* Where __fsm_tm_ev_insert links an event: after every event it walks past,
\* those that do not expire later, and before the first that does.
WalksTo(k, s) ==
  /\ \A i \in 1..k : expire[evQ[i]] <= expire[s]
  /\ k < Len(evQ) => expire[evQ[k + 1]] > expire[s]

\* The event is in the queue; only a new head makes the timer restart.
Link(k) ==
  /\ HolderRuns
  /\ hpc = "link"
  /\ WalksTo(k, cur)
  /\ evQ' = InsertAt(evQ, k + 1, cur)
  /\ slot' = [slot EXCEPT ![cur] = "queued"]
  /\ before' = before \cup {<<a, cur>> : a \in {b \in Slot : slot[b] \in {"queued", "expired"}}}
  /\ late' = IF expire[cur] < now THEN late \cup {cur} ELSE late
  /\ IF k = 0
       THEN hpc' = "state" /\ UNCHANGED <<tmLock, cur>>
       ELSE hpc' = "body" /\ tmLock' = "none" /\ cur' = NoSlot
  /\ UNCHANGED <<now, coreVars, owner, tmState, expire, armed, irqVars, expVars,
                 tletVars, oops>>

\* The unlock of tmev_list_lock and the return to the handler.
BackToBody == tmLock' = "none" /\ hpc' = "body" /\ cur' = NoSlot

\* if(pB->tm_state != FSM_TM_EXPIRE): the callback is left to restart the timer.
TestState ==
  /\ HolderRuns
  /\ hpc = "state"
  /\ IF tmState = "EXPIRE"
       THEN BackToBody
       ELSE hpc' = "restart" /\ UNCHANGED <<tmLock, cur>>
  /\ UNCHANGED <<now, coreVars, owner, tmState, queueVars, armed, irqVars, expVars,
                 tletVars, oops>>

\* Mutant: a timer that runs is left alone, whatever the new head.
MutRestart ==
  /\ HolderRuns
  /\ hpc = "restart"
  /\ IF tmState = "STOP" THEN hpc' = "arm" /\ UNCHANGED <<tmLock, cur>> ELSE BackToBody
  /\ UNCHANGED <<now, coreVars, owner, tmState, queueVars, armed, irqVars, expVars,
                 tletVars, oops>>

\* __fsm_tm_restart on a queue that is not empty: by the state it reads, start
\* the timer, or cancel and start it, or nothing.
Restart ==
  /\ HolderRuns
  /\ hpc = "restart"
  /\ CASE tmState = "STOP"   -> hpc' = "arm" /\ UNCHANGED <<tmLock, cur>>
       [] tmState = "RUN"    -> hpc' = "cancel" /\ UNCHANGED <<tmLock, cur>>
       [] tmState = "EXPIRE" -> BackToBody
  /\ UNCHANGED <<now, coreVars, owner, tmState, queueVars, armed, irqVars, expVars,
                 tletVars, oops>>

\* hrtimer_start on a timer hrtimer_init has not seen dereferences a NULL base.
Arm ==
  /\ HolderRuns
  /\ hpc = "arm" /\ ready
  /\ armed' = expire[Head(evQ)]
  /\ hpc' = "run"
  /\ UNCHANGED <<now, coreVars, owner, cur, tmLock, tmState, queueVars, irqVars,
                 expVars, tletVars, oops>>

ArmUnready == HolderRuns /\ hpc = "arm" /\ ~ready /\ Crash

MarkRun ==
  /\ HolderRuns
  /\ hpc = "run"
  /\ tmState' = "RUN"
  /\ BackToBody
  /\ UNCHANGED <<now, coreVars, owner, queueVars, armed, irqVars, expVars, tletVars,
                 oops>>

\* hrtimer_cancel waits for a running callback, with tmev_list_lock held; then
\* hrtimer_start.  tm_state stays what it is by then.
CancelAndArm ==
  /\ HolderRuns
  /\ hpc = "cancel"
  /\ irq = "off"
  /\ armed' = expire[Head(evQ)]
  /\ BackToBody
  /\ UNCHANGED <<now, coreVars, owner, tmState, queueVars, irqVars, expVars,
                 tletVars, oops>>
-----------------------------------------------------------------------------
(* Cancelling: fsm_schedule_cancel, that is __fsm_tm_ev_rmv, with a handle an  *)
(* FSM kept.  evmask of freed memory may read as anything.                     *)

\* The mask is right and the queue not empty, as seen without the lock.
Cancel(s) ==
  /\ HolderRuns
  /\ hpc = "body"
  /\ evQ # <<>>
  /\ cur' = s /\ hpc' = "remove"
  /\ UNCHANGED <<now, coreVars, owner, tmLock, tmState, queueVars, armed, irqVars,
                 expVars, tletVars, oops>>

\* The event is the head of the queue: the timer restarts for the next one, or
\* stops when there is none (__fsm_tm_restart then only sets FSM_TM_STOP).
UnlinkHead ==
  /\ HolderRuns
  /\ hpc = "unlink"
  /\ evQ # <<>> /\ cur = Head(evQ)
  /\ evQ' = Tail(evQ)
  /\ Free({cur})
  /\ hpc' = IF Len(evQ) = 1 THEN "stop" ELSE "state"
  /\ UNCHANGED <<now, coreVars, owner, cur, tmLock, tmState, armed, irqVars, expVars,
                 tletVars, oops>>

\* Mutant: the event found in the queue is not freed.
MutUnlinkInner(k) ==
  /\ HolderRuns
  /\ hpc = "unlink"
  /\ k > 1 /\ evQ[k] = cur
  /\ evQ' = RemoveAt(evQ, k)
  /\ BackToBody
  /\ UNCHANGED <<now, coreVars, owner, tmState, expire, slot, before, late, armed,
                 irqVars, expVars, tletVars, oops>>

\* The event is further down the queue.
UnlinkInner(k) ==
  /\ HolderRuns
  /\ hpc = "unlink"
  /\ k > 1 /\ evQ[k] = cur
  /\ evQ' = RemoveAt(evQ, k)
  /\ Free({cur})
  /\ BackToBody
  /\ UNCHANGED <<now, coreVars, owner, tmState, armed, irqVars, expVars, tletVars,
                 oops>>

\* Mutant: the search stops before the last event.
MutUnlinkFails ==
  /\ HolderRuns
  /\ hpc = "unlink"
  /\ evQ # <<>> /\ \A i \in 1..(Len(evQ) - 1) : evQ[i] # cur
  /\ BackToBody
  /\ UNCHANGED <<now, coreVars, owner, tmState, queueVars, armed, irqVars, expVars,
                 tletVars, oops>>

\* The event is not in the queue any more: FSM_EXEC_FAIL.
UnlinkFails ==
  /\ HolderRuns
  /\ hpc = "unlink"
  /\ evQ # <<>> /\ ~Contains(evQ, cur)
  /\ BackToBody
  /\ UNCHANGED <<now, coreVars, owner, tmState, queueVars, armed, irqVars, expVars,
                 tletVars, oops>>

\* The callback emptied the queue after the unlocked test: p0 is NULL.
UnlinkEmpty == HolderRuns /\ hpc = "unlink" /\ evQ = <<>> /\ Crash

\* __fsm_tm_stop: hrtimer_try_to_cancel leaves a running callback alone.
StopTimer ==
  /\ tmState' = "STOP"
  /\ armed' = IF irq = "off" THEN NoTimer ELSE armed

StopEmpty ==
  /\ HolderRuns
  /\ hpc = "stop"
  /\ StopTimer
  /\ BackToBody
  /\ UNCHANGED <<now, coreVars, owner, queueVars, irqVars, expVars, tletVars, oops>>
-----------------------------------------------------------------------------
(* The hrtimer callback __fsm_tm_expire, in hard-interrupt context.            *)

\* The interrupt: the kernel takes the timer off its queue and calls back.
Fire ==
  /\ ~oops /\ IrqEnabled
  /\ irq = "off" /\ armed <= now
  /\ armed' = NoTimer
  /\ irq' = "enter"
  /\ UNCHANGED <<now, coreVars, lockVars, tmLock, tmState, queueVars, cutoff, reload,
                 expVars, tletVars, oops>>

\* The callback returns; its locals are gone.
CallbackEnds == irq' = "off" /\ cutoff' = 0 /\ reload' = 0

ReadTime ==
  /\ ~oops /\ irq = "enter"
  /\ cutoff' = now
  /\ tmState' = "EXPIRE"
  /\ irq' = "check"
  /\ UNCHANGED <<now, coreVars, lockVars, tmLock, queueVars, armed, reload, expVars,
                 tletVars, oops>>

\* spin_is_locked(&tmev_list_lock): "dead lock", HRTIMER_NORESTART.
Check ==
  /\ ~oops /\ irq = "check"
  /\ IF tmLock = "none"
       THEN irq' = "lock" /\ UNCHANGED <<cutoff, reload>>
       ELSE CallbackEnds
  /\ UNCHANGED <<now, coreVars, lockVars, tmLock, tmState, queueVars, armed, expVars,
                 tletVars, oops>>

IrqLock ==
  /\ ~oops /\ irq = "lock" /\ tmLock = "none"
  /\ tmLock' = "irq"
  /\ irq' = "move"
  /\ UNCHANGED <<now, coreVars, lockVars, tmState, queueVars, armed, cutoff, reload,
                 expVars, tletVars, oops>>

\* The tasklet is in the middle of the list_del of the only entry, under
\* another lock than the one the callback adds under.
ListRace == tlet = "unlink" /\ Len(expQ) = 1

\* Mutant: the whole queue is moved, whatever its instants.
MutMove(k, m, cut) ==
  /\ ~oops /\ irq = "move"
  /\ k = Len(evQ) /\ m = 0 /\ ~cut
  /\ evQ' = <<>>
  /\ expQ' = expQ \o evQ
  /\ slot' = [s \in Slot |-> IF slot[s] = "queued" THEN "expired" ELSE slot[s]]
  /\ tmLock' = "none" /\ irq' = "sched"
  /\ UNCHANGED <<now, coreVars, lockVars, tmState, expire, before, late, armed, cutoff,
                 reload, expCut, tletVars, oops>>

\* The first k events have expired and go to the tail of exp_ev_list.  Racing
\* with list_del the first m of them are lost; when all are, the list head may
\* be left pointing at itself for good.
Move(k, m, cut) ==
  /\ ~oops /\ irq = "move"
  /\ \A i \in 1..k : expire[evQ[i]] <= cutoff
  /\ k < Len(evQ) => expire[evQ[k + 1]] > cutoff
  /\ IF expCut THEN m = k ELSE ~ListRace => m = 0
  /\ cut => m = k /\ k > 0
  /\ evQ' = SubSeq(evQ, k + 1, Len(evQ))
  /\ expQ' = expQ \o SubSeq(evQ, m + 1, k)
  /\ expCut' = (expCut \/ cut)
  /\ slot' = [s \in Slot |-> IF \E i \in 1..m : evQ[i] = s THEN "leaked"
                             ELSE IF \E i \in (m + 1)..k : evQ[i] = s THEN "expired"
                             ELSE slot[s]]
  /\ tmLock' = "none" /\ irq' = "sched"
  /\ UNCHANGED <<now, coreVars, lockVars, tmState, expire, before, late, armed, cutoff,
                 reload, tletVars, oops>>

\* tasklet_schedule(exp_ev_tsklt).
ScheduleTasklet ==
  /\ ~oops /\ irq = "sched"
  /\ tletSched' = TRUE
  /\ irq' = "test"
  /\ UNCHANGED <<now, coreVars, lockVars, tmLock, tmState, queueVars, armed, cutoff,
                 reload, expVars, tlet, oops>>

\* Mutant: the callback does not look whether events are left.
MutTestMore ==
  /\ ~oops /\ irq = "test"
  /\ irq' = "reload"
  /\ UNCHANGED <<now, coreVars, lockVars, tmLock, tmState, queueVars, armed, cutoff,
                 reload, expVars, tletVars, oops>>

\* if(pB->evQ), without the lock.
TestMore ==
  /\ ~oops /\ irq = "test"
  /\ irq' = IF evQ = <<>> THEN "quit" ELSE "reload"
  /\ UNCHANGED <<now, coreVars, lockVars, tmLock, tmState, queueVars, armed, cutoff,
                 reload, expVars, tletVars, oops>>

Quit ==
  /\ ~oops /\ irq = "quit"
  /\ tmState' = "STOP"
  /\ CallbackEnds
  /\ UNCHANGED <<now, coreVars, lockVars, tmLock, queueVars, armed, expVars, tletVars,
                 oops>>

\* hrtimer_set_expires(&pB->timer, pB->evQ->expire).
Reload ==
  /\ ~oops /\ irq = "reload" /\ evQ # <<>>
  /\ reload' = expire[Head(evQ)]
  /\ irq' = "run"
  /\ UNCHANGED <<now, coreVars, lockVars, tmLock, tmState, queueVars, armed, cutoff,
                 expVars, tletVars, oops>>

ReloadNull == ~oops /\ irq = "reload" /\ evQ = <<>> /\ Crash

\* Mutant: HRTIMER_NORESTART although events are left.
MutRerun ==
  /\ ~oops /\ irq = "run"
  /\ tmState' = "RUN"
  /\ CallbackEnds
  /\ UNCHANGED <<now, coreVars, lockVars, tmLock, queueVars, armed, expVars, tletVars,
                 oops>>

Rerun ==
  /\ ~oops /\ irq = "run"
  /\ tmState' = "RUN"
  /\ irq' = "again"
  /\ UNCHANGED <<now, coreVars, lockVars, tmLock, queueVars, armed, cutoff, reload,
                 expVars, tletVars, oops>>

\* HRTIMER_RESTART: the kernel enqueues the timer again.
Again ==
  /\ ~oops /\ irq = "again" /\ armed = NoTimer
  /\ armed' = reload
  /\ CallbackEnds
  /\ UNCHANGED <<now, coreVars, lockVars, tmLock, tmState, queueVars, expVars,
                 tletVars, oops>>

\* The kernel's BUG_ON: HRTIMER_RESTART for a timer somebody has enqueued.
AgainBug == ~oops /\ irq = "again" /\ armed # NoTimer /\ Crash
-----------------------------------------------------------------------------
(* The tasklet __fsm_pending_expev.                                            *)

StartTasklet ==
  /\ TaskletRuns
  /\ tlet = "off" /\ tletSched
  /\ tlet' = "test" /\ tletSched' = FALSE
  /\ UNCHANGED <<now, coreVars, lockVars, tmLock, tmState, queueVars, armed, irqVars,
                 expVars, oops>>

TestList ==
  /\ TaskletRuns
  /\ tlet = "test"
  /\ tlet' = IF expQ = <<>> THEN "off" ELSE "lock"
  /\ UNCHANGED <<now, coreVars, lockVars, tmLock, tmState, queueVars, armed, irqVars,
                 expVars, tletSched, oops>>

\* Mutant: core.lock is not taken.
MutDriveExpired ==
  /\ TaskletRuns
  /\ tlet = "lock"
  /\ owner' = "tasklet" /\ hpc' = "body" /\ tlet' = "drive"
  /\ UNCHANGED <<now, coreVars, cur, tmLock, tmState, queueVars, armed, irqVars,
                 expVars, tletSched, oops>>

\* The first expired event drives its state machine under core.lock.
DriveExpired ==
  /\ TaskletRuns
  /\ tlet = "lock" /\ owner = "none"
  /\ owner' = "tasklet" /\ hpc' = "body" /\ tlet' = "drive"
  /\ UNCHANGED <<now, coreVars, cur, tmLock, tmState, queueVars, armed, irqVars,
                 expVars, tletSched, oops>>

\* list_del under expev_list_lock, in two steps: its neighbours read and then
\* written.  The event is freed.
BeginDelete ==
  /\ TaskletRuns
  /\ tlet = "del"
  /\ tlet' = "unlink"
  /\ UNCHANGED <<now, coreVars, lockVars, tmLock, tmState, queueVars, armed, irqVars,
                 expVars, tletSched, oops>>

\* The list_del is done.
EndDelete ==
  /\ TaskletRuns
  /\ tlet = "unlink"
  /\ expQ' = Tail(expQ)
  /\ Free({Head(expQ)})
  /\ tlet' = "test"
  /\ UNCHANGED <<now, coreVars, lockVars, tmLock, tmState, evQ, armed, irqVars,
                 expCut, tletSched, oops>>
-----------------------------------------------------------------------------
(* Opening and closing: dev_open and dev_stop of a module's net device,        *)
(* serialised by the kernel, around fsm_core_open and fsm_core_close.          *)

\* dev_add_pack and netif_start_queue come before fsm_core_open...
DevOpen ==
  /\ ProcessRuns
  /\ dev = "down" /\ dev' = "opening"
  /\ UNCHANGED <<now, coreState, closes, ready, lockVars, tmLock, tmState, queueVars,
                 armed, irqVars, expVars, tletVars, oops>>

\* ...and fsm_core_close before dev_remove_pack.
DevDown ==
  /\ ProcessRuns
  /\ dev = "stopping" /\ dev' = "down"
  /\ UNCHANGED <<now, coreState, closes, ready, lockVars, tmLock, tmState, queueVars,
                 armed, irqVars, expVars, tletVars, oops>>

\* tasklet_init and hrtimer_init overwrite what they find.
InUse == armed # NoTimer \/ irq # "off" \/ tlet # "off" \/ tletSched

\* fsm_core_open up to the FSM_EV_CORE_OPEN event: every list starts empty.
CoreOpen ==
  /\ ProcessRuns
  /\ dev = "opening" /\ owner = "none" /\ ~InUse
  /\ dev' = "up" /\ coreState' = "opened" /\ ready' = TRUE
  /\ owner' = "open" /\ hpc' = "body"
  /\ tmState' = "STOP"
  /\ evQ' = <<>> /\ expQ' = <<>> /\ expCut' = FALSE
  /\ slot' = [s \in Slot |-> IF slot[s] = "free" THEN "free" ELSE "leaked"]
  /\ UNCHANGED <<now, closes, cur, tmLock, expire, before, late, armed, irqVars, tletVars,
                 oops>>

CoreOpenInUse == ProcessRuns /\ dev = "opening" /\ owner = "none" /\ InUse /\ Crash

\* fsm_core_close: core.lock, then the FSM_EV_CORE_CLOSE event.
CoreClose ==
  /\ ProcessRuns
  /\ dev = "up" /\ coreState = "opened" /\ closes < MaxClose
  /\ owner = "none"
  /\ owner' = "close" /\ hpc' = "body"
  /\ UNCHANGED <<now, coreVars, cur, tmLock, tmState, queueVars, armed, irqVars,
                 expVars, tletVars, oops>>

\* Mutant: the timer is not stopped.
MutCloseStop ==
  /\ HolderRuns
  /\ hpc = "halt"
  /\ tmState' = "STOP"
  /\ hpc' = "flush"
  /\ UNCHANGED <<now, coreVars, owner, cur, tmLock, queueVars, armed, irqVars, expVars,
                 tletVars, oops>>

\* __fsm_tm_stop, without tmev_list_lock.
CloseStop ==
  /\ HolderRuns
  /\ hpc = "halt"
  /\ StopTimer
  /\ hpc' = "flush"
  /\ UNCHANGED <<now, coreVars, owner, cur, tmLock, queueVars, irqVars, expVars,
                 tletVars, oops>>

\* __fsm_tm_flush.
CloseFlush ==
  /\ HolderRuns
  /\ hpc = "flush" /\ tmLock = "none"
  /\ evQ' = <<>>
  /\ Free({s \in Slot : slot[s] = "queued"})
  /\ hpc' = "kill"
  /\ UNCHANGED <<now, coreVars, owner, cur, tmLock, tmState, armed, irqVars, expVars,
                 tletVars, oops>>

\* tasklet_kill(exp_ev_tsklt), with core.lock held: it waits for the tasklet.
CloseKill ==
  /\ HolderRuns
  /\ hpc = "kill"
  /\ tlet = "off" /\ ~tletSched
  /\ hpc' = "drain"
  /\ UNCHANGED <<now, coreVars, owner, cur, tmLock, tmState, queueVars, armed,
                 irqVars, expVars, tletVars, oops>>

\* The expired events are freed and the core is closed.
CloseDrain ==
  /\ HolderRuns
  /\ hpc = "drain" /\ tlet \in {"off", "test"}
  /\ expQ' = <<>>
  /\ Free({s \in Slot : slot[s] = "expired"})
  /\ coreState' = "closed" /\ dev' = "stopping" /\ closes' = closes + 1
  /\ owner' = "none" /\ hpc' = "idle"
  /\ UNCHANGED <<now, ready, cur, tmLock, tmState, evQ, armed, irqVars, expCut,
                 tletVars, oops>>

\* A tasklet scheduled again after tasklet_kill holds the entry that is freed.
CloseDrainInUse == HolderRuns /\ hpc = "drain" /\ tlet = "lock" /\ Crash
-----------------------------------------------------------------------------
Handler ==
  \/ HandlerReturn
  \/ \E s \in Slot, d \in Delays : Schedule(s, d)
  \/ \E s \in Slot : Cancel(s)

ListOp ==
  \/ LockInsert
  \/ \E k \in 0..Len(evQ) : Link(k)
  \/ TestState \/ Restart \/ Arm \/ ArmUnready \/ MarkRun \/ CancelAndArm
  \/ LockRemove
  \/ UnlinkHead
  \/ \E k \in 1..Len(evQ) : UnlinkInner(k)
  \/ UnlinkFails \/ UnlinkEmpty \/ StopEmpty

Callback ==
  \/ ReadTime \/ Check \/ IrqLock
  \/ \E k \in 0..Len(evQ), m \in 0..Len(evQ), cut \in BOOLEAN :
       m <= k /\ Move(k, m, cut)
  \/ ScheduleTasklet \/ TestMore \/ Quit \/ Reload \/ ReloadNull \/ Rerun
  \/ Again \/ AgainBug

Tasklet == StartTasklet \/ TestList \/ DriveExpired \/ BeginDelete \/ EndDelete

Closing == CloseStop \/ CloseFlush \/ CloseKill \/ CloseDrain \/ CloseDrainInUse

Opening == DevOpen \/ CoreOpen \/ CoreOpenInUse

Next ==
  \/ Tick \/ Drive \/ Handler \/ ListOp \/ Fire \/ Callback \/ Tasklet
  \/ Opening \/ CoreClose \/ Closing \/ DevDown

Spec == Init /\ [][Next]_vars

(* The clock goes on; a context that can run does; a contended lock and an     *)
(* interrupt that is enabled time and again are served; a handler, being       *)
(* straight-line code, returns after finitely many schedules and cancels.      *)
Fairness ==
  /\ WF_vars(Tick)
  /\ SF_vars(HandlerReturn)
  /\ SF_vars(ListOp)
  /\ SF_vars(Fire)
  /\ SF_vars(Callback)
  /\ SF_vars(Tasklet)
  /\ WF_vars(Closing)

FairSpec == Spec /\ Fairness
-----------------------------------------------------------------------------
(* Safety.                                                                     *)

(* No event drives a state machine before the instant it was scheduled for:    *)
(* whatever is on exp_ev_list has expired, and so does whatever will follow.   *)
(* __fsm_tm_expire (the LATE_TIME test) and the order of evQ.                  *)
NeverEarly == \A i \in 1..Len(expQ) : expire[expQ[i]] <= now

(* The queue is ordered by expiry, as __fsm_tm_ev_insert promises and as the   *)
(* callback, which looks at the head only, relies on.                          *)
Sorted ==
  \A i, j \in 1..Len(evQ) : i < j => expire[evQ[i]] <= expire[evQ[j]]

(* An event is in exactly the place its life says: no event is queued twice,   *)
(* or freed while a queue or the tasklet still reaches it, and none that is to  *)
(* be in a queue is missing there (those the callback loses when it adds while  *)
(* the tasklet deletes are "leaked", and in no queue).                          *)
InOneQueueOnce ==
  LET all == evQ \o expQ
  IN  /\ \A i, j \in 1..Len(all) : all[i] = all[j] => i = j
      /\ \A i \in 1..Len(evQ) : slot[evQ[i]] = "queued"
      /\ \A i \in 1..Len(expQ) : slot[expQ[i]] = "expired"
      /\ \A s \in Slot : slot[s] = "queued" => Contains(evQ, s)
      /\ \A s \in Slot : slot[s] = "expired" => Contains(expQ, s)

(* Events are handled in the order of their expiry, and equal ones in the      *)
(* order in which they were posted: messages with delay 0 between the state    *)
(* machines of a module never overtake each other.  Only an event whose instant *)
(* had passed when it was queued comes after those moved to exp_ev_list before, *)
(* though it expires earlier (two CPUs: the handler waited for the list lock).  *)
HandledInOrder ==
  LET all == expQ \o evQ
  IN  \A i, j \in 1..Len(all) : i < j =>
        \/ expire[all[i]] < expire[all[j]]
        \/ /\ <<all[i], all[j]>> \in before
           /\ \/ expire[all[i]] = expire[all[j]]
              \/ i <= Len(expQ) /\ all[j] \in late

(* One CPU: every NULL pointer, freed entry and BUG_ON the code could meet is   *)
(* one of the Crash actions, and an open core meets none.  A closed one meets   *)
(* two: a handler posts before the first opening has set the hrtimer up, and    *)
(* the opening sets it up again while an event posted since the closing needs   *)
(* it (fsmcore.c:543 and 1310 drive a machine without a look at the state).     *)
OopsOnlyClosed ==
  oops => /\ coreState = "closed"
          /\ (hpc = "arm" /\ ~ready) \/ (dev = "opening" /\ InUse)

(* One CPU: no wake-up is lost.  Whenever nobody is inside the timer code and  *)
(* events are queued, the hrtimer is enqueued for the first of them, until     *)
(* closing stops it to throw them away.                                        *)
TimerServesHead ==
  irq = "off" /\ tmLock = "none" /\ hpc # "flush" /\ evQ # <<>> =>
    tmState = "RUN" /\ armed = expire[Head(evQ)]

(* One CPU: closing leaves nothing behind: no callback runs or can run, no     *)
(* tasklet, and no event, when fsm_core_close returns.                         *)
ClosesQuiet ==
  [][coreState = "opened" /\ coreState' = "closed" =>
       ~InUse' /\ evQ' = <<>> /\ expQ' = <<>>]_vars

(* fsm_schedule_cancel fails only for an event that is no longer queued.       *)
FailsOnlyWhenGone ==
  [][hpc = "unlink" /\ hpc' = "body" /\ evQ' = evQ => slot[cur] # "queued"]_vars
-----------------------------------------------------------------------------
(* The promise of the runtime: FsmTimer implements EventService.               *)
Running == tlet \in {"drive", "del", "unlink"}

Service == INSTANCE EventService WITH
  clock  <- now,
  status <- [s \in Slot |-> CASE slot[s] = "held" -> "posting"
                              [] slot[s] = "queued" -> "waiting"
                              [] slot[s] = "expired" ->
                                   IF Running /\ s = Head(expQ) THEN "handling" ELSE "waiting"
                              [] OTHER -> "free"],
  due    <- expire,
  order  <- before,
  busy   <- CASE owner = "none" -> "nobody" [] owner = "tasklet" -> "event" [] OTHER -> "other"

(* One CPU: every behaviour of the queue, the callback, the tasklet and the    *)
(* locks is one EventService allows.                                           *)
ImplementsService == Service!Spec
-----------------------------------------------------------------------------
(* Liveness.                                                                   *)

(* One CPU: whatever is scheduled is handled, cancelled or flushed, and freed;   *)
(* but for a closing that waits for the tasklet with core.lock held             *)
(* (fsmcore.c:755) while the tasklet waits for that lock, and for the crashes   *)
(* that OopsOnlyClosed leaves to a closed core.                                 *)
EventEnds ==
  \A s \in Slot : slot[s] \in {"queued", "expired"} ~>
    slot[s] = "free" \/ hpc = "kill" \/ oops
-----------------------------------------------------------------------------
(* What comments of the source say and two CPUs refute.                        *)

(* fsmcore.c:1136: "No matter whether core is busy or idle, the expired timing *)
(* event is pended": an event whose time has come leaves evQ (or the kernel    *)
(* has crashed before).                                                        *)
ExpiredIsPended ==
  \A s \in Slot :
    slot[s] = "queued" /\ expire[s] <= now ~> slot[s] # "queued" \/ oops
=============================================================================
