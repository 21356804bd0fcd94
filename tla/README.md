# Verification of the LTE stack

The repository is an LTE protocol stack for the Linux 2.6.32 kernel that runs
over ethernet: `src/enb_eth` is a base station, `src/ue_eth` a terminal. Each
layer is a kernel module with a virtual net device, and the two trees are nearly
parallel. Under every module lies a copy of the same runtime,
`fsm/fsmcore.c`, which turns packets, ioctls and timers into events of state
machines written with the macros of `fsm/fsmdec.h`.

This directory holds TLA+ models of that code, TLC configurations that check
them, and TLAPS proofs. `PROJECT.json` maps every definition to the lines it
models, lists the runs, the hazards and the theorems.

## 1. Inventory

| Part | State it keeps | Operations | What is hard |
|---|---|---|---|
| FSM runtime, event service (`fsmcore.c`) | timing queue `evQ`, `tm_state`, one hrtimer, `exp_ev_list`, a tasklet, `core.lock` and three list locks | schedule, cancel, expire, drive expired events, open, close | four contexts (process, softirq, hard interrupt, clock), two CPUs, locks that do not cover what they should |
| FSM runtime, packets and ioctls (`fsmcore.c`) | `FSM[MAX_FSM]`, received and transmitted packet lists, the buffer of the ioctl | netrx, xmit, ioctl between modules, register, unregister | a module's ioctl waits in a list for a tasklet of the sender's core, so it runs after what the sender did next; a slot of `FSM[]` is reused |
| State machine macros (`fsmdec.h`) | current state, position in the state (enter or exit) | forced and unforced states, conditions | which event a forced transition consumes; two true conditions mean the default |
| Terminal MAC, random access (`ue_eth/lte_rlc_mac_module`) | `C_RNTI`, `T_C_RNTI`, `sendmsg3`, preamble counter, response and contention timers | start, response, message 3, contention resolution, failure, reset | lost and late answers, retries, timers whose handle is dropped |
| Base station MAC, RNTI table (`mac_scheduler.c`) | 200 RNTIs with type, notes of temporary ones, one flag, one contention identity | allocate, upgrade, recall, overtime | several terminals at once share the flag and the identity |
| Base station MAC, scheduling | resource bitmaps, queues, the handle of the subframe check | random access response, uplink schedule | chains of self-posted events |
| RLC (`arq.c`, `segment.c`, `Rlcprimitives.c`, `rlc_macfsm.c`) | per bearer: windows modulo 1024, transmitted, retransmission and reception buffers, five timers | send, receive, poll, status, reorder, establish, suspend, release | sequence numbers at the wrap, lost and reordered units, timers |
| PDCP (`pdcpfsm.c`) | none | route by bearer | opening and closing order |
| Terminal RRC (`rrcfsm.c`, `rrc_conn_*.c`) | connection state, T300, T302, one global per received message, bearers | request, setup, reconfiguration, release, close | messages handled later than stored, timers racing answers |
| Base station RRC (`rrcfsm_enb.c`, `rrcfsm_enb_ue.c`) | list of terminals with their state machines; per terminal: connection state, bearers | open and close a terminal's state machine, setup, reconfiguration, release | messages to a state machine that goes away, tables that are not given back |
| IP adaptation (`ipadpfsm.c`) | a gate, a fixed RNTI | classify, forward | none over several steps |
| Virtual SRIO (`sriofsm.c`) | MAC addresses, subframe counter | wrap, unwrap, tick | stands in for the air: loses and reorders |

Parts interact in four ways. A handler posts an event to a state machine of its
own module (`fsm_schedule_self`, `fsm_post_msg`): it goes through the event
service. A packet goes to the module above or below through its net device, and
its handler runs later, in softirq context. An ioctl (`fsm_do_ioctrl`) is put in a
list, and a tasklet runs the other module's handler for each in order. Two stations exchange packets over ethernet, which
may lose them.

What makes each part correct:

- event service: an event is handled once, not early, in order, unless cancelled;
  nothing scheduled is forgotten; a closed module is quiet; no list is corrupted;
- random access: a terminal that gives up or fails can try again; two terminals
  never hold one RNTI; an RNTI not used comes back; what succeeded is not failed
  by a timer of the past;
- RLC: units are delivered once and in order; the windows of the two ends never
  differ by more than a window; what is acknowledged leaves the buffers;
- RRC: both ends agree on connected and reconfigured, or a timer brings them back;
  after a release neither end keeps resources;
- scheduling: one chain of subframe checks runs, not more.

## 2. Modules

| Module | What it is |
|---|---|
| `FsmTimer` | the event service, one action for each stretch of code that runs without another context seeing its middle |
| `EventService` | what the event service promises: no queues, locks, interrupts, tasklets |
| `MCFsmTimer` | instances of `FsmTimer` for TLC |
| `FsmTimerProofs` | theorems about `FsmTimer` |
| `FsmPackets` | how the modules of a stack reach one another: the queues of the runtime, its tasklets, the softirqs |
| `ModuleLinks` | what that promises: everything is handled once, one thing at a time, in order where it is in order |
| `MCFsmPackets` | the lines between MAC and RRC of the base station, for TLC |
| `FsmPacketsProofs` | theorems about `FsmPackets` |
| `RntiTable` | the table of RNTIs of the base station's MAC, one action for each handler that changes it |
| `RntiPool` | what the table promises: loans, confirmations, periods; no notes, flags or packets |
| `UeRandomAccess` | the random access of a terminal's MAC, with everything that may reach it |
| `UeRandomAccessProofs` | theorems about `UeRandomAccess` |
| `UlSchedule` | when the base station's MAC gives uplink grants: the checks of the subframe |
| `MCUlSchedule` | an instance of `UlSchedule` for TLC, with its symmetry |
| `EnbMacProofs` | theorems about `RntiTable` and `UlSchedule`, the parts of one MAC |
| `RlcService` | what a bearer promises: order, no repetition, in acknowledged mode no gap |
| `RlcUmReceive` | the receiver of unacknowledged mode: window and reordering timer |
| `RlcUmReceiveProofs` | theorems about `RlcUmReceive` |
| `RlcUmSegment` | cutting SDUs into units and joining them again, unacknowledged mode |
| `RlcAm` | one direction of acknowledged mode, both ends and the air between |
| `RlcProofs` | theorems about `RlcAm` and `RlcUmSegment` |
| `RrcConnection` | the connection of one terminal: its RRC, the base station's machine for it, the messages |
| `RrcConnectionProofs` | theorems about `RrcConnection` |
| `UeFsmTable` | how the base station's RRC makes, finds and gives up a machine for each terminal |
| `UeFsmTableProofs` | theorems about `UeFsmTable` |

The modules build on one another by what they promise. `FsmTimer` implements
`EventService`; the modules of the layers take events as that promises them: in order of
expiry, each once, none early. `FsmPackets` implements `ModuleLinks`; `RrcConnection` and `UeFsmTable` take
what MAC tells RRC, and what RRC sends, in that order. `RntiTable` implements `RntiPool`. `RlcUmReceive` and `RlcAm` implement
`RlcService`, `RlcUmSegment` takes units as `RlcService` hands them over. `UeFsmTable` has the
events of many machines, `RrcConnection` one of these machines with its terminal.

### FsmTimer and the code

`Slot` is the set of addresses `fsm_mem_alloc` can return for a `__tmEvent`, so
that an address freed is an address that can come back: a handle kept too long may
name another event, as in the code. `slot[s]` is a history of where an event
is; the code has no such field, except that the queues must agree with it
(`InOneQueueOnce`). `before` is a history too: which live event was inserted before
which. The rest of the variables are fields: `evQ`, `tmState`, `expQ`
(`exp_ev_list`), `armed` (the instant the hrtimer is enqueued for), `tletSched`
(the tasklet's SCHED bit), `owner` and `tmLock` (who holds `core.lock` and
`tmev_list_lock`), and the program counters of the three contexts: `hpc` of the
holder of `core.lock`, `irq` of the callback, `tlet` of the tasklet.

A handler of a state machine is modelled by what it may do to the service:
`Schedule` and `Cancel` in any order and number, then `HandlerReturn`. Every
function of the runtime is split where another context can come in:

- `__fsm_tm_ev_add`, `__fsm_tm_ev_insert`: `Schedule`, `LockInsert`, `Link`,
  `TestState`;
- `__fsm_tm_restart`: `Restart`, then `Arm` and `MarkRun`, or `CancelAndArm`;
- `__fsm_tm_ev_rmv`: `Cancel`, `LockRemove`, and `UnlinkHead`, `UnlinkInner`,
  `UnlinkFails`, `UnlinkEmpty`, `StopEmpty`;
- `__fsm_tm_expire`: `Fire`, `ReadTime`, `Check`, `IrqLock`, `Move`,
  `ScheduleTasklet`, `TestMore`, then `Quit`, or `Reload`, `Rerun` and `Again`;
- `__fsm_pending_expev`: `StartTasklet`, `TestList`, `DriveExpired`,
  `BeginDelete`, `EndDelete`;
- `fsm_core_open`, `fsm_core_close`, and the order in which `dev_open` and
  `dev_stop` call them: `DevOpen`, `CoreOpen`, `CoreClose`, `CloseStop`,
  `CloseFlush`, `CloseKill`, `CloseDrain`, `DevDown`.

Where the code meets a NULL or freed pointer, or the kernel's `BUG_ON`, the model
has an action that sets `oops` and stops everything: `ArmUnready`, `UnlinkEmpty`,
`ReloadNull`, `AgainBug`, `CoreOpenInUse`, `CloseDrainInUse`. Undefined outcomes
are choices: the list `exp_ev_list`, changed on two CPUs under two locks, may lose
its link to what was added (`cut` in `Move`).

`MultiCpu` says how many CPUs are online. `enb_eth/dmesg.txt` is the log of an SMP
kernel that allows eight CPUs and found one; both values are real. With one CPU a
section with interrupts disabled runs alone, and the tasklet gives way to the
callback only (`HolderRuns`, `TaskletRuns`, `ProcessRuns`, `IrqEnabled`).

Abstracted: what an event carries; the buffers and packets closing leaks; the
factor ten from units to microseconds and its wrap beyond 4294 s (the longest delay
in the code is 2000 s); the packet lists. `Fire`, `Tick`, `Again`, `AgainBug` and
`StartTasklet` are the kernel's part, modelled from how the runtime uses it.

`fsm_core_close` leaves nothing that keeps other modules from calling a closed device:
`fsm_do_ioctrl` finds it by name and its tasklet drives it whether it is up or not (`fsmcore.c:543`, `1310`), and packets are
let in before the opening and until after the closing. So `Drive` does not look at the core's state. A closed core therefore does not
stay quiet: its handlers may post, on one CPU too. What holds is that closing leaves nothing behind (`ClosesQuiet`), and that
an open core does not crash (`OopsOnlyClosed`). A closed one crashes in two ways, which the property names: a handler posts before the first
opening (`ArmUnready`), or the opening sets up a timer that an event posted since the closing has started (`CoreOpenInUse`).

`late` is a history: the live events whose instant had passed when they were queued, as their handler waited for the list lock while the
clock went on. `HandledInOrder` lets such an event come behind one that expires later and was moved to `exp_ev_list` before. What the
callback loses when it adds to that list while the tasklet deletes on another CPU is `leaked`: `InOneQueueOnce` says that it is nowhere
else, not that nothing is lost. On one CPU nothing is (`ImplementsService`).

### FsmPackets and the code

A line is a queue of the runtime: whose it is (`of`), what goes by it (`by`: a packet up, `rx`; a packet down, `tx`; an
ioctl) and which modules it leads to (`to`). Each core has one queue of each kind, `rx_queue`, `tx_queue` and `do_ioctl_list`, and
a tasklet for each; a line of kind `wire` stands for what a network card brings. What is
sent has the number `n` on its line; contents are left out. A CPU runs one thing at a time, `run[p]`; `at` says where it is:

- `Send` is `fsm_pkt_send` or `fsm_do_ioctrl` up to the queue, `Kick` the `tasklet_schedule` that follows; between them another CPU
  may empty the queue;
- `Empty`, `PassUp`, `PassDown`, `PassIoctl`, `IoctlDone` are the loops of `__fsm_skb_netrx`, `__fsm_skb_xmit` and
  `__fsm_do_ioctl`; a tasklet that found its queue empty is still marked as running until `Finish`. An ioctl stays on
  the list while it is handled, a packet does not;
- `Lock`, then any `Send` and `Kick`, then `Return` is a handler of the receiving module, under its `core.lock` with interrupts disabled;
- `NetRx`, `BeginBatch`, `PutBack`, `StartTasklet` are the kernel's two softirqs, external: `netif_rx` queues on the CPU it is
  called on; a CPU takes its whole list of tasklets, clears SCHED before it runs one, and puts back one that runs elsewhere;
- `Arrive` is the network card's interrupt, `Call` an event of `FsmTimer` or a call from user space, which drives a module too.

`dev_queue_xmit` calls the lower module's transmit function at once; its queueing discipline is the wait for the
receiver's lock. `begun` and `led` are histories: what was handled in which order, and which ioctl a packet's handler sent before which packet.
Modules are open and registered throughout.

### RntiTable and the code

`type`, `notes` and `flag` are `rntiarray[].Type_rnti`, `tc_rnti_notes` and
`RAR_receive_crnti`; `Rnti` is `1..NumRnti` for the code's 61, 62, ... (`NUM_RNTI` is
200). The functions of `mac_scheduler.c` are operators on the table
(`Recall`, `Convert`, `JudgedType` and `JudgedFlag` for the two results of
`Do_judge_rnti`, `Granted` for a number of calls of `DoAllocate_Rnti`), and each handler
of the MAC that calls them is an action, alone because of `core.lock`:

- `HandleRaReq`: `handle_ra_req`, with every allocation of `complexRarPdu`;
- `UplinkConnected`, `UplinkTemporary`: `decomplexEndMacPdu`, which judges the RNTI the
  packet came on, then reads the C-RNTI element, sets the flag and judges that RNTI;
- `DownlinkTemporary`: `complexEnbMacPdu`, which judges the RNTI, answers message 3
  and upgrades the RNTI, or destroys what does not fit;
- `Release`: the ioctl by which RRC gives an RNTI back;
- `Sweep`: `delete_overtime_tc_rnti`, `note_tc_rnti` included.

The other parts are there as what they can ask for: a terminal sends a C-RNTI
element with an RNTI it was answered on (`answered`) and never together with a
request to RRC (`Contents`); RRC opens a terminal when told of its RNTI and may
release it (`known`); packets come for RNTIs with bearers (`bearers`), also after the
release. `withCe` is a history. Left out: packets that leave the table
alone (anything on a free RNTI, downlink on a C-RNTI), malformed packets, resources
and the contention identity. When no RNTI is left `DoAllocate_Rnti` reads behind its
table; the terminal gets an RNTI of which every packet is dropped, and the table does
not change.

### UeRandomAccess and the code

`mac` is one record, the fields of `struct rlc_mac_sv` the access uses (the names are
the code's, or stand beside their field in `Init`) and the state of the machine. A C
function that changes them is an operator from `mac` to `mac` with the function's name, so
that calls nest as in the code; a transition of the tables at `rlc_macfsm.c:149` is an
action (`StartAccess`, `TaExpires`, `ResponseFails`, `ResponseCame`, `ContentionLost`,
`ContentionWon`, and `Ignore` for an event no transition tests for), and so is each
packet or ioctl (`PacketFromUpper`, `RarPdu`, `DataPdu`, `UlGrant`, `TATimer_config`), which
first goes through the default handler of the state (`Default`).

Timers are where the code is careless, so they are modelled as it treats them. A timer is
a flag and a handle: `handle[k]` says whether the flag is on and whether the event behind
it still runs. `Cancel` cancels; `Drop` only forgets, and the event comes later, from
`loose[k]`; `Arm` overwrites a handle without cancelling. `evq` is what is due and what
was posted with delay 0, in order, as the event service promises; events of an earlier
attempt stay in it.

Input is nondeterministic: a response may be the terminal's or another's, late, or never
come; a packet may come for the terminal's C-RNTI or another terminal's, with a contention
element that fits or does not, and an alignment element. `data` says whether RLC has a
packet when MAC asks for one. `stuck` is the loop at `mac_pkthandler.c:905` that never
ends, with `core.lock` held.

Left out, each for a reason in the source: `MAC_RESET` and the access without
contention (no module sends the commands that start them); scheduling requests
(`SR_FAIL` is posted by a function nothing calls); `IOCCMD_RLCtoMAC_datasend_Req` and
the test commands (no module sends them); the token buckets and the buffer status
timers; RLC's timers and the suspended states, which are forced back to the state they
came from; malformed packets; what cancelling a handle whose memory has become another
event does (`fsmcore.c:1245`).

### UlSchedule and the code

`queued` and `due` are the events GET_SUBFRAME_NO in the timing queue and in `exp_ev_list`;
`check_subframe_no` is the field of that name, an address. `PacketFromLower` is the branch of
`idle_default_handler` for a packet from below (`rlc_macfsm.c:340`), `CheckUlSubframe` the
branch for the event (378), whose cancellation finds only events in the queue, and
`Tick` the virtual SRIO's step of the subframe number (`sriofsm.c:1249`). Time goes in
subframes: a tick and an event of 1 ms are equally long in the code (100 units), and a check
is handled in the subframe it falls due. In a subframe a packet's event may fall due
before or after the others (`Places`). `ul_schedule` itself is the predicate `Grants`. `Reopen` is
closing and opening: the events are flushed, the handle stays.

### RlcUmReceive and the code

A unit is known by its place in the order of sending; on the air it has that place modulo
`2 * W`, `UM_WINDOW_SIZE10` being 512. `Receive` is `rlc_UM_pkt_receive_from_mac` for a unit it
keeps, with the loops of `rlc_UM_reassemble_deliver` as functions over the window (`Rest`,
`Visited`, the stored numbers its second loop passes, and `Nth`, their order); `Drop` is its early returns; `Reorder` is the expiry (`rlc_macfsm.c:455`). The
comparisons of plain numbers are kept where the code has them: `Outside`, `MovedUr`,
`StopTimer`, `StartTimer`. An expiry that is queued already when the timer is cancelled
comes all the same (`stray`). `Send`, `Lose` and `Arrives` are the other end and the air: one unit
overtakes others by at most `Behind`, at most `Gap` in a row are missing, and at most `Pace` units are
sent from a start of the timer until no event of it waits to be handled, which is a rate: the timer's time times that of the units. The
sender knows neither the receiver's numbers nor its timer and sends through every wrap. `disturbed` is a
history variable: it records that a unit came after others were lost or overtaken among the last numbers before a wrap
(`BeforeWrap`, the last `2 * (Behind + Pace) + 3`), or came there while an expiry cancelled in vain was still to be handled (`Disturbs`).

### RlcUmSegment and the code

An octet is a pair, the SDU and the place in it. `UnitOf` is the unit `rlc_UM_segment` makes of the
queue for the size MAC offers, `Rest` what it leaves of the last SDU, with the branch that
deletes an SDU half of which was copied (`segment.c:663`), `SizeAfter` the counter MAC is
told. `First`, `Second` and what follows are one round of `rlc_UM_reassemble_deliver` (`segment.c:1379`):
of several length indicators it reads the first, and the others stay in the data (`LiOctet`). The names that `RlcAm` has too
begin with `Um`, as `RlcProofs` extends both. A unit
is handed over when it is sent, or lost: `RlcUmReceive` shows that this is the order.

### RlcAm and the code

Both ends of one direction (`struct AM_Instance`), one SDU a unit. The transmitter has
`Transmit` (`rlc_AM_segment`, the poll), `PollExpires`, `poll_retx` (case POLL_RETX) and `Retransmit`, which
uses a pointer that was never assigned, as `rlc_resegment` finds no segment; the receiver
`Drop`, `Receive`, `ReorderExpires`, `AmReorder`, `StatPro` and `TransmitStatus`. `vt_a` and `vt_ms` are
constants, as nothing ever moves them: the handler of a received status returns before
it evaluates it (`arq.c:615`). So the transmitter stops when `W` units are sent, and the numbers
do not wrap. The air loses a unit, lets one overtake `Behind` others, and delivers one
twice (`Arrives`).

### RrcConnection and the code

The terminal's `queue` holds the expired events of its machine; `posted` the events of the
messages that have arrived and are 10 ms away; `held` says which of the globals the
messages are kept in is not NULL. Each transition of `rrc_main` is an action with the name
of its handler; an event the state does not test for is dropped (`other_events`). The base
station's events have no delay, so its message is handled when it comes, or dropped
(`OtherMessage`). A setup sent again goes out without the structure around the first one
(`Resent`), and the terminal does not know it. `Reopen` is closing and opening the terminal's
device (`rrc_close`, `rrcfsm.c:487`; the core flushes its events; the machine keeps its
state), `Reload` unloading and loading the module. The user of either station may ask at any time:
`UserConnects`, `UserReleases`, `EnbReconfigures`, `rrc_conn_release`.

Two things are taken for granted. The ioctl by which the base station's user gives a command for
one terminal posts it to machine -1 (`UeFsmTable` has that); `RrcConnection` takes the
command to reach the machine. And the C-RNTI of the terminal stays the same.

### UeFsmTable and the code

`fsm` is `FSM[]` without slot 0, `list` is `ueFsm_list_head`, `ue_num` the index into `ue_list`.
`do_receive_rnti_ind` is the indication of an RNTI by MAC (`new_ue_fsm`), `rrc_message_handler_lower` a
terminal's message, `rrc_ioctl_handler` a user's command, `Close` `rrc_close_enb` with the flush of
the core. Events are delivered through `FSM[dst_id]`, whatever it is by then: `Delivers`,
`rrc_messege_handler_rlc_enb_ue` and `rrc_main_enb_ue` take one for a machine, `DeliversToNothing` is the read
through NULL. Of the machine of a terminal only the block it is in is kept, as that decides
which event it posts next.

## 3. Runs

| Run | Instance | Question |
|---|---|---|
| `timer_1cpu` | one CPU, three events, clock 0..2, closed once and opened again, traffic at any time, fairness | an open core does not crash; the hrtimer waits for the first event; closing leaves nothing behind; `FsmTimer` implements `EventService`; every event ends |
| `timer_smp` | several CPUs, three events, clock 0..2, traffic before open and after close | nothing early, handled in order but for late posts, nothing in two places; cancelling fails only for what has left |
| `timer_smp_stall` | several CPUs, two events, fairness, violation | an expired event can stay queued for ever |
| `packets` | with one CPU all four lines, with two packets up and ioctls; two up and two ioctls, fairness | no wake-up is lost; an indication is handled before the packet sent after it; `FsmPackets` implements `ModuleLinks`; all that is sent is handled |
| `rnti_table` | 3 RNTIs, 2 preambles a request, fairness | the table implements `RntiPool`; no RNTI stays temporary |
| `ra` | one preamble at most, 3 events pending, fairness | an access always has a way out, and ends unless the device enters the endless loop of `LateAnswerIsSkipped`; expiries come; connected is clean |
| `ul_schedule` | 7 addresses, 2 packets a subframe | a check is always to come; a burst leaves one chain of checks; grants come again |
| `um_receive` | window 8, 44 units, two wraps and most of a third cycle | as long as nothing was amiss at a wrap: order; nothing new is thrown away, nothing stored is overwritten; nothing is held long |
| `um_segment` | SDUs of 2 and 4 octets, four of them, offers up to 9 octets, numbers modulo 3 | whole SDUs, in order, all that arrived; MAC is told of enough |
| `am` | window 4, one retry, fairness | order without gap; a status is true; what is not given up is kept; polling ends |
| `rrc` | two requests, a release, two commands, one closing for each load, one reload, fairness | T300 belongs to its access; messages are there for their events; idle is clean; both ends in step; an access ends |
| `ue_table` | three RNTIs, two slots, one closing, two events pending | list, `FSM[]` and `ue_list` agree; an event finds its machine |

### Bounds

`FsmTimer`: delays are 0 (which the code makes 1) and 2, so that events expire together, apart,
and in another order than they were posted. Three events are the fewest with a
head, a middle and a tail in the queue, which is what insertion and removal tell
apart; with two CPUs at most one holder, one callback and one tasklet run, so
a fourth event meets no further case. The clock has the fewest instants, 1 and 2, at which events
expire before and after one another, and `Schedule` only posts what expires within it; the theorems hold for any
(section 4). What follows a closing and a second opening finds what was posted in the closed core between them.
Symmetry over the events is used in the run that checks safety only.

`FsmPackets`: two items on each line are the fewest that can change places, and the fewest with which one is
sent while the tasklet of the other runs or ends. Two CPUs are the fewest on which sender and tasklet run side by side, and
on which a tasklet is put back; two modules are a sender and a receiver. The run has both machines, chosen at the start (`setup`). With two CPUs the wire and the lines down are left out: a line down
differs from an ioctl only in when its item leaves the queue, and `Call` drives the sender as a packet from the wire does.

`RntiTable`: three RNTIs are a connected terminal that accesses again, the temporary RNTI it does
so on, and that of a bystander; with two in one request the lowest-first choice is
made more than once, and the table runs out. Nothing else is bounded. There is no
symmetry, as RNTIs are handed out in order.

`UeRandomAccess` takes input while fewer than three events are pending: a timer that was
forgotten, the one started in its place and a verdict already queued are three, and what
an event finds depends on no more than the queue before it. With one preamble the
counter passes through the first attempt, the last, and beyond the limit.

`UlSchedule`: with two packets a subframe a check may meet two others between the handle's
event and its own, the fewest with which checks cancel one another; up to five events are pending before
a packet comes (seven addresses, one of which is kept for the next check). The counters of
subframes stop at 21, above the 15 the property names. Addresses are symmetric.

`RlcUmReceive`: 44 units go through the 16 numbers twice and most of a third time. One unit in a row is missing, a unit is
overtaken by one, and two are sent while the timer runs: the smallest window with room for that
(`TrafficFits`, section 4) is 8. Seven numbers of each cycle are then free of any condition and the other nine are
those of `BeforeWrap`; the theorems hold for any window with room, and of the 1024 numbers of the code only the last
few belong to `BeforeWrap`.

What the run shows is conditional, because what the code does is: **with a gap open as the numbers wrap the receiver is wrong.** It keeps a
gap open until the timer expires and compares `vr_uh`, `vr_ur`, `vr_ux` and the number that came as plain
numbers (`rlc_macfsm.c:1990` to `2066`). When they are on both sides of a wrap, it cancels the timer and does not start it
for the gap that is open, takes new units for old ones (`isOrderedUm`) and throws them away, hands units over out of order, and stores
units in the place of others. The model reaches all of that, with no restriction on the sender; the four properties say `~disturbed`, and
TLC finds each of them violated on this run when that condition is taken out (`DroppedWasReordered`, in the table of further divergences,
is the one the source has words for). Nothing in the code keeps `disturbed` from coming about: a single unit lost among the last
before a wrap is enough. A unit lost anywhere else, overtaken anywhere else, or an expiry
cancelled in vain anywhere else does no harm, at any number of wraps.

`RlcUmSegment`: SDUs of two lengths, of which offers up to 9 octets take none, a part, the end
of one and the start of the next, or several whole ones; four SDUs let a unit hold the end of
one, a whole one and the start of another. One unit in a row is lost, which with numbers modulo 3 never makes
two units look adjacent that are not.

`RlcAm`: with `Behind` = 2 the window is 4; with 3 a unit exactly a window behind
moves `vr_h` back, and `ImplementsService` fails. With 512 in the code a unit would have to be 512
behind. The poll comes at every second unit and one retry is made, so that the timer expires, polls
again and gives up within the window.

`RrcConnection`: a second request meets what the first one left; the user's release and the
base station's cross; two commands are a reconfiguration and a release, in either order, or
two reconfigurations. `UeFsmTable`: three RNTIs are one more than the slots.

### Stopping

Closing can deadlock: it holds `core.lock` in `tasklet_kill` while the tasklet
waits for the lock (`fsmcore.c:755`), and the clock ends
at its bound in every run; where either makes the model stop, where a machine crashes or is stuck, or where all
that the bounds allow has happened, the cfg says `CHECK_DEADLOCK FALSE`. `rnti_table` and
`ul_schedule` never stop, and are checked for it.

### Fairness

`FsmTimer` (`FairSpec`): the clock goes on; a context that can run runs; a lock that
is free again and again is obtained, and an interrupt enabled again and again
taken (strong fairness, as spinlocks and interrupts give it in practice); a
handler, being straight-line code, returns after finitely many calls (strong
fairness of `HandlerReturn`). Nothing is assumed of packets, opening or
cancelling. `FsmPackets` (`FairSpec`): a CPU with pending softirqs runs them, however often processes run on it (strong fairness of
`Softirq`, as softirqs run on the return from interrupts), a tasklet and a handler go on (weak fairness), and a CPU that spins
for a lock released again and again obtains it (strong fairness of `Lock`). Nothing is assumed of calls and arrivals. `RntiTable` assumes weak fairness of `Sweep` alone: the sweep posts
itself again before anything else (`mac_scheduler.c:273`), and with one CPU the event
service handles what is posted (`timer_1cpu`). Nothing is assumed of terminals
or of RRC. `UeRandomAccess` assumes that what is due is handled, and that the response
window and the alignment timer expire; the window is a few ms and is not restarted, the
alignment timer is restarted by RRC once for a connection and by the base station when it
corrects the alignment, so not for ever. Nothing is assumed of the air or of the contention
timer. `RlcAm` assumes that the poll timer expires and its event is handled, nothing of the air and nothing of the
other end. `RrcConnection` assumes that events expire and are handled on the terminal, that a packet that
came up is parsed, and that the base station handles what arrives; nothing of the channel and nothing of
the users. `UlSchedule` states how often in subframes, and needs no fairness.

### Findings

A comment of the source does not hold, and a run shows it. `fsmcore.c:1136`
says an expired event is pended whether the core is busy or idle; with two CPUs the callback that
finds the list lock held returns without restarting the timer, having set `tm_state`
to EXPIRE, and everybody else leaves a timer in that state alone (`timer_smp_stall`).

### Further divergences

The modules define more formulas that state a comment or the description of a function; TLC finds each
violated when it stands in the cfg in place of the properties there.

| Formula | Where | What the source says | What the code does |
|---|---|---|---|
| `TriesBounded` | `UeRandomAccess`, `ra.cfg` | `rlc_macfsm.c:2566`: the access was tried the maximum number of times | the counter is tested for equality and not reset: the attempt after that tries for ever |
| `OpenWindowListens` | the same | `mac_pkthandler.c:708`: a response that comes in its window is processed | after a lost contention `sendmsg3` is still set, and it is destroyed |
| `LateAnswerIsSkipped` | the same | `mac_pkthandler.c:923` takes the contention timer to be running | when it is not, the loop around it never ends |
| `CrTimerStopped` | the same | `rlc_macfsm.c:3056`: success stops the contention timer | it only forgets it |
| `NotesAreCurrent` | `RntiTable`, `rnti_table.cfg` | `mac_scheduler.c:279`: a sweep notes the temporary RNTIs anew | notes are never cleared: an RNTI a sweep saw temporary once is never lent again |
| `RecalledHadCrnti` | the same | `mac_scheduler.c:422`, `424`: a temporary RNTI is taken back when a C-RNTI element is in the packet being judged | the element is read after the judgement, and the flag hits the next temporary RNTI, whosever it is |
| `MovesForOutside` | `RlcUmReceive`, `um_receive.cfg` | `rlc_macfsm.c:1992`: the unit is outside the window | the test is on plain numbers and takes units inside it too |
| `DroppedWasReordered` | the same | `rlc_macfsm.c:1960`: what is thrown away has been received or reordered | with a gap open as the numbers wrap, new units are thrown away |
| `OneByOne` | `RlcUmSegment`, `um_segment.cfg` with `MaxGrant = 16` | `segment.c:1359`: SDUs go to PDCP one by one | of a unit of three SDUs the second length is taken for data, and two SDUs go as one |
| `AckedIsRemoved` | `RlcAm`, `am.cfg` | `arq.c:269`: units below the acknowledgement leave the buffers | the handler returns before (`arq.c:615`) |
| `VmsIsMissing` | the same | `rlc_macfsm.c:500`: `vr_ms` becomes the first number that is missing | it becomes `vr_x`, received or not |
| `ReconfigurationEnds` | `RrcConnection`, `rrc.cfg` | `rrcfsm.c:1493`: entering the reconfiguration schedules the event that ends it | a flag that is never reset lets it do so on the first entry only (`rrcfsm.c:1507`): a second reconfiguration never ends |
| `EnbReleasesDrbs` | the same | `rrc_conn_release_enb.c:80`: release the data bearers | the bearer with identity d is in slot d - 3 and is looked for in slot d |

`AccessEnds` without its last disjunct is violated too: closing the device forgets T300.

### Facts about the code

The models have these, and no line of the repository says otherwise:

- packets and ioctls: with two CPUs an indication may be handled after the packet sent after it (`IndicationFirst` fails:
  the ioctl's tasklet may be waiting on the other CPU), and RRC then destroys the request of a terminal it does not
  know; packets up may overtake each other, as `netif_rx` queues on the CPU its tasklet happens to run on. With one CPU a
  packet *down* may overtake an ioctl sent before it, when the tasklet of the transmitted packets was scheduled already;
- uplink schedule (`rlc_macfsm.c:994`): `user_rnti += ue_index` adds up, so of the connected terminals the first,
  second and fourth are read, the latter beyond the array if there are three; with two or more the pointer that is freed,
  and the request that is sent, are not what was allocated;
- RLC, unacknowledged: with a gap open, and units coming, while the numbers wrap, units are handed over out of order,
  thrown away though new, or stored over others (section 3, bounds); after the numbers wrapped the reordering timer is cancelled and
  started at each unit (`vr_ux <= vr_ur` as plain numbers, `rlc_macfsm.c:2057`); an expiry does not
  start it again for the gap that is left; a SDU half of which was copied, with others in the unit, is
  deleted, and the size told to MAC stays too high by it, so MAC offers room that nothing fills;
- RLC, acknowledged: after 512 units the window is closed for good; a unit that polls while the prohibit timer runs gets no
  status if the timer was started by a transmission; the retry of a unit without segments uses a
  pointer that was not assigned;
- terminal RRC: a release by the user, without a message, reads through NULL (`rrcfsm.c:194`, `1467`); it
  may leave T300 of an earlier access running; cancelling a timer that is due cancels nothing;
- base station RRC: a lost setup is answered with a message the terminal does not know, for ever, as the setup's
  timeout is never armed (`rrcfsm_enb_ue.c:510`); signalling bearer 1 is not released; the first event of a
  terminal's machine, its request or the opening, is spent on leaving the initial state; the
  messages that close the machines are always flushed before they are delivered, so `rrc_close_enb_ue` never
  runs and MAC is not told; a command of the user goes to machine -1; `ue_list` has its index never reset
  and has 5 rows for identities 1..5 (`rrc_utils.h:8`).

The types of most modules are in no run: they are proved (next section), and TLC was used to find them. Every property of a passing run has a mutant, a change of one definition by a
plausible bug, under which TLC finds the property violated; the mutated forms
(`Mut...`) stand before the definitions they replace.

## 4. Proofs

`FsmTimerProofs` proves, for any set of events, delays, bounds, either number of
CPUs and traffic at any time, from the four named assumptions of
`FsmTimer` (which only give the constants their types):

| Theorem | States |
|---|---|
| `TypeCorrect` | `[]TypeOK` |
| `LocksAreHeld` | who holds which lock is where the program counters say |
| `QueuesAreRight` | the inductive invariant |
| `NothingIsEarly` | `[]NeverEarly` |
| `QueueIsSorted` | `[]Sorted` |
| `EventsInOneQueueOnce` | `[]InOneQueueOnce` |
| `CancelFailsOnlyWhenGone` | `FailsOnlyWhenGone` |
| `EventsHandledInOrder` | `[]HandledInOrder` |
| `OneCpuIsRight` | the inductive invariant of one CPU |
| `OneCpuSurvives` | `[]OopsOnlyClosed`, one CPU |
| `OneCpuServesHead` | `[]TimerServesHead`, one CPU |
| `OneCpuClosesQuietly` | `ClosesQuiet`, one CPU |
| `OneCpuImplementsService` | `ImplementsService`, the refinement to `EventService`, one CPU |

The five on one CPU assume `~MultiCpu`, and need it: on two CPUs a wake-up is lost
(`timer_smp_stall`), and the callback reads the head of a queue a cancellation has emptied.

None of these properties is inductive. The invariant has six layers, each proved
with the ones before it:

1. `Control`: types; the locks against the program counters (`LocksHeld`: who is
   between `link` and the unlock holds `tmev_list_lock`, the callback in `move`
   does, a tasklet in `drive` is the owner of `core.lock`); and what each step takes
   for granted (`StepsRelyOn`: the queue is not empty in `state`, `restart`, `arm`;
   `cur` is an event in `link` and `unlink`; the list is not empty in `drive`).
2. `Queues`: `Places`, the agreement of `slot` with both queues, in both
   directions, and `Once`, no event twice in one queue. Only the holder of the lock
   moves an event into or out of `evQ`, which needs layer 1.
3. `Instants`: `NeverEarly`, `Sorted`, and the callback's `cutoff` lies in the past.
   `Move` takes a prefix that has expired by the cutoff off a sorted queue.
4. `Order`, for `HandledInOrder`: the history `before` speaks of live events only
   (`BeforeLive`); in either queue, an event that stands before one posted earlier
   expires earlier (`Orderly`); and so does whatever is on `exp_ev_list`
   against what is still on `evQ` (`Across`). `Ranked` adds the other half: the history knows the order of
   any two events that wait, an event that expires before one already moved is late, and in `exp_ev_list` only a
   late one stands behind one that expires after it (`Lagging`).
5. `OneCpu`: with one CPU the place of one context tells where the others are. The
   handler, the callback and the tasklet do not run inside each other's locks
   (`Alone`); what the pointers name exists (`Whole`); at each place of
   the holder of the lock (`AtHolder`) and of the callback (`AtCallback`) the
   hrtimer is enqueued for the head of `evQ`, or the code about to run does it.
6. `InTurn`, for the refinement: `exp_ev_list` is in the order of the promise, all
   on it comes before what is on `evQ` or on its way there, and of two
   such events the history knows which came first. So the list's head is the one
   the abstract service takes next (`HeadIsNext`). The mapping is then taken apart:
   a lemma for each variable of `EventService` that says what it stands for, and
   for each step one that names the abstract step or the stutter.

Steps are sorted into those that leave every event where it is (`Still`) and nine
that do not (`Moving`); each of the nine has a lemma. Facts about sequences
(inserting, removing, cutting, joining and what each does to order and
distinctness) are lemmas without state, stated once.

`Sorted`, the types and the layers of the invariant are proved and in no run; the other properties are both
proved and model-checked. Of this component only `EventEnds`, a liveness property, is model-checked alone.

`FsmPacketsProofs` proves, for any CPUs, modules, lines and bound, from the three named assumptions of `FsmPackets` that give
the constants their types:

| Theorem | States |
|---|---|
| `TypeIsRight` | `[]TypeOK` |
| `AlwaysAwake` | `[]Awake` |
| `KeepsThePromise` | `Spec => ImplementsLinks`: every step of queues, tasklets and softirqs is a step of `ModuleLinks`, or none |
| `IndicationsFirst` | `[]IndicationFirst`, which speaks of one CPU |

`Awake` says that a queue that holds something has a tasklet that waits, runs and will look again, or is about to be scheduled.
The step that might break it is `Kick` on a tasklet whose SCHED bit is set, so the invariant has that the bit is set only while
the tasklet is on some CPU's list (`Listed`); the tasklet that finds its queue empty must be the one that runs, so
that no tasklet runs twice (`RunsOnce`); and an item taken off by one step must be the one another put there (`Shape`, `Held`: what a
CPU has at hand at each place).

`KeepsThePromise` holds on any number of CPUs and needs to know where everything sent is. The invariant `Order` adds to
the first one that each number sent on a line is in exactly one place: still to be taken from the line's queue, with one
of the CPUs (at hand or in its backlog), or begun; those in the queue come last (`AllPlaced`). An ioctl being handled
stays the head of its list until it returns, so `Todo` leaves it out. Queues and backlogs are in order (`InQueues`,
`InBacklogs`), what a CPU has at hand is of the line it runs for (`InHands`), lines that promise an order have begun their
numbers one by one (`Counted`), CPUs that are not there do nothing (`Online`), and a handler that runs has its module's lock
(`Locked`). A step that begins a number then begins one that nobody has begun, on an ordered line the next one: that is
the step of `ModuleLinks`. `Placed`, `Takes`, `Gets` and `Loses` state the bookkeeping of sets once, without state.

`IndicationsFirst` needs more than order on each line, as the ioctl and the packet are on two. `Indicated` says where they may
be: either the ioctl is begun; or the packet is not and the ioctl's tasklet is certain to be taken before it
(`Comes`), because the tasklet runs or waits on the CPU's list (`Soon`) and the packet is behind it, on a line whose tasklet
comes later or in the backlog that NetRx takes up only when its batch is empty (`Behind`, `Asked`). On two CPUs the two
tasklets may run at once, and TLC finds the property violated without `OneCpu`. `Handled`, a liveness property, is
model-checked only.

`EnbMacProofs` proves of `RntiTable`, for any number of RNTIs and preambles, from the one
assumption of `RntiTable` that both are positive:

| Theorem | States |
|---|---|
| `TableTypeCorrect` | `[]TypeOK` |
| `TableImplementsPool` | `TableSpec => ImplementsPool`: every step of the table is a step of `RntiPool`, or none |

The mapping sends `type` to the pool's `use`, and the temporary RNTIs that are noted
to `old`, the loans there were when the period began. It needs no more than the types:
that a new loan is never old is the guard of `DoAllocate_Rnti` on the notes. The pool
says what is hard to see in the table: whatever terminals, RRC and judgements do
between, a sweep ends those unconfirmed loans, all and only, that the sweep before it
saw, and a C-RNTI ends by its release. A step of `UplinkTemporary` may end two loans,
so the pool withdraws sets; `OnlyWithdraws` composes over the two judgements.
`TempIsTemporary`, a liveness property, is model-checked only.

`UeRandomAccessProofs` proves, for any number of preambles and of events pending at
once, from the one assumption of `UeRandomAccess` that they are numbers:

| Theorem | States |
|---|---|
| `AlwaysGood` | the inductive invariant |
| `TypeCorrect` | `[]TypeOK` |
| `AlwaysWayOut` | `[]WayOut` |
| `AlwaysExpiryComes` | `[]ExpiryComes` |
| `AlwaysConnectedIsClean` | `[]ConnectedIsClean` |

`WayOut` is not inductive, since a flag may be on with its event already taken off the queue
or not; the invariant `Good` states it of flags (`Moving`) and adds what a lapsed
timer's event is (`Expiring`). The handlers are compositions of the same few functions, so
the proof is too: `Keeps(m, n)` says that `n` has the state, the window and the events of
`m`, an alignment timer at most restarted, and is clean if `m` is. It is reflexive and
transitive, every function that stays in the state of the machine has it, and what keeps a
good machine leaves it good. Only the six transitions, the response and the lapse of a
timer need a proof of their own. `AttemptEnds`, a liveness property, is model-checked only.

It proves of `UlSchedule`, for any addresses and any rate of packets:

| Theorem | States |
|---|---|
| `CheckAlwaysComes` | `[]CheckComes` |
| `OneChainIsLeft` | `[]OneChain` |
| `GrantsAlwaysComeAgain` | `[]GrantsComeAgain` |

`CheckComes` speaks of the handle, not only of there being a check: that is what makes it inductive.
A check cancels what the handle names, so the check must have posted its own before the
handle names nothing. Of the other checks the invariant says that they pass (`OthersPass`): what the handle does not name was
there at the last packet, or was due when another check ran, so in the queue it has at most 3 ms less
the time since the packet left, and from 4 ms on there is none. That no two events have one address (`Ordered`) makes
"none but the one the handle names" mean one. For the grants, `Rounds(t)` counts the checks a chain needs that next looks at
subframe t; steps of 3 meet one of the subframes 3 and 8 in at most five. `OnTime` says that the handle's chain grants within 15 ms of the last
grants if nobody moves it; another check may move it, but only in the first 3 ms after a packet (`barren <= calm`), and
then what is left, 3 + 3 * 3 ms, still fits. The lemmas say what inserting into and removing from a queue leaves there.
The invariant was checked with TLC on the run's instance before it was proved.

`RlcProofs` proves of acknowledged mode, for any window, polling interval and threshold:

| Theorem | States | Assumes |
|---|---|---|
| `AlwaysKept` | `[]Kept` | nothing |
| `StatusStaysTrue` | `[]StatusIsTrue` | `Behind + 1 < W` |
| `BearerImplementsService` | `Spec => ImplementsService` | `Behind + 1 < W` |

The invariant of `AlwaysKept` adds that `vt_s` has not passed `W` (`OpenWindow`: the window never moves, so the numbers
do not wrap) and that what waits for retransmission is a copy of what is kept.

The other two are about the receiver and share `Rx`: what is on the air was sent and is not far behind (`Fresh`); the
receiver's numbers are ordered (`Numbers`); the first missing unit is missing and the newest of what is stored
behind it is there (`Stored`); and what a waiting status does not list has come (`Told`). `Stored` is why a status may
leave its list empty: `rlc_ctrl_pkt_trans` lists nothing when `vr_r` and `vr_h` are next to each other, and
then nothing is missing below `vr_ms`. `Behind + 1 < W` says that the air overtakes by less than a window. It is
needed: a unit further behind than that passes the test of `MovedH` for a number that wrapped, and takes `vr_h` back.

Under the invariant the arithmetic modulo `2 * W` is that of numbers (`NoWrap`, `InsideIsNotBelow`), the first missing number is
where the walk over the window stops (`FirstMissingIs`), and the order of delivery is the one ascending order of an interval
(`OneOrder`). These need an induction, which is done by a least counterexample (`Least`, from the library's theorem that `<` is
well founded on the numbers), since the induction rules take an operator as a parameter. `RetryEnds`, a
liveness property, is model-checked only.

It proves of segmentation in unacknowledged mode, for any lengths of SDUs, any sizes MAC offers and any bounds, from the three
named assumptions of `RlcUmSegment` (an SDU is not empty; fewer units are lost in a row than there are numbers, as otherwise
two units that are not neighbours carry neighbouring numbers):

| Theorem | States |
|---|---|
| `UmAlways` | the inductive invariant |
| `SdusWhole` | `[]WholeInOrder` |
| `ArrivedGoUp` | `[]ArrivedIsDelivered` |
| `MacIsToldEnough` | `[]ReportCovers` |

`WholeInOrder` speaks of what went up, and says nothing of what the receiver keeps or of what is still to be sent; the
invariant `UmInv` does:

1. The queue holds what has not been sent: stretches of consecutive SDUs, each to its end, only the first of which may have lost its
   beginning, and then says so (`Queued`). A unit is therefore the next stretch of octets, whatever its size. The counter
   is at least the sum of what is queued (`ReportCovers`), which is proved with it: the branch that deletes an SDU half of which was
   copied takes less off the counter than off the queue.
2. What arrived has left the queue (`Unsent`).
3. The start the receiver keeps, unless a unit of more than two SDUs had part in it, is the start of one SDU and not all of it; while nothing has been lost since, of the one
   the sender is in the middle of, and as long as what was sent of it (`LeftRight`). So it is joined only with what belongs
   behind it: after a loss the numbers are not adjacent, which needs the bound on losses. All that went up is
   older (`Newer`).
4. What went up is a whole SDU of which nothing is left in the queue, each newer than the one before (`DeliveredRight`).
5. An SDU that has left the queue and arrived in full has gone up; of the one being sent, if all sent of it arrived, the
   receiver keeps exactly that (`ArrivedRight`).

A step of `UmTransmit` is taken apart by how many SDUs have part in the unit. One or two give the receiver one
or two pieces, each joined with a start, kept as one, or given up; with more it reads the first limit only, and what it
makes of the rest is marked (`crowded`), of which the properties say nothing. The sum over a queue (`Upto`)
is a recursive function, and its lemmas (what a queue that is cut or grows holds) go by a least counterexample too.
`UmInv` was checked with TLC on the run's instance before it was proved.

`RlcUmReceiveProofs` proves of the receiver of unacknowledged mode, for any number of units sent, so any number of wraps, and any
`Gap`, `Behind` and `Pace` for which the window has room (`TrafficFits`: two runs of the timer and the gap between them,
`2 * (Behind + Pace) + Gap + 1 <= W`; the code has `W = 512`):

| Theorem | States |
|---|---|
| `UmInvAlways` | the inductive invariant |
| `DroppedIsLateAlways` | `[]DroppedIsLate` |
| `HeldBrieflyAlways` | `[]HeldBriefly` |
| `NotLeakedAlways` | `NotLeaked` |
| `UmImplementsService` | `Spec => ImplementsService`, every step one of `RlcService` |

The sender of `Spec` waits for nothing the receiver does. The condition is in the properties, which speak of a behaviour as long as
`disturbed` is false; without it they are violated (section 3, bounds). None of the properties is inductive:
they speak of units, and the receiver decides by numbers that wrap, which it compares sometimes modulo `2 * W` and sometimes as they
are. The invariant `UmInv` therefore says which units the numbers stand for. All are of the cycle of numbers that the next
new unit is in, which begins with `Base`: `vr_uh` stands for `top`, one more than the newest that came, `vr_ur` for `Lower` and `vr_ux` for
`Mark`. What holds always is that what is on the air is recent (`Channel`) and that no event of the timer waits for more than `Pace`
units (`Timed`). As long as nothing was amiss (`Calm`):

1. what is stored came, is ahead of `Lower`, and neither it nor anything newer was handed over (`Stored`);
2. what is below `Lower` is behind what was handed over (`Level`). An expiry cancelled in vain takes `Lower` back, but only over what
   has come;
3. while an expiry is to come, `Mark` was the newest not long ago, and what lies between `Mark` and `Lower` has come (`Waiting`);
4. while the timer runs there is a gap below `Mark`, and the units among the last numbers of the cycle are all stored
   (`Running`); while it does not, what is missing is at most what an expiry has left open, for which the next unit starts it
   again (`Idle`). So a gap is given up after two runs, which bounds how long a unit is held;
5. those last numbers are as many as that takes: when the numbers wrap, no gap is open, nothing is stored and no event is to
   come (`Wraps`), and the new cycle begins as the first one did (`AfterWrap`).

The lemmas on arithmetic modulo `M` (`Quotient` to `InsideIs`) turn each test of the code into one of units: what the early
returns drop lies below `Lower` (`DroppedIs`), the walk of `vr_ur` stops at the first missing unit (`RestIs`), stop and start of the timer
(`TimerIs`). The order of delivery (`Delivered`) is by rank in a finite set, for which the model says which stored number is
the i-th (`Nth`). A step that keeps a unit is then proved without numbers: the one with which the numbers wrap (`AfterWrap`) and every other
(`AfterOther`). TLC, too, finds `UmInv` in every state of the run's instance.

`RrcConnectionProofs` proves, for any number of requests, releases and commands:

| Theorem | States |
|---|---|
| `TypeCorrect` | `[]TypeOK` |
| `IdleHasNoBearer` | `[]NoBearerWhenIdle` |
| `AlwaysAgree` | the inductive invariant |
| `AccessHasItsT300` | `[]T300OfAccess` |
| `EventsHaveMessages` | `[]EventHasMessage` |
| `MachinesInStep` | `[]InStep` |

`NoBearerWhenIdle` is inductive by itself: only the setup and the reconfiguration add bearers, in states that are not
idle, and the release looks for each bearer by an identity it has (`KeptDrbs`). Types are proved in groups, of the
terminal, its events, the channel, the station and the counters, so that a step is looked at once for each group it changes.

The other three follow from `Agree`, which says where a message of each kind may be:

1. A setup, or the answer to it, is under way only while the base station waits for that answer, so there is one of
   the two at most (`SetupInv`); the same of a reconfiguration (`ReconfInv`). That is why one global for each kind suffices.
2. Messages and events stay in order from the base station to the terminal's machine. A release is therefore handled
   before the setup of the next connection, and is gone when that is answered (`ReleaseInv`).
3. A connecting terminal has T300 running or its expiry queued. An expiry that `rcv_rrc_conn_setup` comes too late to cancel
   stands before the release of that connection, and so cannot meet the next access (`TimerInv`).
4. A terminal whose base station is idle while it is connected has a release to come, or missed it (`LeftInv`).

What the user of the terminal does (a release, closing the device, a new start) breaks parts of it, as the
properties say; the invariant carries the same conditions. Sequences are used by what is in them, whether it is there
once and what stands behind what (`In`, `Once`, `NotBehind`), with a lemma for appending, joining and taking the head.
`AccessEnds`, a liveness property, is model-checked only.

`UeFsmTableProofs` proves, for any RNTIs, slots, closings and events pending, from the assumption that there is a
slot 0 and a value for no RNTI:

| Theorem | States |
|---|---|
| `AlwaysAgree` | the inductive invariant |
| `TypeCorrect` | `[]TypeOK` |
| `AlwaysOneMachineEach` | `[]OneMachineEach` |
| `AlwaysFindsItsMachine` | `[]EventFindsItsMachine` |

`OneMachineEach` and `EventFindsItsMachine` need each other: an event names a slot, and that the slot still has the
machine of the event's terminal follows from slots being given up only together with all events. The bound on
`ue_num` is not inductive, as the number of entries says nothing of slots; the invariant counts (`Counted`):
since the last closing each entry took a slot, and each closing took at most all of them.

All safety invariants, action properties and refinements that the passing runs check are proved. What stays with TLC is
liveness: `EventEnds`, `Handled`, `TempIsTemporary`, `AttemptEnds`, `RetryEnds` and `AccessEnds`, since proofs from fairness and `ENABLED` are out of
the prover's reach. So does what a step over data computes for every input where that needs induction by a rule that takes an
operator; where a proof needed it, it goes by a least counterexample.

## 5. What is left

In order of what it would add:

1. `RandomAccess`, which composes terminals (`UeRandomAccess`) with `RntiTable`, the contention identity all share and
   a channel that loses messages. An answer carries the identity stored last, whatever RNTI it is sent on
   (`mac_pkthandler.c:168`, `682` of the base station), and a terminal does not compare the RNTI, so what holds
   of two terminals at once is less than that their C-RNTIs differ; what does hold is to be found. With it the codes RLC gives
   its timers against the codes of MAC's events.
2. Opening, closing, registering and unregistering a module while packets and ioctls are under way, in `FsmPackets`.
3. The evaluation of a status in `RlcAm`, if the return before it goes, and with it
   windows that move and numbers that wrap; units with segments.
4. In `RlcUmReceive`, what the receiver still promises after the numbers have wrapped with a gap open. The model goes on from there; the
   properties do not.

## 6. Not modelled

Message formats and their encoding; the arithmetic of resource allocation, mostly
replaced by constants "for test" in the source; PDCP and the IP adaptation, which
keep no state over several steps; the user-space test tools, which issue ioctls by
hand; the sources no Makefile builds (`rlcfsm.c`, `macfsm.c`, `rlc.c`, `mac.c`,
`rlc_macfsm_copy.c`, the other versions of `fsmcore.c`).

Of the modelled layers: numbers of five bits in unacknowledged mode, which no transmitter writes;
transparent mode, which forwards; units with segments in acknowledged mode, which no transmitter
makes; establishing, suspending and releasing a bearer while units are under way; paging and system information,
which are broadcast from fixed structures; reestablishment and reject, which no base station sends.

The base station's downlink scheduling: within one handler requests are built, stored by their position in
RLC's list, served and forgotten (`rlc_macfsm.c:747`, `enb_macscheduler.c:993`), and nothing is kept that a
later step could find in a wrong order; the token buckets are never refilled, as nothing calls
`FlushBj`. What goes wrong there (counts of requests that accumulate, 780; lengths taken from the last channel
visited, `enb_macscheduler.c:1090`) is arithmetic of one call, which a test reaches.

The largest part of the repository is copies: two stations with nearly the same layers, a copy of the runtime under each
module, earlier versions beside the current ones. A definition is mapped to one of the copies. `PROJECT.json` lists each
part with its status and the reason.
