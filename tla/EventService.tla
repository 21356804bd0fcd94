---------------------------- MODULE EventService ----------------------------
(* What the FSM runtime promises the state machines of a module, without       *)
(* queues, locks, interrupts or tasklets: an event posted with a delay is      *)
(* handled once, alone, not before it is due and after everything due before   *)
(* it, unless it is cancelled or the service is shut down first.               *)
EXTENDS Naturals

CONSTANTS Slot, Delays, MaxTime

VARIABLES
  clock,
  status,   \* free, posting (its due time is fixed), waiting or handling
  due,
  order,    \* <<a, b>>: a was posted before b
  busy      \* who runs a handler: nobody, an event or something else

vars == <<clock, status, due, order, busy>>

Waiting == {s \in Slot : status[s] = "waiting"}

Init ==
  /\ clock = 0
  /\ status = [s \in Slot |-> "free"]
  /\ due = [s \in Slot |-> 0]
  /\ order = {}
  /\ busy = "nobody"

Pass == clock < MaxTime /\ clock' = clock + 1 /\ UNCHANGED <<status, due, order, busy>>

\* A packet, an ioctl, open or close runs a handler.
Enter == busy = "nobody" /\ busy' = "other" /\ UNCHANGED <<clock, status, due, order>>
Leave == busy = "other" /\ busy' = "nobody" /\ UNCHANGED <<clock, status, due, order>>

\* Only handlers post and cancel.
Post(s, d) ==
  /\ busy # "nobody"
  /\ status[s] = "free"
  /\ status' = [status EXCEPT ![s] = "posting"]
  /\ due' = [due EXCEPT ![s] = clock + (IF d = 0 THEN 1 ELSE d)]
  /\ UNCHANGED <<clock, order, busy>>

Commit(s) ==
  /\ status[s] = "posting"
  /\ status' = [status EXCEPT ![s] = "waiting"]
  /\ order' = order \cup {<<t, s>> : t \in {u \in Slot : status[u] \in {"waiting", "handling"}}}
  /\ UNCHANGED <<clock, due, busy>>

Gone(S) ==
  /\ status' = [s \in Slot |-> IF s \in S THEN "free" ELSE status[s]]
  /\ due' = [s \in Slot |-> IF s \in S THEN 0 ELSE due[s]]
  /\ order' = {p \in order : p[1] \notin S /\ p[2] \notin S}

Cancel(s) == busy # "nobody" /\ s \in Waiting /\ Gone({s}) /\ UNCHANGED <<clock, busy>>

\* Earliest first, and in the order of posting among equals.
IsNext(s) ==
  \A t \in Waiting \ {s} :
    due[s] < due[t] \/ (due[s] = due[t] /\ <<s, t>> \in order)

Handle(s) ==
  /\ busy = "nobody"
  /\ s \in Waiting /\ due[s] <= clock /\ IsNext(s)
  /\ busy' = "event"
  /\ status' = [status EXCEPT ![s] = "handling"]
  /\ UNCHANGED <<clock, due, order>>

Return == busy = "event" /\ busy' = "nobody" /\ UNCHANGED <<clock, status, due, order>>

Finish(s) ==
  /\ status[s] = "handling" /\ busy # "event"
  /\ Gone({s})
  /\ UNCHANGED <<clock, busy>>

\* Shutting down discards what waits; only a close, which is a handler, does.
Discard ==
  /\ busy = "other"
  /\ \E S \in SUBSET Waiting : Gone(S)
  /\ busy' \in {"other", "nobody"}
  /\ UNCHANGED clock

Next ==
  \/ Pass \/ Enter \/ Leave \/ Return \/ Discard
  \/ \E s \in Slot :
       Commit(s) \/ Cancel(s) \/ Handle(s) \/ Finish(s) \/ \E d \in Delays : Post(s, d)

Spec == Init /\ [][Next]_vars
=============================================================================
