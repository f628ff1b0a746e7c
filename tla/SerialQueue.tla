----------------------------- MODULE SerialQueue -----------------------------
(***************************************************************************)
(* The lane of a session: class SerialQueue of runtime/serial-queue.ts.    *)
(*                                                                         *)
(* Node runs one callback at a time, so each action below is the code that *)
(* runs between two awaits.  The array `pending' is the set of tasks in it *)
(* together with the arrival number of each: push gives the next number,   *)
(* shift takes the task with the least.  A task is one call of run(), made *)
(* at most once.                                                           *)
(***************************************************************************)
EXTENDS Naturals, FiniteSets

CONSTANTS Tasks,     \* calls of run()
          NoTask,    \* `active = false'
          MaxQueue   \* the constructor's maxQueue

ASSUME TasksAssumption == IsFiniteSet(Tasks) /\ NoTask \notin Tasks
ASSUME MaxQueueAssumption == MaxQueue \in Nat \ {0}

VARIABLES
  status,     \* [Tasks -> Status]: where each call of run() has got to
  aborted,    \* the tasks whose AbortSignal has fired
  pending,    \* the entries of `pending'
  arrival,    \* [Tasks -> Nat]: order of the pushes
  arrivals,   \* number of pushes so far
  active,     \* the task pump() is awaiting, NoTask when `active' is false
  pumps,      \* pump() microtasks queued and not yet run
  closed,
  draining    \* the snapshot drain() still waits for; {NoTask} before it is called

vars == <<status, aborted, pending, arrival, arrivals, active, pumps, closed, draining>>

Status == {"new", "pending", "starting", "running", "resolved", "rejected"}
Settled(t) == status[t] \in {"resolved", "rejected"}

\* `accepted': results not yet settled (line 40-41).
Accepted == {t \in Tasks : status[t] \in {"pending", "starting", "running"}}

\* drain() resolves once its snapshot has settled.
NotDraining == {NoTask}
Drained == draining = {}

depth == Cardinality(pending) + (IF active = NoTask THEN 0 ELSE 1)

Init ==
  /\ status = [t \in Tasks |-> "new"]
  /\ aborted = {}
  /\ pending = {}
  /\ arrival = [t \in Tasks |-> 0]
  /\ arrivals = 0
  /\ active = NoTask
  /\ pumps = 0
  /\ closed = FALSE
  /\ draining = NotDraining

\* A task leaves drain()'s snapshot when its result settles.
SettleAs(S, outcome) ==
  /\ status' = [t \in Tasks |-> IF t \in S THEN outcome ELSE status[t]]
  /\ draining' = draining \ S

-----------------------------------------------------------------------------
\* run() refuses: closed, already aborted, or at capacity.
Refuse(t) ==
  /\ status[t] = "new"
  /\ closed \/ t \in aborted \/ depth >= MaxQueue
  /\ status' = [status EXCEPT ![t] = "rejected"]
  /\ UNCHANGED <<aborted, pending, arrival, arrivals, active, pumps, closed, draining>>

\* run() accepts: push, then schedule a pump.
Run(t) ==
  /\ status[t] = "new"
  /\ ~closed
  /\ t \notin aborted
  /\ depth < MaxQueue
  /\ status' = [status EXCEPT ![t] = "pending"]
  /\ pending' = pending \union {t}
  /\ arrivals' = arrivals + 1
  /\ arrival' = [arrival EXCEPT ![t] = arrivals + 1]
  /\ pumps' = pumps + 1
  /\ UNCHANGED <<aborted, active, closed, draining>>

\* The entry shift() returns.
First(t) == t \in pending /\ \A u \in pending : arrival[t] <= arrival[u]

\* Slip: pump() does not test what shift() returned.
StartNextUnchecked ==
  IF pending = {}
    THEN active' = "undefined" /\ UNCHANGED <<status, pending>>
    ELSE \E t \in pending :
           /\ First(t)
           /\ active' = t
           /\ pending' = pending \ {t}
           /\ status' = [status EXCEPT ![t] = "starting"]

\* The part of pump() up to its await: take the next entry, enter start().
StartNext ==
  IF pending = {}
    THEN active' = NoTask /\ UNCHANGED <<status, pending>>
    ELSE \E t \in pending :
           /\ First(t)
           /\ active' = t
           /\ pending' = pending \ {t}
           /\ status' = [status EXCEPT ![t] = "starting"]

\* Slip: pump() without its first line.
PumpAlways ==
  /\ pumps > 0
  /\ pumps' = pumps - 1
  /\ StartNext
  /\ UNCHANGED <<aborted, arrival, arrivals, closed, draining>>

\* A scheduled pump() runs; it returns at once when a task is active.
Pump ==
  /\ pumps > 0
  /\ pumps' = pumps - 1
  /\ IF active # NoTask THEN UNCHANGED <<active, status, pending>> ELSE StartNext
  /\ UNCHANGED <<aborted, arrival, arrivals, closed, draining>>

\* start() after the minimum interval: the signal is looked at once more.
Begin ==
  /\ active # NoTask
  /\ status[active] = "starting"
  /\ active \notin aborted
  /\ status' = [status EXCEPT ![active] = "running"]
  /\ UNCHANGED <<aborted, pending, arrival, arrivals, active, pumps, closed, draining>>

\* start() finds the signal aborted, during the interval or after it.
BeginAborted ==
  /\ active # NoTask
  /\ status[active] = "starting"
  /\ active \in aborted
  /\ SettleAs({active}, "rejected")
  /\ UNCHANGED <<aborted, pending, arrival, arrivals, active, pumps, closed>>

\* The task's promise settles.  `active' is still true: pump() resumes later.
Settle(outcome) ==
  /\ active # NoTask
  /\ status[active] = "running"
  /\ SettleAs({active}, outcome)
  /\ UNCHANGED <<aborted, pending, arrival, arrivals, active, pumps, closed>>

\* Slip: the finally does not pump again.
ReleaseQuietly ==
  /\ active # NoTask
  /\ Settled(active)
  /\ active' = NoTask
  /\ UNCHANGED <<status, aborted, pending, arrival, arrivals, pumps, closed, draining>>

\* pump()'s finally: active = false, and the next entry starts in the same turn.
Release ==
  /\ active # NoTask
  /\ Settled(active)
  /\ StartNext
  /\ UNCHANGED <<aborted, arrival, arrivals, pumps, closed, draining>>

\* The caller's signal fires: a pending entry is cancelled on the spot.  Once
\* the task runs the queue no longer listens: the signal is the task's own affair.
Abort(t) ==
  /\ t \notin aborted
  /\ status[t] \in {"new", "pending", "starting"}
  /\ aborted' = aborted \union {t}
  /\ pending' = pending \ {t}
  /\ SettleAs({t} \intersect pending, "rejected")
  /\ UNCHANGED <<arrival, arrivals, active, pumps, closed>>

\* close() cancels every pending entry; the active one goes on.
Close ==
  /\ ~closed
  /\ closed' = TRUE
  /\ pending' = {}
  /\ SettleAs(pending, "rejected")
  /\ UNCHANGED <<aborted, arrival, arrivals, active, pumps>>

\* Slip: the snapshot holds only the entries still in the array.
DrainPending ==
  /\ closed
  /\ draining = NotDraining
  /\ draining' = pending
  /\ UNCHANGED <<status, aborted, pending, arrival, arrivals, active, pumps, closed>>

\* drain(), which SessionManager.close calls on queues it has closed.
Drain ==
  /\ closed
  /\ draining = NotDraining
  /\ draining' = Accepted
  /\ UNCHANGED <<status, aborted, pending, arrival, arrivals, active, pumps, closed>>

Next ==
  \/ \E t \in Tasks : Refuse(t) \/ Run(t) \/ Abort(t)
  \/ Pump
  \/ Begin
  \/ BeginAborted
  \/ \E outcome \in {"resolved", "rejected"} : Settle(outcome)
  \/ Release
  \/ Close
  \/ Drain

\* The event loop runs every microtask and timer; a task settles because every
\* executor call is bounded by its own timeouts.
Fairness ==
  /\ WF_vars(Pump)
  /\ WF_vars(Begin \/ BeginAborted)
  /\ WF_vars(\E outcome \in {"resolved", "rejected"} : Settle(outcome))
  /\ WF_vars(Release)

Spec == Init /\ [][Next]_vars
FairSpec == Spec /\ Fairness

-----------------------------------------------------------------------------
TypeOK ==
  /\ status \in [Tasks -> Status]
  /\ aborted \subseteq Tasks
  /\ pending \subseteq Tasks
  /\ arrival \in [Tasks -> Nat]
  /\ arrivals \in Nat
  /\ active \in Tasks \union {NoTask}
  /\ pumps \in Nat
  /\ closed \in BOOLEAN
  /\ draining \subseteq Tasks \union {NoTask}

\* Two tasks of one lane are never inside the executor together: the promise of
\* `active' to a browser page that cannot serve two prompts (pump, line 45-48).
OneAtATime ==
  \A t, u \in Tasks : status[t] = "running" /\ status[u] = "running" => t = u

\* An entry is never left in the array with nobody to start it: whenever the
\* lane is free and an entry waits, a pump is on its way (line 38 and 48).
NoLostWakeup == pending # {} /\ active = NoTask => pumps > 0

\* The task in the lane arrived before every task still waiting, whatever was
\* cancelled in between (shift, line 46, against splice, line 35).
FirstComeFirstServed ==
  active # NoTask => \A t \in pending : arrival[active] < arrival[t]

\* depth never exceeds maxQueue, although the settled task still counts until
\* pump() resumes (line 15 and 19).
WithinCapacity == depth <= MaxQueue

\* Once drain() of a closed queue has resolved no task of it is waiting or
\* inside the executor, which is what lets the manager close the page (line 51).
DrainedIsQuiet == Drained => \A t \in Tasks : status[t] \in {"new", "resolved", "rejected"}

\* The members of S by their numbers: `pending' as the array it stands for.
Before(S, number, t) == {u \in S : number[u] < number[t]}
InOrder(S, number) ==
  [i \in 1..Cardinality(S) |-> CHOOSE t \in S : Cardinality(Before(S, number, t)) = i - 1]

Fifo == INSTANCE FifoLock WITH
  line <- InOrder(pending, arrival),
  holder <- active,
  seen <- {t \in Tasks : arrival[t] > 0}

\* The queue is a first-in first-out lane that hands over directly: every step
\* of serial-queue.ts joins, leaves, takes or yields the abstract lane, or none.
ImplementsFifoLock == Fifo!Spec

\* Every call that was accepted settles: it is run, or rejected by its signal or
\* by close(), however the queue is used meanwhile.
AcceptedSettles == \A t \in Tasks : t \in Accepted ~> Settled(t)
=============================================================================
