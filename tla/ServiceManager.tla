---------------------------- MODULE ServiceManager ----------------------------
(***************************************************************************)
(* The lifecycle of managed services: ServiceManager of                    *)
(* control-plane/service-manager.ts over the InstanceRegistry of           *)
(* control-plane/instance-registry.ts.  The clients are those of one       *)
(* control process (the resident server, or a command line), each with one *)
(* call at a time; the process may die and be started anew.  Service and   *)
(* browser host processes are detached, so they outlive it.                *)
(*                                                                         *)
(* The lifecycle lock is the one of FileLock, taken here in one step: what *)
(* matters is that list() does not take it, that a waiter gives up, and    *)
(* that it comes free when its process dies.  It excludes the calls of one *)
(* process, as FileLock checks; it does not exclude a second process       *)
(* (FileLockTwo), so nothing is said here of two.  What runs without an    *)
(* await is not interrupted by another call, only by processes that die.   *)
(* A process identity (pid and fingerprint) is a member of Procs and is    *)
(* never used twice.                                                       *)
(***************************************************************************)
EXTENDS Naturals

CONSTANTS Clients, Procs, Ids, Profiles, None,
          Hosts, Ports, \* what a service listens on: a bind host and a port of it
          MaxCalls,   \* bound on the calls made
          MaxFaults   \* bound on processes that die by themselves

ASSUME ServiceAssumption ==
  /\ None \notin Clients \union Procs \union Ids \union Ports
  /\ MaxCalls \in Nat /\ MaxFaults \in Nat

VARIABLES
  call,      \* [Clients -> where its call stands, and what it has read and made]
  lock,      \* the client that holds the lifecycle lock, or None
  life,      \* [Procs -> "unborn", "running", "stopping", "gone" or "crashed"]
  via,       \* [Procs -> the browser host a service was started on, or None]
  registry,  \* the records of instances.json
  adrift,    \* processes nobody can answer for: their maker died, or never
             \* learnt the fingerprint without which nothing is signalled
  spent      \* calls made and faults suffered, for the bounds

vars == <<call, lock, life, via, registry, adrift, spent>>

Locking == {"start", "stop", "stopAll", "restart"}
Record == [id : Ids, bind : Hosts, port : Ports, profile : Profiles, pooled : BOOLEAN,
           service : Procs, host : Procs \union {None}]
Idle == [at |-> "idle", op |-> "none", active |-> {}, pending |-> {},
         plan |-> None, host |-> None, mine |-> FALSE, child |-> None]

Init ==
  /\ call = [c \in Clients |-> Idle]
  /\ lock = None
  /\ life = [p \in Procs |-> "unborn"]
  /\ via = [p \in Procs |-> None]
  /\ registry = {} /\ adrift = {}
  /\ spent = [calls |-> 0, faults |-> 0]

-----------------------------------------------------------------------------
\* processMatches: a process that was told to stop matches until it has exited.
Matches(p) == p # None /\ life[p] \in {"running", "stopping"}
Active(records) == {r \in records : Matches(r.service)}

\* terminateOwnedProcess: SIGTERM to those of ps that still match.
Terminated(ps) ==
  [p \in Procs |-> IF p \in ps /\ life[p] = "running" THEN "stopping" ELSE life[p]]

Unborn == {p \in Procs : life[p] = "unborn"}
\* Identities are interchangeable, so which one a spawned process gets is no
\* choice; the size of Procs bounds what can be spawned, as a spawn may fail.
Spawned == CHOOSE p \in Procs : life[p] = "unborn"
Step(c, at) == call' = [call EXCEPT ![c].at = at]
\* The call returns or throws, and lets go of the lifecycle lock if it has it.
Return(c) ==
  /\ call' = [call EXCEPT ![c] = Idle]
  /\ lock' = IF lock = c THEN None ELSE lock

-----------------------------------------------------------------------------
(***************************************************************************)
(* The lifecycle lock, and the call it is taken for.                       *)
(***************************************************************************)
Invoke(c) ==
  /\ call[c].at = "idle" /\ spent.calls < MaxCalls
  /\ spent' = [spent EXCEPT !.calls = @ + 1]
  /\ \E at \in {"waiting", "read"} :
       call' = [call EXCEPT ![c] =
         [Idle EXCEPT !.at = at, !.op = IF at = "read" THEN "list" ELSE "none"]]
  /\ UNCHANGED <<lock, life, via, registry, adrift>>

\* A waiter polls for 30 seconds; a start may hold the lock for longer.
LockTimeout(c) ==
  /\ call[c].at = "waiting" /\ lock # None
  /\ Return(c)
  /\ UNCHANGED <<life, via, registry, adrift, spent>>

Acquire(c) == call[c].at = "waiting" /\ lock = None

StartLocked(c) ==
  /\ Acquire(c)
  /\ lock' = c
  /\ \E bind \in Hosts, profile \in Profiles, pooled \in BOOLEAN :
       call' = [call EXCEPT ![c] = [Idle EXCEPT !.at = "read", !.op = "start",
         !.plan = [id |-> None, bind |-> bind, port |-> None, profile |-> profile,
                   pooled |-> pooled]]]
  /\ UNCHANGED <<life, via, registry, adrift, spent>>

\* The synchronous head of stopUnlocked, for every record in targets: a service
\* that runs is told to stop, and then its exit is awaited.
StopBegun(c, op, targets) ==
  /\ lock' = c
  /\ life' = Terminated({r.service : r \in targets})
  /\ call' = [call EXCEPT ![c] = [Idle EXCEPT !.at = "stopping", !.op = op,
       !.pending = targets,
       !.plan = IF op = "restart"
         THEN LET r == CHOOSE r \in targets : TRUE
              IN [id |-> r.id, bind |-> r.bind, port |-> r.port, profile |-> r.profile,
                  pooled |-> r.pooled]
         ELSE None]]

StopLocked(c) ==
  /\ Acquire(c)
  /\ \E r \in registry, op \in {"stop", "restart"} :
       StopBegun(c, op, {r})
  /\ UNCHANGED <<via, registry, adrift, spent>>

\* stop or restart of an id that is in no record.
StopUnknown(c) ==
  /\ Acquire(c)
  /\ \E id \in Ids : \A r \in registry : r.id # id
  /\ Return(c)
  /\ UNCHANGED <<life, via, registry, adrift, spent>>

StopAllLocked(c) ==
  /\ Acquire(c)
  /\ registry' = Active(registry)
  /\ StopBegun(c, "stopAll", Active(registry))
  /\ UNCHANGED <<via, adrift, spent>>

-----------------------------------------------------------------------------
(***************************************************************************)
(* reapOrphanBrowserHosts: the hosts that no record keeps in use are told  *)
(* to stop, and then listActive drops the dead records, with no await      *)
(* between.  list() does this without the lifecycle lock.                  *)
(***************************************************************************)

\* Slip: a host counts as orphaned once one record that names it is dead.
OrphanHostsOfDead(known) == {r.host : r \in known \ Active(known)} \ {None}

OrphanHosts(known) ==
  {r.host : r \in known} \ ({r.host : r \in Active(known)} \union {None})

ReapHosts(c) ==
  /\ call[c].at = "read"
  /\ life' = Terminated(OrphanHosts(registry))
  /\ Step(c, "sweep")
  /\ UNCHANGED <<lock, via, registry, adrift, spent>>

Sweep(c) ==
  /\ call[c].at = "sweep"
  /\ registry' = Active(registry)
  /\ IF call[c].op \in {"start", "restart"} THEN Step(c, "open") /\ lock' = lock
     ELSE Return(c)
  /\ UNCHANGED <<life, via, adrift, spent>>

-----------------------------------------------------------------------------
(***************************************************************************)
(* startUnlocked.                                                          *)
(***************************************************************************)
\* The record that owns the profile among those the start found active, if any.
Owners(c) == {r \in call[c].active : r.profile = call[c].plan.profile}
CanReuse(owner, pooled) == pooled /\ Matches(owner.host)

\* The start throws with nothing of its own to take back.
StartFails(c) ==
  /\ Return(c)
  /\ UNCHANGED <<life, via, adrift, spent>>

\* Slip: a start that finds the profile's owner without a host to share goes on.
FindOwnerUnchecked(c) ==
  /\ call[c].at = "open"
  /\ registry' = Active(registry)
  /\ call' = [call EXCEPT ![c] = [@ EXCEPT !.at = "port", !.active = Active(registry)]]
  /\ UNCHANGED <<lock, life, via, adrift, spent>>

FindOwner(c) ==
  /\ call[c].at = "open"
  /\ registry' = Active(registry)
  /\ LET owners == {r \in Active(registry) : r.profile = call[c].plan.profile}
     IN IF \E owner \in owners : ~CanReuse(owner, call[c].plan.pooled)
        THEN StartFails(c)
        ELSE /\ call' = [call EXCEPT ![c] = [@ EXCEPT !.at = "port", !.active = Active(registry)]]
             /\ UNCHANGED <<lock, life, via, adrift, spent>>

\* allocatePort and the id check: those of the restarted service, or else any,
\* asked for or default, that no active record has; a port is taken on one host.
Choices(asked, all, taken) == (IF asked = None THEN all ELSE {asked}) \ taken
FreeIds(c) == Choices(call[c].plan.id, Ids, {r.id : r \in call[c].active})
FreePorts(c) ==
  Choices(call[c].plan.port, Ports,
          {r.port : r \in {s \in call[c].active : s.bind = call[c].plan.bind}})

\* The host the profile's owner runs on is used, or with pooling one is started.
Allocate(c) ==
  /\ call[c].at = "port"
  /\ \E id \in FreeIds(c), port \in FreePorts(c) :
       LET shared == {r.host : r \in Owners(c)} \ {None}
           chosen == [call[c] EXCEPT !.plan = [@ EXCEPT !.id = id, !.port = port], !.active = {}]
       IN IF shared = {} /\ call[c].plan.pooled
          THEN /\ Unborn # {}
               /\ life' = [life EXCEPT ![Spawned] = "running"]
               /\ call' = [call EXCEPT ![c] =
                    [chosen EXCEPT !.at = "host", !.host = Spawned, !.mine = TRUE]]
          ELSE /\ \/ shared = {} /\ call' = [call EXCEPT ![c] = [chosen EXCEPT !.at = "spawn"]]
                  \/ \E h \in shared :
                       call' = [call EXCEPT ![c] = [chosen EXCEPT !.at = "attach", !.host = h]]
               /\ UNCHANGED life
  /\ UNCHANGED <<lock, via, registry, adrift, spent>>

\* No port is free, the id is taken, the agent that owns the service cannot be
\* identified, the host cannot be spawned.
AllocateFails(c) ==
  call[c].at = "port" /\ StartFails(c) /\ UNCHANGED registry

\* waitForCdpReady on the host the profile already has.
Attach(c) ==
  /\ call[c].at = "attach"
  /\ \/ /\ Matches(call[c].host)
        /\ Step(c, "spawn")
        /\ UNCHANGED <<lock, life, via, adrift, spent>>
     \/ StartFails(c)
  /\ UNCHANGED registry

HostReady(c) ==
  /\ call[c].at = "host" /\ Matches(call[c].host)
  /\ Step(c, "spawn")
  /\ UNCHANGED <<lock, life, via, registry, adrift, spent>>

\* Pooling is an optimisation: the start goes on with a browser of the service's own.
HostFails(c) ==
  /\ call[c].at = "host"
  /\ call' = [call EXCEPT ![c] = [@ EXCEPT !.at = "spawn", !.host = None, !.mine = FALSE]]
  /\ \/ life' = Terminated({call[c].host}) /\ UNCHANGED adrift
     \/ adrift' = adrift \union {call[c].host} /\ UNCHANGED life
  /\ UNCHANGED <<lock, via, registry, spent>>

\* Slip: a failing start takes back the service and forgets the host it started.
OwnHostForgotten(c) == {}

\* What a failing start takes back: the host, when this attempt started it.
OwnHost(c) == IF call[c].mine THEN {call[c].host} ELSE {}

SpawnService(c) ==
  /\ call[c].at = "spawn" /\ Unborn # {}
  /\ life' = [life EXCEPT ![Spawned] = "running"]
  /\ via' = [via EXCEPT ![Spawned] = call[c].host]
  /\ call' = [call EXCEPT ![c] = [@ EXCEPT !.at = "ready", !.child = Spawned]]
  /\ UNCHANGED <<lock, registry, adrift, spent>>

SpawnFails(c) ==
  /\ call[c].at = "spawn"
  /\ life' = Terminated(OwnHost(c))
  /\ Return(c)
  /\ UNCHANGED <<via, registry, adrift, spent>>

ServiceReady(c) ==
  /\ call[c].at = "ready" /\ Matches(call[c].child)
  /\ Step(c, "record")
  /\ UNCHANGED <<lock, life, via, registry, adrift, spent>>

\* Not ready, or the record cannot be written: the attempt takes back what it
\* made, the service only if it could be identified.
Rollback(c) ==
  /\ call[c].at \in {"ready", "record"}
  /\ \/ life' = Terminated({call[c].child} \union OwnHost(c)) /\ UNCHANGED adrift
     \/ /\ call[c].at = "ready"
        /\ life' = Terminated(OwnHost(c))
        /\ adrift' = adrift \union {call[c].child}
  /\ Return(c)
  /\ UNCHANGED <<via, registry, spent>>

PutRecord(c) ==
  /\ call[c].at = "record"
  /\ LET plan == call[c].plan
     IN registry' = {r \in registry : r.id # plan.id} \union
          {[id |-> plan.id, bind |-> plan.bind, port |-> plan.port,
            profile |-> plan.profile, pooled |-> plan.pooled,
            service |-> call[c].child, host |-> call[c].host]}
  /\ Return(c)
  /\ UNCHANGED <<life, via, adrift, spent>>

-----------------------------------------------------------------------------
(***************************************************************************)
(* The rest of stopUnlocked, once the service has exited or 360 seconds    *)
(* have passed and it was killed: its record goes, and its host too unless *)
(* another active record uses it.  stopAll runs its stops concurrently.    *)
(***************************************************************************)
StillUsed(host, records) == \E r \in Active(records) : r.host = host

Stopped(c) ==
  /\ call[c].at = "stopping"
  /\ \E r \in call[c].pending :
       LET rest == {s \in registry : s.id # r.id}
       IN /\ registry' = IF r.host = None THEN rest ELSE Active(rest)
          /\ life' = IF StillUsed(r.host, rest) THEN life ELSE Terminated({r.host})
          /\ call' = [call EXCEPT ![c].pending = @ \ {r}]
  /\ UNCHANGED <<lock, via, adrift, spent>>

AllStopped(c) ==
  /\ call[c].at = "stopping" /\ call[c].pending = {}
  /\ IF call[c].op = "stop" THEN Return(c) ELSE Step(c, "read") /\ lock' = lock
  /\ UNCHANGED <<life, via, registry, adrift, spent>>

-----------------------------------------------------------------------------
(***************************************************************************)
(* Processes: the ones told to stop exit, any may die by itself, and the   *)
(* control process may die in the middle of its calls.                     *)
(***************************************************************************)
Exit(p) ==
  /\ life[p] = "stopping"
  /\ life' = [life EXCEPT ![p] = "gone"]
  /\ UNCHANGED <<call, lock, via, registry, adrift, spent>>

Fault == spent.faults < MaxFaults /\ spent' = [spent EXCEPT !.faults = @ + 1]

Crash(p) ==
  /\ life[p] = "running" /\ Fault
  /\ life' = [life EXCEPT ![p] = "crashed"]
  /\ UNCHANGED <<call, lock, via, registry, adrift>>

\* What a call has made and not yet recorded, or is about to take down.
InHand(c) == {call[c].child} \union OwnHost(c) \union {r.host : r \in call[c].pending}

ControlDies ==
  /\ (\E c \in Clients : call[c].at # "idle") /\ Fault
  /\ adrift' = adrift \union ((UNION {InHand(c) : c \in Clients}) \ {None})
  /\ call' = [c \in Clients |-> Idle] /\ lock' = None
  /\ UNCHANGED <<life, via, registry>>

\* No other call is between two steps of a stretch without an await.
Free(c) == \A d \in Clients \ {c} : call[d].at # "sweep"

Work(c) ==
  \/ LockTimeout(c)
  \/ StartLocked(c) \/ StopLocked(c) \/ StopUnknown(c) \/ StopAllLocked(c)
  \/ ReapHosts(c) \/ Sweep(c)
  \/ FindOwner(c) \/ Allocate(c) \/ AllocateFails(c) \/ Attach(c)
  \/ HostReady(c) \/ HostFails(c) \/ SpawnService(c) \/ SpawnFails(c)
  \/ ServiceReady(c) \/ Rollback(c) \/ PutRecord(c)
  \/ Stopped(c) \/ AllStopped(c)

Next ==
  \/ \E c \in Clients : Free(c) /\ (Invoke(c) \/ Work(c))
  \/ ControlDies
  \/ \E p \in Procs : Exit(p) \/ Crash(p)

Spec == Init /\ [][Next]_vars

-----------------------------------------------------------------------------
\* The types of the variables; only the holder of the lifecycle lock is inside
\* a start or a stop, and a stop under way has not yet let go of its records.
Stages == {"idle", "waiting", "read", "sweep", "open", "port", "host",
           "attach", "spawn", "ready", "record", "stopping"}
TypeOK ==
  /\ \A c \in Clients :
       /\ call[c].at \in Stages
       /\ call[c].op \in Locking \union {"list", "none"}
       /\ call[c].active \union call[c].pending \subseteq Record
       /\ {call[c].host, call[c].child} \subseteq Procs \union {None}
       /\ (lock = c) = (call[c].op \in Locking)
  /\ lock \in Clients \union {None}
  /\ life \in [Procs -> {"unborn", "running", "stopping", "gone", "crashed"}]
  /\ via \in [Procs -> Procs \union {None}]
  /\ registry \subseteq Record /\ adrift \subseteq Procs

\* docs/CONTROL_PLANE.md:36 and 78: a profile has one browser.  Records never
\* share an id or a port of one bind host, those on one profile share its browser
\* host, and those on different profiles never do, whoever died while a start was
\* waiting on what it had read.
RecordedApart ==
  \A r, s \in registry : r # s =>
    /\ r.id # s.id /\ r.service # s.service
    /\ r.bind = s.bind => r.port # s.port
    /\ r.profile = s.profile => r.host = s.host /\ r.host # None
    /\ r.host = s.host /\ r.host # None => r.profile = s.profile

Recorded(p) == \E r \in registry : p \in {r.service, r.host}
Held(p) == \E c \in Clients : p \in InHand(c)
Widowed(p) == \E s \in Procs : via[s] = p /\ life[s] = "crashed"

\* docs/CONTROL_PLANE.md:68: a start that fails, at whatever step, and a stop
\* leave nothing running that no record names: except a host whose service died
\* by itself, and what a dead control process or a missing identity left adrift.
NothingLeftBehind ==
  \A p \in Procs \ adrift :
    life[p] = "running" => Recorded(p) \/ Held(p) \/ Widowed(p)

\* A browser host is not told to stop while a service that a record names, or that
\* a start is waiting for, runs on it.  Only list(), which does not take the
\* lifecycle lock, may stop one that a start has just joined: when the service the
\* start found there has died meanwhile, or the host was left adrift.
InUse(p) ==
  \E s \in Procs :
    /\ via[s] = p /\ life[s] = "running"
    /\ \/ \E r \in registry : r.service = s
       \/ \E c \in Clients : call[c].child = s
Lists(c) == call[c].op = "list" /\ call'[c] # call[c]
HostsInUseSpared ==
  [][\A p \in Procs : life[p] = "running" /\ life'[p] = "stopping" /\ InUse(p)' =>
       (Widowed(p) \/ p \in adrift) /\ \E c \in Clients : Lists(c)]_vars

\* docs/CONTROL_PLANE.md:84: when the last service on a browser host is gone the
\* host is terminated, or reaped by a later lifecycle operation.  What reaping
\* goes by is a record that names the host.
OrphansAreReapable ==
  \A p \in Procs \ adrift : life[p] = "running" => Recorded(p) \/ Held(p)

=============================================================================
