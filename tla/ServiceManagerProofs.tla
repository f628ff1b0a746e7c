-------------------------- MODULE ServiceManagerProofs --------------------------
(***************************************************************************)
(* Proofs about the lifecycle of managed services: records never collide,  *)
(* nothing is left running that nobody answers for, and no holder of the   *)
(* lifecycle lock stops a browser host that is in use.  The argument is    *)
(* about what one call has in hand at each of its stages (CallSound), and  *)
(* about list(), which changes the registry and stops hosts without the    *)
(* lock while a start or a stop is between two of its steps.               *)
(***************************************************************************)
EXTENDS ServiceManager, TLAPS

Lives == {"unborn", "running", "stopping", "gone", "crashed"}
Plans == [id : Ids \union {None}, bind : Hosts, port : Ports \union {None},
          profile : Profiles, pooled : BOOLEAN]
Ops == Locking \union {"list", "none"}
Calls == [at : Stages, op : Ops, active : SUBSET Record, pending : SUBSET Record,
          plan : Plans \union {None}, host : Procs \union {None}, mine : BOOLEAN,
          child : Procs \union {None}]

Types ==
  /\ call \in [Clients -> Calls]
  /\ lock \in Clients \union {None}
  /\ life \in [Procs -> Lives]
  /\ via \in [Procs -> Procs \union {None}]
  /\ registry \subseteq Record /\ adrift \subseteq Procs

-----------------------------------------------------------------------------
(* What holds of one call. *)

Placed == {"attach", "host", "spawn", "ready", "record"}
Starting == {"open", "port"} \union Placed

\* What a call k may have in hand at each of its stages.
Shaped(k) ==
  /\ k.at \in Starting => k.op \in {"start", "restart"}
  /\ k.at = "stopping" => k.op \in {"stop", "stopAll", "restart"}
  /\ (k.op = "none") = (k.at \in {"idle", "waiting"})
  /\ k.op \in {"start", "restart"} => k.plan \in Plans
  /\ k.at \in Placed => k.plan.id \in Ids /\ k.plan.port \in Ports
  /\ (k.child # None) = (k.at \in {"ready", "record"})
  /\ k.host # None => k.at \in Placed
  /\ k.at \in {"attach", "host"} => k.host # None
  /\ k.at = "host" => k.mine
  /\ k.mine => k.host # None /\ k.at # "attach"
  /\ k.pending # {} => k.at = "stopping"
  /\ k.active # {} => k.at = "port"

\* Records that do not collide (RecordedApart, of any set of them).
Distinct(r, s) ==
  /\ r.id # s.id /\ r.service # s.service
  /\ r.bind = s.bind => r.port # s.port
  /\ r.profile = s.profile => r.host = s.host /\ r.host # None
  /\ r.host = s.host /\ r.host # None => r.profile = s.profile
Apart(records) == \A r, s \in records : r # s => Distinct(r, s)

\* What a start found is still all there is, and leaves room for its profile.
StartSees(c) == call[c].at = "port" =>
  /\ registry \subseteq call[c].active
  /\ Apart(call[c].active)
  /\ \A r \in call[c].active : r.profile = call[c].plan.profile => r.host # None

\* What a start has chosen collides with no record.
Fits(k, r) ==
  /\ r.id # k.plan.id
  /\ r.bind = k.plan.bind => r.port # k.plan.port
  /\ r.profile = k.plan.profile => r.host = k.host /\ r.host # None
  /\ r.host = k.host /\ r.host # None => r.profile = k.plan.profile
  /\ k.mine => r.host # k.host
  /\ r.service # k.child
PlanFits(c) == call[c].at \in Placed => \A r \in registry : Fits(call[c], r)

\* The service of a start runs or has crashed, on the host chosen for it.
ChildRuns(c) == call[c].child # None =>
  life[call[c].child] \in {"running", "crashed"} /\ via[call[c].child] = call[c].host

\* A stop has told its services to stop, and nobody takes their ids meanwhile.
StopsUnderWay(c) == \A r \in call[c].pending :
  /\ life[r.service] \notin {"unborn", "running"}
  /\ \A s \in registry : s.id = r.id => s = r

CallSound(c) ==
  /\ (lock = c) = (call[c].op \in Locking)
  /\ Shaped(call[c])
  /\ StartSees(c) /\ PlanFits(c) /\ ChildRuns(c) /\ StopsUnderWay(c)

\* What a call is that has nothing in hand and not the lock.
Bystander(k) ==
  /\ k.op \notin Locking /\ k.at \notin Starting \union {"stopping"}
  /\ k.host = None /\ k.child = None /\ ~k.mine /\ k.pending = {} /\ k.active = {}

-----------------------------------------------------------------------------
(* What holds of the processes and the registry. *)

\* The hosts and the services that anything names: all have been spawned, and a
\* process is never both.
ReadBy(c) == call[c].active \union call[c].pending
HostNamed(p) ==
  \/ \E r \in registry : r.host = p
  \/ \E c \in Clients : call[c].host = p \/ \E r \in ReadBy(c) : r.host = p
ServiceNamed(p) ==
  (\E r \in registry : r.service = p) \/ (\E c \in Clients : call[c].child = p)
NamesAreBorn == \A p \in Procs : HostNamed(p) \/ ServiceNamed(p) => life[p] # "unborn"
KindsApart == \A p \in Procs : ~(HostNamed(p) /\ ServiceNamed(p))

\* A record names the host its service was started on.
HostsRecorded == \A r \in registry : via[r.service] = r.host

\* A recorded service was only told to stop by a stop that is under way, or that
\* left its host adrift.
StoppersAnswer ==
  \A r \in registry : life[r.service] \in {"stopping", "gone"} =>
    r.host \in adrift \union {None} \/ \E c \in Clients : r \in call[c].pending

IInv ==
  /\ Types /\ NamesAreBorn /\ KindsApart /\ HostsRecorded /\ StoppersAnswer
  /\ (\A c \in Clients : CallSound(c))
  /\ RecordedApart /\ NothingLeftBehind

-----------------------------------------------------------------------------
(* The kinds of steps. *)

\* Client c goes on to k; the others stand still.
Becomes(c, k) ==
  /\ k \in Calls /\ call' \in [Clients -> Calls] /\ call'[c] = k
  /\ \A d \in Clients : d # c => call'[d] = call[d]

LEMMA Moved ==
  ASSUME Types, NEW c \in Clients, NEW k \in Calls, call' = [call EXCEPT ![c] = k]
  PROVE  Becomes(c, k)
BY DEF Types, Becomes

\* A step that starts nothing and records nothing.
Withers ==
  /\ registry' \subseteq registry /\ via' = via
  /\ life' \in [Procs -> Lives] /\ adrift \subseteq adrift' /\ adrift' \subseteq Procs
  /\ \A p \in Procs :
       /\ life'[p] = "running" => life[p] = "running"
       /\ life[p] # "unborn" <=> life'[p] # "unborn"
       /\ life[p] = "crashed" => life'[p] = "crashed"

\* The step of c changes no other's hold on the lifecycle lock.
LeavesLock(c) ==
  /\ lock' \in Clients \union {None}
  /\ \A d \in Clients : d # c => (lock' = d) = (lock = d)

\* It stops no service of another call, no recorded one but of its own stop, and
\* forgets no stop whose record stays.
Spares(c) ==
  /\ \A d \in Clients : d # c /\ call[d].child # None =>
       (life[call[d].child] \in {"running", "crashed"} =>
          life'[call[d].child] \in {"running", "crashed"})
  /\ \A r \in registry' : life'[r.service] \in {"stopping", "gone"} =>
       life[r.service] \in {"stopping", "gone"} \/ r \in call'[c].pending
  /\ \A r \in registry' : r \in call[c].pending =>
       r \in call'[c].pending \/ r.host \in adrift' \union {None}

\* It names nothing that was not named.
NamesOld(c) ==
  /\ call'[c].host # None => HostNamed(call'[c].host)
  /\ call'[c].child # None => ServiceNamed(call'[c].child)
  /\ \A r \in ReadBy(c)' : r.host # None => HostNamed(r.host)

\* What was recorded or in hand still is, or runs no more, or may be forgotten.
Accounts(c) ==
  \A p \in Procs \ adrift' : life'[p] = "running" /\ (Recorded(p) \/ p \in InHand(c)) =>
    Recorded(p)' \/ Held(p)' \/ Widowed(p)'

LEMMA BystandersKept ==
  ASSUME NEW d \in Clients, Bystander(call[d]), Shaped(call[d]), call'[d] = call[d],
         lock' # d, call[d].op \in Ops
  PROVE  CallSound(d)'
<1>1. (lock' = d) = (call'[d].op \in Locking) /\ Shaped(call'[d])
  BY DEF Bystander
<1>3. ChildRuns(d)' /\ StopsUnderWay(d)'
  BY DEF ChildRuns, StopsUnderWay, Bystander
<1>4. StartSees(d)' /\ PlanFits(d)'
  BY DEF StartSees, PlanFits, Bystander, Starting
<1> QED BY <1>1, <1>3, <1>4 DEF CallSound

LEMMA OthersAside ==
  ASSUME Types, \A e \in Clients : CallSound(e), NEW c \in Clients, lock \in {None, c},
         NEW d \in Clients, d # c
  PROVE  Bystander(call[d]) /\ Shaped(call[d]) /\ call[d].op \in Ops /\ lock # d
<1>1. call[d] \in Calls /\ CallSound(d) /\ lock # d
  BY ServiceAssumption DEF Types
<1>2. call[d].op \in Ops /\ call[d].at \in Stages
  BY <1>1 DEF Calls
<1>3. call[d].op \notin Locking
  BY <1>1 DEF CallSound
<1> QED BY <1>1, <1>2, <1>3 DEF CallSound, Shaped, Bystander, Starting, Placed, Locking, Stages,
  Calls

LEMMA OthersKept ==
  ASSUME Types, Withers, NEW c \in Clients, LeavesLock(c), Spares(c),
         NEW d \in Clients, d # c, CallSound(d), call'[d] = call[d]
  PROVE  CallSound(d)'
<1>1. call[d] \in Calls
  BY DEF Types
<1>2. call[d].child \in Procs \union {None} /\ call[d].pending \in SUBSET Record
  BY <1>1 DEF Calls
<1>3. \A r \in call[d].pending : r.service \in Procs
  BY <1>2 DEF Record
<1>4. StartSees(d)' /\ PlanFits(d)'
  BY DEF CallSound, StartSees, PlanFits, Withers
<1>5. ChildRuns(d)'
  BY <1>2 DEF CallSound, ChildRuns, Withers, Spares
<1>6. StopsUnderWay(d)'
  BY <1>3 DEF CallSound, StopsUnderWay, Withers
<1> QED BY <1>4, <1>5, <1>6 DEF CallSound, LeavesLock

LEMMA NamesKept ==
  ASSUME NamesAreBorn, KindsApart,
         \A p \in Procs : (HostNamed(p)' => HostNamed(p)) /\ (ServiceNamed(p)' => ServiceNamed(p)),
         \A p \in Procs : life[p] # "unborn" => life'[p] # "unborn"
  PROVE  NamesAreBorn' /\ KindsApart'
BY DEF NamesAreBorn, KindsApart

LEMMA RecordTypes ==
  ASSUME NEW r \in Record
  PROVE  /\ r.service \in Procs /\ r.host \in Procs \union {None} /\ r.id \in Ids
         /\ r.bind \in Hosts /\ r.port \in Ports /\ r.profile \in Profiles
         /\ r.pooled \in BOOLEAN
BY DEF Record

\* A step of a call that starts nothing and records nothing keeps the invariant,
\* if the call it becomes is sound and it accounts for what it gives up.
LEMMA CallGoesOn ==
  ASSUME IInv, NEW c \in Clients, NEW k \in Calls, Becomes(c, k),
         Withers, LeavesLock(c), Spares(c), NamesOld(c), Accounts(c), CallSound(c)'
  PROVE  IInv'
<1>1. Types'
  BY DEF IInv, Types, Becomes, Withers, LeavesLock
<1>2. \A d \in Clients : CallSound(d)'
  BY OthersKept DEF IInv, Becomes
<1>3. NamesAreBorn' /\ KindsApart'
  <2>1. ASSUME NEW p \in Procs, HostNamed(p)' PROVE HostNamed(p)
    BY <2>1, ServiceAssumption DEF HostNamed, NamesOld, Withers, Becomes, ReadBy
  <2>2. ASSUME NEW p \in Procs, ServiceNamed(p)' PROVE ServiceNamed(p)
    BY <2>2, ServiceAssumption DEF ServiceNamed, NamesOld, Withers, Becomes
  <2> QED BY <2>1, <2>2, NamesKept DEF IInv, Withers
<1>4. HostsRecorded'
  BY DEF IInv, HostsRecorded, Withers
<1>5. RecordedApart'
  BY DEF IInv, RecordedApart, Withers
<1>6. StoppersAnswer'
  <2> SUFFICES ASSUME NEW r \in registry', life'[r.service] \in {"stopping", "gone"}
               PROVE  \/ r.host \in adrift' \union {None}
                      \/ \E d \in Clients : r \in call'[d].pending
    BY DEF StoppersAnswer
  <2>1. CASE life[r.service] \notin {"stopping", "gone"}
    BY <2>1 DEF Spares
  <2>2. CASE life[r.service] \in {"stopping", "gone"}
    <3>1. r.host \in adrift \union {None} \/ \E d \in Clients : r \in call[d].pending
      BY <2>2 DEF IInv, StoppersAnswer, Withers
    <3>2. ASSUME NEW d \in Clients, r \in call[d].pending, d # c
          PROVE  r \in call'[d].pending
      BY <3>2 DEF Becomes
    <3> QED BY <3>1, <3>2 DEF Spares, Withers
  <2> QED BY <2>1, <2>2
<1>7. NothingLeftBehind'
  <2> SUFFICES ASSUME NEW p \in Procs \ adrift', life'[p] = "running"
               PROVE  Recorded(p)' \/ Held(p)' \/ Widowed(p)'
    BY DEF NothingLeftBehind
  <2>1. Recorded(p) \/ Held(p) \/ Widowed(p)
    BY DEF IInv, NothingLeftBehind, Withers
  <2>2. CASE Recorded(p) \/ p \in InHand(c)
    BY <2>2 DEF Accounts
  <2>3. CASE Widowed(p)
    BY <2>3 DEF Widowed, Withers
  <2>4. CASE \E d \in Clients : d # c /\ p \in InHand(d)
    <3> PICK d \in Clients : d # c /\ p \in InHand(d)
      BY <2>4
    <3>1. p \in InHand(d)'
      BY DEF InHand, OwnHost, Becomes
    <3> QED BY <3>1 DEF Held
  <2> QED BY <2>1, <2>2, <2>3, <2>4 DEF Held
<1> QED BY <1>1, <1>2, <1>3, <1>4, <1>5, <1>6, <1>7 DEF IInv

-----------------------------------------------------------------------------
(* Steps that change no process and no record. *)

\* A call k that is m but for its stage.
SameButAt(k, m) ==
  /\ k.op = m.op /\ k.active = m.active /\ k.pending = m.pending
  /\ k.plan = m.plan /\ k.host = m.host /\ k.mine = m.mine /\ k.child = m.child

LEMMA StepMoves ==
  ASSUME Types, NEW c \in Clients, NEW at \in Stages, Step(c, at)
  PROVE  \E k \in Calls : Becomes(c, k) /\ k.at = at /\ SameButAt(k, call[c])
<1> DEFINE b == call[c]
<1>1. b \in Calls /\ call \in [Clients -> Calls]
  BY DEF Types
<1> DEFINE k == [b EXCEPT !.at = at]
<1>2. call' = [call EXCEPT ![c] = k]
  BY DEF Step
<1> HIDE DEF b
<1>3. k \in Calls /\ k.at = at /\ SameButAt(k, b)
  BY <1>1 DEF Calls, SameButAt
<1> HIDE DEF k
<1> QED BY <1>2, <1>3, Moved DEF b

LEMMA IdleIsCall ==
  /\ Idle \in Calls /\ Idle.at = "idle" /\ Idle.op = "none"
  /\ Idle.active = {} /\ Idle.pending = {} /\ Idle.plan = None /\ Idle.host = None
  /\ Idle.mine = FALSE /\ Idle.child = None
BY DEF Idle, Calls, Stages, Ops

LEMMA Returned ==
  ASSUME Types, NEW c \in Clients, Return(c)
  PROVE  /\ Becomes(c, Idle) /\ LeavesLock(c) /\ lock' # c
         /\ CallSound(c)' /\ NamesOld(c) /\ InHand(c)' = {None}
<1>1. Becomes(c, Idle)
  BY IdleIsCall, Moved DEF Return
<1>2. LeavesLock(c) /\ lock' # c
  BY ServiceAssumption DEF Return, LeavesLock, Types
<1>3. Shaped(Idle)
  BY DEF Shaped, Idle, Starting, Placed
<1>4. CallSound(c)'
  BY <1>1, <1>2, <1>3 DEF Becomes, CallSound, StartSees, PlanFits, ChildRuns, StopsUnderWay, Idle, Locking, Placed
<1>5. NamesOld(c) /\ InHand(c)' = {None}
  BY <1>1 DEF Becomes, NamesOld, ReadBy, Idle, InHand, OwnHost
<1> QED BY <1>1, <1>2, <1>4, <1>5

\* A call goes on and has the same in hand.
LEMMA CallRests ==
  ASSUME IInv, NEW c \in Clients, NEW k \in Calls, Becomes(c, k),
         UNCHANGED <<life, via, registry, adrift>>, LeavesLock(c), NamesOld(c),
         CallSound(c)', call[c].pending = {},
         \A p \in Procs : p \in InHand(c) => p \in InHand(c)'
  PROVE  IInv'
<1>1. Withers
  BY DEF IInv, Types, Withers
<1>2. Spares(c)
  BY DEF Spares
<1>3. Accounts(c)
  BY DEF Accounts, Recorded, Held
<1> QED BY <1>1, <1>2, <1>3, CallGoesOn

\* A call that has nothing in hand returns or throws.
LEMMA QuietReturn ==
  ASSUME IInv, NEW c \in Clients, Return(c), UNCHANGED <<life, via, registry, adrift>>,
         call[c].pending = {}, \A p \in Procs : p \notin InHand(c)
  PROVE  IInv'
<1>1. /\ Becomes(c, Idle) /\ LeavesLock(c) /\ CallSound(c)' /\ NamesOld(c)
  BY Returned DEF IInv
<1> QED BY <1>1, IdleIsCall, CallRests

LEMMA EmptyHands ==
  ASSUME IInv, NEW c \in Clients, call[c].at \notin Placed \union {"stopping"}
  PROVE  /\ call[c].pending = {} /\ call[c].host = None /\ call[c].child = None
         /\ call[c].mine = FALSE /\ InHand(c) = {None}
<1>1. Shaped(call[c]) /\ call[c] \in Calls
  BY DEF IInv, CallSound, Types
<1>2. /\ call[c].pending = {} /\ call[c].host = None /\ call[c].child = None
      /\ call[c].mine = FALSE
  BY <1>1 DEF Shaped, Placed, Calls
<1> QED BY <1>2 DEF InHand, OwnHost

LEMMA NoneIsNoProcess == None \notin Procs /\ None \notin Clients
BY ServiceAssumption

LEMMA InvokeStep == ASSUME IInv, NEW c \in Clients, Invoke(c) PROVE IInv'
<1> PICK at \in {"waiting", "read"} :
     call' = [call EXCEPT ![c] =
       [Idle EXCEPT !.at = at, !.op = IF at = "read" THEN "list" ELSE "none"]]
  BY DEF Invoke
<1> DEFINE op == IF at = "read" THEN "list" ELSE "none"
           b == Idle
           k == [b EXCEPT !.at = at, !.op = op]
<1>1. (op = "none") = (at = "waiting") /\ op \in Ops /\ op \notin Locking
  BY DEF Ops, Locking
<1>2. /\ b \in Calls /\ b.active = {} /\ b.pending = {}
      /\ b.host = None /\ b.mine = FALSE /\ b.child = None
  BY IdleIsCall
<1>3. call' = [call EXCEPT ![c] = k]
  OBVIOUS
<1> HIDE DEF op, b
<1>4. /\ k \in Calls /\ k.at = at /\ k.op = op /\ k.active = {}
      /\ k.pending = {} /\ k.host = None /\ k.mine = FALSE /\ k.child = None
  BY <1>1, <1>2 DEF Calls, Stages
<1> HIDE DEF k
<1>5. Shaped(k)
  BY <1>1, <1>4 DEF Shaped, Starting, Placed, Locking, Ops, op
<1>6. Becomes(c, k)
  BY <1>3, <1>4, Moved DEF IInv
<1>7. NamesOld(c) /\ CallSound(c)'
  <2>1. lock # c
    BY DEF IInv, CallSound, Shaped, Invoke, Locking
  <2>2. lock' # c
    BY <2>1 DEF Invoke
  <2>3. (lock' = c) = (call'[c].op \in Locking)
    <3>1. call'[c].op = op /\ op \notin Locking
      BY <1>1, <1>4, <1>6 DEF Becomes
    <3> QED BY <3>1, <2>2
  <2>4. CallSound(c)'
    BY <1>4, <1>5, <1>6, <2>3 DEF Becomes, CallSound, StartSees,
        PlanFits, ChildRuns, StopsUnderWay, Placed
  <2>5. NamesOld(c)
    BY <1>4, <1>6 DEF Becomes, NamesOld, ReadBy
  <2> QED BY <2>4, <2>5
<1>8. call[c].pending = {} /\ InHand(c) = {None}
  BY EmptyHands DEF Invoke, Placed
<1>9. LeavesLock(c)
  BY DEF Invoke, IInv, Types, LeavesLock
<1> QED BY <1>4, <1>6, <1>7, <1>8, <1>9, CallRests, NoneIsNoProcess DEF Invoke

LEMMA LockTimeoutStep == ASSUME IInv, NEW c \in Clients, LockTimeout(c) PROVE IInv'
BY EmptyHands, QuietReturn, NoneIsNoProcess DEF LockTimeout, Placed

LEMMA StopUnknownStep == ASSUME IInv, NEW c \in Clients, StopUnknown(c) PROVE IInv'
BY EmptyHands, QuietReturn, NoneIsNoProcess DEF StopUnknown, Acquire, Placed

LEMMA AllocateFailsStep == ASSUME IInv, NEW c \in Clients, AllocateFails(c) PROVE IInv'
BY EmptyHands, QuietReturn, NoneIsNoProcess DEF AllocateFails, StartFails, Placed

LEMMA StartLockedStep == ASSUME IInv, NEW c \in Clients, StartLocked(c) PROVE IInv'
<1> PICK bind \in Hosts, profile \in Profiles, pooled \in BOOLEAN :
      call' = [call EXCEPT ![c] = [Idle EXCEPT !.at = "read", !.op = "start",
         !.plan = [id |-> None, bind |-> bind, port |-> None, profile |-> profile,
                   pooled |-> pooled]]]
  BY DEF StartLocked
<1> DEFINE plan == [id |-> None, bind |-> bind, port |-> None, profile |-> profile,
                   pooled |-> pooled]
           b == Idle
           k == [b EXCEPT !.at = "read", !.op = "start", !.plan = plan]
<1>1. plan \in Plans
  BY DEF Plans
<1>2. call' = [call EXCEPT ![c] = k]
  OBVIOUS
<1>3. /\ b \in Calls /\ b.active = {} /\ b.pending = {}
      /\ b.host = None /\ b.mine = FALSE /\ b.child = None
  BY IdleIsCall
<1> HIDE DEF plan, b
<1>4. /\ k \in Calls /\ k.at = "read" /\ k.op = "start" /\ k.active = {}
      /\ k.pending = {} /\ k.host = None /\ k.mine = FALSE /\ k.child = None /\ k.plan = plan
  BY <1>1, <1>3 DEF Calls, Stages, Ops, Locking
<1> HIDE DEF k
<1>5. Shaped(k)
  BY <1>1, <1>4 DEF Shaped, Starting, Placed
<1>6. Becomes(c, k)
  BY <1>2, <1>4, Moved DEF IInv
<1>7. NamesOld(c) /\ CallSound(c)'
  BY <1>5, <1>4, <1>6 DEF Becomes, NamesOld, ReadBy, CallSound, StartSees, Locking,
        PlanFits, ChildRuns, StopsUnderWay, Placed, StartLocked
<1>8. call[c].pending = {} /\ InHand(c) = {None}
  BY EmptyHands DEF StartLocked, Acquire, Placed
<1>9. LeavesLock(c)
  BY NoneIsNoProcess DEF StartLocked, Acquire, LeavesLock
<1> QED BY <1>4, <1>6, <1>7, <1>8, <1>9, CallRests, NoneIsNoProcess DEF StartLocked

\* The stages of a start between which only time passes.
LEMMA StartWaits ==
  ASSUME IInv, NEW c \in Clients, NEW at \in Stages, Step(c, at),
         UNCHANGED <<lock, life, via, registry, adrift>>,
         <<call[c].at, at>> \in {<<"attach", "spawn">>, <<"host", "spawn">>, <<"ready", "record">>}
  PROVE  IInv'
<1>1. PICK k \in Calls : Becomes(c, k) /\ k.at = at /\ SameButAt(k, call[c])
  BY StepMoves DEF IInv
<1>2. CallSound(c) /\ call[c] \in Calls
  BY DEF IInv, Types
<1>3. Shaped(k)
  BY <1>1, <1>2 DEF CallSound, Shaped, SameButAt, Starting, Placed
<1>4. CallSound(c)'
  BY <1>1, <1>2, <1>3 DEF CallSound, Becomes, SameButAt, StartSees, PlanFits, Fits, ChildRuns,
    StopsUnderWay, Placed
<1>5. NamesOld(c)
  BY <1>1 DEF NamesOld, Becomes, SameButAt, HostNamed, ServiceNamed, ReadBy
<1>6. call[c].pending = {} /\ InHand(c)' = InHand(c)
  BY <1>1, <1>2 DEF CallSound, Shaped, InHand, OwnHost, SameButAt, Becomes
<1>7. LeavesLock(c)
  BY DEF LeavesLock, IInv, Types
<1> QED BY <1>1, <1>4, <1>5, <1>6, <1>7, CallRests

LEMMA HostReadyStep == ASSUME IInv, NEW c \in Clients, HostReady(c) PROVE IInv'
BY StartWaits DEF HostReady, Stages

LEMMA ServiceReadyStep == ASSUME IInv, NEW c \in Clients, ServiceReady(c) PROVE IInv'
BY StartWaits DEF ServiceReady, Stages

LEMMA AttachStep == ASSUME IInv, NEW c \in Clients, Attach(c) PROVE IInv'
<1>1. CASE Step(c, "spawn") /\ UNCHANGED <<lock, life, via, adrift, spent>>
  BY <1>1, StartWaits DEF Attach, Stages
<1>2. CASE StartFails(c)
  <2>1. call[c].pending = {} /\ call[c].child = None /\ call[c].mine = FALSE
    BY DEF IInv, Types, CallSound, Shaped, Attach, Calls
  <2>2. InHand(c) = {None}
    BY <2>1 DEF InHand, OwnHost
  <2> QED BY <1>2, <2>1, <2>2, QuietReturn, NoneIsNoProcess DEF Attach, StartFails
<1> QED BY <1>1, <1>2 DEF Attach

LEMMA AllStoppedStep == ASSUME IInv, NEW c \in Clients, AllStopped(c) PROVE IInv'
<1>1. call[c] \in Calls /\ Shaped(call[c]) /\ CallSound(c)
  BY DEF IInv, Types, CallSound
<1>2. /\ call[c].pending = {} /\ call[c].child = None /\ call[c].mine = FALSE
      /\ call[c].host = None
  BY <1>1 DEF Shaped, AllStopped, Calls, Placed
<1>3. InHand(c) = {None}
  BY <1>2 DEF InHand, OwnHost
<1>4. CASE call[c].op = "stop"
  BY <1>2, <1>3, <1>4, QuietReturn, NoneIsNoProcess DEF AllStopped
<1>5. CASE call[c].op # "stop"
  <2>1. PICK k \in Calls : Becomes(c, k) /\ k.at = "read" /\ SameButAt(k, call[c])
    BY <1>5, StepMoves DEF IInv, AllStopped, Stages
  <2>2. Shaped(k)
    BY <1>1, <1>2, <2>1 DEF Shaped, SameButAt, Starting, Placed, AllStopped
  <2>3. CallSound(c)' /\ NamesOld(c) /\ LeavesLock(c)
    BY <1>1, <1>2, <1>5, <2>1, <2>2 DEF CallSound, Becomes, SameButAt, StartSees, PlanFits,
      ChildRuns, StopsUnderWay, Placed, AllStopped, NamesOld, ReadBy, HostNamed,
      LeavesLock, IInv, Types
  <2> QED BY <1>2, <1>3, <2>1, <2>3, CallRests, NoneIsNoProcess DEF AllStopped
<1> QED BY <1>4, <1>5

-----------------------------------------------------------------------------
(* Steps that drop the records of dead services. *)

LEMMA NamedAreBorn ==
  ASSUME IInv, NEW r \in registry
  PROVE  /\ r \in Record /\ life[r.service] # "unborn"
         /\ r.host # None => life[r.host] # "unborn" /\ via[r.service] = r.host
<1>1. r \in Record
  BY DEF IInv, Types
<1>2. r.service \in Procs /\ r.host \in Procs \union {None}
  BY <1>1, RecordTypes
<1>3. ServiceNamed(r.service) /\ HostNamed(r.host)
  BY DEF ServiceNamed, HostNamed
<1> QED BY <1>1, <1>2, <1>3 DEF IInv, NamesAreBorn, HostsRecorded

LEMMA LifeIsKnown ==
  ASSUME Types, NEW p \in Procs
  PROVE  life[p] \in Lives
BY DEF Types

\* What the record of a dead service names has died with it, or is left to a
\* stop, or is a host whose service died by itself.
LEMMA DeadAreAnswered ==
  ASSUME IInv, NEW r \in registry, r \notin Active(registry),
         NEW p \in Procs \ adrift, life[p] = "running", p \in {r.service, r.host}
  PROVE  Held(p) \/ Widowed(p)
<1>1. r.service \in Procs /\ life[r.service] \notin {"unborn", "running", "stopping"}
  BY NamedAreBorn, RecordTypes, NoneIsNoProcess DEF Active, Matches
<1>2. p = r.host /\ p # None
  BY <1>1, NoneIsNoProcess
<1>3. via[r.service] = p
  BY <1>2, NamedAreBorn
<1>4. CASE life[r.service] = "crashed"
  BY <1>1, <1>3, <1>4 DEF Widowed
<1>5. CASE life[r.service] = "gone"
  <2>1. PICK d \in Clients : r \in call[d].pending
    BY <1>2, <1>5, NoneIsNoProcess DEF IInv, StoppersAnswer
  <2> QED BY <1>2, <2>1 DEF Held, InHand
<1> QED BY <1>1, <1>4, <1>5, LifeIsKnown DEF IInv, Lives

LEMMA CallSweeps ==
  ASSUME IInv, NEW c \in Clients, NEW k \in Calls, Becomes(c, k),
         registry' = Active(registry), UNCHANGED <<life, via, adrift>>,
         LeavesLock(c), NamesOld(c), CallSound(c)',
         call[c].at \notin Placed \union {"stopping"}
  PROVE  IInv'
<1>1. call[c].pending = {} /\ InHand(c) = {None}
  BY EmptyHands
<1>2. Withers
  BY DEF IInv, Types, Withers, Active
<1>3. Spares(c)
  BY <1>1 DEF Spares
<1>4. Accounts(c)
  <2> SUFFICES ASSUME NEW p \in Procs \ adrift', life'[p] = "running", Recorded(p)
               PROVE  Recorded(p)' \/ Held(p)' \/ Widowed(p)'
    BY <1>1, NoneIsNoProcess DEF Accounts
  <2>1. PICK r \in registry : p \in {r.service, r.host}
    BY DEF Recorded
  <2>2. CASE r \in Active(registry)
    BY <2>1, <2>2 DEF Recorded
  <2>3. CASE r \notin Active(registry)
    <3>1. Held(p) \/ Widowed(p)
      BY <2>1, <2>3, DeadAreAnswered
    <3>2. CASE Held(p)
      <4>1. PICK d \in Clients : p \in InHand(d) /\ d # c
        BY <3>2, <1>1, NoneIsNoProcess DEF Held
      <4>2. p \in InHand(d)'
        BY <4>1 DEF InHand, OwnHost, Becomes
      <4> QED BY <4>2 DEF Held
    <3>3. CASE Widowed(p)
      BY <3>3 DEF Widowed
    <3> QED BY <3>1, <3>2, <3>3
  <2> QED BY <2>2, <2>3
<1> QED BY <1>2, <1>3, <1>4, CallGoesOn

LEMMA SweepStep == ASSUME IInv, NEW c \in Clients, Sweep(c) PROVE IInv'
<1>1. call[c] \in Calls /\ Shaped(call[c]) /\ CallSound(c) /\ call[c].at = "sweep"
  BY DEF IInv, Types, CallSound, Sweep
<1>2. /\ call[c].pending = {} /\ call[c].child = None /\ call[c].mine = FALSE
      /\ call[c].host = None /\ InHand(c) = {None}
  BY <1>1, EmptyHands DEF Placed
<1>3. CASE call[c].op \in {"start", "restart"}
  <2>1. PICK k \in Calls : Becomes(c, k) /\ k.at = "open" /\ SameButAt(k, call[c])
    BY <1>3, StepMoves DEF IInv, Sweep, Stages
  <2>2. Shaped(k)
    BY <1>1, <1>2, <1>3, <2>1 DEF Shaped, SameButAt, Starting, Placed
  <2>3. CallSound(c)'
    BY <1>1, <1>2, <1>3, <2>1, <2>2 DEF CallSound, Becomes, SameButAt, StartSees, PlanFits,
      ChildRuns, StopsUnderWay, Placed, Sweep
  <2>4. NamesOld(c)
    BY <1>2, <2>1 DEF Becomes, SameButAt, NamesOld, ReadBy, HostNamed
  <2>5. LeavesLock(c)
    BY <1>3 DEF LeavesLock, IInv, Types, Sweep
  <2> QED BY <1>1, <2>1, <2>3, <2>4, <2>5, CallSweeps DEF Sweep, Placed
<1>4. CASE call[c].op \notin {"start", "restart"}
  <2>1. Return(c)
    BY <1>4 DEF Sweep
  <2>2. /\ Becomes(c, Idle) /\ LeavesLock(c) /\ CallSound(c)' /\ NamesOld(c)
    BY <2>1, Returned DEF IInv
  <2> QED BY <1>1, <2>2, CallSweeps, IdleIsCall DEF Sweep, Placed
<1> QED BY <1>3, <1>4

LEMMA FindOwnerStep == ASSUME IInv, NEW c \in Clients, FindOwner(c) PROVE IInv'
<1>1. call[c] \in Calls /\ Shaped(call[c]) /\ CallSound(c) /\ call[c].at = "open"
  BY DEF IInv, Types, CallSound, FindOwner
<1>2. /\ call[c].pending = {} /\ call[c].child = None /\ call[c].mine = FALSE
      /\ call[c].host = None /\ call[c].op \in {"start", "restart"}
  BY <1>1, EmptyHands DEF Placed, Shaped, Starting
<1>3. CASE StartFails(c)
  <2>1. /\ Becomes(c, Idle) /\ LeavesLock(c) /\ CallSound(c)' /\ NamesOld(c)
    BY <1>3, Returned DEF IInv, StartFails
  <2> QED BY <1>1, <1>3, <2>1, CallSweeps, IdleIsCall DEF FindOwner, StartFails, Placed
<1>4. CASE /\ call' = [call EXCEPT ![c] = [@ EXCEPT !.at = "port", !.active = Active(registry)]]
           /\ UNCHANGED <<lock, life, via, adrift, spent>>
           /\ \A r \in Active(registry) : r.profile = call[c].plan.profile =>
                CanReuse(r, call[c].plan.pooled)
  <2> DEFINE b == call[c]
             k == [b EXCEPT !.at = "port", !.active = Active(registry)]
  <2>1. call' = [call EXCEPT ![c] = k] /\ Active(registry) \subseteq registry
    BY <1>4 DEF Active
  <2>2. b \in Calls /\ Active(registry) \in SUBSET Record
    BY <1>1, <2>1 DEF IInv, Types
  <2> HIDE DEF b
  <2>3. /\ k \in Calls /\ k.at = "port" /\ k.op = b.op
        /\ k.active = Active(registry) /\ k.pending = b.pending /\ k.plan = b.plan
        /\ k.host = b.host /\ k.mine = b.mine /\ k.child = b.child
    BY <2>2 DEF Calls, Stages
  <2> HIDE DEF k
  <2>4. Becomes(c, k)
    BY <2>1, <2>3, Moved DEF IInv
  <2>5. Shaped(k)
    BY <1>1, <1>2, <2>3 DEF Shaped, Starting, Placed, b
  <2>6. StartSees(c)'
    <3>1. Apart(Active(registry))
      BY <2>1 DEF IInv, RecordedApart, Apart, Distinct
    <3>2. \A r \in Active(registry) : r.profile = call[c].plan.profile => r.host # None
      BY <1>4 DEF CanReuse, Matches
    <3> QED BY <2>3, <2>4, <3>1, <3>2 DEF StartSees, Becomes, FindOwner, b
  <2>7. (lock' = c) = (call'[c].op \in Locking)
    BY <1>1, <1>4, <2>3, <2>4 DEF CallSound, Becomes, b
  <2>8. CallSound(c)'
    BY <1>2, <2>3, <2>4, <2>5, <2>6, <2>7 DEF CallSound, Becomes, PlanFits,
      ChildRuns, StopsUnderWay, Placed, b
  <2>9. NamesOld(c)
    BY <1>2, <2>1, <2>3, <2>4 DEF Becomes, NamesOld, ReadBy, HostNamed, b
  <2>10. LeavesLock(c)
    BY <1>4 DEF LeavesLock, IInv, Types
  <2> QED BY <1>1, <1>4, <2>3, <2>4, <2>8, <2>9, <2>10, CallSweeps DEF FindOwner, Placed
<1>5. \/ StartFails(c)
      \/ /\ call' = [call EXCEPT ![c] = [@ EXCEPT !.at = "port", !.active = Active(registry)]]
         /\ UNCHANGED <<lock, life, via, adrift, spent>>
         /\ \A r \in Active(registry) : r.profile = call[c].plan.profile =>
                CanReuse(r, call[c].plan.pooled)
  BY DEF FindOwner
<1> QED BY <1>3, <1>4, <1>5

-----------------------------------------------------------------------------
(* Steps that tell processes to stop and leave the registry alone. *)

\* Those of ps that run are told to stop.
Stops(ps) ==
  /\ life' \in [Procs -> Lives]
  /\ \A p \in Procs : life'[p] = IF p \in ps /\ life[p] = "running" THEN "stopping" ELSE life[p]

LEMMA TerminatedStops ==
  ASSUME Types, NEW ps, life' = Terminated(ps)
  PROVE  Stops(ps)
BY DEF Types, Terminated, Stops, Lives

LEMMA NothingStops ==
  ASSUME Types, life' = life
  PROVE  Stops({})
BY DEF Types, Stops

LEMMA CallTerminates ==
  ASSUME IInv, NEW c \in Clients, NEW k \in Calls, Becomes(c, k), NEW ps, Stops(ps),
         UNCHANGED <<registry, via>>, adrift \subseteq adrift', adrift' \subseteq Procs,
         LeavesLock(c), NamesOld(c), CallSound(c)', call[c].pending = {},
         \A r \in registry : r.service \notin ps,
         \A d \in Clients : d # c => call[d].child = None \/ call[d].child \notin ps,
         \A p \in Procs : p \in InHand(c) => p \in ps \union adrift' \union InHand(c)'
  PROVE  IInv'
<1>1. Withers
  BY DEF IInv, Types, Withers, Stops
<1>2. \A r \in registry : r.service \in Procs
  BY RecordTypes DEF IInv, Types
<1>3. \A d \in Clients : call[d].child \in Procs \union {None}
  BY DEF IInv, Types, Calls
<1>4. Spares(c)
  <2>1. \A r \in registry : life'[r.service] = life[r.service]
    BY <1>2 DEF Stops
  <2>2. \A d \in Clients : d # c /\ call[d].child # None =>
          life'[call[d].child] = life[call[d].child]
    BY <1>3 DEF Stops
  <2> QED BY <2>1, <2>2 DEF Spares
<1>5. Accounts(c)
  BY DEF Accounts, Stops, Recorded, Held
<1> QED BY <1>1, <1>4, <1>5, CallGoesOn

LEMMA ReapHostsStep == ASSUME IInv, NEW c \in Clients, ReapHosts(c) PROVE IInv'
<1>1. call[c] \in Calls /\ Shaped(call[c]) /\ CallSound(c) /\ call[c].at = "read"
  BY DEF IInv, Types, CallSound, ReapHosts
<1>2. /\ call[c].pending = {} /\ call[c].child = None /\ call[c].mine = FALSE
      /\ call[c].host = None /\ call[c].active = {} /\ InHand(c) = {None}
  BY <1>1, EmptyHands DEF Placed, Shaped
<1> DEFINE ps == OrphanHosts(registry)
<1>4. Stops(ps)
  BY TerminatedStops DEF ReapHosts, IInv
<1>5. \A p \in ps : HostNamed(p)
  BY DEF OrphanHosts, HostNamed
<1> HIDE DEF ps
<1>6. PICK k \in Calls : Becomes(c, k) /\ k.at = "sweep" /\ SameButAt(k, call[c])
  BY StepMoves DEF IInv, ReapHosts, Stages
<1>8. Shaped(k)
  BY <1>1, <1>2, <1>6 DEF Shaped, SameButAt, Starting, Placed
<1>9. CallSound(c)'
  BY <1>1, <1>2, <1>6, <1>8 DEF CallSound, Becomes, SameButAt, StartSees, PlanFits, ChildRuns,
    StopsUnderWay, Placed, ReapHosts
<1>10. NamesOld(c)
  BY <1>2, <1>6 DEF NamesOld, Becomes, SameButAt, ReadBy
<1>11. LeavesLock(c)
  BY DEF LeavesLock, IInv, Types, ReapHosts
<1>12. \A r \in registry : r.service \notin ps
  <2> SUFFICES ASSUME NEW r \in registry, r.service \in ps PROVE FALSE
    OBVIOUS
  <2>1. HostNamed(r.service) /\ ServiceNamed(r.service)
    BY <1>5 DEF ServiceNamed
  <2> QED BY <2>1, NamedAreBorn, RecordTypes DEF IInv, KindsApart
<1>13. \A d \in Clients : d # c => call[d].child = None \/ call[d].child \notin ps
  <2> SUFFICES ASSUME NEW d \in Clients, call[d].child # None, call[d].child \in ps PROVE FALSE
    OBVIOUS
  <2>1. HostNamed(call[d].child) /\ ServiceNamed(call[d].child) /\ call[d].child \in Procs
    BY <1>5 DEF ServiceNamed, IInv, Types, Calls
  <2> QED BY <2>1 DEF IInv, KindsApart
<1> QED BY <1>2, <1>4, <1>6, <1>9, <1>10, <1>11, <1>12, <1>13, CallTerminates,
      NoneIsNoProcess DEF ReapHosts, IInv, Types

\* The holder of the lifecycle lock is alone with what it has in hand.
LEMMA StartsAlone ==
  ASSUME IInv, NEW c \in Clients, call[c].at \in Starting \union {"stopping"}
  PROVE  /\ lock = c /\ call[c] \in Calls /\ Shaped(call[c]) /\ CallSound(c)
         /\ \A d \in Clients : d # c => Bystander(call[d]) /\ call[d].child = None
<1>1. lock = c /\ call[c] \in Calls /\ Shaped(call[c]) /\ CallSound(c)
  BY DEF IInv, Types, CallSound, Shaped, Locking
<1> QED BY <1>1, OthersAside DEF IInv, Bystander

LEMMA HostFailsStep == ASSUME IInv, NEW c \in Clients, HostFails(c) PROVE IInv'
<1> DEFINE b == call[c]
           k == [b EXCEPT !.at = "spawn", !.host = None, !.mine = FALSE]
<1>1. /\ lock = c /\ b \in Calls /\ Shaped(b) /\ CallSound(c) /\ b.at = "host"
      /\ \A d \in Clients : d # c => call[d].child = None
  BY StartsAlone DEF HostFails, Starting, Placed
<1>2. /\ b.mine = TRUE /\ b.pending = {} /\ b.child = None /\ b.host \in Procs
      /\ b.active = {} /\ InHand(c) = {b.host, None}
  BY <1>1 DEF Shaped, Calls, InHand, OwnHost
<1>3. call' = [call EXCEPT ![c] = k]
  BY DEF HostFails
<1>4. HostNamed(b.host)
  BY DEF HostNamed
<1> HIDE DEF b
<1>6. /\ k \in Calls /\ k.at = "spawn" /\ k.op = b.op
      /\ k.active = {} /\ k.pending = {} /\ k.plan = b.plan
      /\ k.host = None /\ k.mine = FALSE /\ k.child = None
  BY <1>1, <1>2 DEF Calls, Stages
<1> HIDE DEF k
<1>7. Becomes(c, k)
  BY <1>3, <1>6, Moved DEF IInv
<1>8. Shaped(k)
  BY <1>1, <1>2, <1>6 DEF Shaped, Starting, Placed
<1>9. CallSound(c)'
  <2>1. (lock' = c) = (call'[c].op \in Locking)
    BY <1>1, <1>6, <1>7 DEF CallSound, Becomes, HostFails, b
  <2>2. PlanFits(c)'
    <3>1. \A r \in registry : Fits(b, r) /\ r.service \in Procs
      BY <1>1, RecordTypes DEF CallSound, PlanFits, Placed, b, IInv, Types
    <3>2. ASSUME NEW r \in registry PROVE Fits(k, r)
      BY <1>2, <1>6, <3>1, NoneIsNoProcess DEF Fits
    <3> QED BY <1>7, <3>2 DEF PlanFits, Becomes, HostFails
  <2> QED BY <1>2, <1>6, <1>7, <1>8, <2>1, <2>2 DEF CallSound, Becomes, StartSees, ChildRuns,
    StopsUnderWay
<1>10. NamesOld(c)
  BY <1>6, <1>7 DEF NamesOld, Becomes, ReadBy
<1>11. LeavesLock(c)
  BY DEF LeavesLock, IInv, Types, HostFails
<1>12. \A r \in registry : r.service # b.host
  <2> SUFFICES ASSUME NEW r \in registry, r.service = b.host PROVE FALSE
    OBVIOUS
  <2>1. ServiceNamed(b.host)
    BY DEF ServiceNamed
  <2> QED BY <2>1, <1>2, <1>4 DEF IInv, KindsApart
<1>13. call[c].pending = {} /\ UNCHANGED <<registry, via>>
  BY <1>2 DEF b, HostFails
<1>14. CASE life' = Terminated({call[c].host}) /\ UNCHANGED adrift
  <2>1. Stops({b.host})
    BY <1>14, TerminatedStops DEF IInv, b
  <2>2. adrift' \subseteq Procs
    BY <1>14 DEF IInv, Types
  <2> QED BY <1>1, <1>2, <1>6, <1>7, <1>9, <1>10, <1>11, <1>12, <1>13, <1>14, <2>1, <2>2,
        CallTerminates, NoneIsNoProcess
<1>15. CASE adrift' = adrift \union {call[c].host} /\ UNCHANGED life
  <2>1. Stops({})
    BY <1>15, NothingStops DEF IInv
  <2>2. adrift' \subseteq Procs /\ adrift' = adrift \union {b.host}
    BY <1>2, <1>15 DEF IInv, Types, b
  <2> QED BY <1>1, <1>2, <1>6, <1>7, <1>9, <1>10, <1>11, <1>13, <2>1, <2>2,
        CallTerminates, NoneIsNoProcess
<1> QED BY <1>14, <1>15 DEF HostFails

LEMMA HandsOfStart ==
  ASSUME IInv, NEW c \in Clients, call[c].at \in Placed
  PROVE  /\ call[c].pending = {} /\ InHand(c) = {call[c].child} \union OwnHost(c)
         /\ OwnHost(c) \subseteq Procs
         /\ call[c].child \in Procs \union {None} /\ call[c].host \in Procs \union {None}
         /\ \A r \in registry : r.service # call[c].child /\ r.service \notin OwnHost(c)
<1>1. Shaped(call[c]) /\ call[c] \in Calls /\ PlanFits(c)
  BY DEF IInv, Types, CallSound
<1>2. /\ call[c].pending = {} /\ call[c].child \in Procs \union {None}
      /\ call[c].host \in Procs \union {None} /\ (call[c].mine => call[c].host # None)
  BY <1>1 DEF Shaped, Calls, Placed
<1>3. OwnHost(c) \subseteq Procs /\ InHand(c) = {call[c].child} \union OwnHost(c)
  BY <1>2 DEF OwnHost, InHand
<1>4. ASSUME NEW r \in registry PROVE r.service # call[c].child /\ r.service \notin OwnHost(c)
  <2>1. r.service # call[c].child
    BY <1>1 DEF PlanFits, Fits
  <2>2. CASE r.service \in OwnHost(c)
    <3>1. HostNamed(r.service) /\ ServiceNamed(r.service) /\ r.service \in Procs
      BY <2>2, <1>3 DEF OwnHost, HostNamed, ServiceNamed
    <3> QED BY <3>1 DEF IInv, KindsApart
  <2> QED BY <2>1, <2>2
<1> QED BY <1>2, <1>3, <1>4

LEMMA SpawnFailsStep == ASSUME IInv, NEW c \in Clients, SpawnFails(c) PROVE IInv'
<1>1. /\ lock = c /\ call[c] \in Calls /\ Shaped(call[c])
      /\ \A d \in Clients : d # c => call[d].child = None
  BY StartsAlone DEF SpawnFails, Starting, Placed
<1>2. /\ call[c].pending = {} /\ InHand(c) = {call[c].child} \union OwnHost(c)
      /\ \A r \in registry : r.service \notin OwnHost(c)
  BY HandsOfStart DEF SpawnFails, Placed
<1>3. call[c].child = None
  BY <1>1 DEF Shaped, SpawnFails
<1>4. /\ Becomes(c, Idle) /\ LeavesLock(c) /\ CallSound(c)' /\ NamesOld(c)
  BY Returned DEF IInv, SpawnFails
<1>5. Stops(OwnHost(c))
  BY TerminatedStops DEF IInv, SpawnFails
<1> QED BY <1>1, <1>2, <1>3, <1>4, <1>5, CallTerminates, IdleIsCall, NoneIsNoProcess
        DEF SpawnFails, IInv, Types

LEMMA RollbackStep == ASSUME IInv, NEW c \in Clients, Rollback(c) PROVE IInv'
<1>1. /\ lock = c /\ call[c] \in Calls /\ Shaped(call[c])
      /\ \A d \in Clients : d # c => call[d].child = None
  BY StartsAlone DEF Rollback, Starting, Placed
<1>2. /\ call[c].pending = {} /\ InHand(c) = {call[c].child} \union OwnHost(c)
      /\ call[c].child \in Procs \union {None}
      /\ \A r \in registry : r.service # call[c].child /\ r.service \notin OwnHost(c)
  BY HandsOfStart DEF Rollback, Placed
<1>3. call[c].child \in Procs
  BY <1>1, <1>2 DEF Shaped, Rollback
<1>4. /\ Becomes(c, Idle) /\ LeavesLock(c) /\ CallSound(c)' /\ NamesOld(c)
  BY Returned DEF IInv, Rollback
<1>5. CASE life' = Terminated({call[c].child} \union OwnHost(c)) /\ UNCHANGED adrift
  <2>1. Stops({call[c].child} \union OwnHost(c))
    BY <1>5, TerminatedStops DEF IInv
  <2>2. \A d \in Clients : d # c => call[d].child = None
    BY <1>1
  <2>3. adrift' \subseteq Procs /\ UNCHANGED <<registry, via>>
    BY <1>5 DEF IInv, Types, Rollback
  <2> QED BY <1>2, <1>4, <1>5, <2>1, <2>2, <2>3, CallTerminates, IdleIsCall
<1>6. CASE life' = Terminated(OwnHost(c)) /\ adrift' = adrift \union {call[c].child}
  <2>1. Stops(OwnHost(c))
    BY <1>6, TerminatedStops DEF IInv
  <2>2. \A d \in Clients : d # c => call[d].child = None
    BY <1>1
  <2>3. adrift' \subseteq Procs /\ UNCHANGED <<registry, via>>
    BY <1>3, <1>6 DEF IInv, Types, Rollback
  <2> QED BY <1>2, <1>4, <1>6, <2>1, <2>2, <2>3, CallTerminates, IdleIsCall
<1> QED BY <1>5, <1>6 DEF Rollback

LEMMA ControlDiesStep == ASSUME IInv, ControlDies PROVE IInv'
<1> USE NoneIsNoProcess
<1>1. /\ \A c \in Clients : call'[c] = Idle
      /\ call' \in [Clients -> Calls] /\ lock' = None
      /\ UNCHANGED <<life, via, registry>>
  BY IdleIsCall DEF ControlDies
<1>2. ASSUME NEW c \in Clients
      PROVE  InHand(c) \subseteq adrift' \union {None} /\ InHand(c) \subseteq Procs \union {None}
  <2>1. call[c] \in Calls
    BY DEF IInv, Types
  <2>2. InHand(c) \subseteq Procs \union {None}
    BY <2>1, RecordTypes DEF InHand, OwnHost, Calls
  <2>3. \A p : p \in InHand(c) => p \in UNION {InHand(d) : d \in Clients}
    OBVIOUS
  <2>4. adrift' = adrift \union ((UNION {InHand(d) : d \in Clients}) \ {None})
    BY DEF ControlDies
  <2> QED BY <2>2, <2>3, <2>4
<1>3. adrift \subseteq adrift' /\ adrift' \subseteq Procs
  <2>1. adrift' = adrift \union ((UNION {InHand(d) : d \in Clients}) \ {None})
    BY DEF ControlDies
  <2>2. \A p : p \in UNION {InHand(d) : d \in Clients} => p \in Procs \union {None}
    BY <1>2
  <2> HIDE DEF InHand
  <2> QED BY <2>1, <2>2 DEF IInv, Types
<1>4. Types'
  BY <1>1, <1>3 DEF IInv, Types
<1>5. ASSUME NEW c \in Clients PROVE CallSound(c)'
  <2>1. Shaped(Idle)
    BY DEF Shaped, Idle, Starting, Placed
  <2> QED BY <1>1, <2>1, IdleIsCall DEF CallSound, StartSees, PlanFits, ChildRuns,
        StopsUnderWay, Placed, Locking
<1>6. NamesAreBorn' /\ KindsApart'
  BY <1>1, IdleIsCall, NamesKept DEF IInv, HostNamed, ServiceNamed, ReadBy
<1>7. HostsRecorded' /\ RecordedApart'
  BY <1>1 DEF IInv, HostsRecorded, RecordedApart
<1>8. StoppersAnswer'
  <2> SUFFICES ASSUME NEW r \in registry, life[r.service] \in {"stopping", "gone"}
               PROVE  r.host \in adrift' \union {None}
    BY <1>1 DEF StoppersAnswer
  <2>1. r.host \in adrift \union {None} \/ \E c \in Clients : r \in call[c].pending
    BY DEF IInv, StoppersAnswer
  <2>2. ASSUME NEW c \in Clients, r \in call[c].pending PROVE r.host \in InHand(c)
    BY <2>2 DEF InHand
  <2> QED BY <2>1, <2>2, <1>2, <1>3
<1>9. NothingLeftBehind'
  <2> SUFFICES ASSUME NEW p \in Procs \ adrift', life[p] = "running"
               PROVE  Recorded(p) \/ Widowed(p)
    BY <1>1 DEF NothingLeftBehind, Recorded, Widowed
  <2>1. ~Held(p)
    BY <1>2 DEF Held
  <2> QED BY <2>1, <1>3 DEF IInv, NothingLeftBehind
<1> QED BY <1>4, <1>5, <1>6, <1>7, <1>8, <1>9 DEF IInv

-----------------------------------------------------------------------------
(* Stops: their beginning and their end. *)

\* StopBegun by whoever gets the lock, of records that stay in the registry.
LEMMA StopBegins ==
  ASSUME IInv, NEW c \in Clients, call[c].at = "waiting", lock = None,
         NEW op \in {"stop", "stopAll", "restart"}, NEW targets, targets \subseteq registry',
         StopBegun(c, op, targets), UNCHANGED <<via, adrift>>,
         registry' = registry \/ registry' = Active(registry),
         op = "restart" => targets # {}
  PROVE  IInv'
<1>1. registry' \subseteq registry /\ targets \subseteq registry /\ registry \subseteq Record
  BY DEF Active, IInv, Types
<1> DEFINE plan == IF op = "restart"
         THEN LET r == CHOOSE r \in targets : TRUE
              IN [id |-> r.id, bind |-> r.bind, port |-> r.port, profile |-> r.profile,
                  pooled |-> r.pooled]
         ELSE None
           b == Idle
           k == [b EXCEPT !.at = "stopping", !.op = op, !.pending = targets, !.plan = plan]
<1>2. plan \in Plans \union {None} /\ (op = "restart" => plan \in Plans)
  <2>1. CASE op # "restart"
    BY <2>1
  <2>2. CASE op = "restart"
    <3> DEFINE r == CHOOSE r \in targets : TRUE
    <3>1. r \in Record
      BY <1>1, <2>2
    <3>2. plan = [id |-> r.id, bind |-> r.bind, port |-> r.port, profile |-> r.profile,
                  pooled |-> r.pooled]
      BY <2>2
    <3> HIDE DEF r, plan
    <3> QED BY <2>2, <3>1, <3>2, RecordTypes DEF Plans
  <2> QED BY <2>1, <2>2
<1>3. call' = [call EXCEPT ![c] = k] /\ lock' = c
  BY DEF StopBegun
<1>4. /\ b \in Calls /\ b.active = {} /\ b.host = None
      /\ b.mine = FALSE /\ b.child = None
  BY IdleIsCall
<1> HIDE DEF plan, b
<1>5. /\ k \in Calls /\ k.at = "stopping" /\ k.op = op /\ k.active = {}
      /\ k.pending = targets /\ k.host = None /\ k.mine = FALSE /\ k.child = None
      /\ k.plan = plan
  BY <1>1, <1>2, <1>4 DEF Calls, Stages, Ops, Locking
<1> HIDE DEF k
<1>6. Becomes(c, k)
  BY <1>3, <1>5, Moved DEF IInv
<1>7. Shaped(k)
  BY <1>2, <1>5 DEF Shaped, Starting, Placed
<1>8. Stops({r.service : r \in targets})
  BY TerminatedStops DEF IInv, StopBegun
<1>9. Withers
  BY <1>1, <1>8 DEF IInv, Types, Withers, Stops
<1>10. \A d \in Clients : d # c => Bystander(call[d])
  BY OthersAside DEF IInv
<1>11. call[c].pending = {} /\ InHand(c) = {None}
  BY EmptyHands DEF Placed
<1>12. Spares(c)
  <2>1. ASSUME NEW r \in registry', life'[r.service] \in {"stopping", "gone"},
               life[r.service] \notin {"stopping", "gone"}
        PROVE  r \in call'[c].pending
    <3>1. r.service \in Procs
      BY <1>1, RecordTypes
    <3>2. PICK t \in targets : r.service = t.service
      BY <2>1, <3>1, <1>8 DEF Stops
    <3>3. r = t
      BY <1>1, <3>2 DEF IInv, RecordedApart
    <3> QED BY <3>3, <1>5, <1>6 DEF Becomes
  <2> QED BY <2>1, <1>10, <1>11 DEF Spares, Bystander
<1>13. StopsUnderWay(c)'
  <2>1. ASSUME NEW r \in targets
        PROVE  /\ life'[r.service] \notin {"unborn", "running"}
               /\ \A s \in registry' : s.id = r.id => s = r
    <3>1. r.service \in Procs /\ life[r.service] # "unborn"
      BY <1>1, RecordTypes, NamedAreBorn
    <3>2. life'[r.service] \notin {"unborn", "running"}
      BY <3>1, <1>8 DEF Stops
    <3>3. \A s \in registry' : s.id = r.id => s = r
      BY <1>1 DEF IInv, RecordedApart
    <3> QED BY <3>2, <3>3
  <2> QED BY <2>1, <1>5, <1>6 DEF StopsUnderWay, Becomes
<1>14. CallSound(c)'
  <2>1. (lock' = c) = (call'[c].op \in Locking)
    BY <1>3, <1>5, <1>6 DEF Becomes, Locking
  <2> QED BY <1>5, <1>6, <1>7, <1>13, <2>1 DEF CallSound, Becomes, StartSees, PlanFits, ChildRuns, Placed
<1>15. NamesOld(c)
  BY <1>1, <1>5, <1>6 DEF NamesOld, Becomes, ReadBy, HostNamed
<1>16. LeavesLock(c)
  BY <1>3, NoneIsNoProcess DEF LeavesLock
<1>17. Accounts(c)
  <2> SUFFICES ASSUME NEW p \in Procs \ adrift, life'[p] = "running", Recorded(p)
               PROVE  Recorded(p)' \/ Widowed(p)'
    BY <1>11, NoneIsNoProcess DEF Accounts
  <2>1. PICK r \in registry : p \in {r.service, r.host}
    BY DEF Recorded
  <2>2. CASE r \in registry'
    BY <2>1, <2>2 DEF Recorded
  <2>3. CASE r \notin registry'
    <3>1. Held(p) \/ Widowed(p)
      BY <2>1, <2>3, <1>9, DeadAreAnswered DEF Withers
    <3>2. ~Held(p)
      BY <1>10, <1>11, NoneIsNoProcess DEF Held, InHand, OwnHost, Bystander
    <3> QED BY <3>1, <3>2, <1>9 DEF Widowed, Withers
  <2> QED BY <2>2, <2>3
<1> QED BY <1>5, <1>6, <1>9, <1>12, <1>14, <1>15, <1>16, <1>17, CallGoesOn

LEMMA StopLockedStep == ASSUME IInv, NEW c \in Clients, StopLocked(c) PROVE IInv'
<1> PICK r \in registry, op \in {"stop", "restart"} : StopBegun(c, op, {r})
  BY DEF StopLocked
<1> QED BY StopBegins DEF StopLocked, Acquire

LEMMA StopAllLockedStep == ASSUME IInv, NEW c \in Clients, StopAllLocked(c) PROVE IInv'
BY StopBegins DEF StopAllLocked, Acquire

LEMMA StoppedStep == ASSUME IInv, NEW c \in Clients, Stopped(c) PROVE IInv'
<1> DEFINE b == call[c]
<1>1. /\ lock = c /\ b \in Calls /\ Shaped(b) /\ CallSound(c) /\ b.at = "stopping"
      /\ \A d \in Clients : d # c => Bystander(call[d])
  BY StartsAlone DEF Stopped
<1>2. /\ b.child = None /\ b.host = None /\ b.mine = FALSE /\ b.active = {}
      /\ b.pending \subseteq Record /\ registry \subseteq Record
  BY <1>1 DEF Shaped, Placed, Calls, IInv, Types
<1>3. PICK r \in b.pending :
        LET rest == {s \in registry : s.id # r.id}
        IN /\ registry' = IF r.host = None THEN rest ELSE Active(rest)
           /\ life' = IF StillUsed(r.host, rest) THEN life ELSE Terminated({r.host})
           /\ call' = [call EXCEPT ![c].pending = @ \ {r}]
  BY DEF Stopped
<1> DEFINE rest == {s \in registry : s.id # r.id}
           k == [b EXCEPT !.pending = b.pending \ {r}]
<1>4. /\ registry' \in {rest, Active(rest)} /\ Active(rest) \subseteq registry'
      /\ registry' \subseteq rest /\ rest \subseteq registry
      /\ r.host = None => registry' = rest
  BY <1>3 DEF Active
<1>5. /\ StillUsed(r.host, rest) => life' = life
      /\ ~StillUsed(r.host, rest) => Stops({r.host})
  BY <1>3, TerminatedStops DEF IInv
<1>6. call' = [call EXCEPT ![c] = k]
  BY <1>3
<1>7. \A s \in registry : s.id = r.id => s = r
  BY <1>1 DEF CallSound, StopsUnderWay
<1>8. /\ r.service \in Procs /\ life[r.service] # "running"
      /\ r.host \in Procs \union {None}
  BY <1>1, <1>2, RecordTypes DEF CallSound, StopsUnderWay
<1>9. HostNamed(r.host)
  BY DEF HostNamed, ReadBy
<1>10. \A s \in rest : s.id # r.id
  OBVIOUS
<1> HIDE DEF b, rest
<1>11. /\ k \in Calls /\ k.at = "stopping" /\ k.op = b.op
       /\ k.active = b.active /\ k.pending = b.pending \ {r} /\ k.host = b.host
       /\ k.mine = b.mine /\ k.child = b.child /\ k.plan = b.plan
  BY <1>1 DEF Calls
<1> HIDE DEF k
<1>12. Becomes(c, k)
  BY <1>6, <1>11, Moved DEF IInv
<1>13. Shaped(k)
  BY <1>1, <1>2, <1>11 DEF Shaped, Starting, Placed
<1>14. \E ps \in {{}, {r.host}} : Stops(ps)
  BY <1>5, NothingStops DEF IInv
<1>15. Withers
  BY <1>4, <1>14 DEF IInv, Types, Withers, Stops, Stopped
<1>16. Spares(c)
  <2>1. ASSUME NEW s \in registry' PROVE life'[s.service] = life[s.service]
    <3>1. s.service \in Procs /\ ServiceNamed(s.service)
      BY <1>2, <1>4, RecordTypes DEF ServiceNamed
    <3>2. s.service # r.host
      BY <3>1, <1>9 DEF IInv, KindsApart
    <3> QED BY <3>1, <3>2, <1>14 DEF Stops
  <2>2. ASSUME NEW s \in registry', s \in b.pending PROVE s \in k.pending
    BY <2>2, <1>4, <1>10, <1>11
  <2> QED BY <2>1, <2>2, <1>1, <1>12 DEF Spares, Bystander, Becomes, b
<1>17. CallSound(c)'
  <2>1. (lock' = c) = (call'[c].op \in Locking)
    BY <1>1, <1>11, <1>12 DEF CallSound, Becomes, Stopped, b
  <2>2. StopsUnderWay(c)'
    <3>1. \A t \in b.pending : t.service \in Procs
      BY <1>2, RecordTypes
    <3> QED BY <3>1, <1>1, <1>4, <1>11, <1>12, <1>15
            DEF CallSound, StopsUnderWay, Becomes, Withers, b
  <2> QED BY <1>2, <1>11, <1>12, <1>13, <2>1, <2>2 DEF CallSound, Becomes, StartSees, PlanFits,
    ChildRuns, Placed
<1>18. NamesOld(c)
  BY <1>2, <1>11, <1>12 DEF NamesOld, Becomes, ReadBy, HostNamed, b
<1>19. LeavesLock(c)
  BY DEF LeavesLock, IInv, Types, Stopped
<1>20. Accounts(c)
  <2> SUFFICES ASSUME NEW p \in Procs \ adrift, life'[p] = "running",
                      Recorded(p) \/ p \in InHand(c)
               PROVE  Recorded(p)' \/ Held(p)' \/ Widowed(p)'
    BY DEF Accounts, Stopped
  <2>1. life[p] = "running"
    BY <1>15 DEF Withers
  <2>2. ASSUME p = r.host PROVE Recorded(p)'
    <3>1. StillUsed(r.host, rest)
      BY <2>1, <2>2, <1>5 DEF Stops
    <3>2. PICK u \in Active(rest) : u.host = p
      BY <2>2, <3>1 DEF StillUsed
    <3> QED BY <3>2, <1>4 DEF Recorded
  <2>3. ASSUME p \in InHand(c) PROVE Recorded(p)' \/ Held(p)'
    <3>1. PICK t \in b.pending : t.host = p
      BY <2>3, <1>2, NoneIsNoProcess DEF InHand, OwnHost, b
    <3>2. CASE t = r
      BY <2>2, <3>1, <3>2
    <3>3. CASE t # r
      <4>1. t \in call'[c].pending
        BY <3>3, <1>11, <1>12 DEF Becomes
      <4> QED BY <3>1, <4>1 DEF Held, InHand
    <3> QED BY <3>2, <3>3
  <2>4. ASSUME Recorded(p) PROVE Recorded(p)' \/ Held(p)' \/ Widowed(p)'
    <3>1. PICK s \in registry : p \in {s.service, s.host}
      BY <2>4 DEF Recorded
    <3>2. CASE s.id = r.id
      BY <2>1, <2>2, <3>1, <3>2, <1>7, <1>8
    <3>3. CASE s \in registry'
      BY <3>1, <3>3 DEF Recorded
    <3>4. CASE s.id # r.id /\ s \notin registry'
      <4>1. s \notin Active(registry)
        BY <3>4, <1>4 DEF Active, rest
      <4>2. Held(p) \/ Widowed(p)
        BY <2>1, <3>1, <4>1, DeadAreAnswered
      <4>3. CASE Widowed(p)
        BY <4>3, <1>15 DEF Widowed, Withers
      <4>4. CASE Held(p)
        <5>1. p \in InHand(c)
          BY <4>4, <1>1, NoneIsNoProcess DEF Held, InHand, OwnHost, Bystander
        <5> QED BY <5>1, <2>3
      <4> QED BY <4>2, <4>3, <4>4
    <3> QED BY <3>2, <3>3, <3>4
  <2> QED BY <2>3, <2>4
<1> QED BY <1>11, <1>12, <1>15, <1>16, <1>17, <1>18, <1>19, <1>20, CallGoesOn

-----------------------------------------------------------------------------
(* Starts: what is chosen, spawned and recorded. *)

LEMMA SpawnedIsUnborn ==
  ASSUME Unborn # {}
  PROVE  Spawned \in Procs /\ life[Spawned] = "unborn"
BY DEF Unborn, Spawned

\* The holder of the lock spawns q and has it in hand.
LEMMA CallSpawns ==
  ASSUME IInv, NEW c \in Clients, call[c].at \in Starting, NEW k \in Calls, Becomes(c, k),
         NEW q \in Procs, life[q] = "unborn", life' = [life EXCEPT ![q] = "running"],
         UNCHANGED <<registry, adrift, lock>>, via' \in [Procs -> Procs \union {None}],
         \A p \in Procs : p # q => via'[p] = via[p],
         k.host \in {None, q} \/ HostNamed(k.host),
         k.child \in {None, q} \/ ServiceNamed(k.child), k.host # q \/ k.child # q,
         \A r \in ReadBy(c)' : r.host # None => HostNamed(r.host),
         CallSound(c)', q \in InHand(c)',
         \A p \in Procs : p \in InHand(c) => p \in InHand(c)'
  PROVE  IInv'
<1>1. /\ lock = c /\ call[c].pending = {}
      /\ \A d \in Clients : d # c => Bystander(call[d])
  BY StartsAlone DEF Shaped, Starting, Placed
<1>2. ~HostNamed(q) /\ ~ServiceNamed(q)
  BY DEF IInv, NamesAreBorn
<1>3. \A p \in Procs : life'[p] = IF p = q THEN "running" ELSE life[p]
  BY DEF IInv, Types
<1>4. Types'
  BY <1>1 DEF IInv, Types, Becomes, Lives
<1>5. ASSUME NEW d \in Clients PROVE CallSound(d)'
  <2>1. CASE d = c
    BY <2>1
  <2>2. CASE d # c
    <3>1. Bystander(call[d]) /\ Shaped(call[d]) /\ call[d].op \in Ops /\ lock # d
      BY <1>1, <2>2, OthersAside DEF IInv
    <3>2. call'[d] = call[d] /\ lock' # d
      BY <2>2, <3>1 DEF Becomes
    <3> QED BY <3>1, <3>2, BystandersKept
  <2> QED BY <2>1, <2>2
<1>6. ASSUME NEW p \in Procs, HostNamed(p)' PROVE HostNamed(p) \/ (p = q /\ k.host = q)
  <2>1. CASE \E r \in registry' : r.host = p
    BY <2>1 DEF HostNamed
  <2>2. CASE \E d \in Clients : call'[d].host = p
    BY <2>2, NoneIsNoProcess DEF HostNamed, Becomes
  <2>3. CASE \E d \in Clients : \E r \in ReadBy(d)' : r.host = p
    <3> PICK d \in Clients : \E r \in ReadBy(d)' : r.host = p
      BY <2>3
    <3>1. CASE d = c
      BY <3>1, NoneIsNoProcess
    <3>2. CASE d # c
      BY <3>2 DEF Becomes, ReadBy, HostNamed
    <3> QED BY <3>1, <3>2
  <2> QED BY <1>6, <2>1, <2>2, <2>3 DEF HostNamed
<1>7. ASSUME NEW p \in Procs, ServiceNamed(p)' PROVE ServiceNamed(p) \/ (p = q /\ k.child = q)
  <2>1. CASE \E r \in registry' : r.service = p
    BY <2>1 DEF ServiceNamed
  <2>2. CASE \E d \in Clients : call'[d].child = p
    BY <2>2, NoneIsNoProcess DEF ServiceNamed, Becomes
  <2> QED BY <1>7, <2>1, <2>2 DEF ServiceNamed
<1>8. NamesAreBorn'
  BY <1>3, <1>6, <1>7 DEF IInv, NamesAreBorn
<1>9. KindsApart'
  BY <1>2, <1>6, <1>7 DEF IInv, KindsApart
<1>10. \A r \in registry : r.service \in Procs /\ r.service # q
  BY NamedAreBorn, RecordTypes
<1>11. HostsRecorded'
  BY <1>10 DEF IInv, HostsRecorded
<1>12. RecordedApart'
  BY DEF IInv, RecordedApart
<1>13. StoppersAnswer'
  <2> SUFFICES ASSUME NEW r \in registry, life'[r.service] \in {"stopping", "gone"}
               PROVE  \/ r.host \in adrift \union {None}
                      \/ \E d \in Clients : r \in call'[d].pending
    BY DEF StoppersAnswer
  <2>1. life[r.service] \in {"stopping", "gone"}
    BY <1>3, <1>10
  <2>2. r.host \in adrift \union {None} \/ \E d \in Clients : d # c /\ r \in call[d].pending
    BY <2>1, <1>1 DEF IInv, StoppersAnswer
  <2> QED BY <2>2 DEF Becomes
<1>14. NothingLeftBehind'
  <2> SUFFICES ASSUME NEW p \in Procs \ adrift, life'[p] = "running"
               PROVE  Recorded(p)' \/ Held(p)' \/ Widowed(p)'
    BY DEF NothingLeftBehind
  <2>1. CASE p = q
    BY <2>1 DEF Held
  <2>2. CASE p # q
    <3>1. Recorded(p) \/ Held(p) \/ Widowed(p)
      BY <2>2, <1>3 DEF IInv, NothingLeftBehind
    <3>2. CASE Recorded(p)
      BY <3>2 DEF Recorded
    <3>3. CASE Held(p)
      <4>1. PICK d \in Clients : p \in InHand(d)
        BY <3>3 DEF Held
      <4>2. d # c => p \in InHand(d)'
        BY <4>1 DEF InHand, OwnHost, Becomes
      <4> QED BY <4>1, <4>2 DEF Held
    <3>4. CASE Widowed(p)
      <4>1. PICK s \in Procs : via[s] = p /\ life[s] = "crashed"
        BY <3>4 DEF Widowed
      <4>2. s # q
        BY <4>1
      <4>3. via'[s] = p /\ life'[s] = "crashed"
        BY <4>1, <4>2, <1>3
      <4> QED BY <4>3 DEF Widowed
    <3> QED BY <3>1, <3>2, <3>3, <3>4
  <2> QED BY <2>1, <2>2
<1> QED BY <1>4, <1>5, <1>8, <1>9, <1>11, <1>12, <1>13, <1>14 DEF IInv

LEMMA SpawnServiceStep == ASSUME IInv, NEW c \in Clients, SpawnService(c) PROVE IInv'
<1> DEFINE b == call[c]
           q == Spawned
           k == [b EXCEPT !.at = "ready", !.child = q]
<1>1. /\ lock = c /\ b \in Calls /\ Shaped(b) /\ CallSound(c) /\ b.at = "spawn"
  BY StartsAlone DEF SpawnService, Starting, Placed
<1>2. /\ b.pending = {} /\ b.child = None /\ b.active = {}
      /\ b.host \in Procs \union {None} /\ b.op \in Ops
  BY <1>1 DEF Shaped, Calls
<1>3. q \in Procs /\ life[q] = "unborn"
  BY SpawnedIsUnborn DEF SpawnService
<1>4. /\ call' = [call EXCEPT ![c] = k] /\ life' = [life EXCEPT ![q] = "running"]
      /\ via' = [via EXCEPT ![q] = b.host]
  BY DEF SpawnService
<1>5. b.host = None \/ HostNamed(b.host)
  BY DEF HostNamed
<1>6. /\ via' \in [Procs -> Procs \union {None}] /\ via'[q] = b.host
      /\ life'[q] = "running"
      /\ \A p \in Procs : p # q => via'[p] = via[p]
  BY <1>2, <1>3, <1>4 DEF IInv, Types
<1>7. ~HostNamed(q) /\ ~ServiceNamed(q)
  BY <1>3 DEF IInv, NamesAreBorn
<1> HIDE DEF b, q
<1>8. /\ k \in Calls /\ k.at = "ready" /\ k.op = b.op
      /\ k.active = {} /\ k.pending = {} /\ k.host = b.host
      /\ k.mine = b.mine /\ k.child = q /\ k.plan = b.plan
  BY <1>1, <1>2, <1>3 DEF Calls, Stages
<1> HIDE DEF k
<1>9. Becomes(c, k)
  BY <1>4, <1>8, Moved DEF IInv
<1>10. Shaped(k)
  BY <1>1, <1>2, <1>3, <1>8, NoneIsNoProcess DEF Shaped, Starting, Placed
<1>11. CallSound(c)'
  <2>1. (lock' = c) = (call'[c].op \in Locking)
    BY <1>1, <1>8, <1>9 DEF CallSound, Becomes, SpawnService, b
  <2>2. PlanFits(c)'
    <3>1. \A r \in registry : Fits(b, r)
      BY <1>1 DEF CallSound, PlanFits, Placed, b
    <3>2. \A r \in registry : r.service # q
      BY <1>7 DEF ServiceNamed
    <3>3. ASSUME NEW r \in registry PROVE Fits(k, r)
      BY <1>8, <3>1, <3>2 DEF Fits
    <3> QED BY <1>9, <3>3 DEF PlanFits, Becomes, SpawnService
  <2>3. ChildRuns(c)'
    BY <1>6, <1>8, <1>9 DEF ChildRuns, Becomes
  <2> QED BY <1>8, <1>9, <1>10, <2>1, <2>2, <2>3 DEF CallSound, Becomes, StartSees,
    StopsUnderWay
<1>12. /\ ReadBy(c)' = {} /\ q \in InHand(c)'
       /\ \A p \in Procs : p \in InHand(c) => p \in InHand(c)'
  BY <1>2, <1>8, <1>9, NoneIsNoProcess DEF ReadBy, Becomes, InHand, OwnHost, b
<1>13. k.host # q \/ k.child # q
  BY <1>3, <1>5, <1>7, <1>8, NoneIsNoProcess
<1>14. call[c].at \in Starting
  BY DEF SpawnService, Starting, Placed
<1>15. /\ k.host \in {None, q} \/ HostNamed(k.host)
       /\ k.child \in {None, q} \/ ServiceNamed(k.child)
       /\ \A r \in ReadBy(c)' : r.host # None => HostNamed(r.host)
  BY <1>5, <1>8, <1>12
<1>16. k \in Calls /\ UNCHANGED <<registry, adrift, lock>>
  BY <1>8 DEF SpawnService
<1> HIDE DEF HostNamed
<1> QED BY <1>3, <1>4, <1>6, <1>9, <1>11, <1>12, <1>13, <1>14, <1>15, <1>16, CallSpawns

\* The hosts of the profile's owners.
SharedHosts(c) == {r.host : r \in Owners(c)} \ {None}

\* What a start may choose collides with no record.
LEMMA ChoicesFit ==
  ASSUME IInv, NEW c \in Clients, call[c].at = "port",
         NEW id \in FreeIds(c), NEW port \in FreePorts(c)
  PROVE  /\ \A r \in registry : r.id # id /\ (r.bind = call[c].plan.bind => r.port # port)
         /\ SharedHosts(c) = {} => \A r \in registry : r.profile # call[c].plan.profile
         /\ \A h \in SharedHosts(c) :
                              /\ h \in Procs /\ HostNamed(h)
                              /\ \A r \in registry : (r.profile = call[c].plan.profile) = (r.host = h)
<1>1. StartSees(c) /\ call[c] \in Calls
  BY DEF IInv, CallSound, Types
<1>2. /\ registry \subseteq call[c].active /\ Apart(call[c].active)
      /\ \A r \in call[c].active : r.profile = call[c].plan.profile => r.host # None
      /\ call[c].active \subseteq Record
  BY <1>1 DEF StartSees, Calls
<1>3. \A r \in registry : r.id # id /\ (r.bind = call[c].plan.bind => r.port # port)
  BY <1>2 DEF FreeIds, FreePorts, Choices
<1>4. SharedHosts(c) = {} => \A r \in registry : r.profile # call[c].plan.profile
  BY <1>2 DEF Owners, SharedHosts
<1>5. ASSUME NEW h \in SharedHosts(c)
      PROVE  /\ h \in Procs /\ HostNamed(h)
             /\ \A r \in registry : (r.profile = call[c].plan.profile) = (r.host = h)
  <2>1. PICK o \in call[c].active : o.profile = call[c].plan.profile /\ o.host = h /\ h # None
    BY DEF Owners, SharedHosts
  <2>2. h \in Procs /\ HostNamed(h)
    BY <1>2, <2>1, RecordTypes DEF HostNamed, ReadBy
  <2>3. ASSUME NEW r \in registry
        PROVE  (r.profile = call[c].plan.profile) = (r.host = h)
    <3>1. r = o \/ Distinct(r, o)
      BY <1>2 DEF Apart
    <3> QED BY <2>1, <3>1 DEF Distinct
  <2> QED BY <2>2, <2>3
<1> QED BY <1>3, <1>4, <1>5

LEMMA AllocateStep == ASSUME IInv, NEW c \in Clients, Allocate(c) PROVE IInv'
<1> DEFINE b == call[c]
           shared == SharedHosts(c)
<1>1. PICK id \in FreeIds(c), port \in FreePorts(c) :
       LET chosen == [call[c] EXCEPT !.plan = [@ EXCEPT !.id = id, !.port = port], !.active = {}]
       IN IF shared = {} /\ call[c].plan.pooled
          THEN /\ Unborn # {}
               /\ life' = [life EXCEPT ![Spawned] = "running"]
               /\ call' = [call EXCEPT ![c] =
                    [chosen EXCEPT !.at = "host", !.host = Spawned, !.mine = TRUE]]
          ELSE /\ \/ shared = {} /\ call' = [call EXCEPT ![c] = [chosen EXCEPT !.at = "spawn"]]
                  \/ \E h \in shared :
                       call' = [call EXCEPT ![c] = [chosen EXCEPT !.at = "attach", !.host = h]]
               /\ UNCHANGED life
  BY DEF Allocate, SharedHosts
<1>2. /\ lock = c /\ b \in Calls /\ Shaped(b) /\ CallSound(c) /\ b.at = "port"
  BY StartsAlone DEF Allocate, Starting
<1>3. /\ b.pending = {} /\ b.child = None /\ b.host = None /\ b.mine = FALSE
      /\ b.op \in {"start", "restart"} /\ b.plan \in Plans
  BY <1>2 DEF Shaped, Calls, Starting, Placed
<1>4. id \in Ids /\ port \in Ports
  BY <1>3 DEF FreeIds, FreePorts, Choices, Plans
<1>5. /\ \A r \in registry : r.id # id /\ (r.bind = b.plan.bind => r.port # port)
      /\ shared = {} => \A r \in registry : r.profile # b.plan.profile
      /\ \A h \in shared : /\ h \in Procs /\ HostNamed(h)
                           /\ \A r \in registry : (r.profile = b.plan.profile) = (r.host = h)
  BY <1>2, ChoicesFit
<1> DEFINE plan == [b.plan EXCEPT !.id = id, !.port = port]
           m == [b EXCEPT !.plan = plan, !.active = {}]
<1>6. plan \in Plans /\ plan.id = id /\ plan.port = port
      /\ plan.profile = b.plan.profile /\ plan.bind = b.plan.bind
  BY <1>3, <1>4 DEF Plans
<1>7. \/ /\ shared = {} /\ Unborn # {} /\ life' = [life EXCEPT ![Spawned] = "running"]
         /\ call' = [call EXCEPT ![c] = [m EXCEPT !.at = "host", !.host = Spawned, !.mine = TRUE]]
      \/ /\ shared = {} /\ call' = [call EXCEPT ![c] = [m EXCEPT !.at = "spawn"]]
         /\ UNCHANGED life
      \/ \E h \in shared : /\ call' = [call EXCEPT ![c] = [m EXCEPT !.at = "attach", !.host = h]]
                           /\ UNCHANGED life
  BY <1>1
<1> HIDE DEF b, shared, plan
<1>8. /\ m \in Calls /\ m.op = b.op /\ m.active = {} /\ m.pending = {}
      /\ m.host = None /\ m.mine = FALSE /\ m.child = None /\ m.plan = plan
  BY <1>2, <1>3, <1>6 DEF Calls
<1> HIDE DEF m
\* What holds of the call however it goes on.
<1>9. ASSUME NEW k \in Calls, Becomes(c, k), k.op = m.op, k.active = {},
              k.pending = {}, k.child = None, k.plan = plan, Shaped(k),
              k.at \in {"host", "spawn", "attach"}, UNCHANGED <<registry, lock>>,
              \A r \in registry : (r.profile = plan.profile) => r.host = k.host /\ r.host # None,
              \A r \in registry : r.host = k.host /\ r.host # None => r.profile = plan.profile,
              k.mine => \A r \in registry : r.host # k.host
       PROVE  CallSound(c)'
  <2>1. (lock' = c) = (call'[c].op \in Locking)
    BY <1>2, <1>8, <1>9 DEF CallSound, Becomes, b
  <2>2. ASSUME NEW r \in registry PROVE Fits(k, r)
    <3>1. r.service \in Procs
      BY RecordTypes DEF IInv, Types
    <3> QED BY <1>5, <1>6, <1>9, <3>1, NoneIsNoProcess DEF Fits
  <2>3. PlanFits(c)'
    BY <1>9, <2>2 DEF PlanFits, Becomes
  <2> QED BY <1>9, <2>1, <2>3 DEF CallSound, Becomes, StartSees, ChildRuns,
    StopsUnderWay
<1>10. InHand(c) = {None} /\ call[c].pending = {}
  BY <1>3 DEF InHand, OwnHost, b
<1>11. LeavesLock(c) /\ UNCHANGED <<lock, via, registry, adrift>>
  BY DEF LeavesLock, IInv, Types, Allocate
<1>12. CASE /\ shared = {} /\ Unborn # {} /\ life' = [life EXCEPT ![Spawned] = "running"]
            /\ call' = [call EXCEPT ![c] = [m EXCEPT !.at = "host", !.host = Spawned, !.mine = TRUE]]
  <2> DEFINE q == Spawned
             k == [m EXCEPT !.at = "host", !.host = q, !.mine = TRUE]
  <2>1. q \in Procs /\ life[q] = "unborn" /\ life' = [life EXCEPT ![q] = "running"]
    BY <1>12, SpawnedIsUnborn
  <2>2. call' = [call EXCEPT ![c] = k]
    BY <1>12
  <2> HIDE DEF q
  <2>3. /\ k \in Calls /\ k.at = "host" /\ k.op = m.op
        /\ k.active = {} /\ k.pending = {} /\ k.host = q
        /\ k.mine = TRUE /\ k.child = None /\ k.plan = plan
    BY <1>8, <2>1 DEF Calls, Stages
  <2> HIDE DEF k
  <2>4. Becomes(c, k)
    BY <2>2, <2>3, Moved DEF IInv
  <2>5. Shaped(k)
    BY <1>3, <1>4, <1>6, <1>8, <2>1, <2>3, NoneIsNoProcess DEF Shaped, Starting, Placed
  <2>6. \A r \in registry : r.host # q
    BY <2>1 DEF IInv, NamesAreBorn, HostNamed
  <2>7. CallSound(c)'
    BY <1>5, <1>6, <1>9, <1>11, <1>12, <2>3, <2>4, <2>5, <2>6
  <2>8. q \in InHand(c)' /\ ReadBy(c)' = {}
    BY <2>3, <2>4 DEF InHand, OwnHost, Becomes, ReadBy
  <2>9. \A p \in Procs : p \in InHand(c) => p \in InHand(c)'
    BY <1>10, NoneIsNoProcess
  <2>10. /\ call[c].at \in Starting /\ via' \in [Procs -> Procs \union {None}]
         /\ \A p \in Procs : p # q => via'[p] = via[p]
    BY <1>2, <1>11 DEF Starting, b, IInv, Types
  <2>11. k.host \in {None, q} /\ k.child \in {None, q} /\ k.child # q
    BY <2>1, <2>3, NoneIsNoProcess
  <2>12. \A r \in ReadBy(c)' : r.host # None => HostNamed(r.host)
    BY <2>8
  <2> QED BY <1>11, <2>1, <2>3, <2>4, <2>7, <2>8, <2>9, <2>10, <2>11, <2>12, CallSpawns
<1>13. CASE /\ shared = {} /\ call' = [call EXCEPT ![c] = [m EXCEPT !.at = "spawn"]]
            /\ UNCHANGED life
  <2> DEFINE k == [m EXCEPT !.at = "spawn"]
  <2>1. call' = [call EXCEPT ![c] = k]
    BY <1>13
  <2>2. /\ k \in Calls /\ k.at = "spawn" /\ k.op = m.op
        /\ k.active = {} /\ k.pending = {} /\ k.host = None
        /\ k.mine = FALSE /\ k.child = None /\ k.plan = plan
    BY <1>8 DEF Calls, Stages
  <2> HIDE DEF k
  <2>3. Becomes(c, k)
    BY <2>1, <2>2, Moved DEF IInv
  <2>4. Shaped(k)
    BY <1>3, <1>4, <1>6, <1>8, <2>2 DEF Shaped, Starting, Placed
  <2>5. CallSound(c)'
    BY <1>5, <1>6, <1>9, <1>11, <1>13, <2>2, <2>3, <2>4
  <2>6. NamesOld(c)
    BY <2>2, <2>3 DEF NamesOld, Becomes, ReadBy
  <2> QED BY <1>10, <1>11, <1>13, <2>2, <2>3, <2>5, <2>6, CallRests, NoneIsNoProcess
<1>14. ASSUME NEW h \in shared, UNCHANGED life,
              call' = [call EXCEPT ![c] = [m EXCEPT !.at = "attach", !.host = h]]
       PROVE  IInv'
  <2> DEFINE k == [m EXCEPT !.at = "attach", !.host = h]
  <2>1. call' = [call EXCEPT ![c] = k]
    BY <1>14
  <2>2. h \in Procs /\ HostNamed(h) /\ h # None
    BY <1>5, NoneIsNoProcess
  <2>3. /\ k \in Calls /\ k.at = "attach" /\ k.op = m.op
        /\ k.active = {} /\ k.pending = {} /\ k.host = h
        /\ k.mine = FALSE /\ k.child = None /\ k.plan = plan
    BY <1>8, <2>2 DEF Calls, Stages
  <2> HIDE DEF k
  <2>4. Becomes(c, k)
    BY <2>1, <2>3, Moved DEF IInv
  <2>5. Shaped(k)
    BY <1>3, <1>4, <1>6, <1>8, <2>2, <2>3 DEF Shaped, Starting, Placed
  <2>6. \A r \in registry : (r.profile = plan.profile) = (r.host = h)
    BY <1>5, <1>6
  <2>7. CallSound(c)'
    BY <1>9, <1>11, <2>2, <2>3, <2>4, <2>5, <2>6
  <2>8. NamesOld(c)
    BY <2>2, <2>3, <2>4 DEF NamesOld, Becomes, ReadBy
  <2> QED BY <1>10, <1>11, <1>14, <2>3, <2>4, <2>7, <2>8, CallRests, NoneIsNoProcess
<1> QED BY <1>7, <1>12, <1>13, <1>14

LEMMA PutRecordStep == ASSUME IInv, NEW c \in Clients, PutRecord(c) PROVE IInv'
<1> DEFINE b == call[c]
           new == [id |-> b.plan.id, bind |-> b.plan.bind, port |-> b.plan.port,
                   profile |-> b.plan.profile, pooled |-> b.plan.pooled, service |-> b.child, host |-> b.host]
<1>1. /\ lock = c /\ b \in Calls /\ Shaped(b) /\ CallSound(c) /\ b.at = "record"
      /\ \A d \in Clients : d # c => Bystander(call[d]) /\ call[d].child = None
  BY StartsAlone DEF PutRecord, Starting, Placed
<1>2. /\ b.child \in Procs /\ b.host \in Procs \union {None} /\ b.plan \in Plans
      /\ b.plan.id \in Ids /\ b.plan.port \in Ports /\ b.pending = {}
      /\ (b.mine => b.host # None)
  BY <1>1 DEF Shaped, Calls, Starting, Placed
<1>3. registry \subseteq Record /\ \A r \in registry : Fits(b, r) /\ via[r.service] = r.host
  <2>1. \A r \in registry : Fits(b, r)
    BY <1>1 DEF CallSound, PlanFits, Placed
  <2> QED BY <2>1 DEF IInv, Types, HostsRecorded
<1>4. {r \in registry : r.id # b.plan.id} = registry
  BY <1>3 DEF Fits
<1>5. registry' = registry \union {new}
  BY <1>4 DEF PutRecord
<1>6. /\ Becomes(c, Idle) /\ LeavesLock(c) /\ CallSound(c)'
      /\ UNCHANGED <<life, via, adrift>> /\ InHand(c)' = {None} /\ lock' # c
  BY Returned DEF IInv, PutRecord
<1>7. life[b.child] \in {"running", "crashed"} /\ via[b.child] = b.host
  BY <1>1, <1>2, NoneIsNoProcess DEF CallSound, ChildRuns
<1>8. InHand(c) \subseteq {b.child, b.host, None}
  BY <1>2 DEF InHand, OwnHost
<1>9. ServiceNamed(b.child) /\ HostNamed(b.host)
  BY DEF ServiceNamed, HostNamed
<1> HIDE DEF b
<1>10. /\ new \in Record /\ new.id = b.plan.id /\ new.port = b.plan.port
       /\ new.bind = b.plan.bind
       /\ new.profile = b.plan.profile /\ new.service = b.child /\ new.host = b.host
  BY <1>2 DEF Record, Plans
<1> HIDE DEF new
<1>11. Types'
  BY <1>3, <1>5, <1>6, <1>10, IdleIsCall DEF IInv, Types, Becomes, LeavesLock
<1>12. ASSUME NEW d \in Clients PROVE CallSound(d)'
  <2>1. CASE d = c
    BY <1>6, <2>1
  <2>2. CASE d # c
    <3>1. Bystander(call[d]) /\ Shaped(call[d]) /\ call[d].op \in Ops /\ lock # d
      BY <1>1, <2>2, OthersAside DEF IInv
    <3>2. call'[d] = call[d] /\ lock' # d
      BY <1>6, <2>2, <3>1 DEF Becomes, LeavesLock
    <3> QED BY <3>1, <3>2, BystandersKept
  <2> QED BY <2>1, <2>2
<1>13. ASSUME NEW p \in Procs, HostNamed(p)' PROVE HostNamed(p)
  <2>1. CASE \E r \in registry' : r.host = p
    BY <2>1, <1>5, <1>9, <1>10 DEF HostNamed
  <2>2. CASE \E d \in Clients : call'[d].host = p
    BY <2>2, <1>6, IdleIsCall, NoneIsNoProcess DEF HostNamed, Becomes
  <2>3. CASE \E d \in Clients : \E r \in ReadBy(d)' : r.host = p
    <3> PICK d \in Clients : \E r \in ReadBy(d)' : r.host = p
      BY <2>3
    <3>1. d # c
      BY <1>6, IdleIsCall DEF ReadBy, Becomes
    <3> QED BY <1>6, <3>1 DEF Becomes, ReadBy, HostNamed
  <2> QED BY <1>13, <2>1, <2>2, <2>3 DEF HostNamed
<1>14. ASSUME NEW p \in Procs, ServiceNamed(p)' PROVE ServiceNamed(p)
  <2>1. CASE \E r \in registry' : r.service = p
    BY <2>1, <1>5, <1>9, <1>10 DEF ServiceNamed
  <2>2. CASE \E d \in Clients : call'[d].child = p
    BY <2>2, <1>6, IdleIsCall, NoneIsNoProcess DEF ServiceNamed, Becomes
  <2> QED BY <1>14, <2>1, <2>2 DEF ServiceNamed
<1>15. NamesAreBorn' /\ KindsApart'
  BY <1>6, <1>13, <1>14, NamesKept DEF IInv
<1>16. HostsRecorded'
  BY <1>3, <1>5, <1>6, <1>7, <1>10 DEF HostsRecorded
<1>17. RecordedApart'
  <2> SUFFICES ASSUME NEW r \in registry', NEW s \in registry', r # s
               PROVE  Distinct(r, s)
    BY DEF RecordedApart, Distinct
  <2>1. CASE r \in registry /\ s \in registry
    BY <2>1 DEF IInv, RecordedApart, Distinct
  <2>2. CASE r \in registry /\ s = new
    <3>1. Fits(b, r)
      BY <2>2, <1>3
    <3> QED BY <2>2, <3>1, <1>10 DEF Fits, Distinct
  <2>3. CASE s \in registry /\ r = new
    <3>1. Fits(b, s)
      BY <2>3, <1>3
    <3> QED BY <2>3, <3>1, <1>10 DEF Fits, Distinct
  <2> QED BY <2>1, <2>2, <2>3, <1>5
<1>18. StoppersAnswer'
  <2> SUFFICES ASSUME NEW r \in registry', life[r.service] \in {"stopping", "gone"}
               PROVE  \/ r.host \in adrift \union {None}
                      \/ \E d \in Clients : r \in call'[d].pending
    BY <1>6 DEF StoppersAnswer
  <2>1. r \in registry
    BY <1>5, <1>7, <1>10
  <2>2. r.host \in adrift \union {None} \/ \E d \in Clients : d # c /\ r \in call[d].pending
    BY <2>1, <1>2 DEF IInv, StoppersAnswer, b
  <2> QED BY <2>2, <1>6 DEF Becomes
<1>19. NothingLeftBehind'
  <2> SUFFICES ASSUME NEW p \in Procs \ adrift, life[p] = "running"
               PROVE  Recorded(p)' \/ Held(p)' \/ Widowed(p)'
    BY <1>6 DEF NothingLeftBehind
  <2>1. Recorded(p) \/ Held(p) \/ Widowed(p)
    BY DEF IInv, NothingLeftBehind
  <2>2. CASE Recorded(p)
    BY <2>2, <1>5 DEF Recorded
  <2>3. CASE Widowed(p)
    BY <2>3, <1>6 DEF Widowed
  <2>4. CASE Held(p)
    <3>1. PICK d \in Clients : p \in InHand(d)
      BY <2>4 DEF Held
    <3>2. CASE d = c
      BY <3>1, <3>2, <1>5, <1>8, <1>10, NoneIsNoProcess DEF Recorded
    <3>3. CASE d # c
      <4>1. p \in InHand(d)'
        BY <3>1, <3>3, <1>6 DEF InHand, OwnHost, Becomes
      <4> QED BY <4>1 DEF Held
    <3> QED BY <3>2, <3>3
  <2> QED BY <2>1, <2>2, <2>3, <2>4
<1> QED BY <1>11, <1>12, <1>15, <1>16, <1>17, <1>18, <1>19 DEF IInv

-----------------------------------------------------------------------------
(* Processes that exit or crash. *)

LEMMA ProcessEnds ==
  ASSUME IInv, NEW p \in Procs, UNCHANGED <<call, lock, via, registry, adrift>>,
         NEW end \in {"gone", "crashed"}, life' = [life EXCEPT ![p] = end],
         life[p] = IF end = "gone" THEN "stopping" ELSE "running"
  PROVE  IInv'
<1>1. \A q \in Procs : life'[q] = IF q = p THEN end ELSE life[q]
  BY DEF IInv, Types
<1>2. Types'
  BY DEF IInv, Types, Lives
<1>3. ASSUME NEW d \in Clients PROVE CallSound(d)'
  <2>1. CallSound(d) /\ call[d].child \in Procs \union {None} /\ call[d].pending \subseteq Record
    BY DEF IInv, Types, Calls
  <2>2. ChildRuns(d)'
    BY <1>1, <2>1 DEF CallSound, ChildRuns
  <2>3. StopsUnderWay(d)'
    BY <1>1, <2>1, RecordTypes DEF CallSound, StopsUnderWay
  <2> QED BY <2>1, <2>2, <2>3 DEF CallSound, StartSees, PlanFits
<1>4. NamesAreBorn' /\ KindsApart'
  BY <1>1, NamesKept DEF IInv, HostNamed, ServiceNamed, ReadBy
<1>5. HostsRecorded' /\ RecordedApart'
  BY DEF IInv, HostsRecorded, RecordedApart
<1>6. StoppersAnswer'
  <2>1. \A r \in registry : r.service \in Procs
    BY RecordTypes DEF IInv, Types
  <2> QED BY <1>1, <2>1 DEF IInv, StoppersAnswer
<1>7. NothingLeftBehind'
  <2> SUFFICES ASSUME NEW q \in Procs \ adrift, life'[q] = "running"
               PROVE  Recorded(q)' \/ Held(q)' \/ Widowed(q)'
    BY DEF NothingLeftBehind
  <2>1. Recorded(q) \/ Held(q) \/ Widowed(q)
    BY <1>1 DEF IInv, NothingLeftBehind
  <2>2. Recorded(q)' = Recorded(q) /\ Held(q)' = Held(q)
    BY DEF Recorded, Held, InHand, OwnHost
  <2>3. Widowed(q) => Widowed(q)'
    BY <1>1 DEF Widowed
  <2> QED BY <2>1, <2>2, <2>3
<1> QED BY <1>2, <1>3, <1>4, <1>5, <1>6, <1>7 DEF IInv

LEMMA ExitStep == ASSUME IInv, NEW p \in Procs, Exit(p) PROVE IInv'
BY ProcessEnds DEF Exit

LEMMA CrashStep == ASSUME IInv, NEW p \in Procs, Crash(p) PROVE IInv'
BY ProcessEnds DEF Crash

-----------------------------------------------------------------------------
(* The invariant, and what follows from it. *)

LEMMA InitHolds == Init => IInv
<1> SUFFICES ASSUME Init PROVE IInv
  OBVIOUS
<1>1. \A c \in Clients : call[c] = Idle
  BY DEF Init
<1>2. Types
  BY <1>1, IdleIsCall DEF Init, Types, Lives
<1>3. ASSUME NEW c \in Clients PROVE CallSound(c)
  <2>1. lock # c /\ Shaped(call[c])
    BY <1>1, NoneIsNoProcess DEF Init, Shaped, Idle, Starting, Placed
  <2> QED BY <1>1, <2>1, IdleIsCall DEF CallSound, StartSees, PlanFits, ChildRuns,
        StopsUnderWay, Placed, Locking
<1>4. NamesAreBorn /\ KindsApart
  BY <1>1, IdleIsCall, NoneIsNoProcess DEF NamesAreBorn, KindsApart, HostNamed, ServiceNamed,
    ReadBy, Init
<1>5. HostsRecorded /\ StoppersAnswer /\ RecordedApart /\ NothingLeftBehind
  BY DEF Init, HostsRecorded, StoppersAnswer, RecordedApart, NothingLeftBehind
<1> QED BY <1>2, <1>3, <1>4, <1>5 DEF IInv

LEMMA Unmoved == IInv /\ UNCHANGED vars => IInv'
<1> SUFFICES ASSUME IInv, UNCHANGED vars PROVE IInv'
  OBVIOUS
<1> USE DEF vars
<1>1. Types' /\ HostsRecorded' /\ StoppersAnswer' /\ RecordedApart'
  BY DEF IInv, Types, HostsRecorded, StoppersAnswer, RecordedApart
<1>2. NamesAreBorn' /\ KindsApart'
  BY DEF IInv, NamesAreBorn, KindsApart, HostNamed, ServiceNamed, ReadBy
<1>3. \A c \in Clients : CallSound(c)'
  BY DEF IInv, CallSound, StartSees, PlanFits, ChildRuns, StopsUnderWay
<1>4. NothingLeftBehind'
  BY DEF IInv, NothingLeftBehind, Recorded, Held, Widowed, InHand, OwnHost
<1> QED BY <1>1, <1>2, <1>3, <1>4 DEF IInv

LEMMA StepKeeps == IInv /\ [Next]_vars => IInv'
<1> SUFFICES ASSUME IInv, [Next]_vars PROVE IInv'
  OBVIOUS
<1>1. ASSUME NEW c \in Clients, Work(c) PROVE IInv'
  BY <1>1, LockTimeoutStep, StartLockedStep, StopLockedStep, StopUnknownStep, StopAllLockedStep,
    ReapHostsStep, SweepStep, FindOwnerStep, AllocateStep, AllocateFailsStep,
    AttachStep, HostReadyStep, HostFailsStep, SpawnServiceStep, SpawnFailsStep,
    ServiceReadyStep, RollbackStep, PutRecordStep, StoppedStep, AllStoppedStep DEF Work
<1>2. ASSUME NEW c \in Clients, Invoke(c) PROVE IInv'
  BY <1>2, InvokeStep
<1>3. ASSUME NEW p \in Procs, Exit(p) \/ Crash(p) PROVE IInv'
  BY <1>3, ExitStep, CrashStep
<1> QED BY <1>1, <1>2, <1>3, ControlDiesStep, Unmoved DEF Next

THEOREM Inductive == Spec => []IInv
BY InitHolds, StepKeeps, PTL DEF Spec

\* The variables of the manager and the registry keep their types, and only the
\* holder of the lifecycle lock is inside a start or a stop.
THEOREM Typing == Spec => []TypeOK
<1>1. IInv => TypeOK
  BY DEF IInv, Types, TypeOK, CallSound, Calls, Lives, Ops
<1> QED BY <1>1, Inductive, PTL

\* Records never share an id, a port or a service, and share a browser host
\* exactly within a profile, though list() drops records and hosts die while a
\* start is between what it read and what it writes (startUnlocked).
THEOREM RecordsStayApart == Spec => []RecordedApart
BY Inductive, PTL DEF IInv

\* A failing start and a stop leave no process running that no record and no call
\* answers for (startUnlocked's catch blocks, stopUnlocked, stopAll).
THEOREM NothingIsForgotten == Spec => []NothingLeftBehind
BY Inductive, PTL DEF IInv

-----------------------------------------------------------------------------
(* Hosts in use. *)

\* The holder of the lock, its service given up or not yet made, sees no running
\* service on p among the records that stay.
LEMMA NotInUse ==
  ASSUME IInv, NEW c \in Clients, lock \in {None, c},
         \A d \in Clients : d # c => call'[d] = call[d], call'[c].child = None,
         UNCHANGED via, registry' \subseteq registry, NEW p \in Procs,
         \A r \in registry' : r.host = p => life'[r.service] # "running"
  PROVE  ~InUse(p)'
<1> SUFFICES ASSUME NEW s \in Procs, via[s] = p, life'[s] = "running",
                    \/ \E r \in registry' : r.service = s
                    \/ \E d \in Clients : call'[d].child = s
             PROVE  FALSE
  BY DEF InUse
<1>1. CASE \E r \in registry' : r.service = s
  BY <1>1 DEF IInv, HostsRecorded
<1>2. CASE \E d \in Clients : call'[d].child = s
  BY <1>2, OthersAside, NoneIsNoProcess DEF IInv, Bystander
<1> QED BY <1>1, <1>2

\* A call that leaves returns to nothing.
LEMMA ReturnClears ==
  ASSUME IInv, NEW c \in Clients, Return(c)
  PROVE  call'[c].child = None /\ \A d \in Clients : d # c => call'[d] = call[d]
BY Returned, IdleIsCall DEF IInv, Becomes

\* A process that no record names as a host has no recorded service on it.
LEMMA NoHostNoService ==
  ASSUME IInv, NEW p \in Procs, ServiceNamed(p)
  PROVE  \A r \in registry : r.host # p
BY DEF IInv, KindsApart, HostNamed

LEMMA StopSpares ==
  ASSUME IInv, NEW c \in Clients, call[c].at = "waiting", lock = None,
         NEW op \in {"stop", "stopAll", "restart"}, NEW targets, targets \subseteq registry,
         StopBegun(c, op, targets), UNCHANGED via, registry' \subseteq registry,
         NEW p \in Procs, life[p] = "running", life'[p] = "stopping"
  PROVE  ~InUse(p)'
<1> DEFINE plan == IF op = "restart"
         THEN LET r == CHOOSE r \in targets : TRUE
              IN [id |-> r.id, bind |-> r.bind, port |-> r.port, profile |-> r.profile,
                  pooled |-> r.pooled]
         ELSE None
           b == Idle
           k == [b EXCEPT !.at = "stopping", !.op = op, !.pending = targets, !.plan = plan]
<1>1. call' = [call EXCEPT ![c] = k] /\ call \in [Clients -> Calls]
  BY DEF StopBegun, IInv, Types
<1>2. b \in Calls /\ b.child = None
  BY IdleIsCall
<1> HIDE DEF plan, b
<1>3. k.child = None
  BY <1>2 DEF Calls
<1> HIDE DEF k
<1>4. call'[c].child = None /\ \A d \in Clients : d # c => call'[d] = call[d]
  BY <1>1, <1>3
<1>5. Stops({r.service : r \in targets})
  BY TerminatedStops DEF IInv, StopBegun
<1>6. ServiceNamed(p)
  BY <1>5 DEF Stops, ServiceNamed
<1>7. \A r \in registry : r.host # p
  BY <1>6, NoHostNoService
<1> QED BY <1>4, <1>7, NotInUse

LEMMA ReapMoves ==
  ASSUME IInv, NEW c \in Clients, ReapHosts(c)
  PROVE  /\ call'[c].child = None /\ call'[c].at = "sweep" /\ call[c].at = "read"
         /\ \A d \in Clients : d # c => call'[d] = call[d]
<1>1. call[c].child = None /\ call[c].at = "read"
  BY EmptyHands DEF ReapHosts, Placed
<1>2. PICK k \in Calls : Becomes(c, k) /\ k.at = "sweep" /\ SameButAt(k, call[c])
  BY StepMoves DEF IInv, ReapHosts, Stages
<1> QED BY <1>1, <1>2 DEF Becomes, SameButAt

\* No service that a record keeps runs on a host that is reaped.
LEMMA ReapedAreDead ==
  ASSUME IInv, NEW c \in Clients, ReapHosts(c),
         NEW p \in Procs, life[p] = "running", life'[p] = "stopping"
  PROVE  /\ \E r \in registry : r.host = p
         /\ \A r \in registry : r.host = p =>
              r \notin Active(registry) /\ life'[r.service] # "running"
<1>1. Stops(OrphanHosts(registry))
  BY TerminatedStops DEF IInv, ReapHosts
<1>2. p \in OrphanHosts(registry)
  BY <1>1 DEF Stops
<1>3. ASSUME NEW r \in registry, r.host = p
      PROVE  r \notin Active(registry) /\ life'[r.service] # "running"
  <2>1. r \notin Active(registry) /\ r.service \in Procs
    BY <1>2, <1>3, RecordTypes DEF OrphanHosts, IInv, Types
  <2>2. life[r.service] # "running"
    BY <2>1, NoneIsNoProcess DEF Active, Matches
  <2> QED BY <1>1, <2>1, <2>2 DEF Stops
<1> QED BY <1>2, <1>3 DEF OrphanHosts

LEMMA ReapSpares ==
  ASSUME IInv, NEW c \in Clients, ReapHosts(c), call[c].op # "list",
         NEW p \in Procs, life[p] = "running", life'[p] = "stopping"
  PROVE  ~InUse(p)'
<1>1. call[c] \in Calls /\ Shaped(call[c]) /\ CallSound(c) /\ call[c].at = "read"
  BY ReapMoves DEF IInv, Types, CallSound
<1>2. lock = c
  BY <1>1 DEF CallSound, Shaped, Calls, Ops
<1> QED BY <1>2, ReapMoves, ReapedAreDead, NotInUse DEF ReapHosts

\* list() stops a host in use only when a service that was on it has died by
\* itself, or the stop that ended it died before it could answer for the host.
LEMMA ListSpares ==
  ASSUME IInv, NEW c \in Clients, ReapHosts(c), call[c].op = "list",
         NEW p \in Procs, life[p] = "running", life'[p] = "stopping", InUse(p)'
  PROVE  Widowed(p) \/ p \in adrift
<1>1. PICK r \in registry : r.host = p
  BY ReapedAreDead
<1>2. r \notin Active(registry) /\ r.service \in Procs /\ life[r.service] \in {"gone", "crashed"}
  <2>1. r.service \in Procs /\ r \notin Active(registry) /\ life[r.service] # "unborn"
    BY <1>1, ReapedAreDead, NamedAreBorn, RecordTypes
  <2> QED BY <2>1, LifeIsKnown, NoneIsNoProcess DEF Active, Matches, IInv, Lives
<1>3. CASE life[r.service] = "crashed"
  BY <1>1, <1>2, <1>3 DEF Widowed, IInv, HostsRecorded
<1>4. CASE life[r.service] = "gone"
  <2> SUFFICES ASSUME NEW d \in Clients, r \in call[d].pending PROVE FALSE
    BY <1>1, <1>4, NoneIsNoProcess DEF IInv, StoppersAnswer
  <2>1. call[d].at = "stopping"
    BY DEF IInv, CallSound, Shaped
  <2>2. lock = d /\ call[d].child = None
    BY <2>1, StartsAlone DEF Shaped
  <2>3. d # c
    BY <2>1, ReapMoves
  <2>4. call'[d].child = None
    BY <2>2, <2>3, ReapMoves
  <2>5. ASSUME NEW e \in Clients, e # d PROVE call'[e].child = None
    <3>1. call[e].child = None
      BY <2>2, <2>5, OthersAside DEF IInv, Bystander
    <3> QED BY <3>1, ReapMoves
  <2>6. PICK s \in Procs : via[s] = p /\ life'[s] = "running" /\ \E t \in registry : t.service = s
    BY <2>4, <2>5, NoneIsNoProcess DEF InUse, ReapHosts
  <2> QED BY <2>6, ReapedAreDead DEF IInv, HostsRecorded
<1> QED BY <1>2, <1>3, <1>4

\* A host that a start has spawned is in no record.
LEMMA OwnHostIsNew ==
  ASSUME IInv, NEW c \in Clients, call[c].at \in Placed, NEW p \in OwnHost(c)
  PROVE  \A r \in registry : r.host # p
BY DEF IInv, CallSound, PlanFits, Fits, OwnHost

LEMMA StartSpares ==
  ASSUME IInv, NEW c \in Clients, HostFails(c) \/ SpawnFails(c) \/ Rollback(c),
         NEW p \in Procs, life[p] = "running", life'[p] = "stopping"
  PROVE  ~InUse(p)'
<1>1. call[c].at \in Placed /\ call[c].at \in Starting
  BY DEF HostFails, SpawnFails, Rollback, Placed, Starting
<1>2. lock = c /\ call[c] \in Calls /\ Shaped(call[c]) /\ CallSound(c)
  BY <1>1, StartsAlone
<1>3. call'[c].child = None /\ \A d \in Clients : d # c => call'[d] = call[d]
  <2>1. CASE SpawnFails(c) \/ Rollback(c)
    BY <2>1, ReturnClears DEF SpawnFails, Rollback
  <2>2. CASE HostFails(c)
    <3> DEFINE b == call[c]
               k == [b EXCEPT !.at = "spawn", !.host = None, !.mine = FALSE]
    <3>1. call' = [call EXCEPT ![c] = k] /\ b \in Calls /\ call \in [Clients -> Calls]
      BY <1>2, <2>2 DEF HostFails, IInv, Types
    <3>2. b.child = None
      BY <1>2, <2>2 DEF Shaped, HostFails
    <3> HIDE DEF b
    <3>3. k.child = None
      BY <3>1, <3>2 DEF Calls
    <3> HIDE DEF k
    <3> QED BY <3>1, <3>3
  <2> QED BY <2>1, <2>2
<1>4. UNCHANGED <<via, registry>>
  BY DEF HostFails, SpawnFails, Rollback
<1>5. p \in {call[c].child} \union OwnHost(c)
  <2>1. CASE HostFails(c)
    <3>1. call[c].mine = TRUE
      BY <1>2, <2>1 DEF Shaped, Calls, HostFails
    <3>2. life' = Terminated({call[c].host})
      BY <2>1 DEF HostFails
    <3>3. Stops({call[c].host})
      BY <3>2, TerminatedStops DEF IInv
    <3> QED BY <3>1, <3>3 DEF OwnHost, Stops
  <2>2. CASE SpawnFails(c)
    <3>1. Stops(OwnHost(c))
      BY <2>2, TerminatedStops DEF IInv, SpawnFails
    <3> QED BY <3>1 DEF Stops
  <2>3. CASE Rollback(c)
    <3>1. Stops({call[c].child} \union OwnHost(c)) \/ Stops(OwnHost(c))
      BY <2>3, TerminatedStops DEF IInv, Rollback
    <3> QED BY <3>1 DEF Stops
  <2> QED BY <2>1, <2>2, <2>3
<1>6. \A r \in registry : r.host # p
  <2>1. CASE p = call[c].child
    BY <2>1, NoHostNoService DEF ServiceNamed
  <2>2. CASE p \in OwnHost(c)
    BY <1>1, <2>2, OwnHostIsNew
  <2> QED BY <1>5, <2>1, <2>2
<1> QED BY <1>2, <1>3, <1>4, <1>6, NotInUse

LEMMA StoppedSpares ==
  ASSUME IInv, NEW c \in Clients, Stopped(c),
         NEW p \in Procs, life[p] = "running", life'[p] = "stopping"
  PROVE  ~InUse(p)'
<1> DEFINE b == call[c]
<1>1. /\ lock = c /\ b \in Calls /\ Shaped(b) /\ b.at = "stopping"
  BY StartsAlone DEF Stopped
<1>2. b.child = None /\ call \in [Clients -> Calls]
  BY <1>1 DEF Shaped, IInv, Types
<1>3. PICK r \in b.pending :
        LET rest == {s \in registry : s.id # r.id}
        IN /\ registry' = IF r.host = None THEN rest ELSE Active(rest)
           /\ life' = IF StillUsed(r.host, rest) THEN life ELSE Terminated({r.host})
           /\ call' = [call EXCEPT ![c].pending = @ \ {r}]
  BY DEF Stopped
<1> DEFINE rest == {s \in registry : s.id # r.id}
           k == [b EXCEPT !.pending = b.pending \ {r}]
<1>4. registry' \subseteq rest /\ rest \subseteq registry
  BY <1>3 DEF Active
<1>5. ~StillUsed(r.host, rest) /\ Stops({r.host})
  BY <1>3, TerminatedStops DEF IInv
<1>6. call' = [call EXCEPT ![c] = k]
  BY <1>3
<1> HIDE DEF b, rest
<1>7. k.child = None
  BY <1>1, <1>2 DEF Calls
<1> HIDE DEF k
<1>8. call'[c].child = None /\ \A d \in Clients : d # c => call'[d] = call[d]
  BY <1>2, <1>6, <1>7
<1>9. p = r.host
  BY <1>5 DEF Stops
<1>10. ASSUME NEW s \in registry', s.host = p PROVE life'[s.service] # "running"
  <2>1. s \notin Active(rest) /\ s \in rest /\ s.service \in Procs
    BY <1>4, <1>5, <1>9, <1>10, RecordTypes DEF StillUsed, IInv, Types
  <2>2. life[s.service] # "running"
    BY <2>1, NoneIsNoProcess DEF Active, Matches
  <2> QED BY <1>5, <2>1, <2>2 DEF Stops
<1> QED BY <1>1, <1>4, <1>8, <1>10, NotInUse DEF Stopped

LEMMA StepSpares ==
  ASSUME IInv, [Next]_vars, NEW p \in Procs, life[p] = "running", life'[p] = "stopping", InUse(p)'
  PROVE  (Widowed(p) \/ p \in adrift) /\ \E c \in Clients : Lists(c)
<1>1. life \in [Procs -> Lives] /\ call \in [Clients -> Calls]
  BY DEF IInv, Types
<1>2. life' # life
  OBVIOUS
<1>3. CASE \E c \in Clients : Work(c)
  <2> PICK c \in Clients : Work(c)
    BY <1>3
  <2>1. CASE ReapHosts(c)
    <3>1. call[c].op = "list"
      BY <2>1, ReapSpares
    <3>2. call'[c] # call[c]
      BY <2>1, ReapMoves
    <3> QED BY <2>1, <3>1, <3>2, ListSpares DEF Lists
  <2>2. CASE HostFails(c) \/ SpawnFails(c) \/ Rollback(c)
    BY <2>2, StartSpares
  <2>3. CASE Stopped(c)
    BY <2>3, StoppedSpares
  <2>4. CASE StopLocked(c)
    <3> PICK r \in registry, op \in {"stop", "restart"} : StopBegun(c, op, {r})
      BY <2>4 DEF StopLocked
    <3> QED BY <2>4, StopSpares DEF StopLocked, Acquire
  <2>5. CASE StopAllLocked(c)
    <3>1. Active(registry) \subseteq registry
      BY DEF Active
    <3> QED BY <2>5, <3>1, StopSpares DEF StopAllLocked, Acquire
  <2>6. CASE Allocate(c) \/ SpawnService(c)
    <3>1. life' = life \/ (Unborn # {} /\ life' = [life EXCEPT ![Spawned] = "running"])
      BY <2>6 DEF Allocate, SpawnService
    <3> QED BY <1>1, <3>1, SpawnedIsUnborn
  <2> QED BY <1>2, <2>1, <2>2, <2>3, <2>4, <2>5, <2>6 DEF Work, LockTimeout, StartLocked,
        StopUnknown, Sweep, FindOwner, StartFails, AllocateFails, Attach, HostReady,
        ServiceReady, PutRecord, AllStopped
<1>4. CASE ControlDies \/ \E c \in Clients : Invoke(c)
  BY <1>2, <1>4 DEF Invoke, ControlDies
<1>5. CASE \E q \in Procs : Exit(q) \/ Crash(q)
  BY <1>1, <1>5 DEF Exit, Crash
<1> QED BY <1>2, <1>3, <1>4, <1>5 DEF Next, vars

\* No start and no stop tells the browser host of a service that runs and is
\* recorded or being started to stop (stopUnlocked, startUnlocked's catch blocks,
\* reapOrphanBrowserHosts); list() may, when the service whose record named the
\* host has died by itself or the host was left adrift.
THEOREM HostsAreSpared == Spec => HostsInUseSpared
<1>1. IInv /\ [Next]_vars =>
        [\A p \in Procs : life[p] = "running" /\ life'[p] = "stopping" /\ InUse(p)' =>
           (Widowed(p) \/ p \in adrift) /\ \E c \in Clients : Lists(c)]_vars
  BY StepSpares
<1> QED BY <1>1, Inductive, PTL DEF Spec, HostsInUseSpared
=============================================================================
