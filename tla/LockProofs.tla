------------------------------ MODULE LockProofs ------------------------------
(***************************************************************************)
(* The two locks.  The lane of a session (SerialQueue) is safe for every   *)
(* set of calls and every maxQueue, and is a first-come first-served lock. *)
(* The lock file (FileLock) loses no update within one process, for any    *)
(* number of calls, process ids, crashes and restarts.                     *)
(***************************************************************************)
EXTENDS SerialQueue, FileLock, FiniteSetTheorems, Sequences, FunctionTheorems, TLAPS

\* The array and the statuses tell the same story.
PendingAgrees == \A t \in Tasks : t \in pending <=> status[t] = "pending"

\* Only the task pump() awaits is between start() and its result, and that task
\* has left the array.
LaneAgrees ==
  /\ \A t \in Tasks : status[t] \in {"starting", "running"} => t = active
  /\ active # NoTask => status[active] \notin {"new", "pending"}

\* Arrival numbers order the entries: none repeats, none is ahead of the count.
ArrivalsOrder ==
  /\ \A t \in Tasks : arrival[t] <= arrivals
  /\ \A t, u \in pending : arrival[t] = arrival[u] => t = u

ClosedIsEmpty == closed => pending = {}

\* The snapshot of drain() holds all that was accepted and has not settled.
SnapshotCovers == draining # NotDraining => closed /\ Accepted \subseteq draining

IInv ==
  /\ TypeOK
  /\ PendingAgrees
  /\ LaneAgrees
  /\ NoLostWakeup
  /\ ArrivalsOrder
  /\ FirstComeFirstServed
  /\ ClosedIsEmpty
  /\ SnapshotCovers

-----------------------------------------------------------------------------
\* shift() leaves a set of entries that all arrived after the one it returns.
LEMMA StartNextPreserves ==
  ASSUME IInv, StartNext, UNCHANGED <<aborted, arrival, arrivals, closed, draining>>,
         pumps' \in Nat,
         active = NoTask \/ Settled(active)
  PROVE  IInv'
<1> USE TasksAssumption DEF IInv, TypeOK, Status
<1>1. CASE pending = {}
  BY <1>1 DEF StartNext, PendingAgrees, LaneAgrees, NoLostWakeup, ArrivalsOrder,
     FirstComeFirstServed, ClosedIsEmpty, SnapshotCovers, Accepted, Settled
<1>2. CASE pending # {}
  <2>1. PICK t \in pending : /\ First(t)
                             /\ active' = t
                             /\ pending' = pending \ {t}
                             /\ status' = [status EXCEPT ![t] = "starting"]
    BY <1>2 DEF StartNext
  <2>2. t \in Tasks /\ t # NoTask /\ status[t] = "pending"
    BY <2>1 DEF PendingAgrees
  <2>3. TypeOK'
    BY <2>1, <2>2
  <2>4. PendingAgrees'
    BY <2>1, <2>2 DEF PendingAgrees
  <2>5. LaneAgrees'
    BY <2>1, <2>2 DEF LaneAgrees, Settled
  <2>6. NoLostWakeup'
    BY <2>1, <2>2 DEF NoLostWakeup
  <2>7. ArrivalsOrder'
    BY <2>1 DEF ArrivalsOrder
  <2>8. FirstComeFirstServed'
    <3>1. \A u \in pending' : arrival[t] <= arrival[u] /\ arrival[t] # arrival[u]
      BY <2>1 DEF First, ArrivalsOrder
    <3> QED BY <2>1, <2>2, <3>1 DEF FirstComeFirstServed
  <2>9. ClosedIsEmpty' /\ SnapshotCovers'
    BY <2>1, <2>2 DEF ClosedIsEmpty, SnapshotCovers, Accepted
  <2> QED BY <2>3, <2>4, <2>5, <2>6, <2>7, <2>8, <2>9
<1> QED BY <1>1, <1>2

LEMMA Initially == Init => IInv
<1> SUFFICES ASSUME Init PROVE IInv
  OBVIOUS
<1>1. TypeOK
  BY DEF Init, TypeOK, Status, NotDraining
<1>2. PendingAgrees /\ LaneAgrees /\ ArrivalsOrder
  BY DEF Init, PendingAgrees, LaneAgrees, ArrivalsOrder
<1>3. NoLostWakeup /\ FirstComeFirstServed /\ ClosedIsEmpty /\ SnapshotCovers
  BY DEF Init, NoLostWakeup, FirstComeFirstServed, ClosedIsEmpty, SnapshotCovers
<1> QED BY <1>1, <1>2, <1>3 DEF IInv

LEMMA Inductive == IInv /\ [Next]_vars => IInv'
<1> SUFFICES ASSUME IInv, [Next]_vars PROVE IInv'
  OBVIOUS
<1> USE TasksAssumption DEF IInv
<1>1. ASSUME NEW t \in Tasks, Refuse(t) PROVE IInv'
  BY <1>1 DEF Refuse, TypeOK, Status, PendingAgrees, LaneAgrees, NoLostWakeup, ArrivalsOrder,
     FirstComeFirstServed, ClosedIsEmpty, SnapshotCovers, Accepted
<1>2. ASSUME NEW t \in Tasks, Run(t) PROVE IInv'
  <2>1. TypeOK' /\ PendingAgrees' /\ LaneAgrees' /\ NoLostWakeup'
    BY <1>2 DEF Run, TypeOK, Status, PendingAgrees, LaneAgrees, NoLostWakeup
  <2>2. ArrivalsOrder'
    BY <1>2 DEF Run, TypeOK, ArrivalsOrder
  <2>3. FirstComeFirstServed'
    BY <1>2 DEF Run, TypeOK, ArrivalsOrder, FirstComeFirstServed, PendingAgrees, LaneAgrees
  <2>4. ClosedIsEmpty' /\ SnapshotCovers'
    BY <1>2 DEF Run, TypeOK, ClosedIsEmpty, SnapshotCovers
  <2> QED BY <2>1, <2>2, <2>3, <2>4
<1>3. ASSUME NEW t \in Tasks, Abort(t) PROVE IInv'
  BY <1>3 DEF Abort, SettleAs, TypeOK, Status, PendingAgrees, LaneAgrees, NoLostWakeup,
     ArrivalsOrder, FirstComeFirstServed, ClosedIsEmpty, SnapshotCovers, Accepted, NotDraining
<1>4. CASE Pump
  <2>1. CASE active = NoTask
    BY <1>4, <2>1, StartNextPreserves DEF Pump, TypeOK
  <2>2. CASE active # NoTask
    BY <1>4, <2>2 DEF Pump, TypeOK, Status, PendingAgrees, LaneAgrees, NoLostWakeup,
       ArrivalsOrder, FirstComeFirstServed, ClosedIsEmpty, SnapshotCovers, Accepted
  <2> QED BY <2>1, <2>2
<1>5. CASE Begin
  BY <1>5 DEF Begin, TypeOK, Status, PendingAgrees, LaneAgrees, NoLostWakeup, ArrivalsOrder,
     FirstComeFirstServed, ClosedIsEmpty, SnapshotCovers, Accepted
<1>6. ASSUME NEW outcome \in {"resolved", "rejected"},
             active # NoTask, status[active] \in {"starting", "running"},
             SettleAs({active}, outcome),
             UNCHANGED <<aborted, pending, arrival, arrivals, active, pumps, closed>>
      PROVE  IInv'
  BY <1>6 DEF SettleAs, TypeOK, Status, PendingAgrees, LaneAgrees, NoLostWakeup, ArrivalsOrder,
     FirstComeFirstServed, ClosedIsEmpty, SnapshotCovers, Accepted, NotDraining
<1>7. CASE BeginAborted
  BY <1>6, <1>7 DEF BeginAborted
<1>8. ASSUME NEW outcome \in {"resolved", "rejected"}, Settle(outcome) PROVE IInv'
  BY <1>6, <1>8 DEF Settle
<1>9. CASE Release
  BY <1>9, StartNextPreserves DEF Release, TypeOK
<1>10. CASE Close
  BY <1>10 DEF Close, SettleAs, TypeOK, Status, PendingAgrees, LaneAgrees, NoLostWakeup,
     ArrivalsOrder, FirstComeFirstServed, ClosedIsEmpty, SnapshotCovers, Accepted, NotDraining
<1>11. CASE Drain
  BY <1>11 DEF Drain, TypeOK, PendingAgrees, LaneAgrees, NoLostWakeup, ArrivalsOrder,
     FirstComeFirstServed, ClosedIsEmpty, SnapshotCovers, Accepted
<1>12. CASE UNCHANGED vars
  BY <1>12 DEF vars, TypeOK, PendingAgrees, LaneAgrees, NoLostWakeup, ArrivalsOrder,
     FirstComeFirstServed, ClosedIsEmpty, SnapshotCovers, Accepted
<1> QED
  BY <1>1, <1>2, <1>3, <1>4, <1>5, <1>7, <1>8, <1>9, <1>10, <1>11, <1>12 DEF Next

-----------------------------------------------------------------------------
LEMMA Invariance == Spec => []IInv
BY Initially, Inductive, PTL DEF Spec

\* Every reachable state has the types of the declarations of serial-queue.ts.
THEOREM TypeCorrectness == Spec => []TypeOK
BY Invariance, PTL DEF IInv

\* Two tasks of one lane are never inside the executor together (pump).
THEOREM MutualExclusion == Spec => []OneAtATime
<1>1. IInv => OneAtATime
  BY DEF IInv, LaneAgrees, OneAtATime
<1> QED BY Invariance, <1>1, PTL

\* A free lane with an entry waiting always has a pump on its way (run, pump).
THEOREM NoEntryStalls == Spec => []NoLostWakeup
BY Invariance, PTL DEF IInv

\* Nobody overtakes: the task in the lane arrived before all that wait (shift).
THEOREM ArrivalOrder == Spec => []FirstComeFirstServed
BY Invariance, PTL DEF IInv

\* When drain() of a closed queue resolves, the lane is quiet (close, drain).
THEOREM DrainIsComplete == Spec => []DrainedIsQuiet
<1>1. IInv => DrainedIsQuiet
  BY DEF IInv, TypeOK, Status, SnapshotCovers, DrainedIsQuiet, Drained, NotDraining, Accepted
<1> QED BY Invariance, <1>1, PTL

-----------------------------------------------------------------------------
\* The depth is a natural number that shift() does not change and push raises by one.
LEMMA DepthOfStartNext ==
  ASSUME IInv, StartNext
  PROVE  depth' <= Cardinality(pending) + 1 /\ (pending = {} => depth' = 0)
<1> USE TasksAssumption DEF IInv, TypeOK
<1>1. IsFiniteSet(pending)
  BY FS_Subset
<1>2. CASE pending = {}
  BY <1>2, FS_EmptySet DEF StartNext, depth
<1>3. CASE pending # {}
  <2>1. PICK t \in pending : active' = t /\ pending' = pending \ {t}
    BY <1>3 DEF StartNext
  <2>2. Cardinality(pending') = Cardinality(pending) - 1
    BY <1>1, <2>1, FS_RemoveElement
  <2> QED BY <1>1, <1>3, <2>1, <2>2, FS_CardinalityType DEF depth
<1> QED BY <1>2, <1>3

\* The queue never holds more than maxQueue calls, the settled one included (run).
THEOREM CapacityRespected == Spec => []WithinCapacity
<1> USE TasksAssumption, MaxQueueAssumption DEF IInv, TypeOK
<1>1. Init => WithinCapacity
  BY FS_EmptySet DEF Init, WithinCapacity, depth
<1>2. IInv /\ WithinCapacity /\ [Next]_vars => WithinCapacity'
  <2> SUFFICES ASSUME IInv, WithinCapacity, [Next]_vars PROVE WithinCapacity'
    OBVIOUS
  <2>1. IsFiniteSet(pending) /\ Cardinality(pending) \in Nat
    BY FS_Subset, FS_CardinalityType
  <2>2. ASSUME pending' \subseteq pending, active' = active PROVE WithinCapacity'
    <3>1. Cardinality(pending') <= Cardinality(pending) /\ Cardinality(pending') \in Nat
      BY <2>1, <2>2, FS_Subset, FS_CardinalityType
    <3> QED BY <2>1, <2>2, <3>1 DEF WithinCapacity, depth
  <2>3. ASSUME NEW t \in Tasks, Run(t) PROVE WithinCapacity'
    <3>1. t \notin pending
      BY <2>3 DEF Run, PendingAgrees
    <3>2. Cardinality(pending') = Cardinality(pending) + 1
      BY <2>1, <2>3, <3>1, FS_AddElement DEF Run
    <3> QED BY <2>1, <2>3, <3>2 DEF Run, WithinCapacity, depth
  <2>4. CASE Pump
    <3>1. CASE active = NoTask
      <4>1. CASE pending = {}
        BY <2>4, <3>1, <4>1, DepthOfStartNext DEF Pump, WithinCapacity
      <4>2. CASE pending # {}
        <5>1. PICK t \in pending : active' = t /\ pending' = pending \ {t}
          BY <2>4, <3>1, <4>2 DEF Pump, StartNext
        <5>2. Cardinality(pending') = Cardinality(pending) - 1
          BY <2>1, <5>1, FS_RemoveElement
        <5> QED BY <2>1, <3>1, <5>1, <5>2 DEF WithinCapacity, depth
      <4> QED BY <4>1, <4>2
    <3>2. CASE active # NoTask
      BY <2>2, <2>4, <3>2 DEF Pump
    <3> QED BY <3>1, <3>2
  <2>5. CASE Release
    <3>1. StartNext /\ depth = Cardinality(pending) + 1
      BY <2>5 DEF Release, depth
    <3>2. depth' <= depth
      BY <2>1, <3>1, DepthOfStartNext
    <3>3. IsFiniteSet(pending') /\ Cardinality(pending') \in Nat
      <4>1. pending' \subseteq pending
        BY <3>1 DEF StartNext
      <4> QED BY <2>1, <4>1, FS_Subset, FS_CardinalityType
    <3>4. depth' \in Nat
      BY <3>3 DEF depth
    <3> QED BY <2>1, <3>1, <3>2, <3>4 DEF WithinCapacity
  <2>6. ASSUME NEW t \in Tasks, Refuse(t) \/ Abort(t) PROVE WithinCapacity'
    BY <2>2, <2>6 DEF Refuse, Abort
  <2>7. CASE Begin \/ BeginAborted \/ Close \/ Drain \/ UNCHANGED vars
    BY <2>2, <2>7 DEF Begin, BeginAborted, Close, Drain, vars
  <2>8. ASSUME NEW outcome \in {"resolved", "rejected"}, Settle(outcome) PROVE WithinCapacity'
    BY <2>2, <2>8 DEF Settle
  <2> QED BY <2>3, <2>4, <2>5, <2>6, <2>7, <2>8 DEF Next
<1> QED BY Invariance, <1>1, <1>2, PTL DEF Spec

-----------------------------------------------------------------------------
(* The lane implements FifoLock: the numbers of the entries make them a line. *)

Numbered(S, number) ==
  /\ IsFiniteSet(S)
  /\ \A t \in S : number[t] \in Nat
  /\ \A t, u \in S : number[t] = number[u] => t = u

LEMMA Places ==
  ASSUME NEW S, NEW number, Numbered(S, number)
  PROVE  /\ \A t \in S : Cardinality(Before(S, number, t)) + 1 \in 1..Cardinality(S)
         /\ \A t, u \in S : number[t] < number[u] <=>
              Cardinality(Before(S, number, t)) < Cardinality(Before(S, number, u))
         /\ InOrder(S, number) \in [1..Cardinality(S) -> S]
         /\ \A i \in 1..Cardinality(S) :
              Cardinality(Before(S, number, InOrder(S, number)[i])) = i - 1
         /\ \A t \in S : InOrder(S, number)[Cardinality(Before(S, number, t)) + 1] = t
<1> DEFINE n == Cardinality(S)
           place[t \in S] == Cardinality(Before(S, number, t)) + 1
<1> USE DEF Numbered
<1>1. n \in Nat
  BY FS_CardinalityType
<1>2. ASSUME NEW t \in S PROVE /\ IsFiniteSet(Before(S, number, t))
                              /\ Cardinality(Before(S, number, t)) \in 0..(n - 1)
  <2>1. Before(S, number, t) \subseteq S \ {t}
    BY DEF Before
  <2>2. IsFiniteSet(S \ {t}) /\ Cardinality(S \ {t}) = n - 1
    BY FS_RemoveElement
  <2>3. IsFiniteSet(Before(S, number, t)) /\ Cardinality(Before(S, number, t)) <= n - 1
    BY <2>1, <2>2, FS_Subset
  <2> QED BY <1>1, <2>3, FS_CardinalityType
<1>3. ASSUME NEW t \in S, NEW u \in S, number[t] < number[u]
      PROVE  Cardinality(Before(S, number, t)) < Cardinality(Before(S, number, u))
  <2>1. Before(S, number, t) \subseteq Before(S, number, u)
    BY <1>3 DEF Before
  <2>2. t \in Before(S, number, u) /\ t \notin Before(S, number, t)
    BY <1>3 DEF Before
  <2>3. Cardinality(Before(S, number, t)) <= Cardinality(Before(S, number, u))
    BY <1>2, <2>1, FS_Subset
  <2>4. Cardinality(Before(S, number, t)) # Cardinality(Before(S, number, u))
    BY <1>2, <2>1, <2>2, FS_Subset
  <2> QED BY <1>2, <2>3, <2>4
<1>4. \A t, u \in S : number[t] < number[u] <=>
        Cardinality(Before(S, number, t)) < Cardinality(Before(S, number, u))
  <2> SUFFICES ASSUME NEW t \in S, NEW u \in S, ~(number[t] < number[u])
               PROVE  ~(Cardinality(Before(S, number, t)) < Cardinality(Before(S, number, u)))
    BY <1>3
  <2>1. t = u \/ number[u] < number[t]
    OBVIOUS
  <2> QED BY <1>2, <1>3, <2>1
<1>5. place \in Injection(S, 1..n)
  <2>1. place \in [S -> 1..n]
    BY <1>1, <1>2
  <2>2. ASSUME NEW t \in S, NEW u \in S, place[t] = place[u] PROVE t = u
    <3>1. Cardinality(Before(S, number, t)) = Cardinality(Before(S, number, u))
      BY <1>2, <2>2
    <3>2. ~(number[t] < number[u]) /\ ~(number[u] < number[t])
      BY <1>2, <1>4, <3>1
    <3> QED BY <3>2
  <2> QED BY <2>1, <2>2, Fun_IsInj
<1>6. place \in Surjection(S, 1..n)
  <2>1. IsFiniteSet(1..n) /\ Cardinality(1..n) = n
    BY <1>1, FS_Interval
  <2> QED BY <1>5, <2>1, FS_Injection
<1>7. ASSUME NEW i \in 1..n
      PROVE  InOrder(S, number)[i] \in S /\ Cardinality(Before(S, number, InOrder(S, number)[i])) = i - 1
  <2>1. \E t \in S : place[t] = i
    BY <1>6 DEF Surjection
  <2>2. \E t \in S : Cardinality(Before(S, number, t)) = i - 1
    BY <1>1, <1>2, <2>1
  <2> QED BY <2>2 DEF InOrder
<1>8. InOrder(S, number) \in [1..n -> S]
  BY <1>7 DEF InOrder
<1>9. ASSUME NEW t \in S PROVE InOrder(S, number)[Cardinality(Before(S, number, t)) + 1] = t
  <2>1. Cardinality(Before(S, number, t)) + 1 \in 1..n
    BY <1>1, <1>2
  <2> DEFINE u == InOrder(S, number)[Cardinality(Before(S, number, t)) + 1]
  <2>2. u \in S /\ Cardinality(Before(S, number, u)) = Cardinality(Before(S, number, t))
    BY <1>2, <1>7, <2>1
  <2>3. ~(number[t] < number[u]) /\ ~(number[u] < number[t])
    BY <1>2, <1>4, <2>2
  <2> QED BY <2>2, <2>3
<1>10. \A t \in S : Cardinality(Before(S, number, t)) + 1 \in 1..n
  BY <1>1, <1>2
<1> QED BY <1>4, <1>7, <1>8, <1>9, <1>10

\* Who arrives last stands last.
Latest(S, number, t, after) ==
  t \notin S /\ after[t] \in Nat /\ \A u \in S : after[u] = number[u] /\ number[u] < after[t]

Lengthened(L, M, t) == M = Append(L, t)

LEMMA LineGrows ==
  ASSUME NEW S, NEW number, Numbered(S, number), NEW t, NEW after, Latest(S, number, t, after)
  PROVE  Lengthened(InOrder(S, number), InOrder(S \union {t}, after), t)
<1> DEFINE n == Cardinality(S)
           T == S \union {t}
           L == InOrder(S, number)
           M == InOrder(T, after)
<1> USE DEF Latest
<1>1. n \in Nat /\ IsFiniteSet(T) /\ Cardinality(T) = n + 1
  BY FS_CardinalityType, FS_AddElement DEF Numbered
<1>2. Numbered(T, after)
  BY <1>1 DEF Numbered
<1>3. \A u \in S : Before(T, after, u) = Before(S, number, u)
  BY DEF Before, Numbered
<1>4. Before(T, after, t) = S
  BY <1>2 DEF Before, Numbered
<1>5. t \in T /\ S \subseteq T
  OBVIOUS
<1> HIDE DEF n, T, L, M
<1>6. L \in [1..n -> S] /\ \A i \in 1..n : Cardinality(Before(S, number, L[i])) = i - 1
  BY Places DEF L, n
<1>7. M \in [1..(n + 1) -> T] /\ \A u \in T : M[Cardinality(Before(T, after, u)) + 1] = u
  BY <1>1, <1>2, Places DEF M
<1>8. M[n + 1] = t
  BY <1>4, <1>5, <1>7 DEF n
<1>9. \A i \in 1..n : M[i] = L[i]
  BY <1>1, <1>3, <1>5, <1>6, <1>7
<1>10. L \in Seq(S) /\ Len(L) = n
  BY <1>1, <1>6
<1>11. Append(L, t) = [i \in 1..(n + 1) |-> IF i = n + 1 THEN t ELSE L[i]]
  <2> DEFINE A == Append(L, t)
  <2>1. A \in Seq(T) /\ Len(A) = n + 1 /\ A[n + 1] = t /\ \A i \in 1..n : A[i] = L[i]
    BY <1>5, <1>10
  <2> HIDE DEF A
  <2>2. A \in [1..(n + 1) -> T]
    BY <1>1, <2>1
  <2>3. A = [i \in 1..(n + 1) |-> IF i = n + 1 THEN t ELSE L[i]]
    BY <1>1, <2>1, <2>2
  <2> QED BY <2>3 DEF A
<1>12. M = [i \in 1..(n + 1) |-> IF i = n + 1 THEN t ELSE L[i]]
  BY <1>1, <1>7, <1>8, <1>9
<1> QED BY <1>11, <1>12 DEF L, M, T, Lengthened

\* The least number heads the line, and the others close up behind it.
LEMMA LineShifts ==
  ASSUME NEW S, NEW number, Numbered(S, number),
         NEW t \in S, \A u \in S : number[t] <= number[u]
  PROVE  /\ InOrder(S, number) # <<>>
         /\ Head(InOrder(S, number)) = t
         /\ Tail(InOrder(S, number)) = InOrder(S \ {t}, number)
<1> DEFINE n == Cardinality(S)
           T == S \ {t}
           L == InOrder(S, number)
           M == InOrder(T, number)
<1>1. n \in Nat \ {0} /\ IsFiniteSet(T) /\ Cardinality(T) = n - 1
  <2>1. n \in Nat /\ (n = 0 <=> S = {})
    BY FS_CardinalityType, FS_EmptySet DEF Numbered
  <2> QED BY <2>1, FS_RemoveElement DEF Numbered
<1>2. Numbered(T, number)
  BY <1>1 DEF Numbered
<1>3. Cardinality(Before(S, number, t)) = 0
  <2>1. Before(S, number, t) = {}
    BY DEF Before, Numbered
  <2> QED BY <2>1, FS_EmptySet
<1>4. ASSUME NEW u \in T
      PROVE  Cardinality(Before(S, number, u)) = Cardinality(Before(T, number, u)) + 1
  <2>1. t \in Before(S, number, u) /\ Before(T, number, u) = Before(S, number, u) \ {t}
    BY DEF Before, Numbered
  <2>2. IsFiniteSet(Before(S, number, u))
    <3>1. Before(S, number, u) \subseteq S
      BY DEF Before
    <3> QED BY <3>1, FS_Subset DEF Numbered
  <2>3. Cardinality(Before(S, number, u)) \in Nat
    BY <2>2, FS_CardinalityType
  <2>4. Cardinality(Before(T, number, u)) = Cardinality(Before(S, number, u)) - 1
    BY <2>1, <2>2, FS_RemoveElement
  <2> QED BY <2>3, <2>4
<1>5. T \subseteq S
  OBVIOUS
<1> HIDE DEF n, T, L, M
<1>6. L \in [1..n -> S] /\ \A u \in S : L[Cardinality(Before(S, number, u)) + 1] = u
  BY Places DEF L, n
<1>7. M \in [1..(n - 1) -> T]
      /\ \A i \in 1..(n - 1) : Cardinality(Before(T, number, M[i])) = i - 1
  BY <1>1, <1>2, Places DEF M
<1>8. L[1] = t
  BY <1>3, <1>6
<1>9. \A i \in 1..(n - 1) : M[i] = L[i + 1]
  <2> SUFFICES ASSUME NEW i \in 1..(n - 1) PROVE M[i] = L[i + 1]
    OBVIOUS
  <2>1. M[i] \in T
    BY <1>7
  <2>2. Cardinality(Before(S, number, M[i])) = i - 1 + 1
    BY <1>4, <1>7, <2>1
  <2>3. i - 1 + 1 + 1 = i + 1
    BY <1>1
  <2> QED BY <1>5, <1>6, <2>1, <2>2, <2>3
<1>10. L \in Seq(S) /\ Len(L) = n
  BY <1>1, <1>6
<1>11. L # <<>> /\ Head(L) = t
  BY <1>1, <1>8, <1>10
<1>12. Tail(L) = [i \in 1..(n - 1) |-> L[i + 1]]
  <2> DEFINE A == Tail(L)
  <2>1. A \in Seq(S) /\ Len(A) = n - 1 /\ \A i \in 1..(n - 1) : A[i] = L[i + 1]
    BY <1>1, <1>10, <1>11
  <2> HIDE DEF A
  <2>2. A \in [1..(n - 1) -> S]
    BY <1>1, <2>1
  <2>3. A = [i \in 1..(n - 1) |-> L[i + 1]]
    BY <2>1, <2>2
  <2> QED BY <2>3 DEF A
<1>13. M = [i \in 1..(n - 1) |-> L[i + 1]]
  BY <1>7, <1>9
<1> QED BY <1>11, <1>12, <1>13 DEF L, M, T

\* When some leave, the others keep their order.
Thinned(L, M, quitters) ==
  \E n \in 0..Len(L) : \E place \in [1..n -> DOMAIN L] :
    /\ \A i, j \in 1..n : i < j => place[i] < place[j]
    /\ {place[i] : i \in 1..n} = {i \in DOMAIN L : L[i] \notin quitters}
    /\ M = [i \in 1..n |-> L[place[i]]]

LEMMA LineThins ==
  ASSUME NEW S, NEW number, Numbered(S, number),
         NEW T \in SUBSET S
  PROVE  Thinned(InOrder(S, number), InOrder(T, number), S \ T)
<1> DEFINE L == InOrder(S, number)
           M == InOrder(T, number)
           rank(t) == Cardinality(Before(S, number, t)) + 1
           n == Cardinality(T)
           place == [i \in 1..n |-> rank(M[i])]
<1>1. IsFiniteSet(T) /\ n \in 0..Cardinality(S) /\ Cardinality(S) \in Nat
  BY FS_Subset, FS_CardinalityType DEF Numbered
<1>2. Numbered(T, number)
  BY <1>1 DEF Numbered
<1>3. L \in [1..Cardinality(S) -> S] /\ M \in [1..n -> T]
  BY <1>2, Places
<1>4. \A t \in S : rank(t) \in 1..Cardinality(S) /\ L[rank(t)] = t
  BY Places
<1>5. \A i \in 1..Cardinality(S) : rank(L[i]) = i
  <2> SUFFICES ASSUME NEW i \in 1..Cardinality(S) PROVE rank(L[i]) = i
    OBVIOUS
  <2>1. Cardinality(Before(S, number, L[i])) = i - 1
    BY Places
  <2> QED BY <1>1, <2>1
<1>6. \A t, u \in S : number[t] < number[u] => rank(t) < rank(u)
  <2> SUFFICES ASSUME NEW t \in S, NEW u \in S, number[t] < number[u] PROVE rank(t) < rank(u)
    OBVIOUS
  <2>1. Cardinality(Before(S, number, t)) < Cardinality(Before(S, number, u))
    BY Places
  <2>2. Cardinality(Before(S, number, t)) \in Nat /\ Cardinality(Before(S, number, u)) \in Nat
    <3>1. \A v : Before(S, number, v) \subseteq S
      BY DEF Before
    <3> QED BY <3>1, FS_Subset, FS_CardinalityType DEF Numbered
  <2> QED BY <2>1, <2>2
<1>7. ASSUME NEW i \in 1..n, NEW j \in 1..n, i < j PROVE number[M[i]] < number[M[j]]
  <2>1. M[i] \in T /\ M[j] \in T
    BY <1>3
  <2>2. /\ Cardinality(Before(T, number, M[i])) = i - 1
        /\ Cardinality(Before(T, number, M[j])) = j - 1
    BY <1>2, Places
  <2>3. \A t, u \in T : number[t] < number[u] <=>
          Cardinality(Before(T, number, t)) < Cardinality(Before(T, number, u))
    BY <1>2, Places
  <2> QED BY <1>7, <2>1, <2>2, <2>3
<1>8. \A t \in T : \E i \in 1..n : M[i] = t
  <2> SUFFICES ASSUME NEW t \in T PROVE \E i \in 1..n : M[i] = t
    OBVIOUS
  <2>1. /\ Cardinality(Before(T, number, t)) + 1 \in 1..n
        /\ M[Cardinality(Before(T, number, t)) + 1] = t
    BY <1>2, Places
  <2> QED BY <2>1
<1> HIDE DEF L, M, rank, n
<1>9. \A i \in 1..n : M[i] \in S /\ M[i] \in T
  BY <1>3
<1>10. place \in [1..n -> DOMAIN L]
  BY <1>3, <1>4, <1>9
<1>11. \A i, j \in 1..n : i < j => place[i] < place[j]
  BY <1>6, <1>7, <1>9
<1>12. M = [i \in 1..n |-> L[place[i]]]
  BY <1>3, <1>4, <1>9
<1>13. \A i \in 1..n : place[i] \in DOMAIN L /\ L[place[i]] \in T
  BY <1>3, <1>4, <1>9
<1>14. ASSUME NEW j \in DOMAIN L, L[j] \in T PROVE \E i \in 1..n : place[i] = j
  <2>1. PICK i \in 1..n : M[i] = L[j]
    BY <1>8, <1>14
  <2> QED BY <1>3, <1>5, <2>1
<1>15. \A j \in DOMAIN L : L[j] \notin S \ T <=> L[j] \in T
  BY <1>3
<1> HIDE DEF place
<1>16. {place[i] : i \in 1..n} = {j \in DOMAIN L : L[j] \notin S \ T}
  BY <1>13, <1>14, <1>15
<1>17. Len(L) = Cardinality(S)
  BY <1>1, <1>3
<1>18. n \in 0..Len(L)
  BY <1>1, <1>17 DEF n
<1> QED BY <1>10, <1>11, <1>12, <1>16, <1>18 DEF Thinned, L, M

-----------------------------------------------------------------------------
\* A call that has not been made has no number.
Unnumbered == \A t \in Tasks : status[t] = "new" => arrival[t] = 0

LEMMA UnnumberedKept == IInv /\ Unnumbered /\ [Next]_vars => Unnumbered'
<1> SUFFICES ASSUME IInv, Unnumbered, [Next]_vars PROVE Unnumbered'
  OBVIOUS
<1> USE DEF Unnumbered, IInv, TypeOK
<1>1. ASSUME NEW t \in Tasks, Run(t) PROVE Unnumbered'
  BY <1>1 DEF Run
<1>2. ASSUME arrival' = arrival, \A t \in Tasks : status'[t] = "new" => status[t] = "new"
      PROVE  Unnumbered'
  BY <1>2
<1>3. ASSUME NEW t \in Tasks, Refuse(t) \/ Abort(t) PROVE Unnumbered'
  BY <1>2, <1>3 DEF Refuse, Abort, SettleAs
<1>4. ASSUME StartNext, arrival' = arrival PROVE Unnumbered'
  BY <1>2, <1>4 DEF StartNext
<1>5. CASE Pump \/ Release
  BY <1>2, <1>4, <1>5 DEF Pump, Release
<1>6. CASE Begin \/ BeginAborted \/ Close \/ Drain \/ UNCHANGED vars
  BY <1>2, <1>6 DEF Begin, BeginAborted, Close, Drain, SettleAs, vars
<1>7. ASSUME NEW outcome \in {"resolved", "rejected"}, Settle(outcome) PROVE Unnumbered'
  BY <1>2, <1>7 DEF Settle, SettleAs
<1> QED BY <1>1, <1>3, <1>5, <1>6, <1>7 DEF Next

Line == InOrder(pending, arrival)
Seen == {t \in Tasks : arrival[t] > 0}

LEMMA EntriesNumbered == ASSUME IInv PROVE Numbered(pending, arrival)
BY TasksAssumption, FS_Subset DEF IInv, TypeOK, ArrivalsOrder, Numbered

\* shift() takes the head of the line.
LEMMA ShiftTakesHead ==
  ASSUME IInv, StartNext, arrival' = arrival, pending # {}
  PROVE  Line # <<>> /\ active' = Head(Line) /\ Line' = Tail(Line)
<1>1. PICK t \in pending : First(t) /\ active' = t /\ pending' = pending \ {t}
  BY DEF StartNext
<1>2. \A u \in pending : arrival[t] <= arrival[u]
  BY <1>1 DEF First
<1>3. /\ InOrder(pending, arrival) # <<>>
      /\ Head(InOrder(pending, arrival)) = t
      /\ Tail(InOrder(pending, arrival)) = InOrder(pending \ {t}, arrival)
  BY <1>2, EntriesNumbered, LineShifts
<1> QED BY <1>1, <1>3 DEF Line

LEMMA NobodyInLine == pending = {} => Line = <<>>
<1> SUFFICES ASSUME pending = {} PROVE Line = <<>>
  OBVIOUS
<1>1. Line = [i \in 1..0 |-> CHOOSE t \in pending : Cardinality(Before(pending, arrival, t)) = i - 1]
  BY FS_EmptySet DEF Line, InOrder
<1> QED BY <1>1

LEMMA LeaveIsThinning ==
  ASSUME NEW gone, Thinned(Line, Line', gone), active' = active, Seen' = Seen
  PROVE  Fifo!Leave(gone)
BY DEF Fifo!Leave, Thinned, Line, Seen

\* Each step of the queue is a step of the lane, or leaves it as it is.
LEMMA LaneStep ==
  IInv /\ Unnumbered /\ [Next]_vars => [Fifo!Next]_<<Line, active, Seen>>
<1> SUFFICES ASSUME IInv, Unnumbered, [Next]_vars
             PROVE  Fifo!Next \/ UNCHANGED <<Line, active, Seen>>
  OBVIOUS
<1>0. Numbered(pending, arrival)
  BY EntriesNumbered
<1> USE DEF IInv, TypeOK
<1>1. ASSUME NEW t \in Tasks, Run(t) PROVE Fifo!Join(t)
  <2>1. t \notin pending /\ arrival[t] = 0 /\ arrival'[t] = arrivals + 1 /\ active' = active
        /\ \A u \in Tasks : u # t => arrival'[u] = arrival[u]
    BY <1>1 DEF Run, Unnumbered, PendingAgrees
  <2>2. \A u \in pending : arrival'[u] = arrival[u] /\ arrival[u] < arrival'[t]
    BY <2>1 DEF ArrivalsOrder
  <2>3. arrival'[t] \in Nat
    BY <2>1
  <2>4. Latest(pending, arrival, t, arrival')
    BY <2>1, <2>2, <2>3 DEF Latest
  <2>5. Line' = Append(Line, t)
    <3>1. Lengthened(Line, InOrder(pending \union {t}, arrival'), t)
      BY <1>0, <2>4, LineGrows DEF Line
    <3>2. pending' = pending \union {t}
      BY <1>1 DEF Run
    <3> QED BY <3>1, <3>2 DEF Line, Lengthened
  <2>6. t \notin Seen /\ Seen' = Seen \union {t}
    BY <2>1 DEF Seen
  <2> QED BY <2>1, <2>5, <2>6 DEF Fifo!Join, Line, Seen
<1>2. ASSUME pending' \subseteq pending, arrival' = arrival, active' = active
      PROVE  Fifo!Leave(pending \ pending')
  <2>1. \A T \in SUBSET pending :
          Thinned(InOrder(pending, arrival), InOrder(T, arrival), pending \ T)
    BY <1>0, LineThins
  <2>2. Thinned(Line, Line', pending \ pending')
    BY <1>2, <2>1 DEF Line
  <2>3. Seen' = Seen
    BY <1>2 DEF Seen
  <2> DEFINE gone == pending \ pending'
  <2>4. Thinned(Line, Line', gone)
    BY <2>2
  <2> HIDE DEF gone
  <2>5. Fifo!Leave(gone)
    BY <1>2, <2>3, <2>4, LeaveIsThinning
  <2> QED BY <2>5 DEF gone
<1>3. ASSUME NEW t \in Tasks, Abort(t) PROVE Fifo!Next
  <2>1. Fifo!Leave(pending \ pending') /\ pending \ pending' \in SUBSET Tasks
    BY <1>2, <1>3 DEF Abort
  <2> QED BY <2>1 DEF Fifo!Next
<1>4. CASE Close
  <2>1. Fifo!Leave(pending \ pending') /\ pending \ pending' \in SUBSET Tasks
    BY <1>2, <1>4 DEF Close
  <2> QED BY <2>1 DEF Fifo!Next
<1>5. ASSUME arrival' = arrival, pending' = pending, active' = active
      PROVE  UNCHANGED <<Line, active, Seen>>
  BY <1>5 DEF Line, Seen
<1>6. CASE Pump
  <2>1. CASE active # NoTask
    BY <1>5, <1>6, <2>1 DEF Pump
  <2>2. CASE active = NoTask /\ pending = {}
    BY <1>5, <1>6, <2>2 DEF Pump, StartNext
  <2>3. CASE active = NoTask /\ pending # {}
    <3>1. Line # <<>> /\ active' = Head(Line) /\ Line' = Tail(Line) /\ Seen' = Seen
      BY <1>6, <2>3, ShiftTakesHead DEF Pump, Seen
    <3>2. Fifo!Take
      BY <2>3, <3>1 DEF Fifo!Take, Line, Seen
    <3> QED BY <3>2 DEF Fifo!Next
  <2> QED BY <2>1, <2>2, <2>3
<1>7. CASE Release
  <2>1. active # NoTask /\ StartNext /\ arrival' = arrival /\ Seen' = Seen
    BY <1>7 DEF Release, Seen
  <2>2. CASE pending = {}
    <3>1. active' = NoTask /\ Line = <<>> /\ Line' = Line
      BY <2>1, <2>2, NobodyInLine DEF StartNext, Line
    <3>2. Fifo!Yield
      BY <2>1, <3>1 DEF Fifo!Yield, Line, Seen
    <3> QED BY <3>2 DEF Fifo!Next
  <2>3. CASE pending # {}
    <3>1. Line # <<>> /\ active' = Head(Line) /\ Line' = Tail(Line)
      BY <2>1, <2>3, ShiftTakesHead
    <3>2. Fifo!Yield
      BY <2>1, <3>1 DEF Fifo!Yield, Line, Seen
    <3> QED BY <3>2 DEF Fifo!Next
  <2> QED BY <2>2, <2>3
<1>8. CASE Begin \/ BeginAborted \/ Drain \/ UNCHANGED vars
  BY <1>5, <1>8 DEF Begin, BeginAborted, Drain, vars
<1>9. ASSUME NEW t \in Tasks, Refuse(t) PROVE UNCHANGED <<Line, active, Seen>>
  BY <1>5, <1>9 DEF Refuse
<1>10. ASSUME NEW outcome \in {"resolved", "rejected"}, Settle(outcome)
       PROVE  UNCHANGED <<Line, active, Seen>>
  BY <1>5, <1>10 DEF Settle
<1> HIDE DEF IInv, TypeOK
<1> QED BY <1>1, <1>3, <1>4, <1>6, <1>7, <1>8, <1>9, <1>10 DEF Next, Fifo!Next

\* The queue is a first-in first-out lane with direct handover: run joins the line,
\* an abort or close() leaves it, and pump takes or yields the lane.
THEOREM LaneIsFifo == Spec => ImplementsFifoLock
<1>1. Init => Fifo!Init
  <2>1. Init => Line = <<>>
    BY NobodyInLine DEF Init
  <2> QED BY <2>1 DEF Init, Fifo!Init, Line
<1>2. Init => Unnumbered
  BY DEF Init, Unnumbered
<1>3. IInv /\ Unnumbered /\ [Next]_vars => [Fifo!Next]_Fifo!vars
  BY LaneStep DEF Fifo!vars, Line, Seen
<1> QED BY Invariance, UnnumberedKept, <1>1, <1>2, <1>3, PTL
        DEF Spec, ImplementsFifoLock, Fifo!Spec

-----------------------------------------------------------------------------
(* The lock file.  Two facts carry it: what runs without an await is alone on the thread, so
   nobody sees a lock half made or half removed, and a live owner is never judged stale,
   because a process spells its own identity the same way each time. *)

\* All the calls are made by one incarnated process at a time.
OneProcess == \A p, q \in Procs : p = q

Stretch == {"made", "refused", "clearing", "cleared", "finished", "releasing", "released"}
Inside(t) == pc[t] \in {"holding", "finished", "releasing"}
OwnerOf(t) == [task |-> t, pid |-> pid[Home[t]],
               fingerprint |-> <<"self", pid[Home[t]], epoch[Home[t]]>>]

\* A synchronous stretch has the thread, and a task under way has a process.
StretchesAreAlone ==
  /\ \A t \in Callers : pc[t] \in Stretch => thread[Home[t]] = t
  /\ \A t \in Callers : pc[t] \notin Ended \union {"new"} => pid[Home[t]] # None

\* Who is inside owns the lock, and the lock is in nobody's hands while it is
\* made or removed.
InsideOwns ==
  /\ \A t \in Callers : Inside(t) => lock = "owned" /\ owner = OwnerOf(t)
  /\ \A t \in Callers : pc[t] = "made" => lock = "bare"
  /\ \A t, u \in Callers : pc[t] \in {"made", "clearing", "cleared", "released"} => ~Inside(u)

\* The operation works on the file as it is.
SnapshotIsCurrent == \A t \in Callers : pc[t] = "holding" => snapshot[t] = file

LockInv ==
  /\ LockTypeOK
  /\ StretchesAreAlone
  /\ InsideOwns
  /\ SnapshotIsCurrent
  /\ NoLostUpdate

-----------------------------------------------------------------------------
LEMMA OwnerTyped ==
  ASSUME LockTypeOK, NEW t \in Callers, Scheduled(t)
  PROVE  /\ pid[Home[t]] \in Pids
         /\ OwnerOf(t) \in Owners /\ OwnerOf(t) # None
         /\ Fingerprint(Home[t], pid[Home[t]]) = <<"self", pid[Home[t]], epoch[Home[t]]>>
<1>1. Home[t] \in Procs /\ pid[Home[t]] \in Pids /\ epoch[Home[t]] \in 0..MaxRestarts
  BY LockAssumption DEF LockTypeOK, Scheduled
<1>2. OwnerOf(t) \in Owners
  BY <1>1 DEF OwnerOf, Owners
<1> QED BY <1>1, <1>2, LockAssumption DEF Fingerprint

LEMMA TypesKept == LockTypeOK /\ [LockNext]_lockVars => LockTypeOK'
<1> SUFFICES ASSUME LockTypeOK, [LockNext]_lockVars PROVE LockTypeOK'
  OBVIOUS
<1> USE LockAssumption DEF LockTypeOK, Steps, Ended, Continue, Await, Return, Data, System
<1>1. ASSUME NEW t \in Callers, Attempt(t) PROVE LockTypeOK'
  BY <1>1 DEF Attempt
<1>2. ASSUME NEW t \in Callers, WriteOwner(t) PROVE LockTypeOK'
  <2>1. CASE lock = "free"
    BY <1>2, <2>1 DEF WriteOwner
  <2>2. CASE lock # "free"
    <3>1. owner' = OwnerOf(t)
      BY <1>2, <2>2, OwnerTyped DEF WriteOwner, OwnerOf
    <3>2. owner' \in Owners /\ owner' # None
      BY <1>2, <3>1, OwnerTyped DEF WriteOwner
    <3>3. lock' = "owned"
      BY <1>2, <2>2 DEF WriteOwner
    <3>4. pc' \in [Callers -> Steps] /\ thread' \in [Procs -> Callers \union {None}]
      BY <1>2, <2>2 DEF WriteOwner
    <3>5. snapshot' \in [Callers -> SUBSET Callers]
      BY <1>2, <2>2 DEF WriteOwner
    <3> QED BY <1>2, <3>2, <3>3, <3>4, <3>5 DEF WriteOwner
  <2> QED BY <2>1, <2>2
<1>3. ASSUME NEW t \in Callers, Judge(t) PROVE LockTypeOK'
  BY <1>3 DEF Judge
<1>4. ASSUME NEW t \in Callers, Unlink(t) PROVE LockTypeOK'
  BY <1>4 DEF Unlink
<1>5. ASSUME NEW t \in Callers, Rmdir(t) PROVE LockTypeOK'
  <2>1. pc' \in [Callers -> Steps] /\ thread' \in [Procs -> Callers \union {None}]
    BY <1>5 DEF Rmdir
  <2>2. lock' \in {"free", "bare", "owned"} /\ (lock' = "owned" <=> owner' # None)
    BY <1>5 DEF Rmdir
  <2> QED BY <1>5, <2>1, <2>2 DEF Rmdir
<1>6. ASSUME NEW t \in Callers, TimeOut(t) PROVE LockTypeOK'
  BY <1>6 DEF TimeOut
<1>7. ASSUME NEW t \in Callers, Finish(t) PROVE LockTypeOK'
  BY <1>7 DEF Finish
<1>8. ASSUME NEW t \in Callers, Unlock(t) PROVE LockTypeOK'
  BY <1>8 DEF Unlock
<1>9. CASE Age
  BY <1>9 DEF Age
<1>10. ASSUME NEW p \in Procs, Crash(p) PROVE LockTypeOK'
  BY <1>10 DEF Crash
<1>11. ASSUME NEW p \in Procs, Restart(p) PROVE LockTypeOK'
  <2>1. epoch[p] + 1 \in 0..MaxRestarts
    BY <1>11 DEF Restart
  <2> QED BY <1>11, <2>1 DEF Restart
<1>12. CASE UNCHANGED lockVars
  BY <1>12 DEF lockVars
<1> QED BY <1>1, <1>2, <1>3, <1>4, <1>5, <1>6, <1>7, <1>8, <1>9, <1>10, <1>11, <1>12
           DEF LockNext, Step

LEMMA TypesAtInit == LockInit => LockTypeOK
<1> SUFFICES ASSUME LockInit PROVE LockTypeOK
  OBVIOUS
<1>1. pc \in [Callers -> Steps]
  BY DEF LockInit, Steps
<1>2. thread \in [Procs -> Callers \union {None}] /\ pid \in [Procs -> Pids \union {None}]
  BY DEF LockInit
<1>3. epoch \in [Procs -> 0..MaxRestarts]
  BY LockAssumption DEF LockInit
<1>4. snapshot \in [Callers -> SUBSET Callers]
  BY DEF LockInit
<1> QED BY <1>1, <1>2, <1>3, <1>4 DEF LockInit, LockTypeOK

\* The lock's variables keep their types, over any number of processes.
THEOREM LockTyping == LockSpec => []LockTypeOK
BY TypesAtInit, TypesKept, PTL DEF LockSpec

-----------------------------------------------------------------------------
\* Where a scheduled task moves, every other task is outside its stretches.
LEMMA OthersAwait ==
  ASSUME OneProcess, LockInv, NEW t \in Callers, Scheduled(t), NEW u \in Callers, u # t
  PROVE  pc[u] \notin Stretch /\ Home[u] = Home[t]
BY LockAssumption DEF OneProcess, LockInv, StretchesAreAlone, Scheduled

\* A live owner is not stale.
LEMMA OwnersAreFresh ==
  ASSUME OneProcess, LockInv, NEW t \in Callers, NEW u \in Callers, Scheduled(t), Inside(u)
  PROVE  ~StaleLock(Home[t])
<1>1. Home[u] = Home[t]
  BY LockAssumption DEF OneProcess
<1>2. lock = "owned" /\ owner = OwnerOf(u)
  BY DEF LockInv, InsideOwns
<1>3. Matches(Home[t], owner)
  BY <1>1, <1>2, OwnerTyped DEF Matches, OwnerOf, LockInv
<1> QED BY <1>2, <1>3 DEF StaleLock

LEMMA LockStep == OneProcess /\ LockInv /\ [LockNext]_lockVars => LockInv'
<1> SUFFICES ASSUME OneProcess, LockInv, [LockNext]_lockVars PROVE LockInv'
  OBVIOUS
<1>0. LockTypeOK'
  BY TypesKept DEF LockInv
<1> USE LockAssumption DEF Continue, Await, Return, Data, System, Stretch, Ended, OwnerOf, Inside
<1>1. ASSUME NEW t \in Callers, Attempt(t) PROVE LockInv'
  <2>1. \A u \in Callers : u # t => pc[u] \notin Stretch /\ Home[u] = Home[t]
    BY <1>1, OthersAwait DEF Attempt
  <2>2. StretchesAreAlone'
    BY <1>1, <2>1 DEF Attempt, LockInv, StretchesAreAlone, LockTypeOK, Scheduled
  <2>3. InsideOwns'
    BY <1>1, <2>1 DEF Attempt, LockInv, InsideOwns, LockTypeOK
  <2>4. SnapshotIsCurrent' /\ NoLostUpdate'
    BY <1>1 DEF Attempt, LockInv, SnapshotIsCurrent, NoLostUpdate, LockTypeOK
  <2> QED BY <1>0, <2>2, <2>3, <2>4 DEF LockInv
<1>2. ASSUME NEW t \in Callers, WriteOwner(t) PROVE LockInv'
  <2>1. \A u \in Callers : u # t => pc[u] \notin Stretch /\ Home[u] = Home[t]
    BY <1>2, OthersAwait DEF WriteOwner
  <2>2. lock = "bare" /\ (\A u \in Callers : ~Inside(u)) /\ owner' = OwnerOf(t)
    BY <1>2, OwnerTyped DEF WriteOwner, LockInv, InsideOwns
  <2>3. StretchesAreAlone'
    BY <1>2, <2>1, <2>2 DEF WriteOwner, LockInv, StretchesAreAlone, LockTypeOK, Scheduled
  <2>4. InsideOwns'
    BY <1>2, <2>1, <2>2 DEF WriteOwner, LockInv, InsideOwns, LockTypeOK
  <2>5. SnapshotIsCurrent' /\ NoLostUpdate'
    BY <1>2, <2>2 DEF WriteOwner, LockInv, SnapshotIsCurrent, NoLostUpdate, LockTypeOK
  <2> QED BY <1>0, <2>3, <2>4, <2>5 DEF LockInv
<1>3. ASSUME NEW t \in Callers, Judge(t) PROVE LockInv'
  <2>1. \A u \in Callers : u # t => pc[u] \notin Stretch /\ Home[u] = Home[t]
    BY <1>3, OthersAwait DEF Judge
  <2>2. StaleLock(Home[t]) => \A u \in Callers : ~Inside(u)
    BY <1>3, OwnersAreFresh DEF Judge
  <2>3. StretchesAreAlone'
    BY <1>3, <2>1 DEF Judge, LockInv, StretchesAreAlone, LockTypeOK, Scheduled
  <2>4. InsideOwns'
    BY <1>3, <2>1, <2>2 DEF Judge, LockInv, InsideOwns, LockTypeOK
  <2>5. SnapshotIsCurrent' /\ NoLostUpdate'
    BY <1>3 DEF Judge, LockInv, SnapshotIsCurrent, NoLostUpdate, LockTypeOK
  <2> QED BY <1>0, <2>3, <2>4, <2>5 DEF LockInv
<1>4. ASSUME NEW t \in Callers, Unlink(t) PROVE LockInv'
  <2>1. \A u \in Callers : u # t => pc[u] \notin Stretch /\ Home[u] = Home[t]
    BY <1>4, OthersAwait DEF Unlink
  <2>2. \A u \in Callers : u # t => ~Inside(u)
    BY <1>4, <2>1 DEF Unlink, LockInv, InsideOwns
  <2>3. StretchesAreAlone'
    BY <1>4, <2>1 DEF Unlink, LockInv, StretchesAreAlone, LockTypeOK, Scheduled
  <2>4. InsideOwns'
    BY <1>4, <2>1, <2>2 DEF Unlink, LockInv, InsideOwns, LockTypeOK
  <2>5. SnapshotIsCurrent' /\ NoLostUpdate'
    BY <1>4 DEF Unlink, LockInv, SnapshotIsCurrent, NoLostUpdate, LockTypeOK
  <2> QED BY <1>0, <2>3, <2>4, <2>5 DEF LockInv
<1>5. ASSUME NEW t \in Callers, Rmdir(t) PROVE LockInv'
  <2>1. \A u \in Callers : u # t => pc[u] \notin Stretch /\ Home[u] = Home[t]
    BY <1>5, OthersAwait DEF Rmdir
  <2>2. \A u \in Callers : ~Inside(u)
    BY <1>5 DEF Rmdir, LockInv, InsideOwns
  <2>3. StretchesAreAlone'
    BY <1>5, <2>1 DEF Rmdir, LockInv, StretchesAreAlone, LockTypeOK, Scheduled
  <2>4. InsideOwns'
    BY <1>5, <2>1, <2>2 DEF Rmdir, LockInv, InsideOwns, LockTypeOK
  <2>5. SnapshotIsCurrent' /\ NoLostUpdate'
    BY <1>5 DEF Rmdir, LockInv, SnapshotIsCurrent, NoLostUpdate, LockTypeOK
  <2> QED BY <1>0, <2>3, <2>4, <2>5 DEF LockInv
<1>6. ASSUME NEW t \in Callers, TimeOut(t) PROVE LockInv'
  <2>1. \A u \in Callers : u # t => pc[u] \notin Stretch /\ Home[u] = Home[t]
    BY <1>6, OthersAwait DEF TimeOut
  <2>2. StretchesAreAlone' /\ InsideOwns'
    BY <1>6, <2>1 DEF TimeOut, LockInv, StretchesAreAlone, InsideOwns, LockTypeOK
  <2>3. SnapshotIsCurrent' /\ NoLostUpdate'
    BY <1>6 DEF TimeOut, LockInv, SnapshotIsCurrent, NoLostUpdate, LockTypeOK
  <2> QED BY <1>0, <2>2, <2>3 DEF LockInv
<1>7. ASSUME NEW t \in Callers, Finish(t) PROVE LockInv'
  <2>1. \A u \in Callers : u # t => pc[u] \notin Stretch /\ Home[u] = Home[t]
    BY <1>7, OthersAwait DEF Finish
  <2>2. \A u \in Callers : u # t => ~Inside(u)
    BY <1>7 DEF Finish, LockInv, InsideOwns
  <2>3. snapshot[t] = file
    BY <1>7 DEF Finish, LockInv, SnapshotIsCurrent
  <2>4. StretchesAreAlone'
    BY <1>7, <2>1 DEF Finish, LockInv, StretchesAreAlone, LockTypeOK, Scheduled
  <2>5. InsideOwns'
    BY <1>7, <2>1, <2>2 DEF Finish, LockInv, InsideOwns, LockTypeOK
  <2>6. SnapshotIsCurrent'
    BY <1>7, <2>2 DEF Finish, LockInv, SnapshotIsCurrent, LockTypeOK
  <2>7. NoLostUpdate'
    BY <1>7, <2>3 DEF Finish, LockInv, NoLostUpdate
  <2> QED BY <1>0, <2>4, <2>5, <2>6, <2>7 DEF LockInv
<1>8. ASSUME NEW t \in Callers, Unlock(t) PROVE LockInv'
  <2>1. \A u \in Callers : u # t => pc[u] \notin Stretch /\ Home[u] = Home[t]
    BY <1>8, OthersAwait DEF Unlock
  <2>2. StretchesAreAlone'
    BY <1>8, <2>1 DEF Unlock, LockInv, StretchesAreAlone, LockTypeOK, Scheduled
  <2>3. InsideOwns'
    BY <1>8, <2>1 DEF Unlock, LockInv, InsideOwns, LockTypeOK
  <2>4. SnapshotIsCurrent' /\ NoLostUpdate'
    BY <1>8 DEF Unlock, LockInv, SnapshotIsCurrent, NoLostUpdate, LockTypeOK
  <2> QED BY <1>0, <2>2, <2>3, <2>4 DEF LockInv
<1>9. CASE Age
  BY <1>0, <1>9 DEF Age, LockInv, StretchesAreAlone, InsideOwns, SnapshotIsCurrent, NoLostUpdate
<1>10. ASSUME NEW p \in Procs, Crash(p) PROVE LockInv'
  <2>1. \A t \in Callers : Home[t] = p /\ pc'[t] \in Ended \union {"new"}
    BY <1>10 DEF Crash, OneProcess
  <2> QED BY <1>0, <1>10, <2>1
          DEF Crash, LockInv, StretchesAreAlone, InsideOwns, SnapshotIsCurrent, NoLostUpdate
<1>11. ASSUME NEW p \in Procs, Restart(p) PROVE LockInv'
  <2>1. \A t \in Callers : Home[t] = p /\ pc[t] \in Ended \union {"new"}
    BY <1>11 DEF Restart, OneProcess, LockInv, StretchesAreAlone
  <2> QED BY <1>0, <1>11, <2>1
          DEF Restart, LockInv, StretchesAreAlone, InsideOwns, SnapshotIsCurrent, NoLostUpdate
<1>12. CASE UNCHANGED lockVars
  BY <1>0, <1>12 DEF lockVars, LockInv, StretchesAreAlone, InsideOwns, SnapshotIsCurrent, NoLostUpdate
<1> QED BY <1>1, <1>2, <1>3, <1>4, <1>5, <1>6, <1>7, <1>8, <1>9, <1>10, <1>11, <1>12
           DEF LockNext, Step

LEMMA LockInductive == OneProcess => (LockSpec => []LockInv)
<1> SUFFICES ASSUME OneProcess PROVE LockSpec => []LockInv
  OBVIOUS
<1>1. LockInit => LockInv
  BY TypesAtInit DEF LockInit, LockInv, StretchesAreAlone, InsideOwns, SnapshotIsCurrent, NoLostUpdate,
                         Inside, Stretch, Ended
<1>2. LockInv /\ [LockNext]_lockVars => LockInv'
  BY LockStep
<1> QED BY <1>1, <1>2, PTL DEF LockSpec

\* No call of the process writes back an older copy of the guarded file, whatever
\* locks its earlier incarnations left behind (file-lock.ts: withFileLock).
THEOREM UpdatesAreKept == OneProcess => (LockSpec => []NoLostUpdate)
BY LockInductive, PTL DEF LockInv

\* And a call finds its own lock on disk as long as its operation runs.
THEOREM HoldersKeepLock == OneProcess => (LockSpec => []HolderKeepsLock)
<1>1. LockInv => HolderKeepsLock
  BY DEF LockInv, InsideOwns, Inside, OwnerOf, HolderKeepsLock
<1> QED BY <1>1, LockInductive, PTL
=============================================================================
