------------------------- MODULE SessionManagerProofs -------------------------
(***************************************************************************)
(* The session table keeps its promises for any calls, names, limits and   *)
(* sweeps.  Everything rests on the counters: a count of zero, which is    *)
(* what the code looks at, means that no call holds the session, so what a *)
(* sweep, an eviction or delete() takes is nobody's, and the startup tab   *)
(* changes hands only between objects that nobody uses.                    *)
(***************************************************************************)
EXTENDS SessionManager, FiniteSetTheorems, TLAPS

Creating == {"evicting", "opening", "preparing"}
Holding == {"resolved", "queued", "running"}
Unborn == {"new", "rehydrating", "joining", "evicting", "opening", "preparing"}

\* What a call holds at each place of the code.
RequestShape ==
  \A r \in Reqs :
    /\ req[r].pc \in Holding => req[r].obj \in Objs
    /\ req[r].pc \in Creating \union {"joining"} => req[r].id \in Ids
    /\ req[r].pc \in Holding => req[r].id \in Ids
    /\ req[r].pc = "rehydrating" => req[r].id = Default
    /\ req[r].pc = "evicting" => req[r].victim \in Objs

\* One creation per name, and none for a name in the table.
CreationsAgree ==
  /\ \A r \in Reqs : req[r].pc \in Creating => creating[req[r].id] = r
  /\ \A id \in Ids : creating[id] # None => sessions[id] = None

\* An object is nowhere before its request has created it.
FreshObjects ==
  \A r \in Reqs : req[r].pc \in Unborn =>
    /\ r \notin Live
    /\ page[r] = None
    /\ drives[r] = None
    /\ removal[r] = "no"
    /\ Holders(r) = {}

TableShape ==
  /\ sessions[Default] = Default
  /\ \A id \in Named : sessions[id] # Default
  /\ \A o \in Live : removal[o] = "no"
  /\ \A s \in Sweepers : sweep[s].phase = "stale" => Default \notin sweep[s].todo

\* The tab of an object is the one opened for it, or the startup tab.
TabsOfObjects ==
  \A o \in Reqs :
    /\ page[o] \in {None, o, Startup}
    /\ drives[o] \in {None, page[o]}
    /\ o \in Live => drives[o] # None
    /\ o \in open => req[o].pc = "preparing" \/ page[o] = o
    /\ removal[o] = "resetting" => page[o] = Startup

Owns(o) == page[o] = Startup /\ (o \in Live \/ removal[o] \in {"closing", "resetting"})
StartupOwned ==
  /\ \A o \in Reqs : Owns(o) => adopted
  /\ \A o, p \in Reqs : Owns(o) /\ Owns(p) => o = p

DefaultTab ==
  /\ page[Default] \in {None, Startup, Default}
  /\ drives[Default] \in {Startup, Default}
  /\ adopted => page[Default] # Startup
  /\ page[Default] = Default => defaultUsed /\ drives[Default] = Default
  /\ rehydration # "none" => defaultUsed
  /\ adopted /\ Holders(Default) # {} => drives[Default] = Default

TabsOfCalls ==
  /\ \A r \in Reqs : req[r].pc = "running" =>
       IF req[r].obj = Default
         THEN /\ req[r].tab \in {Startup, Default}
              /\ adopted => req[r].tab = Default
         ELSE req[r].tab = drives[req[r].obj] /\ req[r].tab # None
  /\ \A r, q \in Reqs :
       req[r].pc = "running" /\ req[q].pc = "running" /\ req[r].obj = req[q].obj
       /\ Lane(req[r].kind) = Lane(req[q].kind) => r = q

\* Once closed, no call enters a lane.
NoNewWork ==
  closed => \A r \in Reqs :
    /\ req[r].pc # "queued"
    /\ req[r].pc = "resolved" => req[r].obj \in shut

IInv ==
  /\ TypeOK
  /\ ReservationsAgree
  /\ RequestShape
  /\ CreationsAgree
  /\ FreshObjects
  /\ TableShape
  /\ HeldSessionStays
  /\ TabsOfObjects
  /\ StartupOwned
  /\ DefaultTab
  /\ TabsOfCalls
  /\ NoNewWork
  /\ TabIsolation
  /\ LeasesOwned

-----------------------------------------------------------------------------
(* Calls and the sets of calls. *)

LEMMA CallIs ==
  ASSUME NEW k \in Kinds, NEW id \in Ids
  PROVE  /\ Call(k, id) \in Request
         /\ Call(k, id).pc = "new"
         /\ Call(k, id).id = id
BY DEF Call, Blank, Request

LEMMA FinishedIs == Finished \in Request /\ Finished.pc = "done" /\ Finished.obj = None
BY DEF Finished, Blank, Request

LEMMA FiniteCalls ==
  ASSUME NEW o, NEW pcs
  PROVE  IsFiniteSet(Using(o, pcs)) /\ Cardinality(Using(o, pcs)) \in Nat
<1>1. Using(o, pcs) \in SUBSET Reqs
  BY DEF Using
<1> QED BY <1>1, NamesAssumption, FS_Subset, FS_CardinalityType

\* A count of zero means that nobody holds the object.
LEMMA NoReservation ==
  ASSUME ReservationsAgree, NEW o \in Objs, reservations[o] = 0
  PROVE  Holders(o) = {}
BY FiniteCalls, FS_EmptySet DEF ReservationsAgree, Holders

\* One call more, one call less, or none in any object.
LEMMA OneHolderMore ==
  ASSUME TypeOK, ReservationsAgree, NEW r \in Reqs, NEW p \in Objs,
         req'[r].pc \in Holding, req'[r].obj = p, req[r].pc \notin Holding,
         \A q \in Reqs \ {r} : req'[q] = req[q],
         reservations' = [reservations EXCEPT ![p] = @ + 1]
  PROVE  ReservationsAgree' /\ reservations' \in [Objs -> Nat]
<1>1. Holders(p)' = Holders(p) \union {r} /\ r \notin Holders(p)
  BY DEF Holders, Using, Holding
<1>2. \A o \in Objs \ {p} : Holders(o)' = Holders(o)
  BY DEF Holders, Using, Holding
<1>3. Cardinality(Holders(p)') = Cardinality(Holders(p)) + 1
  BY <1>1, FiniteCalls, FS_AddElement DEF Holders
<1> QED BY <1>2, <1>3 DEF ReservationsAgree, TypeOK

LEMMA OneHolderLess ==
  ASSUME TypeOK, ReservationsAgree, NEW r \in Reqs, NEW p \in Objs,
         req[r].pc \in Holding, req[r].obj = p, req'[r].pc \notin Holding,
         \A q \in Reqs \ {r} : req'[q] = req[q],
         reservations' = [reservations EXCEPT ![p] = @ - 1]
  PROVE  ReservationsAgree' /\ reservations' \in [Objs -> Nat]
<1>1. Holders(p)' = Holders(p) \ {r} /\ r \in Holders(p)
  BY DEF Holders, Using, Holding
<1>2. \A o \in Objs \ {p} : Holders(o)' = Holders(o)
  BY DEF Holders, Using, Holding
<1>3. Cardinality(Holders(p)') = Cardinality(Holders(p)) - 1
  BY <1>1, FiniteCalls, FS_RemoveElement DEF Holders
<1>4. Cardinality(Holders(p)') \in Nat
  BY <1>1, FiniteCalls, FS_RemoveElement, FS_CardinalityType DEF Holders
<1> QED BY <1>2, <1>3, <1>4 DEF ReservationsAgree, TypeOK

LEMMA SameHolders ==
  ASSUME TypeOK, ReservationsAgree, UNCHANGED reservations,
         \A q \in Reqs : \/ req'[q].pc \in Holding /\ req[q].pc \in Holding
                             /\ req'[q].obj = req[q].obj
                         \/ req'[q].pc \notin Holding /\ req[q].pc \notin Holding
  PROVE  ReservationsAgree' /\ reservations' \in [Objs -> Nat]
<1>1. \A o \in Objs : Holders(o)' = Holders(o)
  BY DEF Holders, Using, Holding
<1> QED BY <1>1 DEF ReservationsAgree, TypeOK

-----------------------------------------------------------------------------
(* The tabs of the calls that run, while the manager is open: two objects *)
(* never drive one tab, because the startup tab has one owner.            *)

TabFacts ==
  /\ TypeOK
  /\ RequestShape
  /\ TableShape
  /\ HeldSessionStays
  /\ TabsOfObjects
  /\ StartupOwned
  /\ DefaultTab
  /\ TabsOfCalls

LEMMA TabsApart == TabFacts /\ ~closed => TabIsolation
<1> SUFFICES ASSUME TabFacts, ~closed PROVE TabIsolation
  OBVIOUS
<1>1. ASSUME NEW r \in Reqs, req[r].pc = "running"
      PROVE  req[r].obj \in Live /\ req[r].obj \in Objs
  BY <1>1, NamesAssumption DEF closed, TabFacts, HeldSessionStays, RequestShape, Holding, Live, Tabs
<1>2. ASSUME NEW r \in Reqs, req[r].pc = "running", req[r].obj # Default, req[r].tab = Startup
      PROVE  req[r].obj \in Reqs /\ Owns(req[r].obj)
  BY <1>1, <1>2, NamesAssumption DEF TabFacts, TabsOfCalls, TabsOfObjects, Owns, Objs, Tabs
<1>3. ASSUME NEW r \in Reqs, NEW q \in Reqs, r # q, req[r].pc = "running", req[q].pc = "running",
             Lane(req[r].kind) = "chat", Lane(req[q].kind) = "chat"
      PROVE  req[r].tab # req[q].tab
  <2>1. req[r].obj # req[q].obj
    BY <1>3 DEF TabFacts, TabsOfCalls
  <2>2. CASE req[r].obj = Default
    BY <1>1, <1>2, <1>3, <2>1, <2>2, NamesAssumption
       DEF TabFacts, TabsOfCalls, TabsOfObjects, StartupOwned, Objs, Tabs
  <2>3. CASE req[q].obj = Default
    BY <1>1, <1>2, <1>3, <2>1, <2>3, NamesAssumption
       DEF TabFacts, TabsOfCalls, TabsOfObjects, StartupOwned, Objs, Tabs
  <2>4. CASE req[r].obj # Default /\ req[q].obj # Default
    BY <1>1, <1>2, <1>3, <2>1, <2>4, NamesAssumption
       DEF TabFacts, TabsOfCalls, TabsOfObjects, StartupOwned, Objs, Tabs
  <2> QED BY <2>2, <2>3, <2>4
<1>4. ASSUME NEW o \in Objs, removal[o] = "resetting",
             NEW r \in Reqs, req[r].pc = "running", req[r].tab = Startup
      PROVE  FALSE
  <2>1. o \notin Live /\ o \in Reqs
    <3>1. Default \in Live
      BY NamesAssumption DEF TabFacts, TableShape, Live, Ids
    <3> QED BY <1>4, <3>1 DEF TabFacts, TableShape, Objs
  <2>2. Owns(o) /\ adopted
    BY <1>4, <2>1 DEF TabFacts, TabsOfObjects, Owns, StartupOwned
  <2>3. req[r].obj # Default
    BY <1>4, <2>2, NamesAssumption DEF TabFacts, TabsOfCalls, Objs, Tabs
  <2> QED BY <1>1, <1>2, <1>4, <2>1, <2>2, <2>3 DEF TabFacts, StartupOwned
<1> QED BY <1>3, <1>4 DEF closed, TabIsolation

-----------------------------------------------------------------------------
(* A step of one call that creates nothing. *)

USE DEF sessionVars, tabVars, routeVars

LEMMA CallKeepsTable ==
  ASSUME IInv, NEW r \in Reqs, NEW c \in Request,
         req' = [req EXCEPT ![r] = c],
         req[r].pc \notin Creating, c.pc \notin Creating,
         c.pc \in Unborn => req[r].pc \in Unborn,
         c.pc \in Holding => c.obj \in Live \/ (req[r].pc \in Holding /\ c.obj = req[r].obj),
         UNCHANGED <<sessions, creating, page, drives, open, removal, adopted, sweep, closing>>
  PROVE  CreationsAgree' /\ FreshObjects' /\ TableShape' /\ TabsOfObjects' /\ StartupOwned'
         /\ LeasesOwned'
<1>1. CreationsAgree'
  BY DEF IInv, TypeOK, CreationsAgree
<1>2. FreshObjects'
  BY DEF IInv, TypeOK, FreshObjects, Live, Holders, Using, Holding
<1>3. TableShape'
  BY DEF IInv, TableShape, Live
<1>4. TabsOfObjects'
  BY DEF IInv, TypeOK, TabsOfObjects, Live, Creating
<1>5. StartupOwned'
  BY DEF IInv, StartupOwned, Owns, Live
<1>6. LeasesOwned'
  BY DEF IInv, TypeOK, LeasesOwned, Live, Creating
<1> QED BY <1>1, <1>2, <1>3, <1>4, <1>5, <1>6

LEMMA CallEnds ==
  ASSUME IInv, TypeOK', ReservationsAgree', NEW r \in Reqs,
         req' = [req EXCEPT ![r] = Finished],
         req[r].pc \notin Creating,
         UNCHANGED <<sessions, creating, page, drives, shut, open, removal, routeVars,
                     sweep, closing>>
  PROVE  IInv'
<1>1. RequestShape' /\ HeldSessionStays' /\ NoNewWork'
  BY FinishedIs DEF IInv, closed, TypeOK, RequestShape, Holding, Creating, HeldSessionStays, NoNewWork
<1>2. DefaultTab' /\ TabsOfCalls'
  BY FinishedIs DEF IInv, TypeOK, DefaultTab, TabsOfCalls, Holders, Using
<1>3. TabIsolation'
  BY FinishedIs DEF IInv, closed, TypeOK, TabIsolation
<1>4. CreationsAgree' /\ FreshObjects' /\ TableShape' /\ TabsOfObjects' /\ StartupOwned'
      /\ LeasesOwned'
  BY FinishedIs, CallKeepsTable DEF Creating, Unborn, Holding
<1> QED BY <1>1, <1>2, <1>3, <1>4 DEF IInv

LEMMA ResolveClosedKeeps == ASSUME IInv, NEW r \in Reqs, ResolveClosed(r) PROVE IInv'
<1>1. ReservationsAgree' /\ TypeOK'
  <2>1. ReservationsAgree' /\ reservations' \in [Objs -> Nat]
    BY FinishedIs, SameHolders DEF IInv, TypeOK, ResolveClosed, Holding
  <2> QED BY <2>1, FinishedIs DEF IInv, TypeOK, ResolveClosed
<1> QED BY <1>1, CallEnds DEF ResolveClosed, Creating

LEMMA ResolveLiveKeeps ==
  ASSUME IInv, NEW r \in Reqs, NEW k \in Kinds, NEW id \in Ids, ResolveLive(r, k, id)
  PROVE  IInv'
<1> DEFINE c == [Call(k, id) EXCEPT !.pc = "resolved", !.obj = sessions[id]]
<1>1. sessions[id] \in Objs /\ sessions[id] \in Live
  BY DEF IInv, TypeOK, ResolveLive, Live
<1>2. /\ c \in Request /\ c.pc = "resolved" /\ c.obj = sessions[id] /\ c.id = id
      /\ req' = [req EXCEPT ![r] = c]
  <2>1. c \in Request /\ c.pc = "resolved" /\ c.obj = sessions[id] /\ c.id = id
    <3> DEFINE b == Call(k, id)
    <3>1. b \in Request /\ b.id = id
      BY CallIs
    <3> HIDE DEF b
    <3>2. LET d == [b EXCEPT !.pc = "resolved", !.obj = sessions[id]]
          IN  d \in Request /\ d.pc = "resolved" /\ d.obj = sessions[id] /\ d.id = id
      BY <1>1, <3>1 DEF Request
    <3> QED BY <3>2 DEF b
  <2> QED BY <2>1 DEF ResolveLive
<1>3. ReservationsAgree' /\ reservations' \in [Objs -> Nat]
  BY <1>1, <1>2, OneHolderMore DEF IInv, TypeOK, ResolveLive, Holding
<1>4. TypeOK'
  BY <1>2, <1>3 DEF IInv, TypeOK, ResolveLive
<1>5. CreationsAgree' /\ FreshObjects' /\ TableShape' /\ TabsOfObjects' /\ StartupOwned'
      /\ LeasesOwned'
  BY <1>1, <1>2, CallKeepsTable DEF ResolveLive, Creating, Unborn, Holding
<1>6. RequestShape' /\ HeldSessionStays' /\ NoNewWork'
  BY <1>1, <1>2 DEF closed, IInv, TypeOK, ResolveLive, RequestShape, Holding, Creating,
                    HeldSessionStays, NoNewWork
<1>7. TabsOfCalls' /\ TabIsolation'
  BY <1>2 DEF closed, IInv, TypeOK, ResolveLive, TabsOfCalls, TabIsolation
<1>8. DefaultTab'
  <2>1. id # Default => sessions[id] # Default
    BY DEF IInv, TableShape, Ids
  <2>2. id = Default /\ adopted => page[Default] = Default
    BY DEF IInv, DefaultTab, ResolveLive, DefaultNeedsTab
  <2> QED BY <1>2, <2>1, <2>2 DEF IInv, TypeOK, ResolveLive, DefaultTab, Holders, Using
<1> QED BY <1>3, <1>4, <1>5, <1>6, <1>7, <1>8 DEF IInv

\* A call starts to wait: for the default tab, or for another call's creation.
LEMMA CallWaits ==
  ASSUME IInv, NEW r \in Reqs, NEW k \in Kinds, NEW id \in Ids, NEW pc \in {"rehydrating", "joining"},
         pc = "rehydrating" => id = Default, req[r].pc = "new", ~closed,
         req' = [req EXCEPT ![r] = [Call(k, id) EXCEPT !.pc = pc]],
         defaultUsed' \in BOOLEAN, defaultUsed => defaultUsed',
         rehydration' \in {"none", "opening", "preparing"},
         rehydration' # "none" => defaultUsed' \/ rehydration # "none",
         UNCHANGED <<sessionVars, tabVars, adopted, sweep, closing>>
  PROVE  IInv'
<1> DEFINE c == [Call(k, id) EXCEPT !.pc = pc]
<1>1. /\ c \in Request /\ c.pc = pc /\ c.id = id /\ req' = [req EXCEPT ![r] = c]
  BY CallIs DEF Request
<1>2. ReservationsAgree' /\ reservations' \in [Objs -> Nat]
  BY <1>1, SameHolders DEF IInv, TypeOK, Holding
<1>3. TypeOK'
  BY <1>1, <1>2 DEF IInv, TypeOK
<1>4. CreationsAgree' /\ FreshObjects' /\ TableShape' /\ TabsOfObjects' /\ StartupOwned'
      /\ LeasesOwned'
  BY <1>1, CallKeepsTable DEF Creating, Unborn, Holding
<1>5. RequestShape' /\ HeldSessionStays' /\ NoNewWork'
  BY <1>1 DEF closed, IInv, TypeOK, RequestShape, Holding, Creating, HeldSessionStays, NoNewWork
<1>6. TabsOfCalls' /\ TabIsolation'
  BY <1>1 DEF closed, IInv, TypeOK, TabsOfCalls, TabIsolation
<1>7. DefaultTab'
  BY <1>1 DEF IInv, TypeOK, DefaultTab, Holders, Using
<1> QED BY <1>2, <1>3, <1>4, <1>5, <1>6, <1>7 DEF IInv

LEMMA ResolveRehydrateKeeps ==
  ASSUME IInv, NEW r \in Reqs, NEW k \in Kinds, NEW id \in Ids, ResolveRehydrate(r, k, id)
  PROVE  IInv'
BY CallWaits DEF IInv, TypeOK, ResolveRehydrate

LEMMA ResolveJoinKeeps ==
  ASSUME IInv, NEW r \in Reqs, NEW k \in Kinds, NEW id \in Ids, ResolveJoin(r, k, id)
  PROVE  IInv'
BY CallWaits DEF IInv, TypeOK, ResolveJoin

\* A call that holds a session goes on holding it, in the queue or in the lane.
LEMMA EnqueueKeeps == ASSUME IInv, NEW r \in Reqs, Enqueue(r) PROVE IInv'
<1> DEFINE c == [req[r] EXCEPT !.pc = "queued"]
<1>1. /\ c \in Request /\ c.pc = "queued" /\ c.id = req[r].id /\ c.obj = req[r].obj
      /\ req' = [req EXCEPT ![r] = c]
  BY DEF IInv, TypeOK, Request, Enqueue
<1>2. ReservationsAgree' /\ reservations' \in [Objs -> Nat]
  BY <1>1, SameHolders DEF IInv, TypeOK, Holding, Enqueue
<1>3. TypeOK'
  BY <1>1, <1>2 DEF IInv, TypeOK, Enqueue
<1>4. CreationsAgree' /\ FreshObjects' /\ TableShape' /\ TabsOfObjects' /\ StartupOwned'
      /\ LeasesOwned'
  BY <1>1, CallKeepsTable DEF Enqueue, Creating, Unborn, Holding
<1>5. RequestShape' /\ HeldSessionStays' /\ NoNewWork'
  BY <1>1 DEF closed, IInv, TypeOK, Enqueue, RequestShape, Holding, Creating, HeldSessionStays, NoNewWork
<1>6. TabsOfCalls' /\ TabIsolation'
  BY <1>1 DEF closed, IInv, TypeOK, Enqueue, TabsOfCalls, TabIsolation
<1>7. DefaultTab'
  BY <1>1 DEF IInv, TypeOK, Enqueue, DefaultTab, Holders, Using
<1> QED BY <1>2, <1>3, <1>4, <1>5, <1>6, <1>7 DEF IInv

LEMMA EnterKeeps ==
  ASSUME IInv, NEW r \in Reqs, Enter(r), auto' \subseteq Objs
  PROVE  IInv'
<1> DEFINE o == req[r].obj
           c == [req[r] EXCEPT !.pc = "running", !.tab = drives[req[r].obj]]
<1>0. o \in Objs /\ ~closed /\ sessions[req[r].id] = o /\ req[r].id \in Ids
  BY DEF IInv, closed, Enter, RequestShape, Holding, NoNewWork, HeldSessionStays
<1>1. /\ c \in Request /\ c.pc = "running" /\ c.id = req[r].id /\ c.obj = o /\ c.kind = req[r].kind
      /\ c.tab = drives[o] /\ req' = [req EXCEPT ![r] = c]
  BY <1>0 DEF IInv, TypeOK, Request, Enter
<1>2. ReservationsAgree' /\ reservations' \in [Objs -> Nat]
  BY <1>1, SameHolders DEF IInv, TypeOK, Holding, Enter
<1>3. TypeOK'
  BY <1>1, <1>2 DEF IInv, TypeOK, Enter
<1>4. CreationsAgree' /\ FreshObjects' /\ TableShape' /\ TabsOfObjects' /\ StartupOwned'
      /\ LeasesOwned'
  BY <1>1, CallKeepsTable DEF Enter, Creating, Unborn, Holding
<1>5. RequestShape' /\ HeldSessionStays' /\ NoNewWork'
  BY <1>0, <1>1 DEF closed, IInv, TypeOK, Enter, RequestShape, Holding, Creating, HeldSessionStays, NoNewWork
<1>6. DefaultTab'
  BY <1>1 DEF IInv, TypeOK, Enter, DefaultTab, Holders, Using
<1>7. TabsOfCalls'
  <2>1. r \in Holders(o)
    BY DEF Holders, Using, Enter
  <2>2. o # Default => drives[o] # None
    BY <1>0, NamesAssumption DEF IInv, TabsOfObjects, Live, Objs, Tabs
  <2> QED BY <1>1, <2>1, <2>2 DEF IInv, TypeOK, Enter, TabsOfCalls, DefaultTab, Using
<1>8. TabIsolation'
  <2>1. TabFacts'
    BY <1>3, <1>4, <1>5, <1>6, <1>7 DEF TabFacts
  <2>2. ~closed'
    BY <1>0 DEF Enter, closed
  <2> QED BY <2>1, <2>2, TabsApart, PTL
<1> QED BY <1>2, <1>3, <1>4, <1>5, <1>6, <1>7, <1>8 DEF IInv

LEMMA BeginKeeps == ASSUME IInv, NEW r \in Reqs, Begin(r) PROVE IInv'
<1>1. Enter(r) /\ auto' \subseteq Objs
  BY DEF IInv, TypeOK, Begin, BeginChat, BeginAutomation
<1> QED BY <1>1, EnterKeeps

\* A call that held a session leaves.
LEMMA LeaveKeeps ==
  ASSUME IInv, NEW r \in Reqs, Leave(r), req[r].pc \in Holding,
         awaiting' \subseteq Tabs, auto' \subseteq Objs,
         UNCHANGED <<sessions, creating, page, drives, shut, open, removal, routeVars,
                     sweep, closing>>
  PROVE  IInv'
<1>1. req[r].obj \in Objs
  BY DEF IInv, RequestShape
<1>2. ReservationsAgree' /\ reservations' \in [Objs -> Nat]
  BY <1>1, OneHolderLess, FinishedIs DEF IInv, TypeOK, Leave, Holding
<1>3. TypeOK'
  BY <1>2, FinishedIs DEF IInv, TypeOK, Leave
<1> QED BY <1>2, <1>3, CallEnds DEF Leave, Holding, Creating

LEMMA GiveUpKeeps == ASSUME IInv, NEW r \in Reqs, GiveUp(r) PROVE IInv'
BY LeaveKeeps DEF IInv, TypeOK, GiveUp, Holding

LEMMA FinishKeeps == ASSUME IInv, NEW r \in Reqs, Finish(r) PROVE IInv'
<1>1. \E kinds : Ends(r, kinds)
  BY DEF Finish, FinishChat, FinishReset, FinishAutomation
<1>2. req[r].pc \in Holding /\ req[r].obj \in Objs
  BY <1>1 DEF Ends, Holding, IInv, RequestShape
<1>3. auto' \subseteq Objs
  BY <1>2 DEF IInv, TypeOK, Finish, FinishChat, FinishReset, FinishAutomation
<1>4. awaiting' \subseteq Tabs
  <2>1. req[r].tab \in Tabs
    <3>1. req[r].pc = "running"
      BY <1>1 DEF Ends
    <3>2. CASE req[r].obj = Default
      BY <3>1, <3>2 DEF IInv, TabsOfCalls, Tabs, Objs
    <3>3. CASE req[r].obj # Default
      BY <1>2, <3>1, <3>3 DEF IInv, TypeOK, TabsOfCalls
    <3> QED BY <3>2, <3>3
  <2> QED BY <2>1 DEF IInv, TypeOK, Finish, FinishChat, FinishReset, FinishAutomation
<1> QED BY <1>1, <1>2, <1>3, <1>4, LeaveKeeps DEF Ends

-----------------------------------------------------------------------------
(* Creations: the factory at work, and a session entering the table. *)

\* Only its creator is told of a failure that finds no joiner: the calls that
\* wait for a name are told together.
LEMMA CreationFails ==
  ASSUME IInv, NEW r \in Reqs, FailCreation(r, req[r].id), req[r].pc \in Creating,
         \A o \in Reqs \ {r} : page'[o] = page[o],
         page'[r] \in {None, Startup},
         page' \in [Objs -> Tabs \union {None}],
         page'[Default] \in {page[Default], None},
         page'[Default] # page[Default] => Holders(Default) = {},
         adopted' \in BOOLEAN, adopted => adopted',
         adopted' # adopted => page'[Default] = None /\ Holders(Default) = {},
         r \notin open', open' \subseteq open,
         UNCHANGED <<sessions, reservations, drives, awaiting, auto, shut, removal,
                     defaultUsed, rehydration, sweep, closing>>
  PROVE  IInv'
<1> DEFINE id == req[r].id
           gone == Waiters(id) \union {r}
<1>1. /\ id \in Ids /\ creating[id] = r
      /\ \A q \in gone : q # r => req[q].pc = "joining"
      /\ \A q \in gone : req[q].pc \notin Holding /\ req[q].pc # "running"
  BY DEF IInv, TypeOK, RequestShape, CreationsAgree, Waiters, Creating, Holding
<1>2. \A q \in Reqs : req'[q] = IF q \in gone THEN Finished ELSE req[q]
  BY DEF FailCreation
<1>3. ReservationsAgree' /\ reservations' \in [Objs -> Nat]
  BY <1>1, <1>2, FinishedIs, SameHolders DEF IInv, TypeOK, Holding
<1>4. TypeOK'
  BY <1>1, <1>3, FinishedIs DEF IInv, TypeOK, FailCreation
<1>5. RequestShape' /\ HeldSessionStays' /\ NoNewWork'
  BY <1>2, FinishedIs DEF closed, IInv, RequestShape, Holding, Creating, HeldSessionStays, NoNewWork
<1>6. CreationsAgree'
  BY <1>1, <1>2, FinishedIs DEF IInv, TypeOK, FailCreation, CreationsAgree, RequestShape, Waiters, Creating
<1>7. FreshObjects'
  BY <1>1, <1>2, FinishedIs DEF IInv, TypeOK, FreshObjects, Unborn, Live, Holders, Using
<1>8. TableShape'
  BY DEF IInv, TableShape, Live
<1>9. page[r] = None /\ drives[r] = None /\ removal[r] = "no" /\ r \notin Live
  BY DEF IInv, FreshObjects, Unborn, Creating
<1>10. TabsOfObjects'
  BY <1>1, <1>2, <1>9 DEF IInv, TabsOfObjects, Live
<1>11. StartupOwned'
  BY <1>9 DEF IInv, StartupOwned, Owns, Live
<1>12. DefaultTab'
  <2>1. Holders(Default)' \subseteq Holders(Default)
    BY <1>1, <1>2, FinishedIs DEF Holders, Using
  <2> QED BY <2>1, NamesAssumption DEF IInv, DefaultTab, Objs, Tabs
<1>13. TabsOfCalls' /\ TabIsolation'
  BY <1>1, <1>2, FinishedIs DEF closed, IInv, TabsOfCalls, TabIsolation, Holders, Using
<1>14. LeasesOwned'
  BY <1>1, <1>2 DEF IInv, LeasesOwned, Live
<1> QED BY <1>3, <1>4, <1>5, <1>6, <1>7, <1>8, <1>10, <1>11, <1>12, <1>13, <1>14 DEF IInv

LEMMA OpenTabKeeps == ASSUME IInv, NEW r \in Reqs, OpenTab(r) PROVE IInv'
<1>1. /\ req[r].pc = "opening" /\ req'[r].pc = "preparing" /\ req'[r].id = req[r].id
      /\ req'[r].obj = req[r].obj
      /\ req' \in [Reqs -> Request]
      /\ \A q \in Reqs \ {r} : req'[q] = req[q]
  <2> DEFINE c == [req[r] EXCEPT !.pc = "preparing"]
  <2>1. c \in Request /\ c.pc = "preparing" /\ c.id = req[r].id /\ c.obj = req[r].obj
    BY DEF IInv, TypeOK, Request
  <2>2. req[r].pc = "opening" /\ req' = [req EXCEPT ![r] = c]
    BY DEF OpenTab
  <2> HIDE DEF c
  <2> QED BY <2>1, <2>2 DEF IInv, TypeOK
<1>2. ReservationsAgree' /\ reservations' \in [Objs -> Nat]
  BY <1>1, SameHolders DEF IInv, TypeOK, Holding, OpenTab
<1>3. TypeOK'
  BY <1>1, <1>2 DEF IInv, TypeOK, OpenTab, Tabs, Objs
<1>4. RequestShape' /\ CreationsAgree' /\ HeldSessionStays' /\ NoNewWork'
  BY <1>1 DEF closed, IInv, OpenTab, RequestShape, Holding, Creating, CreationsAgree,
              HeldSessionStays, NoNewWork
<1>5. FreshObjects'
  BY <1>1 DEF IInv, OpenTab, FreshObjects, Unborn, Live, Holders, Using
<1>6. TableShape' /\ StartupOwned'
  BY DEF IInv, OpenTab, TableShape, StartupOwned, Owns, Live
<1>7. TabsOfObjects'
  BY <1>1 DEF IInv, OpenTab, TabsOfObjects, Live
<1>8. DefaultTab'
  BY <1>1 DEF IInv, OpenTab, DefaultTab, Holders, Using
<1>9. TabsOfCalls' /\ TabIsolation'
  BY <1>1 DEF closed, IInv, OpenTab, TabsOfCalls, TabIsolation
<1>10. LeasesOwned'
  BY <1>1 DEF IInv, OpenTab, LeasesOwned, Live
<1> QED BY <1>2, <1>3, <1>4, <1>5, <1>6, <1>7, <1>8, <1>9, <1>10 DEF IInv

LEMMA FactoryFailsKeeps == ASSUME IInv, NEW r \in Reqs, FactoryFails(r) PROVE IInv'
<1>1. req[r].pc \in Creating /\ page[r] = None /\ page'[r] = None
  BY DEF IInv, FactoryFails, FreshObjects, Unborn, Creating
<1> QED BY <1>1, CreationFails DEF IInv, TypeOK, FactoryFails, FailCreation

\* The session of r enters the table under the name of the call c.
LEMMA RegisterKeeps ==
  ASSUME IInv, NEW r \in Reqs, NEW c \in Request, NEW tab \in {r, Startup},
         Register(r, c, tab), ~closed,
         c.id \in Ids, sessions[c.id] = None,
         \/ req[r].pc \in Creating /\ req[r].id = c.id
         \/ req[r].pc = "new" /\ creating[c.id] = None,
         page' \in [Objs -> Tabs \union {None}],
         \A o \in Reqs \ {r} : page'[o] = page[o],
         page'[r] = tab,
         tab = r => page'[Default] = page[Default] /\ adopted' = adopted,
         tab = Startup =>
           ~adopted /\ adopted' = TRUE /\ page'[Default] = None /\ Holders(Default) = {}
           /\ r \notin open,
         UNCHANGED <<awaiting, auto, shut, open, removal, defaultUsed, rehydration, sweep, closing>>
  PROVE  IInv'
<1> DEFINE id == c.id
           waiters == Waiters(id) \union {r}
<1>1. /\ r \notin Live /\ page[r] = None /\ drives[r] = None /\ removal[r] = "no"
      /\ Holders(r) = {} /\ r \in Objs /\ r # Default /\ r # Startup /\ r # None
  BY NamesAssumption DEF IInv, FreshObjects, Unborn, Creating, Objs, Tabs
<1>2. /\ \A q \in waiters : q \in Reqs /\ (q # r => req[q].pc = "joining" /\ req[q].id = id)
      /\ req[r].pc \in Creating \union {"new"}
  BY NamesAssumption DEF IInv, CreationsAgree, Waiters, Creating, Objs, Tabs
<1>3. \A q \in waiters : req'[q].pc = "resolved" /\ req'[q].obj = r /\ req'[q].id = id
                         /\ req'[q] \in Request
  <2>1. ASSUME NEW q \in waiters
        PROVE  req'[q] = [(IF q = r THEN c ELSE req[q])
                            EXCEPT !.pc = "resolved", !.obj = r, !.victim = None]
    BY <1>2, <2>1 DEF Register, Hold
  <2>2. ASSUME NEW q \in waiters
        PROVE  req'[q].pc = "resolved" /\ req'[q].obj = r /\ req'[q].id = id /\ req'[q] \in Request
    <3> DEFINE b == IF q = r THEN c ELSE req[q]
    <3>1. b \in Request /\ b.id = id
      BY <1>2 DEF IInv, TypeOK
    <3>2. req'[q] = [b EXCEPT !.pc = "resolved", !.obj = r, !.victim = None]
      BY <2>1
    <3> HIDE DEF b
    <3> QED BY <1>1, <3>1, <3>2 DEF Request
  <2> QED BY <2>2
<1>4. \A q \in Reqs \ waiters : req'[q] = req[q]
  BY DEF Register
<1>5. /\ sessions' = [sessions EXCEPT ![id] = r] /\ creating' = [creating EXCEPT ![id] = None]
      /\ drives' = [drives EXCEPT ![r] = tab]
  BY DEF Register
<1>6. Live' = Live \union {r}
  BY <1>1, <1>5 DEF IInv, TypeOK, Live
<1>7. ReservationsAgree' /\ reservations' \in [Objs -> Nat]
  <2>1. Holders(r)' = waiters
    BY <1>1, <1>2, <1>3, <1>4 DEF Holders, Using, Holding
  <2>2. \A o \in Objs \ {r} : Holders(o)' = Holders(o)
    BY <1>2, <1>3, <1>4 DEF Holders, Using, Holding, Creating
  <2>3. reservations' = [reservations EXCEPT ![r] = Cardinality(waiters)]
    BY DEF Register
  <2>4. Cardinality(waiters) \in Nat
    <3>1. waiters \in SUBSET Reqs
      BY <1>2
    <3> QED BY <3>1, NamesAssumption, FS_Subset, FS_CardinalityType
  <2>5. \A o \in Objs : reservations'[o] = Cardinality(Holders(o)')
    <3>1. reservations'[r] = Cardinality(Holders(r)')
      BY <1>1, <2>1, <2>3 DEF IInv, TypeOK
    <3>2. \A o \in Objs \ {r} : reservations'[o] = Cardinality(Holders(o)')
      BY <2>2, <2>3 DEF IInv, ReservationsAgree, TypeOK
    <3> QED BY <3>1, <3>2
  <2>6. reservations' \in [Objs -> Nat]
    BY <2>3, <2>4 DEF IInv, TypeOK
  <2> QED BY <2>5, <2>6 DEF ReservationsAgree
<1>8. TypeOK'
  <2>1. req' \in [Reqs -> Request]
    BY <1>3, <1>4 DEF IInv, TypeOK, Register
  <2> QED BY <1>1, <1>5, <1>7, <2>1 DEF IInv, TypeOK, Tabs, Objs
<1>9. RequestShape' /\ NoNewWork'
  BY <1>1, <1>2, <1>3, <1>4 DEF closed, IInv, RequestShape, Holding, Creating, NoNewWork
<1>10. CreationsAgree'
  BY <1>2, <1>3, <1>4, <1>5 DEF IInv, TypeOK, CreationsAgree, Creating, RequestShape
<1>11. FreshObjects'
  BY <1>1, <1>2, <1>3, <1>4, <1>5, <1>6 DEF IInv, FreshObjects, Unborn, Holders, Using, TypeOK, Holding
<1>12. TableShape'
  BY <1>1, <1>5, <1>6, NamesAssumption DEF IInv, TypeOK, TableShape, Ids
<1>13. HeldSessionStays'
  BY <1>1, <1>2, <1>3, <1>4, <1>5, NamesAssumption
     DEF closed, IInv, TypeOK, HeldSessionStays, RequestShape, Holding, Objs, Tabs
<1>14. TabsOfObjects'
  <2>1. \A o \in Reqs \ {r} : req'[o].pc = "preparing" <=> req[o].pc = "preparing"
    BY <1>2, <1>3, <1>4
  <2>2. r \in open => page'[r] = r
    BY <1>1
  <2>3. \A o \in Reqs \ {r} : drives'[o] = drives[o] /\ (o \in Live' <=> o \in Live)
    BY <1>5, <1>6 DEF IInv, TypeOK
  <2>4. drives'[r] = tab /\ removal'[r] = "no"
    BY <1>1, <1>5 DEF IInv, TypeOK
  <2> QED BY <1>1, <2>1, <2>2, <2>3, <2>4, NamesAssumption DEF IInv, TabsOfObjects, Tabs
<1>15. StartupOwned'
  BY <1>1, <1>6 DEF IInv, StartupOwned, Owns
<1>16. DefaultTab'
  <2>1. Holders(Default)' = Holders(Default)
    BY <1>1, <1>2, <1>3, <1>4 DEF Holders, Using, Creating
  <2> QED BY <1>1, <1>5, <2>1, NamesAssumption DEF IInv, TypeOK, DefaultTab, Objs, Tabs
<1>17. TabsOfCalls'
  BY <1>1, <1>2, <1>3, <1>4, <1>5 DEF IInv, TypeOK, TabsOfCalls, Holders, Using, RequestShape, Holding
<1>18. TabIsolation'
  <2>1. TabFacts'
    BY <1>8, <1>9, <1>12, <1>13, <1>14, <1>15, <1>16, <1>17 DEF TabFacts
  <2>2. ~closed'
    BY DEF closed
  <2> QED BY <2>1, <2>2, TabsApart, PTL
<1>19. LeasesOwned'
  BY <1>1, <1>2, <1>3, <1>4, <1>6 DEF closed, IInv, LeasesOwned
<1> QED BY <1>7, <1>8, <1>9, <1>10, <1>11, <1>12, <1>13, <1>14, <1>15, <1>16, <1>17, <1>18, <1>19
           DEF IInv

\* A call becomes the creator of its name, before its object exists.
LEMMA CreationBegins ==
  ASSUME IInv, NEW r \in Reqs, NEW d \in Request, d.pc \in {"evicting", "opening"},
         d.id \in Ids, sessions[d.id] = None, d.pc = "evicting" => d.victim \in Objs,
         req' = [req EXCEPT ![r] = d],
         req[r].pc \in {"new", "evicting"}, req[r].pc = "evicting" => req[r].id = d.id,
         creating[d.id] \in {r, None}, creating' = [creating EXCEPT ![d.id] = r],
         UNCHANGED <<sessions, page, drives, reservations, tabVars, routeVars, sweep, closing>>
  PROVE  IInv'
<1>1. d.pc \notin Holding /\ req[r].pc \notin Holding /\ d.pc \in Creating
  BY DEF Holding, Creating
<1>2. ReservationsAgree' /\ reservations' \in [Objs -> Nat]
  BY <1>1, SameHolders DEF IInv, TypeOK
<1>3. TypeOK'
  BY <1>2 DEF IInv, TypeOK
<1>4. RequestShape' /\ HeldSessionStays' /\ NoNewWork'
  BY DEF closed, IInv, TypeOK, RequestShape, Holding, Creating, HeldSessionStays, NoNewWork
<1>5. CreationsAgree'
  BY NamesAssumption DEF IInv, TypeOK, CreationsAgree, RequestShape, Creating, Objs, Tabs
<1>6. FreshObjects'
  BY DEF IInv, TypeOK, FreshObjects, Unborn, Live, Holders, Using
<1>7. TableShape' /\ StartupOwned'
  BY DEF IInv, TableShape, StartupOwned, Owns, Live
<1>8. TabsOfObjects'
  BY DEF IInv, TypeOK, TabsOfObjects, Live
<1>9. DefaultTab'
  BY DEF IInv, TypeOK, DefaultTab, Holders, Using
<1>10. TabsOfCalls' /\ TabIsolation'
  BY DEF closed, IInv, TypeOK, TabsOfCalls, TabIsolation
<1>11. LeasesOwned'
  BY DEF IInv, TypeOK, LeasesOwned, Live
<1> QED BY <1>2, <1>3, <1>4, <1>5, <1>6, <1>7, <1>8, <1>9, <1>10, <1>11 DEF IInv

\* create() once there is room: the startup tab, a failure, or the factory.
LEMMA AdoptOrOpenKeeps ==
  ASSUME IInv, NEW r \in Reqs, NEW c \in Request, AdoptOrOpen(r, c),
         c.id \in Ids, sessions[c.id] = None,
         \/ req[r].pc = "evicting" /\ c = req[r]
         \/ req[r].pc = "new" /\ creating[c.id] = None /\ ~closed,
         UNCHANGED <<tabVars, defaultUsed, rehydration, sweep, closing>>
  PROVE  IInv'
<1>1. r \notin open /\ page[r] = None /\ drives[r] = None /\ removal[r] = "no" /\ r \notin Live
      /\ Holders(r) = {}
  BY NamesAssumption DEF IInv, FreshObjects, Unborn, TabsOfObjects, Objs, Tabs
<1>2. CASE canAdoptStartupTab
  <2>1. page[Default] = Startup /\ ~adopted /\ Holders(Default) = {}
    BY <1>2, NoReservation DEF canAdoptStartupTab, Quiet, IInv, DefaultTab, Objs
  <2>2. /\ adopted' = TRUE
        /\ page' = [page EXCEPT ![Default] = None, ![r] = Startup]
        /\ r # Default /\ Default \in Objs
    BY <1>2, <2>1, NamesAssumption DEF AdoptOrOpen, Objs
  <2>3. /\ page' \in [Objs -> Tabs \union {None}]
        /\ \A o \in Reqs \ {r} : page'[o] = page[o]
        /\ page'[r] = Startup /\ page'[Default] = None
    BY <2>2, NamesAssumption DEF IInv, TypeOK, Objs, Tabs
  <2>4. CASE closed
    <3>1. req[r].pc \in Creating /\ FailCreation(r, req[r].id)
          /\ UNCHANGED <<sessions, drives, reservations>>
      BY <1>2, <2>4 DEF AdoptOrOpen, Creating
    <3> QED BY <1>1, <2>1, <2>2, <2>3, <3>1, CreationFails
  <2>5. CASE ~closed
    <3>1. Register(r, c, Startup)
      BY <1>2, <2>1, <2>5 DEF AdoptOrOpen
    <3>2. \/ req[r].pc \in Creating /\ req[r].id = c.id
          \/ req[r].pc = "new" /\ creating[c.id] = None
      BY DEF Creating
    <3>3. r # Startup
      BY NamesAssumption DEF Objs
    <3> QED BY <1>1, <2>1, <2>2, <2>3, <2>5, <3>1, <3>2, <3>3, RegisterKeeps
  <2> QED BY <2>4, <2>5
<1>3. CASE ~canAdoptStartupTab
  <2> DEFINE d == [c EXCEPT !.pc = "opening", !.victim = None]
  <2>1. d \in Request /\ d.pc = "opening" /\ d.id = c.id
    BY DEF Request
  <2>2. req' = [req EXCEPT ![r] = d]
    BY <1>3 DEF AdoptOrOpen
  <2> HIDE DEF d
  <2>3. /\ creating' = [creating EXCEPT ![c.id] = r]
        /\ UNCHANGED <<sessions, page, drives, reservations, adopted>>
    BY <1>3 DEF AdoptOrOpen
  <2>4. req[r].pc \in {"evicting", "new"} /\ creating[c.id] \in {r, None}
    BY DEF IInv, CreationsAgree, Creating
  <2> QED BY <2>1, <2>2, <2>3, <2>4, CreationBegins DEF Creating
<1> QED BY <1>2, <1>3

LEMMA EvictedKeeps == ASSUME IInv, NEW r \in Reqs, Evicted(r) PROVE IInv'
<1>1. req[r].pc = "evicting" /\ req[r] \in Request /\ req[r].id \in Ids /\ sessions[req[r].id] = None
  BY NamesAssumption DEF Evicted, IInv, TypeOK, RequestShape, CreationsAgree, Creating, Objs, Tabs
<1>2. CASE AdoptOrOpen(r, req[r])
  BY <1>1, <1>2, AdoptOrOpenKeeps DEF Evicted
<1>3. CASE FailCreation(r, req[r].id) /\ UNCHANGED <<sessions, page, drives, reservations, adopted>>
  <2>1. r \notin open /\ page[r] = None /\ req[r].pc \in Creating
    BY <1>1, NamesAssumption DEF IInv, FreshObjects, Unborn, TabsOfObjects, Creating, Objs, Tabs
  <2> QED BY <1>3, <2>1, CreationFails DEF IInv, TypeOK, Evicted
<1> QED BY <1>2, <1>3 DEF Evicted

LEMMA FactoryReadyKeeps == ASSUME IInv, NEW r \in Reqs, FactoryReady(r) PROVE IInv'
<1>1. /\ req[r].pc = "preparing" /\ req[r].pc \in Creating /\ req[r] \in Request
      /\ req[r].id \in Ids /\ sessions[req[r].id] = None /\ page[r] = None
      /\ r # Default /\ r \in Objs /\ Default \in Objs
  BY NamesAssumption DEF FactoryReady, IInv, TypeOK, RequestShape, CreationsAgree, FreshObjects,
                         Unborn, Creating, Objs, Tabs
<1>2. CASE closed
  BY <1>1, <1>2, CreationFails DEF FactoryReady, IInv, TypeOK
<1>3. CASE ~closed
  <2>1. Register(r, req[r], r) /\ page' = [page EXCEPT ![r] = r]
    BY <1>3 DEF FactoryReady
  <2>2. /\ page' \in [Objs -> Tabs \union {None}]
        /\ \A o \in Reqs \ {r} : page'[o] = page[o]
        /\ page'[r] = r /\ page'[Default] = page[Default]
    BY <1>1, <2>1 DEF IInv, TypeOK, Objs, Tabs
  <2>3. r # Startup
    BY <1>1, NamesAssumption
  <2> QED BY <1>1, <1>3, <2>1, <2>2, <2>3, RegisterKeeps DEF FactoryReady
<1> QED BY <1>2, <1>3

-----------------------------------------------------------------------------
(* Sessions leaving the table. *)

\* removeSession up to its first await, for a session nobody holds or once
\* closed; the caller may be a creation that makes room.
LEMMA SessionLeaves ==
  ASSUME IInv, NEW o \in Live \ {Default}, closed \/ Holders(o) = {}, StartRemoval(o),
         req' \in [Reqs -> Request],
         \A q \in Reqs : req'[q] = req[q] \/ (req[q].pc = "new" /\ req'[q].pc = "evicting"),
         RequestShape', CreationsAgree', creating' \in [Ids -> Reqs \union {None}],
         closing' \in [step : {closing.step}, at : Objs \union {None}],
         sweep' \in [Sweepers -> [phase : {"off", "automation", "stale", "pressure"},
                                  todo : SUBSET Objs, at : Objs \union {None}]],
         \A s \in Sweepers : sweep'[s].phase = "stale" => Default \notin sweep'[s].todo,
         UNCHANGED <<reservations, page, drives, awaiting, auto, open, routeVars>>
  PROVE  IInv'
<1>1. /\ sessions' \in [Ids -> Objs \union {None}] /\ Live' = Live \ {o} /\ o \in Objs /\ o \in Reqs
      /\ shut' = shut \union {o}
      /\ removal[o] = "no" /\ removal' = [removal EXCEPT ![o] = "closing"]
      /\ closed' = closed /\ closing'.step = closing.step
  BY DEF closed, IInv, TypeOK, StartRemoval, Live, TableShape, Objs
<1>2. ReservationsAgree' /\ reservations' \in [Objs -> Nat]
  BY SameHolders DEF IInv, TypeOK, Holding
<1>3. TypeOK'
  BY <1>1, <1>2 DEF IInv, TypeOK, Removal
<1>4. FreshObjects'
  <2>1. \A p \in Objs : Holders(p)' = Holders(p)
    BY DEF Holders, Using
  <2> QED BY <1>1, <2>1 DEF IInv, TypeOK, FreshObjects, Unborn, Objs
<1>5. TableShape'
  BY <1>1, NamesAssumption DEF IInv, TypeOK, TableShape, StartRemoval, Ids, Tabs, Objs
<1>6. HeldSessionStays' /\ NoNewWork'
  BY <1>1 DEF closed, IInv, TypeOK, StartRemoval, HeldSessionStays, NoNewWork, RequestShape,
              Holding, Holders, Using
<1>7. TabsOfObjects'
  BY <1>1 DEF IInv, TypeOK, TabsOfObjects
<1>8. StartupOwned'
  BY <1>1 DEF IInv, TypeOK, StartupOwned, Owns, Objs
<1>9. DefaultTab'
  BY DEF IInv, TypeOK, DefaultTab, Holders, Using
<1>10. TabsOfCalls' /\ TabIsolation'
  <2>1. \A q \in Reqs : req'[q].pc = "running" => req'[q] = req[q]
    OBVIOUS
  <2>2. \A p \in Objs : removal'[p] = "resetting" => removal[p] = "resetting"
    BY <1>1 DEF IInv, TypeOK
  <2>3. TabsOfCalls'
    BY <2>1 DEF IInv, TabsOfCalls
  <2>4. TabIsolation'
    BY <1>1, <2>1, <2>2 DEF IInv, TabIsolation
  <2> QED BY <2>3, <2>4
<1>11. LeasesOwned'
  BY <1>1 DEF IInv, TypeOK, LeasesOwned, Objs
<1> QED BY <1>2, <1>3, <1>4, <1>5, <1>6, <1>7, <1>8, <1>9, <1>10, <1>11 DEF IInv

\* The same without a creation: the sweep, delete() and close().
LEMMA SessionIsRemoved ==
  ASSUME IInv, NEW o \in Live \ {Default}, closed \/ Holders(o) = {}, StartRemoval(o),
         closing' \in [step : {closing.step}, at : Objs \union {None}],
         sweep' \in [Sweepers -> [phase : {"off", "automation", "stale", "pressure"},
                                  todo : SUBSET Objs, at : Objs \union {None}]],
         \A s \in Sweepers : sweep'[s].phase = "stale" => Default \notin sweep'[s].todo,
         UNCHANGED <<req, creating, reservations, page, drives, awaiting, auto, open, routeVars>>
  PROVE  IInv'
<1>1. RequestShape'
  BY DEF IInv, RequestShape
<1>2. CreationsAgree'
  BY DEF IInv, TypeOK, CreationsAgree, StartRemoval
<1> QED BY <1>1, <1>2, SessionLeaves DEF IInv, TypeOK

LEMMA RecyclableIsFree ==
  ASSUME IInv, NEW o \in Objs, Recyclable(o)
  PROVE  o \in Live \ {Default} /\ Holders(o) = {}
BY NoReservation DEF IInv, Recyclable, Quiet

LEMMA ResolveCreateKeeps ==
  ASSUME IInv, NEW r \in Reqs, NEW k \in Kinds, NEW id \in Ids, ResolveCreate(r, k, id)
  PROVE  IInv'
<1>1. Call(k, id) \in Request /\ Call(k, id).pc = "new" /\ Call(k, id).id = id
  BY CallIs
<1>2. req[r].pc = "new" /\ ~closed /\ sessions[id] = None /\ creating[id] = None
  BY DEF ResolveCreate
<1>3. CASE AdoptOrOpen(r, Call(k, id)) /\ UNCHANGED tabVars
  BY <1>1, <1>2, <1>3, AdoptOrOpenKeeps DEF ResolveCreate
<1>4. ASSUME NEW o \in Objs, Recyclable(o), StartRemoval(o),
             req' = [req EXCEPT ![r] = [Call(k, id) EXCEPT !.pc = "evicting", !.victim = o]],
             creating' = [creating EXCEPT ![id] = r],
             UNCHANGED <<reservations, page, drives, awaiting, auto, open, adopted>>
      PROVE  IInv'
  <2> DEFINE b == Call(k, id)
             d == [b EXCEPT !.pc = "evicting", !.victim = o]
  <2>1. b \in Request /\ b.id = id
    BY <1>1
  <2> HIDE DEF b
  <2>2. d \in Request /\ d.pc = "evicting" /\ d.id = id /\ d.victim = o
    BY <2>1 DEF Request
  <2>3. req' = [req EXCEPT ![r] = d]
    BY <1>4 DEF b
  <2> HIDE DEF d
  <2>4. /\ req' \in [Reqs -> Request]
        /\ \A q \in Reqs : req'[q] = req[q] \/ (req[q].pc = "new" /\ req'[q].pc = "evicting")
    BY <1>2, <2>2, <2>3 DEF IInv, TypeOK
  <2>5. RequestShape'
    BY <2>2, <2>3 DEF IInv, TypeOK, RequestShape, Holding, Creating
  <2>6. CreationsAgree' /\ creating' \in [Ids -> Reqs \union {None}]
    <3>1. \A i \in Ids : sessions[i] = None => sessions'[i] = None
      BY <1>4 DEF StartRemoval
    <3>2. \A i \in Ids : creating'[i] = IF i = id THEN r ELSE creating[i]
      BY <1>4 DEF IInv, TypeOK
    <3>3. ASSUME NEW q \in Reqs, req'[q].pc \in Creating PROVE creating'[req'[q].id] = q
      <4>1. CASE q = r
        BY <2>2, <2>3, <3>2, <4>1 DEF IInv, TypeOK
      <4>2. CASE q # r
        <5>1. req'[q] = req[q] /\ creating[req[q].id] = q /\ req[q].id \in Ids
          BY <2>3, <3>3, <4>2 DEF IInv, TypeOK, CreationsAgree, RequestShape
        <5> QED BY <1>2, <3>2, <5>1, NamesAssumption DEF Objs, Tabs
      <4> QED BY <4>1, <4>2
    <3>4. \A i \in Ids : creating'[i] # None => sessions'[i] = None
      BY <1>2, <3>1, <3>2 DEF IInv, CreationsAgree
    <3>5. creating' \in [Ids -> Reqs \union {None}]
      BY <1>4 DEF IInv, TypeOK
    <3> QED BY <3>3, <3>4, <3>5 DEF CreationsAgree
  <2>7. closing' \in [step : {closing.step}, at : Objs \union {None}]
    BY DEF ResolveCreate, IInv, TypeOK
  <2> QED BY <1>4, <2>4, <2>5, <2>6, <2>7, RecyclableIsFree, SessionLeaves
             DEF ResolveCreate, IInv, TypeOK, TableShape
<1>5. CASE req' = [req EXCEPT ![r] = Finished] /\ UNCHANGED <<sessionVars, tabVars, adopted>>
  <2>1. ReservationsAgree' /\ reservations' \in [Objs -> Nat]
    BY <1>2, <1>5, FinishedIs, SameHolders DEF IInv, TypeOK, Holding
  <2>2. TypeOK'
    BY <1>5, <2>1, FinishedIs DEF IInv, TypeOK, ResolveCreate
  <2> QED BY <1>2, <1>5, <2>1, <2>2, CallEnds DEF ResolveCreate, Creating
<1> QED BY <1>3, <1>4, <1>5 DEF ResolveCreate

LEMMA CloseNamedKeeps == ASSUME IInv, NEW o \in Objs, CloseNamed(o) PROVE IInv'
<1>1. closed /\ o \in Live \ {Default} /\ StartRemoval(o)
  BY DEF CloseNamed, CloseReady, closed
<1>2. closing' \in [step : {closing.step}, at : Objs \union {None}]
  BY DEF CloseNamed, IInv, TypeOK
<1> QED BY <1>1, <1>2, SessionIsRemoved DEF CloseNamed, IInv, TypeOK, TableShape

LEMMA DeleteKeeps == ASSUME IInv, NEW id \in Named, Delete(id) PROVE IInv'
<1> DEFINE o == sessions[id]
<1>1. o \in Live \ {Default} /\ o \in Objs /\ reservations[o] = 0 /\ StartRemoval(o)
  BY DEF Delete, Quiet, IInv, TypeOK, TableShape, Live, Ids
<1>2. Holders(o) = {}
  BY <1>1, NoReservation DEF IInv
<1>3. closing' \in [step : {closing.step}, at : Objs \union {None}]
  BY DEF Delete, IInv, TypeOK
<1> QED BY <1>1, <1>2, <1>3, SessionIsRemoved DEF Delete, IInv, TypeOK, TableShape

-----------------------------------------------------------------------------
(* Steps that neither move a call nor a session. *)

\* The sweep's own bookkeeping, close() between its waits, and tabs that open
\* for the default route.
LEMMA NothingMoves ==
  ASSUME IInv, TypeOK', closed' <=> closed, closing.step = "closed" => closing'.step = "closed",
         closing'.step = "closed" => closing.step = "closed" \/ Live \subseteq {Default},
         open' \subseteq open \union {Default},
         rehydration' # "none" => rehydration # "none",
         \A s \in Sweepers : sweep'[s].phase = "stale" => Default \notin sweep'[s].todo,
         UNCHANGED <<req, sessionVars, shut, removal, adopted, defaultUsed>>
  PROVE  IInv'
<1>1. ReservationsAgree'
  BY SameHolders DEF IInv, TypeOK, Holding
<1>2. RequestShape' /\ CreationsAgree' /\ HeldSessionStays' /\ NoNewWork'
  BY DEF IInv, RequestShape, CreationsAgree, HeldSessionStays, NoNewWork
<1>3. FreshObjects' /\ TableShape' /\ StartupOwned'
  BY DEF IInv, FreshObjects, TableShape, StartupOwned, Owns, Live, Holders, Using
<1>4. TabsOfObjects'
  BY NamesAssumption DEF IInv, TabsOfObjects, Live
<1>5. DefaultTab'
  BY DEF IInv, DefaultTab, Holders, Using
<1>6. TabsOfCalls' /\ TabIsolation'
  BY DEF IInv, TabsOfCalls, TabIsolation
<1>7. LeasesOwned'
  <2>1. \A r \in Reqs : r \in open' => r \in open
    BY NamesAssumption
  <2>2. \A r \in Reqs : r \in Live /\ closing.step # "closed" => closing'.step # "closed"
    BY NamesAssumption
  <2>3. Live' = Live
    BY DEF Live
  <2> QED BY <2>1, <2>2, <2>3 DEF IInv, LeasesOwned
<1> QED BY <1>1, <1>2, <1>3, <1>4, <1>5, <1>6, <1>7 DEF IInv

LEMMA SweepStartKeeps == ASSUME IInv, NEW s \in Sweepers, SweepStart(s) PROVE IInv'
<1>1. PICK todo \in SUBSET {o \in Objs : IdleAutomation(o)} :
        sweep' = [sweep EXCEPT ![s] = [phase |-> "automation", todo |-> todo, at |-> None]]
  BY DEF SweepStart
<1>2. TypeOK'
  BY <1>1 DEF SweepStart, IInv, TypeOK
<1> QED BY <1>1, <1>2, NothingMoves DEF SweepStart, closed, IInv, TypeOK, TableShape

LEMMA SweepAutomationKeeps == ASSUME IInv, NEW s \in Sweepers, SweepAutomation(s) PROVE IInv'
<1>1. PICK o \in sweep[s].todo : sweep' = [sweep EXCEPT ![s].todo = @ \ {o}]
  BY DEF SweepAutomation
<1>2. TypeOK'
  BY <1>1 DEF SweepAutomation, IInv, TypeOK
<1> QED BY <1>1, <1>2, NothingMoves DEF SweepAutomation, closed, IInv, TypeOK, TableShape

LEMMA PressureKeeps ==
  ASSUME IInv, NEW s \in Sweepers, Pressure(s),
         UNCHANGED <<req, creating, reservations, page, drives, awaiting, auto, open,
                     routeVars, closing>>
  PROVE  IInv'
<1>1. CASE sweep' = [sweep EXCEPT ![s] = SweepOff] /\ UNCHANGED <<sessions, shut, removal>>
  <2>1. TypeOK'
    BY <1>1 DEF IInv, TypeOK, SweepOff
  <2> QED BY <1>1, <2>1, NothingMoves DEF closed, IInv, TypeOK, TableShape, SweepOff
<1>2. ASSUME NEW o \in Objs, Recyclable(o), StartRemoval(o),
             sweep' = [sweep EXCEPT ![s] = [phase |-> "pressure", todo |-> {}, at |-> o]]
      PROVE  IInv'
  BY <1>2, RecyclableIsFree, SessionIsRemoved DEF IInv, TypeOK, TableShape
<1> QED BY <1>1, <1>2 DEF Pressure

LEMMA SweepCollectKeeps == ASSUME IInv, NEW s \in Sweepers, SweepCollect(s) PROVE IInv'
<1>1. ASSUME NEW stale \in SUBSET {o \in Objs : Recyclable(o)}, NEW o \in stale, StartRemoval(o),
             sweep' = [sweep EXCEPT ![s] = [phase |-> "stale", todo |-> stale \ {o}, at |-> o]]
      PROVE  IInv'
  <2>1. Default \notin stale
    BY DEF Recyclable
  <2> QED BY <1>1, <2>1, RecyclableIsFree, SessionIsRemoved DEF SweepCollect, IInv, TypeOK, TableShape
<1>2. CASE Pressure(s)
  BY <1>2, PressureKeeps DEF SweepCollect
<1> QED BY <1>1, <1>2 DEF SweepCollect

LEMMA SweepNextKeeps == ASSUME IInv, NEW s \in Sweepers, SweepNext(s) PROVE IInv'
<1>1. ASSUME NEW o \in sweep[s].todo, CanRemove(o), StartRemoval(o),
             sweep' = [sweep EXCEPT ![s].todo = @ \ {o}, ![s].at = o]
      PROVE  IInv'
  <2>1. o \in Objs /\ o \in Live \ {Default}
    BY <1>1 DEF CanRemove, SweepNext, IInv, TypeOK, TableShape
  <2>2. closed \/ Holders(o) = {}
    BY <1>1, <2>1, NoReservation DEF CanRemove, Quiet, IInv
  <2>3. /\ sweep' \in [Sweepers -> [phase : {"off", "automation", "stale", "pressure"},
                                    todo : SUBSET Objs, at : Objs \union {None}]]
        /\ \A p \in Sweepers : sweep'[p].phase = "stale" => Default \notin sweep'[p].todo
    <3>1. sweep[s].todo \ {o} \in SUBSET Objs /\ o \in Objs
      BY <2>1 DEF IInv, TypeOK
    <3>2. sweep'[s].todo = sweep[s].todo \ {o} /\ sweep'[s].phase = sweep[s].phase
      BY <1>1 DEF IInv, TypeOK
    <3>3. \A p \in Sweepers \ {s} : sweep'[p] = sweep[p]
      BY <1>1 DEF IInv, TypeOK
    <3>4. \A p \in Sweepers : sweep'[p].phase = "stale" => Default \notin sweep'[p].todo
      BY <3>2, <3>3 DEF IInv, TableShape
    <3>5. sweep' \in [Sweepers -> [phase : {"off", "automation", "stale", "pressure"},
                                  todo : SUBSET Objs, at : Objs \union {None}]]
      <4> DEFINE Record == [phase : {"off", "automation", "stale", "pressure"},
                            todo : SUBSET Objs, at : Objs \union {None}]
      <4>1. ASSUME NEW v \in Record, NEW todo \in SUBSET Objs
            PROVE  [v EXCEPT !.todo = todo, !.at = o] \in Record
        BY <3>1
      <4>2. sweep \in [Sweepers -> Record]
        BY DEF IInv, TypeOK
      <4>3. [sweep[s] EXCEPT !.todo = sweep[s].todo \ {o}, !.at = o] \in Record
        BY <3>1, <4>1, <4>2
      <4>4. sweep' = [sweep EXCEPT ![s] = [sweep[s] EXCEPT !.todo = sweep[s].todo \ {o}, !.at = o]]
        BY <1>1
      <4> HIDE DEF Record
      <4>5. sweep' \in [Sweepers -> Record]
        BY <4>2, <4>3, <4>4
      <4> QED BY <4>5 DEF Record
    <3> QED BY <3>4, <3>5
  <2>4. closing' \in [step : {closing.step}, at : Objs \union {None}]
    BY DEF SweepNext, IInv, TypeOK
  <2> QED BY <1>1, <2>1, <2>2, <2>3, <2>4, SessionIsRemoved DEF SweepNext
<1>2. ASSUME NEW o \in sweep[s].todo, sweep' = [sweep EXCEPT ![s].todo = @ \ {o}],
             UNCHANGED <<sessions, shut, removal>>
      PROVE  IInv'
  <2>1. /\ sweep' \in [Sweepers -> [phase : {"off", "automation", "stale", "pressure"},
                                    todo : SUBSET Objs, at : Objs \union {None}]]
        /\ \A p \in Sweepers : sweep'[p].phase = "stale" => Default \notin sweep'[p].todo
    <3>1. sweep[s].todo \ {o} \in SUBSET Objs
      BY DEF IInv, TypeOK
    <3> QED BY <1>2, <3>1 DEF IInv, TypeOK, TableShape
  <2>2. TypeOK'
    BY <1>2, <2>1 DEF SweepNext, IInv, TypeOK
  <2> QED BY <1>2, <2>1, <2>2, NothingMoves DEF SweepNext, closed, IInv, TypeOK
<1>3. CASE Pressure(s)
  BY <1>3, PressureKeeps DEF SweepNext
<1> QED BY <1>1, <1>2, <1>3 DEF SweepNext

LEMMA SweepEndKeeps == ASSUME IInv, NEW s \in Sweepers, SweepEnd(s) PROVE IInv'
<1>1. TypeOK'
  BY DEF SweepEnd, IInv, TypeOK, SweepOff
<1> QED BY <1>1, NothingMoves DEF SweepEnd, SweepOff, closed, IInv, TypeOK, TableShape

LEMMA CloseDrainedKeeps == ASSUME IInv, CloseDrained PROVE IInv'
<1>1. TypeOK'
  BY DEF CloseDrained, IInv, TypeOK
<1>2. (closed' <=> closed) /\ closing'.step = "removing" /\ closing.step = "settling"
  BY DEF CloseDrained, closed, IInv, TypeOK
<1> QED BY <1>1, <1>2, NothingMoves DEF CloseDrained, IInv, TypeOK, TableShape

LEMMA CloseDefaultKeeps == ASSUME IInv, CloseDefault PROVE IInv'
<1>1. TypeOK'
  BY DEF CloseDefault, IInv, TypeOK
<1>2. (closed' <=> closed) /\ Live \subseteq {Default}
  BY DEF CloseDefault, CloseReady, closed
<1> QED BY <1>1, <1>2, NothingMoves DEF CloseDefault, IInv, TypeOK, TableShape

LEMMA RehydrateOpenKeeps == ASSUME IInv, RehydrateOpen PROVE IInv'
<1>1. TypeOK'
  BY DEF RehydrateOpen, IInv, TypeOK, Tabs, Objs
<1> QED BY <1>1, NothingMoves DEF RehydrateOpen, closed, IInv, TypeOK, TableShape

-----------------------------------------------------------------------------
(* The default route's tab, and close(). *)

LEMMA RehydrationFailsKeeps == ASSUME IInv, RehydrationFails PROVE IInv'
<1>1. \A r \in Reqs : \/ req'[r] = req[r] /\ req[r].pc # "rehydrating"
                      \/ req'[r] = Finished /\ req[r].pc = "rehydrating"
  BY DEF RehydrationFails, Rehydrating, IInv, TypeOK
<1>2. ReservationsAgree' /\ reservations' \in [Objs -> Nat]
  BY <1>1, FinishedIs, SameHolders DEF IInv, TypeOK, Holding, RehydrationFails
<1>3. TypeOK'
  BY <1>2, FinishedIs DEF IInv, TypeOK, RehydrationFails
<1>4. RequestShape' /\ CreationsAgree' /\ HeldSessionStays' /\ NoNewWork'
  BY <1>1, FinishedIs DEF closed, IInv, RehydrationFails, RequestShape, CreationsAgree,
                          HeldSessionStays, NoNewWork, Holding, Creating
<1>5. FreshObjects'
  BY <1>1, FinishedIs DEF IInv, RehydrationFails, FreshObjects, Unborn, Live, Holders, Using
<1>6. TableShape' /\ StartupOwned'
  BY DEF IInv, RehydrationFails, TableShape, StartupOwned, Owns, Live
<1>7. TabsOfObjects'
  BY <1>1 DEF IInv, RehydrationFails, TabsOfObjects, Live
<1>8. DefaultTab'
  BY <1>1, FinishedIs DEF IInv, RehydrationFails, DefaultTab, Holders, Using
<1>9. TabsOfCalls' /\ TabIsolation'
  BY <1>1, FinishedIs DEF closed, IInv, RehydrationFails, TabsOfCalls, TabIsolation
<1>10. LeasesOwned'
  BY <1>1 DEF IInv, RehydrationFails, LeasesOwned, Live
<1> QED BY <1>2, <1>3, <1>4, <1>5, <1>6, <1>7, <1>8, <1>9, <1>10 DEF IInv

LEMMA RehydrateReadyKeeps == ASSUME IInv, RehydrateReady PROVE IInv'
<1>1. CASE closed
  BY <1>1, RehydrationFailsKeeps DEF RehydrateReady
<1>2. CASE ~closed
  <2>1. /\ rehydration = "preparing" /\ rehydration' = "none"
        /\ drives' = [drives EXCEPT ![Default] = Default]
        /\ page' = [page EXCEPT ![Default] = Default]
        /\ reservations' = [reservations EXCEPT ![Default] = @ + Cardinality(Rehydrating)]
        /\ req' = [r \in Reqs |-> IF r \in Rehydrating THEN Hold(r, Default) ELSE req[r]]
        /\ UNCHANGED <<sessions, creating, tabVars, adopted, defaultUsed, sweep, closing>>
    BY <1>2 DEF RehydrateReady
  <2> USE <2>1
  <2>2. /\ Default \in Objs /\ Default \in Tabs /\ Default # Startup /\ Default \in Ids
        /\ Default \notin Reqs /\ sessions[Default] = Default
    BY NamesAssumption DEF Objs, Tabs, Ids, IInv, TableShape
  <2>3. \A r \in Reqs \ Rehydrating : req'[r] = req[r]
    OBVIOUS
  <2>4. ASSUME NEW r \in Rehydrating
        PROVE  /\ r \in Reqs /\ req[r].pc = "rehydrating" /\ req'[r].pc = "resolved"
               /\ req'[r].obj = Default /\ req'[r].id = Default /\ req'[r] \in Request
    <3> DEFINE b == req[r]
    <3>1. r \in Reqs /\ b \in Request /\ b.pc = "rehydrating" /\ b.id = Default
      BY <2>4 DEF Rehydrating, IInv, TypeOK, RequestShape
    <3>2. req'[r] = [b EXCEPT !.pc = "resolved", !.obj = Default, !.victim = None]
      BY <2>4, <3>1 DEF Hold
    <3> HIDE DEF b
    <3>3. req'[r].pc = "resolved" /\ req'[r].obj = Default /\ req'[r].id = Default
          /\ req'[r] \in Request
      BY <2>2, <3>1, <3>2 DEF Request
    <3> QED BY <3>1, <3>3 DEF b
  <2>5. ReservationsAgree' /\ reservations' \in [Objs -> Nat]
    <3>1. Holders(Default)' = Holders(Default) \union Rehydrating
      BY <2>2, <2>3, <2>4 DEF Holders, Using
    <3>2. Holders(Default) \intersect Rehydrating = {}
      BY DEF Holders, Using, Rehydrating
    <3>3. \A o \in Objs \ {Default} : Holders(o)' = Holders(o)
      BY <2>3, <2>4 DEF Holders, Using
    <3>4. IsFiniteSet(Rehydrating) /\ Cardinality(Rehydrating) \in Nat
      <4>1. Rehydrating \in SUBSET Reqs
        BY DEF Rehydrating
      <4> QED BY <4>1, NamesAssumption, FS_Subset, FS_CardinalityType
    <3>5. Cardinality(Holders(Default) \union Rehydrating)
            = Cardinality(Holders(Default)) + Cardinality(Rehydrating)
      <4>1. IsFiniteSet(Holders(Default)) /\ Cardinality(Holders(Default)) \in Nat
        BY FiniteCalls DEF Holders
      <4> QED BY <3>2, <3>4, <4>1, FS_Union, FS_EmptySet
    <3>6. reservations[Default] = Cardinality(Holders(Default)) /\ reservations[Default] \in Nat
      BY <2>2 DEF IInv, ReservationsAgree, TypeOK
    <3>7. reservations'[Default] = Cardinality(Holders(Default)')
      BY <2>2, <3>1, <3>5, <3>6 DEF IInv, TypeOK
    <3>8. \A o \in Objs \ {Default} : reservations'[o] = Cardinality(Holders(o)')
      BY <3>3 DEF IInv, ReservationsAgree, TypeOK
    <3>9. reservations' \in [Objs -> Nat]
      BY <2>2, <3>4, <3>6 DEF IInv, TypeOK
    <3> QED BY <3>7, <3>8, <3>9 DEF ReservationsAgree
  <2>6. TypeOK'
    <3>1. req' \in [Reqs -> Request]
      BY <2>3, <2>4 DEF IInv, TypeOK
    <3> QED BY <2>2, <2>5, <3>1 DEF IInv, TypeOK
  <2>7. RequestShape' /\ CreationsAgree'
    BY <2>2, <2>3, <2>4 DEF IInv, RequestShape, CreationsAgree, Holding, Creating
  <2>8. FreshObjects'
    <3>1. ASSUME NEW r \in Reqs, req'[r].pc \in Unborn
          PROVE  /\ r # Default /\ req[r].pc \in Unborn
                 /\ page'[r] = page[r] /\ drives'[r] = drives[r] /\ removal'[r] = removal[r]
      <4>1. r # Default /\ r \notin Rehydrating /\ r \in Objs
        BY <2>2, <2>4, <3>1 DEF Unborn, Objs
      <4> QED BY <2>3, <3>1, <4>1 DEF IInv, TypeOK
    <3>2. \A o \in Objs \ {Default} : Holders(o)' = Holders(o)
      BY <2>3, <2>4 DEF Holders, Using
    <3>3. Live' = Live
      BY DEF Live
    <3> QED BY <3>1, <3>2, <3>3 DEF IInv, FreshObjects, Objs
  <2>9. TableShape'
    BY DEF IInv, TableShape, Live
  <2>10. HeldSessionStays' /\ NoNewWork'
    BY <1>2, <2>2, <2>3, <2>4 DEF closed, IInv, HeldSessionStays, NoNewWork
  <2>11. TabsOfObjects'
    <3>1. \A o \in Reqs : o # Default /\ page'[o] = page[o] /\ drives'[o] = drives[o]
      BY <2>2 DEF IInv, TypeOK
    <3>2. \A o \in Reqs : req[o].pc = "preparing" => req'[o].pc = "preparing"
      BY <2>3, <2>4
    <3> QED BY <3>1, <3>2 DEF IInv, TabsOfObjects, Live
  <2>12. StartupOwned'
    BY <2>2 DEF IInv, TypeOK, StartupOwned, Owns, Live
  <2>13. DefaultTab'
    BY <2>2 DEF IInv, TypeOK, DefaultTab
  <2>14. TabsOfCalls'
    <3>1. \A r \in Reqs : req'[r].pc = "running" => req'[r] = req[r]
      BY <2>3, <2>4
    <3> QED BY <2>2, <3>1 DEF IInv, TypeOK, TabsOfCalls
  <2>15. TabIsolation'
    <3>1. TabFacts'
      BY <2>6, <2>7, <2>9, <2>10, <2>11, <2>12, <2>13, <2>14 DEF TabFacts
    <3>2. ~closed'
      BY <1>2 DEF closed
    <3> QED BY <3>1, <3>2, TabsApart, PTL
  <2>16. LeasesOwned'
    BY <2>3, <2>4 DEF IInv, LeasesOwned, Live
  <2> QED BY <2>5, <2>6, <2>7, <2>8, <2>9, <2>10, <2>11, <2>12, <2>13, <2>14, <2>15, <2>16 DEF IInv
<1> QED BY <1>1, <1>2

\* The tabs of an object on its way out: its page is its own or the startup tab.
LEMMA CloseTabsKeeps == ASSUME IInv, NEW o \in Objs, CloseTabs(o) PROVE IInv'
<1> DEFINE standby == page[o] = Startup /\ adopted /\ ~closed /\ ~defaultUsed /\ page[Default] = None
<1>1. /\ removal[o] = "closing" /\ removal' = [removal EXCEPT ![o] = IF standby THEN "resetting" ELSE "gone"]
      /\ auto' \subseteq Objs /\ awaiting' \subseteq Tabs /\ open' \subseteq open
      /\ page[o] # Startup => open' = open \ {page[o]}
      /\ UNCHANGED <<req, sessionVars, shut, routeVars, sweep, closing>>
  BY DEF CloseTabs, IInv, TypeOK
<1>2. o \notin Live /\ o \in Reqs /\ req[o].pc \notin Unborn /\ o # Default
  <2>1. Default \in Live
    BY NamesAssumption DEF IInv, TableShape, Live, Ids
  <2> QED BY <1>1, <2>1 DEF IInv, TableShape, FreshObjects, Objs
<1>3. TypeOK'
  BY <1>1 DEF IInv, TypeOK, Removal
<1>4. ReservationsAgree'
  BY <1>1, SameHolders DEF IInv, TypeOK, Holding
<1>5. RequestShape' /\ CreationsAgree' /\ HeldSessionStays' /\ NoNewWork'
  BY <1>1 DEF closed, IInv, RequestShape, CreationsAgree, HeldSessionStays, NoNewWork
<1>6. FreshObjects' /\ TableShape'
  BY <1>1, <1>2 DEF IInv, TypeOK, FreshObjects, TableShape, Live, Holders, Using
<1>7. TabsOfObjects'
  BY <1>1, <1>2 DEF IInv, TypeOK, TabsOfObjects, Live
<1>8. StartupOwned'
  BY <1>1, <1>2 DEF IInv, TypeOK, StartupOwned, Owns, Live
<1>9. DefaultTab' /\ TabsOfCalls'
  BY <1>1 DEF IInv, DefaultTab, TabsOfCalls, Holders, Using
<1>10. TabIsolation'
  <2>1. CASE closed
    BY <1>1, <2>1 DEF closed, IInv, TabIsolation
  <2>2. CASE ~closed
    <3>1. TabFacts' /\ ~closed'
      BY <1>1, <1>3, <1>5, <1>6, <1>7, <1>8, <1>9, <2>2 DEF TabFacts, closed
    <3> QED BY <3>1, TabsApart, PTL
  <2> QED BY <2>1, <2>2
<1>11. LeasesOwned'
  <2>1. o \notin open'
    <3>1. o # Startup /\ (o \in open => page[o] = o)
      BY <1>2, NamesAssumption DEF IInv, TabsOfObjects, Unborn
    <3> QED BY <1>1, <3>1
  <2> QED BY <1>1, <2>1 DEF IInv, TypeOK, LeasesOwned, Live
<1> QED BY <1>3, <1>4, <1>5, <1>6, <1>7, <1>8, <1>9, <1>10, <1>11 DEF IInv

\* Only the owner of the startup tab gives it back.
LEMMA ResetSettlesKeeps == ASSUME IInv, NEW o \in Objs, ResetSettles(o) PROVE IInv'
<1>1. /\ removal[o] = "resetting" /\ removal' = [removal EXCEPT ![o] = "gone"]
      /\ \/ page' = [page EXCEPT ![Default] = Startup] /\ adopted' = FALSE /\ open' = open
         \/ open' = open \ {Startup} /\ page' = page /\ adopted' = adopted
      /\ UNCHANGED <<req, sessions, creating, reservations, drives, awaiting, auto, shut,
                     defaultUsed, rehydration, sweep, closing>>
  BY DEF ResetSettles
<1>2. o \notin Live /\ o \in Reqs /\ req[o].pc \notin Unborn /\ Default \in Objs
  <2>1. Default \in Live
    BY NamesAssumption DEF IInv, TableShape, Live, Ids
  <2> QED BY <1>1, <2>1 DEF IInv, TableShape, FreshObjects, Objs
<1>3. page[o] = Startup /\ Owns(o) /\ adopted
      /\ \A p \in Reqs : Owns(p) => p = o
  BY <1>1, <1>2 DEF IInv, TabsOfObjects, StartupOwned, Owns
<1>4. \A p \in Reqs : page'[p] = page[p]
  BY <1>1, NamesAssumption DEF IInv, TypeOK, Objs
<1>5. TypeOK'
  BY <1>1, <1>2 DEF IInv, TypeOK, Removal, Tabs
<1>6. ReservationsAgree'
  BY <1>1, SameHolders DEF IInv, TypeOK, Holding
<1>7. RequestShape' /\ CreationsAgree' /\ HeldSessionStays' /\ NoNewWork'
  BY <1>1 DEF closed, IInv, RequestShape, CreationsAgree, HeldSessionStays, NoNewWork
<1>8. FreshObjects' /\ TableShape'
  BY <1>1, <1>2, <1>4 DEF IInv, TypeOK, FreshObjects, TableShape, Live, Holders, Using
<1>9. TabsOfObjects'
  BY <1>1, <1>2, <1>4 DEF IInv, TypeOK, TabsOfObjects, Live
<1>10. StartupOwned'
  <2>1. \A p \in Reqs : ~Owns(p)'
    BY <1>1, <1>2, <1>3, <1>4 DEF IInv, TypeOK, Owns, Live
  <2> QED BY <2>1 DEF StartupOwned
<1>11. DefaultTab'
  <2>1. Holders(Default)' = Holders(Default)
    BY <1>1 DEF Holders, Using
  <2>2. CASE page' = page /\ adopted' = adopted
    BY <1>1, <2>1, <2>2 DEF IInv, DefaultTab
  <2>3. CASE page'[Default] = Startup /\ adopted' = FALSE
    BY <1>1, <2>3, NamesAssumption DEF IInv, DefaultTab, Objs
  <2> QED BY <1>1, <1>2, <2>2, <2>3 DEF IInv, TypeOK
<1>12. TabsOfCalls'
  BY <1>1, <1>3 DEF IInv, TabsOfCalls
<1>13. TabIsolation'
  <2>1. CASE closed
    BY <1>1, <2>1 DEF closed, IInv, TabIsolation
  <2>2. CASE ~closed
    <3>1. TabFacts' /\ ~closed'
      BY <1>1, <1>5, <1>7, <1>8, <1>9, <1>10, <1>11, <1>12, <2>2 DEF TabFacts, closed
    <3> QED BY <3>1, TabsApart, PTL
  <2> QED BY <2>1, <2>2
<1>14. LeasesOwned'
  BY <1>1 DEF IInv, TypeOK, LeasesOwned, Live
<1> QED BY <1>5, <1>6, <1>7, <1>8, <1>9, <1>10, <1>11, <1>12, <1>13, <1>14 DEF IInv

\* close() lets nobody in: what is queued rejects, what holds a session finds
\* its lanes shut.
LEMMA CloseKeeps == ASSUME IInv, Close PROVE IInv'
<1>1. /\ ~closed /\ closing' = [step |-> "settling", at |-> None] /\ shut' = shut \union Live
      /\ reservations' = [o \in Objs |-> reservations[o] - Cardinality(Using(o, {"queued"}))]
      /\ UNCHANGED <<sessions, creating, page, drives, awaiting, auto, open, removal, routeVars, sweep>>
  BY DEF Close
<1>2. \A r \in Reqs : \/ req'[r] = req[r] /\ req[r].pc # "queued"
                      \/ req'[r] = Finished /\ req[r].pc = "queued"
  BY DEF Close
<1>3. closed'
  BY <1>1 DEF closed
<1>4. ReservationsAgree' /\ reservations' \in [Objs -> Nat]
  <2>1. ASSUME NEW o \in Objs
        PROVE  /\ reservations'[o] = Cardinality(Holders(o)')
               /\ Cardinality(Holders(o)') \in Nat
    <3>1. Holders(o)' = Holders(o) \ Using(o, {"queued"})
      BY <1>2, FinishedIs DEF Holders, Using
    <3>2. Holders(o) \intersect Using(o, {"queued"}) = Using(o, {"queued"})
      BY DEF Holders, Using
    <3>3. IsFiniteSet(Holders(o)) /\ Cardinality(Holders(o)) \in Nat
      BY FiniteCalls DEF Holders
    <3>4. Cardinality(Holders(o)') = Cardinality(Holders(o)) - Cardinality(Using(o, {"queued"}))
      BY <3>1, <3>2, <3>3, FS_Difference
    <3>5. Cardinality(Holders(o)') \in Nat
      BY <3>1, <3>3, FS_Difference, FS_CardinalityType
    <3> QED BY <1>1, <3>4, <3>5 DEF IInv, ReservationsAgree
  <2> QED BY <1>1, <2>1 DEF ReservationsAgree
<1>5. TypeOK'
  <2>1. req' \in [Reqs -> Request]
    BY <1>2, FinishedIs DEF Close, IInv, TypeOK
  <2>2. shut' \subseteq Objs
    BY <1>1 DEF IInv, TypeOK, Live
  <2> QED BY <1>1, <1>4, <2>1, <2>2 DEF IInv, TypeOK
<1>6. RequestShape' /\ CreationsAgree' /\ HeldSessionStays'
  BY <1>1, <1>2, <1>3, FinishedIs DEF IInv, RequestShape, CreationsAgree, HeldSessionStays,
                                      Holding, Creating
<1>7. NoNewWork'
  <2>1. ASSUME NEW r \in Reqs, req[r].pc = "resolved" PROVE req[r].obj \in Live
    BY <1>1, <2>1, NamesAssumption DEF IInv, HeldSessionStays, RequestShape, Holding, Live, Tabs
  <2> QED BY <1>1, <1>2, <2>1, FinishedIs DEF NoNewWork
<1>8. FreshObjects'
  BY <1>1, <1>2, FinishedIs DEF IInv, FreshObjects, Unborn, Live, Holders, Using
<1>9. TableShape' /\ StartupOwned'
  BY <1>1 DEF IInv, TableShape, StartupOwned, Owns, Live
<1>10. TabsOfObjects'
  BY <1>1, <1>2 DEF IInv, TabsOfObjects, Live
<1>11. DefaultTab'
  BY <1>1, <1>2, FinishedIs DEF IInv, DefaultTab, Holders, Using
<1>12. TabsOfCalls' /\ TabIsolation'
  BY <1>1, <1>2, <1>3, FinishedIs DEF IInv, TabsOfCalls, TabIsolation
<1>13. LeasesOwned'
  BY <1>1, <1>2 DEF closed, IInv, LeasesOwned, Live
<1> QED BY <1>4, <1>5, <1>6, <1>7, <1>8, <1>9, <1>10, <1>11, <1>12, <1>13 DEF IInv

-----------------------------------------------------------------------------
LEMMA InitEstablishes == Init => IInv
<1> SUFFICES ASSUME Init PROVE IInv
  OBVIOUS
<1>1. /\ \A r \in Reqs : req[r] = Blank("new") /\ req[r].pc = "new" /\ req[r] \in Request
      /\ Live = {Default} /\ Default \in Ids /\ Default \in Objs /\ Default \notin Reqs
      /\ Default # Startup /\ Default # None /\ Startup # None /\ Startup \notin Reqs
      /\ ~closed
  BY NamesAssumption DEF Init, Blank, Request, Live, Ids, Objs, Tabs, closed
<1>2. \A o : Holders(o) = {}
  BY <1>1 DEF Holders, Using
<1>3. TypeOK
  BY <1>1, NamesAssumption DEF Init, TypeOK, Removal, SweepOff, Objs, Tabs
<1>4. ReservationsAgree
  BY <1>2, FS_EmptySet DEF Init, ReservationsAgree
<1>5. RequestShape /\ CreationsAgree /\ HeldSessionStays /\ NoNewWork
  BY <1>1 DEF Init, RequestShape, CreationsAgree, HeldSessionStays, NoNewWork, Holding, Creating
<1>6. FreshObjects
  BY <1>1, <1>2 DEF Init, FreshObjects, Objs
<1>7. TableShape
  BY <1>1, NamesAssumption DEF Init, TableShape, SweepOff, Ids
<1>8. TabsOfObjects /\ StartupOwned
  BY <1>1 DEF Init, TabsOfObjects, StartupOwned, Owns, Objs
<1>9. DefaultTab /\ TabsOfCalls
  BY <1>1, <1>2 DEF Init, DefaultTab, TabsOfCalls
<1>10. TabIsolation /\ LeasesOwned
  BY <1>1 DEF Init, TabIsolation, LeasesOwned
<1> QED BY <1>3, <1>4, <1>5, <1>6, <1>7, <1>8, <1>9, <1>10 DEF IInv

LEMMA StepKeeps == IInv /\ [Next]_vars => IInv'
<1> SUFFICES ASSUME IInv, [Next]_vars PROVE IInv'
  OBVIOUS
<1>1. ASSUME NEW r \in Reqs, NEW call \in Calls[r],
             LET k == call[1] id == call[2] IN
               \/ ResolveLive(r, k, id) \/ ResolveRehydrate(r, k, id)
               \/ ResolveJoin(r, k, id) \/ ResolveCreate(r, k, id)
      PROVE  IInv'
  <2>1. call[1] \in Kinds /\ call[2] \in Ids
    BY CallsAssumption
  <2> QED BY <1>1, <2>1, ResolveLiveKeeps, ResolveRehydrateKeeps, ResolveJoinKeeps, ResolveCreateKeeps
<1>2. ASSUME NEW r \in Reqs,
             \/ ResolveClosed(r) \/ Evicted(r) \/ OpenTab(r) \/ FactoryFails(r) \/ FactoryReady(r)
             \/ Enqueue(r) \/ GiveUp(r) \/ Begin(r) \/ Finish(r)
      PROVE  IInv'
  BY <1>2, ResolveClosedKeeps, EvictedKeeps, OpenTabKeeps, FactoryFailsKeeps, FactoryReadyKeeps,
     EnqueueKeeps, GiveUpKeeps, BeginKeeps, FinishKeeps
<1>3. CASE RehydrateOpen \/ RehydrateFails \/ RehydrateReady
  BY <1>3, RehydrateOpenKeeps, RehydrationFailsKeeps, RehydrateReadyKeeps DEF RehydrateFails
<1>4. ASSUME NEW o \in Objs, CloseTabs(o) \/ ResetSettles(o) \/ CloseNamed(o) PROVE IInv'
  BY <1>4, CloseTabsKeeps, ResetSettlesKeeps, CloseNamedKeeps
<1>5. ASSUME NEW id \in Named, Delete(id) PROVE IInv'
  BY <1>5, DeleteKeeps
<1>6. ASSUME NEW s \in Sweepers, SweepStart(s) \/ SweepStep(s) PROVE IInv'
  BY <1>6, SweepStartKeeps, SweepAutomationKeeps, SweepCollectKeeps, SweepNextKeeps, SweepEndKeeps
     DEF SweepStep
<1>7. CASE Close \/ CloseDrained \/ CloseDefault
  BY <1>7, CloseKeeps, CloseDrainedKeeps, CloseDefaultKeeps
<1>8. CASE UNCHANGED vars
  <2>1. TypeOK'
    BY <1>8 DEF vars, IInv, TypeOK
  <2> QED BY <1>8, <2>1, NothingMoves DEF vars, IInv, TableShape, closed
<1> QED BY <1>1, <1>2, <1>3, <1>4, <1>5, <1>6, <1>7, <1>8 DEF Next

LEMMA Inductive == Spec => []IInv
BY InitEstablishes, StepKeeps, PTL DEF Spec

-----------------------------------------------------------------------------
(* The results. *)

\* The counter of a session is the number of calls between resolve() and their
\* finally, in every interleaving (session-manager.ts: reservations).
THEOREM ReservationsAreExact == Spec => []ReservationsAgree
BY Inductive, PTL DEF IInv

\* Neither a sweep nor an eviction nor delete() takes a session from under a
\* call that has resolved it (session-manager.ts: removeSession, sweepIdle).
THEOREM HeldSessionsStay == Spec => []HeldSessionStays
BY Inductive, PTL DEF IInv

\* No two chats drive one tab, the startup tab that changes hands included
\* (session-manager.ts: canAdoptStartupTab, removeSession).
THEOREM TabsAreIsolated == Spec => []TabIsolation
BY Inductive, PTL DEF IInv

\* A tab opened for a named session always has somebody who will close it: the call that
\* creates the session, the session itself until shutdown, or its removal
\* (session-manager.ts: create, removeSession, close).  The default route's tab is not
\* spoken of: observation 3 of the README says how it may be lost.
THEOREM LeasesHaveOwners == Spec => []LeasesOwned
BY Inductive, PTL DEF IInv

\* The table and its bookkeeping keep their types.
THEOREM Typing == Spec => []TypeOK
BY Inductive, PTL DEF IInv

-----------------------------------------------------------------------------
(* max_sessions: a name is counted once, as a creation or as a session. *)

Filled(f) == {id \in Ids : f[id] # None}
Admitted ==
  /\ IsFiniteSet(Filled(sessions))
  /\ IsFiniteSet(Filled(creating))
  /\ SessionLimit

\* No name is added, or one that was there before.
LEMMA NotMore ==
  ASSUME Admitted, Filled(sessions)' \subseteq Filled(sessions),
         Filled(creating)' \subseteq Filled(creating)
  PROVE  Admitted'
<1>1. /\ IsFiniteSet(Filled(sessions)') /\ IsFiniteSet(Filled(creating)')
      /\ Cardinality(Filled(sessions)') <= Cardinality(Filled(sessions))
      /\ Cardinality(Filled(creating)') <= Cardinality(Filled(creating))
  BY FS_Subset DEF Admitted
<1>2. /\ Cardinality(Filled(sessions)') \in Nat /\ Cardinality(Filled(creating)') \in Nat
      /\ Cardinality(Filled(sessions)) \in Nat /\ Cardinality(Filled(creating)) \in Nat
  BY <1>1, FS_CardinalityType DEF Admitted
<1>3. Cardinality(Filled(sessions)) + Cardinality(Filled(creating)) <= MaxSessions
  BY DEF Admitted, SessionLimit, Count, Filled
<1>4. Cardinality(Filled(sessions)') + Cardinality(Filled(creating)') <= MaxSessions
  BY <1>1, <1>2, <1>3, LimitsAssumption
<1> QED BY <1>1, <1>4 DEF Admitted, SessionLimit, Count, Filled

\* One name moves between the two, or comes in below the limit.
LEMMA OneEnters ==
  ASSUME Admitted, NEW id, NEW out,
         \/ /\ Filled(sessions)' \subseteq Filled(sessions) \union {id}
            /\ Filled(creating)' \subseteq Filled(creating) \ {id}
            /\ ~AtCountLimit \/ id \in Filled(creating)
         \/ /\ Filled(sessions)' \subseteq Filled(sessions) \ {out}
            /\ Filled(creating)' \subseteq Filled(creating) \union {id}
            /\ ~AtCountLimit \/ out \in Filled(sessions)
  PROVE  Admitted'
<1> DEFINE S == Filled(sessions)
           C == Filled(creating)
<1>1. /\ IsFiniteSet(S) /\ IsFiniteSet(C)
      /\ Cardinality(S) \in Nat /\ Cardinality(C) \in Nat
      /\ Cardinality(S) + Cardinality(C) <= MaxSessions
  BY FS_CardinalityType DEF Admitted, SessionLimit, Count, Filled
<1>2. ~AtCountLimit => Cardinality(S) + Cardinality(C) < MaxSessions
  BY <1>1, LimitsAssumption DEF AtCountLimit, Count, Filled
<1>3. ASSUME NEW A, NEW B, IsFiniteSet(A), IsFiniteSet(B), S' \subseteq A, C' \subseteq B,
             Cardinality(A) + Cardinality(B) <= MaxSessions
      PROVE  Admitted'
  <2>1. /\ IsFiniteSet(S') /\ IsFiniteSet(C')
        /\ Cardinality(S') <= Cardinality(A) /\ Cardinality(C') <= Cardinality(B)
    BY <1>3, FS_Subset
  <2>2. /\ Cardinality(S') \in Nat /\ Cardinality(C') \in Nat
        /\ Cardinality(A) \in Nat /\ Cardinality(B) \in Nat
    BY <1>3, <2>1, FS_CardinalityType
  <2>3. Cardinality(S') + Cardinality(C') <= MaxSessions
    BY <1>3, <2>1, <2>2, LimitsAssumption
  <2> QED BY <2>1, <2>3 DEF Admitted, SessionLimit, Count, Filled
<1> HIDE DEF S, C
<1>4. CASE /\ S' \subseteq S \union {id} /\ C' \subseteq C \ {id}
           /\ ~AtCountLimit \/ id \in C
  <2>1. /\ IsFiniteSet(S \union {id}) /\ IsFiniteSet(C \ {id})
        /\ Cardinality(S \union {id}) <= Cardinality(S) + 1
        /\ Cardinality(C \ {id}) = IF id \in C THEN Cardinality(C) - 1 ELSE Cardinality(C)
        /\ Cardinality(S \union {id}) \in Nat /\ Cardinality(C \ {id}) \in Nat
    BY <1>1, FS_AddElement, FS_RemoveElement, FS_CardinalityType
  <2>2. Cardinality(S \union {id}) + Cardinality(C \ {id}) <= MaxSessions
    BY <1>1, <1>2, <1>4, <2>1, LimitsAssumption
  <2> QED BY <1>3, <1>4, <2>1, <2>2
<1>5. CASE /\ S' \subseteq S \ {out} /\ C' \subseteq C \union {id}
           /\ ~AtCountLimit \/ out \in S
  <2>1. /\ IsFiniteSet(C \union {id}) /\ IsFiniteSet(S \ {out})
        /\ Cardinality(C \union {id}) <= Cardinality(C) + 1
        /\ Cardinality(S \ {out}) = IF out \in S THEN Cardinality(S) - 1 ELSE Cardinality(S)
        /\ Cardinality(C \union {id}) \in Nat /\ Cardinality(S \ {out}) \in Nat
    BY <1>1, FS_AddElement, FS_RemoveElement, FS_CardinalityType
  <2>2. Cardinality(S \ {out}) + Cardinality(C \union {id}) <= MaxSessions
    BY <1>1, <1>2, <1>5, <2>1, LimitsAssumption
  <2> QED BY <1>3, <1>5, <2>1, <2>2
<1> QED BY <1>4, <1>5 DEF S, C

LEMMA FailureReleases ==
  ASSUME IInv, Admitted, NEW r, NEW id, FailCreation(r, id), UNCHANGED sessions
  PROVE  Admitted'
<1>1. Filled(sessions)' \subseteq Filled(sessions) /\ Filled(creating)' \subseteq Filled(creating)
  BY DEF FailCreation, Filled, IInv, TypeOK
<1> QED BY <1>1, NotMore

LEMMA RemovalReleases ==
  ASSUME Admitted, NEW o, StartRemoval(o), UNCHANGED creating
  PROVE  Admitted'
<1>1. Filled(sessions)' \subseteq Filled(sessions) /\ Filled(creating)' \subseteq Filled(creating)
  BY DEF StartRemoval, Filled
<1> QED BY <1>1, NotMore

LEMMA CreationAdmitted ==
  ASSUME IInv, Admitted, NEW r \in Reqs, NEW c \in Request, AdoptOrOpen(r, c), c.id \in Ids,
         \/ ~AtCountLimit
         \/ creating[c.id] = r
  PROVE  Admitted'
<1>0. creating[c.id] = r => c.id \in Filled(creating)
  BY NamesAssumption DEF Filled, Objs, Tabs
<1>1. CASE FailCreation(r, c.id) /\ UNCHANGED sessions
  BY <1>1, FailureReleases
<1>2. ASSUME NEW tab, Register(r, c, tab) PROVE Admitted'
  <2>1. /\ Filled(sessions)' \subseteq Filled(sessions) \union {c.id}
        /\ Filled(creating)' \subseteq Filled(creating) \ {c.id}
    BY <1>2 DEF Register, Filled, IInv, TypeOK
  <2> QED BY <1>0, <2>1, OneEnters
<1>3. CASE creating' = [creating EXCEPT ![c.id] = r] /\ UNCHANGED sessions
  <2>1. CASE ~AtCountLimit
    <3>1. /\ Filled(sessions)' \subseteq Filled(sessions) \ {None}
          /\ Filled(creating)' \subseteq Filled(creating) \union {c.id}
      BY <1>3, NamesAssumption DEF Filled, IInv, TypeOK
    <3> QED BY <2>1, <3>1, OneEnters
  <2>2. CASE creating[c.id] = r
    <3>1. Filled(sessions)' \subseteq Filled(sessions) /\ Filled(creating)' \subseteq Filled(creating)
      BY <1>3, <2>2 DEF Filled, IInv, TypeOK
    <3> QED BY <3>1, NotMore
  <2> QED BY <2>1, <2>2
<1> QED BY <1>1, <1>2, <1>3 DEF AdoptOrOpen

LEMMA AdmittedStays == IInv /\ Admitted /\ [Next]_vars => Admitted'
<1> SUFFICES ASSUME IInv, Admitted, [Next]_vars PROVE Admitted'
  OBVIOUS
<1>1. ASSUME NEW r \in Reqs, NEW call \in Calls[r], ResolveCreate(r, call[1], call[2]) PROVE Admitted'
  <2> DEFINE k == call[1]
             id == call[2]
  <2>1. k \in Kinds /\ id \in Ids
    BY CallsAssumption
  <2>2. Call(k, id) \in Request /\ Call(k, id).id = id
    BY <2>1, CallIs
  <2>3. CASE ~AtCountLimit /\ AdoptOrOpen(r, Call(k, id))
    BY <2>1, <2>2, <2>3, CreationAdmitted
  <2>4. ASSUME NEW o \in Objs, Recyclable(o), StartRemoval(o), creating' = [creating EXCEPT ![id] = r]
        PROVE  Admitted'
    <3>1. PICK out \in Ids : sessions[out] = o /\ o # None
      BY <2>4 DEF Recyclable, Live
    <3>2. /\ Filled(sessions)' \subseteq Filled(sessions) \ {out} /\ out \in Filled(sessions)
          /\ Filled(creating)' \subseteq Filled(creating) \union {id}
      BY <2>4, <3>1 DEF StartRemoval, Filled, IInv, TypeOK
    <3> QED BY <3>2, OneEnters
  <2>5. CASE UNCHANGED <<sessions, creating>>
    BY <2>5, NotMore DEF Filled
  <2> QED BY <1>1, <2>3, <2>4, <2>5 DEF ResolveCreate
<1>2. ASSUME NEW r \in Reqs, Evicted(r) PROVE Admitted'
  <2>1. req[r] \in Request /\ req[r].id \in Ids /\ creating[req[r].id] = r
    BY <1>2 DEF Evicted, IInv, TypeOK, RequestShape, CreationsAgree, Creating
  <2> QED BY <1>2, <2>1, CreationAdmitted, FailureReleases DEF Evicted
<1>3. ASSUME NEW r \in Reqs, FactoryFails(r) \/ FactoryReady(r) PROVE Admitted'
  <2>1. req[r].id \in Filled(creating)
    BY <1>3, NamesAssumption DEF FactoryFails, FactoryReady, IInv, RequestShape, CreationsAgree,
                                 Creating, Filled, Objs, Tabs
  <2>2. CASE FailCreation(r, req[r].id) /\ UNCHANGED sessions
    BY <2>2, FailureReleases
  <2>3. CASE Register(r, req[r], r)
    <3>1. /\ Filled(sessions)' \subseteq Filled(sessions) \union {req[r].id}
          /\ Filled(creating)' \subseteq Filled(creating) \ {req[r].id}
      BY <2>3 DEF Register, Filled, IInv, TypeOK
    <3> QED BY <2>1, <3>1, OneEnters
  <2> QED BY <1>3, <2>2, <2>3 DEF FactoryFails, FactoryReady
<1>4. ASSUME UNCHANGED creating, (\E o : StartRemoval(o)) \/ UNCHANGED sessions PROVE Admitted'
  BY <1>4, RemovalReleases, NotMore DEF Filled
<1>5. ASSUME NEW r \in Reqs, NEW call \in Calls[r],
             LET k == call[1] id == call[2] IN
               ResolveLive(r, k, id) \/ ResolveRehydrate(r, k, id) \/ ResolveJoin(r, k, id)
      PROVE  Admitted'
  BY <1>4, <1>5 DEF ResolveLive, ResolveRehydrate, ResolveJoin
<1>6. ASSUME NEW r \in Reqs,
             ResolveClosed(r) \/ OpenTab(r) \/ Enqueue(r) \/ GiveUp(r) \/ Begin(r) \/ Finish(r)
      PROVE  Admitted'
  BY <1>4, <1>6 DEF ResolveClosed, OpenTab, Enqueue, GiveUp, Begin, BeginChat, BeginAutomation, Enter,
                    Finish, FinishChat, FinishReset, FinishAutomation, Ends
<1>7. CASE RehydrateOpen \/ RehydrateFails \/ RehydrateReady \/ Close \/ CloseDrained \/ CloseDefault
  BY <1>4, <1>7 DEF RehydrateOpen, RehydrateFails, RehydrationFails, RehydrateReady, Close,
                    CloseDrained, CloseDefault
<1>8. ASSUME NEW o \in Objs, CloseTabs(o) \/ ResetSettles(o) \/ CloseNamed(o) PROVE Admitted'
  BY <1>4, <1>8 DEF CloseTabs, ResetSettles, CloseNamed
<1>9. ASSUME NEW id \in Named, Delete(id) PROVE Admitted'
  BY <1>4, <1>9 DEF Delete
<1>10. ASSUME NEW s \in Sweepers, SweepStart(s) \/ SweepStep(s) PROVE Admitted'
  BY <1>4, <1>10 DEF SweepStart, SweepStep, SweepAutomation, SweepCollect, SweepNext, SweepEnd, Pressure
<1>11. CASE UNCHANGED vars
  BY <1>4, <1>11 DEF vars
<1> QED BY <1>1, <1>2, <1>3, <1>5, <1>6, <1>7, <1>8, <1>9, <1>10, <1>11 DEF Next

\* Creations that overlap never take the table past max_sessions, although
\* ensureCapacity looks before its awaits (session-manager.ts: ensureCapacity).
THEOREM SessionsBounded == Spec => []SessionLimit
<1>1. Init => Admitted
  <2> SUFFICES ASSUME Init PROVE Admitted
    OBVIOUS
  <2>1. Filled(sessions) = {Default} /\ Filled(creating) = {}
    BY NamesAssumption DEF Init, Filled, Ids, Tabs, Objs
  <2>2. /\ IsFiniteSet(Filled(sessions)) /\ Cardinality(Filled(sessions)) = 1
        /\ IsFiniteSet(Filled(creating)) /\ Cardinality(Filled(creating)) = 0
    BY <2>1, FS_Singleton, FS_EmptySet
  <2> QED BY <2>2, LimitsAssumption DEF Admitted, SessionLimit, Count, Filled
<1>2. Admitted => SessionLimit
  BY DEF Admitted
<1> QED BY <1>1, <1>2, AdmittedStays, Inductive, PTL DEF Spec

=============================================================================
