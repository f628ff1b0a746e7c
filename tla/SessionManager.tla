---------------------------- MODULE SessionManager ----------------------------
(***************************************************************************)
(* The session table of the proxy: class SessionManager of                 *)
(* runtime/session-manager.ts, with the tabs it owns in the one browser    *)
(* context that all its sessions share.                                    *)
(*                                                                         *)
(* One action is the code that runs between two awaits.  An object of type *)
(* ManagedSession is named by the request that creates it, the default one *)
(* by Default; a tab opened for an object has the object's name, and stands*)
(* for the executor that drives it.  Idle times are not measured: where    *)
(* the code compares lastActivity with a timeout, or takes the oldest      *)
(* candidate, the model takes any.  The lanes are those of SerialQueue,    *)
(* seen as: one task inside per lane, none started once closed.            *)
(***************************************************************************)
EXTENDS Naturals, FiniteSets

CONSTANTS Reqs,        \* calls of transaction, reset and browserAction
          Calls,       \* [Reqs -> SUBSET (Kinds \X Ids)]: what each call may ask
          Named,       \* the names clients use
          Default,     \* the 'default' session
          Startup,     \* the tab Chrome was started with
          None,
          MaxSessions, MaxPages,
          Sweepers     \* runs of sweepIdle that may overlap

Kinds == {"chat", "reset", "browse", "browseClose"}
Ids == Named \union {Default}
Objs == Reqs \union {Default}
Tabs == Objs \union {Startup}

ASSUME NamesAssumption ==
  /\ IsFiniteSet(Reqs)
  /\ Default \notin Reqs \union Named
  /\ Startup \notin Objs
  /\ None \notin Ids \union Tabs
ASSUME CallsAssumption == Calls \in [Reqs -> SUBSET (Kinds \X Ids)]
ASSUME LimitsAssumption == MaxSessions \in Nat \ {0} /\ MaxPages \in Nat

VARIABLES
  req,          \* [Reqs -> Request]: each caller's place in the code
  sessions,     \* [Ids -> Objs or None]
  creating,     \* [Ids -> Reqs or None]: the request that creates the session
  reservations, \* [Objs -> Nat]
  page,         \* [Objs -> Tabs or None]: browserSession.page
  drives,       \* [Objs -> Tabs or None]: the tab of the object's executor
  awaiting,     \* the tabs whose executor has tool calls pending
  auto,         \* the objects with an automation page open
  shut,         \* the objects whose queues are closed
  open,         \* the tabs open in the context, automation pages apart
  removal,      \* [Objs -> Removal]: progress of removeSession(object)
  adopted,      \* startupTabAdopted
  defaultUsed,  \* defaultRouteUsed
  rehydration,  \* progress of defaultRehydration
  sweep,        \* [Sweepers -> Sweep]
  closing       \* progress of close(): step and the object being removed

sessionVars == <<sessions, creating, reservations, page, drives>>
tabVars == <<awaiting, auto, shut, open, removal>>
routeVars == <<adopted, defaultUsed, rehydration>>
vars == <<req, sessionVars, tabVars, routeVars, sweep, closing>>

Removal == {"no", "closing", "resetting", "gone"}
closed == closing.step # "open"

Request == [pc : {"new", "rehydrating", "joining", "evicting", "opening", "preparing",
                  "resolved", "queued", "running", "done"},
            kind : Kinds \union {None}, id : Ids \union {None},
            obj : Objs \union {None}, victim : Objs \union {None}, tab : Tabs \union {None}]

Blank(pc) ==
  [pc |-> pc, kind |-> None, id |-> None, obj |-> None, victim |-> None, tab |-> None]

SweepOff == [phase |-> "off", todo |-> {}, at |-> None]

Init ==
  /\ req = [r \in Reqs |-> Blank("new")]
  /\ sessions = [id \in Ids |-> IF id = Default THEN Default ELSE None]
  /\ creating = [id \in Ids |-> None]
  /\ reservations = [o \in Objs |-> 0]
  /\ page = [o \in Objs |-> IF o = Default THEN Startup ELSE None]
  /\ drives = [o \in Objs |-> IF o = Default THEN Startup ELSE None]
  /\ awaiting = {}
  /\ auto = {}
  /\ shut = {}
  /\ open = {Startup}
  /\ removal = [o \in Objs |-> "no"]
  /\ adopted = FALSE
  /\ defaultUsed = FALSE
  /\ rehydration = "none"
  /\ sweep = [s \in Sweepers |-> SweepOff]
  /\ closing = [step |-> "open", at |-> None]

-----------------------------------------------------------------------------
\* Objects in the table, and the requests inside an object or its queues.
Live == {sessions[id] : id \in Ids} \ {None}
Using(o, pcs) == {r \in Reqs : req[r].obj = o /\ req[r].pc \in pcs}
Holders(o) == Using(o, {"resolved", "queued", "running"})
Quiet(o) == reservations[o] = 0 /\ Using(o, {"queued", "running"}) = {}

\* The filter of oldestRecyclableSession and of the stale list of sweepIdle.
Recyclable(o) ==
  /\ o \in Live \ {Default}
  /\ Quiet(o)
  /\ drives[o] \notin awaiting

\* The first two lines of removeSession.
\* Slip: it trusts its caller's earlier look.
CanRemoveUnchecked(o) == o \in Live
CanRemove(o) == o \in Live /\ (closed \/ Quiet(o))

\* browserPageCount: every tab of the shared context, seen through any live
\* session that has one of them.
browserPageCount ==
  IF \E o \in Live : page[o] # None THEN Cardinality(open) + Cardinality(auto) ELSE 0
AtPageLimit == browserPageCount >= MaxPages

Count(f) == Cardinality({id \in Ids : f[id] # None})
\* Slip: creations on their way are not counted.
AtCountLimitLate == Count(sessions) >= MaxSessions
AtCountLimit == Count(sessions) + Count(creating) >= MaxSessions

\* Slip: the default session need not be unused.
canAdoptBusyTab == ~adopted /\ page[Default] # None /\ page[Default] \in open
canAdoptStartupTab ==
  /\ ~adopted
  /\ ~defaultUsed
  /\ Quiet(Default)
  /\ Default \notin auto
  /\ page[Default] # None
  /\ page[Default] \in open

-----------------------------------------------------------------------------
(* The bookkeeping the operations share. *)

Finished == Blank("done")

\* The creator of a name and the callers that wait for the same creation.
Waiters(id) ==
  {r \in Reqs : req[r].id = id /\ req[r].pc \in {"joining", "evicting", "opening", "preparing"}}

Hold(r, o) == [req[r] EXCEPT !.pc = "resolved", !.obj = o, !.victim = None]

\* The creation of id by r fails: the creator and its joiners reject.
\* Slip: nobody tells the joiners.
FailCreationOf1(r, id) ==
  /\ req' = [req EXCEPT ![r] = Finished]
  /\ creating' = [creating EXCEPT ![id] = None]
FailCreation(r, id) ==
  /\ req' = [q \in Reqs |-> IF q \in Waiters(id) \union {r} THEN Finished ELSE req[q]]
  /\ creating' = [creating EXCEPT ![id] = None]

\* The end of create(): the new object enters the table with a reservation for
\* its creator; each joiner adds its own before any of them can run.
\* Slip: a joiner takes the object without reserving it.
RegisterForOne(r, call, tab) ==
  LET waiters == Waiters(call.id) \union {r} IN
  /\ sessions' = [sessions EXCEPT ![call.id] = r]
  /\ creating' = [creating EXCEPT ![call.id] = None]
  /\ drives' = [drives EXCEPT ![r] = tab]
  /\ reservations' = [reservations EXCEPT ![r] = 1]
  /\ req' = [q \in Reqs |-> IF q = r
                THEN [call EXCEPT !.pc = "resolved", !.obj = r, !.victim = None]
                ELSE IF q \in waiters THEN Hold(q, r) ELSE req[q]]
Register(r, call, tab) ==
  LET waiters == Waiters(call.id) \union {r} IN
  /\ sessions' = [sessions EXCEPT ![call.id] = r]
  /\ creating' = [creating EXCEPT ![call.id] = None]
  /\ drives' = [drives EXCEPT ![r] = tab]
  /\ reservations' = [reservations EXCEPT ![r] = Cardinality(waiters)]
  /\ req' = [q \in Reqs |-> IF q = r
                THEN [call EXCEPT !.pc = "resolved", !.obj = r, !.victim = None]
                ELSE IF q \in waiters THEN Hold(q, r) ELSE req[q]]

\* The rest of create() after ensureCapacity: take the startup tab, or ask the
\* factory for a new one.
AdoptOrOpen(r, call) ==
  IF canAdoptStartupTab
    THEN /\ adopted' = TRUE
         /\ page' = [page EXCEPT ![Default] = None, ![r] = page[Default]]
         /\ IF closed
              THEN FailCreation(r, call.id) /\ UNCHANGED <<sessions, drives, reservations>>
              ELSE Register(r, call, page[Default])
    ELSE /\ req' = [req EXCEPT ![r] = [call EXCEPT !.pc = "opening", !.victim = None]]
         /\ creating' = [creating EXCEPT ![call.id] = r]
         /\ UNCHANGED <<sessions, page, drives, reservations, adopted>>

\* removeSession up to its first await.
StartRemoval(o) ==
  /\ sessions' = [id \in Ids |-> IF sessions[id] = o THEN None ELSE sessions[id]]
  /\ shut' = shut \union {o}
  /\ removal' = [removal EXCEPT ![o] = "closing"]

\* The caller leaves: the finally of transaction, reset and browserAction.
\* Slip: the reservation is given back twice.
LeaveTwice(r) ==
  /\ req' = [req EXCEPT ![r] = Finished]
  /\ reservations' = [reservations EXCEPT ![req[r].obj] = @ - 2]
Leave(r) ==
  /\ req' = [req EXCEPT ![r] = Finished]
  /\ reservations' = [reservations EXCEPT ![req[r].obj] = @ - 1]

-----------------------------------------------------------------------------
(* resolve() *)

Call(k, id) == [Blank("new") EXCEPT !.kind = k, !.id = id]
DefaultNeedsTab == adopted /\ page[Default] = None

ResolveClosed(r) ==
  /\ req[r].pc = "new"
  /\ closed
  /\ req' = [req EXCEPT ![r] = Finished]
  /\ UNCHANGED <<sessionVars, tabVars, routeVars, sweep, closing>>

\* The session exists and, for the default route, has its tab.
ResolveLive(r, k, id) ==
  /\ req[r].pc = "new"
  /\ ~closed
  /\ sessions[id] # None
  /\ id = Default => ~DefaultNeedsTab
  /\ req' = [req EXCEPT ![r] = [Call(k, id) EXCEPT !.pc = "resolved", !.obj = sessions[id]]]
  /\ reservations' = [reservations EXCEPT ![sessions[id]] = @ + 1]
  /\ defaultUsed' = (defaultUsed \/ id = Default)
  /\ UNCHANGED <<sessions, creating, page, drives, tabVars, adopted, rehydration, sweep, closing>>

\* The default route lost its tab to a named session: open one, once for all callers.
ResolveRehydrate(r, k, id) ==
  /\ req[r].pc = "new"
  /\ ~closed
  /\ id = Default
  /\ DefaultNeedsTab
  /\ req' = [req EXCEPT ![r] = [Call(k, id) EXCEPT !.pc = "rehydrating"]]
  /\ defaultUsed' = TRUE
  /\ rehydration' = IF rehydration = "none" THEN "opening" ELSE rehydration
  /\ UNCHANGED <<sessionVars, tabVars, adopted, sweep, closing>>

ResolveJoin(r, k, id) ==
  /\ req[r].pc = "new"
  /\ ~closed
  /\ sessions[id] = None
  /\ creating[id] # None
  /\ req' = [req EXCEPT ![r] = [Call(k, id) EXCEPT !.pc = "joining"]]
  /\ UNCHANGED <<sessionVars, tabVars, routeVars, sweep, closing>>

\* create(): admitted as it is, admitted once a recyclable session has gone, or
\* refused by ensureCapacity.
ResolveCreate(r, k, id) ==
  /\ req[r].pc = "new"
  /\ ~closed
  /\ sessions[id] = None
  /\ creating[id] = None
  /\ UNCHANGED <<defaultUsed, rehydration, sweep, closing>>
  /\ \/ /\ ~AtCountLimit
        /\ canAdoptStartupTab \/ ~AtPageLimit
        /\ AdoptOrOpen(r, Call(k, id))
        /\ UNCHANGED tabVars
     \/ /\ AtCountLimit \/ (~canAdoptStartupTab /\ AtPageLimit)
        /\ \E o \in Objs :
             /\ Recyclable(o)
             /\ StartRemoval(o)
             /\ req' = [req EXCEPT ![r] = [Call(k, id) EXCEPT !.pc = "evicting", !.victim = o]]
        /\ creating' = [creating EXCEPT ![id] = r]
        /\ UNCHANGED <<reservations, page, drives, awaiting, auto, open, adopted>>
     \/ /\ AtCountLimit \/ (~canAdoptStartupTab /\ AtPageLimit)
        /\ \A o \in Objs : ~Recyclable(o)
        /\ req' = [req EXCEPT ![r] = Finished]
        /\ UNCHANGED <<sessionVars, tabVars, adopted>>

\* ensureCapacity after its eviction: only the page limit is looked at again.
Evicted(r) ==
  /\ req[r].pc = "evicting"
  /\ removal[req[r].victim] = "gone"
  /\ IF ~canAdoptStartupTab /\ AtPageLimit
       THEN /\ FailCreation(r, req[r].id)
            /\ UNCHANGED <<sessions, page, drives, reservations, adopted>>
       ELSE AdoptOrOpen(r, req[r])
  /\ UNCHANGED <<tabVars, defaultUsed, rehydration, sweep, closing>>

\* The factory opens the tab, prepares it, or fails at either point.
OpenTab(r) ==
  /\ req[r].pc = "opening"
  /\ open' = open \union {r}
  /\ req' = [req EXCEPT ![r].pc = "preparing"]
  /\ UNCHANGED <<sessionVars, awaiting, auto, shut, removal, routeVars, sweep, closing>>

FactoryFails(r) ==
  /\ req[r].pc \in {"opening", "preparing"}
  /\ open' = open \ {r}
  /\ FailCreation(r, req[r].id)
  /\ UNCHANGED <<sessions, reservations, page, drives, awaiting, auto, shut, removal,
                 routeVars, sweep, closing>>

\* Slip: create() does not look at `closed' again.
FactoryReadyLate(r) ==
  /\ req[r].pc = "preparing"
  /\ Register(r, req[r], r)
  /\ page' = [page EXCEPT ![r] = r]
  /\ UNCHANGED <<tabVars, routeVars, sweep, closing>>
FactoryReady(r) ==
  /\ req[r].pc = "preparing"
  /\ IF closed
       THEN /\ open' = open \ {r}
            /\ FailCreation(r, req[r].id)
            /\ UNCHANGED <<sessions, reservations, page, drives>>
       ELSE /\ Register(r, req[r], r)
            /\ page' = [page EXCEPT ![r] = r]
            /\ UNCHANGED open
  /\ UNCHANGED <<awaiting, auto, shut, removal, routeVars, sweep, closing>>

-----------------------------------------------------------------------------
(* rehydrateDefaultRoute() *)

Rehydrating == {r \in Reqs : req[r].pc = "rehydrating"}

RehydrationFails ==
  /\ rehydration' = "none"
  /\ open' = open \ {Default}
  /\ req' = [r \in Reqs |-> IF r \in Rehydrating THEN Finished ELSE req[r]]
  /\ UNCHANGED <<sessionVars, awaiting, auto, shut, removal, adopted, defaultUsed, sweep, closing>>

RehydrateOpen ==
  /\ rehydration = "opening"
  /\ rehydration' = "preparing"
  /\ open' = open \union {Default}
  /\ UNCHANGED <<req, sessionVars, awaiting, auto, shut, removal, adopted, defaultUsed, sweep, closing>>

RehydrateFails == rehydration # "none" /\ RehydrationFails

RehydrateReady ==
  /\ rehydration = "preparing"
  /\ IF closed
       THEN RehydrationFails
       ELSE /\ rehydration' = "none"
            /\ drives' = [drives EXCEPT ![Default] = Default]
            /\ page' = [page EXCEPT ![Default] = Default]
            /\ reservations' = [reservations EXCEPT ![Default] = @ + Cardinality(Rehydrating)]
            /\ req' = [r \in Reqs |-> IF r \in Rehydrating THEN Hold(r, Default) ELSE req[r]]
            /\ UNCHANGED <<sessions, creating, tabVars, adopted, defaultUsed, sweep, closing>>

-----------------------------------------------------------------------------
(* transaction(), reset() and browserAction() once they hold the session. *)

Lane(k) == IF k \in {"chat", "reset"} THEN "chat" ELSE "automation"

Enqueue(r) ==
  /\ req[r].pc = "resolved"
  /\ req[r].obj \notin shut
  /\ Lane(req[r].kind) = "automation" => page[req[r].obj] # None
  /\ req' = [req EXCEPT ![r].pc = "queued"]
  /\ UNCHANGED <<sessionVars, tabVars, routeVars, sweep, closing>>

\* The caller's signal, a full or closed lane, or a session without a browser.
GiveUp(r) ==
  /\ req[r].pc \in {"resolved", "queued"}
  /\ Leave(r)
  /\ UNCHANGED <<sessions, creating, page, drives, tabVars, routeVars, sweep, closing>>

\* The lane lets the task in.
Enter(r) ==
  /\ req[r].pc = "queued"
  /\ \A q \in Using(req[r].obj, {"running"}) : Lane(req[q].kind) # Lane(req[r].kind)
  /\ req' = [req EXCEPT ![r].pc = "running", ![r].tab = drives[req[r].obj]]
  /\ UNCHANGED <<sessionVars, awaiting, shut, open, removal, routeVars, sweep, closing>>

BeginChat(r) == Lane(req[r].kind) = "chat" /\ Enter(r) /\ UNCHANGED auto

\* action = close takes the automation page away at once.
BeginAutomation(r) ==
  /\ Lane(req[r].kind) = "automation"
  /\ Enter(r)
  /\ auto' = IF req[r].kind = "browseClose" THEN auto \ {req[r].obj} ELSE auto

Begin(r) == BeginChat(r) \/ BeginAutomation(r)

\* The task settles, whatever its outcome, and its caller leaves.
Ends(r, kinds) ==
  /\ req[r].pc = "running"
  /\ req[r].kind \in kinds
  /\ Leave(r)
  /\ UNCHANGED <<sessions, creating, page, drives, shut, open, removal, routeVars, sweep, closing>>

\* A chat may leave tool calls pending in its executor, or settle them.
FinishChat(r) ==
  /\ Ends(r, {"chat"})
  /\ awaiting' \in {awaiting \union {req[r].tab}, awaiting \ {req[r].tab}}
  /\ UNCHANGED auto

\* A reset forgets them.
FinishReset(r) ==
  /\ Ends(r, {"reset"})
  /\ awaiting' = awaiting \ {req[r].tab}
  /\ UNCHANGED auto

\* An action may leave its page open, not once the shutdown signal has fired.
FinishAutomation(r) ==
  /\ Ends(r, {"browse", "browseClose"})
  /\ auto' \in {auto} \union
       (IF req[r].kind = "browse" /\ ~closed THEN {auto \union {req[r].obj}} ELSE {})
  /\ UNCHANGED awaiting

Finish(r) == FinishChat(r) \/ FinishReset(r) \/ FinishAutomation(r)

-----------------------------------------------------------------------------
(* removeSession() after its first await, and delete(). *)

\* The automation page and the lease close, then the startup tab is dealt with:
\* cleared for the standby default, closed, or kept until shutdown.
CloseTabs(o) ==
  LET startup == page[o] = Startup /\ adopted
      standby == startup /\ ~closed /\ ~defaultUsed /\ page[Default] = None
      discard == startup /\ ~standby /\ (closed \/ page[Default] # None) IN
  /\ removal[o] = "closing"
  /\ auto' = auto \ {o}
  /\ open' = open \ (IF page[o] # Startup \/ discard THEN {page[o]} ELSE {})
  /\ removal' = [removal EXCEPT ![o] = IF standby THEN "resetting" ELSE "gone"]
  /\ awaiting' = IF standby THEN awaiting \ {Startup} ELSE awaiting
  /\ UNCHANGED <<req, sessionVars, shut, routeVars, sweep, closing>>

\* defaultExecutor.reset() settles: the default has its tab again, or it closes.
ResetSettles(o) ==
  /\ removal[o] = "resetting"
  /\ removal' = [removal EXCEPT ![o] = "gone"]
  /\ \/ /\ page' = [page EXCEPT ![Default] = Startup]
        /\ adopted' = FALSE
        /\ UNCHANGED open
     \/ /\ open' = open \ {Startup}
        /\ UNCHANGED <<page, adopted>>
  /\ UNCHANGED <<req, sessions, creating, reservations, drives, awaiting, auto, shut,
                 defaultUsed, rehydration, sweep, closing>>

Delete(id) ==
  /\ id \in Named
  /\ sessions[id] # None
  /\ Quiet(sessions[id])
  /\ StartRemoval(sessions[id])
  /\ UNCHANGED <<req, creating, reservations, page, drives, awaiting, auto, open,
                 routeVars, sweep, closing>>

-----------------------------------------------------------------------------
(* sweepIdle(): idle automation pages, then the stale list, then page pressure. *)

IdleAutomation(o) == o \in Live \intersect auto /\ Quiet(o)

SweepStart(s) ==
  /\ sweep[s].phase = "off"
  /\ ~closed
  /\ \E todo \in SUBSET {o \in Objs : IdleAutomation(o)} :
       sweep' = [sweep EXCEPT ![s] = [phase |-> "automation", todo |-> todo, at |-> None]]
  /\ UNCHANGED <<req, sessionVars, tabVars, routeVars, closing>>

\* Each page of the list is looked at again: a request may hold its session.
SweepAutomation(s) ==
  /\ sweep[s].phase = "automation"
  /\ \E o \in sweep[s].todo :
       /\ auto' = IF Quiet(o) THEN auto \ {o} ELSE auto
       /\ sweep' = [sweep EXCEPT ![s].todo = @ \ {o}]
  /\ UNCHANGED <<req, sessionVars, awaiting, shut, open, removal, routeVars, closing>>

\* The last part: one candidate when the pages are at their limit.
Pressure(s) ==
  \/ /\ AtPageLimit
     /\ \E o \in Objs :
          /\ Recyclable(o)
          /\ StartRemoval(o)
          /\ sweep' = [sweep EXCEPT ![s] = [phase |-> "pressure", todo |-> {}, at |-> o]]
  \/ /\ sweep' = [sweep EXCEPT ![s] = SweepOff]
     /\ UNCHANGED <<sessions, shut, removal>>

\* The stale list is made once; its first session goes in the same turn.
SweepCollect(s) ==
  /\ sweep[s].phase = "automation"
  /\ sweep[s].todo = {}
  /\ \/ \E stale \in SUBSET {o \in Objs : Recyclable(o)} : \E o \in stale :
          /\ StartRemoval(o)
          /\ sweep' = [sweep EXCEPT ![s] = [phase |-> "stale", todo |-> stale \ {o}, at |-> o]]
     \/ Pressure(s)
  /\ UNCHANGED <<req, creating, reservations, page, drives, awaiting, auto, open,
                 routeVars, closing>>

\* The next of the list, once the one before has gone.
SweepNext(s) ==
  /\ sweep[s].phase = "stale"
  /\ removal[sweep[s].at] = "gone"
  /\ \/ \E o \in sweep[s].todo :
          IF CanRemove(o)
            THEN /\ StartRemoval(o)
                 /\ sweep' = [sweep EXCEPT ![s].todo = @ \ {o}, ![s].at = o]
            ELSE /\ sweep' = [sweep EXCEPT ![s].todo = @ \ {o}]
                 /\ UNCHANGED <<sessions, shut, removal>>
     \/ sweep[s].todo = {} /\ Pressure(s)
  /\ UNCHANGED <<req, creating, reservations, page, drives, awaiting, auto, open,
                 routeVars, closing>>

SweepEnd(s) ==
  /\ sweep[s].phase = "pressure"
  /\ removal[sweep[s].at] = "gone"
  /\ sweep' = [sweep EXCEPT ![s] = SweepOff]
  /\ UNCHANGED <<req, sessionVars, tabVars, routeVars, closing>>

SweepStep(s) == SweepAutomation(s) \/ SweepCollect(s) \/ SweepNext(s) \/ SweepEnd(s)

-----------------------------------------------------------------------------
(* close() *)

\* Up to the first await: queued tasks reject, running ones see the signal.
Close ==
  /\ ~closed
  /\ closing' = [step |-> "settling", at |-> None]
  /\ shut' = shut \union Live
  /\ req' = [r \in Reqs |-> IF req[r].pc = "queued" THEN Finished ELSE req[r]]
  /\ reservations' = [o \in Objs |-> reservations[o] - Cardinality(Using(o, {"queued"}))]
  /\ UNCHANGED <<sessions, creating, page, drives, awaiting, auto, open, removal, routeVars, sweep>>

\* Both settleWithin waits, for creations and for the lanes, each end at the
\* latest with its timer; then the automation pages close.
\* Slip: the drain has no timer.
CloseDrainedOnly ==
  /\ closing.step = "settling"
  /\ \A o \in Live : Using(o, {"running"}) = {}
  /\ closing' = [closing EXCEPT !.step = "removing"]
  /\ auto' = auto \ Live
  /\ UNCHANGED <<req, sessionVars, awaiting, shut, open, removal, routeVars, sweep>>
CloseDrained ==
  /\ closing.step = "settling"
  /\ closing' = [closing EXCEPT !.step = "removing"]
  /\ auto' = auto \ Live
  /\ UNCHANGED <<req, sessionVars, awaiting, shut, open, removal, routeVars, sweep>>

CloseReady == closing.step = "removing" /\ (closing.at # None => removal[closing.at] = "gone")

CloseNamed(o) ==
  /\ CloseReady
  /\ o \in Live \ {Default}
  /\ StartRemoval(o)
  /\ closing' = [closing EXCEPT !.at = o]
  /\ UNCHANGED <<req, creating, reservations, page, drives, awaiting, auto, open, routeVars, sweep>>

\* The default session's tab, and the startup tab if a named session took it.
CloseDefault ==
  /\ CloseReady
  /\ Live = {Default}
  /\ open' = open \ ({page[Default]} \union (IF adopted THEN {Startup} ELSE {}))
  /\ closing' = [step |-> "closed", at |-> None]
  /\ UNCHANGED <<req, sessionVars, awaiting, auto, shut, removal, routeVars, sweep>>

-----------------------------------------------------------------------------
Next ==
  \/ \E r \in Reqs :
       \/ ResolveClosed(r)
       \/ \E call \in Calls[r] : LET k == call[1] id == call[2] IN
            \/ ResolveLive(r, k, id)
            \/ ResolveRehydrate(r, k, id)
            \/ ResolveJoin(r, k, id)
            \/ ResolveCreate(r, k, id)
       \/ Evicted(r) \/ OpenTab(r) \/ FactoryFails(r) \/ FactoryReady(r)
       \/ Enqueue(r) \/ GiveUp(r) \/ Begin(r) \/ Finish(r)
  \/ RehydrateOpen \/ RehydrateFails \/ RehydrateReady
  \/ \E o \in Objs : CloseTabs(o) \/ ResetSettles(o) \/ CloseNamed(o)
  \/ \E id \in Named : Delete(id)
  \/ \E s \in Sweepers : SweepStart(s) \/ SweepStep(s)
  \/ Close \/ CloseDrained \/ CloseDefault

\* What the event loop does by itself, a step at a time.
Progress ==
  \/ \E r \in Reqs :
       \/ Evicted(r) \/ OpenTab(r) \/ FactoryFails(r) \/ FactoryReady(r)
       \/ Enqueue(r) \/ (req[r].pc = "resolved" /\ GiveUp(r)) \/ Begin(r)
  \/ RehydrateOpen \/ RehydrateFails \/ RehydrateReady
  \/ \E o \in Objs : CloseTabs(o) \/ ResetSettles(o) \/ CloseNamed(o)
  \/ CloseDrained \/ CloseDefault

\* Timers fire, and every call to the browser settles: Playwright bounds each
\* navigation, page creation and close.  Executors are not assumed to settle.
Fairness == WF_vars(Progress)

ExecutorsSettle == WF_vars(\E r \in Reqs : Finish(r))

Spec == Init /\ [][Next]_vars
FairSpec == Spec /\ Fairness

-----------------------------------------------------------------------------
TypeOK ==
  /\ req \in [Reqs -> Request]
  /\ sessions \in [Ids -> Objs \union {None}]
  /\ creating \in [Ids -> Reqs \union {None}]
  /\ reservations \in [Objs -> Nat]
  /\ page \in [Objs -> Tabs \union {None}]
  /\ drives \in [Objs -> Tabs \union {None}]
  /\ awaiting \subseteq Tabs
  /\ auto \subseteq Objs
  /\ shut \subseteq Objs
  /\ open \subseteq Tabs
  /\ removal \in [Objs -> Removal]
  /\ adopted \in BOOLEAN
  /\ defaultUsed \in BOOLEAN
  /\ rehydration \in {"none", "opening", "preparing"}
  /\ sweep \in [Sweepers -> [phase : {"off", "automation", "stale", "pressure"},
                             todo : SUBSET Objs, at : Objs \union {None}]]
  /\ closing \in [step : {"open", "settling", "removing", "closed"}, at : Objs \union {None}]

\* The counter of an object is the number of calls between resolve() and their
\* finally: a joiner, a call that gives up and a rejected one included.
ReservationsAgree == \A o \in Objs : reservations[o] = Cardinality(Holders(o))

\* Until shutdown, the session a call has resolved stays the one in the table
\* under its name, whatever sweeps, evictions and deletions run meanwhile.
HeldSessionStays ==
  ~closed => \A r \in Reqs :
    req[r].pc \in {"resolved", "queued", "running"} => sessions[req[r].id] = req[r].obj

\* max_sessions bounds the table together with the creations on their way
\* (ensureCapacity counts both before its first await).
SessionLimit == Count(sessions) + Count(creating) <= MaxSessions

\* Two chats never type into one tab, nor does one while removeSession clears
\* the startup tab's history for the standby default.
TabIsolation ==
  LET typing == {r \in Reqs : req[r].pc = "running" /\ Lane(req[r].kind) = "chat"} IN
  /\ \A r, q \in typing : r # q => req[r].tab # req[q].tab
  /\ ~closed /\ (\E o \in Objs : removal[o] = "resetting") =>
       \A r \in typing : req[r].tab # Startup

\* A tab leased for a named session belongs to a creation, to the table or to a
\* removal under way; once close() is over the table owns none.
LeasesOwned ==
  \A r \in Reqs : r \in open =>
    \/ req[r].pc = "preparing"
    \/ r \in Live /\ closing.step # "closed"
    \/ removal[r] = "closing"

\* close(), once begun, comes to its end, even if executors never settle.
CloseCompletes == <>[](closing.step \in {"open", "closed"})

\* If executors settle, so does every call that was made.  Calls and close()
\* happen once, hence the form: in the end nothing begun is unfinished.
RequestsSettle == ExecutorsSettle => <>[](\A r \in Reqs : req[r].pc \in {"new", "done"})

-----------------------------------------------------------------------------
\* What README.md:306 says of reclamation, and docs/CONTROL_PLANE.md:94 of recyclable
\* sessions: one that waits for the client's tool results is pinned until it goes on; it
\* leaves the table by delete() or at shutdown only.  sweepIdle's stale list
\* (session-manager.ts:447-456) is older than its last removals.
PinnedWhileAwaiting ==
  [][\A o \in Live \ {Default} :
       ~closed /\ drives[o] \in awaiting /\ o \notin Live' => \E id \in Named : Delete(id)]_vars

=============================================================================
