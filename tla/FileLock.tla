------------------------------- MODULE FileLock -------------------------------
(***************************************************************************)
(* The cross-process lock of the control plane: withFileLock and           *)
(* withFileLockSync of control-plane/file-lock.ts, the process identity    *)
(* they rely on (control-plane/process-identity.ts), and the               *)
(* read/modify/write of a JSON file they guard.                            *)
(*                                                                         *)
(* Each file system call is a step: another process may come in between,   *)
(* and a crash may fall there.  A process runs one task at a time and only *)
(* lets go of the thread where the code awaits: between two attempts and   *)
(* during the operation, unless the lock is taken synchronously.           *)
(***************************************************************************)
EXTENDS Naturals

CONSTANTS Callers,      \* the calls of withFileLock, a task each
          Procs, Pids, None,
          Home,         \* [Callers -> Procs]: the process that makes the call
          Blocking,     \* withFileLockSync
          MaxRestarts   \* bound on the incarnations of a process

\* What owner.json may say.
Owners == [task : Callers, pid : Pids, fingerprint : {"self"} \X Pids \X (0..MaxRestarts)]

ASSUME LockAssumption ==
  /\ Home \in [Callers -> Procs]
  /\ None \notin Callers \union Procs \union Pids \union Owners
  /\ Blocking \in BOOLEAN /\ MaxRestarts \in Nat

VARIABLES
  pc,        \* [Callers -> where withFileLock stands]
  thread,    \* [Procs -> the task in the middle of a synchronous stretch, or None]
  pid,       \* [Procs -> process id, or None when it is down]
  epoch,     \* [Procs -> Nat] incarnations: SELF_STARTED_AT_MS
  lock,      \* "free", a "bare" directory, or one with an owner.json
  owner,     \* what owner.json says
  aged,      \* the bare directory is older than OWNER_WRITE_GRACE_MS
  file,      \* tasks whose record is in the guarded file
  snapshot,  \* [Callers -> the file as the operation read it]
  updated    \* tasks whose operation has written the file

lockVars == <<pc, thread, pid, epoch, lock, owner, aged, file, snapshot, updated>>

System == <<pid, epoch>>
Data == <<file, snapshot, updated>>

LockInit ==
  /\ pc = [t \in Callers |-> "new"]
  /\ thread = [p \in Procs |-> None]
  /\ pid \in {f \in [Procs -> Pids] : \A p, q \in Procs : f[p] = f[q] => p = q}
  /\ epoch = [p \in Procs |-> 0]
  /\ lock = "free" /\ owner = None /\ aged = FALSE
  /\ file = {} /\ snapshot = [t \in Callers |-> {}] /\ updated = {}

-----------------------------------------------------------------------------
\* The task goes on at a step of the synchronous stretch, or ends it.
Continue(t, step) ==
  /\ pc' = [pc EXCEPT ![t] = step]
  /\ thread' = [thread EXCEPT ![Home[t]] = t]
Await(t, step) ==
  /\ pc' = [pc EXCEPT ![t] = step]
  /\ thread' = [thread EXCEPT ![Home[t]] = IF Blocking THEN t ELSE None]
Return(t, step) ==
  /\ pc' = [pc EXCEPT ![t] = step]
  /\ thread' = [thread EXCEPT ![Home[t]] = None]

\* The thread is the task's to use.
Scheduled(t) == pid[Home[t]] # None /\ thread[Home[t]] \in {None, t}

\* processFingerprint(n) as process p computes it: of itself from its own clock,
\* of another from what the system reports, and the two never spell the same.
Fingerprint(p, n) ==
  IF n = pid[p] THEN <<"self", n, epoch[p]>>
  ELSE IF \E q \in Procs : pid[q] = n
    THEN <<"system", n, epoch[CHOOSE q \in Procs : pid[q] = n]>>
    ELSE None

\* Slip: a live process with that number will do.
MatchesNumber(p, o) == \E q \in Procs : pid[q] = o.pid
\* Slip: the process asks the system about itself as well.
MatchesSystem(p, o) == FALSE
Matches(p, o) == Fingerprint(p, o.pid) = o.fingerprint

StaleLock(p) ==
  CASE lock = "owned" -> ~Matches(p, owner)
    [] lock = "bare" -> aged
    [] OTHER -> TRUE

-----------------------------------------------------------------------------
\* tryAcquire: mkdir is what excludes.
Attempt(t) ==
  /\ pc[t] \in {"new", "waiting"} /\ Scheduled(t)
  /\ IF lock = "free"
       THEN lock' = "bare" /\ aged' = FALSE /\ Continue(t, "made")
       ELSE Continue(t, "refused") /\ UNCHANGED <<lock, aged>>
  /\ UNCHANGED <<owner, Data, System>>

\* createOwner writes owner.json wherever the directory now is, and the operation
\* reads the file; without a directory the write throws.
WriteOwner(t) ==
  /\ pc[t] = "made" /\ Scheduled(t)
  /\ IF lock = "free"
       THEN Return(t, "threw") /\ UNCHANGED <<lock, owner, snapshot>>
       ELSE /\ lock' = "owned"
            /\ owner' = [task |-> t, pid |-> pid[Home[t]],
                         fingerprint |-> Fingerprint(Home[t], pid[Home[t]])]
            /\ snapshot' = [snapshot EXCEPT ![t] = file]
            /\ Await(t, "holding")
  /\ UNCHANGED <<aged, file, updated, System>>

\* EEXIST: a stale lock is removed; either way the next attempt is a timer away.
Judge(t) ==
  /\ pc[t] = "refused" /\ Scheduled(t)
  /\ IF StaleLock(Home[t]) THEN Continue(t, "clearing") ELSE Await(t, "waiting")
  /\ UNCHANGED <<lock, owner, aged, Data, System>>

\* Slip: an owner outlives its file.
UnlinkQuietly(t) ==
  /\ pc[t] \in {"clearing", "releasing"} /\ Scheduled(t)
  /\ lock' = IF lock = "owned" THEN "bare" ELSE lock
  /\ aged' = (aged /\ lock = "bare")
  /\ Continue(t, IF pc[t] = "clearing" THEN "cleared" ELSE "released")
  /\ UNCHANGED <<owner, Data, System>>
\* rmSync, file before directory.
Unlink(t) ==
  /\ pc[t] \in {"clearing", "releasing"} /\ Scheduled(t)
  /\ lock' = IF lock = "owned" THEN "bare" ELSE lock
  /\ owner' = None
  /\ aged' = (aged /\ lock = "bare")
  /\ Continue(t, IF pc[t] = "clearing" THEN "cleared" ELSE "released")
  /\ UNCHANGED <<Data, System>>
Rmdir(t) ==
  /\ pc[t] \in {"cleared", "released"} /\ Scheduled(t)
  /\ lock' = IF lock = "bare" THEN "free" ELSE lock
  /\ aged' = FALSE
  /\ IF pc[t] = "cleared" THEN Await(t, "waiting") ELSE Return(t, "done")
  /\ UNCHANGED <<owner, Data, System>>

\* The deadline has passed after an attempt.
TimeOut(t) ==
  /\ pc[t] = "waiting" /\ Scheduled(t)
  /\ Return(t, "threw")
  /\ UNCHANGED <<lock, owner, aged, Data, System>>

\* The operation ends, with a write of the whole file (a rename) or without.
Finish(t) ==
  /\ pc[t] = "holding" /\ Scheduled(t)
  /\ \/ file' = snapshot[t] \union {t} /\ updated' = updated \union {t}
     \/ UNCHANGED <<file, updated>>
  /\ Continue(t, "finished")
  /\ UNCHANGED <<lock, owner, aged, snapshot, System>>

\* finally: only a lock that carries this token is removed.
Unlock(t) ==
  /\ pc[t] = "finished" /\ Scheduled(t)
  /\ IF lock = "owned" /\ owner.task = t THEN Continue(t, "releasing") ELSE Return(t, "done")
  /\ UNCHANGED <<lock, owner, aged, Data, System>>

-----------------------------------------------------------------------------
Age ==
  /\ lock = "bare" /\ ~aged /\ aged' = TRUE
  /\ UNCHANGED <<pc, thread, lock, owner, Data, System>>

Ended == {"done", "threw", "lost"}

\* The process dies where it stands, with all its calls under way.
Crash(p) ==
  /\ pid[p] # None
  /\ pid' = [pid EXCEPT ![p] = None]
  /\ thread' = [thread EXCEPT ![p] = None]
  /\ pc' = [t \in Callers |-> IF Home[t] = p /\ pc[t] \notin Ended \union {"new"}
                              THEN "lost" ELSE pc[t]]
  /\ UNCHANGED <<epoch, lock, owner, aged, Data>>

\* It comes back later, under any number that is free, its old one included.
Restart(p) ==
  /\ pid[p] = None /\ epoch[p] < MaxRestarts
  /\ \E n \in {m \in Pids : \A q \in Procs : pid[q] # m} : pid' = [pid EXCEPT ![p] = n]
  /\ epoch' = [epoch EXCEPT ![p] = @ + 1]
  /\ UNCHANGED <<pc, thread, lock, owner, aged, Data>>

Step(t) ==
  \/ Attempt(t) \/ WriteOwner(t) \/ Judge(t) \/ Unlink(t) \/ Rmdir(t)
  \/ Finish(t) \/ Unlock(t)

LockNext ==
  \/ \E t \in Callers : Step(t) \/ TimeOut(t)
  \/ Age
  \/ \E p \in Procs : Crash(p) \/ Restart(p)

\* Timers fire and the event loop is fair to them; a held operation ends.  The
\* deadline is not counted on.
LockFairness == WF_lockVars(Age) /\ \A t \in Callers : SF_lockVars(Step(t))

LockSpec == LockInit /\ [][LockNext]_lockVars
LockFairSpec == LockSpec /\ LockFairness

-----------------------------------------------------------------------------
Steps == {"new", "made", "refused", "waiting", "clearing", "cleared", "holding",
          "finished", "releasing", "released"} \union Ended

LockTypeOK ==
  /\ pc \in [Callers -> Steps]
  /\ thread \in [Procs -> Callers \union {None}]
  /\ pid \in [Procs -> Pids \union {None}]
  /\ epoch \in [Procs -> 0..MaxRestarts]
  /\ lock \in {"free", "bare", "owned"}
  /\ owner \in Owners \union {None}
  /\ lock = "owned" <=> owner # None
  /\ aged \in BOOLEAN
  /\ file \subseteq Callers /\ updated \subseteq Callers
  /\ snapshot \in [Callers -> SUBSET Callers]

\* While its operation runs, a task's lock is on disk under its own name: nobody
\* else gets in, whatever crashes left behind.
HolderKeepsLock ==
  \A t \in Callers : pc[t] = "holding" => lock = "owned" /\ owner.task = t

\* What an operation wrote is still in the file: nobody wrote back an older copy.
NoLostUpdate == updated \subseteq file

\* A call gets the lock or gives up, however many owners died holding it: no
\* waiter depends on its deadline to end.
WaitersSettle == \A t \in Callers : (pc[t] # "new") ~> (pc[t] \in Ended)
=============================================================================
