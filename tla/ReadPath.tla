------------------------------- MODULE ReadPath -------------------------------
(***************************************************************************)
(* Reading the answer to one prompt: HybridUiResponseReader of             *)
(* runtime/read/hybrid-reader.ts with the observer of the page,            *)
(* awaitUiResponse of runtime/ui-response-monitor.ts.                      *)
(*                                                                         *)
(* Five activities interleave at their awaits: the page, the tap (known    *)
(* only through TapFeed), the tap task that consumes the tap's events, the *)
(* monitor that polls the page, and read() itself, which takes the first   *)
(* valid answer.  The tap task, the monitor and read() all queue actions   *)
(* on the reconciler (Reconciler); whoever queued one waits for it.        *)
(*                                                                         *)
(* A text is a sequence of pieces; the provider's answer is 1..Chunks and  *)
(* a piece the page rendered badly is 0.                                   *)
(***************************************************************************)
EXTENDS TapFeed, TapHealth, Reconciler, FiniteSets, SequencesExt

CONSTANTS Kinds   \* of requests: "stream" (onDelta given), "contract" (preferRawContract,
                  \* never with onDelta), "plain"

\* A body is named by its shape: a profile, or a patch stream that has no reusable leaf.
ASSUME ReadAssumption ==
  /\ Profiles \subseteq Bodies /\ None \notin Bodies /\ Chunks \in Nat \ {0}
  /\ {"stream_aborted", "profile_mismatch"} \subseteq Failures /\ "verified" \notin Failures
  /\ None \notin Failures \union
       {"decode_error", "verify_mismatch", "dom", "tap",
        "mismatch", "client", "ambiguous", "timeout", "stopped"}
  /\ Kinds \subseteq {"stream", "contract", "plain"}

VARIABLES
  health, attached,   \* TapHealthController, and is the CDP session attached
  turn,               \* mode and profile of the turn
  reader,             \* read()
  task,               \* tapTask and its adapter
  rec, chain,         \* ResponseReconciler, and the actions queued on it
  delivered,          \* what onDelta has accepted
  mon,                \* the monitor
  verdicts            \* what this turn has told the health controller

tapState == <<health, attached, turn>>
vars == <<log, over, health, attached, turn, reader, task, rec, chain, delivered, mon, verdicts>>

Answer == [n \in 1..Chunks |-> n]

NoReader == [pc |-> "idle", kind |-> "plain", trusted |-> FALSE, aborted |-> FALSE,
             winner |-> None, text |-> <<>>, final |-> <<>>, error |-> None]
NoTask == [pc |-> "off", head |-> 0, matched |-> None, came |-> 0, got |-> 0, ended |-> FALSE,
           failure |-> None, settle |-> FALSE, error |-> None]
NoMonitor == [pc |-> "off", last |-> <<>>, streamed |-> <<>>, fresh |-> FALSE,
              error |-> None]

Init ==
  /\ InitFeed
  /\ health = NewHealth /\ attached = FALSE
  /\ turn = [mode |-> "disabled", profile |-> None]
  /\ reader = NoReader /\ task = NoTask /\ mon = NoMonitor
  /\ rec = NewReconciler(FALSE) /\ chain = <<>> /\ delivered = <<>> /\ verdicts = <<>>

Hybrid == turn.mode # "disabled"
Streams == reader.kind = "stream"
Waiting(who) == \E i \in DOMAIN chain : chain[i].by = who
\* With no client to wait for, the end of a read runs to its end in the same turn of the
\* event loop: neither the page nor the network is heard in between.
AtOnce == ~Streams /\ (chain # <<>>
                       \/ reader.pc \in {"failing", "draining", "judging", "final", "closing"})
Entry(who, act, d) == [by |-> who, act |-> act, d |-> d]

\* What TapStreamAdapter makes of the pieces whose frames are whole (got, of those that
\* came): the text of the learned leaf, or of the best candidate while nothing is learned,
\* and whether it is a whole contract; a patch stream is followed for a contract only.
Extracts(t) == t.matched \in Profiles /\ turn.profile \in {None, t.matched}
Captured(t) == SubSeq(Answer, 1, t.got)
TapText(t) == IF Extracts(t) THEN Captured(t) ELSE <<>>
\* Slip: what has come so far parses, so it is taken for the whole.
CompleteSoFar(t) == t.got > 0 /\ (Extracts(t) \/ t.matched \notin Profiles)
Complete(t) ==
  t.got = Chunks /\ (Extracts(t) \/ (reader.kind = "contract" /\ t.matched \notin Profiles))

-----------------------------------------------------------------------------
(* Before the read. *)

\* initialize and reconnect, between turns
Attach ==
  /\ ~attached /\ reader.pc = "idle"
  /\ \/ attached' = TRUE /\ UNCHANGED health
     \/ attached' = FALSE /\ health' = FailureRecorded(health, "attach_failed")
  /\ UNCHANGED <<log, over, turn, reader, task, rec, chain, delivered, mon, verdicts>>

\* reset: cancelPending, then the session is detached
Reset ==
  /\ attached /\ reader.pc \in {"idle", "armed"}
  /\ attached' = FALSE /\ Cancel
  /\ reader' = NoReader
  /\ UNCHANGED <<health, turn, task, rec, chain, delivered, mon, verdicts>>

\* The clock is read only as a turn is armed.
CooldownEnds ==
  /\ health.circuit = "open" /\ reader.pc = "idle" /\ health' = Cooled(health)
  /\ UNCHANGED <<log, over, attached, turn, reader, task, rec, chain, delivered, mon, verdicts>>

\* arm
ArmTurn ==
  /\ reader.pc = "idle" /\ reader' = [reader EXCEPT !.pc = "armed"]
  /\ turn' = LET mode == TurnMode(health, attached) IN
             [mode |-> mode, profile |-> IF mode = "disabled" THEN None ELSE health.profile]
  /\ health' = IF attached THEN Probing(health) ELSE health
  /\ Arm /\ over' = (turn'.mode = "disabled")
  /\ UNCHANGED <<attached, task, rec, chain, delivered, mon, verdicts>>

\* sendPrompt failed: cancelPending
SendFails ==
  /\ reader.pc = "armed" /\ reader' = NoReader /\ Cancel
  /\ UNCHANGED <<tapState, task, rec, chain, delivered, mon, verdicts>>

\* read, up to its race
Read(kind) ==
  /\ reader.pc = "armed"
  /\ reader' = [NoReader EXCEPT !.pc = "racing", !.kind = kind, !.trusted = health.trusted]
  /\ task' = IF Hybrid THEN [NoTask EXCEPT !.pc = "on"] ELSE NoTask
  /\ rec' = NewReconciler(turn.mode = "active")
  /\ mon' = [NoMonitor EXCEPT !.pc = "top"]
  /\ UNCHANGED <<log, over, tapState, chain, delivered, verdicts>>

TapGrows ==
  /\ ~AtOnce /\ Grow
  /\ UNCHANGED <<tapState, reader, task, rec, chain, delivered, mon, verdicts>>

-----------------------------------------------------------------------------
(* The reconciler's queue and the client. *)

\* The head of the queue runs; what it emits is accepted or refused.
Blamed(who, why) ==
  /\ task' = IF who = "task" THEN [task EXCEPT !.pc = "failed", !.error = why] ELSE task
  /\ mon' = IF who = "mon" THEN [mon EXCEPT !.pc = "failed", !.error = why] ELSE mon
  /\ reader' = IF who = "read" THEN [reader EXCEPT !.pc = "done", !.error = why] ELSE reader

Deliver ==
  /\ chain # <<>>
  /\ LET h == Head(chain)
         o == Action(rec, Streams, h.act, h.d) IN
     /\ rec' = o.rec /\ chain' = Tail(chain)
     /\ \/ o.bad /\ Blamed(h.by, "mismatch") /\ UNCHANGED delivered
        \/ ~o.bad /\ delivered' = (IF Streams THEN delivered \o o.delta ELSE delivered)
                  /\ UNCHANGED <<task, mon, reader>>
        \/ ~o.bad /\ Streams /\ o.delta # <<>> /\ Blamed(h.by, "client") /\ UNCHANGED delivered
  /\ UNCHANGED <<log, over, tapState, verdicts>>

-----------------------------------------------------------------------------
(* The tap task. *)

\* Slip: every failure is recorded.
FailTapAgain(who, t, reason) ==
  /\ task' = [t EXCEPT !.failure = reason]
  /\ chain' = Append(chain, Entry(who, "fallback", <<>>))
  /\ health' = FailureRecorded(health, reason) /\ verdicts' = Append(verdicts, reason)
\* failTap: the first failure counts; the reconciler falls back every time.
FailTap(who, t, reason) ==
  /\ task' = [t EXCEPT !.failure = IF @ = None THEN reason ELSE @]
  /\ chain' = Append(chain, Entry(who, "fallback", <<>>))
  /\ IF t.failure = None
       THEN health' = FailureRecorded(health, reason) /\ verdicts' = Append(verdicts, reason)
       ELSE UNCHANGED <<health, verdicts>>

\* considerTapCompletion starts the settle timer.
Considered(t) ==
  [t EXCEPT !.settle = @ \/ (reader.kind = "contract" /\ t.failure = None /\ ~reader.aborted
                             /\ Complete(t))]

\* The deltas the adapter yields once n pieces are framed, where the profile is learned;
\* those of one event are queued as one.
Yields(who, t, n) ==
  chain' = IF turn.profile = t.matched /\ n > t.got
             THEN Append(chain, Entry(who, "tap", SubSeq(Answer, t.got + 1, n))) ELSE chain

OnMatched(t, e) ==
  /\ e.type = "matched" /\ task' = [t EXCEPT !.matched = e.of]
  /\ UNCHANGED <<health, chain, verdicts>>

\* push: the frame of the last piece may end only with the bytes of the next event.
OnChunk(t, e) ==
  /\ e.type = "chunk"
  /\ \/ FailTap("task", [t EXCEPT !.pc = "cancelling"], "decode_error")
     \/ /\ \E n \in {e.n - 1, e.n} : /\ n >= t.got
                                    /\ task' = Considered([t EXCEPT !.got = n, !.came = e.n])
                                    /\ Yields("task", t, n)
        /\ UNCHANGED <<health, verdicts>>

\* end: the last frame needs no end of its own.
OnEnd(t, e) ==
  /\ e.type = "end"
  /\ \/ FailTap("task", t, "decode_error")
     \/ /\ task' = Considered([t EXCEPT !.got = t.came, !.ended = TRUE])
        /\ Yields("task", t, t.came)
        /\ UNCHANGED <<health, verdicts>>

\* A failed connection after a whole contract and the provider's own end of stream is an
\* end: preserveTerminalResponse.
Preserved(t) == reader.kind = "contract" /\ t.failure = None /\ ~reader.aborted /\ Complete(t)
OnError(t, e) ==
  /\ e.type = "error"
  /\ \/ FailTap("task", t, e.of)
     \/ /\ e.of = "stream_aborted" /\ t.matched # None /\ Preserved(t)
        /\ task' = Considered([t EXCEPT !.ended = TRUE])
        /\ UNCHANGED <<health, chain, verdicts>>

TapTask ==
  /\ task.pc = "on" /\ ~Waiting("task") /\ task.head < Len(log)
  /\ LET t == [task EXCEPT !.head = @ + 1]
         e == log[t.head] IN
     OnMatched(t, e) \/ OnChunk(t, e) \/ OnEnd(t, e) \/ OnError(t, e)
  /\ UNCHANGED <<log, over, attached, turn, reader, rec, delivered, mon>>

\* turn.cancel() after a chunk that cannot be decoded
TapTaskCancels ==
  /\ task.pc = "cancelling" /\ ~Waiting("task")
  /\ task' = [task EXCEPT !.pc = "on"] /\ Cancel
  /\ UNCHANGED <<tapState, reader, rec, chain, delivered, mon, verdicts>>

TapTaskEnds ==
  /\ task.pc = "on" /\ ~Waiting("task") /\ over /\ task.head = Len(log)
  /\ task' = [task EXCEPT !.pc = "done"]
  /\ UNCHANGED <<log, over, tapState, reader, rec, chain, delivered, mon, verdicts>>

-----------------------------------------------------------------------------
(* The monitor.  One round of its loop is three steps, between which the other activities
   go on.  The page is known only as the monitor looks at it: meanwhile the answer may
   have grown, or been rendered anew and damaged; the generating control, a Continue
   button or a security gate may be there or not. *)

Texts == UNION {[1..n -> 0..Chunks] : n \in 0..Chunks}
Renderings(text) ==
  {q \in Texts :
     /\ Len(q) >= Len(text)
     /\ \A i \in DOMAIN q : q[i] \in {0, IF i \in DOMAIN text THEN text[i] ELSE i}
     /\ Cardinality({i \in DOMAIN q : q[i] = 0}) <= 1}

MonitorKeeps == UNCHANGED <<log, over, tapState, reader, task, rec, delivered, verdicts>>
Throws(why) == mon' = [NoMonitor EXCEPT !.pc = "failed", !.error = why]
Returns(text) == mon' = [NoMonitor EXCEPT !.pc = "returned", !.last = text]
ToTop(m) == [m EXCEPT !.pc = "top", !.fresh = FALSE]

\* Its absolute deadline.
MonitorIsLate ==
  /\ mon.pc = "top" /\ ~AtOnce
  /\ Throws("timeout")
  /\ UNCHANGED chain /\ MonitorKeeps

\* The signal (its own once the race is decided) and the gate.
MonitorTop ==
  /\ mon.pc = "top"
  /\ IF reader.aborted \/ reader.pc # "racing" THEN Throws("stopped")
     ELSE Throws("stopped") \/ mon' = [mon EXCEPT !.pc = "reading"]
  /\ UNCHANGED chain /\ MonitorKeeps

\* deltaFromCumulative: only what extends the text streamed before.
Added(before, now) == IF IsPrefix(before, now) THEN Rest(now, Len(before)) ELSE <<>>

MonitorReads ==
  /\ mon.pc = "reading"
  /\ \E text \in Renderings(mon.last) :
     LET delta == Added(mon.streamed, text)
         fresh == text # mon.last IN
     /\ mon' = [mon EXCEPT !.pc = "judging", !.fresh = fresh,
                  !.last = text,
                  !.streamed = IF fresh /\ delta # <<>> THEN text ELSE @]
     /\ chain' = IF fresh /\ delta # <<>> /\ (Hybrid \/ Streams)
                   THEN Append(chain, Entry("mon", IF Hybrid THEN "dom" ELSE "direct", delta))
                   ELSE chain
  /\ MonitorKeeps

\* Slip: the monitor goes on while the delta it queued is still to be delivered.
JudgingUnawaited == mon.pc = "judging"
Judging == mon.pc = "judging" /\ ~Waiting("mon")
Receiving == task.matched # None /\ ~task.ended /\ task.failure = None

\* On a page that no longer generates, a stable text is the answer unless the tap is
\* still receiving; for a contract a whole frame is enough.
Settled == ~mon.fresh /\ ~Receiving /\ mon.last # <<>>
Framed(text) == reader.kind = "contract" /\ ~mon.fresh /\ Len(text) = Chunks
MonitorReturns ==
  /\ Judging
  /\ \/ Settled /\ Returns(mon.last)
     \/ \E text \in Renderings(mon.last) : Framed(text) /\ Returns(text)
  /\ UNCHANGED chain /\ MonitorKeeps

\* Another round, also for a paused DeepSeek answer that is resumed; too long without
\* progress; or a pause only a human can end.
MonitorGoesOn ==
  /\ Judging
  /\ \/ mon' = ToTop(mon)
     \/ ~mon.fresh /\ Throws("timeout")
     \/ mon.last # <<>> /\ Throws("stopped")
  /\ UNCHANGED chain /\ MonitorKeeps

Monitor ==
  /\ ~AtOnce
  /\ MonitorIsLate \/ MonitorTop \/ MonitorReads \/ MonitorReturns \/ MonitorGoesOn

-----------------------------------------------------------------------------
(* read(), from its race on. *)

ReaderKeeps == UNCHANGED <<log, attached, turn, rec, delivered>>

AbortSignalled ==
  /\ reader.pc = "racing" /\ ~reader.aborted
  /\ reader' = [reader EXCEPT !.aborted = TRUE]
  /\ UNCHANGED <<log, over, tapState, task, rec, chain, delivered, mon, verdicts>>

\* Without a tap the monitor's outcome is the read's.
DirectEnds ==
  /\ reader.pc = "racing" /\ ~Hybrid /\ mon.pc \in {"returned", "failed"}
  /\ reader' = [reader EXCEPT !.pc = "done", !.winner = "dom", !.text = mon.last,
                              !.final = mon.last, !.error = mon.error]
  /\ UNCHANGED <<over, health, task, chain, mon, verdicts>> /\ ReaderKeeps

\* Once the race is decided the monitor is told to stop and the turn is cancelled; the
\* tap task still consumes what is in its queue.
\* Slip: only the monitor is stopped.
StopMonitorOnly == UNCHANGED <<log, over>>
StopObserving == Cancel
RaceEnds ==
  /\ reader.pc = "racing" /\ Hybrid
  /\ \/ /\ mon.pc = "returned"
        /\ reader' = [reader EXCEPT !.pc = "draining", !.winner = "dom", !.text = mon.last]
     \/ /\ task.settle /\ task.failure = None /\ ~reader.aborted
        /\ reader' = [reader EXCEPT !.pc = "draining", !.winner = "tap", !.text = Captured(task)]
     \/ /\ mon.pc = "failed"
        /\ reader' = [reader EXCEPT !.pc = "failing", !.error = mon.error]
     \/ /\ task.pc = "failed"
        /\ reader' = [reader EXCEPT !.pc = "failing", !.error = task.error]
  /\ StopObserving
  /\ UNCHANGED <<mon, tapState, task, rec, chain, delivered, verdicts>>

\* A profile that had earned trust before this read, whose stream came to its end.
Eligible ==
  /\ reader.kind = "contract" /\ reader.trusted /\ turn.mode = "active"
  /\ task.matched # None /\ task.ended /\ task.failure = None

\* A whole answer the tap holds survives a time-out of the monitor, nothing else: that of
\* any read whose answer is a JSON object, as that of a contract is.
Recovered ==
  /\ reader.error = "timeout" /\ ~reader.aborted /\ task.error # "client"
  /\ task.matched # None /\ task.failure = None
  /\ Complete(task) /\ (Eligible => Extracts(task))
Failing ==
  /\ reader.pc = "failing" /\ task.pc \in {"done", "failed"}
  /\ \/ /\ Recovered
        /\ reader' = [reader EXCEPT !.pc = "judging", !.winner = "tap", !.text = Captured(task),
                                    !.error = None]
     \/ /\ ~Recovered \/ reader.kind # "contract"
        /\ reader' = [reader EXCEPT !.pc = "done"]
  /\ UNCHANGED <<over, health, task, chain, mon, verdicts>> /\ ReaderKeeps

\* await tapTask; the adapter is closed when the page won before the stream's end: it
\* yields what it held back, and what it cannot decode then is a failure too.
Drained ==
  /\ reader.pc = "draining"
  /\ \/ /\ task.pc = "failed"
        /\ reader' = [reader EXCEPT !.pc = "done", !.error = task.error]
        /\ UNCHANGED <<health, task, chain, verdicts>>
     \/ /\ task.pc = "done" /\ reader' = [reader EXCEPT !.pc = "judging"]
        /\ \/ /\ task.ended \/ reader.winner = "tap"
              /\ UNCHANGED <<health, task, chain, verdicts>>
           \/ /\ ~task.ended /\ reader.winner = "dom"
              /\ task' = [task EXCEPT !.got = task.came] /\ Yields("read", task, task.came)
              /\ UNCHANGED <<health, verdicts>>
           \/ /\ ~task.ended /\ reader.winner = "dom" /\ task.came > 0
              /\ FailTap("read", task, "decode_error")
  /\ UNCHANGED <<over, mon>> /\ ReaderKeeps

\* selectContractResponseText: the text of a trusted, finished stream replaces a page
\* text that does not parse; two that parse and differ are refused.
Refused(final, why, reason) ==
  /\ reader' = [reader EXCEPT !.pc = "final", !.final = final, !.error = why]
  /\ FailTap("read", task, reason)
Verified ==
  /\ reader' = [reader EXCEPT !.pc = "final", !.final = reader.text]
  /\ UNCHANGED <<task, chain>>
  /\ IF Extracts(task)
       THEN /\ health' = VerifiedRecorded(health, task.matched)
            /\ verdicts' = Append(verdicts, "verified")
       ELSE UNCHANGED <<health, verdicts>>
Unjudged(final) ==
  /\ reader' = [reader EXCEPT !.pc = "final", !.final = final]
  /\ UNCHANGED <<health, task, chain, verdicts>>

\* Is the tap's text used for the page's, and the verdict on the tap.
RawText == Eligible /\ Extracts(task) /\ task.got = Chunks
Verifies == task.matched # None /\ task.ended /\ task.failure = None /\ reader.winner = "dom"
Agrees == reader.text = TapText(task)
          \/ (reader.kind = "contract" /\ Complete(task) /\ reader.text = Answer)
Difference == IF turn.profile # None /\ Extracts(task) THEN "verify_mismatch" ELSE "profile_mismatch"
Verdict ==
  /\ reader.pc = "judging" /\ ~Waiting("read")
  /\ \/ /\ ~Verifies /\ Unjudged(reader.text)
     \/ /\ Verifies /\ Agrees /\ Verified
     \/ /\ Verifies /\ ~Agrees /\ RawText
        /\ Unjudged(TapText(task)) \/ Refused(<<>>, "ambiguous", "verify_mismatch")
     \/ /\ Verifies /\ ~Agrees /\ ~RawText /\ Refused(reader.text, None, Difference)
  /\ UNCHANGED <<over, mon>> /\ ReaderKeeps


\* finalize, or the error that comes after the fallback
Finalizing ==
  /\ reader.pc = "final" /\ ~Waiting("read")
  /\ IF reader.error # None
       THEN reader' = [reader EXCEPT !.pc = "done"] /\ UNCHANGED chain
       ELSE /\ reader' = [reader EXCEPT !.pc = "closing"]
            /\ chain' = Append(chain, Entry("read", "final", reader.final))
  /\ UNCHANGED <<over, health, task, mon, verdicts>> /\ ReaderKeeps

Finalized ==
  /\ reader.pc = "closing" /\ ~Waiting("read")
  /\ reader' = [reader EXCEPT !.pc = "done"]
  /\ UNCHANGED <<over, health, task, chain, mon, verdicts>> /\ ReaderKeeps

\* The next turn.  A monitor that is still on its way out belongs to the old reconciler,
\* so nothing is lost by letting it finish first.
NextTurn ==
  /\ reader.pc = "done" /\ mon.pc \in {"returned", "failed"} /\ chain = <<>>
  /\ reader' = NoReader /\ task' = NoTask /\ mon' = NoMonitor
  /\ rec' = NewReconciler(FALSE) /\ delivered' = <<>> /\ verdicts' = <<>>
  /\ Arm /\ over' = TRUE
  /\ turn' = [mode |-> "disabled", profile |-> None]
  /\ UNCHANGED <<health, attached, chain>>

Task == TapTask \/ TapTaskCancels \/ TapTaskEnds
Reader == DirectEnds \/ RaceEnds \/ Failing \/ Drained \/ Verdict \/ Finalizing \/ Finalized

Next ==
  \/ Attach \/ Reset \/ CooldownEnds \/ ArmTurn \/ SendFails \/ \E kind \in Kinds : Read(kind)
  \/ TapGrows \/ AbortSignalled
  \/ Deliver \/ Task \/ Monitor \/ Reader \/ NextTurn

Spec == Init /\ [][Next]_vars

\* The event loop resumes whoever is ready, the client accepts or refuses what it is
\* sent, and the monitor's deadline is a date: it cannot poll for ever.
Fairness ==
  /\ WF_vars(Deliver \/ Task \/ Monitor \/ Reader)
  /\ SF_vars(MonitorIsLate)
FairSpec == Spec /\ Fairness

-----------------------------------------------------------------------------
(* Properties. *)

\* Shapes of the state; each activity waits for at most one queued action.
TypeOK ==
  /\ log \in Logs /\ over \in BOOLEAN /\ health \in Health /\ attached \in BOOLEAN
  /\ turn.mode \in {"disabled", "shadow", "active"} /\ turn.profile \in Profiles \union {None}
  /\ reader.pc \in {"idle", "armed", "racing", "failing", "draining", "judging", "final",
                    "closing", "done"}
  /\ task.pc \in {"off", "on", "cancelling", "done", "failed"} /\ task.head \in 0..Len(log)
  /\ mon.pc \in {"off", "top", "reading", "judging", "returned", "failed"}
  /\ {mon.last, mon.streamed, reader.text, reader.final} \subseteq Texts
  /\ \A i, j \in DOMAIN chain : chain[i].by = chain[j].by => i = j

Succeeded == reader.pc = "done" /\ reader.error = None

\* As a read by both observers returns, what its client was streamed, or else the deltas
\* it returns, are exactly the text it returns, whichever observer the pieces
\* came from and wherever the tap gave out (ResponseReconciler, failTap, finalize).
StreamIsAnswer ==
  Hybrid /\ reader.pc = "closing" /\ ~Waiting("read") =>
    (IF Streams THEN delivered ELSE rec.emitted) = reader.final

\* What the tap tells the health of itself is said once a turn, and a profile gains trust
\* only from a stream that came to its end and whose whole text is the page's answer
\* (failTap, recordVerified).
VerdictIsEarned ==
  /\ Len(verdicts) <= 1
  /\ "verified" \in {verdicts[i] : i \in DOMAIN verdicts} =>
       /\ reader.winner = "dom" /\ reader.text = Answer /\ health.profile = task.matched
       /\ log[Len(log)] = End(task.matched) \/ reader.kind = "contract"

\* An answer taken from the tap alone is the whole of one matched response, every piece
\* of which came through the queue, even when the stream is reported broken as its turn
\* is being cancelled (considerTapCompletion, preserveTerminalResponse, the recovery
\* after a time-out).
TapAnswerIsWhole ==
  Succeeded /\ reader.winner = "tap" =>
    /\ reader.final = Answer
    /\ IsPrefix(SubSeq(Whole(task.matched), 1, Chunks + 1), log)

\* Every read ends, with an answer or an error.
ReadsSettle == reader.pc = "racing" ~> reader.pc = "done"
=============================================================================
