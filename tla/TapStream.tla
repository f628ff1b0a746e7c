------------------------------ MODULE TapStream ------------------------------
(***************************************************************************)
(* The passive tap on the provider's HTTP responses: CdpStreamTap of       *)
(* runtime/read/tap-cdp.ts with its event queue (tap-queue.ts).            *)
(*                                                                         *)
(* A turn is armed just before its prompt is sent.  The tap looks for the  *)
(* request that carries the prompt, waits for its response, asks Chrome to *)
(* stream the body, and queues events for the reader.  Only one turn is    *)
(* ever the current one; replies meant for an earlier turn still arrive.   *)
(*                                                                         *)
(* Handlers that call one another are functions from tap to tap, so that   *)
(* one action is one callback.  What the reader may rely on is TapFeed.    *)
(***************************************************************************)
EXTENDS Naturals, Sequences, FiniteSets

CONSTANTS Requests,    \* POSTs the page may make
          Inputs,      \* [Requests -> SUBSET Input]: what each may carry
          Profiles,    \* content types a provider's stream may have
          Responses,   \* [Requests -> SUBSET Verdicts]: what the response to each may be
          Null,
          Chunks,      \* pieces of a response
          Weight,      \* [Requests -> Nat]: bytes of a piece of its response
          MaxBytes,    \* tapMaxBytes
          MaxTurns     \* bound on the turns

\* How much of the prompt a request carries, its score, and whether its body comes
\* with the event or must be fetched.
Input == [anchors : {"none", "partial", "full"}, score : Nat, inline : BOOLEAN]

\* What may be wrong with a response.
Wrong == {"bad_status", "moved", "other_type", "off_profile"}
Verdicts == Profiles \union Wrong

ASSUME TapAssumption ==
  /\ IsFiniteSet(Requests)
  /\ Null \notin Requests \union Profiles \union Wrong \union {"finished", "failed"}
  /\ Inputs \in [Requests -> SUBSET Input] /\ Weight \in [Requests -> Nat \ {0}]
  /\ Chunks \in Nat \ {0} /\ {MaxBytes, MaxTurns} \subseteq Nat
ASSUME ResponsesAssumption == Responses \in [Requests -> SUBSET Verdicts]

VARIABLES
  link,      \* is the CDP session attached
  tap,       \* the latest turn and its requests
  wire       \* [Requests -> what the provider and Chrome have done]

tapVars == <<link, tap, wire>>

Timers == {"match", "select", "firstByte", "stall"}
Reasons == {"no_matching_request", "first_byte_timeout", "stall", "profile_mismatch",
            "stream_aborted", "internal_error", "decode_error", "verify_mismatch",
            "attach_failed"}

NoRequest == [turn |-> 0, known |-> "no", anchors |-> "none", score |-> 0,
              verdict |-> Null, done |-> Null, ready |-> FALSE, pending |-> <<>>]

TapInit ==
  /\ link = FALSE
  /\ tap = [turn |-> 0, live |-> FALSE, profile |-> Null,
            matched |-> Null, bytes |-> 0, timers |-> {}, log |-> <<>>, closed |-> TRUE,
            req |-> [r \in Requests |-> NoRequest]]
  /\ wire = [r \in Requests |-> [open |-> FALSE, sent |-> 0, stream |-> "off", from |-> 0]]

-----------------------------------------------------------------------------
(* The end of a turn, and its queue. *)

Event(type, of) == [type |-> type, of |-> of, n |-> 0]

\* AsyncEventQueue.push: nothing enters once it is closed.
Push(t, e) == IF t.closed THEN t ELSE [t EXCEPT !.log = Append(@, e)]

\* clearTurnTimers and close()
Over(t) ==
  [t EXCEPT !.live = FALSE, !.closed = TRUE, !.timers = {},
            !.req = [r \in Requests |->
              IF t.req[r].turn = t.turn
                THEN [t.req[r] EXCEPT !.pending = <<>>,
                                      !.known = IF @ = "body" THEN "no" ELSE @]
                ELSE t.req[r]]]

Fail(t, reason) == IF t.live THEN Over(Push(t, Event("error", reason))) ELSE t
Finish(t) == IF t.live THEN Over(Push(t, Event("end", t.matched))) ELSE t
Cancel(t) == IF t.live THEN Over(t) ELSE t

\* emitChunk
\* Slip: the limit is checked before the chunk is counted.
EmitPastLimit(t, c) ==
  IF ~t.live THEN t
  ELSE IF t.bytes > MaxBytes THEN Fail(t, "internal_error")
  ELSE Push([t EXCEPT !.bytes = @ + Weight[t.matched],
                      !.timers = (@ \ {"firstByte"}) \union {"stall"}],
            [Event("chunk", t.matched) EXCEPT !.n = c])
EmitChunk(t, c) ==
  IF ~t.live THEN t
  ELSE IF t.bytes + Weight[t.matched] > MaxBytes THEN Fail(t, "internal_error")
  ELSE Push([t EXCEPT !.bytes = @ + Weight[t.matched], !.timers = (@ \ {"firstByte"}) \union {"stall"}],
            [Event("chunk", t.matched) EXCEPT !.n = c])

-----------------------------------------------------------------------------
(* Requests.  A record says whether the tap knows the request ("body" while its body is
   fetched, "candidate" once it may be the turn's), what its response was, and how it
   ended. *)

\* selectCandidate up to its await
\* Slip: the request timer stops and the first byte is waited for without one.
SelectedUntimed(t, r) ==
  IF ~t.live \/ t.matched # Null THEN t
  ELSE Push([t EXCEPT !.matched = r, !.timers = @ \ {"match"}], Event("matched", r))
Selecting(t, r) ==
  IF ~t.live \/ t.matched # Null THEN t
  ELSE Push([t EXCEPT !.matched = r, !.timers = (@ \ {"match"}) \union {"firstByte"}],
            Event("matched", r))

\* registerRequest
Registered(t, r) ==
  IF t.req[r].anchors = "none" THEN [t EXCEPT !.req[r].known = "no"]
  ELSE [t EXCEPT !.req[r].known = "candidate"]

\* onResponse for a candidate.  A verdict is the profile the response has, or what
\* is wrong with it.
Responded(t, r, verdict) ==
  IF ~t.live \/ t.matched # Null \/ t.req[r].known # "candidate" THEN t
  ELSE IF verdict = "bad_status" THEN Fail(t, "stream_aborted")
  ELSE IF verdict = "moved" THEN Fail(t, "profile_mismatch")
  ELSE IF verdict = "other_type" THEN t
  ELSE IF t.profile # Null /\ verdict = "off_profile" THEN Fail(t, "profile_mismatch")
  ELSE LET u == [t EXCEPT !.req[r].verdict = verdict] IN
       IF t.profile # Null /\ t.req[r].anchors = "full" THEN Selecting(u, r)
       ELSE [u EXCEPT !.timers = @ \union {"select"}]

\* onFinished, onFailed
EndedWell(t, r) ==
  LET u == [t EXCEPT !.req[r].done = "finished"] IN
  IF r = t.matched /\ t.req[r].ready THEN Finish(u) ELSE u
EndedBadly(t, r) ==
  LET u == [t EXCEPT !.req[r].done = "failed"] IN
  IF r = t.matched THEN Fail(u, "stream_aborted") ELSE u

\* Requests of the current turn the tap has a record of.
Followed(r) == tap.live /\ tap.req[r].turn = tap.turn /\ tap.req[r].known # "no"

\* What is asked of Chrome as a handler selects a request.
Asked(before, after) ==
  IF after.matched # Null /\ before.matched = Null
    THEN [wire EXCEPT ![after.matched].stream = "asked"] ELSE wire

\* onRequest.  Requests the tap takes no notice of are left out: those outside a turn,
\* after the match, to other endpoints.
RequestSent(r, in) ==
  /\ tap.req[r].turn = 0 /\ tap.live /\ tap.matched = Null
  /\ wire' = [wire EXCEPT ![r].open = TRUE]
  /\ LET t == [tap EXCEPT !.req[r] = [NoRequest EXCEPT !.turn = tap.turn,
                                          !.anchors = in.anchors, !.score = in.score]] IN
     tap' = IF in.inline THEN Registered(t, r) ELSE [t EXCEPT !.req[r].known = "body"]
  /\ UNCHANGED link

\* A redirect of a request the tap follows.
Redirected(r) ==
  /\ wire[r].open /\ Followed(r) /\ tap.req[r].verdict = Null
  /\ tap' = Fail(tap, "profile_mismatch")
  /\ UNCHANGED <<link, wire>>

\* retrieveBody after its await: what came meanwhile is replayed, in order.
Replayed(t, r) ==
  LET held == t.req[r]
      u == IF held.verdict = Null THEN t ELSE Responded(t, r, held.verdict) IN
  IF held.done = "failed" THEN EndedBadly(u, r)
  ELSE IF held.done = "finished" THEN EndedWell(u, r) ELSE u

BodyRetrieved(r) ==
  /\ tap.req[r].known = "body"
  /\ \E got \in BOOLEAN :
       LET t == Registered(tap, r)
           u == IF ~got THEN [tap EXCEPT !.req[r].known = "no"]
                ELSE IF tap.matched # Null THEN [tap EXCEPT !.req[r].known = "no"]
                ELSE IF t.req[r].known = "candidate" THEN Replayed(t, r) ELSE t IN
       /\ tap' = u
       /\ wire' = Asked(tap, u)
  /\ UNCHANGED link

\* Network.responseReceived
ResponseReceived(r, verdict) ==
  /\ wire[r].open /\ Followed(r) /\ tap.req[r].verdict = Null /\ tap.req[r].done = Null
  /\ LET u == IF tap.req[r].known = "body" THEN [tap EXCEPT !.req[r].verdict = verdict]
              ELSE Responded(tap, r, verdict) IN
     /\ tap' = IF u.req[r].verdict = Null THEN [u EXCEPT !.req[r].verdict = verdict] ELSE u
     /\ wire' = Asked(tap, u)
  /\ UNCHANGED link

\* The select timer: the best response that is not tied; a partial match only alone.
\* Slip: the best is taken even when another is as good.
BestOrTied(S) == {r \in S : \A q \in S \ {r} : tap.req[r].score >= tap.req[q].score}
Best(S) == {r \in S : /\ \A q \in S \ {r} : tap.req[r].score > tap.req[q].score
                      /\ tap.req[r].anchors = "full" \/ S = {r}}
SelectTimer ==
  /\ "select" \in tap.timers
  /\ LET ready == {r \in Requests : Followed(r) /\ tap.req[r].known = "candidate"
                                    /\ tap.req[r].verdict \in Profiles \union {"off_profile"}}
         t == [tap EXCEPT !.timers = @ \ {"select"}] IN
     \/ /\ Best(ready) = {} /\ tap' = t /\ wire' = wire
     \/ \E r \in Best(ready) : tap' = Selecting(t, r) /\ wire' = Asked(tap, Selecting(t, r))
  /\ UNCHANGED link

-----------------------------------------------------------------------------
(* Chrome: Network.streamResourceContent answers with what has come so far, and what
   comes after it is reported as data. *)

StreamStarts(r) ==
  /\ wire[r].stream = "asked"
  /\ \/ wire' = [wire EXCEPT ![r].stream = "answered", ![r].from = wire[r].sent]
     \/ wire' = [wire EXCEPT ![r].stream = "refused"]
  /\ UNCHANGED <<link, tap>>

\* onData
DataReceived(t, r, c) ==
  IF ~t.live \/ r # t.matched THEN t
  ELSE IF t.req[r].ready THEN EmitChunk(t, c)
  ELSE IF t.bytes + Weight[r] * (Len(t.req[r].pending) + 1) > MaxBytes THEN Fail(t, "internal_error")
  ELSE [t EXCEPT !.req[r].pending = Append(@, c)]

ProviderSends(r) ==
  LET c == wire[r].sent + 1 IN
  /\ wire[r].open /\ Followed(r) /\ tap.req[r].verdict # Null /\ wire[r].sent < Chunks
  /\ wire' = [wire EXCEPT ![r].sent = c]
  /\ tap' = IF wire[r].stream \in {"answered", "done"} THEN DataReceived(tap, r, c) ELSE tap
  /\ UNCHANGED link

\* Pieces that came one by one are emitted one by one.
EmitEach(t, pieces) ==
  LET after[n \in 0..Len(pieces)] ==
        IF n = 0 THEN t ELSE EmitChunk(after[n - 1], pieces[n])
  IN  after[Len(pieces)]

\* selectCandidate after its await: what was buffered, then what came meanwhile.  The
\* buffered pieces are one chunk, refused whole when it is too long.
\* Slip: what came meanwhile goes first.
PendingFirst(buffered, pending) == pending \o buffered
Flushed(buffered, pending) == buffered \o pending
StreamAnswered(r) ==
  /\ wire[r].stream \in {"answered", "refused"}
  /\ wire' = [wire EXCEPT ![r].stream = "done"]
  /\ LET all == Flushed([i \in 1..wire[r].from |-> i], tap.req[r].pending)
         t == [tap EXCEPT !.req[r].pending = <<>>]
         s == IF tap.bytes + Weight[r] * wire[r].from > MaxBytes
                THEN Fail(t, "internal_error") ELSE EmitEach(t, all)
         u == [s EXCEPT !.req[r].ready = TRUE] IN
     tap' = IF ~tap.live \/ tap.matched # r THEN tap
            ELSE IF wire[r].stream = "refused" THEN Fail(tap, "internal_error")
            ELSE IF u.req[r].done = "failed" THEN Fail(u, "stream_aborted")
            ELSE IF u.req[r].done = "finished" THEN Finish(u) ELSE u
  /\ UNCHANGED link

LoadingFinished(r) ==
  /\ wire[r].open /\ Followed(r) /\ tap.req[r].verdict # Null /\ wire[r].sent = Chunks
  /\ wire' = [wire EXCEPT ![r].open = FALSE]
  /\ tap' = EndedWell(tap, r)
  /\ UNCHANGED link

LoadingFailed(r) ==
  /\ wire[r].open /\ Followed(r)
  /\ wire' = [wire EXCEPT ![r].open = FALSE]
  /\ tap' = EndedBadly(tap, r)
  /\ UNCHANGED link

TimerFires(name, reason) ==
  /\ name \in tap.timers
  /\ tap' = Fail([tap EXCEPT !.timers = @ \ {name}], reason)
  /\ UNCHANGED <<link, wire>>

TimersFire ==
  \/ TimerFires("match", "no_matching_request")
  \/ TimerFires("firstByte", "first_byte_timeout")
  \/ TimerFires("stall", "stall")

-----------------------------------------------------------------------------
(* Operations the reader calls.  It has one turn at a time, under the session's lane. *)

\* arm: cancelCurrent, then a turn unless the tap is detached or out of use.  The
\* profile is the one learned so far, if any: TapHealth decides both.
Arm ==
  LET old == [Cancel(tap) EXCEPT !.turn = @ + 1, !.profile = Null, !.matched = Null,
                                 !.bytes = 0, !.log = <<>>] IN
  /\ tap.turn < MaxTurns
  /\ \/ tap' = old
     \/ /\ link
        /\ \E p \in Profiles \union {Null} :
             tap' = [old EXCEPT !.live = TRUE, !.profile = p, !.timers = {"match"},
                                !.closed = FALSE]
  /\ UNCHANGED <<link, wire>>

\* TapTurn.cancel
CancelTurn ==
  /\ tap' = Cancel(tap)
  /\ UNCHANGED <<link, wire>>

\* reconnect: the current turn is cancelled, the session detached; attachSession follows.
Detach ==
  /\ link /\ link' = FALSE
  /\ tap' = Cancel(tap)
  /\ UNCHANGED wire

\* attachSession, from initialize or reconnect; when it fails it may be tried again.
Attach ==
  /\ ~link /\ link' = TRUE
  /\ UNCHANGED <<tap, wire>>

TapNext ==
  \/ \E r \in Requests :
       \/ \E in \in Inputs[r] : RequestSent(r, in)
       \/ \E v \in Responses[r] : ResponseReceived(r, v)
       \/ Redirected(r) \/ BodyRetrieved(r) \/ StreamStarts(r) \/ ProviderSends(r)
       \/ StreamAnswered(r) \/ LoadingFinished(r) \/ LoadingFailed(r)
  \/ SelectTimer \/ TimersFire
  \/ Arm \/ CancelTurn \/ Detach \/ Attach

TapSpec == TapInit /\ [][TapNext]_tapVars

\* The event loop runs the timers that are due, whatever the network does.
TapFairSpec == TapSpec /\ WF_tapVars(TimersFire)

-----------------------------------------------------------------------------
(* Properties. *)

\* Shapes of the state, with the wire never ahead of what the provider has to send.
TapTypeOK ==
  /\ link \in BOOLEAN
  /\ tap.turn \in 0..MaxTurns /\ {tap.live, tap.closed} \subseteq BOOLEAN
  /\ tap.profile \in Profiles \union {Null} /\ tap.timers \subseteq Timers
  /\ tap.matched \in Requests \union {Null} /\ tap.bytes \in 0..MaxBytes
  /\ \A r \in Requests : /\ wire[r].from <= wire[r].sent /\ wire[r].sent <= Chunks
                         /\ Len(tap.req[r].pending) <= wire[r].sent

\* The response a turn starts to follow answers a request of that turn which carries its
\* prompt, has the learned profile's content type when there is one, and is preferred to
\* no response that is as likely; one that carries only part of the prompt is followed
\* only when it is alone (retrieveBody, onResponse and selectCandidate, where replies
\* about an earlier turn arrive late).
MatchIsSound ==
  [][LET m == tap'.matched
         rivals == {q \in Requests \ {m} : /\ tap'.req[q].turn = tap'.turn
                                          /\ tap'.req[q].known = "candidate"
                                          /\ tap'.req[q].verdict \in Profiles} IN
     m # Null /\ m # tap.matched =>
       /\ tap'.req[m].turn = tap'.turn /\ tap'.req[m].anchors # "none"
       /\ tap'.profile # Null => tap'.req[m].verdict \in Profiles
       /\ tap'.req[m].anchors = "partial" => rivals = {}
       /\ tap'.profile = Null => \A q \in rivals : tap'.req[m].score > tap'.req[q].score
    ]_tapVars

\* The tap feeds its reader as TapFeed promises: one response, whole and in order, or
\* cut short once (tap-queue, emitChunk, finish, fail, cancel).
feed == INSTANCE TapFeed WITH Bodies <- Requests, Failures <- Reasons,
                              log <- tap.log, over <- tap.closed
ImplementsFeed == feed!Feed

\* A turn never stays open for ever: whatever the network withholds, one of its timers
\* ends it (arm, registerRequest, selectCandidate, emitChunk keep one armed).
TurnsEnd == tap.live ~> ~tap.live
=============================================================================
