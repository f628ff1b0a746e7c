--------------------------- MODULE NetworkExecutor ---------------------------
(***************************************************************************)
(* The executors of the network transport: NetworkChatExecutor             *)
(* (runtime/network-executor.ts) posting the mapped request with           *)
(* BrowserUpstreamClient (runtime/upstream.ts), under the circuit breaker  *)
(* that the sessions of a provider share.                                  *)
(*                                                                         *)
(* Each session has an adapter, whose request carries the conversation     *)
(* state of earlier replies (base), and a client, whose headers carry what *)
(* the site last rotated (held).  An HTTP request outlives the call that   *)
(* made it when the call is aborted (adrift).                              *)
(***************************************************************************)
EXTENDS CircuitBreaker, DeclarativeAdapter

CONSTANTS asks,             \* [Calls -> the requests it may be made for]
          Characters,       \* what a text is written with
          Replies,          \* what the chat may answer
          FollowRedirects,
          MaxRedirects,     \* MAX_REDIRECTS
          MaxTokens,        \* bound on the values of a rotating header
          None

ASSUME NetworkAssumption ==
  /\ FollowRedirects \in BOOLEAN
  /\ MaxRedirects \in Nat
  /\ MaxTokens \in Nat
  /\ None \notin Calls
  /\ \A reply \in Replies : reply.lines \in Seq([text : Seq(Characters), json : BOOLEAN])

VARIABLES
  turn,       \* [Calls -> the progress of execute]
  base,       \* [Sessions -> [paths -> the call whose reply it is from, or None]]
  held,       \* [Sessions -> value of the rotating header the client sends]
  issued,     \* [Sessions -> value the site gave last]
  adrift,     \* aborted calls whose HTTP request is still under way
  asked,      \* [Sessions -> the prompts posted: by which call, after which state]
  ended,      \* [Calls -> what the caller was told]
  wrote       \* [Calls -> the paths its reply has set]

client == <<turn, base, held, issued, adrift>>
history == <<asked, ended, wrote>>
netVars == <<vars, client, history>>

Paths == ToSet(Updates)
Off == [stage |-> "off", hops |-> 0, token |-> 0, passed |-> 0, ask |-> None, reply |-> None]
At(c, stage) == turn[c].stage = stage

NetInit ==
  /\ Init
  /\ turn = [c \in Calls |-> Off]
  /\ base = [s \in Sessions |-> [p \in Paths |-> None]]
  /\ held = [s \in Sessions |-> 0]
  /\ issued = held
  /\ adrift = {}
  /\ asked = [s \in Sessions |-> <<>>]
  /\ ended = [c \in Calls |-> "no"]
  /\ wrote = [c \in Calls |-> {}]

Refused(c) == Reject(c) /\ UNCHANGED <<client, history>>

\* execute and post run to the first fetch without a pause, or to what they throw: a
\* request that cannot be mapped, a spent budget (beforeSubmit), or the signal.
Start(c) ==
  LET s == sessionOf[c]
  IN  /\ Dispatch(c) \/ Probe(c)
      /\ \E r \in asks[c] :
           \/ /\ MapsRequest(r)
              /\ turn' = [turn EXCEPT ![c].stage = "fetching", ![c].token = held[s],
                                      ![c].ask = r]
              /\ asked' = [asked EXCEPT ![s] = Append(@, [by |-> c, after |-> base[s]])]
           \/ turn' = [turn EXCEPT ![c].stage = "thrown"] /\ UNCHANGED asked
      /\ UNCHANGED <<base, held, issued, adrift, ended, wrote>>

Tells(c, what) ==
  /\ turn' = [turn EXCEPT ![c] = Off]
  /\ ended' = [ended EXCEPT ![c] = what]
  /\ UNCHANGED asked

\* mergeRotatingHeaders: the site may give a header a new value in any response.
Merged(s) ==
  \/ UNCHANGED <<held, issued>>
  \/ /\ issued[s] < MaxTokens
     /\ issued' = [issued EXCEPT ![s] = @ + 1]
     /\ held' = [held EXCEPT ![s] = issued'[s]]

\* Slip: a redirect is followed with the headers of the request before it.
FollowsWithOld(c) ==
  /\ At(c, "fetching")
  /\ FollowRedirects
  /\ turn[c].hops < MaxRedirects
  /\ Merged(sessionOf[c])
  /\ turn' = [turn EXCEPT ![c].hops = @ + 1]
  /\ UNCHANGED <<vars, base, adrift, history>>

\* A redirect to the same origin, by the same method or by a GET without the body.
Follows(c) ==
  /\ At(c, "fetching")
  /\ FollowRedirects
  /\ turn[c].hops < MaxRedirects
  /\ Merged(sessionOf[c])
  /\ turn' = [turn EXCEPT ![c].hops = @ + 1, ![c].token = held'[sessionOf[c]]]
  /\ UNCHANGED <<vars, base, adrift, history>>

\* UpstreamRedirectError, for a redirect that may not be followed, or
\* UpstreamResponseTooLargeError by the declared length.
Unusable(c) ==
  /\ At(c, "fetching")
  /\ Merged(sessionOf[c])
  /\ Fails(c)
  /\ Tells(c, "error")
  /\ UNCHANGED <<base, adrift, wrote>>

Responds(c) ==
  /\ At(c, "fetching")
  /\ Merged(sessionOf[c])
  /\ turn' = [turn EXCEPT ![c] = [@ EXCEPT !.stage = "reading", !.hops = 0, !.token = 0]]
  /\ UNCHANGED <<vars, base, adrift, history>>

\* The body is too large, or belongs to a status 429 or from 500.
Unavailable(c) ==
  /\ At(c, "reading")
  /\ Fails(c)
  /\ Tells(c, "error")
  /\ UNCHANGED <<base, held, issued, adrift, wrote>>

\* Every other error counts as an answer of the provider: what is thrown before the
\* fetch, a timeout or a lost connection, and the other statuses.
Errs(c) ==
  /\ turn[c].stage \in {"thrown", "fetching", "reading"}
  /\ Answered(c)
  /\ Tells(c, "error")
  /\ UNCHANGED <<base, held, issued, adrift, wrote>>

\* Slip: the state is applied when the reply is read, before its deltas are passed.
ReadsIntoState(c) ==
  /\ At(c, "reading")
  /\ \E reply \in Replies :
       /\ reply.calls # <<>> => ToldOfTools(turn[c].ask)
       /\ IF Unreadable(turn[c].ask, reply)
          THEN Answered(c) /\ Tells(c, "error") /\ UNCHANGED base
          ELSE /\ turn' = [turn EXCEPT ![c].stage = "streaming", ![c].reply = reply]
               /\ base' = [base EXCEPT ![sessionOf[c]] =
                    [p \in Paths |-> IF p \in Written(reply) THEN c ELSE @[p]]]
               /\ UNCHANGED <<vars, asked, ended>>
  /\ UNCHANGED <<held, issued, adrift, wrote>>

\* The body of a 2xx is decoded and read.  The chat calls functions it knows.
Reads(c) ==
  /\ At(c, "reading")
  /\ \E reply \in Replies :
       /\ reply.calls # <<>> => ToldOfTools(turn[c].ask)
       /\ IF Unreadable(turn[c].ask, reply)
          THEN Answered(c) /\ Tells(c, "error")
          ELSE /\ turn' = [turn EXCEPT ![c].stage = "streaming", ![c].reply = reply]
               /\ UNCHANGED <<vars, asked, ended>>
  /\ UNCHANGED <<base, held, issued, adrift, wrote>>

ToPass(c) ==
  IF CallsOf(turn[c].ask, turn[c].reply) # <<>> THEN <<>> ELSE Deltas(turn[c].reply)

\* onDelta is awaited for each delta, and may throw.
Passes(c) ==
  /\ At(c, "streaming")
  /\ turn[c].passed < Len(ToPass(c))
  /\ turn' = [turn EXCEPT ![c].passed = @ + 1]
  /\ UNCHANGED <<vars, base, held, issued, adrift, history>>

IsRefused(c) ==
  /\ At(c, "streaming")
  /\ turn[c].passed < Len(ToPass(c))
  /\ Answered(c) \/ Aborted(c)
  /\ Tells(c, "error")
  /\ UNCHANGED <<base, held, issued, adrift, wrote>>

\* applyState comes last.  A required path that the reply lacks fails the call after
\* everything was passed, with the paths before it written.
Finishes(c) ==
  LET reply == turn[c].reply
  IN  /\ At(c, "streaming")
      /\ turn[c].passed = Len(ToPass(c))
      /\ Answered(c)
      /\ Tells(c, IF Breaks(reply) = {} THEN "result" ELSE "torn")
      /\ base' = [base EXCEPT ![sessionOf[c]] =
           [p \in Paths |-> IF p \in Written(reply) THEN c ELSE @[p]]]
      /\ wrote' = [wrote EXCEPT ![c] = Written(reply)]
      /\ UNCHANGED <<held, issued, adrift>>

\* The signal ends a wait for the response or its body, not the request itself.
Abandons(c) ==
  /\ turn[c].stage \in {"thrown", "fetching", "reading"}
  /\ Aborted(c)
  /\ Tells(c, "aborted")
  /\ adrift' = IF At(c, "fetching") THEN adrift \union {c} ELSE adrift
  /\ UNCHANGED <<base, held, issued, wrote>>

\* The response nobody waits for is disposed of, with the headers it rotates.
IsDisposed(c) ==
  /\ c \in adrift
  /\ adrift' = adrift \ {c}
  /\ \/ UNCHANGED issued
     \/ /\ issued[sessionOf[c]] < MaxTokens
        /\ issued' = [issued EXCEPT ![sessionOf[c]] = @ + 1]
  /\ UNCHANGED <<vars, turn, base, held, history>>

Executes(c) ==
  \/ Follows(c) \/ Unusable(c) \/ Responds(c) \/ Unavailable(c) \/ Errs(c) \/ Reads(c)
  \/ Passes(c) \/ IsRefused(c) \/ Finishes(c) \/ Abandons(c)

NetNext ==
  \/ \E c \in Calls : Refused(c) \/ Start(c) \/ Executes(c) \/ IsDisposed(c)
  \/ CoolDown /\ UNCHANGED <<client, history>>

NetSpec == NetInit /\ [][NetNext]_netVars

\* The fairness of the breaker: the clock runs, and every execution settles, since a
\* fetch has a timeout, a request its deadline, and a delta is passed or refused.
FairNetSpec == NetSpec /\ Fairness

-----------------------------------------------------------------------------
NetTypeOK ==
  /\ \A c \in Calls :
       /\ turn[c].stage \in {"off", "thrown", "fetching", "reading", "streaming"}
       /\ turn[c].hops \in 0..MaxRedirects
       /\ turn[c].token \in 0..MaxTokens
       /\ turn[c].reply \in Replies \union {None}
  /\ base \in [Sessions -> [Paths -> Calls \union {None}]]
  /\ held \in [Sessions -> 0..MaxTokens]
  /\ issued \in [Sessions -> 0..MaxTokens]
  /\ adrift \subseteq Calls
  /\ ended \in [Calls -> {"no", "result", "torn", "error", "aborted"}]
  /\ wrote \in [Calls -> SUBSET Paths]

\* A prompt carries, path by path, what the last reply that set the path left.  A
\* path is from a call asked before, whose answer was passed on, and which set it:
\* nothing is from a call that was aborted or refused, or that failed before, though
\* its HTTP request may still be under way (upstream.ts:96-102).  A path is never
\* older than a reply that set it, and after an answer given as a whole each
\* required path is of that answer or of a later one.  A call that fails in
\* applyState, its answer passed on, is "torn": the paths set before the missing one
\* stay (network-executor.ts:141, engine.ts:211-220).
ContinuesLastAnswer ==
  \A s \in Sessions : \A j \in DOMAIN asked[s] : \A p \in Paths :
    LET from == asked[s][j].after[p]
        asker(i) == asked[s][i].by
    IN  /\ from # None =>
             /\ \E i \in 1..(j - 1) : asker(i) = from
             /\ ended[from] \in {"result", "torn"} /\ p \in wrote[from]
        /\ \A i \in 1..(j - 1) :
             p \in wrote[asker(i)] \/ (ended[asker(i)] = "result" /\ p \notin Optional) =>
               from \in {asker(k) : k \in i..(j - 1)}

\* The requests under way carry the newest value of a rotating header, also after
\* a redirect rotated it; only a response that an abort threw away can have left
\* the client behind (upstream.ts:114-134).
NewestHeaderIsSent ==
  \A c \in Calls : At(c, "fetching") =>
    LET s == sessionOf[c]
    IN  /\ turn[c].token = held[s]
        /\ held[s] # issued[s] => \E d \in Calls : sessionOf[d] = s /\ ended[d] = "aborted"

\* When the events of a reply are growing snapshots of one answer, the deltas passed
\* to the client spell the content of the completion that follows them, which a
\* stream must extend, where the profile joins the texts of a reply by the default
\* strategy or keeps the last (engine.ts:74-96, 156-209).
Growing(texts) ==
  /\ \A i, j \in DOMAIN texts : i < j => IsPrefix(texts[i], texts[j])
  /\ \A i \in DOMAIN texts : i = Len(texts) => Trim(texts[i]) = texts[i]
StreamIsContent ==
  Strategy \in {"smart", "last"} =>
    \A c \in Calls : At(c, "streaming") /\ Growing(Events(turn[c].reply)) =>
      FlattenSeq(Deltas(turn[c].reply)) = Content(turn[c].reply)

=============================================================================
