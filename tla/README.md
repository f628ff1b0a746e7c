# Specifications of kitt-reverse-proxy

These TLA+ modules describe the parts of the proxy that keep state while several
callers, timers, tabs, streams or processes act on it at once, and the rules by which
it reads requests and answers. Each is written from the TypeScript under `src/src/`,
checked by TLC on a small instance, and the central ones are also proved with TLAPS
for every value of their constants.

    tlc -workers 2 -config SessionManager.cfg MCSessionManager
    tlapm NetworkProofs.tla

`PROJECT.json` lists every run, the lines each definition stands for, the slip
that shows each property can fail, and the hazards the properties are for.

## 1. The system

A client sends an OpenAI, Ollama or Anthropic request over HTTP. A router converts
it, finds the session it names, and runs it in that session's executor, which types
the prompt into a chat page of a real browser (or replays a captured HTTP call) and
reads the answer back, from the page and from the provider's own HTTP response at
once. One Node process serves one provider. A separate control plane, a command or a
resident process, starts and stops such services.

| component | state it keeps | operations | talks to |
|---|---|---|---|
| **SessionManager** | table of sessions, creations under way, reservations, tabs, default route | `transaction`, `reset`, `browserAction`, `delete`, `sweepIdle`, `close` | lanes, browser broker, executors, idempotency cache |
| **SerialQueue** | array of entries, `active`, `closed` | `run`, abort, `pump`, `close`, `drain` | one chat lane and one automation lane per session |
| **Circuit breaker** | `openUntil`, `halfOpenProbe`, `consecutiveFailures` | `execute`, the three `record*` | wraps each executor; its state is shared by sessions |
| **Network executor** | conversation state of the profile, rotating headers | `execute`, `post`, `applyState` | breaker, declarative adapter, tool plan |
| **UI executor** | history, pending tool calls, evidence of work, what the chat was told | `execute`, `reset` | page, read path, tool protocol |
| **Read path** | event queue, circuit of the tap, text emitted so far | `read`, deltas | UI executor, CDP, page |
| **Agent contract** | context each session has acknowledged | prepare, commit, repair | router, SessionManager |
| **Routers and streams** | headers, open block, buffer of one reply | write, heartbeat, end, error | executor, client |
| **Idempotency cache** | map of entries, `retainedBytes` | `execute`, prune, evict, settle | called around a whole transaction |
| **File lock** | a directory with `owner.json` | `withFileLock`, `withFileLockSync` | registries, service manager |
| **ServiceManager**, registries | records of instances and profiles, the lifecycle lock, spawned processes | `start`, `stop`, `restart`, `list`, `stopAll` | file lock, browser host |
| browser broker | leases of pages in one context | `createSession`, `close` | SessionManager |
| CLI, MCP, plugins, discovery, telemetry, security | none that operations share | output, conversions, start and stop | all of the above |

### What is hard, and what correct means

* **SessionManager.** Every operation decides, awaits, and acts: sweeps, evictions,
  deletions, joins of a creation in progress, the startup tab lent and given back, and
  shutdown all overlap. Correct: a session a call holds is not removed under it, the
  counter guarding this agrees with the callers, no two executors drive one tab, every
  lease has an owner, and `close()` ends without letting anything new in.
* **SerialQueue.** Aborts, late pumps and the hand-over in a `finally` race. Correct:
  one task at a time, first come first served, no entry left behind.
* **Circuit breaker and network executor.** Calls sent before the circuit opened settle
  while a probe is out; an aborted HTTP request goes on behind the next call; the state
  of a conversation is written last and path by path. Correct: open exactly past the
  threshold, a probe flag that never outlives its probe, and a conversation that
  continues from the last answer given.
* **UI executor.** The page is foreign: an editor puts back old text, a click times out
  though it was taken, an old answer is still being written. Correct: a prompt is sent
  once and whole, the answer read is its own, results and evidence belong to the task
  at hand, and a chat is never asked to rely on what it was not told.
* **Read path.** Two sources of one answer race, lag and break. Correct: one answer, its
  deltas told once and in order, and a verdict on the tap only when it was earned.
* **Agent contract.** A prompt leaves out what its chat has been told, and what was
  acknowledged outlives errors, resets and a bounded memory. Correct: nothing is left
  out that the chat does not hold, and a repair changes only what an error was about.
* **Streams.** An error may come after any byte; the client may be slow or gone. Correct:
  a well formed stream, called complete only with the whole answer, and no execution
  left behind for a client that has gone.
* **Idempotency cache.** A request fails at its deadline *after* its prompt was sent,
  and the client retries. Correct: the id stays taken while in doubt, within limits.
* **File lock, ServiceManager.** Owners crash between two system calls, ids are reused,
  a start fails half way, a lock is given up. Correct: no lost update, recovery, and
  nothing started that is forgotten or stopped while in use.

## 2. The modules

| module | models | role |
|---|---|---|
| `FifoLock`, `SerialQueue` | `runtime/serial-queue.ts`, `cancellation.ts` | abstract lane, detailed lane that implements it |
| `SessionManager` | `runtime/session-manager.ts`, leases of `browser-broker.ts` | composes lanes, executors, tabs and callers |
| `CircuitBreaker` | `runtime/resilient-executor.ts` | shared circuit state |
| `ToolPlan`, `DeclarativeAdapter` | `mapping/tool-calling.ts`, `mapping/engine.ts` | pure rules: what a request asks and a reply says |
| `NetworkExecutor` | `runtime/network-executor.ts`, `upstream.ts` | composes the breaker and the adapter |
| `ToolProtocol`, `ChatPage`, `UiExecutor` | `tool-response.ts`, `tool-enforcement.ts`, `ui-interaction.ts`, `ui-history.ts`, `ui-continuation.ts`, `ui-executor.ts` | rules of tool calls; one prompt through the page; a whole request |
| `TapFeed`, `TapStream` | `read/tap-cdp.ts`, `tap-queue.ts`, `tap-adapter.ts` | what the tap promises a reader; the tap that implements it |
| `TapHealth`, `Reconciler`, `ReadPath` | `read/tap-health.ts`, `reconciler.ts`, `hybrid-reader.ts`, `ui-response-monitor.ts` | circuit of the tap, text told so far; the race of tap and page over `TapFeed` |
| `ContractAnswer`, `AgentContract` | `runtime/agent-contract*.ts`, `proxy/openai-router.ts` | what an answer is and what a repair may change; the exchange |
| `AnswerStream`, `ResponseStream` | `src/src/proxy` writers, `stream-io.ts`, `http-errors.ts` | what a reply promises; the five protocols that implement it |
| `RequestIdempotency` | `runtime/request-idempotency.ts`, `request-state.ts` | request ids and retries |
| `FileLock` | `control-plane/file-lock.ts`, `process-identity.ts` | lock of the registries, call by call |
| `ServiceManager` | `control-plane/service-manager.ts`, the registries | lifecycle of services and browser hosts |
| `MC*`, `*Proofs` | – | instances for TLC, theorems |

**Grain.** Node runs one callback at a time, so in the single-process modules one action
is the code between two awaits. Gaps that consist of microtasks only, with no foreign
code able to run in them, are merged. In `FileLock` one action is one system call,
because other processes run between any two. In `ServiceManager` one action is one
operation on the registry or one spawn or stop.

**SerialQueue.** The array is a set plus an arrival number per entry: `push` takes the
next number, `shift` the least. `pumps` counts the queued `pump()` microtasks. A task
that has settled leaves `active` set until `Release`, the `finally` of `pump()`, which
hands over in the same turn. The minimum interval is a step of unknown length.

**SessionManager.** A `ManagedSession` is named by the request that creates it. `req`
holds each caller's place in the code, `reservations` the code's own counter, `page`
is `browserSession.page` and `drives` the tab of the object's executor: the two differ
exactly when the startup tab has changed hands. `removal`, `sweep`, `closing` and
`rehydration` are the program counters of `removeSession`, `sweepIdle`, `close` and
`rehydrateDefaultRoute`. Idle times are not measured: wherever the code compares
`lastActivity` or takes the oldest, the model allows any candidate, so what holds here
holds for any clock and any LRU order. The launch mode is the shared context, where a
lease is a tab. Lanes appear as `SerialQueue` promises.

**CircuitBreaker, NetworkExecutor.** Time is the state of `openUntil`: closed, cooling,
expired. `turn` is a call's place in `execute` and `post`, `base` the conversation state
the next request of a session carries (each path known by the call whose reply set it),
`held` and `issued` the rotating header of the client and of the site, `adrift` the HTTP
requests that outlive an aborted call. Each step drives the breaker by its own actions.
`DeclarativeAdapter` says which requests map, what a reply's text is by the two readings
the code has of it (content and deltas), which calls it makes by `ToolPlan`, and which
paths it sets. A text is a sequence of characters, of which only the blank matters.
Calls to functions the chat was never told of are left to the read error they end in.

**UiExecutor.** `ChatPage` takes one prompt from the baseline to its answer: waiting until
idle, filling and checking the composer, a click, the ways out when a click fails, the
confirmation, the capture. Two things are assumed of the page: it shows that it generates,
and a prompt it has not taken when the confirmation is given up is not taken later. Anything
else is a mishap: its editor may change a draft at any time until the click, also after the
last look (`late`), when what it took out is `lost` to the chat. `UiExecutor` adds what `execute` remembers between
requests, and `ToolProtocol` what is read in an answer: a text is a sequence of pieces
by kind (prose, envelope, fence...) with the calls they hold. Clients come in three
styles: the whole history, the last turn only, or the agent contract. Call ids made by
the model are taken to be fresh; attachments and artifacts are left out.

**TapStream, TapFeed.** One action is one CDP callback or the reply to one command. Texts
are counts of chunks. `TapFeed` is all a reader may rely on, and `ReadPath` is built on it
alone, so the two are checked apart.

**ReadPath.** The page is free at each look: what it renders (one damaged piece at most),
whether it seems to generate, its continue button. Five activities queue actions on the
`Reconciler`, whose operators are its queued functions. The frame of a piece may be complete
only with the bytes of the next event, so the pieces that were framed lag those that came, by
one at most, and the last may come out of `adapter.end()`. The deltas of one event are queued
as one. `Complete` is `completedContract()` for a contract whose answer is JSON; the second
check of its settle timer (hybrid-reader.ts:151-155) and `hasTerminalFrame` (173) fall together
with the end, as no piece follows the last. A read of any kind that times out is rescued by
such an answer (284-288). `TapHealth` is a record with the
controller's methods as functions. The rounds after a continuation are over-approximated
by another round of the same loop. Reads by the page alone do not reconcile, so
`StreamIsAnswer` speaks of reads with the tap.

**AgentContract, ContractAnswer.** A call holds its session's chat lane from `Prepare` to
its end, so a submission and its answer are one step; `SerialQueue` justifies this.
`stats` is `statsBySession`, keyed by generation because generations are never given
twice; `chat` is what the conversation itself was last told, which the code does not
know. An answer has a form and fields; `Errors` is the choice of paths an error may
name, `Continuous` is `assertAgentRepairContinuity`. Summary, loop and unknown members
are one field; the order in which a validator looks is free. A failing reset
leaves the chat as it was or empty, and `astray` are the keys under which it left it.

**ResponseStream, AnswerStream.** One reply per behaviour, in one of five protocols. A
frame is what one `res.write()` sends, with an abstract size against the buffer's limit.
The content deltas a chat completion catches up with at its end are one frame (openai.ts:
237-240), and the frame of a legacy `function_call` is left out, as requests for one are
refused (request-validation.ts:82). `torn` is a writer whose frames that open
the text were refused, as a whole or in part. The abstract reply grows a text, is closed once, and is called complete only when whole.

**RequestIdempotency.** An entry is named by the call that created it. `Share` and
`Insert` are the two ends of `execute`, each including the prune that precedes it;
`Succeeds` includes the eviction to the byte limit; a result that cannot be serialised
gives its key up (`SucceedsUncounted`).

**FileLock.** `bare` is a lock directory without `owner.json`. A blocking call keeps its
process's thread. `Fingerprint` is the code's: of its own process it digests the start
epoch Node knows, of another what the system reports.

**ServiceManager.** The clients are concurrent callers of one control process (a resident
server or a command), which may die with all their calls; the services and browser hosts
it spawned outlive it. What runs without an await is not interrupted by another call
(`Free`). Ids and ports are drawn in one step, a port being taken on one bind host only;
process identities are never used twice. The lifecycle lock excludes these callers, as
`FileLock` shows. It does not exclude a second control process (finding 1): of two at
once the module says nothing.

## 3. The runs

| run | instance | what it shows | result |
|---|---|---|---|
| `SerialQueue` | 4 calls, 3 places | the lane implements `FifoLock`, never stalls, and is quiet once drained | holds |
| `SessionManager` | 3 calls, 4 names, 3 places, 2 pages, 1 sweep | reservations, held sessions, tabs, leases, shutdown | holds |
| `NetworkExecutor` | 4 calls, 2 sessions, threshold 2, 1 redirect, 1 rotation, 2 state paths | circuit, continuity of a conversation, headers, deltas against content | holds |
| `UiExecutor` | 3 requests in 3 styles, 1 reset, 2 tools, 1 mishap of the page | prompts, answers, evidence, results, context, termination | holds |
| `TapStream` | 2 HTTP requests, 2 turns, 2 chunks | sound matches, the tap implements `TapFeed`, no turn stays open | holds |
| `ReadPath` | turn after turn, 2 chunks, 2 bodies, thresholds of 1 | one answer told once, verdicts earned, reads end | holds |
| `AgentContract` | 3 requests, 2 sessions, 2 segments, 18 texts, room for 1 key, resets that fail both ways | prompts grounded, repairs faithful | holds |
| `ResponseStream` | 5 protocols, 3 pieces, 2 tool calls, buffer of 9 | well formed streams, ends told, implements `AnswerStream`, executions end | holds |
| `RequestIdempotency` | 4 calls, 3 ids, 2 payloads, 2 entries, 3 bytes | no double submission, limits and byte total | holds |
| `FileLock` | 1 process, 3 calls, 2 restarts, 2 process ids | no lost update, waiters settle | holds |
| `ServiceManager` | 2 callers in one process, 4 calls, 5 process identities, 2 bind hosts, 1 fault | records apart, nothing left behind, hosts in use spared | holds |
| `FileLockTwo` | 2 processes, 1 call each | no lost update between processes | **no**, finding 1 |

**What the less obvious properties say.** `ContinuesLastAnswer`: each path of the
state a prompt is posted with comes from an earlier reply that set it and whose answer was
passed on, and none is older than a reply that set it; after a call that succeeded, every
required path is from that call or a later one. A call that fails in `applyState` leaves the
paths it had set (observation 7). `StreamIsContent`: where the events of a reply are growing snapshots,
the deltas spell the content that the strategies "smart" (the default) and "last" make. `AnswerIsOfPrompt`: what is read
is the answer of the prompt that was sent, though the page may still have been writing an
older one. `SentOnceAndWhole`: a prompt is taken at most once, and only as it was written
unless the editor changed it after the last look (observation 21). `WorkIsEvidenced`: where a task must look at the workspace first, no changing
call is returned before a look made for that task; where it must change it, no final
answer before a change. `ContextKnown`: the chat was told all that an answered request's
history says, but for observation 16 and for what an editor took out after the last look.
`PromptIsGrounded`: a delta leaves out only what the chat holds, but in a session that a
failing reset has made to leave its chat, until its next key (observation 2).
`StreamIsWellFormed`: what is sent begins the grammar of its protocol, with the text inside
its block, whatever writes are refused, but for those that open the text. `SettledCallsStaySettled`: a result that was answered is not sent again.
`MatchIsSound`: the response a turn follows carries its prompt and is preferred to none as
likely. `VerdictIsEarned`: a profile gains trust only from a stream that ended and agrees
with the page. `TapAnswerIsWhole`: an answer from the tap alone is the whole of one matched
response. `EndIsTold`: a reply the server ends says how. `NothingLeftBehind`: a start that
fails and a stop leave nothing running that no record names. `HostsInUseSpared`: nobody
stops the browser host of a live service, but for `list()`, which does not take the lock,
in the case of observation 20; every reaping of `list()` is checked for being that case.

**Bounds.** *SerialQueue*: one running, two waiting and one refused is the least where
order between waiters, an abort in the middle and a full lane all occur.
*SessionManager*: two places besides the default for three names, so creations are evicted
for and refused; two pages make that limit bite before and after an eviction; two calls
share a name, so they join, queue behind one another, and race a deletion, a sweep or the
default route. *NetworkExecutor*: three calls of one session and one of another open the
circuit, settle late and probe; replies cover repeated and growing snapshots, blanks, calls
in body and text, a missing required and a missing optional path. *UiExecutor*: three
requests are the least for a task, its result and a new task; one mishap at each point of
the page. *TapStream*: two requests and two turns let each arrive in the other's turn; the first
answers as sse or off the profile, the second as sse or moved, and the theorems hold of
every answer, so only `TurnsEnd` rests on that choice.
*ReadPath*: thresholds of one make every verdict reachable in a turn and its effect visible
in the next. *AgentContract*: room for one key makes the second session evict the first's;
budgets of one to three attempts end a call at each of its prompts. *ResponseStream*: the
buffer holds a few frames, so it is full before, at and after the end.
*RequestIdempotency*: two entries and three ids fill the map; sizes 1 and 3 of 3 bytes
make a value fit, evict another, or evict itself. *FileLock*: two restarts let an owner
die, its recoverer die too, and the process id come back. *ServiceManager*: four calls are
two starts with a stop, a list or a retry between; five identities are two hosts, two
services and a replacement; two bind hosts let records share a port and not; ids, ports,
bind hosts, clients and profiles are interchangeable.

Deadlock is not checked: every call is made once, so each instance comes to rest when all
are served. That they are served is what the liveness properties say.

**Fairness.** Only what Node, the operating system and the code's own deadlines provide.
*SerialQueue*: microtasks run, a task settles. *SessionManager*: the steps the event loop
takes by itself; executors are **not** assumed to settle. *CircuitBreaker* and
*NetworkExecutor*: the clock runs, and some execution settles, since a fetch has a time-out.
*UiExecutor*: the lane's request goes on, as each wait on the page has a deadline.
*TapStream*: timers fire. *ReadPath*: deliveries, the tap task, the monitor and `read()`
go on together, and the monitor's deadline passes if the monitor keeps waiting (strong,
since the wait is left and entered again). *ResponseStream*: an execution that was
aborted or refused settles, drain and heartbeat timers fire; nothing is assumed of the
client. *AgentContract*, *RequestIdempotency*: an execution ends by its request's
deadline. *FileLock*: strong fairness of each call's steps, as a waiter retries until
served, and weak fairness of `Age`. *ServiceManager* has none and only safety.

**More than the runs check.** Every module has a type invariant (`TypeOK`, `NetTypeOK`,
`PageTypeOK`, `LockTypeOK`, `ReplyTypeOK`). The modules also state `RequestsSettle`,
`CallsSettle`, `CallsEnd` of `AgentContract`, `NoSilentReset` and `OrphansAreReapable`, weaker
than what the runs check or beside it; `PinnedWhileAwaiting` and `ResetsInvalidate`, which do
not hold (observations 1 and 2); each can be named in a cfg. `OneAtATime`, `SessionLimit`,
`HolderKeepsLock` and others are proved (section 4).

## 4. The proofs

For every number of tasks, calls, keys and every limit:

* `LockProofs`, the lane: types, `OneAtATime`, `NoLostWakeup`, `FirstComeFirstServed`,
  `DrainedIsQuiet`, `WithinCapacity`. Mutual exclusion is not inductive as it stands: one
  must know that only `active` is ever starting or running, that the array's entries are
  exactly the tasks marked pending, with distinct arrivals no greater than `arrivals`, and
  that a closed queue has an empty array. The conjunction is `IInv`. `LaneIsFifo` proves
  the refinement of `FifoLock`: the abstract queue is `Line`, the set `pending` by order of
  arrival. A task's place in it is the number of entries that arrived no later (`Places`),
  so a push appends to it, a shift takes its head and an abort removes one element
  (`LineGrows`, `LineShifts`, `LineThins`).
* `LockProofs`, the lock file: types, `HolderKeepsLock`, `NoLostUpdate`, for any number of
  calls, crashes, restarts and reused process ids, under the hypothesis `OneProcess`, which
  finding 1 shows to be needed. What runs without an await is alone on the thread
  (`StretchesAreAlone`), who is inside owns the directory (`InsideOwns`), and a live owner
  is never judged stale, as a process spells its own fingerprint the same way each time.
* `SessionManagerProofs`: types with `SessionLimit`, `ReservationsAgree`,
  `HeldSessionStays`, `TabIsolation`, `LeasesOwned`, for any calls, names, limits and
  sweeps. A sweep, an eviction and `delete` look at a counter before they act, so the
  first two are proved together with what every caller holds at its place in the code
  (`RequestShape`, `CreationsAgree`, `TableShape`). Tabs need the owner of the startup tab
  at each moment of its being lent and given back (`StartupOwned`, `DefaultTab`), and that
  after `close` nothing new comes in (`NoNewWork`). `LeasesOwned` is about the tabs of named
  sessions; observation 3 is about the default route's.
* `NetworkProofs`, the executor: of the breaker types, `OpenIffThreshold` and `ProbeIsInFlight`;
  the strengthening joins the two: a probe exists only while the circuit is open.
  `ImplementsBreaker` shows every step of the executors to be a step of the breaker or
  none, so the two invariants hold of them too; `PromptsContinue` proves
  `ContinuesLastAnswer` and `HeadersRotate` proves `NewestHeaderIsSent`. The invariant
  `NetInv` adds that a call with a turn is in flight, alone in its session and has told
  nothing (`LanesAreSerial`), that it asked last (`PromptsAreOfCalls`, `LastHasAsked`),
  what the present state is from, for a session (`BaseIsGiven`) and for each prompt
  (`StateIsGiven`), and that only an abort leaves a client behind (`HeadersAreNewest`). On
  top of it `Traced` follows the paths: a whole answer has set every required one
  (`WholeAnswersWrite`), and what a session or a prompt has of a call, that call did set
  (`BaseIsWritten`, `AskedIsWritten`). Steps fall into three kinds, a call that goes on (`GoesOn`),
  one that ends in vain (`EndsInVain`) and one that writes (`FinishesStep`).
  `StreamSpellsContent` proves `StreamIsContent`, for any replies and characters: two loops
  over the same events, one that cuts the news off each text and one that trims and joins
  them, agree. The loops are recursive functions, whose values follow text by text with
  `AllNaturals`: the news of the first n texts spell the n-th (`NewsIs`), and joined they
  are the n-th trimmed (`JoinIs`), because a text that the last one extends does not begin
  with a blank, so that trimming keeps the growth (`TrimGrows`).
* `NetworkProofs`, the tap: types, `MatchIsSound`, and `FeedIsImplemented`, that each
  callback is a step of `TapFeed` or none, for any requests, profiles, pieces, weights and
  limits. `TapInv` relates the tap to the wire: `FeedInStep` says that what the reader has,
  with what waits for Chrome's answer, is what the provider has sent; `AskedIsMatched` that
  Chrome is asked for the body of a matched request only, so nothing of another turn's
  response is read; `ProfileHolds` that no candidate of another content type is left to be
  chosen. As the handlers are functions from tap to tap, each has a lemma of its own
  (`RespondedKeeps`, `EmitIs`...) and an action combines them. The pieces that came before
  Chrome's answer are emitted by recursion: `AllNaturals` gives the induction, over sets of
  numbers instead of predicates.
* `RequestProofs`, the cache: `EntryWhileInDoubt` and from it `NoDoubleSubmission`. The
  invariant adds that an entry's owner knows it is one and of which key
  (`EntriesAreOwned`), and that whoever runs owns its execution (`RunnersOwn`).
  `LimitsHold` proves `WithinLimits`. A byte total is the number of pairs of an entry and
  one of its bytes, so its laws (`TotalSplit`, `TotalPart`) are those of cardinality, and
  the eviction ends because there is an oldest entry as long as there is one
  (`SomeOldest`). A result that cannot be serialised is counted nowhere and leaves no entry.
* `RequestProofs`, the reply: types, `EndIsTold`, `StreamIsWellFormed`, and
  `RepliesAreAnswers`, that each step is one of `AnswerStream` or none, for any pieces,
  answers, numbers of tool calls and pings, and any buffer. `Basics` says what goes with
  the handler's place (nothing sent before a request, ended exactly when it is over);
  that is enough for the end to be told. `Faithful` adds that no frame but the last ends a
  reply, that one which completes it comes with the text of the executor's answer
  (`EndsWell`), and that before the end the text sent is the text the writer has said
  (`TextIsSaid`), on which the refinement rests: a reader has a prefix of what was sent.
  `WellSpelled` adds that, pings and errors aside, what was sent before the end is the
  text opened and its pieces (`Begun`), so that `finish()` completes the grammar whether
  it closes a text, opens one first or has none (`FinishOn`), and a part of it, when the
  buffer is full, still begins it (`WellFormedPart`). An opening that does not fit is cut
  (`SpelledOfferCut`): it was sent as a whole (`FitsExactly`, `OpeningOn`) or the writer is
  torn, which is the exception. The lemmas before these say what flattening and
  dropping do to a sequence and how many frames fit.
* `UiExecutorProofs`: `AnswerIsOfPrompt`, `SentOnceAndWhole`, `WorkIsEvidenced`,
  `SettledCallsStaySettled`, `ContextKnown`, for any functions, effects, answers and bounds. `TurnSound`
  says what is known of the page at each stage of a turn: until the prompt is taken the
  page is idle and shows the baseline, after that it is busy with this prompt or not at
  all. `Sound` says what the memory owes the calls ever made: pending ones are unanswered,
  and evidence and the ids that may give more belong to the task at hand. `CallSound` says
  the same of the request under way, and that an answer it wants reformatted has passed
  what is enforced. `ContextKnown` takes a second invariant on top of these, `ContextInv`:
  unless the chat was left, it knows the kept history and the client's transcript
  (`TranscriptIsKnown`), and every request goes on from that transcript or repairs what is
  known (`Fits`, which `AskedFits` shows of all that can be asked). So what
  `PendingMessages` and `SelectMinimalUiPrompts` leave out of a prompt is known already and
  the rest is typed (`RestIsSelected`), everything is typed where no history is kept
  (`Hydrated`), and `CallIsTold` carries that to the answer. What the filters over a
  history compute is never expanded: lemmas say which messages they keep.
* `ReadPathProofs`: `StreamIsAnswer`, `VerdictIsEarned`, `TapAnswerIsWhole`, for any
  responses, number of pieces, failures and circuit. `Follows` says that a tap task without
  a failure has taken the events of one response in order, and so how many pieces came, and
  that those it has framed are these or all but the last;
  `Queue` who waits for the reconciler and at which place, so that the final text is the
  last thing queued (`ClosingSound`); `ReadSound` what `read()` knows at each of its places;
  `Told` that a stream is what the reconciler emitted unless its client has refused
  something, and `ReadSound` whose piece that can have been;
  `VerdictSound` and `TapSound` strengthen the properties. `Emits` is all the proof uses of
  the reconciler: an action that does not throw extends what was emitted by its delta, and
  the final one makes it the final text.
* `ServiceManagerProofs`: types, `RecordedApart`, `NothingLeftBehind`, `HostsInUseSpared`,
  for any concurrent callers of one control process, its deaths and those of what it
  spawned. None is inductive alone: a start plans an id, a port and a host, and records
  them steps later, while `list` drops records and stops hosts without the lock. `CallSound`
  says what a call at each stage has in hand and that it still agrees with the registry,
  `HostsRecorded` and `StoppersAnswer` what of it survives `list`, and `NamesAreBorn` that
  no identity is used before it is spawned. `ListSpares` is the case of a host that `list`
  reaps: the service of the record that names it has crashed, or was stopped by a call that
  has died, since the stop itself would still hold the lock and no start could be under way.
* `AgentContractProofs`: types with the attempt budget, `AcknowledgedIsKnown`,
  `PromptIsGrounded`, `RepairKeepsDecision`, for any sessions, budgets, room and failures of
  resets. The invariant adds that keys are fresh and distinct, so that a key that went astray
  is never given again (`KeysAreFresh`), that a working call holds its session's lane, and
  that what is acknowledged when a reminder goes out is what the call has said
  (`CallsAreInOrder`). That a repair is faithful rests on `ContinuousKeeps`: what the
  continuity check admits keeps action, tool and every argument without an error.

The assumptions are the named `ASSUME`s of the modules, which say what the code's
constructors enforce or that names are distinct.

Only model-checked: the liveness properties (the prover has no fairness), which are
`AcceptedSettles`, `CloseCompletes`, `OpensAgain`, `WaitersSettle`, `AbandonedRepliesEnd`,
`CallsEnd`, `TurnsEnd` and `ReadsSettle`. Every other property of a passing run is stated
by a theorem.

## 5. Finding

1. **The file lock does not exclude two live processes** (`FileLockTwo`). A process records
   a fingerprint of itself that no other process can compute, so its lock looks stale to
   every other and is removed. docs/CONTROL_PLANE.md:66 promises the opposite. The passing
   run of `FileLock` is therefore the one-process case: the promise that holds is exclusion
   among the calls of one process across its restarts.

## 6. Observations

What the code does that a reader of its docs might not expect, met while modelling. Each
is in the models as the code has it; the properties are stated so that they hold of it.

*Sessions and contracts*

1. `sweepIdle` filters by `awaitsToolResult` once and then removes sessions one by one,
   awaiting each (session-manager.ts:447-456): one that came to await a tool result meanwhile
   is removed, against README.md:306 and docs/CONTROL_PLANE.md:94. `PinnedWhileAwaiting` of
   `SessionManager` states what is broken; with it as a PROPERTY and `Calls <- Chats`, TLC
   shows how.
2. `reset()` renews the generation only when `executor.reset()` has resolved
   (session-manager.ts:331), and that may reject after the page has left the old chat
   (ui-executor.ts:228-234). The context key stays, and the next contract request sends an
   empty chat no more than what has changed, against docs/GATEWAY_LIFECYCLE_4.9.0.md:9.
   `ResetsInvalidate` of `AgentContract` states what is broken: TLC refutes it as an INVARIANT
   of `AgentContract.cfg`. The session recovers with its next key, by a reset that succeeds or
   a removal, or when its acknowledgement falls out of the bounded memory.
3. `removeSession` gives the startup tab back to the default session after awaiting a reset;
   a default request in that window opens a tab of its own, and `close()` closes one of them.
4. The circuit is shared by the sessions of a provider (docs/GATEWAY_LIFECYCLE_4.9.0.md),
   against README.md:14, 303 and 389: a session is turned away for another's failures.
5. An answer whose `tool_input` is missing, null or too large can never be repaired, nor
   one that names an undeclared tool: the continuity check (agent-contract.ts:742-747)
   admits no other input, and the tool may not change. The bare-result branch (733-739)
   is not reached for an exact result, which is wrapped first (validation.ts:54).

*Network transport*

6. Time-outs and lost connections of a fetch count as "reachable" and close the circuit;
   so do errors before anything was sent. An abort clears whatever half-open flag is set,
   also that of another call's probe, so a second probe may start while the first is out.
7. `applyState` may fail after every delta was passed on, with earlier paths written.
8. `joinSmart` trims each event, `mapResponseDeltas` does not: increments with blanks, or
   one that repeats the end of the text, stream otherwise than they complete, and the
   stream then ends in an error. `StreamIsContent` is about growing snapshots only, and
   not about the strategies "first" and "concat", which the deltas do not know of.
9. The tool rules are written into the last user or tool message, and are lost when the
   profile binds another prompt; a binding of `openai.messages` without the system
   messages counts as native and drops the system text.
10. Lines of length-framed JSON that do not parse are dropped without a word; the branch
    `|| body.functions` (network-executor.ts:93) is never decisive.

*UI transport*

11. An envelope inside an ordinary code fence becomes a call as soon as another envelope
    stands outside (tool-response.ts:204); a call in a `tool_call` fence beside an exact
    envelope stays text.
12. Retrying a one-message request appends a second copy of the user's turn
    (ui-executor.ts:287), so the next full history is refused as a conflict.
13. Several tool results without history lose all but the last (244); a request that
    appends two turns sends only the last.
14. The automatic reset branch is unreachable, as an incompatible history throws first;
    that the chat was told of tools is remembered only on success.
15. Pending calls that are never answered keep their session pinned. Clients that repeat
    the same text keep the old task's evidence; evidence is marked before submission.
16. After a reset a client asks an earlier turn again and does not get the answer, then goes
    on from the history it holds. `userTurnsAreCompatible` compares only the user's texts,
    and what the executor remembers keeps it from telling anything again (ui-history.ts:144):
    the chat answers without having seen the old answer, though CHANGELOG.md:328 promises
    that delta-only prompts lose no context. `ContextKnown` excludes these clients
    (`client.strayed` once the chat was left); without that, and with the request `rewind`, a single talker of
    4 requests, a reset and a mishap refutes it.

21. Between the last look at the composer (ui-interaction.ts:401) and the click (417) there
    are up to 2.5 seconds of awaits. What the editor changes then is sent and not noticed.

*Streams and services*

17. The buffer test of an error frame is `< 4 MiB`: with the buffer exactly full the error
    is not told. The last frame of the Responses protocol repeats the text about six times,
    so some 0.7 MB of text cannot be streamed however fast the reader.
18. After a refused delta the queue of the reader may still offer later ones.
19. `stopAll` drops dead records (446) before the orphan reaper looks for their hosts
    (454), so a host whose service has died may stay; docs/CONTROL_PLANE.md:84 promises
    otherwise. `profiles.remove` compares an id that was not normalised.
20. `list()` does not take the lifecycle lock (247). When the service a start found on a
    host dies before the start is recorded, a `list()` in between takes the host as
    orphaned and stops it under the service that is being started on it.

## 7. Not modelled

* **Browser host, control server, control CLI, native Chrome, runtime factory**: process
  launch and JSON-RPC over a socket, I/O around `ServiceManager` and `SessionManager`.
* **The DOM** and everything Playwright does inside a page; `ChatPage` and `ReadPath` say
  what is taken from it. Browser automation beyond the lifetime of its page.
* **Discovery and scoring** of captured traffic, request templates, conversion of requests
  and of non-streamed replies between API formats: pure functions of documents.
* **Structured output, attachments, artifacts**, the words by which a task is classified.
* **CLI shutdown**: a fixed sequence of awaits around `close()`; **MCP, gateway, plugins**:
  forwarding and module loading; **telemetry, tracing, logging**: nothing reads them back;
  **security helpers**: predicates on strings.
* Launch modes other than the shared context; two control processes over one registry,
  which finding 1 leaves without exclusion; legacy `function_call` frames; lock records of
  releases without fingerprints; the registries' cache by modification time; health checks of `list()`.

`PROJECT.json` gives the status of each component.

## 8. Plan

1. The browser lifecycle and the order of shutdown around `SessionManager.close`.
