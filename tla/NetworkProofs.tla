---------------------------- MODULE NetworkProofs ----------------------------
(***************************************************************************)
(* What reads the provider's network, for any calls, requests and bounds.  *)
(*                                                                         *)
(* The executor.  The breaker's two invariants, for any calls, sessions    *)
(* and threshold; with the types they are inductive.  Then the executors   *)
(* keep them, and a conversation continues from its last answer, for any   *)
(* replies and bounds too.  The argument is the serial lane: a call under  *)
(* way asked last in its session and nobody was told of its end, so what   *)
(* it writes cannot come between earlier prompts.  What a reply streams is *)
(* compared text by text with what its texts are joined to.                *)
(*                                                                         *)
(* The tap.  A turn follows a sound match, and its queue is a TapFeed.     *)
(* The argument is a relation of the tap and the wire that every handler   *)
(* keeps: what the reader has, with what waits for Chrome's answer, is     *)
(* what the provider has sent.                                             *)
(***************************************************************************)
EXTENDS NetworkExecutor, TapStream, SequenceTheorems, WellFoundedInduction, TLAPS

-----------------------------------------------------------------------------
(* CircuitBreaker *)

IInv == TypeOK /\ OpenIffThreshold /\ ProbeIsInFlight

LEMMA Initially == Init => IInv
<1> SUFFICES ASSUME Init PROVE IInv
  OBVIOUS
<1>1. TypeOK
  BY DEF Init, TypeOK, CallState
<1>2. OpenIffThreshold /\ ProbeIsInFlight
  BY ThresholdAssumption DEF Init, OpenIffThreshold, ProbeIsInFlight
<1> QED BY <1>1, <1>2 DEF IInv

LEMMA Inductive == IInv /\ [Next]_vars => IInv'
<1> SUFFICES ASSUME IInv, [Next]_vars PROVE IInv'
  OBVIOUS
<1> USE ThresholdAssumption DEF IInv, TypeOK, CallState
<1>1. ASSUME NEW c \in Calls, Reject(c) PROVE IInv'
  <2>1. TypeOK' /\ OpenIffThreshold'
    BY <1>1 DEF Reject, Becomes, OpenIffThreshold
  <2>2. ASSUME halfOpenProbe PROVE \E d \in Calls : call'[d] = "probe"
    <3>1. PICK d \in Calls : call[d] = "probe"
      BY <2>2 DEF ProbeIsInFlight
    <3>2. call'[d] = "probe"
      BY <1>1, <3>1 DEF Reject, Ready, Becomes
    <3> QED BY <3>2
  <2> QED BY <1>1, <2>1, <2>2 DEF Reject, ProbeIsInFlight
<1>2. ASSUME NEW c \in Calls, Dispatch(c) PROVE IInv'
  <2>1. TypeOK' /\ OpenIffThreshold'
    BY <1>2 DEF Dispatch, Becomes, OpenIffThreshold
  <2>2. ASSUME halfOpenProbe PROVE \E d \in Calls : call'[d] = "probe"
    <3>1. PICK d \in Calls : call[d] = "probe"
      BY <2>2 DEF ProbeIsInFlight
    <3>2. call'[d] = "probe"
      BY <1>2, <3>1 DEF Dispatch, Ready, Becomes
    <3> QED BY <3>2
  <2> QED BY <1>2, <2>1, <2>2 DEF Dispatch, ProbeIsInFlight
<1>3. ASSUME NEW c \in Calls, Probe(c) PROVE IInv'
  <2>1. TypeOK' /\ OpenIffThreshold'
    BY <1>3 DEF Probe, Becomes, OpenIffThreshold
  <2>2. call'[c] = "probe" /\ openUntil' # "closed"
    BY <1>3 DEF Probe, Becomes
  <2> QED BY <2>1, <2>2 DEF ProbeIsInFlight
<1>4. ASSUME NEW c \in Calls, Answered(c) PROVE IInv'
  <2>1. TypeOK'
    BY <1>4 DEF Answered, Becomes
  <2>2. OpenIffThreshold' /\ ~halfOpenProbe'
    BY <1>4 DEF Answered, OpenIffThreshold
  <2> QED BY <2>1, <2>2 DEF ProbeIsInFlight
<1>5. ASSUME NEW c \in Calls, Fails(c) PROVE IInv'
  <2>1. TypeOK'
    <3>1. call' \in [Calls -> CallState] /\ blamed' \subseteq Calls
      BY <1>5 DEF Fails, Becomes
    <3>2. consecutiveFailures' = consecutiveFailures + 1 /\ halfOpenProbe' = FALSE
      BY <1>5 DEF Fails
    <3>3. openUntil' \in {"closed", "cooling", "expired"}
      BY <1>5 DEF Fails
    <3>4. consecutiveFailures' \in Nat
      BY <3>2
    <3>5. halfOpenProbe' \in BOOLEAN
      BY <3>2, Zenon
    <3> QED BY <3>1, <3>3, <3>4, <3>5
  <2>2. OpenIffThreshold' /\ ~halfOpenProbe'
    BY <1>5 DEF Fails, OpenIffThreshold
  <2> QED BY <2>1, <2>2 DEF ProbeIsInFlight
<1>6. ASSUME NEW c \in Calls, Aborted(c) PROVE IInv'
  BY <1>6 DEF Aborted, Becomes, OpenIffThreshold, ProbeIsInFlight
<1>7. CASE CoolDown
  <2>1. TypeOK' /\ OpenIffThreshold'
    BY <1>7 DEF CoolDown, OpenIffThreshold
  <2>2. ProbeIsInFlight'
    BY <1>7 DEF CoolDown, ProbeIsInFlight
  <2> QED BY <2>1, <2>2
<1>8. CASE UNCHANGED vars
  <2>1. TypeOK' /\ OpenIffThreshold'
    BY <1>8 DEF vars, OpenIffThreshold
  <2>2. ProbeIsInFlight'
    BY <1>8 DEF vars, ProbeIsInFlight
  <2> QED BY <2>1, <2>2
<1> QED BY <1>1, <1>2, <1>3, <1>4, <1>5, <1>6, <1>7, <1>8 DEF Next, Settles

\* Every reachable state has the types of the state's declarations.
THEOREM TypeCorrectness == Spec => []TypeOK
<1>1. IInv => TypeOK
  BY DEF IInv
<1> QED BY Initially, Inductive, <1>1, PTL DEF Spec

\* Open exactly when the threshold was reached with no answer since
\* (recordSuccess, recordReachable, recordFailure, the abort path of execute).
THEOREM OpenMeansThreshold == Spec => []OpenIffThreshold
<1>1. IInv => OpenIffThreshold
  BY DEF IInv
<1> QED BY Initially, Inductive, <1>1, PTL DEF Spec

\* The half-open flag never outlives its probe (execute, line 81-107).
THEOREM ProbeFlagIsHeld == Spec => []ProbeIsInFlight
<1>1. IInv => ProbeIsInFlight
  BY DEF IInv
<1> QED BY Initially, Inductive, <1>1, PTL DEF Spec

-----------------------------------------------------------------------------
(* NetworkExecutor: the inductive invariant *)

Stages == {"off", "thrown", "fetching", "reading", "streaming"}
Posted == {"fetching", "reading", "streaming"}
Given == {"result", "torn"}
Asks == UNION {asks[c] : c \in Calls}
Turns == [stage : Stages, hops : Nat, token : Nat, passed : Nat,
          ask : Asks \union {None}, reply : Replies \union {None}]
States == [Paths -> Calls \union {None}]
Prompts == [by : Calls, after : States]

NetTypes ==
  /\ call \in [Calls -> CallState]
  /\ turn \in [Calls -> Turns]
  /\ base \in [Sessions -> States]
  /\ held \in [Sessions -> Nat]
  /\ issued \in [Sessions -> Nat]
  /\ asked \in [Sessions -> Seq(Prompts)]
  /\ ended \in [Calls -> {"no", "result", "torn", "error", "aborted"}]
  /\ wrote \in [Calls -> SUBSET Paths]

\* A call with a turn is in flight and has told nothing, and it is alone in its session.
LanesAreSerial ==
  /\ \A c \in Calls : turn[c].stage # "off" => InFlight(c) /\ ended[c] = "no"
  /\ \A c \in Calls : call[c] = "new" => ended[c] = "no"
  /\ \A c, d \in Calls : InFlight(c) /\ InFlight(d) /\ sessionOf[c] = sessionOf[d] => c = d

\* A prompt is of a call of its session, and the call under way has asked last.
PromptsAreOfCalls ==
  \A s \in Sessions : \A i \in DOMAIN asked[s] :
    LET c == asked[s][i].by
    IN  sessionOf[c] = s /\ call[c] # "new" /\ (turn[c].stage # "off" => i = Len(asked[s]))
LastHasAsked ==
  \A c \in Calls : turn[c].stage \in Posted =>
    LET s == sessionOf[c]
    IN  Len(asked[s]) \in DOMAIN asked[s] /\ asked[s][Len(asked[s])].by = c

\* The state of an adapter is from an answer that was given, and from none older than
\* an answer that wrote it.
BaseIsGiven ==
  \A s \in Sessions, p \in Paths :
    /\ base[s][p] # None =>
         /\ \E i \in DOMAIN asked[s] : asked[s][i].by = base[s][p]
         /\ ended[base[s][p]] \in Given
    /\ \A i \in DOMAIN asked[s] : p \in wrote[asked[s][i].by] =>
         \E k \in i..Len(asked[s]) : asked[s][k].by = base[s][p]

\* A prompt carries no state but of answers that were given, and none older than an
\* answer that wrote it.
StateIsGiven ==
  \A s \in Sessions : \A j \in DOMAIN asked[s] : \A p \in Paths :
    LET from == asked[s][j].after[p]
        before == {asked[s][i].by : i \in 1..(j - 1)}
    IN  /\ from # None => from \in before /\ ended[from] \in {"result", "torn"}
        /\ \A i \in 1..(j - 1) :
             p \in wrote[asked[s][i].by] => from \in {asked[s][k].by : k \in i..(j - 1)}

\* Only a response that an abort threw away leaves a client behind.
HeadersAreNewest ==
  /\ \A c \in Calls : At(c, "fetching") => turn[c].token = held[sessionOf[c]]
  /\ \A s \in Sessions : held[s] # issued[s] =>
       \E c \in Calls : sessionOf[c] = s /\ ended[c] = "aborted"

WritersTold == \A c \in Calls : ended[c] = "no" => wrote[c] = {}
DriftersAborted == \A c \in adrift : c \in Calls /\ ended[c] = "aborted"

NetInv ==
  /\ NetTypes
  /\ LanesAreSerial
  /\ PromptsAreOfCalls
  /\ LastHasAsked
  /\ BaseIsGiven
  /\ StateIsGiven
  /\ WritersTold
  /\ DriftersAborted
  /\ HeadersAreNewest

-----------------------------------------------------------------------------
(* The breaker: a step of an executor is a step of the breaker, or none. *)

LEMMA BreakerStep == [NetNext]_netVars => [Next]_vars
<1> SUFFICES ASSUME [NetNext]_netVars PROVE [Next]_vars
  OBVIOUS
<1>1. ASSUME NEW c \in Calls, Refused(c) \/ Start(c) PROVE Next
  BY <1>1 DEF Refused, Start, Next
<1>2. ASSUME NEW c \in Calls, Executes(c) PROVE [Next]_vars
  <2>1. CASE Follows(c) \/ Responds(c) \/ Passes(c)
    BY <2>1 DEF Follows, Responds, Passes
  <2>2. CASE Unusable(c) \/ Unavailable(c) \/ Errs(c) \/ IsRefused(c) \/ Finishes(c) \/ Abandons(c)
    BY <2>2 DEF Unusable, Unavailable, Errs, IsRefused, Finishes, Abandons, Next, Settles
  <2>3. CASE Reads(c)
    <3>1. Answered(c) \/ UNCHANGED vars
      BY <2>3 DEF Reads
    <3> QED BY <3>1 DEF Next, Settles
  <2> QED BY <1>2, <2>1, <2>2, <2>3 DEF Executes
<1>3. ASSUME NEW c \in Calls, IsDisposed(c) PROVE UNCHANGED vars
  BY <1>3 DEF IsDisposed
<1>4. CASE CoolDown
  BY <1>4 DEF Next
<1>5. CASE UNCHANGED netVars
  BY <1>5 DEF netVars
<1> QED BY <1>1, <1>2, <1>3, <1>4, <1>5 DEF NetNext

\* The executors of a provider drive its circuit as ResilientChatExecutor does
\* (resilient-executor.ts:79-180 around network-executor.ts:60-141).
THEOREM ImplementsBreaker == NetSpec => Spec
<1>1. NetInit => Init
  BY DEF NetInit
<1> QED BY <1>1, BreakerStep, PTL DEF NetSpec, Spec

\* Under the executors too, the circuit is open exactly past its threshold
\* (resilient-executor.ts:154-180).
THEOREM ExecutorsOpenAtThreshold == NetSpec => []OpenIffThreshold
BY ImplementsBreaker, OpenMeansThreshold, PTL

\* And its half-open flag never outlives the probe (resilient-executor.ts:81-107).
THEOREM ExecutorsHoldProbe == NetSpec => []ProbeIsInFlight
BY ImplementsBreaker, ProbeFlagIsHeld, PTL
-----------------------------------------------------------------------------
(* What a step of a call does to its turn. *)

OnlyTurn(c) == \A d \in Calls : d # c => turn'[d] = turn[d]
OnlyEnd(c) == \A d \in Calls : d # c => ended'[d] = ended[d]

LEMMA StageTurn ==
  ASSUME turn \in [Calls -> Turns], NEW c \in Calls, NEW stage \in Stages,
         turn' = [turn EXCEPT ![c].stage = stage]
  PROVE  turn' \in [Calls -> Turns] /\ OnlyTurn(c) /\ turn'[c].stage = stage
BY DEF Turns, OnlyTurn

LEMMA FetchTurn ==
  ASSUME turn \in [Calls -> Turns], NEW c \in Calls, NEW token \in Nat, NEW r \in Asks,
         turn' = [turn EXCEPT ![c].stage = "fetching", ![c].token = token, ![c].ask = r]
  PROVE  /\ turn' \in [Calls -> Turns] /\ OnlyTurn(c)
         /\ turn'[c].stage = "fetching" /\ turn'[c].token = token
<1> DEFINE t == [turn[c] EXCEPT !.stage = "fetching", !.token = token, !.ask = r]
<1>1. t \in Turns /\ t.stage = "fetching" /\ t.token = token
  <2>1. turn[c] \in Turns /\ "fetching" \in Stages
    BY DEF Stages
  <2> QED BY <2>1 DEF Turns
<1>2. turn' = [turn EXCEPT ![c] = t]
  OBVIOUS
<1> HIDE DEF t
<1> QED BY <1>1, <1>2 DEF OnlyTurn

LEMMA HopTurn ==
  ASSUME turn \in [Calls -> Turns], NEW c \in Calls, NEW token \in Nat,
         turn' = [turn EXCEPT ![c].hops = @ + 1, ![c].token = token]
  PROVE  /\ turn' \in [Calls -> Turns] /\ OnlyTurn(c)
         /\ turn'[c].stage = turn[c].stage /\ turn'[c].token = token
<1> DEFINE r == [turn[c] EXCEPT !.hops = @ + 1, !.token = token]
<1>1. turn[c].hops + 1 \in Nat
  BY DEF Turns
<1>2. r \in Turns /\ r.stage = turn[c].stage /\ r.token = token
  BY <1>1 DEF Turns
<1>3. turn' = [turn EXCEPT ![c] = r]
  OBVIOUS
<1> QED BY <1>2, <1>3 DEF OnlyTurn

LEMMA ReadingTurn ==
  ASSUME turn \in [Calls -> Turns], NEW c \in Calls,
         turn' = [turn EXCEPT ![c] = [@ EXCEPT !.stage = "reading", !.hops = 0, !.token = 0]]
  PROVE  turn' \in [Calls -> Turns] /\ OnlyTurn(c) /\ turn'[c].stage = "reading"
BY DEF Turns, Stages, OnlyTurn

LEMMA StreamingTurn ==
  ASSUME turn \in [Calls -> Turns], NEW c \in Calls, NEW reply \in Replies,
         turn' = [turn EXCEPT ![c].stage = "streaming", ![c].reply = reply]
  PROVE  turn' \in [Calls -> Turns] /\ OnlyTurn(c) /\ turn'[c].stage = "streaming"
BY DEF Turns, Stages, OnlyTurn

LEMMA PassingTurn ==
  ASSUME turn \in [Calls -> Turns], NEW c \in Calls,
         turn' = [turn EXCEPT ![c].passed = @ + 1]
  PROVE  turn' \in [Calls -> Turns] /\ OnlyTurn(c) /\ turn'[c].stage = turn[c].stage
BY DEF Turns, Stages, OnlyTurn

LEMMA OffTurn ==
  ASSUME turn \in [Calls -> Turns], NEW c \in Calls, turn' = [turn EXCEPT ![c] = Off]
  PROVE  turn' \in [Calls -> Turns] /\ OnlyTurn(c) /\ turn'[c].stage = "off"
BY DEF Turns, Stages, OnlyTurn, Off

LEMMA Telling ==
  ASSUME NetTypes, NEW c \in Calls, NEW what \in {"no", "result", "torn", "error", "aborted"},
         Tells(c, what)
  PROVE  /\ turn' \in [Calls -> Turns] /\ OnlyTurn(c) /\ turn'[c].stage = "off"
         /\ ended' \in [Calls -> {"no", "result", "torn", "error", "aborted"}]
         /\ OnlyEnd(c) /\ ended'[c] = what /\ asked' = asked
<1>1. turn' \in [Calls -> Turns] /\ OnlyTurn(c) /\ turn'[c].stage = "off"
  BY OffTurn DEF Tells, NetTypes
<1>2. /\ ended' \in [Calls -> {"no", "result", "torn", "error", "aborted"}]
      /\ OnlyEnd(c) /\ ended'[c] = what /\ asked' = asked
  BY DEF Tells, NetTypes, OnlyEnd
<1> QED BY <1>1, <1>2

LEMMA Merging ==
  ASSUME NetTypes, NEW s \in Sessions, Merged(s)
  PROVE  /\ held' \in [Sessions -> Nat] /\ issued' \in [Sessions -> Nat]
         /\ \A t \in Sessions : t # s => held'[t] = held[t] /\ issued'[t] = issued[t]
         /\ (held'[s] = held[s] /\ issued'[s] = issued[s]) \/ held'[s] = issued'[s]
<1>1. CASE UNCHANGED <<held, issued>>
  BY <1>1 DEF NetTypes
<1>2. CASE /\ issued' = [issued EXCEPT ![s] = @ + 1]
           /\ held' = [held EXCEPT ![s] = issued'[s]]
  <2>1. issued[s] + 1 \in Nat
    BY DEF NetTypes
  <2>2. issued' \in [Sessions -> Nat] /\ \A t \in Sessions : t # s => issued'[t] = issued[t]
    BY <1>2, <2>1 DEF NetTypes
  <2>3. issued'[s] \in Nat
    BY <2>2
  <2>4. /\ held' \in [Sessions -> Nat] /\ held'[s] = issued'[s]
        /\ \A t \in Sessions : t # s => held'[t] = held[t]
    BY <1>2, <2>3 DEF NetTypes
  <2> QED BY <2>2, <2>4
<1> QED BY <1>1, <1>2 DEF Merged

LEMMA PromptTypes ==
  ASSUME NetTypes, NEW s \in Sessions, NEW i \in DOMAIN asked[s]
  PROVE  asked[s][i].by \in Calls /\ asked[s][i].after \in States
<1>1. asked[s] \in Seq(Prompts)
  BY DEF NetTypes
<1>2. asked[s][i] \in Prompts
  BY <1>1
<1> QED BY <1>2 DEF Prompts

LEMMA SessionOfCall == \A c \in Calls : sessionOf[c] \in Sessions
BY SessionsAssumption

-----------------------------------------------------------------------------
(* The parts of the invariant, by what they depend on. *)

\* What a step does that settles c, or leaves it in flight.
Settled(c) == call' = [call EXCEPT ![c] = "done"] /\ turn'[c].stage = "off"
Going(c) ==
  /\ UNCHANGED <<call, ended>>
  /\ turn[c].stage # "off"
  /\ turn[c].stage = "thrown" => turn'[c].stage = "thrown"

LEMMA SettledLanes ==
  ASSUME NetTypes, LanesAreSerial, PromptsAreOfCalls, LastHasAsked, NEW c \in Calls,
         Settled(c), OnlyTurn(c), OnlyEnd(c), asked' = asked, InFlight(c)
  PROVE  call' \in [Calls -> CallState]
         /\ LanesAreSerial' /\ PromptsAreOfCalls' /\ LastHasAsked'
<1>1. \A d \in Calls : d # c => call'[d] = call[d] /\ turn'[d] = turn[d] /\ ended'[d] = ended[d]
  BY DEF NetTypes, Settled, OnlyTurn, OnlyEnd
<1>2. call'[c] = "done" /\ turn'[c].stage = "off" /\ call' \in [Calls -> CallState]
  BY DEF NetTypes, Settled, CallState
<1>3. LanesAreSerial'
  <2>1. \A d \in Calls : InFlight(d)' => d # c /\ InFlight(d)
    BY <1>1, <1>2 DEF InFlight
  <2>2. \A d \in Calls : turn'[d].stage # "off" => InFlight(d)' /\ ended'[d] = "no"
    BY <1>1, <1>2 DEF LanesAreSerial, InFlight
  <2>3. \A d \in Calls : call'[d] = "new" => ended'[d] = "no"
    BY <1>1, <1>2 DEF LanesAreSerial
  <2>4. \A d, e \in Calls : InFlight(d)' /\ InFlight(e)' /\ sessionOf[d] = sessionOf[e] => d = e
    BY <2>1 DEF LanesAreSerial
  <2> QED BY <2>2, <2>3, <2>4 DEF LanesAreSerial
<1>4. PromptsAreOfCalls'
  <2> SUFFICES ASSUME NEW s \in Sessions, NEW i \in DOMAIN asked[s]
               PROVE  LET d == asked[s][i].by
                      IN  sessionOf[d] = s /\ call'[d] # "new"
                          /\ (turn'[d].stage # "off" => i = Len(asked[s]))
    BY DEF PromptsAreOfCalls
  <2>1. asked[s][i].by \in Calls
    BY PromptTypes
  <2> QED BY <1>1, <1>2, <2>1 DEF PromptsAreOfCalls
<1>5. LastHasAsked'
  BY <1>1, <1>2, SessionOfCall DEF LastHasAsked, Posted
<1> QED BY <1>2, <1>3, <1>4, <1>5

LEMMA GoingLanes ==
  ASSUME NetTypes, LanesAreSerial, PromptsAreOfCalls, LastHasAsked, NEW c \in Calls,
         Going(c), OnlyTurn(c), turn' \in [Calls -> Turns], asked' = asked
  PROVE  LanesAreSerial' /\ PromptsAreOfCalls' /\ LastHasAsked'
<1>1. \A d \in Calls : turn'[d].stage # "off" => turn[d].stage # "off"
  BY DEF Going, OnlyTurn
<1>2. \A d \in Calls : turn'[d].stage \in Posted => turn[d].stage \in Posted
  <2>1. turn[c].stage \in Stages /\ turn'[c].stage \in Stages
    BY DEF NetTypes, Turns
  <2> QED BY <2>1 DEF Going, OnlyTurn, Posted, Stages
<1>3. LanesAreSerial'
  <2>1. call' = call /\ ended' = ended
    BY DEF Going
  <2> QED BY <1>1, <2>1 DEF LanesAreSerial, InFlight
<1>4. PromptsAreOfCalls'
  <2>1. \A s \in Sessions : \A i \in DOMAIN asked[s] : asked[s][i].by \in Calls
    BY PromptTypes
  <2>2. call' = call
    BY DEF Going
  <2> QED BY <1>1, <2>1, <2>2 DEF PromptsAreOfCalls
<1>5. LastHasAsked'
  BY <1>2 DEF LastHasAsked
<1> QED BY <1>3, <1>4, <1>5

\* Nothing is written, and what was given stays given.
LEMMA StateKept ==
  ASSUME NetTypes, BaseIsGiven, StateIsGiven,
         asked' = asked, base' = base, wrote' = wrote,
         \A d \in Calls : ended[d] \in Given => ended'[d] = ended[d]
  PROVE  BaseIsGiven' /\ StateIsGiven'
<1>1. BaseIsGiven'
  <2> SUFFICES ASSUME NEW s \in Sessions, NEW p \in Paths, base[s][p] # None
               PROVE  ended'[base[s][p]] \in Given
    BY DEF BaseIsGiven
  <2>1. base[s][p] \in Calls
    BY DEF NetTypes, States
  <2> QED BY <2>1 DEF BaseIsGiven
<1>2. StateIsGiven'
  <2> SUFFICES ASSUME NEW s \in Sessions, NEW j \in DOMAIN asked[s], NEW p \in Paths,
                      asked[s][j].after[p] # None
               PROVE  ended'[asked[s][j].after[p]] \in {"result", "torn"}
    BY DEF StateIsGiven
  <2>1. asked[s][j].after[p] \in Calls
    BY PromptTypes DEF States
  <2>2. ended[asked[s][j].after[p]] \in {"result", "torn"}
    BY DEF StateIsGiven
  <2> QED BY <2>1, <2>2 DEF Given
<1> QED BY <1>1, <1>2

\* A step of c keeps the headers, when it sends those of the client.
LEMMA HeadersKept ==
  ASSUME NetTypes, HeadersAreNewest, NEW c \in Calls, OnlyTurn(c),
         held' = held, issued' = issued,
         turn'[c].stage = "fetching" => turn[c].stage = "fetching" /\ turn'[c].token = turn[c].token,
         \A d \in Calls : ended[d] = "aborted" => ended'[d] = "aborted"
  PROVE  HeadersAreNewest'
<1>1. \A d \in Calls : At(d, "fetching")' => turn'[d].token = held'[sessionOf[d]]
  BY DEF HeadersAreNewest, OnlyTurn, At
<1>2. \A s \in Sessions : held'[s] # issued'[s] =>
        \E d \in Calls : sessionOf[d] = s /\ ended'[d] = "aborted"
  BY DEF HeadersAreNewest
<1> QED BY <1>1, <1>2 DEF HeadersAreNewest

LEMMA HeadersMerged ==
  ASSUME NetTypes, LanesAreSerial, HeadersAreNewest, NEW c \in Calls, OnlyTurn(c),
         At(c, "fetching"), Merged(sessionOf[c]),
         turn'[c].stage = "fetching" => turn'[c].token = held'[sessionOf[c]],
         \A d \in Calls : ended[d] = "aborted" => ended'[d] = "aborted"
  PROVE  HeadersAreNewest'
<1> DEFINE t == sessionOf[c]
<1>0. t \in Sessions /\ \A d \in Calls : sessionOf[d] \in Sessions
  BY SessionOfCall
<1>1. \A d \in Calls : At(d, "fetching")' => turn'[d].token = held'[sessionOf[d]]
  <2> SUFFICES ASSUME NEW d \in Calls, At(d, "fetching")', d # c
               PROVE  turn'[d].token = held'[sessionOf[d]]
    BY DEF At
  <2>1. At(d, "fetching") /\ turn'[d].token = turn[d].token
    BY DEF OnlyTurn, At
  <2>2. InFlight(c) /\ InFlight(d)
    BY <2>1 DEF LanesAreSerial, At
  <2>3. sessionOf[d] # t
    BY <2>2 DEF LanesAreSerial
  <2>4. held'[sessionOf[d]] = held[sessionOf[d]]
    BY <1>0, <2>3, Merging
  <2> QED BY <2>1, <2>4 DEF HeadersAreNewest
<1>2. \A s \in Sessions : held'[s] # issued'[s] =>
        \E d \in Calls : sessionOf[d] = s /\ ended'[d] = "aborted"
  <2>1. \A s \in Sessions : held'[s] # issued'[s] => held[s] # issued[s]
    BY <1>0, Merging
  <2> QED BY <2>1 DEF HeadersAreNewest
<1> QED BY <1>1, <1>2 DEF HeadersAreNewest

-----------------------------------------------------------------------------
(* The steps. *)

LEMMA NetInitially == NetInit => NetInv
<1> SUFFICES ASSUME NetInit PROVE NetInv
  OBVIOUS
<1> USE DEF NetInit
<1>1. NetTypes
  <2>1. call \in [Calls -> CallState]
    BY DEF Init, CallState
  <2>2. Off \in Turns
    BY DEF Off, Turns, Stages
  <2>3. \A s \in Sessions : base[s] \in States
    BY DEF States
  <2>4. base \in [Sessions -> States]
    BY <2>3
  <2>5. <<>> \in Seq(Prompts)
    OBVIOUS
  <2> QED BY <2>1, <2>2, <2>4, <2>5 DEF NetTypes
<1>2. LanesAreSerial /\ LastHasAsked
  BY DEF Init, InFlight, Off, LanesAreSerial, LastHasAsked, Posted
<1>3. PromptsAreOfCalls /\ BaseIsGiven /\ StateIsGiven
  BY DEF PromptsAreOfCalls, BaseIsGiven, StateIsGiven
<1>4. WritersTold /\ DriftersAborted /\ HeadersAreNewest
  BY DEF WritersTold, DriftersAborted, HeadersAreNewest, At, Off
<1> QED BY <1>1, <1>2, <1>3, <1>4 DEF NetInv

\* What a step of c may do to the headers.
HeadersOf(c) ==
  \/ /\ UNCHANGED <<held, issued>>
     /\ turn'[c].stage = "fetching" =>
          turn[c].stage = "fetching" /\ turn'[c].token = turn[c].token
  \/ /\ At(c, "fetching")
     /\ Merged(sessionOf[c])
     /\ turn'[c].stage = "fetching" => turn'[c].token = held'[sessionOf[c]]

LEMMA HeadersStay ==
  ASSUME NetInv, NEW c \in Calls, OnlyTurn(c), HeadersOf(c),
         \A d \in Calls : ended[d] = "aborted" => ended'[d] = "aborted"
  PROVE  HeadersAreNewest' /\ held' \in [Sessions -> Nat] /\ issued' \in [Sessions -> Nat]
<1>1. HeadersAreNewest'
  BY HeadersKept, HeadersMerged DEF NetInv, HeadersOf
<1>2. held' \in [Sessions -> Nat] /\ issued' \in [Sessions -> Nat]
  BY Merging, SessionOfCall DEF NetInv, NetTypes, HeadersOf
<1> QED BY <1>1, <1>2

\* A call that goes on.
LEMMA GoesOn ==
  ASSUME NetInv, NEW c \in Calls, Going(c), OnlyTurn(c), turn' \in [Calls -> Turns],
         HeadersOf(c), UNCHANGED <<base, adrift, asked, wrote>>
  PROVE  NetInv'
<1>1. ended' = ended /\ call' = call
  BY DEF Going
<1>2. HeadersAreNewest' /\ held' \in [Sessions -> Nat] /\ issued' \in [Sessions -> Nat]
  BY <1>1, HeadersStay
<1>3. NetTypes'
  BY <1>1, <1>2 DEF NetInv, NetTypes
<1>4. LanesAreSerial' /\ PromptsAreOfCalls' /\ LastHasAsked'
  BY GoingLanes DEF NetInv
<1>5. BaseIsGiven' /\ StateIsGiven'
  BY <1>1, StateKept DEF NetInv
<1>6. WritersTold' /\ DriftersAborted'
  BY <1>1 DEF NetInv, WritersTold, DriftersAborted
<1> QED BY <1>2, <1>3, <1>4, <1>5, <1>6 DEF NetInv

\* The end of a call, whatever it does to the state of its adapter.
LEMMA EndsLanes ==
  ASSUME NetInv, NEW c \in Calls, turn[c].stage # "off", Settles(c),
         NEW what \in {"result", "torn", "error", "aborted"}, Tells(c, what),
         (UNCHANGED <<held, issued>>) \/ (At(c, "fetching") /\ Merged(sessionOf[c])),
         adrift' \subseteq adrift \union (IF what = "aborted" THEN {c} ELSE {}),
         base' \in [Sessions -> States], wrote' \in [Calls -> SUBSET Paths]
  PROVE  /\ NetTypes' /\ LanesAreSerial' /\ PromptsAreOfCalls' /\ LastHasAsked'
         /\ DriftersAborted' /\ HeadersAreNewest'
         /\ asked' = asked /\ ended'[c] = what
         /\ \A d \in Calls : d # c => ended'[d] = ended[d]
         /\ \A d \in Calls : ended[d] # "no" => ended'[d] = ended[d]
<1>1. NetTypes /\ LanesAreSerial /\ InFlight(c) /\ ended[c] = "no"
  BY DEF NetInv, LanesAreSerial
<1>2. /\ turn' \in [Calls -> Turns] /\ OnlyTurn(c) /\ turn'[c].stage = "off"
      /\ ended' \in [Calls -> {"no", "result", "torn", "error", "aborted"}]
      /\ OnlyEnd(c) /\ ended'[c] = what /\ asked' = asked
  BY <1>1, Telling
<1>3. \A d \in Calls : ended[d] # "no" => ended'[d] = ended[d]
  BY <1>1, <1>2 DEF OnlyEnd
<1>4. Settled(c)
  BY <1>2 DEF Settles, Answered, Fails, Aborted, Becomes, Settled
<1>5. /\ call' \in [Calls -> CallState]
      /\ LanesAreSerial' /\ PromptsAreOfCalls' /\ LastHasAsked'
  BY <1>1, <1>2, <1>4, SettledLanes DEF NetInv
<1>6. HeadersAreNewest' /\ held' \in [Sessions -> Nat] /\ issued' \in [Sessions -> Nat]
  <2>1. HeadersOf(c)
    BY <1>2 DEF HeadersOf
  <2> QED BY <1>2, <1>3, <2>1, HeadersStay
<1>7. DriftersAborted'
  <2> SUFFICES ASSUME NEW d \in adrift' PROVE d \in Calls /\ ended'[d] = "aborted"
    BY DEF DriftersAborted
  <2>1. CASE d \in adrift
    BY <1>3, <2>1 DEF NetInv, DriftersAborted
  <2>2. CASE what = "aborted" /\ d = c
    BY <1>2, <2>2
  <2> QED BY <2>1, <2>2
<1>8. NetTypes'
  <2>1. asked' \in [Sessions -> Seq(Prompts)]
    BY <1>1, <1>2 DEF NetTypes
  <2> QED BY <1>2, <1>5, <1>6, <2>1 DEF NetTypes
<1> QED BY <1>2, <1>3, <1>5, <1>6, <1>7, <1>8 DEF OnlyEnd

\* A call that ends without an answer leaves the adapter alone.
LEMMA EndsInVain ==
  ASSUME NetInv, NEW c \in Calls, turn[c].stage # "off", Settles(c),
         NEW what \in {"error", "aborted"}, Tells(c, what),
         (UNCHANGED <<held, issued>>) \/ (At(c, "fetching") /\ Merged(sessionOf[c])),
         adrift' \subseteq adrift \union (IF what = "aborted" THEN {c} ELSE {}),
         UNCHANGED <<base, wrote>>
  PROVE  NetInv'
<1>0. NetTypes /\ base' \in [Sessions -> States] /\ wrote' \in [Calls -> SUBSET Paths]
  BY DEF NetInv, NetTypes
<1>1. /\ NetTypes' /\ LanesAreSerial' /\ PromptsAreOfCalls' /\ LastHasAsked'
      /\ DriftersAborted' /\ HeadersAreNewest' /\ asked' = asked
      /\ \A d \in Calls : ended[d] # "no" => ended'[d] = ended[d]
  BY <1>0, EndsLanes
<1>2. \A d \in Calls : ended[d] \in Given => ended'[d] = ended[d]
  BY <1>1 DEF Given
<1>3. BaseIsGiven' /\ StateIsGiven'
  BY <1>0, <1>1, <1>2, StateKept DEF NetInv
<1>4. WritersTold'
  <2>1. ended'[c] = what /\ \A d \in Calls : d # c => ended'[d] = ended[d]
    BY <1>0, EndsLanes
  <2> QED BY <2>1 DEF NetInv, WritersTold
<1> QED BY <1>1, <1>3, <1>4 DEF NetInv

LEMMA WrittenPaths == ASSUME NEW reply PROVE Written(reply) \subseteq Paths
BY DEF Written, Paths, ToSet

\* An answer that was given: its call asked last, so no prompt came after it.
LEMMA FinishesStep == ASSUME NetInv, NEW c \in Calls, Finishes(c) PROVE NetInv'
<1> DEFINE s == sessionOf[c]
           W == Written(turn[c].reply)
           what == IF Breaks(turn[c].reply) = {} THEN "result" ELSE "torn"
<1>0. NetTypes /\ s \in Sessions /\ turn[c].stage = "streaming" /\ W \subseteq Paths
  BY SessionOfCall, WrittenPaths DEF NetInv, Finishes, At
<1>1. /\ base' = [base EXCEPT ![s] = [p \in Paths |-> IF p \in W THEN c ELSE @[p]]]
      /\ wrote' = [wrote EXCEPT ![c] = W]
      /\ Tells(c, what) /\ Settles(c)
      /\ UNCHANGED <<held, issued, adrift>>
  BY DEF Finishes, Settles
<1> HIDE DEF W, what
<1>2. what \in {"result", "torn"}
  BY DEF what
<1>3. /\ base' \in [Sessions -> States]
      /\ \A t \in Sessions : t # s => base'[t] = base[t]
      /\ \A p \in Paths : base'[s][p] = IF p \in W THEN c ELSE base[s][p]
  <2>1. [p \in Paths |-> IF p \in W THEN c ELSE base[s][p]] \in States
    BY <1>0 DEF NetTypes, States
  <2> QED BY <1>0, <1>1, <2>1 DEF NetTypes
<1>4. /\ wrote' \in [Calls -> SUBSET Paths] /\ wrote'[c] = W
      /\ \A d \in Calls : d # c => wrote'[d] = wrote[d]
  BY <1>0, <1>1 DEF NetTypes
<1>5. /\ NetTypes' /\ LanesAreSerial' /\ PromptsAreOfCalls' /\ LastHasAsked'
      /\ DriftersAborted' /\ HeadersAreNewest' /\ asked' = asked /\ ended'[c] = what
      /\ \A d \in Calls : d # c => ended'[d] = ended[d]
      /\ \A d \in Calls : ended[d] # "no" => ended'[d] = ended[d]
  BY <1>0, <1>1, <1>2, <1>3, <1>4, EndsLanes
<1>6. /\ Len(asked[s]) \in DOMAIN asked[s] /\ asked[s][Len(asked[s])].by = c
      /\ \A t \in Sessions : \A i \in DOMAIN asked[t] :
           asked[t][i].by = c => t = s /\ i = Len(asked[t])
  <2>1. Len(asked[s]) \in DOMAIN asked[s] /\ asked[s][Len(asked[s])].by = c
    BY <1>0 DEF NetInv, LastHasAsked, Posted
  <2>2. \A t \in Sessions : \A i \in DOMAIN asked[t] :
          asked[t][i].by = c => t = s /\ i = Len(asked[t])
    BY <1>0 DEF NetInv, PromptsAreOfCalls
  <2> QED BY <2>1, <2>2
<1>7. \A t \in Sessions : \A i \in DOMAIN asked[t] : i \in Nat \ {0} /\ i <= Len(asked[t])
  BY <1>0 DEF NetTypes
<1>8. BaseIsGiven'
  <2> SUFFICES ASSUME NEW t \in Sessions, NEW p \in Paths
               PROVE  /\ base'[t][p] # None =>
                           /\ \E i \in DOMAIN asked[t] : asked[t][i].by = base'[t][p]
                           /\ ended'[base'[t][p]] \in Given
                      /\ \A i \in DOMAIN asked[t] : p \in wrote'[asked[t][i].by] =>
                           \E k \in i..Len(asked[t]) : asked[t][k].by = base'[t][p]
    BY <1>5 DEF BaseIsGiven
  <2>1. CASE t = s /\ p \in W
    <3>1. base'[t][p] = c /\ ended'[c] \in Given
      BY <1>2, <1>3, <1>5, <2>1 DEF Given
    <3>2. \A i \in DOMAIN asked[t] : Len(asked[t]) \in i..Len(asked[t])
      BY <1>0, <1>7 DEF NetTypes
    <3> QED BY <1>6, <2>1, <3>1, <3>2
  <2>2. CASE ~(t = s /\ p \in W)
    <3>1. base'[t][p] = base[t][p]
      BY <1>3, <2>2
    <3>2. base[t][p] # None => ended'[base[t][p]] \in Given
      <4>1. base[t][p] \in Calls \union {None}
        BY <1>0 DEF NetTypes, States
      <4>2. base[t][p] # None => ended[base[t][p]] \in Given
        BY DEF NetInv, BaseIsGiven
      <4> QED BY <1>5, <4>1, <4>2 DEF Given
    <3>3. \A i \in DOMAIN asked[t] : p \in wrote'[asked[t][i].by] => p \in wrote[asked[t][i].by]
      <4> SUFFICES ASSUME NEW i \in DOMAIN asked[t], p \in wrote'[asked[t][i].by]
                   PROVE  p \in wrote[asked[t][i].by]
        OBVIOUS
      <4>1. asked[t][i].by \in Calls
        BY <1>0, PromptTypes
      <4>2. asked[t][i].by # c
        BY <1>4, <1>6, <2>2
      <4> QED BY <1>4, <4>1, <4>2
    <3> QED BY <3>1, <3>2, <3>3 DEF NetInv, BaseIsGiven
  <2> QED BY <2>1, <2>2
<1>9. StateIsGiven'
  <2> SUFFICES ASSUME NEW t \in Sessions, NEW j \in DOMAIN asked[t], NEW p \in Paths
               PROVE  LET from == asked[t][j].after[p]
                          before == {asked[t][i].by : i \in 1..(j - 1)}
                      IN  /\ from # None => from \in before /\ ended'[from] \in {"result", "torn"}
                          /\ \A i \in 1..(j - 1) : p \in wrote'[asked[t][i].by] =>
                               from \in {asked[t][k].by : k \in i..(j - 1)}
    BY <1>5 DEF StateIsGiven
  <2> DEFINE from == asked[t][j].after[p]
  <2>1. from \in Calls \union {None}
    BY <1>0, PromptTypes DEF States
  <2>2. from # None => ended'[from] \in {"result", "torn"}
    <3>1. from # None => ended[from] \in {"result", "torn"}
      BY DEF NetInv, StateIsGiven
    <3> QED BY <1>5, <2>1, <3>1
  <2>3. ASSUME NEW i \in 1..(j - 1), p \in wrote'[asked[t][i].by]
        PROVE  p \in wrote[asked[t][i].by]
    <3>1. i \in DOMAIN asked[t] /\ i # Len(asked[t])
      BY <1>0, <1>7 DEF NetTypes
    <3>2. asked[t][i].by \in Calls /\ asked[t][i].by # c
      BY <1>0, <1>6, <3>1, PromptTypes
    <3> QED BY <1>4, <2>3, <3>2
  <2> QED BY <2>2, <2>3 DEF NetInv, StateIsGiven
<1>10. WritersTold'
  BY <1>2, <1>4, <1>5 DEF NetInv, WritersTold
<1> QED BY <1>5, <1>8, <1>9, <1>10 DEF NetInv

\* A call that starts: its session is idle, and nobody was told of it.
LEMMA StartLanes ==
  ASSUME NetInv, NEW c \in Calls, Dispatch(c) \/ Probe(c), OnlyTurn(c), ended' = ended
  PROVE  /\ call' \in [Calls -> CallState] /\ LanesAreSerial'
         /\ call[c] = "new" /\ call'[c] # "new" /\ \A d \in Calls : d # c => call'[d] = call[d]
         /\ \A d \in Calls : sessionOf[d] = sessionOf[c] => turn[d].stage = "off"
<1>1. PICK how \in {"plain", "probe"} : call' = [call EXCEPT ![c] = how]
  BY DEF Dispatch, Probe, Becomes
<1>2. call[c] = "new" /\ \A d \in Calls : sessionOf[d] = sessionOf[c] => ~InFlight(d)
  BY DEF Dispatch, Probe, Ready
<1>3. /\ call' \in [Calls -> CallState] /\ call'[c] = how
      /\ \A d \in Calls : d # c => call'[d] = call[d]
  BY <1>1 DEF NetInv, NetTypes, CallState
<1>4. \A d \in Calls : sessionOf[d] = sessionOf[c] => turn[d].stage = "off"
  BY <1>2 DEF NetInv, LanesAreSerial
<1>5. LanesAreSerial'
  <2>1. ended[c] = "no"
    BY <1>2 DEF NetInv, LanesAreSerial
  <2>2. \A d \in Calls : turn'[d].stage # "off" => InFlight(d)' /\ ended'[d] = "no"
    BY <1>3, <2>1 DEF NetInv, LanesAreSerial, InFlight, OnlyTurn
  <2>3. \A d \in Calls : call'[d] = "new" => ended'[d] = "no"
    BY <1>3 DEF NetInv, LanesAreSerial
  <2>4. \A d \in Calls : d # c => (InFlight(d)' <=> InFlight(d))
    BY <1>3 DEF InFlight
  <2>5. \A d, e \in Calls : InFlight(d)' /\ InFlight(e)' /\ sessionOf[d] = sessionOf[e] => d = e
    BY <1>2, <2>4 DEF NetInv, LanesAreSerial
  <2> QED BY <2>2, <2>3, <2>5 DEF LanesAreSerial
<1> QED BY <1>2, <1>3, <1>4, <1>5

\* What the prompt of a call that starts does to the prompts of its session.
LEMMA Asking ==
  ASSUME NetTypes, NEW c \in Calls,
         asked' = [asked EXCEPT ![sessionOf[c]] = Append(@, [by |-> c, after |-> base[sessionOf[c]]])]
  PROVE  LET s == sessionOf[c]
         IN  /\ asked' \in [Sessions -> Seq(Prompts)]
             /\ \A t \in Sessions : t # s => asked'[t] = asked[t]
             /\ Len(asked[s]) \in Nat /\ Len(asked'[s]) = Len(asked[s]) + 1
             /\ DOMAIN asked[s] = 1..Len(asked[s])
             /\ DOMAIN asked'[s] = 1..(Len(asked[s]) + 1)
             /\ \A i \in DOMAIN asked[s] : asked'[s][i] = asked[s][i]
             /\ asked'[s][Len(asked[s]) + 1].by = c
             /\ asked'[s][Len(asked[s]) + 1].after = base[s]
<1> DEFINE s == sessionOf[c]
           e == [by |-> c, after |-> base[s]]
<1>1. s \in Sessions /\ asked[s] \in Seq(Prompts)
  BY SessionOfCall DEF NetTypes
<1>2. e \in Prompts /\ e.by = c /\ e.after = base[s]
  BY <1>1 DEF NetTypes, Prompts
<1> HIDE DEF e
<1>3. Append(asked[s], e) \in Seq(Prompts)
  BY <1>1, <1>2
<1>4. /\ asked' \in [Sessions -> Seq(Prompts)] /\ asked'[s] = Append(asked[s], e)
      /\ \A t \in Sessions : t # s => asked'[t] = asked[t]
  BY <1>1, <1>3 DEF NetTypes, e
<1>5. /\ Len(asked[s]) \in Nat /\ Len(asked'[s]) = Len(asked[s]) + 1
      /\ DOMAIN asked[s] = 1..Len(asked[s])
      /\ DOMAIN asked'[s] = 1..(Len(asked[s]) + 1)
      /\ \A i \in 1..Len(asked[s]) : asked'[s][i] = asked[s][i]
      /\ asked'[s][Len(asked[s]) + 1] = e
  BY <1>1, <1>2, <1>4
<1> QED BY <1>2, <1>4, <1>5

LEMMA AskedPrompts ==
  ASSUME NetInv, NEW c \in Calls, Dispatch(c) \/ Probe(c), OnlyTurn(c), UNCHANGED <<base, wrote, ended>>,
         asked' = [asked EXCEPT ![sessionOf[c]] = Append(@, [by |-> c, after |-> base[sessionOf[c]]])]
  PROVE  PromptsAreOfCalls' /\ LastHasAsked' /\ BaseIsGiven' /\ StateIsGiven'
<1> DEFINE s == sessionOf[c]
           L == Len(asked[s])
<1>0. NetTypes /\ s \in Sessions
  BY SessionOfCall DEF NetInv
<1>1. /\ \A t \in Sessions : t # s => asked'[t] = asked[t]
      /\ L \in Nat /\ Len(asked'[s]) = L + 1 /\ DOMAIN asked[s] = 1..L
      /\ DOMAIN asked'[s] = 1..(L + 1)
      /\ \A i \in 1..L : asked'[s][i] = asked[s][i]
      /\ asked'[s][L + 1].by = c /\ asked'[s][L + 1].after = base[s]
  BY <1>0, Asking
<1>2. /\ call[c] = "new" /\ call'[c] # "new" /\ \A d \in Calls : d # c => call'[d] = call[d]
      /\ \A d \in Calls : sessionOf[d] = s => turn[d].stage = "off"
  BY StartLanes
<1> HIDE DEF L
<1>3. PromptsAreOfCalls'
  <2> SUFFICES ASSUME NEW t \in Sessions, NEW i \in DOMAIN asked'[t]
               PROVE  LET d == asked'[t][i].by
                      IN  sessionOf[d] = t /\ call'[d] # "new"
                          /\ (turn'[d].stage # "off" => i = Len(asked'[t]))
    BY DEF PromptsAreOfCalls
  <2>1. CASE t = s /\ i = L + 1
    BY <1>1, <1>2, <2>1
  <2>2. CASE ~(t = s /\ i = L + 1)
    <3>1. i \in DOMAIN asked[t] /\ asked'[t][i] = asked[t][i]
      BY <1>1, <2>2
    <3> DEFINE d == asked[t][i].by
    <3>2. d \in Calls /\ sessionOf[d] = t /\ call[d] # "new"
          /\ (turn[d].stage # "off" => i = Len(asked[t]))
      BY <1>0, <3>1, PromptTypes DEF NetInv, PromptsAreOfCalls
    <3>3. d # c /\ call'[d] = call[d] /\ turn'[d] = turn[d]
      BY <1>2, <3>2 DEF OnlyTurn
    <3>4. turn[d].stage # "off" => t # s /\ asked'[t] = asked[t]
      BY <1>1, <1>2, <3>2
    <3> QED BY <3>1, <3>2, <3>3, <3>4
  <2> QED BY <2>1, <2>2
<1>4. LastHasAsked'
  <2> SUFFICES ASSUME NEW d \in Calls, turn'[d].stage \in Posted
               PROVE  LET t == sessionOf[d]
                      IN  Len(asked'[t]) \in DOMAIN asked'[t] /\ asked'[t][Len(asked'[t])].by = d
    BY DEF LastHasAsked
  <2>1. CASE d = c
    BY <1>1, <2>1
  <2>2. CASE d # c
    <3>1. turn[d].stage \in Posted
      BY <2>2 DEF OnlyTurn
    <3>2. sessionOf[d] # s /\ sessionOf[d] \in Sessions
      BY <1>2, <3>1, SessionOfCall DEF Posted
    <3> QED BY <1>1, <3>1, <3>2 DEF NetInv, LastHasAsked
  <2> QED BY <2>1, <2>2
<1>5. wrote[c] = {}
  BY <1>2 DEF NetInv, LanesAreSerial, WritersTold
<1>6. BaseIsGiven'
  <2> SUFFICES ASSUME NEW t \in Sessions, NEW p \in Paths
               PROVE  /\ base[t][p] # None =>
                           /\ \E i \in DOMAIN asked'[t] : asked'[t][i].by = base[t][p]
                           /\ ended[base[t][p]] \in Given
                      /\ \A i \in DOMAIN asked'[t] : p \in wrote[asked'[t][i].by] =>
                           \E k \in i..Len(asked'[t]) : asked'[t][k].by = base[t][p]
    BY DEF BaseIsGiven
  <2>1. CASE t # s
    BY <1>1, <2>1 DEF NetInv, BaseIsGiven
  <2>2. CASE t = s
    <3>1. base[t][p] # None =>
            /\ \E i \in DOMAIN asked'[t] : asked'[t][i].by = base[t][p]
            /\ ended[base[t][p]] \in Given
      <4> SUFFICES ASSUME base[t][p] # None
                   PROVE  /\ \E i \in DOMAIN asked'[t] : asked'[t][i].by = base[t][p]
                          /\ ended[base[t][p]] \in Given
        OBVIOUS
      <4>1. PICK i \in 1..L : asked[t][i].by = base[t][p]
        BY <1>1, <2>2 DEF NetInv, BaseIsGiven
      <4>2. i \in DOMAIN asked'[t] /\ asked'[t][i].by = base[t][p]
        BY <1>1, <2>2, <4>1
      <4> QED BY <4>2 DEF NetInv, BaseIsGiven
    <3>2. ASSUME NEW i \in DOMAIN asked'[t], p \in wrote[asked'[t][i].by]
          PROVE  \E k \in i..Len(asked'[t]) : asked'[t][k].by = base[t][p]
      <4>1. i \in 1..L /\ asked'[t][i] = asked[t][i]
        BY <1>1, <1>5, <2>2, <3>2
      <4>2. PICK k \in i..L : asked[t][k].by = base[t][p]
        BY <1>1, <2>2, <3>2, <4>1 DEF NetInv, BaseIsGiven, L
      <4>3. k \in i..Len(asked'[t]) /\ asked'[t][k].by = base[t][p]
        BY <1>1, <2>2, <4>1, <4>2
      <4> QED BY <4>3
    <3> QED BY <3>1, <3>2
  <2> QED BY <2>1, <2>2
<1>7. StateIsGiven'
  <2> SUFFICES ASSUME NEW t \in Sessions, NEW j \in DOMAIN asked'[t], NEW p \in Paths
               PROVE  LET from == asked'[t][j].after[p]
                          before == {asked'[t][i].by : i \in 1..(j - 1)}
                      IN  /\ from # None => from \in before /\ ended[from] \in {"result", "torn"}
                          /\ \A i \in 1..(j - 1) : p \in wrote[asked'[t][i].by] =>
                               from \in {asked'[t][k].by : k \in i..(j - 1)}
    BY DEF StateIsGiven
  <2>1. CASE t = s /\ j = L + 1
    <3>1. asked'[t][j].after[p] = base[s][p] /\ j - 1 = L
      BY <1>1, <2>1
    <3>2. \A i \in 1..L : asked'[t][i].by = asked[s][i].by
      BY <1>1, <2>1
    <3>3. base[s][p] # None =>
            base[s][p] \in {asked'[t][i].by : i \in 1..L} /\ ended[base[s][p]] \in {"result", "torn"}
      BY <1>0, <1>1, <3>2 DEF NetInv, BaseIsGiven, Given
    <3>4. ASSUME NEW i \in 1..L, p \in wrote[asked'[t][i].by]
          PROVE  base[s][p] \in {asked'[t][k].by : k \in i..L}
      <4>1. PICK k \in i..L : asked[s][k].by = base[s][p]
        BY <1>0, <1>1, <3>2, <3>4 DEF NetInv, BaseIsGiven, L
      <4>2. asked'[t][k].by = base[s][p]
        BY <1>1, <3>2, <4>1
      <4> QED BY <4>2
    <3> QED BY <3>1, <3>3, <3>4
  <2>2. CASE ~(t = s /\ j = L + 1)
    <3>1. j \in DOMAIN asked[t] /\ \A i \in 1..j : asked'[t][i] = asked[t][i]
      BY <1>0, <1>1, <2>2 DEF NetTypes
    <3>2. /\ j \in Int /\ asked'[t][j] = asked[t][j]
          /\ \A i \in 1..(j - 1) : asked'[t][i] = asked[t][i]
      BY <1>0, <3>1 DEF NetTypes
    <3>3. /\ {asked'[t][i].by : i \in 1..(j - 1)} = {asked[t][i].by : i \in 1..(j - 1)}
          /\ \A i \in 1..(j - 1) :
               {asked'[t][k].by : k \in i..(j - 1)} = {asked[t][k].by : k \in i..(j - 1)}
      BY <3>2
    <3> QED BY <3>1, <3>2, <3>3 DEF NetInv, StateIsGiven
  <2> QED BY <2>1, <2>2
<1> QED BY <1>3, <1>4, <1>6, <1>7

LEMMA StartStep == ASSUME NetInv, NEW c \in Calls, Start(c) PROVE NetInv'
<1> DEFINE s == sessionOf[c]
<1>0. NetTypes /\ s \in Sessions /\ held[s] \in Nat
  BY SessionOfCall DEF NetInv, NetTypes
<1>1. (Dispatch(c) \/ Probe(c)) /\ UNCHANGED <<base, held, issued, adrift, ended, wrote>>
  BY DEF Start
<1>2. PICK r \in asks[c] :
        \/ /\ turn' = [turn EXCEPT ![c].stage = "fetching", ![c].token = held[s], ![c].ask = r]
           /\ asked' = [asked EXCEPT ![s] = Append(@, [by |-> c, after |-> base[s]])]
        \/ turn' = [turn EXCEPT ![c].stage = "thrown"] /\ asked' = asked
  BY DEF Start
<1>3. r \in Asks
  BY DEF Asks
<1>4. /\ turn' \in [Calls -> Turns] /\ OnlyTurn(c)
      /\ \/ /\ turn'[c].stage = "fetching" /\ turn'[c].token = held[s]
            /\ asked' = [asked EXCEPT ![s] = Append(@, [by |-> c, after |-> base[s]])]
         \/ turn'[c].stage = "thrown" /\ asked' = asked
  <2>1. CASE /\ turn' = [turn EXCEPT ![c].stage = "fetching", ![c].token = held[s], ![c].ask = r]
             /\ asked' = [asked EXCEPT ![s] = Append(@, [by |-> c, after |-> base[s]])]
    BY <1>0, <1>3, <2>1, FetchTurn DEF NetTypes
  <2>2. CASE turn' = [turn EXCEPT ![c].stage = "thrown"] /\ asked' = asked
    <3>1. "thrown" \in Stages
      BY DEF Stages
    <3> QED BY <1>0, <2>2, <3>1, StageTurn DEF NetTypes
  <2> QED BY <1>2, <2>1, <2>2
<1>5. /\ call' \in [Calls -> CallState] /\ LanesAreSerial'
      /\ \A d \in Calls : d # c => call'[d] = call[d]
      /\ call[c] = "new" /\ call'[c] # "new"
      /\ \A d \in Calls : sessionOf[d] = s => turn[d].stage = "off"
  BY <1>1, <1>4, StartLanes
<1>6. /\ asked' \in [Sessions -> Seq(Prompts)]
      /\ PromptsAreOfCalls' /\ LastHasAsked' /\ BaseIsGiven' /\ StateIsGiven'
  <2>1. CASE asked' = [asked EXCEPT ![s] = Append(@, [by |-> c, after |-> base[s]])]
    <3>1. asked' \in [Sessions -> Seq(Prompts)]
      BY <1>0, <2>1, Asking
    <3> QED BY <1>1, <1>4, <2>1, <3>1, AskedPrompts
  <2>2. CASE turn'[c].stage = "thrown" /\ asked' = asked
    <3>1. BaseIsGiven' /\ StateIsGiven'
      BY <1>1, <2>2, StateKept DEF NetInv
    <3>2. LastHasAsked'
      BY <1>4, <2>2 DEF NetInv, LastHasAsked, Posted, OnlyTurn
    <3>3. PromptsAreOfCalls'
      <4> SUFFICES ASSUME NEW t \in Sessions, NEW i \in DOMAIN asked[t]
                   PROVE  LET d == asked[t][i].by
                          IN  sessionOf[d] = t /\ call'[d] # "new"
                              /\ (turn'[d].stage # "off" => i = Len(asked[t]))
        BY <2>2 DEF PromptsAreOfCalls
      <4>1. asked[t][i].by \in Calls /\ call[asked[t][i].by] # "new"
        BY <1>0, PromptTypes DEF NetInv, PromptsAreOfCalls
      <4> QED BY <1>4, <1>5, <4>1 DEF NetInv, PromptsAreOfCalls, OnlyTurn
    <3> QED BY <1>0, <2>2, <3>1, <3>2, <3>3 DEF NetTypes
  <2> QED BY <1>4, <2>1, <2>2
<1>7. NetTypes'
  BY <1>0, <1>1, <1>4, <1>5, <1>6 DEF NetTypes
<1>8. WritersTold' /\ DriftersAborted'
  BY <1>1 DEF NetInv, WritersTold, DriftersAborted
<1>9. HeadersAreNewest'
  <2>1. \A d \in Calls : At(d, "fetching")' => turn'[d].token = held'[sessionOf[d]]
    BY <1>1, <1>4 DEF NetInv, HeadersAreNewest, At, OnlyTurn
  <2> QED BY <1>1, <2>1 DEF NetInv, HeadersAreNewest
<1> QED BY <1>5, <1>6, <1>7, <1>8, <1>9 DEF NetInv

LEMMA ExecutesStep == ASSUME NetInv, NEW c \in Calls, Executes(c) PROVE NetInv'
<1>0. NetTypes /\ sessionOf[c] \in Sessions
  BY SessionOfCall DEF NetInv
<1>1. CASE Follows(c)
  <2>1. turn' = [turn EXCEPT ![c].hops = @ + 1, ![c].token = held'[sessionOf[c]]]
    BY <1>1 DEF Follows
  <2>2. At(c, "fetching") /\ Merged(sessionOf[c])
        /\ UNCHANGED <<base, adrift, asked, wrote, call, ended>>
    BY <1>1 DEF Follows, vars, history
  <2>3. held'[sessionOf[c]] \in Nat
    BY <1>0, <2>2, Merging
  <2>4. /\ turn' \in [Calls -> Turns] /\ OnlyTurn(c)
        /\ turn'[c].stage = turn[c].stage /\ turn'[c].token = held'[sessionOf[c]]
    BY <1>0, <2>1, <2>3, HopTurn DEF NetTypes
  <2>5. Going(c) /\ HeadersOf(c)
    BY <2>2, <2>4 DEF Going, HeadersOf, At
  <2> QED BY <2>2, <2>4, <2>5, GoesOn
<1>2. CASE Unusable(c)
  <2>1. turn[c].stage # "off" /\ Settles(c) /\ Tells(c, "error")
        /\ At(c, "fetching") /\ Merged(sessionOf[c]) /\ UNCHANGED <<base, adrift, wrote>>
    BY <1>2 DEF Unusable, Settles, At
  <2> QED BY <2>1, EndsInVain
<1>3. CASE Responds(c)
  <2>1. turn' = [turn EXCEPT ![c] = [@ EXCEPT !.stage = "reading", !.hops = 0, !.token = 0]]
    BY <1>3 DEF Responds
  <2>2. At(c, "fetching") /\ Merged(sessionOf[c])
        /\ UNCHANGED <<base, adrift, asked, wrote, call, ended>>
    BY <1>3 DEF Responds, vars, history
  <2>3. turn' \in [Calls -> Turns] /\ OnlyTurn(c) /\ turn'[c].stage = "reading"
    BY <1>0, <2>1, ReadingTurn DEF NetTypes
  <2>4. Going(c) /\ HeadersOf(c)
    BY <2>2, <2>3 DEF Going, HeadersOf, At
  <2> QED BY <2>2, <2>3, <2>4, GoesOn
<1>4. CASE Unavailable(c) \/ Errs(c) \/ IsRefused(c)
  <2>1. turn[c].stage # "off" /\ Settles(c) /\ Tells(c, "error")
        /\ UNCHANGED <<base, held, issued, adrift, wrote>>
    BY <1>4 DEF Unavailable, Errs, IsRefused, Settles, At
  <2> QED BY <2>1, EndsInVain
<1>5. CASE Reads(c)
  <2>1. PICK reply \in Replies :
          IF Unreadable(turn[c].ask, reply)
          THEN Answered(c) /\ Tells(c, "error")
          ELSE /\ turn' = [turn EXCEPT ![c].stage = "streaming", ![c].reply = reply]
               /\ UNCHANGED <<vars, asked, ended>>
    BY <1>5 DEF Reads
  <2>2. turn[c].stage = "reading" /\ UNCHANGED <<base, held, issued, adrift, wrote>>
    BY <1>5 DEF Reads, At
  <2>3. CASE Answered(c) /\ Tells(c, "error")
    <3>1. Settles(c)
      BY <2>3 DEF Settles
    <3> QED BY <2>2, <2>3, <3>1, EndsInVain
  <2>4. CASE /\ turn' = [turn EXCEPT ![c].stage = "streaming", ![c].reply = reply]
             /\ UNCHANGED <<vars, asked, ended>>
    <3>1. turn' \in [Calls -> Turns] /\ OnlyTurn(c) /\ turn'[c].stage = "streaming"
      BY <1>0, <2>4, StreamingTurn DEF NetTypes
    <3>2. Going(c) /\ HeadersOf(c)
      BY <2>2, <2>4, <3>1 DEF Going, HeadersOf, vars
    <3> QED BY <2>2, <2>4, <3>1, <3>2, GoesOn
  <2> QED BY <2>1, <2>3, <2>4
<1>6. CASE Passes(c)
  <2>1. turn' = [turn EXCEPT ![c].passed = @ + 1]
    BY <1>6 DEF Passes
  <2>2. turn[c].stage = "streaming"
        /\ UNCHANGED <<base, held, issued, adrift, asked, wrote, call, ended>>
    BY <1>6 DEF Passes, vars, history, At
  <2>3. turn' \in [Calls -> Turns] /\ OnlyTurn(c) /\ turn'[c].stage = turn[c].stage
    BY <1>0, <2>1, PassingTurn DEF NetTypes
  <2>4. Going(c) /\ HeadersOf(c)
    BY <2>2, <2>3 DEF Going, HeadersOf
  <2> QED BY <2>2, <2>3, <2>4, GoesOn
<1>7. CASE Finishes(c)
  BY <1>7, FinishesStep
<1>8. CASE Abandons(c)
  <2>1. turn[c].stage # "off" /\ Settles(c) /\ Tells(c, "aborted")
        /\ UNCHANGED <<base, held, issued, wrote>>
        /\ adrift' \subseteq adrift \union {c}
    BY <1>8 DEF Abandons, Settles
  <2> QED BY <2>1, EndsInVain
<1> QED BY <1>1, <1>2, <1>3, <1>4, <1>5, <1>6, <1>7, <1>8 DEF Executes

\* The response nobody waits for moves what the site gave ahead of the client.
LEMMA DisposedStep == ASSUME NetInv, NEW c \in Calls, IsDisposed(c) PROVE NetInv'
<1>1. /\ UNCHANGED <<call, turn, base, held, asked, ended, wrote>>
      /\ c \in adrift /\ adrift' \subseteq adrift
      /\ issued' = issued \/ issued' = [issued EXCEPT ![sessionOf[c]] = @ + 1]
  BY DEF IsDisposed, vars, history
<1>2. /\ issued' \in [Sessions -> Nat]
      /\ \A s \in Sessions : s # sessionOf[c] => issued'[s] = issued[s]
  <2>1. sessionOf[c] \in Sessions /\ issued \in [Sessions -> Nat]
    BY SessionOfCall DEF NetInv, NetTypes
  <2>2. issued[sessionOf[c]] + 1 \in Nat
    BY <2>1
  <2> QED BY <1>1, <2>1, <2>2
<1>3. NetTypes'
  BY <1>1, <1>2 DEF NetInv, NetTypes
<1>4. LanesAreSerial' /\ PromptsAreOfCalls' /\ LastHasAsked'
  BY <1>1 DEF NetInv, LanesAreSerial, InFlight, PromptsAreOfCalls, LastHasAsked
<1>5. BaseIsGiven' /\ StateIsGiven'
  BY <1>1 DEF NetInv, BaseIsGiven, StateIsGiven
<1>6. WritersTold' /\ DriftersAborted'
  BY <1>1 DEF NetInv, WritersTold, DriftersAborted
<1>7. HeadersAreNewest'
  <2>1. c \in Calls /\ ended[c] = "aborted"
    BY <1>1 DEF NetInv, DriftersAborted
  <2>2. \A s \in Sessions : held'[s] # issued'[s] =>
          \E d \in Calls : sessionOf[d] = s /\ ended'[d] = "aborted"
    BY <1>1, <1>2, <2>1 DEF NetInv, HeadersAreNewest
  <2>3. \A d \in Calls : At(d, "fetching")' => turn'[d].token = held'[sessionOf[d]]
    BY <1>1 DEF NetInv, HeadersAreNewest, At
  <2> QED BY <2>2, <2>3 DEF HeadersAreNewest
<1> QED BY <1>3, <1>4, <1>5, <1>6, <1>7 DEF NetInv

LEMMA IdleStep ==
  ASSUME NetInv, UNCHANGED <<client, history>>,
         call' = call \/ \E c \in Calls : call[c] = "new" /\ call' = [call EXCEPT ![c] = "rejected"]
  PROVE  NetInv'
<1>1. UNCHANGED <<turn, base, held, issued, adrift, asked, ended, wrote>>
  BY DEF client, history
<1>2. /\ call' \in [Calls -> CallState]
      /\ \A d \in Calls : call'[d] = call[d] \/ (call[d] = "new" /\ call'[d] = "rejected")
  BY DEF NetInv, NetTypes, CallState
<1>3. NetTypes'
  BY <1>1, <1>2 DEF NetInv, NetTypes
<1>4. LanesAreSerial' /\ LastHasAsked'
  BY <1>1, <1>2 DEF NetInv, LanesAreSerial, InFlight, LastHasAsked
<1>5. PromptsAreOfCalls'
  <2> SUFFICES ASSUME NEW s \in Sessions, NEW i \in DOMAIN asked[s]
               PROVE  LET c == asked[s][i].by
                      IN  sessionOf[c] = s /\ call'[c] # "new"
                          /\ (turn[c].stage # "off" => i = Len(asked[s]))
    BY <1>1 DEF PromptsAreOfCalls
  <2>1. asked[s][i].by \in Calls
    BY PromptTypes DEF NetInv
  <2> QED BY <1>2, <2>1 DEF NetInv, PromptsAreOfCalls
<1>6. BaseIsGiven' /\ StateIsGiven'
  BY <1>1 DEF NetInv, BaseIsGiven, StateIsGiven
<1>7. WritersTold' /\ DriftersAborted' /\ HeadersAreNewest'
  BY <1>1 DEF NetInv, WritersTold, DriftersAborted, HeadersAreNewest, At
<1> QED BY <1>3, <1>4, <1>5, <1>6, <1>7 DEF NetInv

LEMMA NetInductive == NetInv /\ [NetNext]_netVars => NetInv'
<1> SUFFICES ASSUME NetInv, [NetNext]_netVars PROVE NetInv'
  OBVIOUS
<1>1. ASSUME NEW c \in Calls, Refused(c) PROVE NetInv'
  <2>1. UNCHANGED <<client, history>> /\ call[c] = "new" /\ call' = [call EXCEPT ![c] = "rejected"]
    BY <1>1 DEF Refused, Reject, Ready, Becomes
  <2> QED BY <2>1, IdleStep
<1>2. CASE CoolDown /\ UNCHANGED <<client, history>>
  BY <1>2, IdleStep DEF CoolDown
<1>3. CASE UNCHANGED netVars
  BY <1>3, IdleStep DEF netVars, vars
<1> QED BY <1>1, <1>2, <1>3, StartStep, ExecutesStep, DisposedStep DEF NetNext

\* A whole answer has set every required path; what a path is from has set it.
WholeAnswersWrite == \A c \in Calls : ended[c] = "result" => Paths \ Optional \subseteq wrote[c]
BaseIsWritten == \A s \in Sessions, p \in Paths : base[s][p] # None => p \in wrote[base[s][p]]
AskedIsWritten ==
  \A s \in Sessions : \A j \in DOMAIN asked[s] : \A p \in Paths :
    asked[s][j].after[p] # None => p \in wrote[asked[s][j].after[p]]
Traced == WholeAnswersWrite /\ BaseIsWritten /\ AskedIsWritten

LEMMA WholeWrites ==
  ASSUME NEW reply, Breaks(reply) = {}
  PROVE  Paths \ Optional \subseteq Written(reply)
<1> SUFFICES ASSUME NEW p \in Paths, p \notin Optional PROVE p \in Written(reply)
  OBVIOUS
<1>1. PICK i \in DOMAIN Updates : Updates[i] = p
  BY DEF Paths, ToSet
<1>2. p \in reply.carries
  BY <1>1 DEF Breaks
<1> QED BY <1>1, <1>2 DEF Written

\* Steps that set nothing.
LEMMA WritesNothing ==
  ASSUME NetInv, Traced, UNCHANGED <<base, wrote>>,
         \A d \in Calls : ended'[d] = "result" => ended[d] = "result",
         asked' = asked \/ \E c \in Calls : asked' =
           [asked EXCEPT ![sessionOf[c]] = Append(@, [by |-> c, after |-> base[sessionOf[c]]])]
  PROVE  Traced'
<1>1. WholeAnswersWrite' /\ BaseIsWritten'
  BY DEF Traced, WholeAnswersWrite, BaseIsWritten
<1>2. AskedIsWritten'
  <2>1. CASE asked' = asked
    BY <2>1 DEF Traced, AskedIsWritten
  <2>2. ASSUME NEW c \in Calls, asked' =
           [asked EXCEPT ![sessionOf[c]] = Append(@, [by |-> c, after |-> base[sessionOf[c]]])]
        PROVE  AskedIsWritten'
    <3> DEFINE s == sessionOf[c]
    <3>1. /\ s \in Sessions /\ \A t \in Sessions : t # s => asked'[t] = asked[t]
          /\ Len(asked[s]) \in Nat
          /\ DOMAIN asked[s] = 1..Len(asked[s])
          /\ DOMAIN asked'[s] = 1..(Len(asked[s]) + 1)
          /\ \A i \in DOMAIN asked[s] : asked'[s][i] = asked[s][i]
          /\ asked'[s][Len(asked[s]) + 1].after = base[s]
      BY <2>2, Asking, SessionOfCall DEF NetInv
    <3> SUFFICES ASSUME NEW t \in Sessions, NEW j \in DOMAIN asked'[t], NEW p \in Paths,
                        asked'[t][j].after[p] # None
                 PROVE  p \in wrote[asked'[t][j].after[p]]
      BY DEF AskedIsWritten
    <3>2. CASE t = s /\ j = Len(asked[s]) + 1
      BY <3>1, <3>2 DEF Traced, BaseIsWritten
    <3>3. CASE ~(t = s /\ j = Len(asked[s]) + 1)
      <4>1. j \in DOMAIN asked[t] /\ asked'[t][j] = asked[t][j]
        BY <3>1, <3>3
      <4> QED BY <4>1 DEF Traced, AskedIsWritten
    <3> QED BY <3>2, <3>3
  <2> QED BY <2>1, <2>2
<1> QED BY <1>1, <1>2 DEF Traced

LEMMA FinishesWrites == ASSUME NetInv, Traced, NEW c \in Calls, Finishes(c) PROVE Traced'
<1> DEFINE s == sessionOf[c]
           W == Written(turn[c].reply)
           what == IF Breaks(turn[c].reply) = {} THEN "result" ELSE "torn"
<1>1. /\ NetTypes /\ s \in Sessions /\ turn[c].stage = "streaming" /\ W \subseteq Paths
      /\ wrote[c] = {}
  BY SessionOfCall, WrittenPaths DEF NetInv, Finishes, At, LanesAreSerial, WritersTold
<1>2. /\ base' = [base EXCEPT ![s] = [p \in Paths |-> IF p \in W THEN c ELSE @[p]]]
      /\ wrote' = [wrote EXCEPT ![c] = W]
      /\ ended' = [ended EXCEPT ![c] = what] /\ asked' = asked
  BY DEF Finishes, Tells
<1>3. what = "result" => Paths \ Optional \subseteq W
  BY WholeWrites
<1> HIDE DEF W, what
<1>4. /\ wrote'[c] = W /\ \A d \in Calls : wrote[d] \subseteq wrote'[d]
      /\ \A d \in Calls : d # c => ended'[d] = ended[d]
      /\ ended'[c] = what
  BY <1>1, <1>2 DEF NetTypes
<1>5. WholeAnswersWrite'
  BY <1>3, <1>4 DEF Traced, WholeAnswersWrite
<1>6. BaseIsWritten'
  <2> SUFFICES ASSUME NEW t \in Sessions, NEW p \in Paths, base'[t][p] # None
               PROVE  p \in wrote'[base'[t][p]]
    BY DEF BaseIsWritten
  <2>1. base[t][p] \in Calls \union {None}
    BY <1>1 DEF NetTypes, States
  <2>2. base'[t][p] = IF t = s /\ p \in W THEN c ELSE base[t][p]
    BY <1>1, <1>2 DEF NetTypes
  <2> QED BY <1>4, <2>1, <2>2 DEF Traced, BaseIsWritten
<1>7. AskedIsWritten'
  <2> SUFFICES ASSUME NEW t \in Sessions, NEW j \in DOMAIN asked[t], NEW p \in Paths,
                      asked[t][j].after[p] # None
               PROVE  p \in wrote'[asked[t][j].after[p]]
    BY <1>2 DEF AskedIsWritten
  <2>1. asked[t][j].after[p] \in Calls
    BY <1>1, PromptTypes DEF States
  <2> QED BY <1>4, <2>1 DEF Traced, AskedIsWritten
<1> QED BY <1>5, <1>6, <1>7 DEF Traced

LEMMA WrittenInductive == NetInv /\ Traced /\ [NetNext]_netVars => Traced'
<1> SUFFICES ASSUME NetInv, Traced, [NetNext]_netVars PROVE Traced'
  OBVIOUS
<1>1. ended \in [Calls -> {"no", "result", "torn", "error", "aborted"}]
  BY DEF NetInv, NetTypes
<1>2. ASSUME NEW c \in Calls, Start(c) PROVE Traced'
  BY <1>2, WritesNothing DEF Start
<1>3. ASSUME NEW c \in Calls, Executes(c) PROVE Traced'
  <2>1. CASE Finishes(c)
    BY <2>1, FinishesWrites
  <2>2. CASE ~Finishes(c)
    <3>1. UNCHANGED <<base, wrote, asked>>
      BY <1>3, <2>2 DEF Executes, Follows, Unusable, Responds, Unavailable, Errs, Reads, Passes,
        IsRefused, Abandons, Tells, history
    <3>2. ended' = ended \/ \E what \in {"error", "aborted"} : ended' = [ended EXCEPT ![c] = what]
      BY <1>3, <2>2 DEF Executes, Follows, Unusable, Responds, Unavailable, Errs, Reads, Passes,
        IsRefused, Abandons, Tells, history
    <3>3. \A d \in Calls : ended'[d] = "result" => ended[d] = "result"
      BY <1>1, <3>2
    <3> QED BY <3>1, <3>3, WritesNothing
  <2> QED BY <2>1, <2>2
<1>4. CASE UNCHANGED <<base, history>>
  BY <1>4, WritesNothing DEF history
<1> QED BY <1>2, <1>3, <1>4 DEF NetNext, Refused, IsDisposed, CoolDown, netVars, client

LEMMA StateContinues ==
  ASSUME NetInv, Traced
  PROVE  ContinuesLastAnswer
<1> SUFFICES ASSUME NEW s \in Sessions, NEW j \in DOMAIN asked[s], NEW p \in Paths
             PROVE  LET from == asked[s][j].after[p]
                        asker(i) == asked[s][i].by
                    IN  /\ from # None =>
                             /\ \E i \in 1..(j - 1) : asker(i) = from
                             /\ ended[from] \in {"result", "torn"} /\ p \in wrote[from]
                        /\ \A i \in 1..(j - 1) :
                             p \in wrote[asker(i)]
                               \/ (ended[asker(i)] = "result" /\ p \notin Optional) =>
                               from \in {asker(k) : k \in i..(j - 1)}
  BY DEF ContinuesLastAnswer
<1> DEFINE from == asked[s][j].after[p]
<1>1. /\ from # None => from \in {asked[s][i].by : i \in 1..(j - 1)}
                        /\ ended[from] \in {"result", "torn"}
      /\ \A i \in 1..(j - 1) :
           p \in wrote[asked[s][i].by] => from \in {asked[s][k].by : k \in i..(j - 1)}
  BY DEF NetInv, StateIsGiven
<1>2. from # None => p \in wrote[from]
  BY DEF Traced, AskedIsWritten
<1>3. ASSUME NEW i \in 1..(j - 1), ended[asked[s][i].by] = "result", p \notin Optional
      PROVE  p \in wrote[asked[s][i].by]
  <2>1. i \in DOMAIN asked[s]
    BY DEF NetInv, NetTypes
  <2>2. asked[s][i].by \in Calls
    BY <2>1, PromptTypes DEF NetInv
  <2> QED BY <1>3, <2>2 DEF Traced, WholeAnswersWrite
<1> QED BY <1>1, <1>2, <1>3

\* A prompt carries, path by path, what the last reply that set the path left: of an
\* answer that was passed on, and after a whole answer no required path is older
\* (network-executor.ts:121-141, engine.ts:211-220, upstream.ts:96-102).
THEOREM PromptsContinue == NetSpec => []ContinuesLastAnswer
<1>1. NetInit => Traced
  BY DEF NetInit, Traced, WholeAnswersWrite, BaseIsWritten, AskedIsWritten
<1>2. NetInv /\ Traced => ContinuesLastAnswer
  BY StateContinues
<1> QED BY NetInitially, NetInductive, WrittenInductive, <1>1, <1>2, PTL DEF NetSpec

\* The requests under way carry the newest value of a rotating header, unless an
\* abort threw it away (upstream.ts:114-134).
THEOREM HeadersRotate == NetSpec => []NewestHeaderIsSent
<1>1. NetInv => NewestHeaderIsSent
  BY SessionOfCall DEF NetInv, HeadersAreNewest, NewestHeaderIsSent
<1> QED BY NetInitially, NetInductive, <1>1, PTL DEF NetSpec

-----------------------------------------------------------------------------
(* Sequences *)

\* A set of naturals that holds 0 and the next of each of its members holds all.
LEMMA AllNaturals ==
  ASSUME NEW N, 0 \in N, \A m \in Nat : m \in N => m + 1 \in N
  PROVE  Nat \subseteq N
<1> SUFFICES ASSUME NEW T, T = Nat \ N, T # {} PROVE FALSE
  OBVIOUS
<1> DEFINE less == OpToRel(<, Nat)
<1>1. IsWellFoundedOn(less, Nat)
  BY NatLessThanWellFounded
<1>2. \A x, y \in Nat : <<x, y>> \in less <=> x < y
  BY DEF OpToRel
<1> HIDE DEF less
<1>3. PICK x \in T : \A y \in T : <<y, x>> \notin less
  BY <1>1, WFMin
<1>4. x # 0 /\ x \in Nat
  OBVIOUS
<1>5. x - 1 \in Nat /\ x - 1 < x
  BY <1>4
<1>6. x - 1 \in N
  BY <1>2, <1>3, <1>4, <1>5
<1>7. (x - 1) + 1 = x
  BY <1>4
<1> QED BY <1>5, <1>6, <1>7

\* A sequence is its beginning and what follows.
LEMMA Split ==
  ASSUME NEW S, NEW s \in Seq(S), NEW k \in 0..Len(s)
  PROVE  /\ SubSeq(s, 1, k) \in Seq(S) /\ SubSeq(s, k + 1, Len(s)) \in Seq(S)
         /\ Len(SubSeq(s, 1, k)) = k /\ Len(SubSeq(s, k + 1, Len(s))) = Len(s) - k
         /\ \A i \in 1..k : SubSeq(s, 1, k)[i] = s[i]
         /\ s = SubSeq(s, 1, k) \o SubSeq(s, k + 1, Len(s))
<1> DEFINE u == SubSeq(s, 1, k)
           v == SubSeq(s, k + 1, Len(s))
<1>1. Len(s) \in Nat /\ k \in Nat /\ k <= Len(s) /\ k + 1 \in Nat
  BY LenProperties
<1>2. u \in Seq(S) /\ Len(u) = k /\ \A i \in 1..k : u[i] = s[i]
  <2>1. \A i \in 1..k : s[i] \in S
    BY <1>1, ElementOfSeq
  <2> QED BY <1>1, <2>1, SubSeqProperties
<1>3. v \in Seq(S) /\ Len(v) = Len(s) - k /\ \A i \in 1..Len(s) - k : v[i] = s[k + i]
  <2>1. \A i \in k + 1..Len(s) : s[i] \in S
    BY <1>1, ElementOfSeq
  <2> QED BY <1>1, <2>1, SubSeqProperties
<1> HIDE DEF u, v
<1>4. /\ u \o v \in Seq(S) /\ Len(u \o v) = Len(u) + Len(v)
      /\ \A i \in 1..Len(u) + Len(v) :
           (u \o v)[i] = IF i <= Len(u) THEN u[i] ELSE v[i - Len(u)]
  BY <1>2, <1>3, ConcatProperties
<1>5. Len(u \o v) = Len(s)
  BY <1>1, <1>2, <1>3, <1>4
<1>6. ASSUME NEW i \in 1..Len(s) PROVE (u \o v)[i] = s[i]
  <2>1. i \in 1..Len(u) + Len(v)
    BY <1>1, <1>2, <1>3
  <2>2. CASE i <= k
    BY <1>1, <1>2, <1>4, <2>1, <2>2
  <2>3. CASE ~(i <= k)
    <3>1. i - k \in 1..Len(s) - k /\ k + (i - k) = i
      BY <1>1, <2>3
    <3>2. (u \o v)[i] = v[i - k]
      BY <1>2, <1>4, <2>1, <2>3
    <3>3. v[i - k] = s[k + (i - k)]
      BY <1>3, <3>1
    <3> QED BY <3>1, <3>2, <3>3
  <2> QED BY <2>2, <2>3
<1>7. u \o v = s
  BY <1>4, <1>5, <1>6, SeqEqual
<1> QED BY <1>2, <1>3, <1>7 DEF u, v

LEMMA FlattensExist ==
  ASSUME NEW s, NEW m \in Nat
  PROVE  \E f : f = [i \in 1..m |-> IF i = 1 THEN s[i] ELSE f[i - 1] \o s[i]]
<1> DEFINE Is(f, k) == f = [i \in 1..k |-> IF i = 1 THEN s[i] ELSE f[i - 1] \o s[i]]
           N == {k \in Nat : \E f : Is(f, k)}
<1>1. 0 \in N
  <2> DEFINE f == [i \in 1..0 |-> s]
  <2>1. Is(f, 0)
    OBVIOUS
  <2> QED BY <2>1
<1>2. ASSUME NEW k \in Nat, k \in N PROVE k + 1 \in N
  <2>1. PICK f : Is(f, k)
    BY <1>2
  <2> DEFINE x == IF k = 0 THEN s[1] ELSE f[k] \o s[k + 1]
             g == [i \in 1..k + 1 |-> IF i = k + 1 THEN x ELSE f[i]]
  <2>2. \A i \in 1..k : f[i] = IF i = 1 THEN s[i] ELSE f[i - 1] \o s[i]
    BY <2>1
  <2>3. \A i \in 1..k + 1 : g[i] = IF i = k + 1 THEN x ELSE f[i]
    OBVIOUS
  <2> HIDE DEF x
  <2>4. ASSUME NEW i \in 1..k + 1
        PROVE  g[i] = IF i = 1 THEN s[i] ELSE g[i - 1] \o s[i]
    <3>1. CASE i # k + 1
      <4>1. i \in 1..k /\ g[i] = f[i]
        BY <2>3, <3>1
      <4>2. i # 1 => g[i - 1] = f[i - 1]
        BY <2>3, <4>1
      <4> QED BY <2>2, <4>1, <4>2
    <3>2. CASE i = k + 1
      <4>1. g[i] = x
        BY <2>3, <3>2
      <4>2. CASE k = 0
        BY <3>2, <4>1, <4>2 DEF x
      <4>3. CASE k # 0
        <5>1. i - 1 = k /\ k \in 1..k + 1 /\ k # k + 1 /\ i # 1
          BY <3>2, <4>3
        <5>2. g[i - 1] = f[k]
          BY <2>3, <5>1
        <5>3. x = f[k] \o s[i]
          BY <3>2, <4>3 DEF x
        <5> QED BY <4>1, <5>1, <5>2, <5>3
      <4> QED BY <4>2, <4>3
    <3> QED BY <3>1, <3>2
  <2>5. Is(g, k + 1)
    BY <2>4
  <2> HIDE DEF g, Is
  <2>6. \E h : Is(h, k + 1)
    BY <2>5
  <2> QED BY <2>6
<1> HIDE DEF N
<1>3. Nat \subseteq N
  BY <1>1, <1>2, AllNaturals
<1> QED BY <1>3 DEF N

\* The partial results of flattening s.
Steps(s, f) ==
  /\ Len(s) > 0 => f[1] = s[1]
  /\ \A i \in 1..Len(s) : i # 1 => f[i] = f[i - 1] \o s[i]

LEMMA FlattenIs ==
  ASSUME NEW S, NEW s \in Seq(S), s # <<>>
  PROVE  \E f : Steps(s, f) /\ FlattenSeq(s) = f[Len(s)]
<1> DEFINE m == Len(s)
           f == CHOOSE f : f = [i \in 1..m |-> IF i = 1 THEN s[i] ELSE f[i - 1] \o s[i]]
<1>1. m \in Nat /\ m # 0
  BY EmptySeq
<1>2. f = [i \in 1..m |-> IF i = 1 THEN s[i] ELSE f[i - 1] \o s[i]]
  <2> HIDE DEF m
  <2>1. \E g : g = [i \in 1..m |-> IF i = 1 THEN s[i] ELSE g[i - 1] \o s[i]]
    BY <1>1, FlattensExist
  <2> QED BY <2>1, Zenon
<1>3. FlattenSeq(s) = f[m]
  BY <1>1, Zenon DEF FlattenSeq
<1> HIDE DEF f
<1>4. Steps(s, f)
  <2>1. \A i \in 1..m : f[i] = IF i = 1 THEN s[i] ELSE f[i - 1] \o s[i]
    BY <1>2
  <2>2. m > 0 => 1 \in 1..m
    BY <1>1
  <2> QED BY <2>1, <2>2 DEF Steps
<1> QED BY <1>3, <1>4

LEMMA FlattenOfNone == FlattenSeq(<<>>) = <<>>
BY DEF FlattenSeq

\* t goes on from where s ends.
BeginsAlike(s, t) ==
  Len(s) \in Nat /\ Len(t) \in Nat /\ Len(s) <= Len(t) /\ \A i \in 1..Len(s) : s[i] = t[i]

\* The steps are those of any sequence that begins alike.
LEMMA StepsAgree ==
  ASSUME NEW s, NEW t, NEW f, NEW g, Steps(s, f), Steps(t, g), BeginsAlike(s, t)
  PROVE  \A i \in 1..Len(s) : f[i] = g[i]
<1> DEFINE N == {n \in Nat : n \in 1..Len(s) => f[n] = g[n]}
<1> USE DEF BeginsAlike
<1>1. 0 \in N
  OBVIOUS
<1>2. ASSUME NEW n \in Nat, n \in N PROVE n + 1 \in N
  <2> SUFFICES ASSUME n + 1 \in 1..Len(s) PROVE f[n + 1] = g[n + 1]
    OBVIOUS
  <2>1. n + 1 \in 1..Len(t) /\ s[n + 1] = t[n + 1]
    OBVIOUS
  <2>2. CASE n = 0
    <3>1. f[1] = s[1] /\ g[1] = t[1]
      BY <2>2, <2>1 DEF Steps
    <3> QED BY <2>1, <2>2, <3>1
  <2>3. CASE n # 0
    <3>1. n + 1 # 1 /\ (n + 1) - 1 = n /\ n \in 1..Len(s)
      BY <2>3
    <3>2. f[n + 1] = f[(n + 1) - 1] \o s[n + 1] /\ g[n + 1] = g[(n + 1) - 1] \o t[n + 1]
      BY <2>1, <3>1 DEF Steps
    <3>3. f[n] = g[n]
      BY <1>2, <3>1
    <3> QED BY <2>1, <3>1, <3>2, <3>3
  <2> QED BY <2>2, <2>3
<1> HIDE DEF N
<1>3. Nat \subseteq N
  BY <1>1, <1>2, AllNaturals
<1> QED BY <1>3 DEF N

LEMMA FlattenOfSequence ==
  ASSUME NEW T, NEW s \in Seq(Seq(T)) PROVE FlattenSeq(s) \in Seq(T)
<1>1. CASE s = <<>>
  <2>1. FlattenSeq(s) = <<>>
    BY <1>1, FlattenOfNone
  <2> QED BY <2>1, EmptySeq
<1>2. CASE s # <<>>
  <2>1. PICK f : Steps(s, f) /\ FlattenSeq(s) = f[Len(s)]
    BY <1>2, FlattenIs
  <2> DEFINE N == {n \in Nat : n \in 1..Len(s) => f[n] \in Seq(T)}
  <2>2. 0 \in N
    OBVIOUS
  <2>3. ASSUME NEW n \in Nat, n \in N PROVE n + 1 \in N
    <3> SUFFICES ASSUME n + 1 \in 1..Len(s) PROVE f[n + 1] \in Seq(T)
      OBVIOUS
    <3>1. s[n + 1] \in Seq(T)
      BY ElementOfSeq
    <3>2. CASE n = 0
      <4>1. f[1] = s[1]
        BY <2>1, <3>2 DEF Steps
      <4> QED BY <3>1, <3>2, <4>1
    <3>3. CASE n # 0
      <4>1. n + 1 # 1 /\ (n + 1) - 1 = n /\ n \in 1..Len(s)
        BY <3>3
      <4>2. f[n + 1] = f[(n + 1) - 1] \o s[n + 1]
        BY <2>1, <4>1 DEF Steps
      <4>3. f[n] \in Seq(T)
        BY <2>3, <4>1
      <4> QED BY <3>1, <4>1, <4>2, <4>3, ConcatProperties
    <3> QED BY <3>2, <3>3
  <2> HIDE DEF N
  <2>4. Nat \subseteq N
    BY <2>2, <2>3, AllNaturals
  <2>5. Len(s) \in Nat /\ Len(s) # 0
    BY <1>2, EmptySeq
  <2>6. Len(s) \in 1..Len(s)
    BY <2>5
  <2> QED BY <2>1, <2>4, <2>5, <2>6 DEF N
<1> QED BY <1>1, <1>2

LEMMA FlattenOn ==
  ASSUME NEW T, NEW s \in Seq(Seq(T)), NEW x \in Seq(T)
  PROVE  FlattenSeq(Append(s, x)) = FlattenSeq(s) \o x
<1> DEFINE a == Append(s, x)
<1>1. /\ a \in Seq(Seq(T)) /\ a # <<>> /\ Len(a) = Len(s) + 1 /\ a[Len(s) + 1] = x
      /\ \A i \in 1..Len(s) : a[i] = s[i]
  BY AppendProperties
<1> HIDE DEF a
<1>2. PICK f : Steps(a, f) /\ FlattenSeq(a) = f[Len(a)]
  BY <1>1, FlattenIs
<1>3. CASE s = <<>>
  <2>1. FlattenSeq(s) = <<>> /\ Len(s) = 0
    BY <1>3, FlattenOfNone, EmptySeq
  <2>2. FlattenSeq(a) = f[1] /\ f[1] = a[1] /\ a[1] = x
    BY <1>1, <1>2, <2>1 DEF Steps
  <2>3. <<>> \o x = x
    BY ConcatEmptySeq
  <2> QED BY <2>1, <2>2, <2>3 DEF a
<1>4. CASE s # <<>>
  <2>1. PICK g : Steps(s, g) /\ FlattenSeq(s) = g[Len(s)]
    BY <1>4, FlattenIs
  <2>2. Len(s) \in Nat /\ Len(s) # 0
    BY <1>4, EmptySeq
  <2>3. Len(s) <= Len(a) /\ Len(s) \in 1..Len(s) /\ Len(a) \in 1..Len(a) /\ Len(a) # 1
        /\ Len(a) - 1 = Len(s)
    BY <1>1, <2>2
  <2>4. \A i \in 1..Len(s) : s[i] = a[i]
    BY <1>1
  <2>5. \A i \in 1..Len(s) : g[i] = f[i]
    <3>1. Steps(s, g) /\ Steps(a, f)
      BY <1>2, <2>1
    <3>2. BeginsAlike(s, a)
      BY <1>1, <2>2, <2>3, <2>4 DEF BeginsAlike
    <3> QED BY <3>1, <3>2, StepsAgree
  <2>6. g[Len(s)] = f[Len(s)]
    BY <2>3, <2>5
  <2>7. f[Len(a)] = f[Len(a) - 1] \o a[Len(a)]
    BY <1>2, <2>3 DEF Steps
  <2> QED BY <1>1, <1>2, <2>1, <2>3, <2>6, <2>7 DEF a
<1> QED BY <1>3, <1>4

LEMMA FlattenOne == ASSUME NEW T, NEW x \in Seq(T) PROVE FlattenSeq(<<x>>) = x
<1>1. <<>> \in Seq(Seq(T)) /\ <<x>> = Append(<<>>, x)
  BY EmptySeq
<1>2. FlattenSeq(<<x>>) = <<>> \o x
  BY <1>1, FlattenOn, FlattenOfNone
<1> QED BY <1>2, ConcatEmptySeq

-----------------------------------------------------------------------------
(* DeclarativeAdapter: the texts of a reply. *)

LEMMA FunctionIsSeq == ASSUME NEW S, NEW n \in Nat, NEW f \in [1..n -> S] PROVE f \in Seq(S)
OBVIOUS

LEMMA ThoseAre ==
  ASSUME NEW S, NEW s \in Seq(S), NEW places PROVE Those(s, places) \in Seq(S)
<1> DEFINE f == [i \in DOMAIN s |-> IF i \in places THEN <<s[i]>> ELSE <<>>]
<1>1. DOMAIN s = 1..Len(s) /\ Len(s) \in Nat
  BY LenProperties
<1>2. ASSUME NEW i \in 1..Len(s)
      PROVE  (IF i \in places THEN <<s[i]>> ELSE <<>>) \in Seq(S)
  <2>1. s[i] \in S
    BY ElementOfSeq
  <2>2. <<s[i]>> \in Seq(S) /\ <<>> \in Seq(S)
    BY <2>1
  <2> QED BY <2>2
<1>3. f \in [1..Len(s) -> Seq(S)]
  BY <1>1, <1>2
<1> HIDE DEF f
<1>4. f \in Seq(Seq(S))
  BY <1>1, <1>3, FunctionIsSeq
<1>5. FlattenSeq(f) \in Seq(S)
  BY <1>4, FlattenOfSequence
<1> QED BY <1>5, Zenon DEF Those, f

LEMMA TextsAre ==
  ASSUME NEW C, NEW ls \in Seq([text : Seq(C), json : BOOLEAN])
  PROVE  Texts(ls) \in Seq(Seq(C))
<1>1. DOMAIN ls = 1..Len(ls) /\ Len(ls) \in Nat
  BY LenProperties
<1>2. ASSUME NEW i \in 1..Len(ls) PROVE ls[i].text \in Seq(C)
  <2>1. ls[i] \in [text : Seq(C), json : BOOLEAN]
    BY ElementOfSeq
  <2> QED BY <2>1
<1>3. Texts(ls) \in [1..Len(ls) -> Seq(C)]
  <2> DEFINE f == [i \in DOMAIN ls |-> ls[i].text]
  <2>1. f \in [1..Len(ls) -> Seq(C)]
    BY <1>1, <1>2
  <2> QED BY <2>1, Zenon DEF Texts
<1> QED BY <1>1, <1>3, FunctionIsSeq

LEMMA EventsAre ==
  ASSUME NEW C, NEW reply, reply.lines \in Seq([text : Seq(C), json : BOOLEAN])
  PROVE  Events(reply) \in Seq(Seq(C))
<1> DEFINE frames == Those(reply.lines, {i \in DOMAIN reply.lines : reply.lines[i].json})
           d == Decoded(reply)
<1>1. frames \in Seq([text : Seq(C), json : BOOLEAN])
  BY ThoseAre
<1> HIDE DEF frames
<1>2. Texts(frames) \in Seq(Seq(C)) /\ Texts(reply.lines) \in Seq(Seq(C))
  BY <1>1, TextsAre
<1>3. FlattenSeq(Texts(reply.lines)) \in Seq(C)
  BY <1>2, FlattenOfSequence
<1>4. <<FlattenSeq(Texts(reply.lines))>> \in Seq(Seq(C))
  BY <1>3
<1>5. d = IF reply.type # "other" THEN [stream |-> TRUE, events |-> Texts(reply.lines)]
          ELSE IF frames = <<>>
          THEN [stream |-> FALSE, events |-> <<FlattenSeq(Texts(reply.lines))>>]
          ELSE [stream |-> Len(frames) > 1, events |-> Texts(frames)]
  BY Zenon DEF Decoded, frames
<1>6. d.events \in Seq(Seq(C))
  <2>1. CASE reply.type # "other"
    <3>1. d = [stream |-> TRUE, events |-> Texts(reply.lines)]
      BY <1>5, <2>1, Zenon
    <3> QED BY <1>2, <3>1
  <2>2. CASE reply.type = "other" /\ frames = <<>>
    <3>1. d = [stream |-> FALSE, events |-> <<FlattenSeq(Texts(reply.lines))>>]
      BY <1>5, <2>2, Zenon
    <3> QED BY <1>4, <3>1
  <2>3. CASE reply.type = "other" /\ frames # <<>>
    <3>1. d = [stream |-> Len(frames) > 1, events |-> Texts(frames)]
      BY <1>5, <2>3, Zenon
    <3> QED BY <1>2, <3>1
  <2> QED BY <2>1, <2>2, <2>3
<1> HIDE DEF d
<1>7. Those(d.events, {i \in DOMAIN d.events : d.events[i] # <<>>}) \in Seq(Seq(C))
  BY <1>6, ThoseAre
<1> QED BY <1>7, Zenon DEF Events, d

LEMMA PrefixIs ==
  ASSUME NEW S, NEW s \in Seq(S), NEW t \in Seq(S)
  PROVE  IsPrefix(s, t) <=> Len(s) <= Len(t) /\ \A i \in 1..Len(s) : s[i] = t[i]
<1>1. Len(s) \in Nat /\ Len(t) \in Nat
  BY LenProperties
<1>2. SubSeq(s, 1, Len(s)) = s
  BY SubSeqFull
<1> SUFFICES ASSUME Len(s) <= Len(t)
             PROVE  SubSeq(t, 1, Len(s)) = s <=> \A i \in 1..Len(s) : s[i] = t[i]
  BY <1>2, Zenon DEF IsPrefix
<1> DEFINE u == SubSeq(t, 1, Len(s))
<1>3. u \in Seq(S) /\ Len(u) = Len(s) /\ \A i \in 1..Len(s) : u[i] = t[i]
  <2>1. Len(s) \in 0..Len(t)
    BY <1>1
  <2> QED BY <2>1, Split
<1> HIDE DEF u
<1>4. (\A i \in 1..Len(s) : s[i] = t[i]) => u = s
  <2> SUFFICES ASSUME \A i \in 1..Len(s) : s[i] = t[i] PROVE u = s
    OBVIOUS
  <2>1. \A i \in 1..Len(u) : u[i] = s[i]
    BY <1>3
  <2> QED BY <1>3, <2>1, SeqEqual
<1>5. u = s => \A i \in 1..Len(s) : s[i] = t[i]
  BY <1>3
<1> QED BY <1>4, <1>5 DEF u

LEMMA SuffixIsShorter ==
  ASSUME NEW S, NEW s \in Seq(S), NEW t \in Seq(S), IsSuffix(s, t) PROVE Len(s) <= Len(t)
<1>1. Len(s) \in Nat /\ Len(t) \in Nat
  BY LenProperties
<1>2. Len(Reverse(s)) = Len(s) /\ Len(Reverse(t)) = Len(t)
  BY <1>1 DEF Reverse
<1>3. Len(Reverse(s)) <= Len(Reverse(t))
  BY Zenon DEF IsSuffix, IsPrefix
<1> QED BY <1>2, <1>3

\* A set of places that is not empty has a first and a last.
LEMMA PlacesEnd ==
  ASSUME NEW n \in Nat, NEW P \in SUBSET (1..n), P # {}
  PROVE  /\ Max(P) \in P /\ \A i \in P : i <= Max(P)
         /\ Min(P) \in P /\ \A i \in P : Min(P) <= i
<1> DEFINE Ends(Q) == (\E x \in Q : \A y \in Q : x >= y) /\ (\E x \in Q : \A y \in Q : x =< y)
           N == {k \in Nat : \A Q \in SUBSET (1..k) : Q # {} => Ends(Q)}
<1>1. 0 \in N
  <2>1. 1..0 = {}
    OBVIOUS
  <2> QED BY <2>1
<1>2. ASSUME NEW k \in Nat, k \in N PROVE k + 1 \in N
  <2> SUFFICES ASSUME NEW Q \in SUBSET (1..k + 1), Q # {} PROVE Ends(Q)
    OBVIOUS
  <2> DEFINE R == Q \intersect (1..k)
  <2>1. R \in SUBSET (1..k) /\ \A y \in Q : y = k + 1 \/ y \in R
    OBVIOUS
  <2>2. CASE R = {}
    <3>1. k + 1 \in Q /\ \A y \in Q : y = k + 1
      BY <2>1, <2>2
    <3>2. \A y \in Q : k + 1 >= y /\ k + 1 =< y
      BY <3>1
    <3> QED BY <3>1, <3>2
  <2>3. CASE R # {}
    <3>1. Ends(R)
      BY <1>2, <2>1, <2>3
    <3>2. PICK a \in R : \A y \in R : a >= y
      BY <3>1
    <3>3. PICK b \in R : \A y \in R : b =< y
      BY <3>1
    <3>4. b \in Q /\ \A y \in Q : b =< y
      BY <2>1, <3>3
    <3>5. \E x \in Q : \A y \in Q : x >= y
      <4>1. CASE k + 1 \in Q
        BY <2>1, <4>1
      <4>2. CASE k + 1 \notin Q
        BY <2>1, <3>2, <4>2
      <4> QED BY <4>1, <4>2
    <3> QED BY <3>4, <3>5
  <2> QED BY <2>2, <2>3
<1> HIDE DEF N
<1>3. n \in N
  BY <1>1, <1>2, AllNaturals
<1>4. Ends(P)
  BY <1>3 DEF N
<1>5. Max(P) \in P /\ \A y \in P : Max(P) >= y
  BY <1>4, Zenon DEF Max
<1>6. Min(P) \in P /\ \A y \in P : Min(P) =< y
  BY <1>4, Zenon DEF Min
<1> QED BY <1>5, <1>6

LEMMA InkedEnds ==
  ASSUME NEW S, NEW t \in Seq(S), Inked(t) # {}
  PROVE  /\ Inked(t) \subseteq 1..Len(t)
         /\ Max(Inked(t)) \in Inked(t) /\ \A i \in Inked(t) : i <= Max(Inked(t))
         /\ Min(Inked(t)) \in Inked(t) /\ \A i \in Inked(t) : Min(Inked(t)) <= i
<1>1. DOMAIN t = 1..Len(t) /\ Len(t) \in Nat
  BY LenProperties
<1>2. Inked(t) \in SUBSET (1..Len(t))
  BY <1>1 DEF Inked
<1> QED BY <1>1, <1>2, PlacesEnd

\* A trimmed text begins with a character that is not blank.
LEMMA TrimmedBegins ==
  ASSUME NEW S, NEW w \in Seq(S), w # <<>>, Trim(w) = w PROVE w[1] # Blank
<1> DEFINE a == Min(Inked(w))
           b == Max(Inked(w))
<1>1. Inked(w) # {}
  BY Zenon DEF Trim
<1>2. /\ Inked(w) \subseteq 1..Len(w) /\ Len(w) \in Nat
      /\ a \in Inked(w) /\ \A i \in Inked(w) : i <= b
      /\ b \in Inked(w) /\ \A i \in Inked(w) : a <= i
  BY <1>1, InkedEnds, LenProperties
<1>3. w = SubSeq(w, a, b)
  BY <1>1, Zenon DEF Trim
<1> HIDE DEF a, b
<1>4. a \in 1..Len(w) /\ b \in 1..Len(w) /\ a <= b
  BY <1>2
<1>5. Len(SubSeq(w, a, b)) = b - a + 1
  <2>1. \A i \in a..b : w[i] \in S
    BY <1>2, <1>4, ElementOfSeq
  <2>2. a \in Int /\ b \in Int
    BY <1>4
  <2>3. Len(SubSeq(w, a, b)) = IF a <= b THEN b - a + 1 ELSE 0
    BY <2>1, <2>2, SubSeqProperties
  <2> QED BY <1>4, <2>3
<1>6. Len(w) = b - a + 1
  BY <1>3, <1>5, Zenon
<1>7. a = 1
  BY <1>2, <1>4, <1>6
<1> QED BY <1>2, <1>7 DEF Inked

\* t cut at its last character that is not blank.
CutAt(t, u, k) ==
  /\ k \in 0..Len(t) /\ Len(u) = k /\ \A i \in 1..k : u[i] = t[i]
  /\ k # 0 => k \in Inked(t)
  /\ \A i \in Inked(t) : i <= k

LEMMA TrimIs ==
  ASSUME NEW S, NEW t \in Seq(S), t # <<>> => t[1] # Blank
  PROVE  Trim(t) \in Seq(S) /\ \E k : CutAt(t, Trim(t), k)
<1>1. DOMAIN t = 1..Len(t) /\ Len(t) \in Nat
  BY LenProperties
<1>2. CASE t = <<>>
  <2>1. Len(t) = 0
    BY <1>2, EmptySeq
  <2>2. Inked(t) = {}
    BY <1>1, <2>1 DEF Inked
  <2>3. Trim(t) = <<>>
    BY <2>2, Zenon DEF Trim
  <2>4. <<>> \in Seq(S) /\ Len(<<>>) = 0
    BY EmptySeq
  <2>5. CutAt(t, <<>>, 0)
    BY <1>1, <2>1, <2>2, <2>4 DEF CutAt
  <2> QED BY <2>3, <2>4, <2>5
<1>3. CASE t # <<>>
  <2> DEFINE k == Max(Inked(t))
  <2>1. 1 \in Inked(t)
    <3>1. Len(t) # 0
      BY <1>3, EmptySeq
    <3>2. 1 \in DOMAIN t
      BY <1>1, <3>1
    <3> QED BY <1>3, <3>2 DEF Inked
  <2>2. /\ Inked(t) \subseteq 1..Len(t)
        /\ k \in Inked(t) /\ \A i \in Inked(t) : i <= k
        /\ Min(Inked(t)) \in Inked(t) /\ \A i \in Inked(t) : Min(Inked(t)) <= i
    BY <2>1, InkedEnds
  <2>3. Min(Inked(t)) = 1
    <3>1. Min(Inked(t)) <= 1 /\ Min(Inked(t)) \in 1..Len(t)
      BY <2>1, <2>2
    <3> QED BY <1>1, <3>1
  <2>4. Trim(t) = SubSeq(t, 1, k)
    <3>1. Trim(t) = SubSeq(t, Min(Inked(t)), k)
      BY <2>1, Zenon DEF Trim
    <3> QED BY <2>3, <3>1, Zenon
  <2> HIDE DEF k
  <2>5. k \in 0..Len(t)
    BY <1>1, <2>2
  <2>6. /\ SubSeq(t, 1, k) \in Seq(S) /\ Len(SubSeq(t, 1, k)) = k
        /\ \A i \in 1..k : SubSeq(t, 1, k)[i] = t[i]
    BY <2>5, Split
  <2>7. CutAt(t, SubSeq(t, 1, k), k)
    BY <2>2, <2>5, <2>6 DEF CutAt
  <2> QED BY <2>4, <2>6, <2>7
<1> QED BY <1>2, <1>3

LEMMA TrimGrows ==
  ASSUME NEW S, NEW s \in Seq(S), NEW t \in Seq(S), t # <<>> => t[1] # Blank, IsPrefix(s, t)
  PROVE  Trim(s) \in Seq(S) /\ Trim(t) \in Seq(S) /\ IsPrefix(Trim(s), Trim(t))
<1>1. Len(s) <= Len(t) /\ \A i \in 1..Len(s) : s[i] = t[i]
  BY PrefixIs
<1>2. /\ DOMAIN s = 1..Len(s) /\ Len(s) \in Nat
      /\ DOMAIN t = 1..Len(t) /\ Len(t) \in Nat
  BY LenProperties
<1>3. s # <<>> => s[1] # Blank
  <2> SUFFICES ASSUME s # <<>> PROVE s[1] # Blank
    OBVIOUS
  <2>1. Len(s) # 0
    BY EmptySeq
  <2>2. Len(t) # 0 /\ s[1] = t[1]
    BY <1>1, <1>2, <2>1
  <2>3. t # <<>>
    BY <2>2, EmptySeq
  <2> QED BY <2>2, <2>3
<1>4. Trim(s) \in Seq(S) /\ Trim(t) \in Seq(S)
  BY <1>3, TrimIs
<1>5. PICK j : CutAt(s, Trim(s), j)
  BY <1>3, TrimIs
<1>6. PICK k : CutAt(t, Trim(t), k)
  BY TrimIs
<1>7. j <= k
  <2>1. CASE j = 0
    BY <1>2, <1>6, <2>1 DEF CutAt
  <2>2. CASE j # 0
    <3>1. j \in 1..Len(s) /\ s[j] # Blank
      BY <1>2, <1>5, <2>2 DEF CutAt, Inked
    <3>2. j \in Inked(t)
      BY <1>1, <1>2, <3>1 DEF Inked
    <3> QED BY <1>6, <3>2 DEF CutAt
  <2> QED BY <2>1, <2>2
<1>8. Len(Trim(s)) = j /\ Len(Trim(t)) = k /\ j \in 0..Len(s) /\ k \in 0..Len(t)
  BY <1>5, <1>6 DEF CutAt
<1>9. \A i \in 1..j : Trim(s)[i] = Trim(t)[i]
  <2> SUFFICES ASSUME NEW i \in 1..j PROVE Trim(s)[i] = Trim(t)[i]
    OBVIOUS
  <2>1. i \in 1..k /\ i \in 1..Len(s)
    BY <1>2, <1>7, <1>8
  <2>2. Trim(s)[i] = s[i] /\ Trim(t)[i] = t[i]
    BY <1>5, <1>6, <2>1 DEF CutAt
  <2> QED BY <1>1, <2>1, <2>2
<1> QED BY <1>4, <1>7, <1>8, <1>9, PrefixIs

LEMMA NoneIsPrefix == ASSUME NEW S, NEW t \in Seq(S) PROVE IsPrefix(<<>>, t)
<1>1. <<>> \in Seq(S) /\ Len(<<>>) = 0 /\ Len(t) \in Nat
  BY EmptySeq, LenProperties
<1> DEFINE e == <<>>
<1> HIDE DEF e
<1>2. e \in Seq(S) /\ Len(e) = 0
  BY <1>1 DEF e
<1>3. Len(e) <= Len(t) /\ \A i \in 1..Len(e) : e[i] = t[i]
  BY <1>1, <1>2
<1>4. IsPrefix(e, t)
  BY <1>2, <1>3, PrefixIs
<1> QED BY <1>4 DEF e

LEMMA JoinStepIs ==
  ASSUME NEW S, NEW out \in Seq(S), NEW raw, Trim(raw) \in Seq(S), IsPrefix(out, Trim(raw))
  PROVE  JoinStep(out, raw) = Trim(raw)
<1> DEFINE next == Trim(raw)
<1>1. next \in Seq(S) /\ IsPrefix(out, next)
  OBVIOUS
<1>2. JoinStep(out, raw) = IF next = <<>> \/ IsSuffix(next, out) THEN out
                           ELSE IF IsPrefix(out, next) THEN next
                           ELSE out \o next
  BY Zenon DEF JoinStep
<1> HIDE DEF next
<1>3. Len(out) \in Nat /\ Len(next) \in Nat
  BY <1>1, LenProperties
<1>4. Len(out) <= Len(next) /\ \A i \in 1..Len(out) : out[i] = next[i]
  BY <1>1, PrefixIs
<1>5. CASE next = <<>> \/ IsSuffix(next, out)
  <2>1. Len(next) <= Len(out)
    <3>1. CASE next = <<>>
      BY <1>3, <3>1, EmptySeq
    <3>2. CASE IsSuffix(next, out)
      BY <1>1, <3>2, SuffixIsShorter
    <3> QED BY <1>5, <3>1, <3>2
  <2>2. Len(out) = Len(next)
    BY <1>3, <1>4, <2>1
  <2>3. out = next
    BY <1>1, <1>4, <2>2, SeqEqual
  <2> QED BY <1>2, <1>5, <2>3, Zenon DEF next
<1>6. CASE ~(next = <<>> \/ IsSuffix(next, out))
  BY <1>1, <1>2, <1>6, Zenon DEF next
<1> QED BY <1>5, <1>6

\* What Growing says of texts, place by place.
Grown(ts) ==
  /\ \A i \in 2..Len(ts) : IsPrefix(ts[i - 1], ts[i])
  /\ \A i \in 1..Len(ts) : ts[i] # <<>> => ts[i][1] # Blank
  /\ ts # <<>> => Trim(ts[Len(ts)]) = ts[Len(ts)]

LEMMA GrowingIs ==
  ASSUME NEW S, NEW ts \in Seq(Seq(S)), Growing(ts) PROVE Grown(ts)
<1>1. DOMAIN ts = 1..Len(ts) /\ Len(ts) \in Nat
  BY LenProperties
<1>2. \A i, j \in 1..Len(ts) : i < j => IsPrefix(ts[i], ts[j])
  BY <1>1, Zenon DEF Growing
<1>3. ASSUME NEW i \in 2..Len(ts) PROVE IsPrefix(ts[i - 1], ts[i])
  <2>1. i - 1 \in 1..Len(ts) /\ i \in 1..Len(ts) /\ i - 1 < i
    BY <1>1
  <2> QED BY <1>2, <2>1
<1> DEFINE n == Len(ts)
           w == ts[n]
<1>4. ts # <<>> => n \in 1..n /\ Trim(w) = w
  <2> SUFFICES ASSUME ts # <<>> PROVE n \in 1..n /\ Trim(w) = w
    OBVIOUS
  <2>1. n # 0
    BY EmptySeq
  <2>2. n \in 1..n
    BY <1>1, <2>1
  <2>3. Trim(w) = w
    BY <1>1, <2>2, Zenon DEF Growing
  <2> QED BY <2>2, <2>3
<1>5. ASSUME NEW i \in 1..n, ts[i] # <<>> PROVE ts[i][1] # Blank
  <2>1. ts # <<>>
    BY EmptySeq
  <2>2. ts[i] \in Seq(S) /\ w \in Seq(S) /\ Trim(w) = w
    BY <1>4, <2>1, ElementOfSeq
  <2>3. CASE i = n
    BY <1>5, <2>2, <2>3, TrimmedBegins
  <2>4. CASE i # n
    <3>1. i < n /\ n \in 1..n
      <4> HIDE DEF n, w
      <4>1. n \in Nat
        BY <1>1 DEF n
      <4> QED BY <2>4, <4>1
    <3>2. IsPrefix(ts[i], w)
      BY <1>2, <3>1
    <3> HIDE DEF w
    <3>3. Len(ts[i]) <= Len(w) /\ \A k \in 1..Len(ts[i]) : ts[i][k] = w[k]
      BY <2>2, <3>2, PrefixIs
    <3>4. Len(ts[i]) \in Nat /\ Len(ts[i]) # 0 /\ Len(w) \in Nat
      BY <1>5, <2>2, EmptySeq, LenProperties
    <3>5. ts[i][1] = w[1] /\ Len(w) # 0
      BY <3>3, <3>4
    <3>6. w # <<>>
      BY <3>5, EmptySeq
    <3>7. w[1] # Blank
      BY <2>2, <3>6, TrimmedBegins
    <3> QED BY <3>5, <3>7
  <2> QED BY <2>3, <2>4
<1> QED BY <1>3, <1>4, <1>5 DEF Grown

\* Joined, texts that grow are the last of them.
LEMMA JoinIs ==
  ASSUME NEW S, NEW ts \in Seq(Seq(S)), Grown(ts), ts # <<>>
  PROVE  JoinSmart(ts) = ts[Len(ts)]
<1> DEFINE n == Len(ts)
           Out(i) == IF i = 0 THEN <<>> ELSE Trim(ts[i])
           Is(f) == f = [i \in 0..n |-> IF i = 0 THEN <<>> ELSE JoinStep(f[i - 1], ts[i])]
           f == CHOOSE f : Is(f)
<1>1. n \in Nat /\ n # 0
  BY EmptySeq, LenProperties
<1>2. \A i \in 1..n : ts[i] \in Seq(S) /\ Trim(ts[i]) \in Seq(S)
  <2> SUFFICES ASSUME NEW i \in 1..n PROVE ts[i] \in Seq(S) /\ Trim(ts[i]) \in Seq(S)
    OBVIOUS
  <2>1. ts[i] \in Seq(S)
    BY ElementOfSeq
  <2> QED BY <2>1, TrimIs DEF Grown
<1>3. ASSUME NEW i \in 1..n PROVE JoinStep(Out(i - 1), ts[i]) = Trim(ts[i])
  <2>1. Out(i - 1) \in Seq(S) /\ IsPrefix(Out(i - 1), Trim(ts[i]))
    <3>1. CASE i = 1
      <4>1. Out(i - 1) = <<>>
        BY <3>1
      <4>2. <<>> \in Seq(S)
        BY EmptySeq
      <4>3. IsPrefix(<<>>, Trim(ts[i]))
        BY <1>2, NoneIsPrefix
      <4> QED BY <4>1, <4>2, <4>3
    <3>2. CASE i # 1
      <4>1. i \in 2..n /\ i - 1 \in 1..n /\ Out(i - 1) = Trim(ts[i - 1])
        BY <1>1, <3>2
      <4>2. IsPrefix(ts[i - 1], ts[i]) /\ (ts[i] # <<>> => ts[i][1] # Blank)
        BY <4>1 DEF Grown
      <4>3. ts[i - 1] \in Seq(S) /\ ts[i] \in Seq(S)
        BY <1>2, <4>1
      <4>4. Trim(ts[i - 1]) \in Seq(S) /\ IsPrefix(Trim(ts[i - 1]), Trim(ts[i]))
        BY <4>2, <4>3, TrimGrows
      <4> QED BY <4>1, <4>4
    <3> QED BY <3>1, <3>2
  <2>2. Trim(ts[i]) \in Seq(S)
    BY <1>2
  <2> HIDE DEF Out
  <2> QED BY <2>1, <2>2, JoinStepIs
<1>4. Is(f)
  <2> DEFINE g == [i \in 0..n |-> Out(i)]
  <2>1. \A i \in 0..n : g[i] = IF i = 0 THEN <<>> ELSE JoinStep(g[i - 1], ts[i])
    <3> SUFFICES ASSUME NEW i \in 0..n
                 PROVE  g[i] = IF i = 0 THEN <<>> ELSE JoinStep(g[i - 1], ts[i])
      OBVIOUS
    <3>1. CASE i = 0
      BY <3>1
    <3>2. CASE i # 0
      <4>1. i \in 1..n /\ i - 1 \in 0..n
        BY <1>1, <3>2
      <4>2. g[i] = Trim(ts[i]) /\ g[i - 1] = Out(i - 1)
        BY <3>2, <4>1
      <4> HIDE DEF g, Out
      <4> QED BY <1>3, <3>2, <4>1, <4>2
    <3> QED BY <3>1, <3>2
  <2>2. g = [i \in 0..n |-> g[i]]
    OBVIOUS
  <2> HIDE DEF g
  <2>3. Is(g)
    BY <2>1, <2>2
  <2> HIDE DEF Is
  <2>4. \E h : Is(h)
    BY <2>3
  <2> QED BY <2>4, Zenon
<1>5. JoinSmart(ts) = f[n]
  BY Zenon DEF JoinSmart
<1> HIDE DEF f
<1>6. f[0] = <<>> /\ \A i \in 1..n : f[i] = JoinStep(f[i - 1], ts[i])
  <2>1. \A i \in 0..n : f[i] = IF i = 0 THEN <<>> ELSE JoinStep(f[i - 1], ts[i])
    BY <1>4
  <2>2. 0 \in 0..n /\ \A i \in 1..n : i \in 0..n /\ i # 0
    BY <1>1
  <2> QED BY <2>1, <2>2
<1> DEFINE N == {i \in Nat : i <= n => f[i] = Out(i)}
<1>7. 0 \in N
  BY <1>6
<1>8. ASSUME NEW i \in Nat, i \in N PROVE i + 1 \in N
  <2> SUFFICES ASSUME i + 1 <= n PROVE f[i + 1] = Out(i + 1)
    OBVIOUS
  <2> DEFINE k == i + 1
  <2>1. k \in 1..n /\ k # 0 /\ k - 1 = i /\ i <= n
    BY <1>1
  <2>2. f[i] = Out(i)
    BY <1>8, <2>1
  <2>3. f[k] = JoinStep(f[k - 1], ts[k])
    BY <1>6, <2>1
  <2>4. JoinStep(Out(k - 1), ts[k]) = Trim(ts[k])
    BY <1>3, <2>1
  <2>5. Out(k) = Trim(ts[k])
    BY <2>1
  <2> HIDE DEF Out
  <2> QED BY <2>1, <2>2, <2>3, <2>4, <2>5
<1> HIDE DEF N
<1>9. n \in N
  BY <1>1, <1>7, <1>8, AllNaturals
<1>10. f[n] = Trim(ts[n])
  BY <1>1, <1>9 DEF N
<1>11. Trim(ts[n]) = ts[n]
  BY Zenon DEF Grown
<1> QED BY <1>5, <1>10, <1>11, Zenon

SeenNone == [text |-> <<>>, deltas |-> <<>>]

LEMMA SeenExists ==
  ASSUME NEW ts, NEW m \in Nat
  PROVE  \E f : f = [n \in 0..m |-> IF n = 0 THEN SeenNone ELSE News(f[n - 1], ts[n])]
<1> DEFINE Is(f, k) == f = [n \in 0..k |-> IF n = 0 THEN SeenNone ELSE News(f[n - 1], ts[n])]
           N == {k \in Nat : \E f : Is(f, k)}
<1>1. 0 \in N
  <2> DEFINE f == [n \in 0..0 |-> SeenNone]
  <2>1. Is(f, 0)
    OBVIOUS
  <2> QED BY <2>1
<1>2. ASSUME NEW k \in Nat, k \in N PROVE k + 1 \in N
  <2>1. PICK f : Is(f, k)
    BY <1>2
  <2> DEFINE x == News(f[k], ts[k + 1])
             g == [n \in 0..k + 1 |-> IF n = k + 1 THEN x ELSE f[n]]
  <2>2. \A n \in 0..k : f[n] = IF n = 0 THEN SeenNone ELSE News(f[n - 1], ts[n])
    BY <2>1
  <2>3. \A n \in 0..k + 1 : g[n] = IF n = k + 1 THEN x ELSE f[n]
    OBVIOUS
  <2>4. ASSUME NEW n \in 0..k + 1
        PROVE  g[n] = IF n = 0 THEN SeenNone ELSE News(g[n - 1], ts[n])
    <3>1. CASE n = 0
      BY <2>2, <2>3, <3>1
    <3>2. CASE n = k + 1
      <4>1. g[n - 1] = f[k] /\ n # 0
        BY <2>3, <3>2
      <4> QED BY <2>3, <3>2, <4>1
    <3>3. CASE n # 0 /\ n # k + 1
      <4>1. n \in 0..k /\ n - 1 \in 0..k + 1 /\ n - 1 # k + 1
        BY <3>3
      <4>2. g[n - 1] = f[n - 1] /\ g[n] = f[n]
        BY <2>3, <3>3, <4>1
      <4> QED BY <2>2, <3>3, <4>1, <4>2
    <3> QED BY <3>1, <3>2, <3>3
  <2>5. Is(g, k + 1)
    BY <2>4
  <2> HIDE DEF g, Is
  <2>6. \E h : Is(h, k + 1)
    BY <2>5
  <2> QED BY <2>6
<1> HIDE DEF N
<1>3. Nat \subseteq N
  BY <1>1, <1>2, AllNaturals
<1> QED BY <1>3 DEF N

\* f holds what was seen of ts after each of its texts.
Sees(ts, f) ==
  f[0] = SeenNone /\ \A i \in 1..Len(ts) : f[i] = News(f[i - 1], ts[i])

LEMMA NewsOfIs ==
  ASSUME NEW S, NEW ts \in Seq(S) PROVE \E f : Sees(ts, f) /\ NewsOf(ts) = f[Len(ts)].deltas
<1> DEFINE n == Len(ts)
           f == CHOOSE f : f = [i \in 0..n |-> IF i = 0 THEN [text |-> <<>>, deltas |-> <<>>]
                                               ELSE News(f[i - 1], ts[i])]
<1>1. n \in Nat
  BY LenProperties
<1>2. f = [i \in 0..n |-> IF i = 0 THEN SeenNone ELSE News(f[i - 1], ts[i])]
  <2> HIDE DEF n
  <2>1. \E g : g = [i \in 0..n |-> IF i = 0 THEN SeenNone ELSE News(g[i - 1], ts[i])]
    BY <1>1, SeenExists
  <2> QED BY <2>1, Zenon DEF SeenNone
<1>3. NewsOf(ts) = f[n].deltas
  BY Zenon DEF NewsOf
<1> HIDE DEF f
<1>4. Sees(ts, f)
  <2>1. \A i \in 0..n : f[i] = IF i = 0 THEN SeenNone ELSE News(f[i - 1], ts[i])
    BY <1>2
  <2>2. 0 \in 0..n /\ \A i \in 1..n : i \in 0..n /\ i # 0
    BY <1>1
  <2> QED BY <2>1, <2>2 DEF Sees
<1> QED BY <1>3, <1>4

\* The deltas spell the text that was seen last.
SeenSpells(seen, t, S) ==
  seen.text = t /\ seen.deltas \in Seq(Seq(S)) /\ FlattenSeq(seen.deltas) = t

LEMMA NewsSpells ==
  ASSUME NEW S, NEW seen, NEW s \in Seq(S), NEW t \in Seq(S), SeenSpells(seen, s, S), IsPrefix(s, t)
  PROVE  SeenSpells(News(seen, t), t, S)
<1>1. seen.text = s /\ seen.deltas \in Seq(Seq(S)) /\ FlattenSeq(seen.deltas) = s
  BY DEF SeenSpells
<1> DEFINE d == SubSeq(t, Len(s) + 1, Len(t))
           u == [text |-> t, deltas |-> Append(seen.deltas, d)]
<1>2. News(seen, t) = IF t = s THEN seen ELSE u
  BY <1>1, Zenon DEF News
<1>3. CASE t = s
  BY <1>1, <1>2, <1>3, Zenon DEF SeenSpells
<1>4. CASE t # s
  <2>1. Len(s) \in Nat /\ Len(t) \in Nat
    BY LenProperties
  <2>2. Len(s) <= Len(t) /\ \A i \in 1..Len(s) : s[i] = t[i]
    BY PrefixIs
  <2>3. Len(s) \in 0..Len(t)
    BY <2>1, <2>2
  <2> DEFINE b == SubSeq(t, 1, Len(s))
  <2>4. /\ b \in Seq(S) /\ d \in Seq(S) /\ Len(b) = Len(s)
        /\ \A i \in 1..Len(s) : b[i] = t[i]
        /\ t = b \o d
    BY <2>3, Split
  <2> HIDE DEF b, d
  <2>5. b = s
    BY <2>2, <2>4, SeqEqual
  <2>6. FlattenSeq(Append(seen.deltas, d)) = s \o d
    BY <1>1, <2>4, FlattenOn
  <2>7. Append(seen.deltas, d) \in Seq(Seq(S))
    BY <1>1, <2>4, AppendProperties
  <2>8. u.text = t /\ u.deltas = Append(seen.deltas, d)
    OBVIOUS
  <2> HIDE DEF u
  <2>9. SeenSpells(u, t, S)
    BY <2>4, <2>5, <2>6, <2>7, <2>8 DEF SeenSpells
  <2> QED BY <1>2, <1>4, <2>9, Zenon
<1> QED BY <1>3, <1>4

\* The news of texts that grow spell the last of them.
LEMMA NewsIs ==
  ASSUME NEW S, NEW ts \in Seq(Seq(S)), Grown(ts), ts # <<>>
  PROVE  NewsOf(ts) \in Seq(Seq(S)) /\ FlattenSeq(NewsOf(ts)) = ts[Len(ts)]
<1> DEFINE n == Len(ts)
           Until(i) == IF i = 0 THEN <<>> ELSE ts[i]
<1>1. n \in Nat /\ n # 0
  BY EmptySeq, LenProperties
<1>2. PICK f : Sees(ts, f) /\ NewsOf(ts) = f[n].deltas
  BY NewsOfIs
<1>3. NewsOf(ts) = f[n].deltas
  BY <1>2
<1>4. f[0] = SeenNone /\ \A i \in 1..n : f[i] = News(f[i - 1], ts[i])
  BY <1>2 DEF Sees
<1> DEFINE N == {i \in Nat : i <= n => SeenSpells(f[i], Until(i), S)}
<1>5. 0 \in N
  <2>1. SeenNone.text = <<>> /\ SeenNone.deltas = <<>>
    BY DEF SeenNone
  <2>2. <<>> \in Seq(Seq(S)) /\ FlattenSeq(<<>>) = <<>>
    BY EmptySeq, FlattenOfNone
  <2>3. SeenSpells(SeenNone, <<>>, S)
    BY <2>1, <2>2, Zenon DEF SeenSpells
  <2> QED BY <1>4, <2>3
<1>6. ASSUME NEW i \in Nat, i \in N PROVE i + 1 \in N
  <2> SUFFICES ASSUME i + 1 <= n PROVE SeenSpells(f[i + 1], Until(i + 1), S)
    OBVIOUS
  <2> DEFINE k == i + 1
  <2>1. k \in 1..n /\ k # 0 /\ k - 1 = i /\ i <= n /\ Until(k) = ts[k]
    BY <1>1
  <2>2. SeenSpells(f[i], Until(i), S)
    BY <1>6, <2>1
  <2>3. f[k] = News(f[i], ts[k])
    BY <1>4, <2>1
  <2>4. Until(i) \in Seq(S) /\ ts[k] \in Seq(S) /\ IsPrefix(Until(i), ts[k])
    <3>1. ts[k] \in Seq(S)
      BY <2>1, ElementOfSeq
    <3>2. CASE i = 0
      <4>1. Until(i) = <<>> /\ <<>> \in Seq(S)
        BY <3>2, EmptySeq
      <4> QED BY <3>1, <4>1, NoneIsPrefix
    <3>3. CASE i # 0
      <4>1. Until(i) = ts[i] /\ i \in 1..n /\ k \in 2..n
        BY <1>1, <2>1, <3>3
      <4>2. ts[i] \in Seq(S)
        BY <4>1, ElementOfSeq
      <4>3. IsPrefix(ts[k - 1], ts[k])
        BY <4>1, Zenon DEF Grown
      <4> QED BY <2>1, <3>1, <4>1, <4>2, <4>3
    <3> QED BY <3>2, <3>3
  <2> HIDE DEF Until, k
  <2>5. SeenSpells(News(f[i], ts[k]), ts[k], S)
    BY <2>2, <2>4, NewsSpells
  <2> QED BY <2>1, <2>3, <2>5 DEF k
<1> HIDE DEF N
<1>7. n \in N
  BY <1>1, <1>5, <1>6, AllNaturals
<1>8. SeenSpells(f[n], ts[n], S)
  BY <1>1, <1>7 DEF N
<1> QED BY <1>3, <1>8, Zenon DEF SeenSpells

\* What is passed on of texts that grow is what they are joined to.
LEMMA DeltasAreContent ==
  ASSUME NEW C, NEW reply, reply.lines \in Seq([text : Seq(C), json : BOOLEAN]),
         Strategy \in {"smart", "last"}, Growing(Events(reply))
  PROVE  FlattenSeq(Deltas(reply)) = Content(reply)
<1> DEFINE ts == Events(reply)
           found == NewsOf(ts)
           w == JoinContent(ts)
<1>1. ts \in Seq(Seq(C)) /\ Growing(ts)
  BY EventsAre
<1>2. Content(reply) = w
  BY DEF Content
<1>3. Deltas(reply) = IF Decoded(reply).stream /\ found # <<>> THEN found
                      ELSE IF w = <<>> THEN <<>> ELSE <<w>>
  BY <1>2, Zenon DEF Deltas
<1> HIDE DEF ts
<1>4. CASE ts = <<>>
  <2>1. w = <<>>
    BY <1>4, Zenon DEF JoinContent
  <2>2. found = <<>>
    <3>1. Len(ts) = 0
      BY <1>4, EmptySeq
    <3>2. PICK f : Sees(ts, f) /\ found = f[Len(ts)].deltas
      BY <1>1, NewsOfIs
    <3>3. f[0] = SeenNone /\ SeenNone.deltas = <<>>
      BY <3>2 DEF Sees, SeenNone
    <3> HIDE DEF found
    <3> QED BY <3>1, <3>2, <3>3
  <2>3. Deltas(reply) = <<>>
    BY <1>3, <2>1, <2>2, Zenon
  <2> QED BY <1>2, <2>1, <2>3, FlattenOfNone
<1>5. CASE ts # <<>>
  <2>1. Grown(ts)
    BY <1>1, GrowingIs
  <2>2. w = ts[Len(ts)]
    <3>1. CASE Strategy = "last"
      BY <1>5, <3>1 DEF JoinContent
    <3>2. CASE Strategy = "smart"
      <4>1. w = JoinSmart(ts)
        BY <1>5, <3>2 DEF JoinContent
      <4> QED BY <1>1, <1>5, <2>1, <4>1, JoinIs
    <3> QED BY <3>1, <3>2
  <2>3. found \in Seq(Seq(C)) /\ FlattenSeq(found) = ts[Len(ts)]
    BY <1>1, <1>5, <2>1, NewsIs
  <2>4. w \in Seq(C)
    <3>1. Len(ts) \in Nat /\ Len(ts) # 0
      BY <1>1, <1>5, EmptySeq, LenProperties
    <3>2. Len(ts) \in 1..Len(ts)
      BY <3>1
    <3> QED BY <1>1, <2>2, <3>2, ElementOfSeq
  <2> HIDE DEF w, found
  <2>5. CASE Decoded(reply).stream /\ found # <<>>
    BY <1>2, <1>3, <2>2, <2>3, <2>5, Zenon
  <2>6. CASE ~(Decoded(reply).stream /\ found # <<>>)
    <3>1. CASE w = <<>>
      BY <1>2, <1>3, <2>6, <3>1, FlattenOfNone, Zenon
    <3>2. CASE w # <<>>
      <4>1. Deltas(reply) = <<w>>
        BY <1>3, <2>6, <3>2, Zenon
      <4> QED BY <1>2, <2>4, <4>1, FlattenOne
    <3> QED BY <3>1, <3>2
  <2> QED BY <2>5, <2>6
<1> QED BY <1>4, <1>5

-----------------------------------------------------------------------------
(* The stream of a reply *)

\* What is passed on is one of the replies.
RepliesAreRead == \A c \in Calls : At(c, "streaming") => turn[c].reply \in Replies

LEMMA StreamKept ==
  ASSUME RepliesAreRead, NEW c \in Calls, OnlyTurn(c),
         turn'[c].stage = "streaming" => turn'[c].reply \in Replies
  PROVE  RepliesAreRead'
BY DEF RepliesAreRead, OnlyTurn, At

LEMMA ExecutesReads ==
  ASSUME NetInv, RepliesAreRead, NEW c \in Calls, Executes(c) PROVE RepliesAreRead'
<1>0. NetTypes /\ turn \in [Calls -> Turns]
  BY DEF NetInv, NetTypes
<1>1. ASSUME NEW what \in {"no", "result", "torn", "error", "aborted"}, Tells(c, what)
      PROVE  RepliesAreRead'
  <2>1. OnlyTurn(c) /\ turn'[c].stage = "off"
    BY <1>0, <1>1, Telling
  <2> QED BY <2>1, StreamKept
<1>2. CASE Follows(c)
  <2>1. turn' = [turn EXCEPT ![c].hops = @ + 1, ![c].token = held'[sessionOf[c]]]
        /\ At(c, "fetching") /\ Merged(sessionOf[c]) /\ sessionOf[c] \in Sessions
    BY <1>2, SessionOfCall DEF Follows
  <2>2. held'[sessionOf[c]] \in Nat
    BY <1>0, <2>1, Merging
  <2>3. OnlyTurn(c) /\ turn'[c].stage = "fetching"
    BY <1>0, <2>1, <2>2, HopTurn DEF At
  <2> QED BY <2>3, StreamKept
<1>3. CASE Responds(c)
  <2>1. turn' = [turn EXCEPT ![c] = [@ EXCEPT !.stage = "reading", !.hops = 0, !.token = 0]]
    BY <1>3 DEF Responds
  <2>2. OnlyTurn(c) /\ turn'[c].stage = "reading"
    BY <1>0, <2>1, ReadingTurn
  <2> QED BY <2>2, StreamKept
<1>4. CASE Reads(c)
  <2>1. PICK reply \in Replies :
          \/ Tells(c, "error")
          \/ turn' = [turn EXCEPT ![c].stage = "streaming", ![c].reply = reply]
    BY <1>4 DEF Reads
  <2>2. CASE turn' = [turn EXCEPT ![c].stage = "streaming", ![c].reply = reply]
    <3>1. OnlyTurn(c)
      BY <1>0, <2>2, StreamingTurn
    <3>2. turn'[c].reply = reply
      BY <1>0, <2>2 DEF Turns
    <3> QED BY <3>1, <3>2, StreamKept
  <2> QED BY <1>1, <2>1, <2>2
<1>5. CASE Passes(c)
  <2>1. turn' = [turn EXCEPT ![c].passed = @ + 1] /\ At(c, "streaming")
    BY <1>5 DEF Passes
  <2>2. OnlyTurn(c)
    BY <1>0, <2>1, PassingTurn
  <2>3. turn'[c].reply = turn[c].reply
    BY <1>0, <2>1 DEF Turns
  <2> QED BY <2>1, <2>2, <2>3, StreamKept DEF RepliesAreRead
<1>6. CASE \/ Unusable(c) \/ Unavailable(c) \/ Errs(c) \/ IsRefused(c) \/ Finishes(c)
           \/ Abandons(c)
  <2>1. Tells(c, "error") \/ Tells(c, "result") \/ Tells(c, "torn") \/ Tells(c, "aborted")
    BY <1>6 DEF Unusable, Unavailable, Errs, IsRefused, Finishes, Abandons
  <2> QED BY <1>1, <2>1
<1> QED BY <1>2, <1>3, <1>4, <1>5, <1>6 DEF Executes

LEMMA RepliesInductive ==
  NetInv /\ RepliesAreRead /\ [NetNext]_netVars => RepliesAreRead'
<1> SUFFICES ASSUME NetInv, RepliesAreRead, [NetNext]_netVars PROVE RepliesAreRead'
  OBVIOUS
<1>1. CASE UNCHANGED turn
  BY <1>1 DEF RepliesAreRead, At
<1>2. ASSUME NEW c \in Calls, Start(c) PROVE RepliesAreRead'
  <2>1. turn \in [Calls -> Turns] /\ held[sessionOf[c]] \in Nat
    BY SessionOfCall DEF NetInv, NetTypes
  <2>2. PICK r \in asks[c] :
          \/ turn' = [turn EXCEPT ![c].stage = "fetching", ![c].token = held[sessionOf[c]],
                                  ![c].ask = r]
          \/ turn' = [turn EXCEPT ![c].stage = "thrown"]
    BY <1>2 DEF Start
  <2>3. r \in Asks
    BY DEF Asks
  <2>4. OnlyTurn(c) /\ turn'[c].stage # "streaming"
    <3>1. CASE turn' = [turn EXCEPT ![c].stage = "thrown"]
      <4>1. "thrown" \in Stages
        BY DEF Stages
      <4> QED BY <2>1, <3>1, <4>1, StageTurn
    <3>2. CASE turn' = [turn EXCEPT ![c].stage = "fetching", ![c].token = held[sessionOf[c]],
                                    ![c].ask = r]
      BY <2>1, <2>3, <3>2, FetchTurn
    <3> QED BY <2>2, <3>1, <3>2
  <2> QED BY <2>4, StreamKept
<1>3. ASSUME NEW c \in Calls, Refused(c) \/ IsDisposed(c) PROVE UNCHANGED turn
  BY <1>3 DEF Refused, IsDisposed, client
<1>4. CASE (CoolDown /\ UNCHANGED <<client, history>>) \/ UNCHANGED netVars
  BY <1>1, <1>4 DEF client, netVars
<1> QED BY <1>1, <1>2, <1>3, <1>4, ExecutesReads DEF NetNext

\* When the events of a reply are growing snapshots of one answer, the deltas passed to
\* the client spell the content of the completion, by the default strategy and by the one
\* that keeps the last text (engine.ts:74-96, 156-209).
THEOREM StreamSpellsContent == NetSpec => []StreamIsContent
<1>1. NetInit => RepliesAreRead
  BY DEF NetInit, RepliesAreRead, At, Off
<1>2. RepliesAreRead => StreamIsContent
  <2> SUFFICES ASSUME RepliesAreRead, Strategy \in {"smart", "last"}, NEW c \in Calls,
                      At(c, "streaming"), Growing(Events(turn[c].reply))
               PROVE  FlattenSeq(Deltas(turn[c].reply)) = Content(turn[c].reply)
    BY DEF StreamIsContent
  <2> DEFINE reply == turn[c].reply
  <2>1. reply.lines \in Seq([text : Seq(Characters), json : BOOLEAN])
    BY NetworkAssumption DEF RepliesAreRead
  <2> HIDE DEF reply
  <2>2. Growing(Events(reply))
    BY DEF reply
  <2>3. FlattenSeq(Deltas(reply)) = Content(reply)
    BY <2>1, <2>2, DeltasAreContent
  <2> QED BY <2>3 DEF reply
<1> QED BY NetInitially, NetInductive, RepliesInductive, <1>1, <1>2, PTL DEF NetSpec

-----------------------------------------------------------------------------
\* What a reader of response r has been given: its match, n - 1 pieces, in the end its end.
Fed(r, n) == SubSeq(feed!Whole(r), 1, n)

FeedEvents == [type : {"matched", "chunk", "end", "error"}, of : Requests \union Reasons, n : Nat]
RequestState ==
  [turn : Nat, known : {"no", "body", "candidate"}, anchors : {"none", "partial", "full"},
   score : Nat, verdict : Verdicts \union {Null}, done : {"finished", "failed", Null},
   ready : BOOLEAN, pending : Seq(Nat)]
TapState ==
  [turn : 0..MaxTurns, live : BOOLEAN, profile : Profiles \union {Null},
   matched : Requests \union {Null}, bytes : 0..MaxBytes, timers : SUBSET Timers,
   log : Seq(FeedEvents), closed : BOOLEAN, req : [Requests -> RequestState]]
BodyState == [open : BOOLEAN, sent : 0..Chunks, from : 0..Chunks,
              stream : {"off", "asked", "answered", "refused", "done"}]
WireState == [Requests -> BodyState]

\* The queue of a turn is open as long as the turn is the current one.
QueueIsTurns(t) == t.closed = ~t.live /\ (t.live => 0 < t.turn)

\* A request belongs to the turn it was sent in, and one whose body is being fetched to
\* the current one.  A candidate carries some of the prompt.
RequestSound(t, r) ==
  LET q == t.req[r] IN
  /\ q.turn <= t.turn
  /\ q.known = "body" => t.live /\ q.turn = t.turn
  /\ q.known = "candidate" => q.anchors # "none"
RequestsSound(t) == \A r \in Requests : RequestSound(t, r)

\* Before the match no candidate of a turn with a profile has another content type.
OfProfile(t, r) ==
  /\ t.live /\ t.matched = Null /\ t.profile # Null
  /\ t.req[r].turn = t.turn /\ t.req[r].known = "candidate"
  => t.req[r].verdict \in Profiles \union {"bad_status", "moved", "other_type", Null}
ProfileHolds(t) == \A r \in Requests : OfProfile(t, r)

\* Chrome is asked for the body of a matched request only, and only such a request has
\* pieces waiting.
AskedIfMatched(t, w, r) ==
  LET q == t.req[r] IN
  /\ w[r].stream = "off" => ~q.ready /\ q.pending = <<>>
  /\ w[r].stream # "off" => /\ 0 < q.turn /\ q.known # "body"
                            /\ q.turn < t.turn \/ t.matched = r
  /\ q.done = "finished" => w[r].sent = Chunks
  /\ w[r].from <= w[r].sent /\ Len(q.pending) <= w[r].sent
AskedIsMatched(t, w) == \A r \in Requests : AskedIfMatched(t, w, r)

\* What the reader has, and what waits for Chrome's answer, together are what was sent.
FeedInStep(t, w) ==
  t.live =>
    IF t.matched = Null THEN t.log = <<>>
    ELSE LET r == t.matched
             q == t.req[r] IN
         IF q.ready THEN w[r].stream = "done" /\ t.log = Fed(r, w[r].sent + 1)
         ELSE /\ t.log = Fed(r, 1)
              /\ w[r].stream \in {"asked", "answered", "refused"}
              /\ w[r].stream = "asked" => q.pending = <<>>
              /\ w[r].stream = "answered" =>
                   /\ Len(q.pending) = w[r].sent - w[r].from
                   /\ \A i \in 1..Len(q.pending) : q.pending[i] = w[r].from + i

Good(t, w) ==
  /\ t \in TapState /\ w \in WireState
  /\ QueueIsTurns(t) /\ RequestsSound(t) /\ ProfileHolds(t)
  /\ AskedIsMatched(t, w) /\ FeedInStep(t, w)

TapInv == link \in BOOLEAN /\ Good(tap, wire)

\* The queue of u is that of t, or has grown as TapFeed lets it.
Feeds(t, u) ==
  \/ u.log = t.log /\ u.closed = t.closed
  \/ /\ ~t.closed
     /\ u.log \in feed!Logs /\ u.log # t.log /\ feed!IsPrefix(t.log, u.log)
     /\ u.closed = feed!Closing(u.log)

-----------------------------------------------------------------------------
(* The logs of TapFeed *)

LEMMA WholeIs ==
  ASSUME NEW b \in Requests
  PROVE  LET w == feed!Whole(b) IN
         /\ w \in Seq(FeedEvents) /\ Len(w) = Chunks + 2
         /\ w[1] = Event("matched", b) /\ w[Chunks + 2] = Event("end", b)
         /\ \A i \in 1..Chunks : w[i + 1] = [Event("chunk", b) EXCEPT !.n = i]
<1> USE TapAssumption
<1> DEFINE mid == [n \in 1..Chunks |-> feed!Chunk(b, n)]
           first == feed!Matched(b)
           last == feed!End(b)
<1>1. first \in FeedEvents /\ last \in FeedEvents /\ \A n \in 1..Chunks : feed!Chunk(b, n) \in FeedEvents
  BY DEF feed!Matched, feed!End, feed!Chunk, FeedEvents
<1>2. mid \in Seq(FeedEvents) /\ Len(mid) = Chunks /\ \A n \in 1..Chunks : mid[n] = feed!Chunk(b, n)
  BY <1>1
<1>3. /\ first = Event("matched", b) /\ last = Event("end", b)
      /\ \A i \in 1..Chunks : feed!Chunk(b, i) = [Event("chunk", b) EXCEPT !.n = i]
  BY DEF feed!Matched, feed!End, feed!Chunk, Event
<1>4. feed!Whole(b) = <<first>> \o mid \o <<last>>
  BY DEF feed!Whole
<1> HIDE DEF mid, first, last
<1>5. LET w == <<first>> \o mid \o <<last>> IN
      /\ w \in Seq(FeedEvents) /\ Len(w) = Chunks + 2
      /\ w[1] = first /\ w[Chunks + 2] = last
      /\ \A i \in 1..Chunks : w[i + 1] = mid[i]
  BY <1>1, <1>2
<1> QED BY <1>2, <1>3, <1>4, <1>5

LEMMA FedIs ==
  ASSUME NEW b \in Requests, NEW n \in 0..Chunks + 2
  PROVE  /\ Fed(b, n) \in Seq(FeedEvents) /\ Len(Fed(b, n)) = n
         /\ \A i \in 1..n : Fed(b, n)[i] = feed!Whole(b)[i]
<1>1. feed!Whole(b) \in Seq(FeedEvents) /\ Len(feed!Whole(b)) = Chunks + 2
  BY WholeIs
<1> QED BY <1>1, TapAssumption DEF Fed

LEMMA FedGrows ==
  ASSUME NEW b \in Requests, NEW n \in 0..Chunks + 1
  PROVE  Append(Fed(b, n), feed!Whole(b)[n + 1]) = Fed(b, n + 1)
<1> USE TapAssumption
<1> DEFINE w == feed!Whole(b)
           s == Fed(b, n)
           u == Fed(b, n + 1)
<1>1. w \in Seq(FeedEvents) /\ Len(w) = Chunks + 2
  BY WholeIs
<1>2. s \in Seq(FeedEvents) /\ Len(s) = n /\ \A i \in 1..n : s[i] = w[i]
  BY FedIs
<1>3. n + 1 \in 0..Chunks + 2
  OBVIOUS
<1>4. u \in Seq(FeedEvents) /\ Len(u) = n + 1 /\ \A i \in 1..n + 1 : u[i] = w[i]
  BY <1>3, FedIs
<1>5. w[n + 1] \in FeedEvents
  BY <1>1, ElementOfSeq
<1> HIDE DEF w, s, u
<1> DEFINE a == Append(s, w[n + 1])
<1>6. a \in Seq(FeedEvents) /\ Len(a) = n + 1 /\ \A i \in 1..n + 1 : a[i] = w[i]
  BY <1>2, <1>5
<1> HIDE DEF a
<1>7. a = u
  BY <1>4, <1>6, SeqEqual
<1> QED BY <1>7 DEF a, s, u, w

LEMMA FedIsLog ==
  ASSUME NEW b \in Requests, NEW n \in 0..Chunks + 2
  PROVE  Fed(b, n) \in feed!Logs
<1> USE TapAssumption
<1>1. CASE n \in 0..Chunks + 1
  BY <1>1 DEF feed!Logs, Fed
<1>2. CASE n = Chunks + 2
  <2>1. feed!Whole(b) \in Seq(FeedEvents) /\ Len(feed!Whole(b)) = Chunks + 2
    BY WholeIs
  <2>2. Fed(b, n) = feed!Whole(b)
    BY <1>2, <2>1 DEF Fed
  <2> QED BY <2>2 DEF feed!Logs
<1> QED BY <1>1, <1>2

\* What a turn may have given when it fails.
CutShort(l) == l = <<>> \/ \E b \in Requests, n \in 0..Chunks + 1 : l = Fed(b, n)

LEMMA CutIsLog ==
  ASSUME NEW l, CutShort(l), NEW f \in Reasons
  PROVE  /\ Append(l, Event("error", f)) \in feed!Logs
         /\ l \in Seq(FeedEvents) /\ Event("error", f) \in FeedEvents
<1> USE TapAssumption
<1>1. Event("error", f) = feed!Failure(f) /\ Event("error", f) \in FeedEvents
  BY DEF Event, feed!Failure, FeedEvents
<1>2. CASE l = <<>>
  <2>1. Append(l, feed!Failure(f)) \in feed!Logs
    BY <1>2 DEF feed!Logs
  <2> QED BY <1>1, <1>2, <2>1
<1>3. CASE \E b \in Requests, n \in 0..Chunks + 1 : l = Fed(b, n)
  <2>1. PICK b \in Requests, n \in 0..Chunks + 1 : l = Fed(b, n)
    BY <1>3
  <2>2. Append(Fed(b, n), feed!Failure(f)) \in feed!Logs
    <3> DEFINE k == Fed(b, n)
               some == {<<>>} \union {SubSeq(feed!Whole(c), 1, m) : c \in Requests, m \in 0..Chunks + 1}
    <3>1. k \in some
      BY DEF Fed
    <3>2. {Append(j, feed!Failure(g)) : j \in some, g \in Reasons} \subseteq feed!Logs
      BY DEF feed!Logs
    <3> HIDE DEF k, some
    <3>3. Append(k, feed!Failure(f)) \in {Append(j, feed!Failure(g)) : j \in some, g \in Reasons}
      BY <3>1
    <3> DEFINE cuts == {Append(j, feed!Failure(g)) : j \in some, g \in Reasons}
    <3>4. Append(k, feed!Failure(f)) \in cuts /\ cuts \subseteq feed!Logs
      BY <3>2, <3>3
    <3> HIDE DEF cuts
    <3> QED BY <3>4 DEF k
  <2>3. n \in 0..Chunks + 2
    OBVIOUS
  <2>4. l \in Seq(FeedEvents)
    BY <2>1, <2>3, FedIs
  <2> QED BY <1>1, <2>1, <2>2, <2>4
<1> QED BY <1>2, <1>3 DEF CutShort

LEMMA PushFeeds ==
  ASSUME NEW t, NEW u, NEW e \in FeedEvents, t.log \in Seq(FeedEvents), ~t.closed,
         u.log = Append(t.log, e), u.log \in feed!Logs,
         u.closed = (e.type \in {"end", "error"})
  PROVE  Feeds(t, u)
<1> DEFINE l == t.log
           k == u.log
<1>1. l \in Seq(FeedEvents) /\ k = Append(l, e)
  OBVIOUS
<1> HIDE DEF l, k
<1>2. /\ k \in Seq(FeedEvents) /\ Len(k) = Len(l) + 1 /\ k[Len(k)] = e /\ Len(l) \in Nat
      /\ \A i \in 1..Len(l) : k[i] = l[i]
  BY <1>1
<1>3. k # l
  BY <1>2
<1>4. feed!IsPrefix(l, k)
  <2> DEFINE a == SubSeq(l, 1, Len(l))
             c == SubSeq(k, 1, Len(l))
  <2>1. a \in Seq(FeedEvents) /\ Len(a) = Len(l) /\ \A i \in 1..Len(l) : a[i] = l[i]
    BY <1>1, <1>2
  <2>2. c \in Seq(FeedEvents) /\ Len(c) = Len(l) /\ \A i \in 1..Len(l) : c[i] = k[i]
    BY <1>2
  <2> HIDE DEF a, c
  <2>3. a = c
    BY <1>2, <2>1, <2>2, SeqEqual
  <2> QED BY <1>2, <2>3 DEF feed!IsPrefix, a, c
<1>5. feed!Closing(k) = (e.type \in {"end", "error"})
  <2>1. k # <<>>
    BY <1>2
  <2> QED BY <1>2, <2>1 DEF feed!Closing
<1> QED BY <1>3, <1>4, <1>5 DEF Feeds, l, k

LEMMA FeedsOn ==
  ASSUME NEW t, NEW u, NEW v, Feeds(t, u), Feeds(u, v),
         t.log \in Seq(FeedEvents), u.log \in Seq(FeedEvents), v.log \in Seq(FeedEvents)
  PROVE  Feeds(t, v)
<1> DEFINE a == t.log
           b == u.log
           c == v.log
<1>1. CASE u.log = t.log /\ u.closed = t.closed
  BY <1>1 DEF Feeds
<1>2. CASE v.log = u.log /\ v.closed = u.closed
  BY <1>2 DEF Feeds
<1>3. CASE ~(u.log = t.log /\ u.closed = t.closed) /\ ~(v.log = u.log /\ v.closed = u.closed)
  <2>1. /\ ~t.closed /\ c \in feed!Logs /\ b # a /\ c # b
        /\ feed!IsPrefix(a, b) /\ feed!IsPrefix(b, c) /\ v.closed = feed!Closing(c)
    BY <1>3 DEF Feeds
  <2>2. a \in Seq(FeedEvents) /\ b \in Seq(FeedEvents) /\ c \in Seq(FeedEvents)
    OBVIOUS
  <2> HIDE DEF a, b, c
  <2>3. /\ Len(a) \in Nat /\ Len(b) \in Nat /\ Len(c) \in Nat
        /\ Len(a) <= Len(b) /\ Len(b) <= Len(c)
        /\ SubSeq(a, 1, Len(a)) = SubSeq(b, 1, Len(a))
        /\ SubSeq(b, 1, Len(b)) = SubSeq(c, 1, Len(b))
    BY <2>1, <2>2 DEF feed!IsPrefix
  <2>4. \A i \in 1..Len(a) : a[i] = b[i]
    BY <2>2, <2>3
  <2>5. \A i \in 1..Len(b) : b[i] = c[i]
    BY <2>2, <2>3
  <2>6. Len(a) # Len(b)
    BY <2>1, <2>2, <2>4, SeqEqual
  <2>7. a # c
    BY <2>3, <2>6
  <2> DEFINE x == SubSeq(a, 1, Len(a))
             z == SubSeq(c, 1, Len(a))
  <2>8. x \in Seq(FeedEvents) /\ Len(x) = Len(a) /\ \A i \in 1..Len(a) : x[i] = a[i]
    BY <2>2, <2>3
  <2>9. z \in Seq(FeedEvents) /\ Len(z) = Len(a) /\ \A i \in 1..Len(a) : z[i] = c[i]
    BY <2>2, <2>3
  <2> HIDE DEF x, z
  <2>10. x = z
    BY <2>3, <2>4, <2>5, <2>8, <2>9, SeqEqual
  <2>11. feed!IsPrefix(a, c)
    BY <2>3, <2>10 DEF feed!IsPrefix, x, z
  <2> QED BY <2>1, <2>7, <2>11 DEF Feeds, a, b, c
<1> QED BY <1>1, <1>2, <1>3

-----------------------------------------------------------------------------
(* The end of a turn *)

Sound(t, w) ==
  /\ t \in TapState /\ w \in WireState
  /\ QueueIsTurns(t) /\ RequestsSound(t) /\ AskedIsMatched(t, w)

\* The same match, of the same requests.
SameClaims(t, u) ==
  /\ u.turn = t.turn /\ u.profile = t.profile /\ u.matched = t.matched
  /\ \A r \in Requests :
       LET p == t.req[r]
           q == u.req[r] IN
       /\ q.turn = p.turn /\ q.anchors = p.anchors /\ q.score = p.score
       /\ q.verdict = p.verdict
       /\ q.known = "candidate" => p.known = "candidate"

Ends(t, u) ==
  /\ u \in TapState /\ ~u.live /\ u.closed /\ SameClaims(t, u)
  /\ \A r \in Requests :
       LET p == t.req[r]
           q == u.req[r] IN
       /\ q.done = p.done /\ q.ready = p.ready /\ q.pending \in {p.pending, <<>>}
       /\ q.known = "body" => p.known = "body" /\ q.turn # t.turn

LEMMA EndsKeeps ==
  ASSUME NEW t, NEW u, NEW w, Sound(t, w), Ends(t, u)
  PROVE  Good(u, w)
<1>1. u \in TapState /\ w \in WireState /\ QueueIsTurns(u) /\ ProfileHolds(u) /\ FeedInStep(u, w)
  BY DEF Sound, Ends, QueueIsTurns, ProfileHolds, OfProfile, FeedInStep
<1>2. RequestsSound(u)
  BY DEF Sound, Ends, SameClaims, RequestsSound, RequestSound
<1>3. AskedIsMatched(u, w)
  <2> SUFFICES ASSUME NEW r \in Requests
               PROVE  AskedIfMatched(u, w, r)
    BY DEF AskedIsMatched
  <2>1. w[r].sent \in Nat
    BY TapAssumption DEF Sound, WireState, BodyState
  <2>2. Len(u.req[r].pending) <= w[r].sent
    BY <2>1 DEF Sound, Ends, AskedIsMatched, AskedIfMatched
  <2> QED BY <2>2 DEF Sound, Ends, SameClaims, AskedIsMatched, AskedIfMatched
<1> QED BY <1>1, <1>2, <1>3 DEF Good

LEMMA OverIs ==
  ASSUME NEW t \in TapState
  PROVE  Ends(t, Over(t)) /\ Over(t).log = t.log
<1> DEFINE dropped(q) == [q EXCEPT !.pending = <<>>, !.known = IF @ = "body" THEN "no" ELSE @]
           reqs == [r \in Requests |-> IF t.req[r].turn = t.turn THEN dropped(t.req[r])
                                       ELSE t.req[r]]
           u == [t EXCEPT !.live = FALSE, !.closed = TRUE, !.timers = {}, !.req = reqs]
<1>1. Over(t) = u
  BY Zenon DEF Over
<1>2. ASSUME NEW q \in RequestState
      PROVE  /\ dropped(q) \in RequestState
             /\ dropped(q).turn = q.turn /\ dropped(q).anchors = q.anchors
             /\ dropped(q).score = q.score /\ dropped(q).verdict = q.verdict
             /\ dropped(q).done = q.done /\ dropped(q).ready = q.ready
             /\ dropped(q).pending = <<>>
             /\ dropped(q).known = IF q.known = "body" THEN "no" ELSE q.known
  <2> DEFINE k == IF q.known = "body" THEN "no" ELSE q.known
             none == <<>>
  <2>1. dropped(q) = [q EXCEPT !.pending = none, !.known = k]
    BY Zenon
  <2>2. k \in {"no", "body", "candidate"} /\ none \in Seq(Nat)
    BY DEF RequestState
  <2> HIDE DEF k, none
  <2>3. LET d == [q EXCEPT !.pending = none, !.known = k] IN
        /\ d \in RequestState
        /\ d.turn = q.turn /\ d.anchors = q.anchors /\ d.score = q.score
        /\ d.verdict = q.verdict /\ d.done = q.done /\ d.ready = q.ready
        /\ d.pending = none /\ d.known = k
    BY <2>2 DEF RequestState
  <2> QED BY <2>1, <2>3 DEF k, none
<1> HIDE DEF dropped
<1>3. \A r \in Requests : t.req[r] \in RequestState
  BY DEF TapState
<1>4. reqs \in [Requests -> RequestState]
  BY <1>2, <1>3
<1>5. \A r \in Requests : reqs[r] = IF t.req[r].turn = t.turn THEN dropped(t.req[r])
                                    ELSE t.req[r]
  OBVIOUS
<1> HIDE DEF reqs
<1>6. /\ u \in TapState /\ u.live = FALSE /\ u.closed = TRUE /\ u.turn = t.turn
      /\ u.profile = t.profile /\ u.matched = t.matched /\ u.log = t.log /\ u.req = reqs
  BY <1>4 DEF TapState
<1> HIDE DEF u
<1>7. SameClaims(t, u)
  BY <1>2, <1>3, <1>5, <1>6 DEF SameClaims
<1>8. \A r \in Requests :
       LET p == t.req[r]
           q == u.req[r] IN
       /\ q.done = p.done /\ q.ready = p.ready /\ q.pending \in {p.pending, <<>>}
       /\ q.known = "body" => p.known = "body" /\ q.turn # t.turn
  BY <1>2, <1>3, <1>5, <1>6
<1> QED BY <1>1, <1>6, <1>7, <1>8 DEF Ends

LEMMA PushIs ==
  ASSUME NEW t \in TapState, ~t.closed, NEW e \in FeedEvents
  PROVE  LET u == Push(t, e) IN
         /\ u \in TapState /\ u.log = Append(t.log, e)
         /\ u.turn = t.turn /\ u.live = t.live /\ u.profile = t.profile
         /\ u.matched = t.matched /\ u.bytes = t.bytes /\ u.timers = t.timers
         /\ u.closed = t.closed /\ u.req = t.req
<1> DEFINE l == Append(t.log, e)
<1>1. l \in Seq(FeedEvents)
  BY DEF TapState
<1>2. Push(t, e) = [t EXCEPT !.log = l]
  BY Zenon DEF Push
<1> HIDE DEF l
<1>3. LET u == [t EXCEPT !.log = l] IN
         /\ u \in TapState /\ u.log = l
         /\ u.turn = t.turn /\ u.live = t.live /\ u.profile = t.profile
         /\ u.matched = t.matched /\ u.bytes = t.bytes /\ u.timers = t.timers
         /\ u.closed = t.closed /\ u.req = t.req
  BY <1>1 DEF TapState
<1> QED BY <1>2, <1>3 DEF l

\* A last event, and the turn is over.
LEMMA LastIs ==
  ASSUME NEW t \in TapState, ~t.closed, NEW e \in FeedEvents
  PROVE  LET u == Over(Push(t, e)) IN Ends(t, u) /\ u.log = Append(t.log, e)
<1> DEFINE p == Push(t, e)
           u == Over(p)
<1>1. /\ p \in TapState /\ p.log = Append(t.log, e)
      /\ p.turn = t.turn /\ p.profile = t.profile /\ p.matched = t.matched /\ p.req = t.req
  BY PushIs
<1> HIDE DEF p
<1>2. Ends(p, u) /\ u.log = p.log
  BY <1>1, OverIs
<1> HIDE DEF u
<1>3. Ends(t, u)
  BY <1>1, <1>2 DEF Ends, SameClaims
<1> QED BY <1>1, <1>2, <1>3 DEF u, p

LEMMA FailKeeps ==
  ASSUME NEW t, NEW w, Sound(t, w), t.live => CutShort(t.log), NEW f \in Reasons
  PROVE  LET u == Fail(t, f) IN
         Good(u, w) /\ Feeds(t, u) /\ SameClaims(t, u) /\ ~u.live
<1> DEFINE u == Fail(t, f)
           e == Event("error", f)
<1>0. t \in TapState
  BY DEF Sound
<1>1. CASE t.live
  <2>1. ~t.closed /\ t.log \in Seq(FeedEvents)
    BY <1>1 DEF Sound, QueueIsTurns, TapState
  <2>2. Append(t.log, e) \in feed!Logs /\ e \in FeedEvents /\ e.type = "error"
    BY <1>1, CutIsLog DEF Event
  <2> HIDE DEF e
  <2>3. u = Over(Push(t, e))
    BY <1>1 DEF Fail, e
  <2> HIDE DEF u
  <2>4. Ends(t, u) /\ u.log = Append(t.log, e)
    BY <1>0, <2>1, <2>2, <2>3, LastIs
  <2>5. Good(u, w) /\ SameClaims(t, u) /\ u.closed /\ ~u.live /\ u \in TapState
    BY <2>4, EndsKeeps DEF Ends
  <2>6. Feeds(t, u)
    <3>1. u.closed = (e.type \in {"end", "error"})
      BY <2>2, <2>5 DEF TapState
    <3> QED BY <2>1, <2>2, <2>4, <3>1, PushFeeds
  <2> QED BY <2>5, <2>6 DEF u
<1>2. CASE ~t.live
  <2>1. u = t
    BY <1>2 DEF Fail
  <2>2. Good(t, w)
    BY <1>2 DEF Sound, Good, FeedInStep, ProfileHolds, OfProfile
  <2> QED BY <1>2, <2>1, <2>2 DEF Feeds, SameClaims
<1> QED BY <1>1, <1>2

LEMMA FinishKeeps ==
  ASSUME NEW t, NEW w, Sound(t, w), t.live, t.matched \in Requests,
         t.log = Fed(t.matched, Chunks + 1)
  PROVE  LET u == Finish(t) IN
         Good(u, w) /\ Feeds(t, u) /\ SameClaims(t, u) /\ ~u.live
<1> USE TapAssumption
<1> DEFINE u == Finish(t)
           r == t.matched
           e == Event("end", r)
<1>0. t \in TapState
  BY DEF Sound
<1>1. ~t.closed /\ t.log \in Seq(FeedEvents)
  BY DEF Sound, QueueIsTurns, TapState
<1>2. e \in FeedEvents /\ e.type = "end"
  BY DEF Event, FeedEvents
<1>3. feed!Whole(r)[Chunks + 2] = e
  BY WholeIs
<1>4. Append(t.log, e) \in feed!Logs
  <2>1. Chunks + 1 \in 0..Chunks + 1 /\ (Chunks + 1) + 1 = Chunks + 2 /\ Chunks + 2 \in 0..Chunks + 2
    OBVIOUS
  <2>2. Append(t.log, feed!Whole(r)[Chunks + 2]) = Fed(r, Chunks + 2)
    BY <2>1, FedGrows
  <2> QED BY <1>3, <2>1, <2>2, FedIsLog
<1>5. u = Over(Push(t, e))
  BY DEF Finish
<1> HIDE DEF u, e
<1>6. Ends(t, u) /\ u.log = Append(t.log, e)
  BY <1>0, <1>1, <1>2, <1>5, LastIs
<1>7. Good(u, w) /\ SameClaims(t, u) /\ u.closed /\ ~u.live /\ u \in TapState
  BY <1>6, EndsKeeps DEF Ends
<1>8. u.closed = (e.type \in {"end", "error"})
  BY <1>2, <1>7 DEF TapState
<1>9. Feeds(t, u)
  BY <1>1, <1>2, <1>4, <1>6, <1>8, PushFeeds
<1> QED BY <1>7, <1>9 DEF u

LEMMA CancelKeeps ==
  ASSUME NEW t, NEW w, Sound(t, w)
  PROVE  LET u == Cancel(t) IN
         Good(u, w) /\ u.log = t.log /\ u.closed /\ SameClaims(t, u) /\ ~u.live
<1> DEFINE u == Cancel(t)
<1>0. t \in TapState
  BY DEF Sound
<1>1. CASE t.live
  <2>1. u = Over(t)
    BY <1>1 DEF Cancel
  <2> HIDE DEF u
  <2>2. Ends(t, u) /\ u.log = t.log
    BY <1>0, <2>1, OverIs
  <2>3. Good(u, w) /\ SameClaims(t, u) /\ u.closed /\ ~u.live
    BY <2>2, EndsKeeps DEF Ends
  <2> QED BY <2>2, <2>3 DEF u
<1>2. CASE ~t.live
  <2>1. u = t
    BY <1>2 DEF Cancel
  <2>2. Good(t, w) /\ t.closed
    BY <1>2 DEF Sound, Good, FeedInStep, ProfileHolds, OfProfile, QueueIsTurns
  <2> QED BY <1>2, <2>1, <2>2 DEF SameClaims
<1> QED BY <1>1, <1>2

-----------------------------------------------------------------------------
(* What the handlers do to a request *)

\* All of t but its timers and what is known of the requests.
SameTurn(t, u) ==
  /\ u \in TapState
  /\ u.turn = t.turn /\ u.live = t.live /\ u.profile = t.profile /\ u.matched = t.matched
  /\ u.bytes = t.bytes /\ u.log = t.log /\ u.closed = t.closed

LEMMA TimersKeep ==
  ASSUME NEW t, NEW u, NEW w, Good(t, w), SameTurn(t, u), u.req = t.req
  PROVE  Good(u, w)
<1>1. u \in TapState /\ w \in WireState
  BY DEF Good, SameTurn
<1>2. QueueIsTurns(u) /\ RequestsSound(u) /\ ProfileHolds(u)
  BY DEF Good, SameTurn, QueueIsTurns, RequestsSound, RequestSound, ProfileHolds, OfProfile
<1>3. AskedIsMatched(u, w)
  BY DEF Good, SameTurn, AskedIsMatched, AskedIfMatched
<1>4. FeedInStep(u, w)
  BY DEF Good, SameTurn, FeedInStep
<1> QED BY <1>1, <1>2, <1>3, <1>4 DEF Good

\* All is well, but for the profile of r.
GoodBut(t, w, r) ==
  Sound(t, w) /\ FeedInStep(t, w) /\ \A q \in Requests \ {r} : OfProfile(t, q)

LEMMA GoodIs ==
  ASSUME NEW t, NEW w
  PROVE  /\ Good(t, w) => Sound(t, w) /\ \A r : GoodBut(t, w, r)
         /\ \A r \in Requests : GoodBut(t, w, r) /\ OfProfile(t, r) => Good(t, w)
BY DEF Good, Sound, GoodBut, ProfileHolds

LEMMA EditKeeps ==
  ASSUME NEW t, NEW u, NEW w, NEW r \in Requests, GoodBut(t, w, r), SameTurn(t, u),
         \A q \in Requests \ {r} : u.req[q] = t.req[q],
         u.req[r].ready = t.req[r].ready, u.req[r].pending = t.req[r].pending,
         RequestSound(u, r), AskedIfMatched(u, w, r)
  PROVE  GoodBut(u, w, r) /\ (OfProfile(u, r) => Good(u, w))
<1> USE DEF GoodBut, Sound
<1>1. u \in TapState /\ w \in WireState
  BY DEF SameTurn
<1>2. QueueIsTurns(u)
  BY DEF SameTurn, QueueIsTurns
<1>3. RequestsSound(u)
  BY DEF SameTurn, RequestsSound, RequestSound
<1>4. \A q \in Requests \ {r} : OfProfile(u, q)
  BY DEF SameTurn, OfProfile
<1>5. AskedIsMatched(u, w)
  <2>1. ASSUME NEW q \in Requests \ {r} PROVE AskedIfMatched(u, w, q)
    BY DEF SameTurn, AskedIsMatched, AskedIfMatched
  <2> QED BY <2>1 DEF AskedIsMatched
<1>6. FeedInStep(u, w)
  <2>1. /\ u.live = t.live /\ u.matched = t.matched /\ u.log = t.log
        /\ \A q \in Requests : u.req[q].ready = t.req[q].ready /\ u.req[q].pending = t.req[q].pending
    BY DEF SameTurn
  <2>2. t.matched \in Requests \union {Null}
    BY DEF TapState
  <2> QED BY <2>1, <2>2 DEF FeedInStep
<1> QED BY <1>1, <1>2, <1>3, <1>4, <1>5, <1>6, GoodIs

\* What a live turn has given may always be followed by an error.
LEMMA GoodIsCut ==
  ASSUME NEW t, NEW w, Sound(t, w), FeedInStep(t, w), t.live
  PROVE  CutShort(t.log)
<1> USE TapAssumption
<1>1. CASE t.matched = Null
  BY <1>1 DEF FeedInStep, CutShort
<1>2. CASE t.matched # Null
  <2> DEFINE r == t.matched
  <2>1. r \in Requests /\ w[r].sent \in 0..Chunks
    BY <1>2 DEF Sound, TapState, WireState, BodyState
  <2>2. t.log = Fed(r, w[r].sent + 1) \/ t.log = Fed(r, 1)
    BY <1>2 DEF FeedInStep
  <2> HIDE DEF r
  <2>3. w[r].sent + 1 \in 0..Chunks + 1 /\ 1 \in 0..Chunks + 1
    BY <2>1
  <2> QED BY <2>1, <2>2, <2>3 DEF CutShort
<1> QED BY <1>1, <1>2

\* Chrome is asked for the body of r.
AskedFor(w, r) == [w EXCEPT ![r].stream = "asked"]

LEMMA SelectingKeeps ==
  ASSUME NEW t, NEW w, Good(t, w), NEW r \in Requests, t.live, t.matched = Null,
         t.req[r].turn = t.turn, t.req[r].known = "candidate"
  PROVE  LET u == Selecting(t, r) IN
         /\ Good(u, AskedFor(w, r)) /\ Feeds(t, u)
         /\ u.matched = r /\ u.live /\ u.turn = t.turn /\ u.profile = t.profile
         /\ u.req = t.req
<1> USE TapAssumption
<1> DEFINE e == Event("matched", r)
           timers == (t.timers \ {"match"}) \union {"firstByte"}
           k == [t EXCEPT !.matched = r, !.timers = timers]
           u == Selecting(t, r)
           x == AskedFor(w, r)
<1>1. t \in TapState /\ w \in WireState /\ ~t.closed /\ t.log = <<>>
  BY DEF Good, QueueIsTurns, FeedInStep
<1>2. timers \in SUBSET Timers
  BY <1>1 DEF TapState, Timers
<1>3. e \in FeedEvents /\ e.type = "matched"
  BY DEF Event, FeedEvents
<1>4. u = Push(k, e)
  BY Zenon DEF Selecting
<1> HIDE DEF timers
<1>5. /\ k \in TapState /\ k.matched = r /\ k.turn = t.turn /\ k.live = t.live
      /\ k.profile = t.profile /\ k.closed = t.closed /\ k.log = t.log /\ k.req = t.req
  BY <1>1, <1>2 DEF TapState
<1> HIDE DEF k, u
<1>6. /\ u \in TapState /\ u.log = Append(k.log, e)
      /\ u.turn = t.turn /\ u.live = t.live /\ u.profile = t.profile
      /\ u.matched = r /\ u.closed = t.closed /\ u.req = t.req
  <2>1. k \in TapState /\ ~k.closed
    BY <1>1, <1>5
  <2>2. /\ u \in TapState /\ u.log = Append(k.log, e)
        /\ u.turn = k.turn /\ u.live = k.live /\ u.profile = k.profile
        /\ u.matched = k.matched /\ u.closed = k.closed /\ u.req = k.req
    BY <1>3, <1>4, <2>1, PushIs
  <2> QED BY <1>5, <2>2
<1>7. /\ x \in WireState /\ x[r].stream = "asked" /\ x[r].sent = w[r].sent /\ x[r].from = w[r].from
      /\ \A q \in Requests \ {r} : x[q] = w[q]
  <2> DEFINE v == w[r]
             y == [v EXCEPT !.stream = "asked"]
  <2>1. v \in BodyState /\ x = [w EXCEPT ![r] = y]
    BY <1>1 DEF WireState, AskedFor
  <2> HIDE DEF v, x
  <2>2. y \in BodyState /\ y.stream = "asked" /\ y.sent = v.sent /\ y.from = v.from
    BY <2>1 DEF BodyState
  <2> HIDE DEF y
  <2> QED BY <1>1, <2>1, <2>2 DEF WireState, v
<1> HIDE DEF x
<1>8. u.log = Fed(r, 1)
  <2>1. 0 \in 0..Chunks + 2 /\ 0 \in 0..Chunks + 1 /\ 0 + 1 = 1
    OBVIOUS
  <2>2. feed!Whole(r)[1] = e
    BY WholeIs
  <2>3. Append(Fed(r, 0), e) = Fed(r, 1)
    BY <2>1, <2>2, FedGrows
  <2>4. Fed(r, 0) = <<>>
    BY <2>1, FedIs, EmptySeq
  <2> QED BY <1>1, <1>5, <1>6, <2>3, <2>4
<1>9. Feeds(t, u)
  <2>1. 1 \in 0..Chunks + 2
    OBVIOUS
  <2>2. u.log \in feed!Logs
    BY <1>8, <2>1, FedIsLog
  <2>3. t.log \in Seq(FeedEvents)
    BY <1>1 DEF TapState
  <2>4. u.closed = (e.type \in {"end", "error"})
    BY <1>1, <1>3, <1>6 DEF TapState
  <2> QED BY <1>1, <1>3, <1>5, <1>6, <2>2, <2>3, <2>4, PushFeeds
<1>10. w[r].stream = "off"
  BY DEF Good, AskedIsMatched, AskedIfMatched, RequestsSound, RequestSound, TapState
<1>11. t.req[r].ready = FALSE /\ t.req[r].pending = <<>>
  BY <1>1, <1>10 DEF Good, AskedIsMatched, AskedIfMatched, TapState, RequestState
<1>12. QueueIsTurns(u) /\ RequestsSound(u) /\ ProfileHolds(u)
  BY <1>6 DEF Good, QueueIsTurns, RequestsSound, RequestSound, ProfileHolds, OfProfile
<1>13. AskedIsMatched(u, x)
  <2>1. t.turn \in Nat /\ \A q \in Requests : t.req[q].turn \in Nat
    BY <1>1 DEF TapState, RequestState
  <2>2. AskedIfMatched(t, w, r)
    BY DEF Good, AskedIsMatched
  <2>3. 0 < t.turn
    BY DEF Good, QueueIsTurns
  <2>4. AskedIfMatched(u, x, r)
    BY <1>6, <1>7, <2>2, <2>3 DEF AskedIfMatched
  <2>5. ASSUME NEW q \in Requests \ {r} PROVE AskedIfMatched(u, x, q)
    <3>1. AskedIfMatched(t, w, q)
      BY DEF Good, AskedIsMatched
    <3> QED BY <1>6, <1>7, <3>1 DEF AskedIfMatched
  <2> QED BY <2>4, <2>5 DEF AskedIsMatched
<1>14. FeedInStep(u, x)
  BY <1>6, <1>7, <1>8, <1>11 DEF FeedInStep
<1> QED BY <1>6, <1>7, <1>9, <1>12, <1>13, <1>14 DEF Good, u, x

LEMMA EditIs ==
  ASSUME NEW t \in TapState, NEW r \in Requests, NEW q \in RequestState
  PROVE  LET u == [t EXCEPT !.req = [t.req EXCEPT ![r] = q]] IN
         /\ SameTurn(t, u) /\ u.timers = t.timers /\ u.req[r] = q
         /\ \A p \in Requests \ {r} : u.req[p] = t.req[p]
<1> DEFINE f == [t.req EXCEPT ![r] = q]
           u == [t EXCEPT !.req = f]
<1>1. /\ f \in [Requests -> RequestState] /\ f[r] = q
      /\ \A p \in Requests \ {r} : f[p] = t.req[p]
  BY DEF TapState
<1> HIDE DEF f
<1>2. u \in TapState /\ u.req = f /\ u.timers = t.timers /\ SameTurn(t, u)
  BY <1>1 DEF TapState, SameTurn
<1> QED BY <1>1, <1>2 DEF f

\* What is known of r changes, but not what was sent nor what has come.
Edits(t, u, r) ==
  /\ SameTurn(t, u) /\ u.timers = t.timers
  /\ \A s \in Requests \ {r} : u.req[s] = t.req[s]
  /\ LET q == t.req[r]
         p == u.req[r] IN
     /\ p.turn = q.turn /\ p.anchors = q.anchors /\ p.score = q.score
     /\ p.ready = q.ready /\ p.pending = q.pending

LEMMA VerdictIs ==
  ASSUME NEW t \in TapState, NEW r \in Requests, NEW v \in Verdicts \union {Null}
  PROVE  LET u == [t EXCEPT !.req[r].verdict = v] IN
         /\ Edits(t, u, r) /\ u.req[r].verdict = v
         /\ u.req[r].known = t.req[r].known /\ u.req[r].done = t.req[r].done
<1> DEFINE q == t.req[r]
           p == [q EXCEPT !.verdict = v]
           u == [t EXCEPT !.req = [t.req EXCEPT ![r] = p]]
<1>1. q \in RequestState /\ u = [t EXCEPT !.req[r].verdict = v]
  BY DEF TapState
<1> HIDE DEF q
<1>2. /\ p \in RequestState /\ p.verdict = v
      /\ p.turn = q.turn /\ p.anchors = q.anchors /\ p.score = q.score
      /\ p.ready = q.ready /\ p.pending = q.pending
      /\ p.known = q.known /\ p.done = q.done
  BY <1>1 DEF RequestState
<1> HIDE DEF p
<1>3. /\ SameTurn(t, u) /\ u.timers = t.timers /\ u.req[r] = p
      /\ \A s \in Requests \ {r} : u.req[s] = t.req[s]
  BY <1>2, EditIs
<1> HIDE DEF u
<1> QED BY <1>1, <1>2, <1>3 DEF Edits, q

LEMMA KnownIs ==
  ASSUME NEW t \in TapState, NEW r \in Requests, NEW k \in {"no", "body", "candidate"}
  PROVE  LET u == [t EXCEPT !.req[r].known = k] IN
         /\ Edits(t, u, r) /\ u.req[r].known = k
         /\ u.req[r].verdict = t.req[r].verdict /\ u.req[r].done = t.req[r].done
<1> DEFINE q == t.req[r]
           p == [q EXCEPT !.known = k]
           u == [t EXCEPT !.req = [t.req EXCEPT ![r] = p]]
<1>1. q \in RequestState /\ u = [t EXCEPT !.req[r].known = k]
  BY DEF TapState
<1> HIDE DEF q
<1>2. /\ p \in RequestState /\ p.known = k
      /\ p.turn = q.turn /\ p.anchors = q.anchors /\ p.score = q.score
      /\ p.ready = q.ready /\ p.pending = q.pending
      /\ p.verdict = q.verdict /\ p.done = q.done
  BY <1>1 DEF RequestState
<1> HIDE DEF p
<1>3. /\ SameTurn(t, u) /\ u.timers = t.timers /\ u.req[r] = p
      /\ \A s \in Requests \ {r} : u.req[s] = t.req[s]
  BY <1>2, EditIs
<1> HIDE DEF u
<1> QED BY <1>1, <1>2, <1>3 DEF Edits, q

LEMMA DoneIs ==
  ASSUME NEW t \in TapState, NEW r \in Requests, NEW d \in {"finished", "failed", Null}
  PROVE  LET u == [t EXCEPT !.req[r].done = d] IN
         /\ Edits(t, u, r) /\ u.req[r].done = d
         /\ u.req[r].known = t.req[r].known /\ u.req[r].verdict = t.req[r].verdict
<1> DEFINE q == t.req[r]
           p == [q EXCEPT !.done = d]
           u == [t EXCEPT !.req = [t.req EXCEPT ![r] = p]]
<1>1. q \in RequestState /\ u = [t EXCEPT !.req[r].done = d]
  BY DEF TapState
<1> HIDE DEF q
<1>2. /\ p \in RequestState /\ p.done = d
      /\ p.turn = q.turn /\ p.anchors = q.anchors /\ p.score = q.score
      /\ p.ready = q.ready /\ p.pending = q.pending
      /\ p.known = q.known /\ p.verdict = q.verdict
  BY <1>1 DEF RequestState
<1> HIDE DEF p
<1>3. /\ SameTurn(t, u) /\ u.timers = t.timers /\ u.req[r] = p
      /\ \A s \in Requests \ {r} : u.req[s] = t.req[s]
  BY <1>2, EditIs
<1> HIDE DEF u
<1> QED BY <1>1, <1>2, <1>3 DEF Edits, q

\* The record of how a request ended.
LEMMA DoneKeeps ==
  ASSUME NEW t, NEW w, Good(t, w), NEW r \in Requests, NEW d \in {"finished", "failed"},
         d = "finished" => w[r].sent = Chunks
  PROVE  LET k == [t EXCEPT !.req[r].done = d] IN
         /\ Good(k, w) /\ SameTurn(t, k) /\ SameClaims(t, k)
         /\ k.req[r].ready = t.req[r].ready
<1> DEFINE k == [t EXCEPT !.req[r].done = d]
<1>1. t \in TapState /\ d \in {"finished", "failed", Null}
  BY DEF Good
<1>2. /\ Edits(t, k, r) /\ k.req[r].done = d
      /\ k.req[r].known = t.req[r].known /\ k.req[r].verdict = t.req[r].verdict
  BY <1>1, DoneIs
<1> HIDE DEF k
<1>3. RequestSound(t, r) /\ OfProfile(t, r) /\ AskedIfMatched(t, w, r) /\ GoodBut(t, w, r)
  BY GoodIs DEF Good, RequestsSound, ProfileHolds, AskedIsMatched
<1>4. RequestSound(k, r) /\ OfProfile(k, r) /\ AskedIfMatched(k, w, r)
  BY <1>2, <1>3 DEF Edits, SameTurn, RequestSound, OfProfile, AskedIfMatched
<1>5. Good(k, w)
  BY <1>2, <1>3, <1>4, EditKeeps DEF Edits
<1>6. SameClaims(t, k)
  BY <1>2 DEF Edits, SameTurn, SameClaims
<1> QED BY <1>2, <1>5, <1>6 DEF Edits, k

LEMMA EndedWellKeeps ==
  ASSUME NEW t, NEW w, Good(t, w), NEW r \in Requests, w[r].sent = Chunks
  PROVE  LET u == EndedWell(t, r) IN Good(u, w) /\ Feeds(t, u) /\ SameClaims(t, u)
<1> DEFINE k == [t EXCEPT !.req[r].done = "finished"]
           u == EndedWell(t, r)
<1>1. /\ Good(k, w) /\ SameTurn(t, k) /\ SameClaims(t, k)
      /\ k.req[r].ready = t.req[r].ready
  BY DoneKeeps
<1>2. u = IF r = t.matched /\ t.req[r].ready THEN Finish(k) ELSE k
  BY DEF EndedWell
<1> HIDE DEF k, u
<1>3. CASE r = t.matched /\ t.req[r].ready /\ k.live
  <2>1. k.log = Fed(k.matched, Chunks + 1) /\ k.matched = r
    BY <1>1, <1>3, TapAssumption DEF Good, FeedInStep, SameTurn
  <2>2. Good(u, w) /\ Feeds(k, u) /\ SameClaims(k, u)
    BY <1>1, <1>2, <1>3, <2>1, GoodIs, FinishKeeps
  <2> QED BY <1>1, <2>2 DEF Feeds, SameTurn, SameClaims, u
<1>4. CASE ~(r = t.matched /\ t.req[r].ready /\ k.live)
  <2>1. u = k
    BY <1>2, <1>4 DEF Finish
  <2> QED BY <1>1, <2>1 DEF Feeds, SameTurn, u
<1> QED BY <1>3, <1>4

LEMMA EndedBadlyKeeps ==
  ASSUME NEW t, NEW w, Good(t, w), NEW r \in Requests
  PROVE  LET u == EndedBadly(t, r) IN Good(u, w) /\ Feeds(t, u) /\ SameClaims(t, u)
<1> DEFINE k == [t EXCEPT !.req[r].done = "failed"]
           u == EndedBadly(t, r)
<1>1. Good(k, w) /\ SameTurn(t, k) /\ SameClaims(t, k)
  BY DoneKeeps
<1>2. u = IF r = t.matched THEN Fail(k, "stream_aborted") ELSE k
  BY DEF EndedBadly
<1> HIDE DEF k, u
<1>3. CASE r = t.matched
  <2>1. k.live => CutShort(k.log)
    BY <1>1, GoodIs, GoodIsCut DEF Good
  <2>2. Good(u, w) /\ Feeds(k, u) /\ SameClaims(k, u)
    BY <1>1, <1>2, <1>3, <2>1, GoodIs, FailKeeps DEF Reasons
  <2> QED BY <1>1, <2>2 DEF Feeds, SameTurn, SameClaims, u
<1>4. CASE r # t.matched
  BY <1>1, <1>2, <1>4 DEF Feeds, SameTurn, u
<1> QED BY <1>3, <1>4

-----------------------------------------------------------------------------
(* The match *)

\* u follows no response that t did not, but a sound one (MatchIsSound).
MatchSound(t, u) ==
  LET m == u.matched
      rivals == {q \in Requests \ {m} : /\ u.req[q].turn = u.turn
                                       /\ u.req[q].known = "candidate"
                                       /\ u.req[q].verdict \in Profiles} IN
  m # Null /\ m # t.matched =>
    /\ u.req[m].turn = u.turn /\ u.req[m].anchors # "none"
    /\ u.profile # Null => u.req[m].verdict \in Profiles
    /\ u.req[m].anchors = "partial" => rivals = {}
    /\ u.profile = Null => \A q \in rivals : u.req[m].score > u.req[q].score

LEMMA ClaimsKeep ==
  ASSUME NEW t, NEW u, NEW v, MatchSound(t, u), SameClaims(u, v),
         u.matched \in Requests \union {Null}
  PROVE  MatchSound(t, v)
BY DEF MatchSound, SameClaims

\* A handler may make r the match of the turn, and then asks for its body.
Handles(t, u, w, r) ==
  /\ Feeds(t, u) /\ u.log \in Seq(FeedEvents)
  /\ \/ u.matched = t.matched /\ Good(u, w)
     \/ /\ t.matched = Null /\ u.matched = r /\ Good(u, AskedFor(w, r))
        /\ MatchSound(t, u) /\ u.req[r].verdict # Null

LEMMA RespondedKeeps ==
  ASSUME NEW t, NEW w, NEW r \in Requests, GoodBut(t, w, r), NEW v \in Verdicts,
         t.live => t.req[r].turn = t.turn, t.req[r].verdict \in {Null, v}
  PROVE  LET u == Responded(t, r, v) IN
         /\ Handles(t, u, w, r)
         /\ u.live /\ u.matched = Null /\ u.profile # Null
            /\ u.req[r].turn = u.turn /\ u.req[r].known = "candidate"
              => v \in Profiles \union {"bad_status", "moved", "other_type"}
<1> DEFINE u == Responded(t, r, v)
           q == t.req[r]
           k == [t EXCEPT !.req[r].verdict = v]
<1>0. t \in TapState /\ q \in RequestState /\ t.log \in Seq(FeedEvents)
  BY DEF GoodBut, Sound, TapState
<1>1. ASSUME NEW f \in Reasons, u = Fail(t, f) PROVE Handles(t, u, w, r) /\ ~u.live
  <2>1. t.live => CutShort(t.log)
    BY GoodIsCut DEF GoodBut
  <2> HIDE DEF u
  <2>2. Good(u, w) /\ Feeds(t, u) /\ SameClaims(t, u) /\ ~u.live
    BY <1>1, <2>1, FailKeeps DEF GoodBut
  <2> QED BY <2>2 DEF Handles, SameClaims, Good, TapState
<1>2. ASSUME u = t, OfProfile(t, r) PROVE Handles(t, u, w, r)
  BY <1>0, <1>2, GoodIs DEF Handles, Feeds
<1>3. CASE ~t.live \/ t.matched # Null \/ q.known # "candidate"
  <2>1. u = t /\ OfProfile(t, r)
    BY <1>3 DEF Responded, OfProfile
  <2> QED BY <1>2, <1>3, <2>1
<1>4. CASE /\ t.live /\ t.matched = Null /\ q.known = "candidate"
           /\ \/ v \in {"bad_status", "moved"}
              \/ v # "other_type" /\ t.profile # Null /\ v = "off_profile"
  <2>1. u = Fail(t, "stream_aborted") \/ u = Fail(t, "profile_mismatch")
    BY <1>4 DEF Responded
  <2> QED BY <1>1, <2>1 DEF Reasons
<1>5. CASE t.live /\ t.matched = Null /\ q.known = "candidate" /\ v = "other_type"
  <2>1. u = t /\ OfProfile(t, r)
    BY <1>5 DEF Responded, OfProfile
  <2> QED BY <1>2, <1>5, <2>1
<1>6. CASE /\ t.live /\ t.matched = Null /\ q.known = "candidate"
           /\ v \notin {"bad_status", "moved", "other_type"}
           /\ t.profile # Null => v # "off_profile"
  <2>1. t.profile # Null => v \in Profiles
    BY <1>6 DEF Verdicts, Wrong
  <2>2. u = IF t.profile # Null /\ q.anchors = "full" THEN Selecting(k, r)
            ELSE [k EXCEPT !.timers = @ \union {"select"}]
    BY <1>6 DEF Responded
  <2>3. v \in Verdicts \union {Null}
    OBVIOUS
  <2>4. /\ Edits(t, k, r) /\ k.req[r].verdict = v
        /\ k.req[r].known = q.known /\ k.req[r].done = q.done
    BY <1>0, <2>3, VerdictIs
  <2> HIDE DEF k, u
  <2>5. RequestSound(t, r) /\ AskedIfMatched(t, w, r)
    BY DEF GoodBut, Sound, RequestsSound, AskedIsMatched
  <2>6. RequestSound(k, r) /\ OfProfile(k, r) /\ AskedIfMatched(k, w, r)
    BY <2>1, <2>4, <2>5 DEF Edits, SameTurn, RequestSound, OfProfile, AskedIfMatched
  <2>7. Good(k, w)
    BY <2>4, <2>6, EditKeeps DEF Edits
  <2>8. CASE t.profile # Null /\ q.anchors = "full"
    <3>1. k.req[r].turn = k.turn /\ k.req[r].known = "candidate" /\ k.live /\ k.matched = Null
      BY <1>6, <2>4, TapAssumption DEF Edits, SameTurn, GoodBut
    <3>2. /\ Good(u, AskedFor(w, r)) /\ Feeds(k, u)
          /\ u.matched = r /\ u.turn = k.turn /\ u.profile = k.profile /\ u.req = k.req
      BY <2>2, <2>7, <2>8, <3>1, SelectingKeeps
    <3>3. MatchSound(t, u)
      BY <1>6, <2>1, <2>4, <2>8, <3>1, <3>2 DEF MatchSound, SameTurn, Edits
    <3>6. u.req[r].verdict # Null
      BY <2>4, <3>2, TapAssumption DEF Verdicts
    <3>4. Feeds(t, u) /\ u.log \in Seq(FeedEvents)
      BY <2>4, <3>2 DEF Feeds, Edits, SameTurn, Good, TapState
    <3>5. r # Null
      BY TapAssumption
    <3> QED BY <1>6, <3>2, <3>3, <3>4, <3>5, <3>6 DEF Handles, u
  <2>9. CASE ~(t.profile # Null /\ q.anchors = "full")
    <3> DEFINE timers == k.timers \union {"select"}
    <3>1. u = [k EXCEPT !.timers = timers]
      BY <2>2, <2>9
    <3>2. k \in TapState /\ timers \in SUBSET Timers
      BY <2>4 DEF Edits, SameTurn, TapState, Timers
    <3> HIDE DEF timers
    <3>3. SameTurn(k, u) /\ u.req = k.req
      BY <3>1, <3>2 DEF SameTurn, TapState
    <3>4. Good(u, w)
      BY <2>7, <3>3, TimersKeep
    <3>5. u.matched = t.matched /\ Feeds(t, u) /\ u.log \in Seq(FeedEvents) /\ u.profile = t.profile
      BY <1>0, <2>4, <3>3 DEF Edits, SameTurn, Feeds
    <3> QED BY <2>1, <3>4, <3>5 DEF Handles, u
  <2> QED BY <2>8, <2>9
<1> QED BY <1>3, <1>4, <1>5, <1>6

LEMMA HandlesOn ==
  ASSUME NEW t \in TapState, NEW x, NEW v, NEW w, NEW r \in Requests, Handles(t, x, w, r),
         SameClaims(x, v), Feeds(x, v), v \in TapState, x \in TapState,
         Good(x, w) => Good(v, w), Good(x, AskedFor(w, r)) => Good(v, AskedFor(w, r))
  PROVE  Handles(t, v, w, r)
<1>1. Feeds(t, v) /\ v.log \in Seq(FeedEvents)
  <2>1. t.log \in Seq(FeedEvents) /\ x.log \in Seq(FeedEvents) /\ v.log \in Seq(FeedEvents)
    BY DEF TapState
  <2> QED BY <2>1, FeedsOn DEF Handles
<1>2. v.matched = x.matched /\ (MatchSound(t, x) => MatchSound(t, v))
  <2>1. x.matched \in Requests \union {Null}
    BY DEF TapState
  <2> QED BY <2>1, ClaimsKeep DEF SameClaims
<1>3. v.req[r].verdict = x.req[r].verdict
  BY DEF SameClaims
<1> QED BY <1>1, <1>2, <1>3 DEF Handles

LEMMA ReplayedKeeps ==
  ASSUME NEW t, NEW w, NEW r \in Requests, GoodBut(t, w, r), t.req[r].turn = t.turn
  PROVE  Handles(t, Replayed(t, r), w, r)
<1> DEFINE q == t.req[r]
           x == IF q.verdict = Null THEN t ELSE Responded(t, r, q.verdict)
           a == AskedFor(w, r)
<1>1. t \in TapState /\ q \in RequestState /\ w \in WireState
  BY DEF GoodBut, Sound, TapState
<1>2. Handles(t, x, w, r)
  <2>1. CASE q.verdict = Null
    <3>1. OfProfile(t, r)
      BY <2>1 DEF OfProfile
    <3>2. Good(t, w)
      BY <3>1, GoodIs
    <3> QED BY <1>1, <2>1, <3>2 DEF Handles, Feeds, TapState
  <2>2. CASE q.verdict # Null
    <3>1. q.verdict \in Verdicts
      BY <1>1, <2>2 DEF RequestState
    <3>2. Handles(t, Responded(t, r, q.verdict), w, r)
      BY <3>1, RespondedKeeps
    <3> QED BY <2>2, <3>2
  <2> QED BY <2>1, <2>2
<1>3. Replayed(t, r) = IF q.done = "failed" THEN EndedBadly(x, r)
                       ELSE IF q.done = "finished" THEN EndedWell(x, r) ELSE x
  BY DEF Replayed
<1>4. q.done = "finished" => w[r].sent = Chunks /\ a[r].sent = Chunks
  <2>1. a[r].sent = w[r].sent
    BY <1>1 DEF AskedFor, WireState, BodyState
  <2> QED BY <2>1 DEF GoodBut, Sound, AskedIsMatched, AskedIfMatched
<1> HIDE DEF x, q
<1>5. x \in TapState
  BY <1>2 DEF Handles, Good
<1>6. ASSUME NEW y \in {w, a}, Good(x, y)
      PROVE  LET v == EndedBadly(x, r) IN Good(v, y) /\ Feeds(x, v) /\ SameClaims(x, v)
  BY <1>6, EndedBadlyKeeps
<1>7. ASSUME NEW y \in {w, a}, Good(x, y), q.done = "finished"
      PROVE  LET v == EndedWell(x, r) IN Good(v, y) /\ Feeds(x, v) /\ SameClaims(x, v)
  BY <1>4, <1>7, EndedWellKeeps
<1>8. Good(x, w) \/ Good(x, a)
  BY <1>2 DEF Handles
<1>9. CASE q.done = "failed"
  <2> DEFINE v == EndedBadly(x, r)
  <2>1. /\ Good(x, w) => Good(v, w)
        /\ Good(x, a) => Good(v, a)
        /\ Feeds(x, v) /\ SameClaims(x, v)
    BY <1>6, <1>8
  <2>2. Replayed(t, r) = v
    BY <1>3, <1>9
  <2>3. v \in TapState
    BY <1>8, <2>1 DEF Good
  <2> HIDE DEF v
  <2> QED BY <1>1, <1>2, <1>5, <2>1, <2>2, <2>3, HandlesOn
<1>10. CASE q.done = "finished"
  <2> DEFINE v == EndedWell(x, r)
  <2>1. /\ Good(x, w) => Good(v, w)
        /\ Good(x, a) => Good(v, a)
        /\ Feeds(x, v) /\ SameClaims(x, v)
    BY <1>7, <1>8, <1>10
  <2>2. Replayed(t, r) = v
    BY <1>3, <1>10
  <2>3. v \in TapState
    BY <1>8, <2>1 DEF Good
  <2> HIDE DEF v
  <2> QED BY <1>1, <1>2, <1>5, <2>1, <2>2, <2>3, HandlesOn
<1> QED BY <1>2, <1>3, <1>9, <1>10

-----------------------------------------------------------------------------
(* The callbacks *)

\* What a step keeps, shows and feeds.
StepSound ==
  /\ TapInv' /\ MatchSound(tap, tap')
  /\ feed!NextFeed \/ UNCHANGED <<tap.log, tap.closed>>

LEMMA FeedsIs ==
  ASSUME Feeds(tap, tap')
  PROVE  feed!NextFeed \/ UNCHANGED <<tap.log, tap.closed>>
BY DEF Feeds, feed!NextFeed, feed!Grow

\* A step that leaves the match alone.
LEMMA StepIs ==
  ASSUME TapInv, link' \in BOOLEAN, Good(tap', wire'), Feeds(tap, tap'),
         tap'.matched = tap.matched
  PROVE  StepSound
BY FeedsIs DEF StepSound, TapInv, MatchSound

LEMMA HandlesIs ==
  ASSUME TapInv, NEW r \in Requests, Handles(tap, tap', wire, r), UNCHANGED link,
         wire' = Asked(tap, tap')
  PROVE  StepSound
<1>1. CASE tap'.matched = tap.matched /\ Good(tap', wire)
  <2>1. wire' = wire
    BY <1>1 DEF Asked
  <2> QED BY <1>1, <2>1, StepIs DEF Handles, TapInv
<1>2. CASE /\ tap.matched = Null /\ tap'.matched = r
           /\ Good(tap', AskedFor(wire, r)) /\ MatchSound(tap, tap')
  <2>1. wire' = AskedFor(wire, r)
    BY <1>2, TapAssumption DEF Asked, AskedFor
  <2> QED BY <1>2, <2>1, FeedsIs DEF StepSound, TapInv, Handles
<1> QED BY <1>1, <1>2 DEF Handles

LEMMA RedirectedStep ==
  ASSUME TapInv, NEW r \in Requests, Redirected(r) PROVE StepSound
<1>1. Good(tap, wire) /\ UNCHANGED <<link, wire>> /\ tap' = Fail(tap, "profile_mismatch")
  BY DEF TapInv, Redirected
<1>2. tap.live => CutShort(tap.log)
  BY <1>1, GoodIs, GoodIsCut DEF Good
<1>3. Good(tap', wire) /\ Feeds(tap, tap') /\ SameClaims(tap, tap')
  BY <1>1, <1>2, GoodIs, FailKeeps DEF Reasons
<1> QED BY <1>1, <1>3, StepIs DEF SameClaims, TapInv

LEMMA BodyRetrievedStep ==
  ASSUME TapInv, NEW r \in Requests, BodyRetrieved(r) PROVE StepSound
<1> DEFINE t == Registered(tap, r)
<1>1. Good(tap, wire) /\ tap.req[r].known = "body" /\ UNCHANGED link /\ tap \in TapState
  BY DEF TapInv, BodyRetrieved, Good
<1>2. /\ GoodBut(tap, wire, r) /\ RequestSound(tap, r) /\ AskedIfMatched(tap, wire, r)
      /\ tap.live /\ tap.req[r].turn = tap.turn
  BY <1>1, GoodIs DEF Good, RequestsSound, RequestSound, AskedIsMatched
<1>3. /\ wire' = Asked(tap, tap')
      /\ \/ tap' = [tap EXCEPT !.req[r].known = "no"]
         \/ tap' = IF t.req[r].known = "candidate" THEN Replayed(t, r) ELSE t
  BY DEF BodyRetrieved
<1>4. ASSUME NEW k \in {"no", "candidate"}, k = "candidate" => tap.req[r].anchors # "none"
      PROVE  LET u == [tap EXCEPT !.req[r].known = k] IN
             /\ Edits(tap, u, r) /\ u.req[r].known = k /\ GoodBut(u, wire, r)
             /\ k = "no" => Good(u, wire)
  <2> DEFINE u == [tap EXCEPT !.req[r].known = k]
  <2>1. k \in {"no", "body", "candidate"}
    OBVIOUS
  <2>2. /\ Edits(tap, u, r) /\ u.req[r].known = k
        /\ u.req[r].verdict = tap.req[r].verdict /\ u.req[r].done = tap.req[r].done
    BY <1>1, <2>1, KnownIs
  <2> HIDE DEF u
  <2>3. RequestSound(u, r) /\ AskedIfMatched(u, wire, r) /\ (k = "no" => OfProfile(u, r))
    BY <1>2, <1>4, <2>2 DEF Edits, SameTurn, RequestSound, AskedIfMatched, OfProfile
  <2>4. GoodBut(u, wire, r) /\ (k = "no" => Good(u, wire))
    BY <1>2, <2>2, <2>3, EditKeeps DEF Edits
  <2> QED BY <2>2, <2>4 DEF u
<1>5. CASE tap' = [tap EXCEPT !.req[r].known = "no"]
  <2>1. tap' = [tap EXCEPT !.req[r].known = "no"]
    BY <1>5
  <2>2. Edits(tap, tap', r) /\ Good(tap', wire)
    BY <1>4, <2>1
  <2>3. tap'.matched = tap.matched /\ wire' = wire /\ Feeds(tap, tap')
    BY <1>3, <2>2 DEF Edits, SameTurn, Asked, Feeds
  <2> QED BY <1>1, <2>2, <2>3, StepIs DEF TapInv
<1>6. CASE /\ tap' = IF t.req[r].known = "candidate" THEN Replayed(t, r) ELSE t
           /\ tap.req[r].anchors # "none"
  <2>1. t = [tap EXCEPT !.req[r].known = "candidate"]
    BY <1>6 DEF Registered
  <2> HIDE DEF t
  <2>2. Edits(tap, t, r) /\ t.req[r].known = "candidate" /\ GoodBut(t, wire, r)
    BY <1>4, <1>6, <2>1
  <2>3. tap' = Replayed(t, r) /\ t.req[r].turn = t.turn
    BY <1>2, <1>6, <2>2 DEF Edits, SameTurn
  <2>4. Handles(t, tap', wire, r)
    BY <2>2, <2>3, ReplayedKeeps
  <2>5. Handles(tap, tap', wire, r)
    BY <2>2, <2>4 DEF Handles, Edits, SameTurn, Feeds, MatchSound
  <2> QED BY <1>1, <1>3, <2>5, HandlesIs
<1>7. CASE /\ tap' = IF t.req[r].known = "candidate" THEN Replayed(t, r) ELSE t
           /\ tap.req[r].anchors = "none"
  <2>1. t = [tap EXCEPT !.req[r].known = "no"]
    BY <1>7 DEF Registered
  <2> HIDE DEF t
  <2>2. t.req[r].known = "no"
    BY <1>4, <2>1
  <2> QED BY <1>5, <1>7, <2>1, <2>2
<1> HIDE DEF t
<1> QED BY <1>3, <1>5, <1>6, <1>7

LEMMA ResponseReceivedStep ==
  ASSUME TapInv, NEW r \in Requests, NEW v \in Verdicts, ResponseReceived(r, v)
  PROVE  StepSound
<1> DEFINE u == Responded(tap, r, v)
<1>1. /\ Good(tap, wire) /\ UNCHANGED link /\ tap \in TapState
      /\ tap.live /\ tap.req[r].turn = tap.turn /\ tap.req[r].verdict = Null
  BY DEF TapInv, Good, ResponseReceived, Followed
<1>2. GoodBut(tap, wire, r) /\ RequestSound(tap, r) /\ AskedIfMatched(tap, wire, r)
  BY <1>1, GoodIs DEF Good, RequestsSound, AskedIsMatched
<1>3. v # Null /\ v \in Verdicts \union {Null}
  BY TapAssumption DEF Verdicts
<1>4. CASE tap.req[r].known = "body"
  <2> DEFINE k == [tap EXCEPT !.req[r].verdict = v]
  <2>1. /\ Edits(tap, k, r) /\ k.req[r].verdict = v
        /\ k.req[r].known = tap.req[r].known /\ k.req[r].done = tap.req[r].done
    BY <1>1, <1>3, VerdictIs
  <2>2. tap' = k /\ wire' = Asked(tap, k)
    BY <1>3, <1>4, <2>1 DEF ResponseReceived
  <2> HIDE DEF k
  <2>3. RequestSound(k, r) /\ AskedIfMatched(k, wire, r) /\ OfProfile(k, r)
    BY <1>2, <1>4, <2>1 DEF Edits, SameTurn, RequestSound, AskedIfMatched, OfProfile
  <2>4. Good(tap', wire)
    BY <1>2, <2>1, <2>2, <2>3, EditKeeps DEF Edits
  <2>5. tap'.matched = tap.matched /\ wire' = wire /\ Feeds(tap, tap')
    BY <2>1, <2>2 DEF Edits, SameTurn, Asked, Feeds
  <2> QED BY <1>1, <2>4, <2>5, StepIs DEF TapInv
<1>5. CASE tap.req[r].known # "body"
  <2>1. /\ tap' = IF u.req[r].verdict = Null THEN [u EXCEPT !.req[r].verdict = v] ELSE u
        /\ wire' = Asked(tap, u)
    BY <1>5 DEF ResponseReceived
  <2>2. /\ Handles(tap, u, wire, r)
        /\ u.live /\ u.matched = Null /\ u.profile # Null
           /\ u.req[r].turn = u.turn /\ u.req[r].known = "candidate"
             => v \in Profiles \union {"bad_status", "moved", "other_type"}
    BY <1>1, <1>2, RespondedKeeps
  <2> HIDE DEF u
  <2>3. CASE u.req[r].verdict # Null
    BY <1>1, <2>1, <2>2, <2>3, HandlesIs
  <2>4. CASE u.req[r].verdict = Null
    <3> DEFINE k == [u EXCEPT !.req[r].verdict = v]
    <3>1. u \in TapState
      BY <2>2 DEF Handles, Good
    <3>2. /\ Edits(u, k, r) /\ k.req[r].verdict = v
          /\ k.req[r].known = u.req[r].known /\ k.req[r].done = u.req[r].done
      BY <1>3, <3>1, VerdictIs
    <3>3. tap' = k
      BY <2>1, <2>4
    <3> HIDE DEF k
    <3>4. OfProfile(k, r)
      BY <2>2, <3>2 DEF OfProfile, Edits, SameTurn
    <3>5. ASSUME NEW y, Good(u, y) PROVE Good(k, y)
      <4>1. GoodBut(u, y, r) /\ RequestSound(u, r) /\ AskedIfMatched(u, y, r)
        BY <3>5, GoodIs DEF Good, RequestsSound, AskedIsMatched
      <4>2. RequestSound(k, r) /\ AskedIfMatched(k, y, r)
        BY <3>2, <4>1 DEF Edits, SameTurn, RequestSound, AskedIfMatched
      <4> QED BY <3>2, <3>4, <4>1, <4>2, EditKeeps DEF Edits
    <3>6. u.matched = tap.matched /\ Good(u, wire)
      BY <2>2, <2>4 DEF Handles
    <3>7. Good(tap', wire) /\ tap'.matched = tap.matched /\ wire' = wire /\ Feeds(tap, tap')
      BY <2>1, <2>2, <3>2, <3>3, <3>5, <3>6 DEF Edits, SameTurn, Feeds, Handles, Asked
    <3> QED BY <1>1, <3>7, StepIs DEF TapInv
  <2> QED BY <2>3, <2>4
<1> QED BY <1>4, <1>5

LEMMA SelectTimerStep == ASSUME TapInv, SelectTimer PROVE StepSound
<1> DEFINE ready == {r \in Requests : /\ Followed(r) /\ tap.req[r].known = "candidate"
                                      /\ tap.req[r].verdict \in Profiles \union {"off_profile"}}
           timers == tap.timers \ {"select"}
           t == [tap EXCEPT !.timers = timers]
<1>1. Good(tap, wire) /\ tap \in TapState /\ UNCHANGED link /\ timers \in SUBSET Timers
  BY DEF TapInv, Good, SelectTimer, TapState
<1>2. \/ tap' = t /\ wire' = wire
      \/ \E r \in Best(ready) : tap' = Selecting(t, r) /\ wire' = Asked(tap, Selecting(t, r))
  BY DEF SelectTimer
<1>3. SameTurn(tap, t) /\ t.req = tap.req
  <2> HIDE DEF timers
  <2> QED BY <1>1 DEF SameTurn, TapState
<1> HIDE DEF t
<1>4. Good(t, wire) /\ Feeds(tap, t)
  BY <1>1, <1>3, TimersKeep DEF SameTurn, Feeds
<1>5. CASE tap' = t /\ wire' = wire
  BY <1>1, <1>3, <1>4, <1>5, StepIs DEF SameTurn, TapInv
<1>6. ASSUME NEW r \in Best(ready), tap' = Selecting(t, r), wire' = Asked(tap, tap')
      PROVE  StepSound
  <2>1. /\ r \in Requests /\ t.live /\ t.req[r].turn = t.turn
        /\ t.req[r].known = "candidate" /\ r \in ready
    BY <1>3, <1>6 DEF Best, Followed, SameTurn
  <2>2. CASE t.matched # Null
    <3>1. tap' = t
      BY <1>6, <2>2 DEF Selecting
    <3>2. wire' = wire
      BY <1>3, <1>6, <3>1 DEF Asked, SameTurn
    <3> QED BY <1>5, <3>1, <3>2
  <2>3. CASE t.matched = Null
    <3>1. /\ Good(tap', AskedFor(wire, r)) /\ Feeds(t, tap')
          /\ tap'.matched = r /\ tap'.turn = t.turn /\ tap'.profile = t.profile
          /\ tap'.req = t.req
      BY <1>4, <1>6, <2>1, <2>3, SelectingKeeps
    <3>2. OfProfile(tap, r)
      BY <1>1, <2>1 DEF Good, ProfileHolds
    <3>3. tap.profile # Null => tap.req[r].verdict \in Profiles
      BY <1>3, <2>1, <2>3, <3>2, TapAssumption DEF OfProfile, SameTurn, Wrong
    <3>4. tap.live /\ tap.matched = Null
      BY <1>3, <2>1, <2>3 DEF SameTurn
    <3>5. \A q \in Requests :
            /\ tap'.req[q].turn = tap'.turn /\ tap'.req[q].known = "candidate"
            /\ tap'.req[q].verdict \in Profiles
            => q \in ready
      BY <1>3, <3>1, <3>4 DEF Followed, SameTurn
    <3>6. /\ \A q \in ready \ {r} : tap.req[r].score > tap.req[q].score
          /\ tap.req[r].anchors = "full" \/ ready = {r}
      BY <1>6 DEF Best
    <3> HIDE DEF ready
    <3>7. RequestSound(tap, r)
      BY <1>1, <2>1 DEF Good, RequestsSound
    <3>8. MatchSound(tap, tap')
      BY <1>3, <2>1, <3>1, <3>3, <3>5, <3>6, <3>7 DEF MatchSound, SameTurn, RequestSound
    <3>9. tap.req[r].verdict # Null
      BY <2>1, TapAssumption DEF ready, Wrong
    <3>10. Feeds(tap, tap') /\ tap'.log \in Seq(FeedEvents)
      BY <1>3, <3>1 DEF Feeds, SameTurn, Good, TapState
    <3>11. Handles(tap, tap', wire, r)
      BY <1>3, <3>1, <3>4, <3>8, <3>9, <3>10 DEF Handles
    <3> QED BY <1>1, <1>6, <2>1, <3>11, HandlesIs
  <2> QED BY <2>2, <2>3
<1> QED BY <1>2, <1>5, <1>6

\* Nothing of the body of a request is new.
SameBodies(w, x) ==
  x \in WireState /\ \A q \in Requests : /\ x[q].stream = w[q].stream
                                         /\ x[q].sent = w[q].sent /\ x[q].from = w[q].from

LEMMA BodiesKeep ==
  ASSUME NEW t, NEW w, NEW x, Good(t, w), SameBodies(w, x)
  PROVE  Good(t, x)
<1>1. AskedIsMatched(t, x)
  BY DEF Good, SameBodies, AskedIsMatched, AskedIfMatched
<1>2. t.matched \in Requests \union {Null}
  BY DEF Good, TapState
<1>3. FeedInStep(t, x)
  BY <1>2 DEF Good, SameBodies, FeedInStep
<1> QED BY <1>1, <1>3 DEF Good, SameBodies

LEMMA OpenIs ==
  ASSUME NEW w \in WireState, NEW r \in Requests, NEW b \in BOOLEAN
  PROVE  SameBodies(w, [w EXCEPT ![r].open = b])
<1> DEFINE v == w[r]
           y == [v EXCEPT !.open = b]
           x == [w EXCEPT ![r] = y]
<1>1. v \in BodyState /\ x = [w EXCEPT ![r].open = b]
  BY DEF WireState
<1> HIDE DEF v
<1>2. y \in BodyState /\ y.stream = v.stream /\ y.sent = v.sent /\ y.from = v.from
  BY <1>1 DEF BodyState
<1> HIDE DEF y
<1>3. SameBodies(w, x)
  BY <1>2 DEF SameBodies, WireState, v
<1> QED BY <1>1, <1>3

LEMMA LoadingFinishedStep ==
  ASSUME TapInv, NEW r \in Requests, LoadingFinished(r) PROVE StepSound
<1>1. /\ Good(tap, wire) /\ UNCHANGED link /\ wire[r].sent = Chunks
      /\ wire' = [wire EXCEPT ![r].open = FALSE] /\ tap' = EndedWell(tap, r)
  BY DEF TapInv, LoadingFinished
<1>2. SameBodies(wire, wire')
  BY <1>1, OpenIs DEF Good
<1>3. Good(tap, wire')
  BY <1>1, <1>2, BodiesKeep
<1>4. wire'[r].sent = Chunks
  BY <1>1, <1>2 DEF SameBodies
<1>5. Good(tap', wire') /\ Feeds(tap, tap') /\ SameClaims(tap, tap')
  BY <1>1, <1>3, <1>4, EndedWellKeeps
<1> QED BY <1>1, <1>5, StepIs DEF SameClaims, TapInv

LEMMA LoadingFailedStep ==
  ASSUME TapInv, NEW r \in Requests, LoadingFailed(r) PROVE StepSound
<1>1. /\ Good(tap, wire) /\ UNCHANGED link
      /\ wire' = [wire EXCEPT ![r].open = FALSE] /\ tap' = EndedBadly(tap, r)
  BY DEF TapInv, LoadingFailed
<1>2. SameBodies(wire, wire')
  BY <1>1, OpenIs DEF Good
<1>3. Good(tap, wire')
  BY <1>1, <1>2, BodiesKeep
<1>4. Good(tap', wire') /\ Feeds(tap, tap') /\ SameClaims(tap, tap')
  BY <1>1, <1>3, EndedBadlyKeeps
<1> QED BY <1>1, <1>4, StepIs DEF SameClaims, TapInv

LEMMA TimersFireStep == ASSUME TapInv, TimersFire PROVE StepSound
<1>1. PICK name \in Timers, f \in Reasons : TimerFires(name, f)
  <2>1. /\ {"match", "firstByte", "stall"} \subseteq Timers
        /\ {"no_matching_request", "first_byte_timeout", "stall"} \subseteq Reasons
    BY DEF Timers, Reasons
  <2> QED BY <2>1, Zenon DEF TimersFire
<1> DEFINE timers == tap.timers \ {name}
           t == [tap EXCEPT !.timers = timers]
<1>2. Good(tap, wire) /\ tap \in TapState /\ timers \in SUBSET Timers
  BY DEF TapInv, Good, TapState
<1>3. tap' = Fail(t, f) /\ UNCHANGED <<link, wire>>
  BY <1>1 DEF TimerFires
<1> HIDE DEF timers
<1>4. SameTurn(tap, t) /\ t.req = tap.req
  BY <1>2 DEF SameTurn, TapState
<1> HIDE DEF t
<1>5. Good(t, wire) /\ (t.live => CutShort(t.log))
  BY <1>2, <1>4, TimersKeep, GoodIs, GoodIsCut DEF Good
<1>6. Good(tap', wire) /\ Feeds(t, tap') /\ SameClaims(t, tap')
  BY <1>3, <1>5, GoodIs, FailKeeps
<1>7. Feeds(tap, tap') /\ tap'.matched = tap.matched
  BY <1>4, <1>6 DEF Feeds, SameTurn, SameClaims
<1> QED BY <1>3, <1>6, <1>7, StepIs DEF TapInv

LEMMA CancelStep ==
  ASSUME TapInv, link' \in BOOLEAN, tap' = Cancel(tap), UNCHANGED wire PROVE StepSound
<1>1. Sound(tap, wire)
  BY GoodIs DEF TapInv
<1>2. Good(tap', wire) /\ tap'.log = tap.log /\ tap'.closed /\ SameClaims(tap, tap')
      /\ tap' \in TapState
  BY <1>1, CancelKeeps DEF Good
<1>3. feed!NextFeed
  BY <1>2 DEF feed!NextFeed, feed!Cancel, TapState
<1>4. MatchSound(tap, tap')
  BY <1>2 DEF MatchSound, SameClaims
<1> QED BY <1>2, <1>3, <1>4 DEF StepSound, TapInv

LEMMA RequestSentStep ==
  ASSUME TapInv, NEW r \in Requests, NEW in \in Inputs[r], RequestSent(r, in)
  PROVE  StepSound
<1> DEFINE none == <<>>
           c == tap.turn
           a == in.anchors
           s == in.score
           n == [NoRequest EXCEPT !.turn = c, !.anchors = a, !.score = s]
           t == [tap EXCEPT !.req = [tap.req EXCEPT ![r] = n]]
           k == IF in.inline THEN IF in.anchors = "none" THEN "no" ELSE "candidate" ELSE "body"
<1>1. /\ Good(tap, wire) /\ UNCHANGED link /\ tap \in TapState /\ wire \in WireState
      /\ tap.req[r].turn = 0 /\ tap.live /\ tap.matched = Null
      /\ wire' = [wire EXCEPT ![r].open = TRUE]
  BY DEF TapInv, Good, RequestSent
<1>2. in.anchors \in {"none", "partial", "full"} /\ in.score \in Nat /\ in.inline \in BOOLEAN
  BY TapAssumption DEF Input
<1>3. /\ NoRequest \in RequestState /\ NoRequest.known = "no" /\ NoRequest.verdict = Null
      /\ NoRequest.done = Null /\ NoRequest.ready = FALSE /\ NoRequest.pending = none
  BY DEF NoRequest, RequestState
<1>4. none \in Seq(Nat) /\ Len(none) = 0 /\ tap.turn \in Nat
  BY <1>1 DEF TapState
<1> HIDE DEF none
<1>5. /\ n \in RequestState /\ n.turn = tap.turn /\ n.anchors = in.anchors /\ n.known = "no"
      /\ n.verdict = Null /\ n.done = Null /\ n.ready = FALSE /\ n.pending = none
  <2> DEFINE fresh == NoRequest
  <2>1. fresh \in RequestState /\ n = [fresh EXCEPT !.turn = c, !.anchors = a, !.score = s]
    BY <1>3
  <2> HIDE DEF fresh, n
  <2>2. /\ n \in RequestState /\ n.turn = c /\ n.anchors = a /\ n.known = fresh.known
        /\ n.verdict = fresh.verdict /\ n.done = fresh.done /\ n.ready = fresh.ready
        /\ n.pending = fresh.pending
    BY <1>2, <1>4, <2>1 DEF RequestState
  <2> QED BY <1>3, <2>2 DEF fresh
<1>6. /\ t = [tap EXCEPT !.req[r] = n]
      /\ tap' = IF in.inline THEN Registered(t, r) ELSE [t EXCEPT !.req[r].known = "body"]
  BY DEF RequestSent
<1> HIDE DEF n
<1>7. /\ SameTurn(tap, t) /\ t.req[r] = n /\ \A p \in Requests \ {r} : t.req[p] = tap.req[p]
  BY <1>1, <1>5, EditIs
<1> HIDE DEF t
<1>8. tap' = [t EXCEPT !.req[r].known = k]
  BY <1>2, <1>5, <1>6, <1>7 DEF Registered
<1>9. /\ k \in {"no", "body", "candidate"}
      /\ k = "candidate" => in.anchors # "none"
  OBVIOUS
<1> HIDE DEF k
<1>10. /\ Edits(t, tap', r) /\ tap'.req[r].known = k
       /\ tap'.req[r].verdict = Null /\ tap'.req[r].done = Null
  <2> DEFINE e == [t EXCEPT !.req[r].known = k]
  <2>1. t \in TapState /\ k \in {"no", "body", "candidate"}
    BY <1>7, <1>9 DEF SameTurn
  <2>2. /\ Edits(t, e, r) /\ e.req[r].known = k
        /\ e.req[r].verdict = t.req[r].verdict /\ e.req[r].done = t.req[r].done
    BY <2>1, KnownIs
  <2>3. tap' = e
    BY <1>8
  <2> HIDE DEF e
  <2> QED BY <1>5, <1>7, <2>2, <2>3
<1>11. SameTurn(tap, tap') /\ \A p \in Requests \ {r} : tap'.req[p] = tap.req[p]
  BY <1>7, <1>10 DEF Edits, SameTurn
<1>12. /\ tap'.req[r].turn = tap.turn /\ tap'.req[r].anchors = in.anchors
       /\ tap'.req[r].ready = FALSE /\ tap'.req[r].pending = none
  BY <1>5, <1>7, <1>10 DEF Edits
<1>13. AskedIfMatched(tap, wire, r) /\ QueueIsTurns(tap)
  BY <1>1 DEF Good, AskedIsMatched
<1>14. wire[r].stream = "off" /\ tap.req[r].ready = FALSE /\ tap.req[r].pending = none
  BY <1>1, <1>13 DEF AskedIfMatched, TapState, RequestState, none
<1>15. wire[r].sent \in Nat
  BY <1>1 DEF WireState, BodyState
<1>16. RequestSound(tap', r) /\ OfProfile(tap', r) /\ AskedIfMatched(tap', wire, r)
  <2>1. "finished" # Null
    BY TapAssumption
  <2>2. RequestSound(tap', r)
    BY <1>1, <1>4, <1>9, <1>10, <1>11, <1>12 DEF RequestSound, SameTurn
  <2>3. OfProfile(tap', r)
    BY <1>10 DEF OfProfile
  <2>4. AskedIfMatched(tap', wire, r)
    BY <1>4, <1>10, <1>12, <1>13, <1>14, <1>15, <2>1 DEF AskedIfMatched, none
  <2> QED BY <2>2, <2>3, <2>4
<1>17. Good(tap', wire)
  BY <1>1, <1>11, <1>12, <1>14, <1>16, GoodIs, EditKeeps
<1>18. Good(tap', wire')
  BY <1>1, <1>17, OpenIs, BodiesKeep
<1>19. tap'.matched = tap.matched /\ Feeds(tap, tap')
  BY <1>11 DEF SameTurn, Feeds
<1> QED BY <1>1, <1>18, <1>19, StepIs DEF TapInv

\* What the provider and Chrome do with the body of r changes.
LEMMA BodyKeeps ==
  ASSUME NEW t, NEW w, NEW x, NEW r \in Requests, Sound(t, w), x \in WireState,
         \A q \in Requests \ {r} : x[q] = w[q], AskedIfMatched(t, x, r)
  PROVE  /\ Sound(t, x)
         /\ FeedInStep(t, x) /\ ProfileHolds(t) => Good(t, x)
<1>1. AskedIsMatched(t, x)
  BY DEF Sound, AskedIsMatched, AskedIfMatched
<1> QED BY <1>1 DEF Sound, Good

\* What the wire says of the body of r, and of nothing else, is edited.
BodyEdited(w, x, r) ==
  x \in WireState /\ \A q \in Requests \ {r} : x[q] = w[q]

Streamed(w, r, m) == [w EXCEPT ![r].stream = m]
AnsweredFrom(w, r, n) == [w EXCEPT ![r].stream = "answered", ![r].from = n]
SentTo(w, r, n) == [w EXCEPT ![r].sent = n]

LEMMA StreamedIs ==
  ASSUME NEW w \in WireState, NEW r \in Requests, NEW m \in {"off", "asked", "answered", "refused", "done"}
  PROVE  LET x == Streamed(w, r, m) IN
         /\ BodyEdited(w, x, r)
         /\ x[r].stream = m /\ x[r].sent = w[r].sent /\ x[r].from = w[r].from
<1> DEFINE v == w[r]
           y == [v EXCEPT !.stream = m]
           x == [w EXCEPT ![r] = y]
<1>1. v \in BodyState /\ x = Streamed(w, r, m)
  BY DEF WireState, Streamed
<1> HIDE DEF v
<1>2. y \in BodyState /\ y.stream = m /\ y.sent = v.sent /\ y.from = v.from
  BY <1>1 DEF BodyState
<1> HIDE DEF y
<1>3. BodyEdited(w, x, r) /\ x[r] = y
  BY <1>2 DEF WireState, BodyEdited
<1> HIDE DEF x
<1> QED BY <1>1, <1>2, <1>3 DEF v

LEMMA AnsweredFromIs ==
  ASSUME NEW w \in WireState, NEW r \in Requests, NEW n \in 0..Chunks
  PROVE  LET x == AnsweredFrom(w, r, n) IN
         /\ BodyEdited(w, x, r)
         /\ x[r].stream = "answered" /\ x[r].sent = w[r].sent /\ x[r].from = n
<1> DEFINE v == w[r]
           y == [v EXCEPT !.stream = "answered", !.from = n]
           x == [w EXCEPT ![r] = y]
<1>1. v \in BodyState /\ x = AnsweredFrom(w, r, n)
  BY DEF WireState, AnsweredFrom
<1> HIDE DEF v
<1>2. y \in BodyState /\ y.stream = "answered" /\ y.sent = v.sent /\ y.from = n
  BY <1>1 DEF BodyState
<1> HIDE DEF y
<1>3. BodyEdited(w, x, r) /\ x[r] = y
  BY <1>2 DEF WireState, BodyEdited
<1> HIDE DEF x
<1> QED BY <1>1, <1>2, <1>3 DEF v

LEMMA SentToIs ==
  ASSUME NEW w \in WireState, NEW r \in Requests, NEW n \in 0..Chunks
  PROVE  LET x == SentTo(w, r, n) IN
         /\ BodyEdited(w, x, r)
         /\ x[r].stream = w[r].stream /\ x[r].sent = n /\ x[r].from = w[r].from
<1> DEFINE v == w[r]
           y == [v EXCEPT !.sent = n]
           x == [w EXCEPT ![r] = y]
<1>1. v \in BodyState /\ x = SentTo(w, r, n)
  BY DEF WireState, SentTo
<1> HIDE DEF v
<1>2. y \in BodyState /\ y.stream = v.stream /\ y.sent = n /\ y.from = v.from
  BY <1>1 DEF BodyState
<1> HIDE DEF y
<1>3. BodyEdited(w, x, r) /\ x[r] = y
  BY <1>2 DEF WireState, BodyEdited
<1> HIDE DEF x
<1> QED BY <1>1, <1>2, <1>3 DEF v

LEMMA StreamStartsStep ==
  ASSUME TapInv, NEW r \in Requests, StreamStarts(r) PROVE StepSound
<1> USE TapAssumption
<1> DEFINE v == wire[r]
           n == v.sent
<1>1. /\ Good(tap, wire) /\ UNCHANGED <<link, tap>> /\ wire \in WireState
      /\ v \in BodyState /\ v.stream = "asked"
  BY DEF TapInv, Good, StreamStarts, WireState
<1>2. wire' = AnsweredFrom(wire, r, n) \/ wire' = Streamed(wire, r, "refused")
  BY DEF StreamStarts, AnsweredFrom, Streamed
<1>3. v.sent \in 0..Chunks /\ v.from \in 0..Chunks /\ n \in 0..Chunks
  BY <1>1 DEF BodyState
<1>4. /\ wire' \in WireState /\ wire'[r].stream \in {"answered", "refused"}
      /\ wire'[r].sent = v.sent /\ wire'[r].from \in {v.sent, v.from}
      /\ wire'[r].stream = "answered" => wire'[r].from = v.sent
      /\ \A q \in Requests \ {r} : wire'[q] = wire[q]
  <2> HIDE DEF n
  <2>1. CASE wire' = AnsweredFrom(wire, r, n)
    <3>1. /\ BodyEdited(wire, wire', r) /\ wire'[r].stream = "answered"
          /\ wire'[r].sent = wire[r].sent /\ wire'[r].from = n
      BY <1>1, <1>3, <2>1, AnsweredFromIs
    <3> QED BY <3>1 DEF BodyEdited, n
  <2>2. CASE wire' = Streamed(wire, r, "refused")
    <3>1. /\ BodyEdited(wire, wire', r) /\ wire'[r].stream = "refused"
          /\ wire'[r].sent = wire[r].sent /\ wire'[r].from = wire[r].from
      BY <1>1, <2>2, StreamedIs
    <3> QED BY <3>1 DEF BodyEdited
  <2> QED BY <1>2, <2>1, <2>2
<1> HIDE DEF v, n
<1>5. AskedIfMatched(tap, wire, r) /\ Sound(tap, wire) /\ ProfileHolds(tap)
  BY <1>1, GoodIs DEF Good, AskedIsMatched
<1>6. AskedIfMatched(tap, wire', r)
  BY <1>1, <1>3, <1>4, <1>5 DEF AskedIfMatched, v
<1>7. FeedInStep(tap, wire')
  <2>1. CASE ~tap.live \/ tap.matched = Null
    BY <1>1, <2>1 DEF FeedInStep, Good
  <2>2. CASE tap.live /\ tap.matched \in Requests \ {r}
    BY <1>1, <1>4, <2>2 DEF FeedInStep, Good
  <2>3. CASE tap.live /\ tap.matched = r
    <3>1. ~tap.req[r].ready /\ tap.log = Fed(r, 1) /\ tap.req[r].pending = <<>>
      BY <1>1, <2>3 DEF FeedInStep, Good, v
    <3>2. Len(tap.req[r].pending) = 0 /\ v.sent - v.sent = 0
      BY <1>3, <3>1
    <3> QED BY <1>4, <2>3, <3>1, <3>2 DEF FeedInStep
  <2> QED BY <1>1, <2>1, <2>2, <2>3 DEF Good, TapState
<1>8. Good(tap, wire')
  BY <1>4, <1>5, <1>6, <1>7, BodyKeeps
<1> QED BY <1>1, <1>8, StepIs DEF TapInv, Feeds

LEMMA ArmStep == ASSUME TapInv, Arm PROVE StepSound
<1> USE TapAssumption
<1> DEFINE c == Cancel(tap)
           n == tap.turn + 1
           none == <<>>
           old == [c EXCEPT !.turn = n, !.profile = Null, !.matched = Null,
                            !.bytes = 0, !.log = none]
           armed(p, m) == [old EXCEPT !.live = TRUE, !.profile = p, !.timers = m,
                                      !.closed = FALSE]
<1>1. /\ Good(tap, wire) /\ Sound(tap, wire) /\ UNCHANGED <<link, wire>> /\ tap \in TapState
      /\ tap.turn < MaxTurns
  BY GoodIs DEF TapInv, Good, Arm
<1>2. /\ Good(c, wire) /\ SameClaims(tap, c) /\ ~c.live /\ c.closed
  BY <1>1, CancelKeeps
<1>3. n \in 0..MaxTurns /\ 0 < n /\ none \in Seq(FeedEvents) /\ c.turn = tap.turn
  BY <1>1, <1>2 DEF TapState, SameClaims
<1>4. \/ tap' = old
      \/ \E p \in Profiles \union {Null}, m \in SUBSET Timers : tap' = armed(p, m)
  <2>1. {"match"} \in SUBSET Timers
    BY DEF Timers
  <2>2. old = [Cancel(tap) EXCEPT !.turn = @ + 1, !.profile = Null, !.matched = Null,
                                  !.bytes = 0, !.log = <<>>]
    BY <1>3
  <2> HIDE DEF old
  <2> QED BY <2>1, <2>2 DEF Arm
<1> HIDE DEF c, n, none
<1>5. c \in TapState
  BY <1>2 DEF Good
<1>6. /\ old \in TapState /\ old.turn = n /\ old.profile = Null /\ old.matched = Null
      /\ old.log = none /\ old.live = c.live /\ old.closed = c.closed /\ old.req = c.req
  <2>1. Null \in Profiles \union {Null} /\ Null \in Requests \union {Null} /\ 0 \in 0..MaxBytes
    OBVIOUS
  <2>2. old = [c EXCEPT !.turn = n, !.profile = Null, !.matched = Null, !.bytes = 0, !.log = none]
    OBVIOUS
  <2> HIDE DEF old
  <2> QED BY <1>3, <1>5, <2>1, <2>2 DEF TapState
<1>7. ASSUME NEW t \in TapState, t.turn = n, t.log = none, t.matched = Null, t.req = c.req,
             t.closed = ~t.live
      PROVE  Good(t, wire)
  <2>1. \A r \in Requests : c.req[r].turn \in Nat /\ c.req[r].turn <= tap.turn
    BY <1>2, <1>3, <1>5 DEF Good, RequestsSound, RequestSound, TapState, RequestState
  <2>2. tap.turn \in Nat /\ n = tap.turn + 1
    BY <1>1 DEF TapState, n
  <2>3. QueueIsTurns(t) /\ FeedInStep(t, wire)
    BY <1>3, <1>7 DEF QueueIsTurns, FeedInStep, none
  <2>4. ASSUME NEW r \in Requests
        PROVE  RequestSound(t, r) /\ OfProfile(t, r) /\ AskedIfMatched(t, wire, r)
    <3>1. /\ RequestSound(c, r) /\ AskedIfMatched(c, wire, r)
          /\ c.req[r].turn \in Nat /\ c.req[r].turn < t.turn
      BY <1>2, <1>7, <2>1, <2>2 DEF Good, RequestsSound, AskedIsMatched
    <3>2. RequestSound(t, r)
      BY <1>2, <1>7, <2>2, <3>1 DEF RequestSound
    <3>3. OfProfile(t, r)
      BY <1>7, <2>2, <3>1 DEF OfProfile
    <3>4. AskedIfMatched(t, wire, r)
      BY <1>7, <3>1 DEF AskedIfMatched
    <3> QED BY <3>2, <3>3, <3>4
  <2> QED BY <1>2, <1>7, <2>3, <2>4 DEF Good, RequestsSound, ProfileHolds, AskedIsMatched
<1>8. ASSUME NEW t, tap' = t, t \in TapState, t.turn = n, t.log = none, t.matched = Null,
             t.req = c.req, t.closed = ~t.live
      PROVE  StepSound
  <2>1. Good(tap', wire')
    BY <1>1, <1>7, <1>8
  <2>2. feed!NextFeed
    BY <1>8 DEF feed!NextFeed, feed!Arm, TapState, none
  <2>3. MatchSound(tap, tap')
    BY <1>8 DEF MatchSound
  <2> QED BY <1>1, <2>1, <2>2, <2>3 DEF StepSound, TapInv
<1>9. CASE tap' = old
  <2>1. old.closed = ~old.live
    BY <1>2, <1>5, <1>6 DEF TapState
  <2> HIDE DEF old
  <2> QED BY <1>6, <1>8, <1>9, <2>1
<1>10. ASSUME NEW p \in Profiles \union {Null}, NEW m \in SUBSET Timers, tap' = armed(p, m)
       PROVE  StepSound
  <2> HIDE DEF old
  <2>1. /\ armed(p, m) \in TapState /\ armed(p, m).live = TRUE /\ armed(p, m).closed = FALSE
        /\ armed(p, m).turn = old.turn /\ armed(p, m).log = old.log
        /\ armed(p, m).matched = old.matched /\ armed(p, m).req = old.req
    BY <1>6 DEF TapState
  <2> HIDE DEF armed
  <2> QED BY <1>6, <1>8, <1>10, <2>1
<1> HIDE DEF old, armed
<1> QED BY <1>4, <1>9, <1>10

-----------------------------------------------------------------------------
(* Emission *)

LEMMA FailEnds ==
  ASSUME NEW t \in TapState, t.live, ~t.closed, CutShort(t.log), NEW f \in Reasons
  PROVE  Ends(t, Fail(t, f)) /\ Feeds(t, Fail(t, f))
<1> DEFINE u == Fail(t, f)
           e == Event("error", f)
<1>1. t.log \in Seq(FeedEvents)
  BY DEF TapState
<1>2. Append(t.log, e) \in feed!Logs /\ e \in FeedEvents /\ e.type = "error"
  BY CutIsLog DEF Event
<1> HIDE DEF e
<1>3. u = Over(Push(t, e))
  BY DEF Fail, e
<1> HIDE DEF u
<1>4. Ends(t, u) /\ u.log = Append(t.log, e)
  BY <1>2, <1>3, LastIs
<1>5. u.closed = (e.type \in {"end", "error"})
  BY <1>2, <1>4 DEF Ends, TapState
<1>6. Feeds(t, u)
  BY <1>1, <1>2, <1>4, <1>5, PushFeeds
<1> QED BY <1>4, <1>6 DEF u

\* t is live and follows r, whose first n - 1 pieces its reader has.
Gives(t, r, n) ==
  t \in TapState /\ t.live /\ ~t.closed /\ t.matched = r /\ t.log = Fed(r, n)

\* From t, u has given the first n - 1 pieces of r, or failed.
Emits(t, u, r, n) ==
  /\ Feeds(t, u)
  /\ \/ Ends(t, u)
     \/ /\ Gives(u, r, n) /\ u.turn = t.turn /\ u.profile = t.profile
        /\ u.matched = t.matched /\ u.req = t.req

LEMMA EmitIs ==
  ASSUME NEW t, NEW r \in Requests, NEW n \in 1..Chunks, Gives(t, r, n)
  PROVE  Emits(t, EmitChunk(t, n), r, n + 1)
<1> USE TapAssumption
<1>0. t \in TapState /\ t.live /\ ~t.closed /\ t.matched = r /\ t.log = Fed(r, n)
  BY DEF Gives
<1> DEFINE size == Weight[t.matched]
           u == EmitChunk(t, n)
<1>1. CASE t.bytes + size > MaxBytes
  <2>1. u = Fail(t, "internal_error")
    BY <1>0, <1>1 DEF EmitChunk
  <2>2. CutShort(t.log)
    BY <1>0 DEF CutShort
  <2> QED BY <1>0, <2>1, <2>2, FailEnds DEF Emits, Reasons
<1>2. CASE ~(t.bytes + size > MaxBytes)
  <2> DEFINE bytes == t.bytes + size
             timers == (t.timers \ {"firstByte"}) \union {"stall"}
             k == [t EXCEPT !.bytes = bytes, !.timers = timers]
             e == [Event("chunk", r) EXCEPT !.n = n]
  <2>1. u = Push(k, e)
    BY <1>0, <1>2, Zenon DEF EmitChunk
  <2>2. bytes \in 0..MaxBytes /\ timers \in SUBSET Timers
    BY <1>0, <1>2 DEF TapState, Timers
  <2>3. e \in FeedEvents /\ e.type = "chunk"
    BY DEF Event, FeedEvents
  <2>4. feed!Whole(r)[n + 1] = e
    BY WholeIs
  <2> HIDE DEF bytes, timers, e, u
  <2>5. /\ k \in TapState /\ k.log = t.log /\ k.closed = t.closed /\ k.live = t.live
        /\ k.matched = t.matched /\ k.turn = t.turn /\ k.profile = t.profile /\ k.req = t.req
    BY <1>0, <2>2 DEF TapState
  <2> HIDE DEF k
  <2>6. /\ u \in TapState /\ u.log = Append(t.log, e) /\ u.closed = t.closed /\ u.live = t.live
        /\ u.matched = t.matched /\ u.turn = t.turn /\ u.profile = t.profile /\ u.req = t.req
    <3>1. k \in TapState /\ ~k.closed
      BY <1>0, <2>5
    <3>2. /\ u \in TapState /\ u.log = Append(k.log, e) /\ u.closed = k.closed /\ u.live = k.live
          /\ u.matched = k.matched /\ u.turn = k.turn /\ u.profile = k.profile /\ u.req = k.req
      BY <2>1, <2>3, <3>1, PushIs
    <3> QED BY <2>5, <3>2
  <2>7. n \in 0..Chunks + 1 /\ n + 1 \in 0..Chunks + 2
    OBVIOUS
  <2>8. u.log = Fed(r, n + 1)
    BY <1>0, <2>4, <2>6, <2>7, FedGrows
  <2>9. u.log \in feed!Logs /\ t.log \in Seq(FeedEvents)
    BY <1>0, <2>7, <2>8, FedIsLog DEF TapState
  <2>10. u.closed = (e.type \in {"end", "error"})
    BY <1>0, <2>3, <2>6 DEF TapState
  <2>11. Feeds(t, u)
    BY <1>0, <2>3, <2>6, <2>9, <2>10, PushFeeds
  <2>12. Gives(u, r, n + 1)
    BY <1>0, <2>6, <2>8 DEF Gives
  <2> QED BY <2>6, <2>11, <2>12 DEF Emits, u
<1> QED BY <1>1, <1>2

\* One more piece.
LEMMA EmitsOn ==
  ASSUME NEW t \in TapState, NEW u, NEW r \in Requests, NEW n \in 1..Chunks, Emits(t, u, r, n)
  PROVE  Emits(t, EmitChunk(u, n), r, n + 1)
<1> DEFINE v == EmitChunk(u, n)
<1>1. CASE Ends(t, u)
  <2>1. v = u
    BY <1>1 DEF Ends, EmitChunk
  <2> QED BY <1>1, <2>1 DEF Emits
<1>2. CASE /\ Gives(u, r, n) /\ u.turn = t.turn /\ u.profile = t.profile
           /\ u.matched = t.matched /\ u.req = t.req
  <2>1. Emits(u, v, r, n + 1)
    BY <1>2, EmitIs
  <2> HIDE DEF v
  <2>2. u \in TapState /\ v \in TapState /\ u.matched = r /\ Feeds(t, u) /\ Feeds(u, v)
    BY <1>2, <2>1 DEF Emits, Gives, Ends
  <2>3. t.log \in Seq(FeedEvents) /\ u.log \in Seq(FeedEvents) /\ v.log \in Seq(FeedEvents)
    BY <2>2 DEF TapState
  <2>4. Feeds(t, v)
    BY <2>2, <2>3, FeedsOn
  <2>5. CASE Ends(u, v)
    <3>1. Ends(t, v)
      BY <1>2, <2>2, <2>5 DEF Ends, SameClaims
    <3> QED BY <2>4, <3>1 DEF Emits, v
  <2>6. CASE ~Ends(u, v)
    BY <1>2, <2>1, <2>4, <2>6 DEF Emits, v
  <2> QED BY <2>5, <2>6
<1> QED BY <1>1, <1>2 DEF Emits

\* f holds what is left of t after each of the first m pieces.
Afters(t, p, f, m) ==
  f = [n \in 0..m |-> IF n = 0 THEN t ELSE EmitChunk(f[n - 1], p[n])]

LEMMA AftersExist == ASSUME NEW t, NEW p, NEW m \in Nat PROVE \E f : Afters(t, p, f, m)
<1> DEFINE N == {k \in Nat : \E f : Afters(t, p, f, k)}
<1>1. 0 \in N
  <2> DEFINE f == [n \in 0..0 |-> t]
  <2>1. f = [n \in 0..0 |-> IF n = 0 THEN t ELSE EmitChunk(f[n - 1], p[n])]
    OBVIOUS
  <2> QED BY <2>1 DEF Afters
<1>2. ASSUME NEW k \in Nat, k \in N PROVE k + 1 \in N
  <2>1. PICK f : Afters(t, p, f, k)
    BY <1>2
  <2> DEFINE x == EmitChunk(f[k], p[k + 1])
             g == [n \in 0..k + 1 |-> IF n = k + 1 THEN x ELSE f[n]]
  <2>2. \A n \in 0..k : f[n] = IF n = 0 THEN t ELSE EmitChunk(f[n - 1], p[n])
    BY <2>1 DEF Afters
  <2>3. \A n \in 0..k + 1 : g[n] = IF n = k + 1 THEN x ELSE f[n]
    OBVIOUS
  <2>4. ASSUME NEW n \in 0..k + 1
        PROVE  g[n] = IF n = 0 THEN t ELSE EmitChunk(g[n - 1], p[n])
    <3>1. CASE n = 0
      BY <2>2, <2>3, <3>1
    <3>2. CASE n = k + 1
      <4>1. g[n - 1] = f[k] /\ n # 0
        BY <2>3, <3>2
      <4> QED BY <2>3, <3>2, <4>1
    <3>3. CASE n # 0 /\ n # k + 1
      <4>1. n \in 0..k /\ n - 1 \in 0..k + 1 /\ n - 1 # k + 1
        BY <3>3
      <4>2. g[n - 1] = f[n - 1] /\ g[n] = f[n]
        BY <2>3, <3>3, <4>1
      <4> QED BY <2>2, <3>3, <4>1, <4>2
    <3> QED BY <3>1, <3>2, <3>3
  <2>5. g = [n \in 0..k + 1 |-> IF n = 0 THEN t ELSE EmitChunk(g[n - 1], p[n])]
    BY <2>4
  <2>6. Afters(t, p, g, k + 1)
    BY <2>5 DEF Afters
  <2> QED BY <2>6
<1> HIDE DEF N
<1>3. Nat \subseteq N
  BY <1>1, <1>2, AllNaturals
<1> QED BY <1>3 DEF N

LEMMA EmitEachIs ==
  ASSUME NEW t, NEW r \in Requests, Gives(t, r, 1),
         NEW p \in Seq(Nat), Len(p) <= Chunks, \A i \in 1..Len(p) : p[i] = i
  PROVE  Emits(t, EmitEach(t, p), r, Len(p) + 1)
<1> USE TapAssumption
<1> DEFINE m == Len(p)
           f == CHOOSE f : f = [n \in 0..m |-> IF n = 0 THEN t ELSE EmitChunk(f[n - 1], p[n])]
<1>1. m \in Nat /\ m <= Chunks /\ \A i \in 1..m : p[i] = i
  OBVIOUS
<1>2. f = [n \in 0..m |-> IF n = 0 THEN t ELSE EmitChunk(f[n - 1], p[n])]
  <2> HIDE DEF m
  <2>1. \E g : Afters(t, p, g, m)
    BY <1>1, AftersExist
  <2>2. \E g : g = [n \in 0..m |-> IF n = 0 THEN t ELSE EmitChunk(g[n - 1], p[n])]
    BY <2>1, Zenon DEF Afters
  <2> QED BY <2>2, Zenon
<1>3. EmitEach(t, p) = f[m]
  BY Zenon DEF EmitEach
<1> HIDE DEF f, m
<1> DEFINE N == {n \in Nat : n <= m => Emits(t, f[n], r, n + 1)}
<1>4. f[0] = t /\ \A n \in 1..m : f[n] = EmitChunk(f[n - 1], p[n])
  BY <1>1, <1>2
<1>5. 0 \in N
  <2>1. 0 + 1 = 1 /\ Emits(t, t, r, 1)
    BY DEF Emits, Feeds, Gives
  <2> QED BY <1>4, <2>1
<1>6. ASSUME NEW n \in Nat, n \in N PROVE n + 1 \in N
  <2> DEFINE k == n + 1
  <2>1. SUFFICES ASSUME k <= m PROVE Emits(t, f[k], r, k + 1)
    OBVIOUS
  <2>2. k \in 1..Chunks /\ k \in 1..m /\ k - 1 = n
    BY <1>1, <2>1
  <2>3. Emits(t, f[n], r, k)
    <3>1. n <= m => Emits(t, f[n], r, n + 1)
      BY <1>6
    <3> QED BY <1>1, <2>1, <3>1
  <2>4. f[k] = EmitChunk(f[n], k)
    BY <1>1, <1>4, <2>2
  <2>5. t \in TapState
    BY DEF Gives
  <2> HIDE DEF k
  <2> QED BY <2>2, <2>3, <2>4, <2>5, EmitsOn
<1> HIDE DEF N
<1>7. Nat \subseteq N
  BY <1>5, <1>6, AllNaturals
<1>8. m \in N
  BY <1>1, <1>7
<1> QED BY <1>1, <1>3, <1>8 DEF N, m

\* What has come before Chrome's answer.
PendingIn(t, r, p) == [t EXCEPT !.req[r].pending = p]
ReadyIn(t, r) == [t EXCEPT !.req[r].ready = TRUE]

\* All of u but what has come of r is as in t.
SameButBody(t, u, r) ==
  /\ SameTurn(t, u) /\ \A s \in Requests \ {r} : u.req[s] = t.req[s]
  /\ LET p == t.req[r]
         q == u.req[r] IN
     /\ q.turn = p.turn /\ q.known = p.known /\ q.anchors = p.anchors /\ q.score = p.score
     /\ q.verdict = p.verdict /\ q.done = p.done

LEMMA PendingInIs ==
  ASSUME NEW t \in TapState, NEW r \in Requests, NEW p \in Seq(Nat)
  PROVE  LET u == PendingIn(t, r, p) IN
         SameButBody(t, u, r) /\ u.req[r].ready = t.req[r].ready /\ u.req[r].pending = p
<1> DEFINE v == t.req[r]
           q == [v EXCEPT !.pending = p]
           u == [t EXCEPT !.req = [t.req EXCEPT ![r] = q]]
<1>1. v \in RequestState /\ u = PendingIn(t, r, p)
  BY DEF TapState, PendingIn
<1> HIDE DEF v
<1>2. /\ q \in RequestState /\ q.pending = p /\ q.ready = v.ready
      /\ q.turn = v.turn /\ q.known = v.known /\ q.anchors = v.anchors /\ q.score = v.score
      /\ q.verdict = v.verdict /\ q.done = v.done
  BY <1>1 DEF RequestState
<1> HIDE DEF q
<1>3. /\ SameTurn(t, u) /\ u.req[r] = q
      /\ \A s \in Requests \ {r} : u.req[s] = t.req[s]
  BY <1>2, EditIs
<1> HIDE DEF u
<1> QED BY <1>1, <1>2, <1>3 DEF SameButBody, v

LEMMA ReadyInIs ==
  ASSUME NEW t \in TapState, NEW r \in Requests
  PROVE  LET u == ReadyIn(t, r) IN
         SameButBody(t, u, r) /\ u.req[r].ready = TRUE /\ u.req[r].pending = t.req[r].pending
<1> DEFINE v == t.req[r]
           q == [v EXCEPT !.ready = TRUE]
           u == [t EXCEPT !.req = [t.req EXCEPT ![r] = q]]
<1>1. v \in RequestState /\ u = ReadyIn(t, r)
  BY DEF TapState, ReadyIn
<1> HIDE DEF v
<1>2. /\ q \in RequestState /\ q.ready = TRUE /\ q.pending = v.pending
      /\ q.turn = v.turn /\ q.known = v.known /\ q.anchors = v.anchors /\ q.score = v.score
      /\ q.verdict = v.verdict /\ q.done = v.done
  BY <1>1 DEF RequestState
<1> HIDE DEF q
<1>3. /\ SameTurn(t, u) /\ u.req[r] = q
      /\ \A s \in Requests \ {r} : u.req[s] = t.req[s]
  BY <1>2, EditIs
<1> HIDE DEF u
<1> QED BY <1>1, <1>2, <1>3 DEF SameButBody, v

LEMMA BodyEditKeeps ==
  ASSUME NEW t, NEW u, NEW w, NEW r \in Requests, Sound(t, w), SameButBody(t, u, r),
         AskedIfMatched(u, w, r)
  PROVE  Sound(u, w) /\ SameClaims(t, u) /\ (ProfileHolds(t) => ProfileHolds(u))
<1>1. u \in TapState /\ w \in WireState /\ QueueIsTurns(u)
  BY DEF Sound, SameButBody, SameTurn, QueueIsTurns
<1>2. RequestsSound(u) /\ SameClaims(t, u) /\ (ProfileHolds(t) => ProfileHolds(u))
  BY DEF Sound, SameButBody, SameTurn, RequestsSound, RequestSound, SameClaims, ProfileHolds,
         OfProfile
<1>3. AskedIsMatched(u, w)
  <2>1. ASSUME NEW q \in Requests \ {r} PROVE AskedIfMatched(u, w, q)
    BY DEF Sound, SameButBody, SameTurn, AskedIsMatched, AskedIfMatched
  <2> QED BY <2>1 DEF AskedIsMatched
<1> QED BY <1>1, <1>2, <1>3 DEF Sound

LEMMA ProviderSendsStep ==
  ASSUME TapInv, NEW r \in Requests, ProviderSends(r) PROVE StepSound
<1> USE TapAssumption
<1> DEFINE v == wire[r]
           q == tap.req[r]
           c == v.sent + 1
           from == v.from
           pending == q.pending
<1>1. /\ Good(tap, wire) /\ UNCHANGED link /\ tap \in TapState /\ wire \in WireState
      /\ tap.live /\ q.turn = tap.turn /\ v.sent < Chunks
      /\ wire' = SentTo(wire, r, c)
      /\ tap' = IF v.stream \in {"answered", "done"} THEN DataReceived(tap, r, c) ELSE tap
  BY DEF TapInv, Good, ProviderSends, Followed, SentTo
<1>2. /\ v \in BodyState /\ q \in RequestState /\ c \in 1..Chunks /\ c \in 0..Chunks
      /\ v.sent \in 0..Chunks /\ from \in 0..Chunks /\ pending \in Seq(Nat)
      /\ Len(pending) \in Nat /\ c = v.sent + 1
  <2>1. v \in BodyState /\ q \in RequestState
    BY <1>1 DEF WireState, TapState
  <2> HIDE DEF v, q
  <2> QED BY <1>1, <2>1 DEF BodyState, RequestState
<1>3. /\ Sound(tap, wire) /\ ProfileHolds(tap) /\ AskedIfMatched(tap, wire, r)
      /\ FeedInStep(tap, wire) /\ ~tap.closed
  BY <1>1, GoodIs DEF Good, AskedIsMatched, QueueIsTurns
<1>4. /\ BodyEdited(wire, wire', r) /\ wire'[r].stream = v.stream /\ wire'[r].sent = c
      /\ wire'[r].from = from
  <2> HIDE DEF c
  <2>1. /\ BodyEdited(wire, wire', r) /\ wire'[r].stream = wire[r].stream /\ wire'[r].sent = c
        /\ wire'[r].from = wire[r].from
    BY <1>1, <1>2, SentToIs
  <2> QED BY <2>1
<1>5. AskedIfMatched(tap, wire', r) /\ q.done # "finished"
  BY <1>1, <1>2, <1>3, <1>4 DEF AskedIfMatched
<1>6. /\ Sound(tap, wire')
      /\ FeedInStep(tap, wire') => Good(tap, wire')
  BY <1>3, <1>4, <1>5, BodyKeeps DEF BodyEdited
<1>7. CutShort(tap.log)
  BY <1>1, <1>3, GoodIsCut
<1>8. ASSUME tap' = Fail(tap, "internal_error") PROVE StepSound
  <2>1. Good(tap', wire') /\ Feeds(tap, tap') /\ SameClaims(tap, tap')
    BY <1>6, <1>7, <1>8, FailKeeps DEF Reasons
  <2> QED BY <1>1, <2>1, StepIs DEF SameClaims, TapInv
<1>9. ASSUME tap' \in TapState, Good(tap', wire'), Feeds(tap, tap'), tap'.matched = tap.matched
      PROVE  StepSound
  BY <1>1, <1>9, StepIs DEF TapInv
<1>10. CASE v.stream \notin {"answered", "done"}
  <2>1. tap' = tap
    BY <1>1, <1>10
  <2>2. FeedInStep(tap, wire')
    BY <1>2, <1>3, <1>4, <1>10 DEF FeedInStep, BodyEdited, TapState, Sound
  <2> QED BY <1>1, <1>6, <1>9, <2>1, <2>2 DEF Feeds
<1>11. CASE v.stream \in {"answered", "done"}
  <2>1. tap.matched = r /\ r # Null
    BY <1>1, <1>2, <1>3, <1>11 DEF AskedIfMatched, TapState, RequestState
  <2>2. tap' = IF q.ready THEN EmitChunk(tap, c)
               ELSE IF tap.bytes + Weight[r] * (Len(pending) + 1) > MaxBytes
               THEN Fail(tap, "internal_error")
               ELSE PendingIn(tap, r, Append(pending, c))
    BY <1>1, <1>11, <2>1 DEF DataReceived, PendingIn
  <2>3. CASE q.ready
    <3>1. v.stream = "done" /\ tap.log = Fed(r, c)
      BY <1>1, <1>3, <2>1, <2>3 DEF FeedInStep
    <3>2. Gives(tap, r, c)
      BY <1>1, <1>3, <2>1, <3>1 DEF Gives
    <3>3. tap' = EmitChunk(tap, c)
      BY <2>2, <2>3
    <3> HIDE DEF c
    <3>4. Emits(tap, tap', r, c + 1)
      BY <1>2, <3>2, <3>3, EmitIs
    <3>5. CASE Ends(tap, tap')
      <4>1. Good(tap', wire') /\ tap' \in TapState
        BY <1>6, <3>5, EndsKeeps DEF Ends
      <4> QED BY <1>9, <3>4, <3>5, <4>1 DEF Emits, Ends, SameClaims
    <3>6. CASE ~Ends(tap, tap')
      <4>1. /\ Feeds(tap, tap') /\ Gives(tap', r, c + 1) /\ tap'.turn = tap.turn
            /\ tap'.profile = tap.profile /\ tap'.matched = tap.matched /\ tap'.req = tap.req
        BY <3>4, <3>6 DEF Emits
      <4>2. /\ tap' \in TapState /\ tap'.live /\ ~tap'.closed /\ tap'.log = Fed(r, c + 1)
            /\ tap'.matched = r
        BY <4>1 DEF Gives
      <4>3. /\ QueueIsTurns(tap') /\ RequestsSound(tap') /\ ProfileHolds(tap')
            /\ AskedIsMatched(tap', wire')
        <5>1. 0 < tap.turn
          BY <1>1 DEF Good, QueueIsTurns
        <5>2. QueueIsTurns(tap')
          BY <4>1, <4>2, <5>1 DEF QueueIsTurns, TapState
        <5> QED BY <1>1, <1>3, <1>6, <4>1, <4>2, <5>2 DEF Sound, RequestsSound, RequestSound,
                 ProfileHolds, OfProfile, AskedIsMatched, AskedIfMatched
      <4>4. FeedInStep(tap', wire')
        BY <1>4, <2>1, <2>3, <3>1, <4>1, <4>2 DEF FeedInStep
      <4>5. Good(tap', wire')
        BY <1>6, <4>2, <4>3, <4>4 DEF Good, Sound
      <4> QED BY <1>9, <4>1, <4>2, <4>5
    <3> QED BY <3>5, <3>6
  <2>4. CASE ~q.ready /\ tap' = Fail(tap, "internal_error")
    BY <1>8, <2>4
  <2>5. CASE ~q.ready /\ tap' = PendingIn(tap, r, Append(pending, c))
    <3> DEFINE p == Append(pending, c)
    <3>1. /\ v.stream = "answered" /\ tap.log = Fed(r, 1) /\ Len(pending) = v.sent - from
          /\ \A i \in 1..Len(pending) : pending[i] = from + i
      BY <1>1, <1>3, <1>11, <2>1, <2>5 DEF FeedInStep
    <3>2. /\ p \in Seq(Nat) /\ Len(p) = c - from /\ from <= c /\ Len(p) <= c
          /\ \A i \in 1..Len(p) : p[i] = from + i
      <4>1. from <= v.sent
        BY <1>3 DEF AskedIfMatched
      <4> HIDE DEF pending, from, c, v
      <4>2. p \in Seq(Nat) /\ Len(p) = Len(pending) + 1
        BY <1>2
      <4>3. Len(p) = c - from /\ from <= c /\ Len(p) <= c
        BY <1>2, <3>1, <4>1, <4>2
      <4>4. ASSUME NEW i \in 1..Len(p) PROVE p[i] = from + i
        <5>1. CASE i \in 1..Len(pending)
          BY <1>2, <3>1, <5>1
        <5>2. CASE i = Len(pending) + 1
          <6>1. p[i] = c
            BY <1>2, <5>2
          <6>2. from + (Len(pending) + 1) = v.sent + 1
            <7>1. from \in Nat /\ v.sent \in Nat /\ Len(pending) = v.sent - from
              BY <1>2, <3>1
            <7> QED BY <7>1
          <6>3. from + i = c
            BY <1>2, <5>2, <6>2
          <6> QED BY <6>1, <6>3
        <5> QED BY <1>2, <4>2, <5>1, <5>2
      <4> QED BY <4>2, <4>3, <4>4
    <3>3. tap' = PendingIn(tap, r, p)
      BY <2>5
    <3> HIDE DEF p
    <3>4. /\ SameButBody(tap, tap', r) /\ tap'.req[r].ready = q.ready
          /\ tap'.req[r].pending = p
      BY <1>1, <3>2, <3>3, PendingInIs
    <3>5. AskedIfMatched(tap', wire', r)
      BY <1>4, <1>5, <2>1, <3>1, <3>2, <3>4 DEF AskedIfMatched, SameButBody, SameTurn
    <3>6. Sound(tap', wire') /\ ProfileHolds(tap') /\ tap' \in TapState
      BY <1>3, <1>6, <3>4, <3>5, BodyEditKeeps DEF Sound
    <3>7. FeedInStep(tap', wire')
      <4>1. tap'.matched = r /\ tap'.live /\ tap'.log = Fed(r, 1)
        BY <1>1, <2>1, <3>1, <3>4 DEF SameButBody, SameTurn
      <4>2. /\ wire'[r].stream = "answered" /\ wire'[r].sent = c /\ wire'[r].from = from
            /\ ~tap'.req[r].ready /\ tap'.req[r].pending = p
        BY <1>4, <2>5, <3>1, <3>4
      <4> HIDE DEF c, from, v, q
      <4> QED BY <2>1, <3>2, <4>1, <4>2 DEF FeedInStep
    <3>8. Good(tap', wire')
      BY <3>6, <3>7 DEF Sound, Good
    <3>9. Feeds(tap, tap') /\ tap'.matched = tap.matched
      BY <3>4 DEF SameButBody, SameTurn, Feeds
    <3> QED BY <1>9, <3>6, <3>8, <3>9
  <2> QED BY <2>2, <2>3, <2>4, <2>5
<1> QED BY <1>10, <1>11

LEMMA StreamAnsweredStep ==
  ASSUME TapInv, NEW r \in Requests, StreamAnswered(r) PROVE StepSound
<1> USE TapAssumption
<1> DEFINE v == wire[r]
           q == tap.req[r]
           none == <<>>
           sofar == [i \in 1..v.from |-> i]
           all == sofar \o q.pending
           t == PendingIn(tap, r, none)
           s == IF tap.bytes + Weight[r] * v.from > MaxBytes
                THEN Fail(t, "internal_error") ELSE EmitEach(t, all)
           u == ReadyIn(s, r)
           m == v.sent + 1
<1>1. /\ Good(tap, wire) /\ UNCHANGED link /\ tap \in TapState /\ wire \in WireState
      /\ v.stream \in {"answered", "refused"} /\ wire' = Streamed(wire, r, "done")
  BY DEF TapInv, Good, StreamAnswered, Streamed
<1>2. tap' = IF ~tap.live \/ tap.matched # r THEN tap
             ELSE IF v.stream = "refused" THEN Fail(tap, "internal_error")
             ELSE IF u.req[r].done = "failed" THEN Fail(u, "stream_aborted")
             ELSE IF u.req[r].done = "finished" THEN Finish(u) ELSE u
  BY Zenon DEF StreamAnswered, PendingIn, ReadyIn, Flushed
<1>3. /\ v \in BodyState /\ q \in RequestState /\ none \in Seq(Nat)
      /\ v.sent \in 0..Chunks /\ v.from \in 0..Chunks /\ q.pending \in Seq(Nat)
  <2>1. v \in BodyState /\ q \in RequestState /\ none \in Seq(Nat)
    BY <1>1 DEF WireState, TapState
  <2> HIDE DEF v, q, none
  <2> QED BY <1>1, <2>1 DEF BodyState, RequestState
<1>4. /\ Sound(tap, wire) /\ ProfileHolds(tap) /\ AskedIfMatched(tap, wire, r)
      /\ FeedInStep(tap, wire) /\ QueueIsTurns(tap)
  BY <1>1, GoodIs DEF Good, AskedIsMatched
<1>5. /\ BodyEdited(wire, wire', r) /\ wire'[r].stream = "done" /\ wire'[r].sent = v.sent
      /\ wire'[r].from = v.from
  BY <1>1, StreamedIs
<1>6. AskedIfMatched(tap, wire', r)
  BY <1>1, <1>4, <1>5 DEF AskedIfMatched
<1>7. /\ Sound(tap, wire')
      /\ FeedInStep(tap, wire') => Good(tap, wire')
  BY <1>4, <1>5, <1>6, BodyKeeps DEF BodyEdited
<1>8. ASSUME Good(tap', wire'), Feeds(tap, tap'), tap'.matched = tap.matched
      PROVE  StepSound
  BY <1>1, <1>8, StepIs DEF TapInv
<1>9. CASE ~tap.live \/ tap.matched # r
  <2>1. tap' = tap
    BY <1>2, <1>9
  <2>2. FeedInStep(tap, wire')
    BY <1>1, <1>4, <1>5, <1>9 DEF FeedInStep, BodyEdited, TapState
  <2> QED BY <1>7, <1>8, <2>1, <2>2 DEF Feeds
<1>10. CASE tap.live /\ tap.matched = r /\ v.stream = "refused"
  <2>1. tap' = Fail(tap, "internal_error")
    BY <1>2, <1>10
  <2>2. CutShort(tap.log)
    BY <1>4, <1>10, GoodIsCut
  <2>3. Good(tap', wire') /\ Feeds(tap, tap') /\ SameClaims(tap, tap')
    BY <1>7, <2>1, <2>2, FailKeeps DEF Reasons
  <2> QED BY <1>8, <2>3 DEF SameClaims
<1>11. CASE tap.live /\ tap.matched = r /\ v.stream = "answered"
  <2>1. /\ ~q.ready /\ tap.log = Fed(r, 1) /\ Len(q.pending) = v.sent - v.from
        /\ \A i \in 1..Len(q.pending) : q.pending[i] = v.from + i
        /\ v.from <= v.sent /\ r # Null
    BY <1>1, <1>4, <1>11 DEF FeedInStep, AskedIfMatched
  <2>2. all \in Seq(Nat) /\ Len(all) = v.sent /\ \A i \in 1..Len(all) : all[i] = i
    <3> DEFINE f == v.from
               pending == q.pending
    <3>1. sofar \in Seq(Nat) /\ Len(sofar) = f /\ \A i \in 1..f : sofar[i] = i
      BY <1>3
    <3>2. all = sofar \o pending /\ pending \in Seq(Nat) /\ f \in Nat
      BY <1>3
    <3>3. /\ Len(pending) = v.sent - f /\ v.sent \in Nat
          /\ \A i \in 1..Len(pending) : pending[i] = f + i
      BY <1>3, <2>1
    <3> HIDE DEF all, sofar, f, pending
    <3>4. /\ all \in Seq(Nat) /\ Len(all) = f + Len(pending)
          /\ \A i \in 1..f : all[i] = sofar[i]
          /\ \A i \in f + 1..Len(all) : all[i] = pending[i - f]
      <4> DEFINE both == sofar \o pending
      <4>0. /\ both \in Seq(Nat) /\ Len(both) = Len(sofar) + Len(pending)
            /\ \A i \in 1..Len(sofar) + Len(pending) :
                 both[i] = IF i <= Len(sofar) THEN sofar[i] ELSE pending[i - Len(sofar)]
        <5>1. sofar \in Seq(Nat) /\ pending \in Seq(Nat)
          BY <3>1, <3>2
        <5>2. Len(sofar) \in Nat /\ Len(pending) \in Nat
          BY <5>1, LenProperties
        <5>3. both \in Seq(Nat)
          BY <5>1
        <5>4. Len(both) = Len(sofar) + Len(pending)
          BY <5>1, <5>2
        <5>5. ASSUME NEW i \in 1..Len(sofar) + Len(pending)
              PROVE  both[i] = IF i <= Len(sofar) THEN sofar[i] ELSE pending[i - Len(sofar)]
          BY <5>1, <5>2
        <5> QED BY <5>3, <5>4, <5>5
      <4>1. /\ all \in Seq(Nat) /\ Len(all) = Len(sofar) + Len(pending)
            /\ \A i \in 1..Len(sofar) + Len(pending) :
                 all[i] = IF i <= Len(sofar) THEN sofar[i] ELSE pending[i - Len(sofar)]
        BY <3>2, <4>0
      <4> HIDE DEF both
      <4>2. Len(all) \in Nat /\ Len(pending) \in Nat
        BY <3>2, <4>1
      <4> QED BY <3>1, <3>2, <4>1, <4>2
    <3>5. Len(all) = v.sent
      BY <3>2, <3>3, <3>4
    <3>6. ASSUME NEW i \in 1..Len(all) PROVE all[i] = i
      <4>1. CASE i \in 1..f
        BY <3>1, <3>4, <4>1
      <4>2. CASE i \in f + 1..Len(all)
        <5>1. i - f \in 1..Len(pending) /\ f + (i - f) = i
          BY <3>2, <3>3, <3>5, <4>2
        <5> QED BY <3>3, <3>4, <4>2, <5>1
      <4> QED BY <3>2, <3>3, <3>5, <4>1, <4>2
    <3> QED BY <3>4, <3>5, <3>6
  <2> HIDE DEF all, sofar, none
  <2>3. SameButBody(tap, t, r) /\ t.req[r].ready = q.ready /\ t.req[r].pending = none
    BY <1>1, <1>3, PendingInIs
  <2>4. AskedIfMatched(t, wire', r)
    <3>1. Len(none) = 0 /\ v.sent \in Nat
      BY <1>3 DEF none
    <3> QED BY <1>5, <1>6, <2>3, <3>1 DEF AskedIfMatched, SameButBody, SameTurn
  <2> HIDE DEF t
  <2>5. Sound(t, wire') /\ SameClaims(tap, t) /\ ProfileHolds(t) /\ t \in TapState
    BY <1>4, <1>7, <2>3, <2>4, BodyEditKeeps DEF Sound
  <2>6. Gives(t, r, 1) /\ Feeds(tap, t)
    BY <1>4, <1>11, <2>1, <2>3 DEF Gives, SameButBody, SameTurn, QueueIsTurns, Feeds
  <2>7. Emits(t, s, r, m)
    <3>1. CASE tap.bytes + Weight[r] * v.from > MaxBytes
      <4>1. s = Fail(t, "internal_error")
        BY <3>1
      <4>2. CutShort(t.log)
        BY <2>6 DEF Gives, CutShort
      <4> HIDE DEF s
      <4> QED BY <2>6, <4>1, <4>2, FailEnds DEF Emits, Gives, Reasons
    <3>2. CASE ~(tap.bytes + Weight[r] * v.from > MaxBytes)
      <4>1. s = EmitEach(t, all)
        BY <3>2
      <4> HIDE DEF s
      <4>2. Len(all) <= Chunks
        BY <1>3, <2>2
      <4>3. Emits(t, s, r, Len(all) + 1)
        BY <2>2, <2>6, <4>1, <4>2, EmitEachIs
      <4> QED BY <2>2, <4>3
    <3> QED BY <3>1, <3>2
  <2> HIDE DEF s
  <2>8. /\ s \in TapState /\ Sound(s, wire') /\ ProfileHolds(s) /\ SameClaims(t, s)
        /\ s.req[r].done = q.done
        /\ s.live => s.log = Fed(r, m) /\ ~Ends(t, s)
    <3>1. CASE Ends(t, s)
      <4>1. Good(s, wire')
        BY <2>5, <3>1, EndsKeeps
      <4>2. s.req[r].done = q.done
        BY <2>3, <3>1 DEF Ends, SameButBody
      <4> QED BY <3>1, <4>1, <4>2, GoodIs DEF Ends, Good
    <3>2. CASE ~Ends(t, s)
      <4>1. /\ s \in TapState /\ s.live /\ ~s.closed /\ s.log = Fed(r, m)
            /\ s.turn = t.turn /\ s.profile = t.profile /\ s.matched = t.matched /\ s.req = t.req
        BY <2>7, <3>2 DEF Emits, Gives
      <4>2. QueueIsTurns(s)
        BY <1>4, <1>11, <2>3, <4>1 DEF QueueIsTurns, SameButBody, SameTurn, TapState
      <4>3. t.live
        BY <2>6 DEF Gives
      <4>4. /\ RequestsSound(s) /\ ProfileHolds(s) /\ AskedIsMatched(s, wire')
            /\ SameClaims(t, s)
        BY <2>5, <4>1, <4>3 DEF Sound, RequestsSound, RequestSound, ProfileHolds, OfProfile,
           AskedIsMatched, AskedIfMatched, SameClaims
      <4>5. s.req[r].done = q.done
        BY <2>3, <4>1 DEF SameButBody
      <4> QED BY <1>7, <3>2, <4>1, <4>2, <4>4, <4>5 DEF Sound
    <3> QED BY <3>1, <3>2
  <2>9. SameButBody(s, u, r) /\ u.req[r].ready = TRUE /\ u.req[r].pending = s.req[r].pending
    BY <2>8, ReadyInIs
  <2> HIDE DEF u
  <2>10. AskedIfMatched(u, wire', r)
    <3>1. AskedIfMatched(s, wire', r)
      BY <2>8 DEF Sound, AskedIsMatched
    <3> QED BY <1>5, <2>9, <3>1 DEF AskedIfMatched, SameButBody, SameTurn
  <2>11. Sound(u, wire') /\ SameClaims(s, u) /\ ProfileHolds(u) /\ u \in TapState
    BY <2>8, <2>9, <2>10, BodyEditKeeps DEF Sound
  <2>12. Feeds(tap, u)
    <3>1. tap.log \in Seq(FeedEvents) /\ t.log \in Seq(FeedEvents) /\ s.log \in Seq(FeedEvents)
      BY <1>1, <2>5, <2>8 DEF TapState
    <3>2. Feeds(tap, s)
      BY <2>6, <2>7, <3>1, FeedsOn DEF Emits
    <3> QED BY <2>9, <3>2 DEF Feeds, SameButBody, SameTurn
  <2>13. u.matched = r /\ u.req[r].done = q.done /\ (u.live => u.log = Fed(r, m))
    BY <1>11, <2>5, <2>8, <2>9, <2>11 DEF SameClaims, SameButBody, SameTurn
  <2>14. FeedInStep(u, wire')
    BY <1>5, <2>1, <2>9, <2>13 DEF FeedInStep
  <2>15. Good(u, wire')
    BY <2>11, <2>14 DEF Good, Sound
  <2>16. tap' = IF q.done = "failed" THEN Fail(u, "stream_aborted")
                ELSE IF q.done = "finished" THEN Finish(u) ELSE u
    BY <1>2, <1>11, <2>13
  <2>17. CASE tap' = u
    BY <1>8, <1>11, <2>12, <2>13, <2>15, <2>17
  <2>18. ASSUME Good(tap', wire'), Feeds(u, tap'), SameClaims(u, tap') PROVE StepSound
    <3>1. tap.log \in Seq(FeedEvents) /\ u.log \in Seq(FeedEvents) /\ tap'.log \in Seq(FeedEvents)
      BY <1>1, <2>11, <2>18 DEF TapState, Good
    <3>2. Feeds(tap, tap')
      BY <2>12, <2>18, <3>1, FeedsOn
    <3> QED BY <1>8, <1>11, <2>13, <2>18, <3>2 DEF SameClaims
  <2>19. CASE tap' = Fail(u, "stream_aborted")
    <3>1. u.live => CutShort(u.log)
      BY <2>11, <2>14, GoodIsCut
    <3>2. Good(tap', wire') /\ Feeds(u, tap') /\ SameClaims(u, tap')
      BY <2>11, <2>19, <3>1, FailKeeps DEF Reasons
    <3> QED BY <2>18, <3>2
  <2>20. CASE q.done = "finished" /\ tap' = Finish(u)
    <3>1. CASE ~u.live
      <4>1. tap' = u
        BY <2>20, <3>1 DEF Finish
      <4> QED BY <2>17, <4>1
    <3>2. CASE u.live
      <4>1. m = Chunks + 1
        BY <1>4, <1>5, <2>20 DEF AskedIfMatched
      <4>2. u.matched \in Requests /\ u.log = Fed(u.matched, Chunks + 1)
        BY <2>13, <3>2, <4>1
      <4>3. Good(tap', wire') /\ Feeds(u, tap') /\ SameClaims(u, tap')
        BY <2>11, <2>20, <3>2, <4>2, FinishKeeps
      <4> QED BY <2>18, <4>3
    <3> QED BY <3>1, <3>2
  <2> QED BY <2>16, <2>17, <2>19, <2>20
<1> QED BY <1>1, <1>9, <1>10, <1>11

-----------------------------------------------------------------------------
LEMMA TapStep == ASSUME TapInv, [TapNext]_tapVars PROVE StepSound
<1>1. CASE UNCHANGED tapVars
  BY <1>1, StepIs DEF tapVars, TapInv, Feeds
<1>2. CASE TapNext
  <2>1. ASSUME NEW r \in Requests, NEW in \in Inputs[r], RequestSent(r, in) PROVE StepSound
    BY <2>1, RequestSentStep
  <2>2. ASSUME NEW r \in Requests, NEW v \in Responses[r], ResponseReceived(r, v)
        PROVE  StepSound
    <3>1. v \in Verdicts
      BY <2>2, ResponsesAssumption
    <3> QED BY <2>2, <3>1, ResponseReceivedStep
  <2>3. ASSUME NEW r \in Requests,
               Redirected(r) \/ BodyRetrieved(r) \/ StreamStarts(r) \/ ProviderSends(r)
               \/ StreamAnswered(r) \/ LoadingFinished(r) \/ LoadingFailed(r)
        PROVE  StepSound
    BY <2>3, RedirectedStep, BodyRetrievedStep, StreamStartsStep, ProviderSendsStep,
       StreamAnsweredStep, LoadingFinishedStep, LoadingFailedStep
  <2>4. CASE SelectTimer \/ TimersFire \/ Arm
    BY <2>4, SelectTimerStep, TimersFireStep, ArmStep
  <2>5. CASE CancelTurn \/ Detach
    <3>1. link' \in BOOLEAN /\ tap' = Cancel(tap) /\ UNCHANGED wire
      BY <2>5 DEF CancelTurn, Detach, TapInv
    <3> QED BY <3>1, CancelStep
  <2>6. CASE Attach
    BY <2>6, StepIs DEF Attach, TapInv, Feeds
  <2> QED BY <1>2, <2>1, <2>2, <2>3, <2>4, <2>5, <2>6 DEF TapNext
<1> QED BY <1>1, <1>2

LEMMA TapInitHolds == ASSUME TapInit PROVE TapInv
<1> USE TapAssumption
<1> DEFINE none == <<>>
<1>1. NoRequest \in RequestState /\ NoRequest.turn = 0 /\ NoRequest.known = "no"
      /\ NoRequest.ready = FALSE /\ NoRequest.pending = none /\ NoRequest.done = Null
  BY DEF NoRequest, RequestState
<1>2. none \in Seq(FeedEvents) /\ Len(none) = 0 /\ Null # "finished"
  OBVIOUS
<1>3. /\ tap.turn = 0 /\ ~tap.live /\ tap.closed
      /\ \A r \in Requests : tap.req[r] = NoRequest
  BY DEF TapInit
<1>4. tap \in TapState
  <2> DEFINE reqs == [r \in Requests |-> NoRequest]
  <2>1. tap = [turn |-> 0, live |-> FALSE, profile |-> Null, matched |-> Null, bytes |-> 0,
               timers |-> {}, log |-> none, closed |-> TRUE, req |-> reqs]
    BY DEF TapInit
  <2>2. reqs \in [Requests -> RequestState]
    BY <1>1
  <2> HIDE DEF reqs, none
  <2> QED BY <1>2, <2>1, <2>2 DEF TapState
<1>5. wire \in WireState /\ \A r \in Requests : wire[r].stream = "off" /\ wire[r].from = 0
                                               /\ wire[r].sent = 0
  BY DEF TapInit, WireState, BodyState
<1>6. QueueIsTurns(tap) /\ FeedInStep(tap, wire)
  BY <1>3 DEF QueueIsTurns, FeedInStep, TapInit
<1>7. RequestsSound(tap) /\ ProfileHolds(tap)
  BY <1>1, <1>3 DEF RequestsSound, RequestSound, ProfileHolds, OfProfile
<1>8. AskedIsMatched(tap, wire)
  BY <1>1, <1>2, <1>3, <1>5 DEF AskedIsMatched, AskedIfMatched, none
<1> QED BY <1>4, <1>5, <1>6, <1>7, <1>8 DEF TapInv, Good, TapInit

\* The inductive invariant of the tap.
THEOREM TapInvHolds == TapSpec => []TapInv
<1>1. TapInv /\ [TapNext]_tapVars => TapInv'
  BY TapStep DEF StepSound
<1> QED BY <1>1, TapInitHolds, PTL DEF TapSpec

\* The shapes of the tap, of its requests and of the wire.
THEOREM TapTypesHold == TapSpec => []TapTypeOK
<1>1. TapInv => TapTypeOK
  BY TapAssumption DEF TapInv, Good, TapTypeOK, TapState, WireState, BodyState, AskedIsMatched,
     AskedIfMatched
<1> QED BY <1>1, TapInvHolds, PTL

\* Whatever late replies, timers and body fetches do, the response a turn follows is one of
\* its own requests', carries its prompt and has no rival as likely.
THEOREM MatchesAreSound == TapSpec => MatchIsSound
<1>1. TapInv /\ [TapNext]_tapVars =>
      [MatchSound(tap, tap')]_tapVars
  BY TapStep DEF StepSound
<1> QED BY <1>1, TapInvHolds, PTL DEF TapSpec, MatchIsSound, MatchSound

\* The tap feeds its reader as TapFeed promises.
THEOREM FeedIsImplemented == TapSpec => ImplementsFeed
<1>1. TapInit => feed!InitFeed
  BY DEF TapInit, feed!InitFeed
<1>2. TapInv /\ [TapNext]_tapVars => [feed!NextFeed]_(feed!feedVars)
  BY TapStep DEF StepSound, feed!feedVars
<1> QED BY <1>1, <1>2, TapInvHolds, PTL DEF TapSpec, ImplementsFeed, feed!Feed

=============================================================================
