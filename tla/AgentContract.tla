---------------------------- MODULE AgentContract ----------------------------
(***************************************************************************)
(* The agent contract: what a prompt may take for granted in the chat it   *)
(* is typed into, and how an invalid answer is repaired.  The router's     *)
(* executeAgentContract (proxy/openai-router.ts), the context it prepares  *)
(* and acknowledges (runtime/agent-contract.ts), the generation of a       *)
(* session (runtime/session-manager.ts) and the attempts of a request      *)
(* (runtime/request-state.ts).                                             *)
(*                                                                         *)
(* A call holds its session's chat lane from Prepare to its end.  Nothing  *)
(* else touches the chat meanwhile, so one submission with its answer is   *)
(* one step; the acknowledgements are shared by all sessions.  A context   *)
(* key is a generation number: the manager never gives one twice.          *)
(***************************************************************************)
EXTENDS ContractAnswer, FiniteSets, Functions

CONSTANTS Calls,         \* requests, each made at most once
          Sessions,
          Asks,          \* [Calls -> SUBSET Ask]: what each of them may be
          Segments, Versions,  \* segments of a typed context and their contents
          Schemas,       \* fingerprints of route and tools
          Texts,         \* what the model may answer
          None,
          MaxTracked,    \* MAX_TRACKED_SESSIONS
          ResetFailures  \* how a failing reset may leave the chat

Contexts == [Segments -> Versions \union {None}]
Ask == [kind : {"contract", "plain", "reset", "recreate"}, session : Sessions,
        tools : Schemas, context : Contexts, budget : 1..3]

ASSUME NoneAssumption == None \notin Calls \union Versions \union Schemas \union Texts
ASSUME SessionsAssumption == IsFiniteSet(Sessions) /\ None \notin Sessions
ASSUME AsksAssumption == Asks \in [Calls -> SUBSET Ask]
ASSUME TrackedAssumption == MaxTracked \in Nat \ {0}
ASSUME ResetAssumption == ResetFailures \subseteq {"kept", "fresh"}

VARIABLES
  transport,       \* of all sessions of the manager; "network" is stateless
  generation,      \* [Sessions -> Nat]
  lastGeneration,
  stats,           \* statsBySession: acknowledged knowledge, by context key
  chat,            \* [Sessions -> Knowledge]: what the conversation has been told last
  lane,            \* [Sessions -> Calls or None]
  call,            \* [Calls -> Call]
  astray           \* keys under which a failing reset has left the conversation

vars == <<transport, generation, lastGeneration, stats, chat, lane, call, astray>>

Knowledge == [tools : Schemas \union {None}, context : Contexts]
Nothing == [tools |-> None, context |-> [g \in Segments |-> None]]

Call == [pc : {"new", "initial", "repair", "serialize", "remind", "returned", "failed"},
         session : Sessions \union {None}, tools : Schemas \union {None}, context : Contexts,
         budget : 0..3, attempts : 0..3,
         schema : BOOLEAN, tells : SUBSET Segments, drops : SUBSET Segments,
         first : Texts \union {None}, paths : SUBSET Paths, result : Texts \union {None}]

NewCall ==
  [pc |-> "new", session |-> None, tools |-> None, context |-> Nothing.context,
   budget |-> 0, attempts |-> 0, schema |-> FALSE, tells |-> {}, drops |-> {},
   first |-> None, paths |-> {}, result |-> None]

\* Sessions start with chats of their own and generations of their own.
Init ==
  /\ transport \in {"ui", "network"}
  /\ generation = CHOOSE g \in Injection(Sessions, 1..Cardinality(Sessions)) : TRUE
  /\ lastGeneration = Cardinality(Sessions)
  /\ stats = [k \in {} |-> Nothing]
  /\ chat = [s \in Sessions |-> Nothing]
  /\ lane = [s \in Sessions |-> None]
  /\ call = [c \in Calls |-> NewCall]
  /\ astray = {}

-----------------------------------------------------------------------------
\* ensureStats(k): the map with an entry for k, the oldest key giving way when it
\* is full.  The order of the keys is not kept: any of them may be the oldest.
Room == IF Cardinality(DOMAIN stats) < MaxTracked
          THEN {DOMAIN stats}
          ELSE {DOMAIN stats \ {old} : old \in DOMAIN stats}
Ensured(k) ==
  IF k \in DOMAIN stats
    THEN {stats}
    ELSE {[j \in D \union {k} |-> IF j = k THEN Nothing ELSE stats[j]] : D \in Room}

Key(s) == generation[s]

\* The next generation: whatever was acknowledged under the last is forgotten.
NewKey(s) ==
  /\ lastGeneration' = lastGeneration + 1
  /\ generation' = [generation EXCEPT ![s] = lastGeneration + 1]

\* The call ends: with an answer for the client, which is remembered where it was
\* repaired, or with an error, which costs the session its generation (transaction's
\* catch).
Return(c, answer) ==
  /\ call' = [call EXCEPT ![c] = [NewCall EXCEPT !.pc = "returned", !.first = call[c].first,
       !.paths = call[c].paths, !.result = IF call[c].first = None THEN None ELSE answer]]
  /\ lane' = [lane EXCEPT ![call[c].session] = None]
  /\ UNCHANGED <<generation, lastGeneration>>
Throw(c) ==
  /\ call' = [call EXCEPT ![c] = [NewCall EXCEPT !.pc = "failed"]]
  /\ lane' = [lane EXCEPT ![call[c].session] = None]
  /\ NewKey(call[c].session)
GoOn(c, next) ==
  /\ call' = [call EXCEPT ![c] = [next EXCEPT !.attempts = call[c].attempts + 1]]
  /\ UNCHANGED <<lane, generation, lastGeneration>>

\* A repair carries the candidate with the paths of its errors, the tools it names, and
\* nothing of the context.
Repairing(c, pc, candidate, errors) ==
  [NewCall EXCEPT !.pc = pc, !.session = call[c].session, !.budget = call[c].budget,
                  !.first = candidate, !.paths = errors]

-----------------------------------------------------------------------------
(* prepareAgentContractRequest: a bootstrap says everything, a delta what has *)
(* changed since the last acknowledgement and what is gone.                   *)

\* Slip: a segment is told once, whatever becomes of its content.
UntoldOnce(known, context) ==
  {g \in Segments : context[g] # None /\ known.context[g] = None}
Changed(known, context) ==
  {g \in Segments : context[g] # None /\ known.context[g] # context[g]}

Prepare(c, ask) ==
  LET s == ask.session IN
  /\ call[c].pc = "new"
  /\ ask.kind = "contract"
  /\ lane[s] = None
  /\ lane' = [lane EXCEPT ![s] = c]
  /\ stats' \in Ensured(Key(s))
  /\ \E reinject \in BOOLEAN :
       LET known == stats'[Key(s)]
           bootstrap == known.tools = None \/ reinject \/ transport = "network" IN
       call' = [call EXCEPT ![c] =
         [NewCall EXCEPT !.pc = "initial", !.session = s, !.tools = ask.tools,
            !.context = ask.context, !.budget = ask.budget,
            !.schema = bootstrap \/ known.tools # ask.tools,
            !.tells = IF bootstrap THEN {g \in Segments : ask.context[g] # None}
                                   ELSE Changed(known, ask.context),
            !.drops = {g \in Segments : known.context[g] # None /\ ask.context[g] = None}]]
  /\ UNCHANGED <<transport, generation, lastGeneration, chat, astray>>

\* What the conversation knows once the prompt is in it.
Told(c) ==
  LET before == IF transport = "network" THEN Nothing ELSE chat[call[c].session] IN
  [tools |-> IF call[c].schema THEN call[c].tools ELSE before.tools,
   context |-> [g \in Segments |-> IF g \in call[c].tells THEN call[c].context[g]
                                   ELSE IF g \in call[c].drops THEN None ELSE before.context[g]]]
Tell(c) == chat' = [chat EXCEPT ![call[c].session] = Told(c)]
TellNothing(c) ==
  chat' = IF transport = "network" THEN [chat EXCEPT ![call[c].session] = Nothing] ELSE chat

\* beforeSubmit: the attempt budget of the request.
Granted(c) == call[c].attempts < call[c].budget

\* commitAgentContractContext, once the provider has answered.
Commit(c) ==
  LET k == Key(call[c].session) IN
  \E s \in Ensured(k) :
    stats' = [s EXCEPT ![k] = [tools |-> call[c].tools, context |-> call[c].context]]

-----------------------------------------------------------------------------
(* executeAgentContract *)

\* The first execution: acknowledged whatever its answer is worth.
Initial(c, answer) ==
  /\ call[c].pc = "initial"
  /\ Granted(c)
  /\ Tell(c)
  /\ Commit(c)
  /\ \/ Served(answer) /\ Return(c, answer)
     \/ /\ AsksForTools(answer)
        /\ GoOn(c, [call[c] EXCEPT !.pc = "remind"])
     \/ /\ ~BeyondRepair(answer)
        /\ \E errors \in Errors(answer) : GoOn(c, Repairing(c, "repair", answer, errors))
     \/ Declined(answer) /\ Throw(c)
  /\ UNCHANGED <<transport, astray>>

\* A repair that can be read, and keeps to the first answer.
Faithful(c, answer) == StrictlyRead(answer) /\ Continuous(call[c].first, call[c].paths, answer)

\* It drifts, is unclear, asks for more, or merely repeats the candidate.
EndsRepair(c, answer) ==
  \/ StrictlyRead(answer) /\ ~Faithful(c, answer)
  \/ answer.form = "unclear"
  \/ Sound(answer) /\ ~Served(answer)
  \/ answer = call[c].first

\* The first repair.  A faithful one may reveal errors of its own, which the last may
\* correct too; one that cannot be read has shown nothing.
Repair(c, answer) ==
  /\ call[c].pc = "repair"
  /\ Granted(c)
  /\ TellNothing(c)
  /\ stats' \in Ensured(Key(call[c].session))
  /\ \/ Faithful(c, answer) /\ Served(answer) /\ Return(c, answer)
     \/ /\ Faithful(c, answer)
        /\ \E errors \in Errors(answer) :
             GoOn(c, Repairing(c, "serialize", call[c].first, call[c].paths \union errors))
     \/ /\ ~StrictlyRead(answer) /\ answer.form # "unclear"
        /\ GoOn(c, Repairing(c, "serialize", call[c].first, call[c].paths))
     \/ EndsRepair(c, answer) /\ Throw(c)
  /\ UNCHANGED <<transport, astray>>

\* The last one, again anchored to the first answer.
Serialize(c, answer) ==
  /\ call[c].pc = "serialize"
  /\ Granted(c)
  /\ TellNothing(c)
  /\ stats' \in Ensured(Key(call[c].session))
  /\ IF Faithful(c, answer) /\ Served(answer)
       THEN Return(c, answer)
       ELSE Throw(c)
  /\ UNCHANGED <<transport, astray>>

\* The answer asked for tools it has been given: one reminder.
Remind(c, answer) ==
  /\ call[c].pc = "remind"
  /\ Granted(c)
  /\ Tell(c)
  /\ stats' \in Ensured(Key(call[c].session))
  /\ IF Served(answer) THEN Return(c, answer) ELSE Throw(c)
  /\ UNCHANGED <<transport, astray>>

Active(c) == call[c].pc \in {"initial", "repair", "serialize", "remind"}

\* Slip: a call without attempts left waits for one.
FailsGranted(c) ==
  /\ Active(c)
  /\ Granted(c)
  /\ Throw(c)
  /\ IF call[c].pc \in {"initial", "remind"} THEN Tell(c) ELSE TellNothing(c)
  /\ UNCHANGED <<transport, stats, astray>>
\* The execution rejects: no attempt left, an abort or a failure before the
\* prompt is typed, or after, when the chat may have it.
Fails(c) ==
  /\ Active(c)
  /\ Throw(c)
  /\ \/ UNCHANGED chat
     \/ /\ Granted(c)
        /\ IF call[c].pc \in {"initial", "remind"} THEN Tell(c) ELSE TellNothing(c)
  /\ UNCHANGED <<transport, stats, astray>>

-----------------------------------------------------------------------------
(* What else happens to a session, in one turn of its lane. *)

Turn(c, ask, kind) ==
  /\ call[c].pc = "new"
  /\ ask.kind = kind
  /\ lane[ask.session] = None

Done(c, pc) == call' = [call EXCEPT ![c].pc = pc]

\* A request of a client that knows no contracts.
Plain(c, ask) ==
  /\ Turn(c, ask, "plain")
  /\ \/ Done(c, "returned") /\ UNCHANGED <<generation, lastGeneration>>
     \/ Done(c, "failed") /\ NewKey(ask.session)
  /\ UNCHANGED <<transport, stats, chat, lane, astray>>

Reset(c, ask) ==
  /\ Turn(c, ask, "reset")
  /\ Done(c, "returned")
  /\ chat' = [chat EXCEPT ![ask.session] = Nothing]
  /\ NewKey(ask.session)
  /\ UNCHANGED <<transport, stats, lane, astray>>

\* executor.reset() rejects, having left the old conversation or not; the session's
\* generation stays as it was.
ResetFails(c, ask) ==
  /\ Turn(c, ask, "reset")
  /\ Done(c, "failed")
  /\ \E left \in ResetFailures :
       IF left = "fresh"
         THEN /\ chat' = [chat EXCEPT ![ask.session] = Nothing]
              /\ astray' = astray \union {Key(ask.session)}
         ELSE UNCHANGED <<chat, astray>>
  /\ UNCHANGED <<transport, generation, lastGeneration, stats, lane>>

\* The session is removed, and created again by the next request that names it.
Recreate(c, ask) ==
  /\ Turn(c, ask, "recreate")
  /\ Done(c, "returned")
  /\ chat' = [chat EXCEPT ![ask.session] = Nothing]
  /\ NewKey(ask.session)
  /\ UNCHANGED <<transport, stats, lane, astray>>

Executes(c) ==
  \/ \E answer \in Texts :
       Initial(c, answer) \/ Repair(c, answer) \/ Serialize(c, answer) \/ Remind(c, answer)
  \/ Fails(c)

Next ==
  \E c \in Calls :
    \/ \E ask \in Asks[c] :
         Prepare(c, ask) \/ Plain(c, ask) \/ Reset(c, ask) \/ ResetFails(c, ask) \/ Recreate(c, ask)
    \/ Executes(c)

\* An execution settles: its ProviderRequestState aborts it at its deadline.
Fairness == \A c \in Calls : WF_vars(Executes(c))

Spec == Init /\ [][Next]_vars
FairSpec == Spec /\ Fairness

-----------------------------------------------------------------------------
TypeOK ==
  /\ transport \in {"ui", "network"}
  /\ generation \in [Sessions -> Nat]
  /\ lastGeneration \in Nat
  /\ DOMAIN stats \subseteq Nat
  /\ stats \in [DOMAIN stats -> Knowledge]
  /\ chat \in [Sessions -> Knowledge]
  /\ lane \in [Sessions -> Calls \union {None}]
  /\ call \in [Calls -> Call]
  /\ \A c \in Calls : call[c].attempts <= call[c].budget
  /\ astray \subseteq Nat

\* A conversation that knows at least this.
Knows(k, tools, context) ==
  k.tools = tools /\ \A g \in Segments : context[g] # None => k.context[g] = context[g]

\* A failing reset has left the conversation, and the session has its key still.
Strayed(s) == transport = "ui" /\ Key(s) \in astray

\* The prompt a call is about to send leaves out only what its conversation has been told
\* and still holds in the version the call is about, although errors, resets,
\* removals and the bounded memory of acknowledgements come in between
\* (prepareAgentContractRequest's deltas against commitAgentContractContext).  The
\* exception is a session that has strayed, until its next key.
PromptIsGrounded ==
  \A c \in Calls : call[c].pc \in {"initial", "remind"} /\ ~Strayed(call[c].session) =>
    Knows(Told(c), call[c].tools, call[c].context)

\* The same without the exception, as docs/GATEWAY_LIFECYCLE_4.9.0.md:9 has it: resets and
\* errors invalidate what was acknowledged (session-manager.ts:331 renews the generation
\* of a reset that succeeds only).
ResetsInvalidate ==
  \A c \in Calls : call[c].pc \in {"initial", "remind"} =>
    Knows(Told(c), call[c].tools, call[c].context)

\* What has been acknowledged under a session's present key is what its
\* conversation holds, unless the session has strayed.
AcknowledgedIsKnown ==
  transport = "ui" => \A s \in Sessions :
    Key(s) \in DOMAIN stats \ astray /\ stats[Key(s)].tools # None =>
      Knows(chat[s], stats[Key(s)].tools, stats[Key(s)].context)

\* A repaired answer that reaches the client has the action and the tool of the first
\* answer, as far as these could be read; and a tool call that could be read is run with
\* the arguments it was first given, but for those an error was about.  However many
\* errors the repairs add up, they fix the form of a decision and never make one
\* (openai-router.ts:328-424, agent-contract.ts:724-757).
KeepsDecision(before, paths, after) ==
  LET Same(p) == p \in before.anchors => At(after, p) = At(before, p)
  IN  /\ Same(Whole("action")) /\ Same(Whole("tool"))
      /\ before.form = "exact" /\ before.action = "use_tool" =>
           \A x \in Args : Arg(x) \notin paths => Same(Arg(x))
RepairKeepsDecision ==
  \A c \in Calls : call[c].pc = "returned" /\ call[c].first # None =>
    KeepsDecision(call[c].first, call[c].paths, call[c].result)

\* Every call ends, although each answer may call for another prompt.
CallsEnd ==
  \A c \in Calls : Active(c) ~> call[c].pc \in {"returned", "failed"}
=============================================================================
