------------------------- MODULE AgentContractProofs -------------------------
(***************************************************************************)
(* What prompts take for granted, for any number of calls, sessions,       *)
(* segments and versions, and any bound on the acknowledgements.  Two      *)
(* facts support each other: an acknowledged key describes the chat, and   *)
(* the prompt under way is grounded in the chat.  They last because keys   *)
(* are never reused and because one call at a time holds a chat.           *)
(***************************************************************************)
EXTENDS AgentContract, FiniteSetTheorems, FunctionTheorems, TLAPS

\* A key is given once, and none is acknowledged before it is given.
KeysAreFresh ==
  /\ \A s \in Sessions : generation[s] <= lastGeneration
  /\ \A s, t \in Sessions : s # t => generation[s] # generation[t]
  /\ \A k \in DOMAIN stats : k <= lastGeneration

\* A call at work holds the lane of its session, only a repair has a candidate, and
\* what has been acknowledged when a reminder goes out is what the call has said.
InOrder(c) ==
  /\ Active(c) => call[c].session \in Sessions /\ lane[call[c].session] = c
  /\ call[c].pc \in {"new", "initial", "remind"} => call[c].first = None
  /\ call[c].pc \in {"initial", "remind"} => call[c].tools \in Schemas
  /\ call[c].pc = "remind" =>
       LET k == Key(call[c].session) IN
       k \in DOMAIN stats /\ stats[k].tools # None =>
         stats[k] = [tools |-> call[c].tools, context |-> call[c].context]
CallsAreInOrder == \A c \in Calls : InOrder(c)

IInv ==
  /\ TypeOK
  /\ KeysAreFresh
  /\ CallsAreInOrder
  /\ RepairKeepsDecision
  /\ AcknowledgedIsKnown
  /\ PromptIsGrounded

-----------------------------------------------------------------------------
(* The data. *)

LEMMA NothingType == Nothing \in Knowledge
BY DEF Nothing, Knowledge, Contexts

LEMMA NewCallType == NewCall \in Call /\ NewCall.attempts = 0 /\ NewCall.budget = 0
BY DEF NewCall, Call, Nothing, Contexts

LEMMA RepairingType ==
  ASSUME call \in [Calls -> Call], NEW c \in Calls, call[c].session \in Sessions,
         NEW pc \in {"repair", "serialize"}, NEW t \in Texts \union {None},
         NEW errors \in SUBSET Paths, NEW n \in 0..3
  PROVE  [Repairing(c, pc, t, errors) EXCEPT !.attempts = n] \in Call
BY DEF Repairing, NewCall, Call, Nothing, Contexts

\* What ensureStats may forget, and what it may not change.
LEMMA EnsuredFacts ==
  ASSUME TypeOK, NEW k \in Nat, NEW e \in Ensured(k)
  PROVE  /\ k \in DOMAIN e
         /\ DOMAIN e \subseteq DOMAIN stats \union {k}
         /\ \A j \in DOMAIN e : e[j] = IF j \in DOMAIN stats THEN stats[j] ELSE Nothing
         /\ e \in [DOMAIN e -> Knowledge]
<1>1. CASE k \in DOMAIN stats
  BY <1>1 DEF Ensured, TypeOK
<1>2. CASE k \notin DOMAIN stats
  <2>1. PICK D \in Room : e = [j \in D \union {k} |-> IF j = k THEN Nothing ELSE stats[j]]
    BY <1>2 DEF Ensured
  <2>2. D \subseteq DOMAIN stats
    BY DEF Room
  <2>3. DOMAIN e = D \union {k} /\ e[k] = Nothing /\ \A j \in D : e[j] = stats[j]
    BY <1>2, <2>1, <2>2
  <2>4. \A j \in DOMAIN stats : stats[j] \in Knowledge
    BY DEF TypeOK
  <2>5. \A j \in DOMAIN e : e[j] \in Knowledge
    BY <2>2, <2>3, <2>4, NothingType
  <2>6. e = [j \in DOMAIN e |-> e[j]]
    BY <2>1
  <2>7. e \in [DOMAIN e -> Knowledge]
    BY <2>5, <2>6
  <2> QED BY <1>2, <2>2, <2>3, <2>7
<1> QED BY <1>1, <1>2

LEMMA ToldType ==
  ASSUME TypeOK, NEW c \in Calls, call[c].session \in Sessions, call[c].tools \in Schemas
  PROVE  Told(c) \in Knowledge
<1> DEFINE before == IF transport = "network" THEN Nothing ELSE chat[call[c].session]
<1>1. before \in Knowledge
  BY NothingType DEF TypeOK
<1>2. call[c] \in Call
  BY DEF TypeOK
<1>3. Told(c).tools \in Schemas \union {None}
  BY <1>1 DEF Told, Knowledge
<1>4. Told(c).context \in Contexts
  BY <1>1, <1>2 DEF Told, Knowledge, Contexts, Call
<1> QED BY <1>3, <1>4 DEF Told, Knowledge

-----------------------------------------------------------------------------
(* The prompt. *)

Grounded(c) ==
  call[c].pc \in {"initial", "remind"} /\ ~Strayed(call[c].session) =>
    Knows(Told(c), call[c].tools, call[c].context)

\* A prompt prepared from an acknowledgement that describes the chat is grounded.
LEMMA PreparedIsGrounded ==
  ASSUME TypeOK, AcknowledgedIsKnown, TypeOK', NEW c \in Calls, NEW ask \in Asks[c],
         Prepare(c, ask)
  PROVE  Grounded(c)'
<1> DEFINE s == ask.session
           known == stats'[Key(s)]
<1>1. ask \in Ask /\ s \in Sessions
  BY AsksAssumption DEF Ask
<1>2. PICK reinject \in BOOLEAN :
        LET bootstrap == known.tools = None \/ reinject \/ transport = "network" IN
        call' = [call EXCEPT ![c] =
          [NewCall EXCEPT !.pc = "initial", !.session = s, !.tools = ask.tools,
             !.context = ask.context, !.budget = ask.budget,
             !.schema = bootstrap \/ known.tools # ask.tools,
             !.tells = IF bootstrap THEN {g \in Segments : ask.context[g] # None}
                                    ELSE Changed(known, ask.context),
             !.drops = {g \in Segments : known.context[g] # None /\ ask.context[g] = None}]]
  BY DEF Prepare
<1> DEFINE bootstrap == known.tools = None \/ reinject \/ transport = "network"
           r == call'[c]
<1>3. /\ r.session = s /\ r.tools = ask.tools /\ r.context = ask.context
      /\ r.schema = (bootstrap \/ known.tools # ask.tools)
      /\ r.tells = IF bootstrap THEN {g \in Segments : ask.context[g] # None}
                                ELSE Changed(known, ask.context)
      /\ r.drops = {g \in Segments : known.context[g] # None /\ ask.context[g] = None}
  BY <1>2 DEF TypeOK, NewCall
<1>4. chat' = chat /\ transport' = transport
  BY DEF Prepare
<1>5. CASE bootstrap
  <2>1. Told(c)'.tools = ask.tools
    BY <1>3, <1>5 DEF Told
  <2>2. \A g \in Segments : ask.context[g] # None => Told(c)'.context[g] = ask.context[g]
    BY <1>3, <1>5 DEF Told
  <2> QED BY <1>3, <2>1, <2>2 DEF Grounded, Knows
<1>6. CASE ~bootstrap
  <2> SUFFICES ASSUME ~Strayed(s)' PROVE Grounded(c)'
    BY <1>3 DEF Grounded
  <2>1. transport = "ui" /\ known.tools # None /\ Key(s) \notin astray
    BY <1>4, <1>6 DEF TypeOK, Strayed, Prepare, Key
  <2>2. Key(s) \in DOMAIN stats /\ known = stats[Key(s)]
    <3>1. Key(s) \in Nat /\ stats' \in Ensured(Key(s))
      BY <1>1 DEF Prepare, Key, TypeOK
    <3>2. known = IF Key(s) \in DOMAIN stats THEN stats[Key(s)] ELSE Nothing
      BY <3>1, EnsuredFacts
    <3> QED BY <2>1, <3>2 DEF Nothing
  <2>3. Knows(chat[s], known.tools, known.context)
    BY <1>1, <2>1, <2>2 DEF AcknowledgedIsKnown
  <2>4. Told(c)'.tools = ask.tools
    BY <1>3, <1>4, <2>1, <2>3 DEF Told, Knows
  <2>5. ASSUME NEW g \in Segments, ask.context[g] # None
        PROVE  Told(c)'.context[g] = ask.context[g]
    BY <1>3, <1>4, <1>6, <2>1, <2>3, <2>5 DEF Told, Knows, Changed
  <2> QED BY <1>3, <2>4, <2>5 DEF Grounded, Knows
<1> QED BY <1>5, <1>6

\* Sending a grounded prompt a second time leaves it grounded.
LEMMA ToldTwice ==
  ASSUME TypeOK, NEW c \in Calls, call[c].pc = "initial", call[c].session \in Sessions,
         Grounded(c), Tell(c), transport' = transport,
         call'[c].session = call[c].session, call'[c].tools = call[c].tools,
         call'[c].context = call[c].context, call'[c].schema = call[c].schema,
         call'[c].tells = call[c].tells, call'[c].drops = call[c].drops,
         generation' = generation, astray' = astray
  PROVE  Grounded(c)'
<1> SUFFICES ASSUME ~Strayed(call[c].session) PROVE Grounded(c)'
  BY DEF Grounded, Strayed, Key
<1>1. Knows(Told(c), call[c].tools, call[c].context)
  BY DEF Grounded
<1>2. chat'[call[c].session] = Told(c)
  BY DEF Tell, TypeOK
<1>3. Told(c)'.tools = call[c].tools
  BY <1>1, <1>2 DEF Told, Knows
<1>4. ASSUME NEW g \in Segments, call[c].context[g] # None
      PROVE  Told(c)'.context[g] = call[c].context[g]
  BY <1>1, <1>2, <1>4 DEF Told, Knows
<1> QED BY <1>3, <1>4 DEF Grounded, Knows

-----------------------------------------------------------------------------
(* One turn of a lane: call c, of session s, takes a step. *)

\* What the turn must not touch: the other sessions' keys, chats and lanes.
OnlyTurn(c, s) ==
  /\ transport' = transport
  /\ astray \subseteq astray'
  /\ \A t \in Sessions \ {s} :
       generation'[t] = generation[t] /\ chat'[t] = chat[t] /\ lane'[t] = lane[t]
  /\ \A d \in Calls \ {c} : call'[d] = call[d]
  /\ \/ generation'[s] = generation[s] /\ lastGeneration' = lastGeneration
     \/ generation'[s] = lastGeneration + 1 /\ lastGeneration' = lastGeneration + 1
  /\ DOMAIN stats' \subseteq DOMAIN stats \union {Key(s)}
  /\ \A k \in DOMAIN stats' \ {Key(s)} : stats'[k] = stats[k]

LEMMA KeysStayFresh ==
  ASSUME TypeOK, TypeOK', KeysAreFresh, NEW c \in Calls, NEW s \in Sessions, OnlyTurn(c, s)
  PROVE  KeysAreFresh'
<1>1. \A t \in Sessions : generation'[t] <= lastGeneration'
  BY DEF TypeOK, KeysAreFresh, OnlyTurn
<1>2. ASSUME NEW t \in Sessions, NEW u \in Sessions, t # u
      PROVE  generation'[t] # generation'[u]
  BY <1>2 DEF TypeOK, KeysAreFresh, OnlyTurn
<1>3. \A k \in DOMAIN stats' : k <= lastGeneration'
  BY DEF TypeOK, KeysAreFresh, OnlyTurn, Key
<1> QED BY <1>1, <1>2, <1>3 DEF KeysAreFresh

\* It is enough to look at the session of the turn, under its old key.
LEMMA AcknowledgedStaysKnown ==
  ASSUME TypeOK, TypeOK', KeysAreFresh, AcknowledgedIsKnown,
         NEW c \in Calls, NEW s \in Sessions, OnlyTurn(c, s),
         transport = "ui" /\ generation'[s] = generation[s]
           /\ Key(s) \in DOMAIN stats' \ astray' /\ stats'[Key(s)].tools # None
           => Knows(chat'[s], stats'[Key(s)].tools, stats'[Key(s)].context)
  PROVE  AcknowledgedIsKnown'
<1> SUFFICES ASSUME transport' = "ui", NEW t \in Sessions, generation'[t] \in DOMAIN stats',
                    stats'[generation'[t]].tools # None, generation'[t] \notin astray'
             PROVE  Knows(chat'[t], stats'[generation'[t]].tools, stats'[generation'[t]].context)
  BY DEF AcknowledgedIsKnown, Key
<1>1. transport = "ui" /\ generation'[t] \notin astray
  BY DEF OnlyTurn
<1>2. CASE t # s
  <2>1. generation'[t] = generation[t] /\ chat'[t] = chat[t] /\ generation[t] # Key(s)
    BY <1>2 DEF OnlyTurn, KeysAreFresh, Key
  <2>2. generation[t] \in DOMAIN stats /\ stats'[generation[t]] = stats[generation[t]]
    BY <2>1 DEF OnlyTurn
  <2> QED BY <1>1, <2>1, <2>2 DEF AcknowledgedIsKnown, Key
<1>3. CASE t = s /\ generation'[s] = generation[s]
  BY <1>1, <1>3 DEF Key
<1>4. CASE t = s /\ generation'[s] = lastGeneration + 1
  <2>1. generation'[s] \notin DOMAIN stats /\ generation'[s] # Key(s)
    BY <1>4 DEF KeysAreFresh, TypeOK, Key
  <2> QED BY <1>4, <2>1 DEF OnlyTurn
<1> QED BY <1>2, <1>3, <1>4 DEF OnlyTurn

Keeps(c) == call[c].pc = "returned" /\ call[c].first # None =>
              KeepsDecision(call[c].first, call[c].paths, call[c].result)

\* The turn was free or the call's own, so no other worker has this session.
LEMMA OthersUndisturbed ==
  ASSUME TypeOK, KeysAreFresh, CallsAreInOrder, RepairKeepsDecision, PromptIsGrounded,
         NEW c \in Calls, NEW s \in Sessions, OnlyTurn(c, s), lane[s] \in {c, None}
  PROVE  \A d \in Calls \ {c} : InOrder(d)' /\ Keeps(d)' /\ Grounded(d)'
<1> SUFFICES ASSUME NEW d \in Calls \ {c} PROVE InOrder(d)' /\ Keeps(d)' /\ Grounded(d)'
  OBVIOUS
<1>1. call'[d] = call[d] /\ transport' = transport
  BY DEF OnlyTurn
<1>2. Keeps(d)'
  BY <1>1 DEF Keeps, RepairKeepsDecision
<1> DEFINE t == call[d].session
<1>3. ASSUME Active(d)
      PROVE  /\ t \in Sessions \ {s} /\ lane'[t] = lane[t] /\ chat'[t] = chat[t]
             /\ generation'[t] = generation[t]
  <2>1. t \in Sessions /\ lane[t] = d
    BY <1>3 DEF CallsAreInOrder, InOrder
  <2>2. d # c /\ d # None
    BY NoneAssumption
  <2> QED BY <2>1, <2>2 DEF OnlyTurn
<1>4. ASSUME Active(d), Key(t) \in DOMAIN stats'
      PROVE  Key(t) \in DOMAIN stats /\ stats'[Key(t)] = stats[Key(t)]
  <2>1. Key(t) # Key(s)
    BY <1>3, <1>4 DEF KeysAreFresh, Key
  <2> QED BY <1>4, <2>1 DEF OnlyTurn
<1>5. InOrder(d)'
  <2>1. InOrder(d)
    BY DEF CallsAreInOrder
  <2>2. CASE Active(d)
    BY <1>1, <1>3, <1>4, <2>1, <2>2 DEF InOrder, Active, Key
  <2>3. CASE ~Active(d)
    BY <1>1, <2>1, <2>3 DEF InOrder, Active
  <2> QED BY <2>2, <2>3
<1>6. ASSUME call[d].pc \in {"initial", "remind"}
      PROVE  Told(d)' = Told(d)
  BY <1>1, <1>3, <1>6 DEF Told, Active
<1>7. ASSUME call[d].pc \in {"initial", "remind"}, ~Strayed(t)'
      PROVE  ~Strayed(t)
  BY <1>1, <1>3, <1>7 DEF Strayed, Active, Key, OnlyTurn
<1>8. Grounded(d)'
  BY <1>1, <1>6, <1>7 DEF Grounded, PromptIsGrounded, Knows
<1> QED BY <1>2, <1>5, <1>8

\* Hence a turn keeps the invariant if it does right by its own call and session.
LEMMA TurnKeepsIInv ==
  ASSUME IInv, TypeOK', NEW c \in Calls, NEW s \in Sessions, OnlyTurn(c, s),
         lane[s] \in {c, None}, InOrder(c)', Keeps(c)', Grounded(c)',
         transport = "ui" /\ generation'[s] = generation[s]
           /\ Key(s) \in DOMAIN stats' \ astray' /\ stats'[Key(s)].tools # None
           => Knows(chat'[s], stats'[Key(s)].tools, stats'[Key(s)].context)
  PROVE  IInv'
<1>1. KeysAreFresh'
  BY KeysStayFresh DEF IInv
<1>2. AcknowledgedIsKnown'
  BY AcknowledgedStaysKnown DEF IInv
<1>3. \A d \in Calls : InOrder(d)' /\ Keeps(d)' /\ Grounded(d)'
  BY OthersUndisturbed DEF IInv
<1>4. CallsAreInOrder'
  BY <1>3 DEF CallsAreInOrder
<1>5. RepairKeepsDecision'
  BY <1>3 DEF RepairKeepsDecision, Keeps
<1>6. PromptIsGrounded'
  BY <1>3 DEF PromptIsGrounded, Grounded
<1> QED BY <1>1, <1>2, <1>4, <1>5, <1>6 DEF IInv

-----------------------------------------------------------------------------
(* The two halves of a turn: what it learns, and where its call goes. *)

Learns(s) ==
  /\ transport' = transport
  /\ astray \subseteq astray' /\ astray' \subseteq Nat
  /\ chat' \in [Sessions -> Knowledge]
  /\ \A t \in Sessions \ {s} : chat'[t] = chat[t]
  /\ DOMAIN stats' \subseteq Nat
  /\ stats' \in [DOMAIN stats' -> Knowledge]
  /\ DOMAIN stats' \subseteq DOMAIN stats \union {Key(s)}
  /\ \A k \in DOMAIN stats' \ {Key(s)} : stats'[k] = stats[k]

Moves(c, s) ==
  /\ \A t \in Sessions \ {s} : generation'[t] = generation[t] /\ lane'[t] = lane[t]
  /\ \A d \in Calls \ {c} : call'[d] = call[d]
  /\ \/ generation'[s] = generation[s] /\ lastGeneration' = lastGeneration
     \/ generation'[s] = lastGeneration + 1 /\ lastGeneration' = lastGeneration + 1
  /\ generation' \in [Sessions -> Nat]
  /\ lastGeneration' \in Nat
  /\ lane' \in [Sessions -> Calls \union {None}]
  /\ call' \in [Calls -> Call]
  /\ call'[c].attempts <= call'[c].budget

LEMMA TurnHalves ==
  ASSUME TypeOK, NEW c \in Calls, NEW s \in Sessions, Learns(s), Moves(c, s)
  PROVE  TypeOK' /\ OnlyTurn(c, s)
<1>1. \A d \in Calls : call'[d].attempts <= call'[d].budget
  BY DEF TypeOK, Moves
<1>2. transport' \in {"ui", "network"}
  BY DEF TypeOK, Learns
<1>3. TypeOK'
  BY <1>1, <1>2 DEF TypeOK, Learns, Moves
<1>4. OnlyTurn(c, s)
  BY DEF Learns, Moves, OnlyTurn
<1> QED BY <1>3, <1>4

LEMMA ReturnMoves ==
  ASSUME TypeOK, NEW c \in Calls, call[c].session \in Sessions,
         NEW answer \in Texts, Return(c, answer)
  PROVE  /\ Moves(c, call[c].session)
         /\ generation' = generation
         /\ call'[c].pc = "returned"
         /\ call'[c].first = call[c].first
         /\ call'[c].paths = call[c].paths
         /\ call[c].first # None => call'[c].result = answer
<1> DEFINE kept == IF call[c].first = None THEN None ELSE answer
           r == [NewCall EXCEPT !.pc = "returned", !.first = call[c].first,
                                !.paths = call[c].paths, !.result = kept]
<1>1. call' = [call EXCEPT ![c] = r]
  BY DEF Return
<1>2. kept \in Texts \union {None}
  OBVIOUS
<1>3. call[c].first \in Texts \union {None} /\ call[c].paths \in SUBSET Paths
  BY DEF TypeOK, Call
<1>4. r \in Call /\ r.attempts = 0 /\ r.budget = 0 /\ r.pc = "returned"
         /\ r.first = call[c].first /\ r.paths = call[c].paths /\ r.result = kept
  <2> HIDE DEF kept
  <2> QED BY <1>2, <1>3, NewCallType DEF Call
<1>5. call'[c] = r /\ call' \in [Calls -> Call] /\ \A d \in Calls \ {c} : call'[d] = call[d]
  BY <1>1, <1>4 DEF TypeOK
<1> QED BY <1>4, <1>5 DEF Return, Moves, TypeOK

LEMMA ThrowMoves ==
  ASSUME TypeOK, NEW c \in Calls, call[c].session \in Sessions, Throw(c)
  PROVE  /\ Moves(c, call[c].session)
         /\ generation'[call[c].session] = lastGeneration + 1
         /\ call'[c].pc = "failed"
<1> DEFINE r == [NewCall EXCEPT !.pc = "failed"]
<1>1. call' = [call EXCEPT ![c] = r]
  BY DEF Throw
<1>2. r \in Call /\ r.attempts = 0 /\ r.budget = 0 /\ r.pc = "failed"
  BY NewCallType DEF Call
<1>3. call'[c] = r /\ call' \in [Calls -> Call] /\ \A d \in Calls \ {c} : call'[d] = call[d]
  BY <1>1, <1>2 DEF TypeOK
<1> QED BY <1>2, <1>3 DEF Throw, NewKey, Moves, TypeOK

LEMMA GoOnMoves ==
  ASSUME TypeOK, NEW c \in Calls, call[c].session \in Sessions,
         Granted(c), NEW next \in Call, next.budget = call[c].budget, GoOn(c, next)
  PROVE  /\ Moves(c, call[c].session)
         /\ generation' = generation /\ lane' = lane
         /\ call'[c] = [next EXCEPT !.attempts = call[c].attempts + 1]
<1> DEFINE r == [next EXCEPT !.attempts = call[c].attempts + 1]
<1>1. call' = [call EXCEPT ![c] = r]
  BY DEF GoOn
<1>2. /\ call[c].attempts \in 0..3 /\ call[c].budget \in 0..3
      /\ call[c].attempts < call[c].budget
  BY DEF TypeOK, Call, Granted
<1>3. r \in Call /\ r.attempts = call[c].attempts + 1 /\ r.budget = call[c].budget
  BY <1>2 DEF Call
<1>4. call'[c] = r /\ call' \in [Calls -> Call] /\ \A d \in Calls \ {c} : call'[d] = call[d]
  BY <1>1, <1>3 DEF TypeOK
<1> QED BY <1>2, <1>3, <1>4 DEF GoOn, Moves, TypeOK

LEMMA CommitLearns ==
  ASSUME TypeOK, NEW c \in Calls, call[c].session \in Sessions, call[c].tools \in Schemas,
         Tell(c), Commit(c), transport' = transport, astray' = astray
  PROVE  LET s == call[c].session IN
         /\ Learns(s)
         /\ stats'[Key(s)] = [tools |-> call[c].tools, context |-> call[c].context]
         /\ chat'[s] = Told(c)
<1> DEFINE s == call[c].session
           known == [tools |-> call[c].tools, context |-> call[c].context]
<1>1. Key(s) \in Nat /\ known \in Knowledge /\ Told(c) \in Knowledge
  BY ToldType DEF Key, TypeOK, Call, Knowledge
<1>2. PICK e \in Ensured(Key(s)) : stats' = [e EXCEPT ![Key(s)] = known]
  BY DEF Commit
<1>3. /\ Key(s) \in DOMAIN e /\ e \in [DOMAIN e -> Knowledge]
      /\ DOMAIN e \subseteq DOMAIN stats \union {Key(s)}
      /\ \A k \in DOMAIN e : e[k] = IF k \in DOMAIN stats THEN stats[k] ELSE Nothing
  BY <1>1, <1>2, EnsuredFacts
<1>4. DOMAIN stats' = DOMAIN e /\ stats' \in [DOMAIN e -> Knowledge]
      /\ stats'[Key(s)] = known /\ \A k \in DOMAIN e \ {Key(s)} : stats'[k] = e[k]
  BY <1>1, <1>2, <1>3
<1>5. \A k \in DOMAIN stats' \ {Key(s)} : stats'[k] = stats[k]
  BY <1>3, <1>4
<1>6. DOMAIN stats' \subseteq Nat
  BY <1>1, <1>3, <1>4 DEF TypeOK
<1>7. chat' \in [Sessions -> Knowledge] /\ chat'[s] = Told(c)
      /\ \A t \in Sessions \ {s} : chat'[t] = chat[t]
  BY <1>1 DEF Tell, TypeOK
<1> QED BY <1>3, <1>4, <1>5, <1>6, <1>7 DEF Learns, TypeOK

LEMMA EnsureLearns ==
  ASSUME TypeOK, NEW s \in Sessions, stats' \in Ensured(Key(s)), transport' = transport, astray' = astray,
         chat' \in [Sessions -> Knowledge], \A t \in Sessions \ {s} : chat'[t] = chat[t]
  PROVE  /\ Learns(s)
         /\ Key(s) \in DOMAIN stats'
         /\ stats'[Key(s)] = IF Key(s) \in DOMAIN stats THEN stats[Key(s)] ELSE Nothing
<1>1. Key(s) \in Nat
  BY DEF Key, TypeOK
<1>2. /\ Key(s) \in DOMAIN stats' /\ stats' \in [DOMAIN stats' -> Knowledge]
      /\ DOMAIN stats' \subseteq DOMAIN stats \union {Key(s)}
      /\ \A k \in DOMAIN stats' : stats'[k] = IF k \in DOMAIN stats THEN stats[k] ELSE Nothing
  BY <1>1, EnsuredFacts
<1>3. DOMAIN stats' \subseteq Nat
  BY <1>1, <1>2 DEF TypeOK
<1> QED BY <1>2, <1>3 DEF Learns, TypeOK

LEMMA NothingTold ==
  ASSUME TypeOK, NEW c \in Calls, TellNothing(c)
  PROVE  /\ chat' \in [Sessions -> Knowledge]
         /\ \A t \in Sessions \ {call[c].session} : chat'[t] = chat[t]
         /\ transport = "ui" => chat' = chat
BY NothingType DEF TellNothing, TypeOK

\* A worker's facts, and what becomes of the invariant if its call ends.
LEMMA Worker ==
  ASSUME TypeOK, CallsAreInOrder, NEW c \in Calls, Active(c)
  PROVE  LET s == call[c].session IN s \in Sessions /\ lane[s] = c
BY DEF CallsAreInOrder, InOrder

LEMMA ThrowKeepsIInv ==
  ASSUME IInv, NEW c \in Calls, Active(c), Throw(c), Learns(call[c].session)
  PROVE  IInv'
<1> DEFINE s == call[c].session
<1>1. s \in Sessions /\ lane[s] = c
  BY Worker DEF IInv
<1>2. Moves(c, s) /\ generation'[s] = lastGeneration + 1 /\ call'[c].pc = "failed"
  BY <1>1, ThrowMoves DEF IInv
<1>3. TypeOK' /\ OnlyTurn(c, s)
  BY <1>1, <1>2, TurnHalves DEF IInv
<1>4. generation'[s] # generation[s]
  BY <1>1, <1>2 DEF IInv, KeysAreFresh, TypeOK
<1>5. InOrder(c)' /\ Keeps(c)' /\ Grounded(c)'
  BY <1>2 DEF InOrder, Active, Keeps, Grounded
<1> QED BY <1>1, <1>3, <1>4, <1>5, TurnKeepsIInv

LEMMA ReturnKeepsIInv ==
  ASSUME IInv, NEW c \in Calls, Active(c), NEW answer \in Texts, Return(c, answer),
         LET s == call[c].session IN
           /\ Learns(s)
           /\ transport = "ui" /\ Key(s) \in DOMAIN stats' \ astray' /\ stats'[Key(s)].tools # None
              => Knows(chat'[s], stats'[Key(s)].tools, stats'[Key(s)].context),
         call[c].first # None => KeepsDecision(call[c].first, call[c].paths, answer)
  PROVE  IInv'
<1> DEFINE s == call[c].session
<1>1. s \in Sessions /\ lane[s] = c
  BY Worker DEF IInv
<1>2. /\ Moves(c, s) /\ call'[c].pc = "returned"
      /\ call'[c].first = call[c].first /\ call'[c].paths = call[c].paths
      /\ call[c].first # None => call'[c].result = answer
  BY <1>1, ReturnMoves DEF IInv
<1>3. TypeOK' /\ OnlyTurn(c, s)
  BY <1>1, <1>2, TurnHalves DEF IInv
<1>4. InOrder(c)' /\ Keeps(c)' /\ Grounded(c)'
  BY <1>2 DEF InOrder, Active, Keeps, Grounded
<1> QED BY <1>1, <1>3, <1>4, TurnKeepsIInv

LEMMA GoOnKeepsIInv ==
  ASSUME IInv, NEW c \in Calls, Active(c), Granted(c), NEW next \in Call, GoOn(c, next),
         next.budget = call[c].budget, next.session = call[c].session,
         next.pc \in {"repair", "serialize", "remind"},
         InOrder(c)', Grounded(c)',
         LET s == call[c].session IN
           /\ Learns(s)
           /\ transport = "ui" /\ Key(s) \in DOMAIN stats' \ astray' /\ stats'[Key(s)].tools # None
              => Knows(chat'[s], stats'[Key(s)].tools, stats'[Key(s)].context)
  PROVE  IInv'
<1> DEFINE s == call[c].session
<1>1. s \in Sessions /\ lane[s] = c
  BY Worker DEF IInv
<1>2. Moves(c, s) /\ call'[c] = [next EXCEPT !.attempts = call[c].attempts + 1]
  BY <1>1, GoOnMoves DEF IInv
<1>3. TypeOK' /\ OnlyTurn(c, s)
  BY <1>1, <1>2, TurnHalves DEF IInv
<1>4. Keeps(c)'
  BY <1>2 DEF Keeps, Call
<1> QED BY <1>1, <1>3, <1>4, TurnKeepsIInv

-----------------------------------------------------------------------------
(* The actions. *)

LEMMA RepairingFields ==
  ASSUME call \in [Calls -> Call], NEW c \in Calls, call[c].session \in Sessions,
         NEW pc \in {"repair", "serialize"}, NEW t \in Texts \union {None},
         NEW errors \in SUBSET Paths
  PROVE  LET next == Repairing(c, pc, t, errors) IN
         /\ next \in Call /\ next.pc = pc /\ next.budget = call[c].budget
         /\ next.session = call[c].session /\ next.first = t
<1>1. call[c].budget \in 0..3
  BY DEF Call
<1> QED BY <1>1, NewCallType DEF Repairing, Call

LEMMA ErrorsType ==
  ASSUME NEW t \in Texts, NEW errors \in Errors(t)
  PROVE  errors \in SUBSET Paths
<1>1. \A f \in Fields : Whole(f) \in Paths
  BY DEF Paths
<1>2. \A x \in Args : Arg(x) \in Paths
  BY DEF Paths
<1>3. {"action", "tool", "input", "content", "rest"} \subseteq Fields
  BY DEF Fields
<1>4. CASE errors \in Misshapes(t)
  BY <1>1, <1>3, <1>4 DEF Misshapes
<1>5. CASE errors \in Misuses(t)
  <2>1. CASE errors \in MisusesTool(t)
    <3>1. CASE errors \in {{Arg(x)} : x \in Refused(t.input)}
      BY <1>2, <3>1 DEF Refused
    <3>2. CASE errors = {Whole(f) : f \in {g \in {"tool", "input"} : t[g] = Null}}
      BY <1>1, <1>3, <3>2
    <3>3. CASE errors \in SUBSET {Whole("tool"), Whole("input"), Whole("content")}
      BY <1>1, <1>3, <3>3
    <3> QED BY <2>1, <3>1, <3>2, <3>3 DEF MisusesTool
  <2> QED BY <1>1, <1>3, <1>5, <2>1 DEF Misuses
<1> QED BY <1>4, <1>5 DEF Errors

\* What assertAgentRepairContinuity lets pass.
LEMMA ContinuousKeeps ==
  ASSUME NEW first, NEW paths \in SUBSET Paths, NEW t, Continuous(first, paths, t)
  PROVE  KeepsDecision(first, paths, t)
<1>1. ASSUME NEW p \in {Whole("action"), Whole("tool")}, p \in first.anchors
      PROVE  At(t, p) = At(first, p)
  BY <1>1 DEF Continuous
<1>2. ASSUME first.form = "exact", first.action = "use_tool",
             NEW x \in Args, Arg(x) \notin paths, Arg(x) \in first.anchors
      PROVE  At(t, Arg(x)) = At(first, Arg(x))
  <2>1. CASE Whole("input") \in paths
    BY <1>2, <2>1, ArgsAssumption DEF Continuous, At, Arg
  <2>2. CASE Whole("input") \notin paths
    <3>1. ASSUME NEW q \in paths, Near(Arg(x), q) PROVE FALSE
      <4>1. PICK y \in Args : q = Arg(y)
        BY <2>2, <3>1 DEF Near, Paths, Arg, Whole
      <4> QED BY <1>2, <3>1, <4>1, ArgsAssumption DEF Near, Arg
    <3>2. Arg(x) \notin {Whole("action"), Whole("tool")}
      BY DEF Arg, Whole
    <3> QED BY <1>2, <3>1, <3>2 DEF Continuous
  <2> QED BY <2>1, <2>2
<1> QED BY <1>1, <1>2 DEF KeepsDecision

\* A call that goes on to a repair is in order, and takes nothing for granted.
LEMMA RepairGoesOn ==
  ASSUME IInv, NEW c \in Calls, Active(c), Granted(c), NEW pc \in {"repair", "serialize"},
         NEW t \in Texts \union {None}, NEW errors \in SUBSET Paths,
         GoOn(c, Repairing(c, pc, t, errors)),
         LET s == call[c].session IN
           /\ Learns(s)
           /\ transport = "ui" /\ Key(s) \in DOMAIN stats' \ astray' /\ stats'[Key(s)].tools # None
              => Knows(chat'[s], stats'[Key(s)].tools, stats'[Key(s)].context)
  PROVE  IInv'
<1> DEFINE s == call[c].session
           next == Repairing(c, pc, t, errors)
<1>1. s \in Sessions /\ lane[s] = c
  BY Worker DEF IInv
<1>2. next \in Call /\ next.pc = pc /\ next.budget = call[c].budget /\ next.session = s
  <2>1. call \in [Calls -> Call]
    BY DEF IInv, TypeOK
  <2> QED BY <1>1, <2>1, RepairingFields
<1>3. call'[c] = [next EXCEPT !.attempts = call[c].attempts + 1] /\ lane' = lane
  BY <1>1, <1>2, GoOnMoves DEF IInv
<1>4. call'[c].pc = pc /\ call'[c].session = s
  BY <1>2, <1>3 DEF Call
<1>5. InOrder(c)' /\ Grounded(c)'
  BY <1>1, <1>3, <1>4 DEF InOrder, Active, Grounded
<1> HIDE DEF next
<1> QED BY <1>2, <1>5, GoOnKeepsIInv DEF next

LEMMA InitialStep ==
  ASSUME IInv, NEW c \in Calls, NEW answer \in Texts, Initial(c, answer)
  PROVE  IInv'
<1> DEFINE s == call[c].session
<1>1. Active(c) /\ call[c].pc = "initial"
  BY DEF Initial, Active
<1>2. s \in Sessions /\ lane[s] = c /\ call[c].tools \in Schemas /\ call[c].first = None
  BY <1>1, Worker DEF IInv, CallsAreInOrder, InOrder
<1>3. Learns(s) /\ chat'[s] = Told(c)
      /\ stats'[Key(s)] = [tools |-> call[c].tools, context |-> call[c].context]
  BY <1>2, CommitLearns DEF IInv, Initial
<1>4. /\ astray' = astray
      /\ transport = "ui" /\ Key(s) \notin astray
         => Knows(chat'[s], stats'[Key(s)].tools, stats'[Key(s)].context)
  BY <1>1, <1>3 DEF IInv, PromptIsGrounded, Strayed, Initial
<1>5. CASE Return(c, answer)
  BY <1>1, <1>2, <1>3, <1>4, <1>5, ReturnKeepsIInv
<1>6. CASE GoOn(c, [call[c] EXCEPT !.pc = "remind"])
  <2> DEFINE next == [call[c] EXCEPT !.pc = "remind"]
  <2>1. GoOn(c, next) /\ Granted(c)
    BY <1>6 DEF Initial
  <2>2. /\ next \in Call /\ next.pc = "remind" /\ next.budget = call[c].budget
        /\ next.session = s /\ next.tools = call[c].tools /\ next.context = call[c].context
        /\ next.schema = call[c].schema /\ next.tells = call[c].tells
        /\ next.drops = call[c].drops /\ next.first = call[c].first
    BY DEF IInv, TypeOK, Call
  <2> HIDE DEF next
  <2>3. /\ call'[c] = [next EXCEPT !.attempts = call[c].attempts + 1]
        /\ lane' = lane /\ generation' = generation
    BY <1>2, <2>1, <2>2, GoOnMoves DEF IInv
  <2>4. /\ call'[c].pc = "remind" /\ call'[c].session = s
        /\ call'[c].tools = call[c].tools /\ call'[c].context = call[c].context
        /\ call'[c].schema = call[c].schema /\ call'[c].tells = call[c].tells
        /\ call'[c].drops = call[c].drops /\ call'[c].first = None
    BY <1>2, <2>2, <2>3 DEF Call
  <2>5. InOrder(c)'
    BY <1>2, <1>3, <2>3, <2>4 DEF InOrder, Active, Key
  <2>6. Grounded(c)'
    <3>1. Grounded(c)
      BY <1>1 DEF IInv, PromptIsGrounded, Grounded
    <3> QED BY <1>1, <1>2, <1>4, <2>3, <2>4, <3>1, ToldTwice DEF IInv, Initial
  <2> QED BY <1>1, <1>3, <1>4, <2>1, <2>2, <2>5, <2>6, GoOnKeepsIInv
<1>7. ASSUME NEW errors \in Errors(answer), GoOn(c, Repairing(c, "repair", answer, errors))
      PROVE  IInv'
  <2>1. errors \in SUBSET Paths /\ Granted(c)
    BY ErrorsType DEF Initial
  <2> QED BY <1>1, <1>3, <1>4, <1>7, <2>1, RepairGoesOn
<1>8. CASE Throw(c)
  BY <1>1, <1>3, <1>8, ThrowKeepsIInv
<1> QED BY <1>5, <1>6, <1>7, <1>8 DEF Initial

\* Where a repair leaves what is known: nothing is said, and nothing acknowledged.
LEMMA RepairLearns ==
  ASSUME IInv, NEW c \in Calls, Active(c), TellNothing(c),
         stats' \in Ensured(Key(call[c].session)), transport' = transport, astray' = astray
  PROVE  LET s == call[c].session IN
           /\ Learns(s)
           /\ transport = "ui" /\ Key(s) \in DOMAIN stats' \ astray' /\ stats'[Key(s)].tools # None
              => Knows(chat'[s], stats'[Key(s)].tools, stats'[Key(s)].context)
<1> DEFINE s == call[c].session
<1>1. s \in Sessions
  BY Worker DEF IInv
<1>2. /\ chat' \in [Sessions -> Knowledge] /\ \A t \in Sessions \ {s} : chat'[t] = chat[t]
      /\ transport = "ui" => chat' = chat
  BY NothingTold DEF IInv
<1>3. /\ Learns(s)
      /\ stats'[Key(s)] = IF Key(s) \in DOMAIN stats THEN stats[Key(s)] ELSE Nothing
  BY <1>1, <1>2, EnsureLearns DEF IInv
<1>4. ASSUME transport = "ui", Key(s) \notin astray', stats'[Key(s)].tools # None
      PROVE  Knows(chat'[s], stats'[Key(s)].tools, stats'[Key(s)].context)
  <2>1. Key(s) \in DOMAIN stats \ astray /\ stats'[Key(s)] = stats[Key(s)]
    BY <1>3, <1>4 DEF Nothing
  <2> QED BY <1>1, <1>2, <1>4, <2>1 DEF IInv, AcknowledgedIsKnown
<1> QED BY <1>3, <1>4

LEMMA RepairStep ==
  ASSUME IInv, NEW c \in Calls, NEW answer \in Texts, Repair(c, answer)
  PROVE  IInv'
<1> DEFINE s == call[c].session
<1>1. Active(c) /\ Granted(c)
  BY DEF Repair, Active
<1>2. /\ Learns(s)
      /\ transport = "ui" /\ Key(s) \in DOMAIN stats' \ astray' /\ stats'[Key(s)].tools # None
         => Knows(chat'[s], stats'[Key(s)].tools, stats'[Key(s)].context)
  BY <1>1, RepairLearns DEF Repair
<1>3. CASE Faithful(c, answer) /\ Return(c, answer)
  <2>1. call[c].paths \in SUBSET Paths
    BY DEF IInv, TypeOK, Call
  <2>2. KeepsDecision(call[c].first, call[c].paths, answer)
    BY <1>3, <2>1, ContinuousKeeps DEF Faithful
  <2> QED BY <1>1, <1>2, <1>3, <2>2, ReturnKeepsIInv
<1>4. call[c].first \in Texts \union {None} /\ call[c].paths \in SUBSET Paths
  BY DEF IInv, TypeOK, Call
<1>5. ASSUME NEW more \in SUBSET Paths,
             GoOn(c, Repairing(c, "serialize", call[c].first, call[c].paths \union more))
      PROVE  IInv'
  <2>1. call[c].paths \union more \in SUBSET Paths
    BY <1>4
  <2> QED BY <1>1, <1>2, <1>4, <1>5, <2>1, RepairGoesOn
<1>6. CASE GoOn(c, Repairing(c, "serialize", call[c].first, call[c].paths))
  BY <1>1, <1>2, <1>4, <1>6, RepairGoesOn
<1>7. CASE Throw(c)
  BY <1>1, <1>2, <1>7, ThrowKeepsIInv
<1> QED BY <1>3, <1>5, <1>6, <1>7, ErrorsType DEF Repair

LEMMA SerializeStep ==
  ASSUME IInv, NEW c \in Calls, NEW answer \in Texts, Serialize(c, answer)
  PROVE  IInv'
<1> DEFINE s == call[c].session
<1>1. Active(c)
  BY DEF Serialize, Active
<1>2. /\ Learns(s)
      /\ transport = "ui" /\ Key(s) \in DOMAIN stats' \ astray' /\ stats'[Key(s)].tools # None
         => Knows(chat'[s], stats'[Key(s)].tools, stats'[Key(s)].context)
  BY <1>1, RepairLearns DEF Serialize
<1>3. CASE Faithful(c, answer) /\ Return(c, answer)
  <2>1. call[c].paths \in SUBSET Paths
    BY DEF IInv, TypeOK, Call
  <2>2. KeepsDecision(call[c].first, call[c].paths, answer)
    BY <1>3, <2>1, ContinuousKeeps DEF Faithful
  <2> QED BY <1>1, <1>2, <1>3, <2>2, ReturnKeepsIInv
<1>4. CASE Throw(c)
  BY <1>1, <1>2, <1>4, ThrowKeepsIInv
<1> QED BY <1>3, <1>4 DEF Serialize

\* The reminder says again what has been acknowledged.
LEMMA RemindStep ==
  ASSUME IInv, NEW c \in Calls, NEW answer \in Texts, Remind(c, answer)
  PROVE  IInv'
<1> DEFINE s == call[c].session
<1>1. Active(c) /\ call[c].pc = "remind"
  BY DEF Remind, Active
<1>2. /\ s \in Sessions /\ call[c].tools \in Schemas /\ call[c].first = None
      /\ Key(s) \in DOMAIN stats /\ stats[Key(s)].tools # None =>
           stats[Key(s)] = [tools |-> call[c].tools, context |-> call[c].context]
  BY <1>1 DEF IInv, CallsAreInOrder, InOrder
<1>3. /\ chat' \in [Sessions -> Knowledge] /\ chat'[s] = Told(c)
      /\ \A t \in Sessions \ {s} : chat'[t] = chat[t]
  BY <1>2, ToldType DEF IInv, Remind, Tell, TypeOK
<1>4. /\ Learns(s)
      /\ stats'[Key(s)] = IF Key(s) \in DOMAIN stats THEN stats[Key(s)] ELSE Nothing
  BY <1>2, <1>3, EnsureLearns DEF IInv, Remind
<1>5. ASSUME transport = "ui", Key(s) \notin astray', stats'[Key(s)].tools # None
      PROVE  Knows(chat'[s], stats'[Key(s)].tools, stats'[Key(s)].context)
  <2>1. stats'[Key(s)] = [tools |-> call[c].tools, context |-> call[c].context]
    BY <1>2, <1>4, <1>5 DEF Nothing
  <2>2. ~Strayed(s)
    BY <1>5 DEF Strayed, Remind
  <2> QED BY <1>1, <1>3, <2>1, <2>2 DEF IInv, PromptIsGrounded
<1>6. CASE Return(c, answer)
  BY <1>1, <1>2, <1>4, <1>5, <1>6, ReturnKeepsIInv
<1>7. CASE Throw(c)
  BY <1>1, <1>4, <1>7, ThrowKeepsIInv
<1> QED BY <1>6, <1>7 DEF Remind

LEMMA FailsStep ==
  ASSUME IInv, NEW c \in Calls, Fails(c)
  PROVE  IInv'
<1> DEFINE s == call[c].session
<1>1. Active(c) /\ Throw(c) /\ transport' = transport /\ stats' = stats /\ astray' = astray
  BY DEF Fails
<1>2. s \in Sessions
  BY <1>1, Worker DEF IInv
<1>3. chat' \in [Sessions -> Knowledge] /\ \A t \in Sessions \ {s} : chat'[t] = chat[t]
  <2>1. CASE chat' = chat
    BY <2>1 DEF IInv, TypeOK
  <2>2. CASE call[c].pc \in {"initial", "remind"} /\ Tell(c)
    <3>1. call[c].tools \in Schemas
      BY <2>2 DEF IInv, CallsAreInOrder, InOrder
    <3> QED BY <1>2, <2>2, <3>1, ToldType DEF IInv, Tell, TypeOK
  <2>3. CASE TellNothing(c)
    BY <2>3, NothingTold DEF IInv
  <2> QED BY <2>1, <2>2, <2>3 DEF Fails
<1>4. Learns(s)
  BY <1>1, <1>3 DEF Learns, IInv, TypeOK
<1> QED BY <1>1, <1>4, ThrowKeepsIInv

Prepared(s, t, x, b, schema, tells, drops) ==
  [NewCall EXCEPT !.pc = "initial", !.session = s, !.tools = t, !.context = x, !.budget = b,
                  !.schema = schema, !.tells = tells, !.drops = drops]

LEMMA PreparedFields ==
  ASSUME NEW s \in Sessions, NEW t \in Schemas, NEW x \in Contexts, NEW b \in 0..3,
         NEW schema \in BOOLEAN, NEW tells \in SUBSET Segments, NEW drops \in SUBSET Segments
  PROVE  LET r == Prepared(s, t, x, b, schema, tells, drops) IN
         /\ r \in Call /\ r.pc = "initial" /\ r.session = s /\ r.tools = t
         /\ r.attempts = 0 /\ r.budget = b /\ r.first = None
<1> DEFINE q == [NewCall EXCEPT !.pc = "initial", !.session = s, !.tools = t,
                                !.context = x, !.budget = b]
<1>1. q \in Call
  BY NewCallType DEF Call
<1>2. /\ q.pc = "initial" /\ q.session = s /\ q.tools = t
      /\ q.attempts = 0 /\ q.budget = b /\ q.first = None
  BY DEF NewCall
<1> HIDE DEF q
<1>3. LET r == [q EXCEPT !.schema = schema, !.tells = tells, !.drops = drops] IN
      /\ r \in Call /\ r.pc = q.pc /\ r.session = q.session /\ r.tools = q.tools
      /\ r.attempts = q.attempts /\ r.budget = q.budget /\ r.first = q.first
  BY <1>1 DEF Call
<1> QED BY <1>2, <1>3 DEF q, Prepared

LEMMA PrepareStep ==
  ASSUME IInv, NEW c \in Calls, NEW ask \in Asks[c], Prepare(c, ask)
  PROVE  IInv'
<1> DEFINE s == ask.session
<1>1. ask \in Ask /\ s \in Sessions
  BY AsksAssumption DEF Ask
<1>2. /\ lane[s] = None /\ lane' = [lane EXCEPT ![s] = c] /\ stats' \in Ensured(Key(s))
      /\ UNCHANGED <<transport, generation, lastGeneration, chat, astray>>
  BY DEF Prepare
<1>3. /\ Learns(s)
      /\ stats'[Key(s)] = IF Key(s) \in DOMAIN stats THEN stats[Key(s)] ELSE Nothing
  BY <1>1, <1>2, EnsureLearns DEF IInv, TypeOK
<1> DEFINE known == stats'[Key(s)]
<1>4. known \in Knowledge
  BY <1>1, <1>3, NothingType DEF IInv, TypeOK
<1>5. PICK schema \in BOOLEAN, tells \in SUBSET Segments, drops \in SUBSET Segments :
        call' = [call EXCEPT ![c] =
          Prepared(s, ask.tools, ask.context, ask.budget, schema, tells, drops)]
  BY DEF Prepare, Changed, Prepared
<1> DEFINE r == Prepared(s, ask.tools, ask.context, ask.budget, schema, tells, drops)
<1>6. /\ r \in Call /\ r.pc = "initial" /\ r.session = s /\ r.tools \in Schemas
      /\ r.attempts <= r.budget /\ r.first = None
  <2>1. ask.tools \in Schemas /\ ask.context \in Contexts
        /\ ask.budget \in 0..3 /\ 0 <= ask.budget
    BY <1>1 DEF Ask
  <2>2. /\ r \in Call /\ r.pc = "initial" /\ r.session = s /\ r.tools = ask.tools
        /\ r.attempts = 0 /\ r.budget = ask.budget /\ r.first = None
    BY <1>1, <2>1, PreparedFields
  <2> QED BY <2>1, <2>2
<1>7. call'[c] = r /\ call' \in [Calls -> Call] /\ \A d \in Calls \ {c} : call'[d] = call[d]
  BY <1>5, <1>6 DEF IInv, TypeOK
<1> HIDE DEF r
<1>8. Moves(c, s)
  BY <1>1, <1>2, <1>6, <1>7 DEF IInv, TypeOK, Moves
<1>9. TypeOK' /\ OnlyTurn(c, s)
  BY <1>1, <1>3, <1>8, TurnHalves DEF IInv
<1>10. InOrder(c)' /\ Keeps(c)'
  BY <1>1, <1>2, <1>6, <1>7 DEF InOrder, Active, Keeps, IInv, TypeOK
<1>11. Grounded(c)'
  BY <1>9, PreparedIsGrounded DEF IInv
<1>12. ASSUME transport = "ui", Key(s) \notin astray', known.tools # None
       PROVE  Knows(chat'[s], known.tools, known.context)
  <2>1. Key(s) \in DOMAIN stats \ astray /\ known = stats[Key(s)]
    BY <1>2, <1>3, <1>12 DEF Nothing
  <2> QED BY <1>1, <1>2, <1>12, <2>1 DEF IInv, AcknowledgedIsKnown
<1> QED BY <1>1, <1>2, <1>9, <1>10, <1>11, <1>12, TurnKeepsIInv

\* A turn of another kind leaves the chat as it was, gives its session a new key, or
\* lets it stray.
LEMMA OtherTurn ==
  ASSUME IInv, NEW c \in Calls, NEW s \in Sessions, NEW pc \in {"returned", "failed"},
         call[c].pc = "new", lane[s] = None, Done(c, pc),
         UNCHANGED <<transport, stats, lane>>,
         \/ UNCHANGED <<chat, generation, lastGeneration, astray>>
         \/ /\ chat' = chat \/ chat' = [chat EXCEPT ![s] = Nothing]
            /\ NewKey(s)
            /\ UNCHANGED astray
         \/ /\ chat' = [chat EXCEPT ![s] = Nothing]
            /\ astray' = astray \union {Key(s)}
            /\ UNCHANGED <<generation, lastGeneration>>
  PROVE  IInv'
<1>1. Learns(s)
  BY NothingType DEF IInv, TypeOK, Learns, Key
<1>2. /\ call'[c] = [call[c] EXCEPT !.pc = pc] /\ call' \in [Calls -> Call]
      /\ \A d \in Calls \ {c} : call'[d] = call[d]
  <2>1. [call[c] EXCEPT !.pc = pc] \in Call
    BY DEF IInv, TypeOK, Call
  <2> QED BY <2>1 DEF Done, IInv, TypeOK
<1>3. call[c] \in Call /\ call[c].attempts <= call[c].budget /\ call[c].first = None
  BY DEF IInv, TypeOK, CallsAreInOrder, InOrder
<1>4. /\ call'[c].pc = pc /\ call'[c].first = None
      /\ call'[c].attempts <= call'[c].budget
  BY <1>2, <1>3 DEF Call
<1>5. Moves(c, s)
  BY <1>2, <1>4 DEF IInv, TypeOK, NewKey, Moves
<1>6. TypeOK' /\ OnlyTurn(c, s)
  BY <1>1, <1>5, TurnHalves DEF IInv
<1>7. InOrder(c)' /\ Keeps(c)' /\ Grounded(c)'
  BY <1>4 DEF InOrder, Active, Keeps, Grounded
<1>8. ASSUME transport = "ui", generation'[s] = generation[s], Key(s) \in DOMAIN stats' \ astray',
             stats'[Key(s)].tools # None
      PROVE  Knows(chat'[s], stats'[Key(s)].tools, stats'[Key(s)].context)
  <2>1. ~NewKey(s) /\ astray' # astray \union {Key(s)}
    BY <1>8 DEF NewKey, IInv, KeysAreFresh, TypeOK
  <2> QED BY <1>8, <2>1 DEF IInv, AcknowledgedIsKnown
<1> QED BY <1>6, <1>7, <1>8, TurnKeepsIInv

LEMMA TurnSteps ==
  ASSUME IInv, NEW c \in Calls, NEW ask \in Asks[c],
         Plain(c, ask) \/ Reset(c, ask) \/ ResetFails(c, ask) \/ Recreate(c, ask)
  PROVE  IInv'
<1> DEFINE s == ask.session
<1>1. s \in Sessions
  BY AsksAssumption DEF Ask
<1>2. CASE Plain(c, ask)
  BY <1>1, <1>2, OtherTurn DEF Plain, Turn
<1>3. CASE Reset(c, ask)
  BY <1>1, <1>3, OtherTurn DEF Reset, Turn
<1>4. CASE ResetFails(c, ask)
  <2>1. \/ UNCHANGED <<chat, astray>>
        \/ /\ chat' = [chat EXCEPT ![s] = Nothing]
           /\ astray' = astray \union {Key(s)}
    BY <1>4 DEF ResetFails
  <2> QED BY <1>1, <1>4, <2>1, OtherTurn DEF ResetFails, Turn
<1>5. CASE Recreate(c, ask)
  BY <1>1, <1>5, OtherTurn DEF Recreate, Turn
<1> QED BY <1>2, <1>3, <1>4, <1>5

LEMMA Initially == Init => IInv
<1> SUFFICES ASSUME Init PROVE IInv
  OBVIOUS
<1>1. Cardinality(Sessions) \in Nat /\ Injection(Sessions, 1..Cardinality(Sessions)) # {}
  <2>1. Cardinality(Sessions) \in Nat /\ ExistsBijection(1..Cardinality(Sessions), Sessions)
    BY SessionsAssumption, FS_CardinalityType
  <2>2. ExistsBijection(Sessions, 1..Cardinality(Sessions))
    BY <2>1, Fun_ExistsBijSymmetric
  <2> QED BY <2>1, <2>2 DEF ExistsBijection, Bijection
<1>2. generation \in Injection(Sessions, 1..Cardinality(Sessions))
  BY <1>1 DEF Init
<1>3. /\ generation \in [Sessions -> 1..Cardinality(Sessions)]
      /\ \A s, t \in Sessions : s # t => generation[s] # generation[t]
  BY <1>2 DEF Injection, IsInjective
<1>4. DOMAIN stats = {} /\ stats \in [DOMAIN stats -> Knowledge]
  BY DEF Init
<1>5. TypeOK
  <2>1. \A c \in Calls : call[c] \in Call /\ call[c].attempts <= call[c].budget
    BY NewCallType DEF Init
  <2>2. call \in [Calls -> Call]
    BY NewCallType DEF Init
  <2>3. generation \in [Sessions -> Nat]
    BY <1>1, <1>3
  <2>4. chat \in [Sessions -> Knowledge]
    BY NothingType DEF Init
  <2>5. transport \in {"ui", "network"} /\ lastGeneration \in Nat
        /\ lane \in [Sessions -> Calls \union {None}]
    BY <1>1 DEF Init
  <2>6. astray \subseteq Nat
    BY DEF Init
  <2> QED BY <1>4, <2>6, <2>1, <2>2, <2>3, <2>4, <2>5 DEF TypeOK
<1>6. KeysAreFresh
  <2>1. lastGeneration = Cardinality(Sessions)
    BY DEF Init
  <2>2. \A s \in Sessions : generation[s] <= lastGeneration
    BY <1>1, <1>3, <2>1
  <2> QED BY <1>3, <1>4, <2>2 DEF KeysAreFresh
<1>7. \A c \in Calls : call[c].pc = "new" /\ call[c].first = None
  BY DEF Init, NewCall
<1>8. CallsAreInOrder /\ RepairKeepsDecision /\ PromptIsGrounded
  BY <1>7 DEF CallsAreInOrder, InOrder, Active, RepairKeepsDecision, PromptIsGrounded
<1>9. AcknowledgedIsKnown
  BY <1>4 DEF AcknowledgedIsKnown
<1> QED BY <1>5, <1>6, <1>8, <1>9 DEF IInv

LEMMA Inductive == IInv /\ [Next]_vars => IInv'
<1> SUFFICES ASSUME IInv, [Next]_vars PROVE IInv'
  OBVIOUS
<1>1. CASE Next
  <2>1. PICK c \in Calls :
          \/ \E ask \in Asks[c] :
               \/ Prepare(c, ask) \/ Plain(c, ask) \/ Reset(c, ask)
               \/ ResetFails(c, ask) \/ Recreate(c, ask)
          \/ Executes(c)
    BY <1>1 DEF Next
  <2>2. ASSUME NEW ask \in Asks[c], Prepare(c, ask) PROVE IInv'
    BY <2>2, PrepareStep
  <2>3. ASSUME NEW ask \in Asks[c],
               Plain(c, ask) \/ Reset(c, ask) \/ ResetFails(c, ask) \/ Recreate(c, ask)
        PROVE  IInv'
    BY <2>3, TurnSteps
  <2>4. ASSUME Executes(c) PROVE IInv'
    BY <2>4, InitialStep, RepairStep, SerializeStep, RemindStep, FailsStep DEF Executes
  <2> QED BY <2>1, <2>2, <2>3, <2>4
<1>2. CASE UNCHANGED vars
  <2> USE <1>2 DEF vars
  <2>1. TypeOK' /\ KeysAreFresh' /\ RepairKeepsDecision'
    BY DEF IInv, TypeOK, KeysAreFresh, RepairKeepsDecision
  <2>2. CallsAreInOrder'
    BY DEF IInv, CallsAreInOrder, InOrder, Active, Key
  <2>3. AcknowledgedIsKnown'
    BY DEF IInv, AcknowledgedIsKnown, Key, Knows
  <2>4. PromptIsGrounded'
    BY DEF IInv, PromptIsGrounded, Told, Knows, Strayed, Key
  <2> QED BY <2>1, <2>2, <2>3, <2>4 DEF IInv
<1> QED BY <1>1, <1>2

-----------------------------------------------------------------------------
(* The theorems. *)

LEMMA Invariance == Spec => []IInv
<1>1. Init => IInv
  BY Initially
<1>2. IInv /\ [Next]_vars => IInv'
  BY Inductive
<1> QED BY <1>1, <1>2, PTL DEF Spec

\* Every variable keeps to its type and no call exceeds its budget of attempts
\* (ProviderRequestState.beforeSubmit).
THEOREM Typing == Spec => []TypeOK
<1>1. IInv => TypeOK
  BY DEF IInv
<1> QED BY <1>1, Invariance, PTL

\* What commitAgentContractContext has acknowledged under a session's present key is
\* what its conversation holds, unless a reset has failed under that key after leaving it.
THEOREM Acknowledgement == Spec => []AcknowledgedIsKnown
<1>1. IInv => AcknowledgedIsKnown
  BY DEF IInv
<1> QED BY <1>1, Invariance, PTL

\* No delta that prepareAgentContractRequest makes leaves out what its conversation
\* does not hold, unless a reset has failed under the session's key after leaving it.
THEOREM Grounding == Spec => []PromptIsGrounded
<1>1. IInv => PromptIsGrounded
  BY DEF IInv
<1> QED BY <1>1, Invariance, PTL

\* No repair of executeAgentContract changes what the first answer decided.
THEOREM Continuity == Spec => []RepairKeepsDecision
<1>1. IInv => RepairKeepsDecision
  BY DEF IInv
<1> QED BY <1>1, Invariance, PTL
=============================================================================
