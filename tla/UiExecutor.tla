----------------------------- MODULE UiExecutor -----------------------------
(***************************************************************************)
(* A chat completion through a web chat: UiChatExecutor.execute and reset  *)
(* (runtime/ui-executor.ts), with what it makes of histories               *)
(* (runtime/ui-history.ts), tasks and tool calls (ToolProtocol).           *)
(*                                                                         *)
(* The chat remembers, the API does not: of every request, only what is    *)
(* new is typed into the page, tool results are matched with the calls     *)
(* that are pending, and the work a task must show is remembered from      *)
(* request to request.  One request runs at a time (the session's lane),   *)
(* and each prompt of it is a turn of ChatPage.                            *)
(*                                                                         *)
(* A user's message is identified by what it asks for, so asking for the   *)
(* same again is repeating oneself; "go" is a request to continue.  The    *)
(* host's report of a result is a user message whose text says so.  A      *)
(* request of the agent contract has no tools: its prompt is the last turn *)
(* with data before it, and results have become turns of the user.         *)
(***************************************************************************)
EXTENDS ToolProtocol, ChatPage, Functions

CONSTANTS Asks,         \* what the user may say: a subset of Tasks and {"go"}
          Answers,      \* texts of the chat's answers
          Requests,     \* kinds of requests of the client
          Styles,       \* it sends its history, only what is new, or an agent contract
          MaxRequests, MaxResets,   \* and how many of them there are
          MaxTracked,   \* MAX_TRACKED_TOOL_CALLS
          MaxHistory    \* messages in uiHistoryChars

ASSUME AsksAssumption == Asks \subseteq Tasks \union {"go"}
ASSUME RequestsAssumption ==
  /\ Requests \subseteq {"ask", "results", "stray", "host", "again", "repair", "rewind"}
  /\ Styles \subseteq {"history", "bare", "contract"}
  /\ MaxRequests \in Nat /\ MaxResets \in Nat /\ MaxTracked \in Nat \ {0}
  /\ MaxHistory \in Nat
\* What the parser, which goes through a text piece by piece, finds in each.
ASSUME AnswersAssumption ==
  \A text \in Answers : ParseUiToolResponse(text).calls \in Seq(Calls)

VARIABLES
  executor,   \* UiChatExecutor
  call,       \* execute(), if it is running
  client,     \* the client and its transcript
  chat,       \* what the conversation in the browser has been told, and what of it an
              \* editor took out of a prompt
  made        \* the tool calls ever returned: their function and task

logicVars == <<executor, call, client, chat, made>>
vars == <<pageVars, logicVars>>

-----------------------------------------------------------------------------
(* Messages *)

\* What a client sends back for an answer is its raw text, or what became of it when it
\* has calls or is an action of the contract.
Message(role, text, n) == [role |-> role, text |-> text, n |-> n]
User(text) == Message("user", text, 0)
Result(id) == Message("tool", "result", id)
Host(n) == Message("user", "host", n)      \* isSyntheticToolResult
System == Message("system", "contract", 0)
Control == Message("user", "control", 0)   \* a repair of the contract
Raw(n) == Message("assistant", "raw", n)
Remade(n) == Message("assistant", "remade", n)

\* prependDynamicUserTurn, and the turn without it
WithTurnData(messages) ==
  <<System>> \o [messages EXCEPT ![Len(messages)] = Message(@.role, @.text, 1)]
WithoutTurnData(m) == IF m.role = "user" /\ m.text # "host" THEN User(m.text) ELSE m

ByRole(messages, role) == SelectSeq(messages, LAMBDA m : m.role = role)
IsSynthetic(m) == m.role = "user" /\ m.text = "host"
UserTurns(messages) == SelectSeq(messages, LAMBDA m : m.role = "user" /\ ~IsSynthetic(m))

HistoryIsPrefix(history, incoming) == IsPrefix(history, incoming)

UserTurnsAreCompatible(history, incoming) ==
  LET previous == ByRole(history, "user")
      next == ByRole(incoming, "user")
  IN  previous = <<>> \/ next = <<>> \/ IsPrefix(previous, next)

LastAssistant(messages) == SelectLastInSeq(messages, LAMBDA m : m.role = "assistant")

\* The part of a request that is new to a chat with this history
PendingMessages(history, incoming) ==
  LET answered == LastAssistant(incoming)
  IN  IF history = <<>> THEN incoming
      ELSE IF HistoryIsPrefix(history, incoming)
      THEN SubSeq(incoming, Len(history) + 1, Len(incoming))
      ELSE IF answered \in 1..Len(incoming) - 1
      THEN SubSeq(incoming, answered + 1, Len(incoming))
      ELSE <<Last(incoming)>>

\* The last user message, or the tool results at the end
SelectMinimalUiPrompts(messages) ==
  IF messages = <<>> \/ Last(messages).role \notin {"user", "tool"} THEN <<>>
  ELSE IF Last(messages).role = "user" THEN <<Last(messages)>>
  ELSE SubSeq(messages, 1 + SelectLastInSeq(messages, LAMBDA m : m.role # "tool"),
              Len(messages))

HistoryHydrationSlip(logical, selected, browserHasHistory) == <<>>   \* a slip

Spoken(selected) == [i \in DOMAIN selected |-> WithoutTurnData(selected[i])]

\* The history a chat that knows nothing is told along with the prompts
HistoryHydration(logical, selected, browserHasHistory) ==
  IF browserHasHistory THEN <<>>
  ELSE IF IsSuffix(Spoken(selected), logical)
  THEN SubSeq(logical, 1, Len(logical) - Len(selected))
  ELSE logical

\* toolEnforcementTaskKey: a request to continue is part of the task before it
TaskKey(messages) ==
  LET turns == UserTurns(messages)
      Names(i) == turns[i].text # "go" \/ i = 1
      names == {i \in DOMAIN turns : Names(i)}
  IN  IF turns = <<>> THEN <<0, "">>
      ELSE <<Cardinality(names), turns[CHOOSE i \in names : \A j \in names : j <= i].text>>

StoreHistory(history, logical, answer) ==
  LET next == IF ~HistoryIsPrefix(history, logical) /\ Len(logical) = 1 /\ history # <<>>
              THEN history \o logical \o <<answer>>
              ELSE Append(logical, answer)
  IN  IF Len(next) <= MaxHistory THEN next ELSE logical

-----------------------------------------------------------------------------
(* The executor's memory *)

NoEvidence == [explored |-> FALSE, mutated |-> FALSE, used |-> FALSE]

\* history         the messages of the last request answered, and the answer
\* pending         toolNamesByCallId: ids, in the order of the calls
\* exploring, mutating   explorationCallIds and mutationCallIds
\* task, active    enforcementTaskKey and activeTaskUserText
\* evidence        what the results of the task's calls have shown
FreshExecutor ==
  [history |-> <<>>, pending |-> {}, exploring |-> {}, mutating |-> {},
   task |-> <<0, "">>, active |-> "", evidence |-> NoEvidence]

\* A request: the messages of its body, the history of the caller they are made of, and
\* whether it is one of the agent contract, whose history may differ from the one before.
Request(incoming, logical, contract) ==
  [incoming |-> incoming, logical |-> logical, contract |-> contract]
Plain(messages) == Request(messages, messages, FALSE)
Contract(messages) == Request(WithTurnData(messages), messages, TRUE)

NoCall ==
  [running |-> FALSE, ids |-> {}, logical |-> <<>>, told |-> {}, tools |-> TRUE,
   demand |-> NoDemand, structured |-> FALSE, repairs |-> 0, formatted |-> FALSE]

NewChat(epoch) == [epoch |-> epoch, known |-> {}, lost |-> {}]

Init ==
  /\ PageInit
  /\ executor = FreshExecutor
  /\ call = NoCall
  /\ client \in [style : Styles, transcript : {<<>>}, open : {<<>>}, request : {Plain(<<>>)},
                 served : {TRUE}, asked : {0}, resets : {0}, repair : {FALSE},
                 strayed : {FALSE}]
  /\ chat = NewChat(0)
  /\ made = <<>>

Ids(messages) == {messages[i].n : i \in {j \in DOMAIN messages : messages[j].role = "tool"}}

ContinuesTool(e, incoming) ==
  LET selected == SelectMinimalUiPrompts(incoming)
  IN  \/ IsSynthetic(Last(incoming)) /\ e.pending # {}
      \/ Last(incoming).role = "tool" /\ Ids(selected) \subseteq e.pending

\* The user's turns of a longer request are compared with those of the chat.
Compared(e, r) ==
  /\ Len(r.incoming) > 1 /\ ~r.contract
  /\ ~ContinuesTool(e, r.incoming)
  /\ UserTurns(r.logical) # <<>> /\ e.history # <<>>

ConflictsSlip(e, r) == FALSE   \* a slip: userTurnsAreCompatible answers no

\* userTurnsAreCompatible throws when they differ, so the reset that is written next to
\* it only looks at their number.
Conflicts(e, r) == Compared(e, r) /\ ~UserTurnsAreCompatible(e.history, r.logical)

ResetsItself(e, r) ==
  /\ Compared(e, r)
  /\ \/ ~UserTurnsAreCompatible(e.history, r.logical)
     \/ Len(UserTurns(r.logical)) < Len(UserTurns(e.history))

RetaskedSlip(e, key) == [e EXCEPT !.task = key]   \* a slip: evidence is kept

\* Evidence and the calls that may give more of it belong to one task.
Retasked(e, key) ==
  IF key = e.task THEN e
  ELSE [e EXCEPT !.task = key, !.evidence = NoEvidence, !.exploring = {}, !.mutating = {}]

\* resolveToolEnforcementTaskText
Resumed(e, logical) ==
  LET said == UserTurns(logical)
  IN  IF said = <<>> \/ (Last(said).text = "go" /\ e.active # "") THEN e
      ELSE [e EXCEPT !.active = Last(said).text]

\* markToolResultEvidence
Evidenced(e, ids) ==
  [e EXCEPT !.evidence =
    [explored |-> @.explored \/ ids \intersect e.exploring # {},
     mutated  |-> @.mutated \/ ids \intersect e.mutating # {},
     used     |-> @.used \/ ids \intersect e.pending # {}]]

ConsumedSlip(e, ids) == e   \* a slip: nothing is consumed

\* consumeToolCall
Consumed(e, ids) ==
  [e EXCEPT !.pending = @ \ ids, !.exploring = @ \ ids, !.mutating = @ \ ids]

\* rememberToolCall of each new call: beyond the limit the oldest calls are forgotten
Remembered(e, effects) ==
  LET With(effect) == {id \in DOMAIN effects : effect \in effects[id]}
      known == [e EXCEPT !.pending = @ \union DOMAIN effects,
                         !.exploring = @ \union With("explore"),
                         !.mutating = @ \union With("mutate")]
  IN  Consumed(known, {id \in known.pending :
                         Cardinality({j \in known.pending : j > id}) >= MaxTracked})

-----------------------------------------------------------------------------
(* execute *)

\* What a request looks like to the executor
Selected(e, r) == SelectMinimalUiPrompts(PendingMessages(e.history, r.incoming))
IsResult(selected) == Last(selected).role = "tool" \/ IsSynthetic(Last(selected))

\* The calls whose results it brings: a host's report is about the one that is pending.
Settles(e, selected) ==
  IF IsSynthetic(Last(selected))
  THEN IF Cardinality(e.pending) = 1 THEN e.pending ELSE {}
  ELSE Ids(selected)

\* The results before the first one whose call is not known
BeforeStray(e, selected) ==
  LET stray == SelectInSeq(selected, LAMBDA m : m.n \notin e.pending)
  IN  Ids(SubSeq(selected, 1, stray - 1))

Demand(e, r) ==
  BuildToolEnforcementPlan(IF e.active # "" THEN e.active
                           ELSE IF UserTurns(r.logical) # <<>>
                           THEN Last(UserTurns(r.logical)).text ELSE "talk")

Served(r) == client' = [client EXCEPT !.request = r, !.served = FALSE, !.repair = FALSE,
                                        !.asked = @ + 1]

\* Errors before anything is sent: another history, or nothing to send
Refuse(r) ==
  /\ Conflicts(executor, r) \/ Selected(executor, r) = <<>>
  /\ Served(r)
  /\ UNCHANGED <<pageVars, executor, call, chat, made>>

\* A result of a call that is not pending: those before it have counted already.
RefuseStray(r) ==
  LET selected == Selected(executor, r)
  IN  /\ ~Conflicts(executor, r) /\ selected # <<>>
      /\ ~(Ids(selected) \subseteq executor.pending)
      /\ executor' = Evidenced(Resumed(executor, r.logical), BeforeStray(executor, selected))
      /\ made' = [id \in DOMAIN made |->
                    IF id \in BeforeStray(executor, selected)
                    THEN [made[id] EXCEPT !.reported = TRUE] ELSE made[id]]
      /\ Served(r)
      /\ UNCHANGED <<pageVars, call, chat>>

\* The executor as it is when the prompt is ready
Prepared(e, r) ==
  LET selected == Selected(e, r)
      retasked == IF IsResult(selected) THEN e ELSE Retasked(e, TaskKey(r.logical))
      resumed == IF IsSynthetic(Last(selected)) THEN retasked ELSE Resumed(retasked, r.logical)
  IN  Evidenced(resumed, Settles(e, selected))

\* The first prompt of a request
Begin(r) ==
  LET known == IF ResetsItself(executor, r) THEN FreshExecutor ELSE executor
      selected == Selected(known, r)
      ids == Settles(known, selected)
  IN  /\ ~Conflicts(executor, r) /\ selected # <<>>
      /\ Ids(selected) \subseteq known.pending
      /\ StartTurn
      /\ executor' = Prepared(known, r)
      /\ call' = [NoCall EXCEPT
           !.running = TRUE, !.ids = ids, !.logical = r.logical,
           !.told = Range(HistoryHydration(r.logical, selected, known.history # <<>>))
                    \union Range(Spoken(selected)),
           !.tools = ~r.contract,
           !.demand = IF r.contract THEN NoDemand ELSE Demand(executor', r),
           !.structured = ~r.contract /\ UserTurns(r.logical) # <<>>
                          /\ Last(UserTurns(r.logical)).text = "json"]
      /\ made' = [id \in DOMAIN made |->
                    IF id \in ids THEN [made[id] EXCEPT !.reported = TRUE] ELSE made[id]]
      /\ chat' = IF ResetsItself(executor, r)
                 THEN NewChat(chat.epoch + 1) ELSE chat
      /\ Served(r)

\* What a client may ask next, after the history it holds or with nothing before it:
\* something new, the results of the open calls (one too many, or as the host's report),
\* the request it has no answer for once more, or an earlier history continued in another
\* way.  A repair is the router's, of the answer just given.
Asked(kind) ==
  LET held == IF client.style = "bare" THEN <<>> ELSE client.transcript
      results == [i \in DOMAIN client.open |-> Result(client.open[i])]
      Made(messages) == IF client.style = "contract" THEN Contract(messages) ELSE Plain(messages)
  IN  CASE kind = "ask" -> {Made(Append(held, User(a))) : a \in Asks}
        [] kind = "results" /\ results # <<>> -> {Plain(held \o results)}
        [] kind = "stray" /\ results # <<>> -> {Plain(Append(held \o results, Result(0)))}
        [] kind = "host" /\ results # <<>> -> {Plain(Append(held, Host(Len(held))))}
        [] kind = "again" /\ ~client.served -> {client.request}
        [] kind = "rewind" ->
             {Made(Append(SubSeq(held, 1, k), User(a))) :
                k \in {j \in 1..Len(held) - 1 : held[j].role = "assistant"}, a \in Asks}
        [] kind = "repair" ->
             {Request(<<System, Control>>, client.request.logical, TRUE)}
        [] OTHER -> {}

Execute ==
  /\ ~call.running /\ client.asked < MaxRequests
  /\ \E kind \in Requests :
       /\ client.repair <=> kind = "repair"
       /\ \E r \in Asked(kind) : Refuse(r) \/ RefuseStray(r) \/ Begin(r)

\* The prompt and the history with it become known when the page takes them as they were
\* written, and are lost when its editor has changed them.
Send ==
  /\ Dispatch
  /\ chat' = IF turn'.taken = turn.taken THEN chat
             ELSE IF turn'.whole THEN [chat EXCEPT !.known = @ \union call.told]
             ELSE [chat EXCEPT !.lost = @ \union call.told]
  /\ UNCHANGED <<executor, call, client, made>>

\* So does what the model says.
Say ==
  /\ Generated
  /\ chat' = [chat EXCEPT !.known = @ \union {Raw(page.busy), Remade(page.busy)}]
  /\ UNCHANGED <<executor, call, client, made>>

ValidJson(text) == text = <<Piece("json")>>

\* The calls an answer has, or the error that asks for another answer
Parsed(text) == IF call.tools THEN ParseUiToolResponse(text) ELSE Text
Accepted(text) ==
  LET parsed == Parsed(text)
  IN  ~parsed.error /\ Enforced(call.demand, executor.evidence, parsed.calls)

Answered == call.running /\ turn.phase = "answered"

\* The model is told what is wrong, twice.
Repair(text) ==
  /\ ~call.formatted /\ ~Accepted(text)
  /\ call.repairs < 2
  /\ StartTurn
  /\ call' = [call EXCEPT !.repairs = @ + 1, !.told = {}]
  /\ UNCHANGED <<executor, client, chat, made>>

\* An answer without calls is to be in the format asked for.
Unformatted(text) ==
  /\ ~call.formatted /\ Accepted(text)
  /\ call.structured /\ Parsed(text).calls = <<>> /\ ~ValidJson(text)

RepairFormat(text) ==
  /\ Unformatted(text)
  /\ StartTurn
  /\ call' = [call EXCEPT !.formatted = TRUE, !.told = {}]
  /\ UNCHANGED <<executor, client, chat, made>>

\* It did not help, the text is the same as before, or the evidence for the repair is
\* too large.
GiveUp(text) ==
  /\ IF call.formatted THEN ~ValidJson(text) ELSE ~Accepted(text) \/ Unformatted(text)
  /\ call' = NoCall
  /\ turn' = NoTurn
  /\ UNCHANGED <<page, prompts, mishaps, executor, client, chat, made>>

\* The answer is remembered with its calls, and returned; the client may be gone, or the
\* router may find that the answer breaks the agent contract.
Remember(e, calls) ==
  LET new == {Len(made) + i : i \in DOMAIN calls}
      effects == [id \in new |-> Effect[calls[id - Len(made)].tool]]
  IN  [Remembered(Consumed(e, call.ids), effects)
         EXCEPT !.history = StoreHistory(@, call.logical, Raw(turn.prompt))]

\* The client has no answer; it strays from the chat if it had gone back for it.
Without(repair) ==
  [client EXCEPT !.repair = repair, !.strayed = @ \/ ~IsPrefix(client.transcript, call.logical)]

Complete(text) ==
  LET calls == IF call.formatted THEN <<>> ELSE Parsed(text).calls
  IN  /\ IF call.formatted THEN ValidJson(text) ELSE Accepted(text) /\ ~Unformatted(text)
      /\ executor' = Remember(executor, calls)
      /\ made' = [id \in DOMAIN made |->
                    IF id \in call.ids THEN [made[id] EXCEPT !.settled = TRUE] ELSE made[id]]
                 \o [i \in DOMAIN calls |->
                       [effect |-> Effect[calls[i].tool], task |-> executor.task,
                        reported |-> FALSE, settled |-> FALSE]]
      /\ call' = NoCall
      /\ turn' = NoTurn
      /\ \/ /\ client' = [client EXCEPT
                 !.transcript = Append(call.logical, IF calls = <<>> /\ client.style # "contract"
                                                     THEN Raw(turn.prompt)
                                                     ELSE Remade(turn.prompt)),
                 !.open = [i \in DOMAIN calls |-> Len(made) + i],
                 !.served = TRUE]
            /\ Fine
         \/ client' = Without(FALSE) /\ Mishap
         \/ /\ "repair" \in Requests /\ client.style = "contract" /\ client.asked < MaxRequests
            /\ client' = Without(TRUE)
            /\ Fine
      /\ UNCHANGED <<page, prompts, chat>>

Judge ==
  /\ Answered
  /\ \E text \in Answers :
       Repair(text) \/ RepairFormat(text) \/ GiveUp(text) \/ Complete(text)

Fail ==
  /\ turn.phase = "failed"
  /\ call' = NoCall
  /\ turn' = NoTurn
  /\ UNCHANGED <<page, prompts, mishaps, executor, client, chat, made>>

-----------------------------------------------------------------------------
(* reset *)

\* The memory goes first; then the page is taken to a new conversation, or is not.
Reset ==
  /\ ~call.running /\ ~client.repair /\ client.resets < MaxResets
  /\ executor' = FreshExecutor
  /\ client' = [client EXCEPT !.resets = @ + 1, !.strayed = FALSE]
  /\ \/ /\ page' = FreshPage
        /\ chat' = NewChat(chat.epoch + 1)
        /\ Fine
     \/ Mishap /\ UNCHANGED <<page, chat>>
  /\ UNCHANGED <<turn, prompts, call, made>>

-----------------------------------------------------------------------------

Turn ==
  /\ \/ Settle \/ NotReady \/ Compose \/ FinalCheck \/ Confirm \/ Unconfirmed
     \/ Read \/ ReadTimeout
  /\ UNCHANGED logicVars
Interrupt == Abort /\ UNCHANGED logicVars
Disturb == (Rerender \/ Reconcile) /\ UNCHANGED logicVars

Next == Execute \/ Turn \/ Send \/ Judge \/ Fail \/ Interrupt \/ Say \/ Disturb \/ Reset

\* A request that runs takes its next step: every wait of it has a deadline.  Nothing is
\* asked of the page or of the client.
Fairness == WF_vars(Turn \/ Send \/ Judge \/ Fail)

Spec == Init /\ [][Next]_vars
FairSpec == Spec /\ Fairness

-----------------------------------------------------------------------------

TypeOK ==
  /\ PageTypeOK
  /\ executor.pending \union call.ids \subseteq DOMAIN made
  /\ executor.exploring \union executor.mutating \subseteq executor.pending
  /\ call.repairs \in 0..2
  /\ call.running <=> turn.phase # "idle"

\* A result of this task's calls has been brought that shows the effect.
Shown(effect) ==
  \E id \in DOMAIN made : /\ effect \in made[id].effect /\ made[id].reported
                          /\ made[id].task = executor.task

\* Where a task must look at the workspace first, no call that changes it is returned
\* before the result of a look made for the same task; where it must change it, no final
\* answer is before the result of a change.  What an earlier task did counts for nothing,
\* however requests failed, were repeated or interleaved (ui-executor.ts:367-375).
WorkIsEvidenced ==
  [][LET new == DOMAIN made' \ DOMAIN made
         answers == Answered /\ turn'.phase = "idle" /\ executor' # executor
     IN  /\ call.demand.explore /\ (\E id \in new : "mutate" \in made'[id].effect)
              => Shown("explore")
         /\ answers /\ call.demand.mutate /\ new = {} => Shown("mutate")]_vars

\* A result that has been answered is never sent again: a client that repeats it because
\* the answer was lost gets an error (ui-executor.ts:571-574).
SettledCallsStaySettled ==
  [][~call.running => \A id \in call'.ids : ~made[id].settled]_vars

\* The conversation is only left when a reset is asked for (ui-history.ts:64-67).
NoSilentReset == [][chat'.epoch # chat.epoch => client'.resets # client.resets]_vars

\* When a request with its history is answered, the chat has been told everything that
\* says, be it by earlier prompts or, after a reset, with this one (ui-history.ts:149-188),
\* but for what an editor took out of a prompt after the last look at it, and unless the
\* client went back in the history after the chat was left, lost the answer and goes on
\* from where it was.
ContextKnown ==
  [][client.style # "bare" /\ Answered /\ turn'.phase = "idle" /\ executor' # executor
     /\ ~(client.strayed /\ chat.epoch > 0)
       => Range(call.logical) \subseteq chat.known \union chat.lost]_vars

\* Every request ends, whatever the page does.
CallsEnd == call.running ~> ~call.running
=============================================================================
