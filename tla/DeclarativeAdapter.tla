-------------------------- MODULE DeclarativeAdapter --------------------------
(***************************************************************************)
(* What a declarative profile makes of a request and of the reply of a web *)
(* chat: DeclarativeAdapter (mapping/engine.ts), with the rules that the   *)
(* network executor (runtime/network-executor.ts) writes into the prompt   *)
(* where the profile has no binding for them.                              *)
(*                                                                         *)
(* A text is a sequence of characters, of which only the blank is special. *)
(* A reply is a record:                                                    *)
(*   type     content type: "sse", "ndjson" or "other"                     *)
(*   lines    its events or lines: the text of each, and if it is JSON     *)
(*   calls    the functions it calls, by an object in its "body" or an     *)
(*   place      envelope in its "text"                                     *)
(*   carries  the state paths it has                                       *)
(* A request has the tools, choice, legacy and parallel of ToolPlan, the   *)
(* roles of its messages, and the other fields of its body.                *)
(***************************************************************************)
EXTENDS ToolPlan, FiniteSetsExt

CONSTANTS Blank,
          Updates,    \* the response paths of profile.state.updates, in order
          Optional,   \* those that a reply may lack
          Prompt,     \* source of the binding for the prompt
          KeepSystem, \* its transform keeps the system messages
          Bound,      \* other fields with a binding, "system" among them
          Required,   \* those of Bound whose binding is not optional
          Strategy    \* joinStrategy

ASSUME ProfileAssumption ==
  /\ \A i, j \in DOMAIN Updates : Updates[i] = Updates[j] => i = j
  /\ Optional \subseteq ToSet(Updates)
  /\ Prompt \in {"messages", "transcript", "last user", "last message"}
  /\ KeepSystem \in BOOLEAN
  /\ Required \subseteq Bound
  /\ Bound \subseteq {"tools", "choice", "model", "system"}
  /\ Strategy \in {"smart", "concat", "first", "last"}

-----------------------------------------------------------------------------
(* The request *)

Plan(r) == BuildToolProtocolPlan(r)
System == {"system", "developer"}
LastOf(roles, wanted) == {i \in DOMAIN roles :
  /\ roles[i] \in wanted
  /\ \A j \in DOMAIN roles : roles[j] \in wanted => j <= i}

EmulatesTools(r) ==
  /\ MayReturn(Plan(r))
  /\ "tools" \notin Bound \/ (r.choice.kind # "default" /\ "choice" \notin Bound)

EmulatesSystem(r) ==
  /\ ToSet(r.roles) \intersect System # {}
  /\ "system" \notin Bound
  /\ Prompt \notin {"messages", "transcript"}

\* prependDirectiveToLastInteractiveMessage: where the rules are written.
Instructed(r) ==
  IF EmulatesTools(r) \/ EmulatesSystem(r) THEN LastOf(r.roles, {"user", "tool"}) ELSE {}

\* The messages that the binding of the prompt puts in the body.
Sent(r) ==
  CASE Prompt = "last user" -> LastOf(r.roles, {"user"})
    [] Prompt = "last message" -> LastOf(r.roles, ToSet(r.roles))
    [] Prompt = "messages" -> {i \in DOMAIN r.roles : KeepSystem \/ r.roles[i] \notin System}
    [] OTHER -> DOMAIN r.roles

\* The chat can know the functions of the request.
ToldOfTools(r) ==
  /\ MayReturn(Plan(r))
  /\ EmulatesTools(r) => Instructed(r) # {} /\ Instructed(r) \subseteq Sent(r)

\* Nothing is sent for a plan that is not valid, or a required binding without value.
Fields(r) ==
  r.fields \union (IF r.tools = <<>> THEN {} ELSE {"tools"})
           \union (IF r.choice.kind = "default" THEN {} ELSE {"choice"}) \union {"system"}
MapsRequest(r) == Plan(r).ok /\ Required \subseteq Fields(r)

-----------------------------------------------------------------------------
(* The text of a reply *)

\* decodeTextBody: the lines of an event stream or of NDJSON are events, JSON or not.
\* Otherwise several JSON lines are frames, and lines that are none are lost.
Texts(lines) == [i \in DOMAIN lines |-> lines[i].text]
Those(s, places) == FlattenSeq([i \in DOMAIN s |-> IF i \in places THEN <<s[i]>> ELSE <<>>])
Decoded(reply) ==
  LET frames == Those(reply.lines, {i \in DOMAIN reply.lines : reply.lines[i].json})
  IN  IF reply.type # "other" THEN [stream |-> TRUE, events |-> Texts(reply.lines)]
      ELSE IF frames = <<>>
      THEN [stream |-> FALSE, events |-> <<FlattenSeq(Texts(reply.lines))>>]
      ELSE [stream |-> Len(frames) > 1, events |-> Texts(frames)]
Events(reply) ==
  LET events == Decoded(reply).events
  IN  Those(events, {i \in DOMAIN events : events[i] # <<>>})

Inked(t) == {i \in DOMAIN t : t[i] # Blank}
Trim(t) == IF Inked(t) = {} THEN <<>> ELSE SubSeq(t, Min(Inked(t)), Max(Inked(t)))

JoinStep(output, raw) ==
  LET next == Trim(raw)
  IN  IF next = <<>> \/ IsSuffix(next, output) THEN output
      ELSE IF IsPrefix(output, next) THEN next
      ELSE output \o next

JoinSmart(texts) ==
  LET joined[n \in 0..Len(texts)] ==
        IF n = 0 THEN <<>> ELSE JoinStep(joined[n - 1], texts[n])
  IN  joined[Len(texts)]

JoinContent(texts) ==
  IF texts = <<>> THEN <<>>
  ELSE CASE Strategy = "first" -> texts[1]
         [] Strategy = "last" -> texts[Len(texts)]
         [] Strategy = "concat" -> FlattenSeq(texts)
         [] OTHER -> JoinSmart(texts)

\* mapResponse: having no content is an error.
Content(reply) == JoinContent(Events(reply))

\* Slip: a longer text is passed on whole.
NewsWhole(seen, text) ==
  IF IsPrefix(seen.text, text) THEN [text |-> text, deltas |-> Append(seen.deltas, text)]
  ELSE IF IsSuffix(text, seen.text) THEN seen
  ELSE [text |-> seen.text \o text, deltas |-> Append(seen.deltas, text)]

\* One event of mapResponseDeltas: a longer text, the end of the one known, or more.
News(seen, text) ==
  IF IsPrefix(seen.text, text)
  THEN IF text = seen.text THEN seen
       ELSE [text |-> text,
             deltas |-> Append(seen.deltas, SubSeq(text, Len(seen.text) + 1, Len(text)))]
  ELSE IF IsSuffix(text, seen.text) THEN seen
  ELSE [text |-> seen.text \o text, deltas |-> Append(seen.deltas, text)]

NewsOf(texts) ==
  LET seen[n \in 0..Len(texts)] ==
        IF n = 0 THEN [text |-> <<>>, deltas |-> <<>>] ELSE News(seen[n - 1], texts[n])
  IN  seen[Len(texts)].deltas

Deltas(reply) ==
  LET found == NewsOf(Events(reply))
  IN  IF Decoded(reply).stream /\ found # <<>> THEN found
      ELSE IF Content(reply) = <<>> THEN <<>> ELSE <<Content(reply)>>

-----------------------------------------------------------------------------
(* The outcome of a reply, and the state it leaves *)

\* Without tools in the plan, what looks like a call is text.
CallsOf(r, reply) == IF MayReturn(Plan(r)) THEN reply.calls ELSE <<>>

\* The reply gives the caller nothing: a call the plan does not permit, no text nor a
\* call in the body, or not the call that was demanded.
Unreadable(r, reply) ==
  LET calls == CallsOf(r, reply)
  IN  \/ ~Permitted(Plan(r), calls)
      \/ Content(reply) = <<>> /\ ~(calls # <<>> /\ reply.place = "body")
      \/ ~Satisfies(Plan(r), calls)

\* applyState: the updates are made in turn, up to the first required path that the
\* reply lacks, which is an error.
Breaks(reply) == {i \in DOMAIN Updates : Updates[i] \notin reply.carries \union Optional}
Written(reply) ==
  {Updates[i] : i \in {j \in DOMAIN Updates : \A k \in Breaks(reply) : j < k}}
    \intersect reply.carries

=============================================================================
