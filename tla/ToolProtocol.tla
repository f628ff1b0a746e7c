---------------------------- MODULE ToolProtocol ----------------------------
(***************************************************************************)
(* Tool calls read from the text of a web chat, and the work they must     *)
(* show: what parseUiToolResponse (runtime/tool-response.ts) and           *)
(* extractToolCalls (mapping/tool-calling.ts) make of an answer, and what  *)
(* enforceToolResponse (runtime/tool-enforcement.ts) asks of its calls.    *)
(*                                                                         *)
(* A text is the sequence of its pieces.  A piece has the calls its        *)
(* payload holds, and none when the payload is no JSON:                    *)
(*   prose      words that do not look like a call                         *)
(*   json       the same, and an object of the wanted schema               *)
(*   toolish    words that look like a call, or half an envelope           *)
(*   envelope   <tool_call> around exact JSON                              *)
(*   loose      <tool_call> around JSON that has to be repaired, one with  *)
(*              a name attribute, or `tool_call:` before an object         *)
(*   toolfence  a tool_call code fence                                     *)
(*   block      an ordinary code fence, with an envelope inside or none    *)
(***************************************************************************)
EXTENDS Naturals, Sequences, SequencesExt, FiniteSets

CONSTANTS Tools,        \* names of the functions of the request
          Effect,       \* [Tools -> SUBSET {"explore", "mutate"}] of a call of each
          Choice,       \* tool_choice: "auto", "required", "none" or a function
          Parallel,     \* parallel_tool_calls
          MaxCalls,     \* MAX_PARALLEL_CALLS
          Mode          \* toolEnforcement: "auto", "explore-first" or "required"

ASSUME ToolsAssumption ==
  /\ IsFiniteSet(Tools)
  /\ Effect \in [Tools -> SUBSET {"explore", "mutate"}]
ASSUME PlanAssumption ==
  /\ Tools \intersect {"auto", "required", "none"} = {}
  /\ Choice \in {"auto", "required", "none"} \union Tools
  /\ Parallel \in BOOLEAN
  /\ MaxCalls \in Nat \ {0}
  /\ Mode \in {"auto", "explore-first", "required"}

ProtocolEnabled == Tools # {} /\ Choice # "none"

-----------------------------------------------------------------------------
(* Reading the calls of a text *)

\* arguments: they are an object of the function's schema, or not
Calls == [tool : STRING, valid : BOOLEAN]
Piece(kind) == [kind |-> kind, calls |-> <<>>]

\* "the answer is data", "the model must try again", and the calls of an answer
Text == [error |-> FALSE, calls |-> <<>>]
Rejected == [error |-> TRUE, calls |-> <<>>]

\* Code fences are blanks to everything but the extraction itself.
MaskOrdinaryCodeFences(text) == SelectSeq(text, LAMBDA p : p.kind # "block")
ToolCallEnvelopes(text) ==
  SelectSeq(text, LAMBDA p : p.kind = "envelope" \/ (p.kind = "block" /\ p.calls # <<>>))
Marked(text) == SelectSeq(text, LAMBDA p : p.kind \in {"envelope", "loose"})

\* One exact envelope, if all are, settles which form the answer uses: other forms
\* beside it stay text.  Otherwise each becomes an envelope, or is in error.
ExactForm(text) ==
  LET visible == Marked(MaskOrdinaryCodeFences(text))
  IN  /\ visible # <<>>
      /\ \A i \in DOMAIN visible : visible[i].kind = "envelope" /\ visible[i].calls # <<>>

NormalizeProviderPatterns(text) ==
  IF ExactForm(text) THEN text
  ELSE [i \in DOMAIN text |->
          IF text[i].kind \in {"loose", "toolfence"}
          THEN [text[i] EXCEPT !.kind = "envelope"] ELSE text[i]]

\* normalizedCall: a call must name a function of the plan, and the one that is chosen
Allowed(calls) ==
  \A i \in DOMAIN calls : calls[i].tool \in (IF Choice \in Tools THEN {Choice} ELSE Tools)

Distinct(calls) ==
  FoldLeft(LAMBDA kept, call : IF Contains(kept, call) THEN kept ELSE Append(kept, call),
           <<>>, calls)

\* The extraction looks at the fences again: an envelope inside one is a call as soon
\* as there is another outside.
ExtractToolCalls(text) ==
  LET envelopes == ToolCallEnvelopes(text)
      calls == Distinct(FlattenSeq([i \in DOMAIN envelopes |-> envelopes[i].calls]))
  IN  IF \/ \E i \in DOMAIN envelopes : envelopes[i].calls = <<>>
         \/ ~Allowed(calls)
         \/ Len(calls) > MaxCalls
         \/ (Len(calls) > 1 /\ ~Parallel)
      THEN Rejected
      ELSE [error |-> FALSE, calls |-> calls]

AssertToolChoice(parsed) ==
  IF \/ Choice = "required" /\ parsed.calls = <<>>
     \/ Choice \in Tools /\ Len(parsed.calls) # 1
  THEN Rejected ELSE parsed

ParseUiToolResponse(text) ==
  LET normalized == NormalizeProviderPatterns(text)
      visible == MaskOrdinaryCodeFences(normalized)
      parsed == ExtractToolCalls(normalized)
  IN  IF ~ProtocolEnabled THEN Text
      ELSE IF \E i \in DOMAIN visible : visible[i].kind = "envelope"
      THEN IF \E i \in DOMAIN parsed.calls : ~parsed.calls[i].valid
           THEN Rejected ELSE AssertToolChoice(parsed)
      ELSE IF \E i \in DOMAIN visible : visible[i].kind = "toolish"
      THEN Rejected
      ELSE AssertToolChoice(Text)

-----------------------------------------------------------------------------
(* What a task asks for, by the words of the user *)

\* A change of the workspace, a question about it, the creation of a file or folder
\* that needs no look first, an answer in JSON, and talk.
Tasks == {"change", "look", "create", "json", "talk"}

NoDemand == [enabled |-> FALSE, explore |-> FALSE, any |-> FALSE, mutate |-> FALSE]
Explorers == {t \in Tools : "explore" \in Effect[t]}

BuildToolEnforcementPlan(task) ==
  IF Mode = "auto" \/ ~ProtocolEnabled THEN NoDemand
  ELSE LET workspaceDependent == task \in {"change", "look"}
       IN  [enabled |-> Mode = "required" \/ workspaceDependent \/ task = "create",
            explore |-> Explorers # {} /\ workspaceDependent,
            any     |-> Mode = "required" \/ task = "create",
            mutate  |-> task \in {"change", "create"}]

Has(calls, effect) == \E i \in DOMAIN calls : effect \in Effect[calls[i].tool]
Only(calls, effect) == \A i \in DOMAIN calls : effect \in Effect[calls[i].tool]

\* enforceToolResponse: does the answer do what is still to be shown?
Enforced(demand, evidence, calls) ==
  \/ ~demand.enabled
  \/ /\ demand.explore /\ ~evidence.explored
     /\ ~Has(calls, "mutate") /\ calls # <<>> /\ Only(calls, "explore")
  \/ /\ demand.explore => evidence.explored
     /\ demand.mutate /\ ~evidence.mutated
     /\ Has(calls, "mutate")
  \/ /\ demand.explore => evidence.explored
     /\ demand.mutate => evidence.mutated
     /\ demand.any /\ ~evidence.used => calls # <<>>
=============================================================================
