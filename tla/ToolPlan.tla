------------------------------- MODULE ToolPlan -------------------------------
(***************************************************************************)
(* The tool plan of a request, and the calls it permits an answer:         *)
(* buildToolProtocolPlan and callsFromParsed of mapping/tool-calling.ts.   *)
(*                                                                         *)
(* A member of "tools" has a name, is proper when its name, parameters and *)
(* strict flag are of the right kind, and a shape:                         *)
(*   function  of type "function"      flat  with a name or parameters     *)
(*   builtin   of another type         bare  only a "function" member      *)
(*   other     none of these                                               *)
(* A "tool_choice" is of a kind, names functions, and may insist (must):   *)
(*   default   absent or "auto"        none, required                      *)
(*   allowed   a choice among some     function  one of them               *)
(*   other     none of these                                               *)
(* A call is known by the name of its function.                            *)
(***************************************************************************)
EXTENDS Naturals, Sequences, SequencesExt, FiniteSets

CONSTANTS MaxTools,   \* MAX_TOOLS
          MaxCalls    \* MAX_PARALLEL_CALLS

ASSUME LimitsAssumption == MaxTools \in Nat /\ MaxCalls \in Nat \ {0}

Functions(tools) == SelectSeq(tools, LAMBDA t : t.shape \in {"function", "flat", "builtin"})
Names(tools) == {Functions(tools)[i].name : i \in DOMAIN Functions(tools)}

\* normalizeFunctionTools accepts the list: what is no function is passed over, unless
\* it pretends to be one.
NormalizesTools(tools) ==
  /\ Len(tools) <= MaxTools
  /\ \A i \in DOMAIN tools : tools[i].shape # "bare"
  /\ \A i \in DOMAIN Functions(tools) : Functions(tools)[i].proper
  /\ Cardinality(Names(tools)) = Len(Functions(tools))

\* normalizeToolChoice
Selected(choice, names) == IF choice.kind = "allowed" THEN names \intersect choice.names ELSE names

NormalizesChoice(choice, names) ==
  /\ choice.kind # "other"
  /\ choice.kind \in {"required", "allowed"} => Selected(choice, names) # {}
  /\ choice.kind = "function" => choice.names \subseteq names

ModeOf(choice) ==
  CASE choice.kind = "default" -> "auto"
    [] choice.kind = "allowed" -> IF choice.must THEN "required" ELSE "auto"
    [] OTHER -> choice.kind

BuildToolProtocolPlan(r) ==
  [ok |-> ~r.legacy /\ NormalizesTools(r.tools) /\ NormalizesChoice(r.choice, Names(r.tools)),
   tools |-> Selected(r.choice, Names(r.tools)),
   mode |-> ModeOf(r.choice),
   callable |-> IF r.choice.kind = "function" THEN r.choice.names
                ELSE Selected(r.choice, Names(r.tools)),
   parallel |-> r.parallel]

\* requestMayReturnToolCalls
MayReturn(plan) == plan.tools # {} /\ plan.mode # "none"

\* callsFromParsed: one call that the plan does not know spoils the batch.
Permitted(plan, calls) ==
  /\ ToSet(calls) \subseteq plan.callable
  /\ Cardinality(ToSet(calls)) <= (IF plan.parallel THEN MaxCalls ELSE 1)

\* assertToolChoiceSatisfied
Satisfies(plan, calls) ==
  /\ plan.mode = "required" => calls # <<>>
  /\ plan.mode = "function" => ToSet(calls) = plan.callable

=============================================================================
