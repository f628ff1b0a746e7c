--------------------------- MODULE ContractAnswer ---------------------------
(***************************************************************************)
(* What the agent contract reads in an answer, what it objects to, and     *)
(* what a repair must keep: transformAgentContractCompletion and           *)
(* assertAgentRepairContinuity (runtime/agent-contract.ts), with the       *)
(* checks of runtime/agent-contract-validation.ts.                         *)
(*                                                                         *)
(* An answer has a form:                                                   *)
(*   exact    a JSON object as it stands     mended  one after a local fix *)
(*   bare     one with no field of an action cut     no complete object    *)
(*   unclear  ambiguous or beyond a limit    call    native, <tool_call>   *)
(* and the fields of its action: the rest stands for its summary, loop and *)
(* unknown members.  A bare object is the content of the final_response    *)
(* that it is wrapped in.  The paths of an answer that were read beyond    *)
(* doubt are its anchors; a path is a field, or an argument of the input.  *)
(***************************************************************************)
EXTENDS Naturals

CONSTANTS Tools,        \* tools declared by the request
          Args,         \* arguments of a tool
          Wrong,        \* values of an argument that the schema of its tool refuses
          Huge,         \* those that make the input too large
          Null, Absent,
          Malformed     \* a value of the wrong type, or for the rest: any error in it

ASSUME ArgsAssumption == Null \notin Args

Fields == {"action", "tool", "input", "content", "rest"}
Whole(f) == <<f, Null>>
Arg(x) == <<"input", x>>
Paths == {Whole(f) : f \in Fields} \union {Arg(x) : x \in Args}

At(t, p) == IF p[2] = Null THEN t[p[1]] ELSE t.input[p[2]]

\* One path is the other, or the input that it is an argument of.
Near(p, q) == p[1] = q[1] /\ (p[2] = q[2] \/ Null \in {p[2], q[2]})

-----------------------------------------------------------------------------
\* validateContractShape: each result is the paths of an error.  The first one found
\* is reported, and the order of the search is the validator's own.
Misshapes(t) ==
  {{Whole(f)} : f \in {g \in Fields : t[g] \in {Absent, Malformed}}}

Refused(input) == {x \in Args : input[x] \in Wrong}
TooLarge(input) == \E x \in Args : input[x] \in Huge

\* validateContractResponse: its rules in turn.
MisusesTool(t) ==
  IF Null \in {t.tool, t.input} THEN {{Whole(f) : f \in {g \in {"tool", "input"} : t[g] = Null}}}
  ELSE IF t.tool \notin Tools THEN {{Whole("tool"), Whole("input")}}
  ELSE IF TooLarge(t.input) THEN {{Whole("input")}}
  ELSE IF Refused(t.input) # {} THEN {{Arg(x)} : x \in Refused(t.input)}
  ELSE {{Whole("content")} : u \in {t.content} \ {Null}}

Misuses(t) ==
  IF t.action = "use_tool" THEN MisusesTool(t)
  ELSE IF {t.tool, t.input} # {Null} THEN {{Whole("tool"), Whole("input")}}
  ELSE {{Whole("content")} : u \in
          {t.content} \intersect (IF t.action = "final_response" THEN {Null, "blank"} ELSE {})}

\* What transformAgentContractCompletion may object to.  A bare result is wrapped.
Errors(t) ==
  IF t.form \in {"cut", "unclear"} THEN {{}}
  ELSE IF Misshapes(t) # {} THEN Misshapes(t)
  ELSE Misuses(t)

\* An action that is passed to the client, and not refused for what it asks for.
Sound(t) == Errors(t) = {}
Served(t) == Sound(t) /\ t.action \in {"use_tool", "final_response"}

\* Answers that no repair is asked for.
BeyondRepair(t) ==
  \/ t.form \in {"call", "unclear"}
  \/ t.form = "exact" /\ \A f \in Fields : t[f] = Absent

\* A first answer that a reminder answers, or one that ends the call with an error.
AsksForTools(t) == Sound(t) /\ t.action = "request_tools" /\ Tools # {}
Declined(t) ==
  \/ Sound(t) /\ ~Served(t) /\ ~AsksForTools(t)
  \/ ~Sound(t) /\ BeyondRepair(t)

-----------------------------------------------------------------------------
(* assertAgentRepairContinuity *)

\* parseStrictContract: here a bare result is misshapen, and a call no JSON.
StrictlyRead(t) == t.form \in {"exact", "mended"} /\ Misshapes(t) = {}

\* Slip: the input of a tool is like any other field.
ContinuousByField(first, paths, t) ==
  \A p \in first.anchors :
    \/ p \notin {Whole("action"), Whole("tool")} /\ \E q \in paths : Near(p, q)
    \/ p \in t.anchors /\ At(t, p) = At(first, p)

\* The decision and whatever the errors are not about; and an error about the whole
\* input of a tool call is no licence to replace it.
Continuous(first, paths, t) ==
  /\ first.form = "exact" /\ first.action = "use_tool" /\ Whole("input") \in paths
       => t.input = first.input
  /\ \A p \in first.anchors :
       \/ p \notin {Whole("action"), Whole("tool")} /\ \E q \in paths : Near(p, q)
       \/ p \in t.anchors /\ At(t, p) = At(first, p)

=============================================================================
