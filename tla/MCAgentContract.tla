--------------------------- MODULE MCAgentContract ---------------------------
(* AgentContract for TLC: what each of the calls may be, and what the model answers. *)
EXTENDS AgentContract, TLC

CONSTANTS c1, c2, c3, s1, s2, t1, t2, g1, g2, v1, v2,
          read, write, guess,     \* two tools and one that is not declared
          path, body,             \* the arguments of a tool
          good, other, wrong, huge

Contract(s, t, x, y, budget) ==
  [kind |-> "contract", session |-> s, tools |-> t, context |-> (g1 :> x) @@ (g2 :> y),
   budget |-> budget]
Other(kind, s) == [Contract(s, t1, None, None, 1) EXCEPT !.kind = kind]

\* A context that grows, changes and shrinks, with a change of tools, while the
\* other session needs the room of the acknowledgements.
Conversation ==
  (c1 :> {Contract(s1, t1, v1, None, 3), Contract(s1, t1, v1, v2, 1)})
  @@ (c2 :> {Contract(s1, t1, v2, v1, 1), Contract(s1, t2, None, v1, 2),
             Contract(s2, t1, v1, v1, 1), Other("plain", s1), Other("reset", s1)})
  @@ (c3 :> {Contract(s1, t1, v1, v1, 1), Contract(s1, t1, None, v2, 1),
             Other("recreate", s1)})

Input(x, y) == (path :> x) @@ (body :> y)
Anchored(t) == {Whole(f) : f \in {g \in Fields : t[g] # Absent}}
                 \union (IF t.input \in {Null, Absent} THEN {} ELSE {Arg(x) : x \in Args})
Exactly(t) == [t EXCEPT !.anchors = Anchored(t)]
Uses(tool, x, y) == Exactly(
  [form |-> "exact", anchors |-> {}, action |-> "use_tool", tool |-> tool, input |-> Input(x, y),
   content |-> Null, rest |-> "fine"])
Says(action, content) == Exactly([Uses(read, good, good) EXCEPT
  !.action = action, !.tool = Null, !.input = Null, !.content = content])
Vague(form) == [form |-> form, anchors |-> {}, action |-> Absent, tool |-> Absent,
  input |-> Absent, content |-> Absent, rest |-> Absent]

\* Tool calls whose arguments are right, wrong in one way or in two, or too large; that
\* break off after the first argument or its tool; and other answers.
Conversations == {
  Uses(write, good, good), Uses(write, other, good), Uses(read, good, good),
  Uses(write, wrong, good), Uses(write, wrong, wrong), Uses(write, good, wrong),
  Uses(write, huge, good),
  [Uses(write, huge, good) EXCEPT !.form = "mended", !.anchors = {Whole("action"), Whole("tool")}],
  [Uses(write, good, good) EXCEPT !.form = "cut", !.anchors = {Whole("action"), Whole("tool"), Arg(path)}],
  [Uses(guess, good, good) EXCEPT !.form = "call"],
  Exactly([Uses(write, good, good) EXCEPT !.rest = Malformed]),
  Says("final_response", "blank"), Says("final_response", "text"),
  Says("request_tools", "text"), Says("request_workspace", "text"),
  Vague("exact"), Vague("cut"), Vague("unclear")}
=============================================================================
