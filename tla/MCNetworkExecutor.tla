-------------------------- MODULE MCNetworkExecutor --------------------------
(***************************************************************************)
(* NetworkExecutor with two sessions of one provider, a profile that joins *)
(* texts by itself and keeps an optional and a required state path, and    *)
(* replies that tell the readings of a text and the failures apart.        *)
(***************************************************************************)
EXTENDS NetworkExecutor

CONSTANTS c1, c2, c3, c4, s1, s2

InTwoSessions == [c \in Calls |-> IF c \in {c1, c2, c3} THEN s1 ELSE s2]

Tool(shape, name) == [shape |-> shape, name |-> name, proper |-> TRUE]
Choose(kind, names) == [kind |-> kind, names |-> names, must |-> FALSE]

Plain ==
  [fields |-> {"model"}, roles |-> <<"system", "user">>, tools |-> <<>>,
   choice |-> Choose("default", {}), parallel |-> TRUE, legacy |-> FALSE]
WithTools ==
  [Plain EXCEPT !.roles = <<"user", "assistant", "tool">>, !.parallel = FALSE,
                !.tools = <<Tool("function", "read"), Tool("flat", "write")>>]
MustCall == [WithTools EXCEPT !.choice = Choose("function", {"read"})]
NoModel == [Plain EXCEPT !.fields = {}]
Twice == [WithTools EXCEPT !.tools = Append(@, Tool("builtin", "read"))]

TheRequests ==
  [c \in Calls |-> CASE c = c2 -> {WithTools} [] c = c4 -> {MustCall, NoModel, Twice} [] OTHER -> {Plain}]

TheUpdates == <<"thread", "parent">>

Line(text) == [text |-> text, json |-> TRUE]
Says(type, texts) ==
  [type |-> type, lines |-> [i \in DOMAIN texts |-> Line(texts[i])], place |-> "text",
   calls |-> <<>>, carries |-> {"thread", "parent"}]

\* Snapshots that grow, one repeated; no text; a call in the body, one in the text, and
\* two; frames without the parent, of which one is cut; and a plain text without the thread
TheReplies ==
  {Says("sse", << <<"a">>, <<"a">>, <<"a", "_", "b">> >>),
   Says("ndjson", << <<"_">> >>),
   [Says("other", << <<>> >>) EXCEPT !.calls = <<"read">>, !.place = "body"],
   [Says("sse", << <<"a">> >>) EXCEPT !.calls = <<"write">>],
   [Says("sse", << <<"a">> >>) EXCEPT !.calls = <<"read", "write">>],
   [Says("other", << <<"a">>, <<"b">> >>) EXCEPT !.lines[2].json = FALSE, !.carries = {"thread"}],
   [Says("other", << <<"a">> >>) EXCEPT !.carries = {"parent"}]}
=============================================================================
