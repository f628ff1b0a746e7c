---------------------------- MODULE MCUiExecutor ----------------------------
(***************************************************************************)
(* UiExecutor with one function that reads and one that writes, and the    *)
(* answers that tell the paths of execute apart.                           *)
(***************************************************************************)
EXTENDS UiExecutor

Reads == [tool |-> "read", valid |-> TRUE]
Writes == [tool |-> "write", valid |-> TRUE]

TheTools == {"read", "write"}
TheEffect == [t \in TheTools |-> IF t = "read" THEN {"explore"} ELSE {"mutate"}]

Says(kind, calls) == <<[kind |-> kind, calls |-> calls]>>

\* Words, JSON, an example in a code fence, a look, a look and a change, and
\* a broken call
TheAnswers ==
  {<<Piece("prose")>>, <<Piece("json")>>, Says("block", <<Writes>>),
   Says("envelope", <<Reads>>), Says("toolfence", <<Reads, Writes>>),
   <<Piece("toolish")>>}
=============================================================================
