---------------------------- MODULE AnswerStream ----------------------------
(***************************************************************************)
(* What a reply promises its reader, whatever protocol carries it: its     *)
(* text only grows, it is closed once and for good, and it is called       *)
(* complete only when the text is the whole answer.  A reply that ends     *)
(* otherwise has failed, and says so, or was cut.                          *)
(***************************************************************************)
EXTENDS Sequences, SequencesExt

CONSTANTS Answers, None            \* None: no answer has been given yet

VARIABLES answer, text, status

vars == <<answer, text, status>>

Init == answer = None /\ text = <<>> /\ status = "open"

Decide ==
  /\ answer = None /\ answer' \in Answers
  /\ UNCHANGED <<text, status>>

Hear ==
  /\ status = "open"
  /\ IsStrictPrefix(text, text')
  /\ UNCHANGED <<answer, status>>

Complete ==
  /\ status = "open" /\ status' = "complete"
  /\ answer # None /\ IsPrefix(text, answer) /\ text' = answer
  /\ UNCHANGED answer

GiveUp ==
  /\ status = "open" /\ status' \in {"failed", "cut"}
  /\ IsPrefix(text, text')
  /\ UNCHANGED answer

Next == Decide \/ Hear \/ Complete \/ GiveUp

Spec == Init /\ [][Next]_vars
=============================================================================
