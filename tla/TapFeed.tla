------------------------------- MODULE TapFeed -------------------------------
(***************************************************************************)
(* What the passive tap promises the reader of a turn (TapTurn of          *)
(* runtime/read/types.ts): the events of one response, from its match to   *)
(* its end, in order and without a gap, cut short at most by one failure   *)
(* or by the turn's cancellation.  TapStream implements it; ReadPath       *)
(* relies on it.                                                           *)
(***************************************************************************)
EXTENDS Naturals, Sequences, SequencesExt

CONSTANTS Bodies,     \* responses that may be matched
          Chunks,     \* pieces of each
          Failures    \* TapFailureReason

VARIABLES log,        \* events so far
          over        \* no more events will come

feedVars == <<log, over>>

Matched(b) == [type |-> "matched", of |-> b, n |-> 0]
Chunk(b, n) == [type |-> "chunk", of |-> b, n |-> n]
End(b) == [type |-> "end", of |-> b, n |-> 0]
Failure(f) == [type |-> "error", of |-> f, n |-> 0]

Whole(b) == <<Matched(b)>> \o [n \in 1..Chunks |-> Chunk(b, n)] \o <<End(b)>>
Logs ==
  LET some == {<<>>} \union {SubSeq(Whole(b), 1, n) : b \in Bodies, n \in 0..Chunks + 1} IN
  some \union {Whole(b) : b \in Bodies} \union {Append(l, Failure(f)) : l \in some, f \in Failures}

Closing(l) == l # <<>> /\ l[Len(l)].type \in {"end", "error"}

InitFeed == log = <<>> /\ over = TRUE

\* A turn; it may be disabled and bring nothing.
Arm == log' = <<>> /\ over' \in BOOLEAN

Grow ==
  /\ ~over
  /\ \E l \in Logs : /\ l # log /\ IsPrefix(log, l)
                     /\ log' = l /\ over' = Closing(l)

Cancel == over' = TRUE /\ UNCHANGED log

NextFeed == Arm \/ Grow \/ Cancel
Feed == InitFeed /\ [][NextFeed]_feedVars
=============================================================================
