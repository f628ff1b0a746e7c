------------------------------ MODULE Reconciler ------------------------------
(***************************************************************************)
(* ResponseReconciler of runtime/read/reconciler.ts: what each of its      *)
(* queued actions does to the text emitted so far.  A text is a sequence   *)
(* of pieces.  An action yields the reconciler after it, the delta it      *)
(* emits (at most one) and whether it throws StreamMismatchError; with     *)
(* `streams` FALSE nobody is listening and emitted text may be taken back. *)
(***************************************************************************)
EXTENDS Naturals, Sequences, SequencesExt

NewReconciler(active) ==
  [source |-> IF active THEN "tap" ELSE "dom", emitted |-> <<>>, dom |-> <<>>]

Nothing(r) == [rec |-> r, delta |-> <<>>, bad |-> FALSE]
Mismatch(r) == [rec |-> r, delta |-> <<>>, bad |-> TRUE]

\* emit
Emit(r, delta) == [rec |-> [r EXCEPT !.emitted = @ \o delta], delta |-> delta, bad |-> FALSE]

Rest(text, n) == SubSeq(text, n + 1, Len(text))

\* flushDomSuffix
\* Slip: the text is cut at the length of what was emitted, whatever that was.
FlushByLength(r, streams, final) ==
  IF ~final /\ IsPrefix(r.dom, r.emitted) THEN Nothing(r)
  ELSE IF Len(r.dom) <= Len(r.emitted) THEN Nothing(r)
  ELSE Emit(r, Rest(r.dom, Len(r.emitted)))
Flush(r, streams, final) ==
  IF ~final /\ IsPrefix(r.dom, r.emitted) THEN Nothing(r)
  ELSE IF ~IsPrefix(r.emitted, r.dom)
    THEN IF streams THEN Mismatch(r) ELSE Emit([r EXCEPT !.emitted = <<>>], r.dom)
  ELSE Emit(r, Rest(r.dom, Len(r.emitted)))

\* tapDelta, domDelta, fallback, finalize
Action(r, streams, act, d) ==
  CASE act = "tap" -> IF r.source = "tap" THEN Emit(r, d) ELSE Nothing(r)
    [] act = "dom" -> LET s == [r EXCEPT !.dom = @ \o d] IN
                      IF r.source = "dom" THEN Flush(s, streams, FALSE) ELSE Nothing(s)
    [] act = "fallback" -> Flush([r EXCEPT !.source = "dom"], streams, FALSE)
    [] act = "final" -> Flush([r EXCEPT !.dom = d], streams, TRUE)
    [] OTHER -> Emit(r, d)     \* "direct": no reconciler between the monitor and the client
=============================================================================
