----------------------------- MODULE MCTapStream -----------------------------
(* TapStream for TLC: two requests of one page, as the tap may see them. *)
EXTENDS TapStream, TLC

CONSTANTS r1, r2

\* The body of one is to be fetched, and carries the prompt or not; the other carries
\* part of it, or it all again (the page retries).
Seen ==
  LET in(anchors, score, inline) == [anchors |-> anchors, score |-> score, inline |-> inline] IN
  (r1 :> {in("full", 2, FALSE), in("none", 0, FALSE)})
  @@ (r2 :> {in("partial", 1, TRUE), in("full", 2, TRUE)})

\* The first may be answered with a type the learned profile does not have, and the
\* second from another place.
MayBe == (r1 :> {"sse", "off_profile"}) @@ (r2 :> {"sse", "moved"})

\* One answer fits in tapMaxBytes; two pieces of the other response do not.
Pieces == (r1 :> 1) @@ (r2 :> 2)
=============================================================================
