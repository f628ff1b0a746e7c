------------------------ MODULE MCRequestIdempotency ------------------------
(* RequestIdempotency for TLC: what each of the calls may ask. *)
EXTENDS RequestIdempotency, TLC

CONSTANTS c1, c2, c3, c4, k1, k2, k3, p1, p2

\* A request id and its retries, one of them with another payload, and requests
\* under other ids that compete for the room.
Retries ==
  (c1 :> {<<k1, p1>>})
  @@ (c2 :> {<<k1, p1>>, <<k1, p2>>, <<k2, p1>>})
  @@ (c3 :> {<<k1, p1>>, <<k2, p1>>})
  @@ (c4 :> {<<k1, p1>>, <<k3, p1>>})
=============================================================================
