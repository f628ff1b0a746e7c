-------------------------- MODULE MCSessionManager --------------------------
(* SessionManager for TLC: what each of the calls may be. *)
EXTENDS SessionManager, TLC

CONSTANTS r1, r2, r3, a, b, c

\* Two calls may meet in one session, three names compete for two places, and
\* chats, a reset and automation share the sessions.
MixedCalls ==
  (r1 :> {"chat"} \X {a, Default})
  @@ (r2 :> ({"chat"} \X {a, b, Default}) \union {<<"reset", b>>})
  @@ (r3 :> ({"browse", "browseClose"} \X {a, b}) \union {<<"chat", c>>})

\* Three chats in two sessions, for PinnedWhileAwaiting: a session is listed as stale and
\* used again.
Chats == [r \in Reqs |-> {"chat"} \X {a, b}]

=============================================================================
