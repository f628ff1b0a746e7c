------------------------------ MODULE TapHealth ------------------------------
(***************************************************************************)
(* TapHealthController of runtime/read/tap-health.ts as functions on a     *)
(* record: the learned profile, how many turns in a row have agreed with   *)
(* it, and the circuit that keeps a failing tap out of use.  The clock is  *)
(* only what it says of openUntil: not set ("closed"), ahead ("open") or   *)
(* past ("due").                                                           *)
(***************************************************************************)
EXTENDS Naturals

CONSTANTS Profiles,    \* shapes a provider's stream may have
          None,
          Threshold,   \* failureThreshold
          Required     \* requiredVerifiedTurns

ASSUME HealthAssumption == None \notin Profiles /\ {Threshold, Required} \subseteq Nat \ {0}

Health == [profile : Profiles \union {None}, verified : 0..Required, trusted : BOOLEAN,
           failures : 0..Threshold, circuit : {"closed", "open", "due"}, probe : BOOLEAN]

NewHealth == [profile |-> None, verified |-> 0, trusted |-> FALSE, failures |-> 0,
              circuit |-> "closed", probe |-> FALSE]

\* Counters stop where a comparison no longer tells them apart.
UpTo(bound, n) == IF n < bound THEN n ELSE bound

\* recordFailure
FailureRecorded(h, reason) ==
  LET n == UpTo(Threshold, h.failures + 1) IN
  [h EXCEPT !.failures = n, !.verified = 0, !.trusted = FALSE, !.probe = FALSE,
            !.profile = IF reason \in {"verify_mismatch", "profile_mismatch"} THEN None ELSE @,
            !.circuit = IF n = Threshold THEN "open" ELSE @]

\* recordVerified
VerifiedRecorded(h, p) ==
  LET n == IF h.profile = p THEN UpTo(Required, h.verified + 1) ELSE 1 IN
  [h EXCEPT !.profile = p, !.verified = n, !.failures = 0, !.circuit = "closed",
            !.probe = FALSE, !.trusted = n = Required]

\* turnMode of an attached tap; the first question after the cooldown starts a probe.
Probing(h) == IF h.circuit = "due" THEN [h EXCEPT !.circuit = "closed", !.probe = TRUE] ELSE h
TurnMode(h, attached) ==
  IF ~attached \/ h.circuit = "open" THEN "disabled"
  ELSE IF Probing(h).probe \/ ~h.trusted \/ h.profile = None THEN "shadow" ELSE "active"

\* cooldownMs go by.
Cooled(h) == [h EXCEPT !.circuit = IF @ = "open" THEN "due" ELSE @]
=============================================================================
