---------------------------- MODULE CircuitBreaker ----------------------------
(***************************************************************************)
(* The circuit breaker around the executors of one provider and transport: *)
(* ResilientChatExecutor of runtime/resilient-executor.ts.  The sessions   *)
(* of a manager share one ProviderCircuitState (resilient() of             *)
(* session-manager.ts), and each session runs one execution at a time, so  *)
(* executions of different sessions overlap.                               *)
(*                                                                         *)
(* Time is the state of openUntil: "closed" when it is 0, "cooling" while  *)
(* it lies ahead, "expired" once it has passed.                            *)
(***************************************************************************)
EXTENDS Naturals, FiniteSets

CONSTANTS Calls,      \* executions, each made at most once
          Sessions,
          sessionOf,  \* [Calls -> Sessions]
          FailureThreshold

ASSUME SessionsAssumption == sessionOf \in [Calls -> Sessions]
ASSUME ThresholdAssumption == FailureThreshold \in Nat \ {0}

VARIABLES
  openUntil,            \* "closed", "cooling" or "expired"
  halfOpenProbe,
  consecutiveFailures,
  call,                 \* [Calls -> CallState]
  blamed                \* the calls that ended in an availability failure

vars == <<openUntil, halfOpenProbe, consecutiveFailures, call, blamed>>

CallState == {"new", "plain", "probe", "rejected", "done"}
InFlight(c) == call[c] \in {"plain", "probe"}

Init ==
  /\ openUntil = "closed"
  /\ halfOpenProbe = FALSE
  /\ consecutiveFailures = 0
  /\ call = [c \in Calls |-> "new"]
  /\ blamed = {}

\* A session's lane is serial: its next call starts when the last has settled.
Ready(c) ==
  /\ call[c] = "new"
  /\ \A d \in Calls : sessionOf[d] = sessionOf[c] => ~InFlight(d)

Becomes(c, s) == call' = [call EXCEPT ![c] = s]

\* execute() rejects: the circuit cools, or another call probes it.
Reject(c) ==
  /\ Ready(c)
  /\ openUntil = "cooling" \/ (openUntil = "expired" /\ halfOpenProbe)
  /\ Becomes(c, "rejected")
  /\ UNCHANGED <<openUntil, halfOpenProbe, consecutiveFailures, blamed>>

Dispatch(c) ==
  /\ Ready(c)
  /\ openUntil = "closed"
  /\ Becomes(c, "plain")
  /\ UNCHANGED <<openUntil, halfOpenProbe, consecutiveFailures, blamed>>

Probe(c) ==
  /\ Ready(c)
  /\ openUntil = "expired"
  /\ ~halfOpenProbe
  /\ halfOpenProbe' = TRUE
  /\ Becomes(c, "probe")
  /\ UNCHANGED <<openUntil, consecutiveFailures, blamed>>

\* Slip: an answer closes the circuit and leaves the failures counted.
AnsweredUnreset(c) ==
  /\ InFlight(c)
  /\ openUntil' = "closed"
  /\ halfOpenProbe' = FALSE
  /\ Becomes(c, "done")
  /\ UNCHANGED <<consecutiveFailures, blamed>>

\* recordSuccess and recordReachable: the provider answered, with a result or an
\* error of its own.
Answered(c) ==
  /\ InFlight(c)
  /\ consecutiveFailures' = 0
  /\ openUntil' = "closed"
  /\ halfOpenProbe' = FALSE
  /\ Becomes(c, "done")
  /\ UNCHANGED blamed

\* recordFailure.
Fails(c) ==
  /\ InFlight(c)
  /\ consecutiveFailures' = consecutiveFailures + 1
  /\ halfOpenProbe' = FALSE
  /\ openUntil' = IF consecutiveFailures' < FailureThreshold THEN openUntil ELSE "cooling"
  /\ Becomes(c, "done")
  /\ blamed' = blamed \union {c}

\* Slip: a cancelled probe keeps the half-open flag.
AbortedKeeps(c) ==
  /\ InFlight(c)
  /\ Becomes(c, "done")
  /\ UNCHANGED <<openUntil, halfOpenProbe, consecutiveFailures, blamed>>

\* The caller cancels or its deadline passes: says nothing of the provider, and
\* reopens for a second when a probe is out, be it this call or another.
Aborted(c) ==
  /\ InFlight(c)
  /\ halfOpenProbe' = FALSE
  /\ openUntil' = IF halfOpenProbe THEN "cooling" ELSE openUntil
  /\ Becomes(c, "done")
  /\ UNCHANGED <<consecutiveFailures, blamed>>

\* Date.now() passes openUntil.
CoolDown ==
  /\ openUntil = "cooling"
  /\ openUntil' = "expired"
  /\ UNCHANGED <<halfOpenProbe, consecutiveFailures, call, blamed>>

Settles(c) == Answered(c) \/ Fails(c) \/ Aborted(c)

Next ==
  \/ \E c \in Calls : Reject(c) \/ Dispatch(c) \/ Probe(c) \/ Settles(c)
  \/ CoolDown

\* The clock runs, and an execution is bounded by its request's deadline.
Fairness == WF_vars(CoolDown) /\ WF_vars(\E c \in Calls : Settles(c))

Spec == Init /\ [][Next]_vars
FairSpec == Spec /\ Fairness

-----------------------------------------------------------------------------
TypeOK ==
  /\ openUntil \in {"closed", "cooling", "expired"}
  /\ halfOpenProbe \in BOOLEAN
  /\ consecutiveFailures \in Nat
  /\ call \in [Calls -> CallState]
  /\ blamed \subseteq Calls

\* The circuit is open exactly when the threshold of consecutive failures has
\* been reached and nothing was answered since, although calls sent before it
\* opened, probes and cancelled calls settle in any order (line 154-180).
OpenIffThreshold == openUntil # "closed" <=> consecutiveFailures >= FailureThreshold

\* The half-open flag never outlives its probe: a probe is still in flight, and
\* only the open circuit has one.  Otherwise every later call would be rejected
\* for ever (line 82-85).
ProbeIsInFlight ==
  halfOpenProbe => openUntil # "closed" /\ \E c \in Calls : call[c] = "probe"

\* An open circuit comes to let a call through again.
OpensAgain ==
  openUntil # "closed" ~> openUntil = "closed" \/ (openUntil = "expired" /\ ~halfOpenProbe)

=============================================================================
