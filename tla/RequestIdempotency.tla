-------------------------- MODULE RequestIdempotency --------------------------
(***************************************************************************)
(* The gateway's memory of request ids: RequestIdempotencyCache of         *)
(* runtime/request-idempotency.ts, with the one fact it asks of            *)
(* ProviderRequestState, whether a prompt was handed to the provider.      *)
(*                                                                         *)
(* An entry is named by the call that created it, its owner; later calls   *)
(* with the same key wait for the owner's promise.  The Map's order is the *)
(* order of the owners' turns.                                             *)
(***************************************************************************)
EXTENDS Naturals, FiniteSets

CONSTANTS Calls,      \* calls of execute(), each made at most once
          Keys,       \* scope and request id
          Payloads,   \* fingerprints
          Asks,       \* [Calls -> SUBSET (Keys \X Payloads)]: what each call may ask
          None,
          MaxEntries, MaxBytes,
          Sizes       \* sizes a result may have

ASSUME CallsAssumption ==
  /\ IsFiniteSet(Calls) /\ IsFiniteSet(Keys)
  /\ None \notin Calls \union Keys \union Payloads
  /\ Asks \in [Calls -> SUBSET (Keys \X Payloads)]
ASSUME LimitsAssumption == MaxEntries \in Nat /\ MaxBytes \in Nat /\ Sizes \subseteq Nat

VARIABLES
  entries,        \* [Keys -> Calls or None]: the owner of the key's entry
  call,           \* [Calls -> Call]
  submitted,      \* the owners that have handed a prompt to the provider
  expired,        \* the owners whose retention time has passed
  turn, turns,    \* [Calls -> Nat] order of insertion, and insertions so far
  bytes,          \* [Calls -> Nat]: entry.bytes
  retainedBytes

vars == <<entries, call, submitted, expired, turn, turns, bytes, retainedBytes>>

Call == [pc : {"new", "running", "waiting", "ok", "failed", "conflict", "full"},
         key : Keys \union {None}, payload : Payloads \union {None}, owner : Calls \union {None}]

Init ==
  /\ entries = [k \in Keys |-> None]
  /\ call = [c \in Calls |-> [pc |-> "new", key |-> None, payload |-> None, owner |-> None]]
  /\ submitted = {}
  /\ expired = {}
  /\ turn = [c \in Calls |-> 0]
  /\ turns = 0
  /\ bytes = [c \in Calls |-> 0]
  /\ retainedBytes = 0

\* Keys in the map; those whose value is known to be complete; those past their time.
Stored == {k \in Keys : entries[k] # None}
Completed == {k \in Stored : call[entries[k]].pc = "ok"}
Stale == {k \in Completed : entries[k] \in expired}

\* Each byte of some keys, and how many these are: sizes are summed by counting.
Units(size, S) == UNION {{k} \X (1..size[k]) : k \in S}
Total(size, S) == Cardinality(Units(size, S))

\* Bytes of the entries of some keys.
Weight(S) == Total([k \in S |-> bytes[entries[k]]], S)

Older(j, k) == turn[entries[j]] < turn[entries[k]]

\* Slip: the key stays, with no value.
WithoutValue(S) == [k \in Keys |-> IF k \in S THEN "undefined" ELSE entries[k]]
\* The map without some keys, and its bytes without theirs: remove() of each.
Without(S) == [k \in Keys |-> IF k \in S THEN None ELSE entries[k]]
Less(S) == IF Weight(S) > retainedBytes THEN 0 ELSE retainedBytes - Weight(S)

-----------------------------------------------------------------------------
\* execute() on a key in the map, after prune(): share the promise, or refuse a
\* different payload.
Share(c, k, p) ==
  LET o == entries[k]
      same == call[o].payload = p
      settled == call[o].pc # "running" IN
  /\ k \in Stored \ Stale
  /\ entries' = Without(Stale)
  /\ retainedBytes' = Less(Stale)
  /\ call' = [call EXCEPT ![c] =
       [pc |-> IF ~same THEN "conflict" ELSE IF settled THEN call[o].pc ELSE "waiting",
        key |-> k, payload |-> p, owner |-> IF same THEN o ELSE None]]
  /\ UNCHANGED <<submitted, expired, turn, turns, bytes>>

\* Slip: one entry more.
FullLate(S) == Cardinality(S) > MaxEntries
Full(S) == Cardinality(S) >= MaxEntries

\* The oldest complete entry among the keys of S, if there is one.
Oldest(S) == {k \in S \intersect Completed : \A j \in S \intersect Completed : ~Older(j, k)}

\* execute() on a key that is not, or no longer, in the map: the oldest complete
\* entry makes room when there is none, and without one the call is refused.
Insert(c, k, p) ==
  LET kept == Stored \ Stale
      room == IF Full(kept) THEN Oldest(kept) ELSE {}
      gone == Stale \union room IN
  /\ k \notin kept
  /\ retainedBytes' = Less(gone)
  /\ IF Full(kept) /\ room = {}
       THEN /\ entries' = Without(gone)
            /\ call' = [call EXCEPT ![c].pc = "full"]
            /\ UNCHANGED <<turn, turns>>
       ELSE /\ entries' = [Without(gone) EXCEPT ![k] = c]
            /\ call' = [call EXCEPT ![c] =
                          [pc |-> "running", key |-> k, payload |-> p, owner |-> c]]
            /\ turns' = turns + 1
            /\ turn' = [turn EXCEPT ![c] = turns + 1]
  /\ UNCHANGED <<submitted, expired, bytes>>

Execute(c, k, p) == call[c].pc = "new" /\ (Share(c, k, p) \/ Insert(c, k, p))

\* ProviderRequestState.beforeSubmit: from here the provider may have acted.
Submit(c) ==
  /\ call[c].pc = "running"
  /\ submitted' = submitted \union {c}
  /\ UNCHANGED <<entries, call, expired, turn, turns, bytes, retainedBytes>>

\* The owner and all that wait for its promise settle together.
Settle(c, outcome) ==
  call' = [d \in Calls |-> IF call[d].owner = c /\ call[d].pc \in {"running", "waiting"}
                             THEN [call[d] EXCEPT !.pc = outcome] ELSE call[d]]

\* The factory resolves: the value is kept, and complete values go, oldest first,
\* this one included, until the total fits.  transaction() counts a result as a
\* submission if the executor has not (session-manager.ts 298).
Succeeds(c, size) ==
  LET key == call[c].key
      total == retainedBytes + size
      complete == Completed \union {key}
      Bytes(S) == Total([k \in S |-> IF k = key THEN size ELSE bytes[entries[k]]], S)
      gone == {k \in complete : total > MaxBytes + Bytes({j \in complete : Older(j, k)})} IN
  /\ call[c].pc = "running"
  /\ c \in submitted
  /\ Settle(c, "ok")
  /\ entries' = Without(gone)
  /\ retainedBytes' = IF Bytes(gone) > total THEN 0 ELSE total - Bytes(gone)
  /\ bytes' = [bytes EXCEPT ![c] = size]
  /\ UNCHANGED <<submitted, expired, turn, turns>>

\* The same, but the value cannot be counted, JSON.stringify having thrown: it goes.
SucceedsUncounted(c) ==
  /\ call[c].pc = "running"
  /\ c \in submitted
  /\ Settle(c, "ok")
  /\ entries' = [entries EXCEPT ![call[c].key] = None]
  /\ UNCHANGED <<submitted, expired, turn, turns, bytes, retainedBytes>>

\* Slip: every failure releases the key.
FailsReleasing(c) ==
  /\ call[c].pc = "running"
  /\ Settle(c, "failed")
  /\ entries' = [entries EXCEPT ![call[c].key] = None]
  /\ UNCHANGED <<submitted, expired, turn, turns, bytes, retainedBytes>>
\* Slip: the callers that share the promise are forgotten.
FailsAlone(c) ==
  /\ call[c].pc = "running"
  /\ call' = [call EXCEPT ![c].pc = "failed"]
  /\ entries' = IF c \in submitted THEN entries ELSE [entries EXCEPT ![call[c].key] = None]
  /\ UNCHANGED <<submitted, expired, turn, turns, bytes, retainedBytes>>
\* The factory rejects: nothing was submitted and the key is free again, or the
\* outcome is uncertain and the entry stays for the life of the process.
Fails(c) ==
  /\ call[c].pc = "running"
  /\ Settle(c, "failed")
  /\ entries' = IF c \in submitted THEN entries ELSE [entries EXCEPT ![call[c].key] = None]
  /\ UNCHANGED <<submitted, expired, turn, turns, bytes, retainedBytes>>

\* ttlMs passes after completion.
Expire(c) ==
  /\ \E k \in Completed : entries[k] = c
  /\ c \notin expired
  /\ expired' = expired \union {c}
  /\ UNCHANGED <<entries, call, submitted, turn, turns, bytes, retainedBytes>>

Next ==
  \E c \in Calls :
    \/ \E ask \in Asks[c] : Execute(c, ask[1], ask[2])
    \/ Submit(c)
    \/ \E size \in Sizes : Succeeds(c, size)
    \/ SucceedsUncounted(c)
    \/ Fails(c)
    \/ Expire(c)

\* An execution settles: its ProviderRequestState aborts it at its deadline.
Settles(c) == (\E size \in Sizes : Succeeds(c, size)) \/ SucceedsUncounted(c) \/ Fails(c)
Fairness == \A c \in Calls : WF_vars(Settles(c))

Spec == Init /\ [][Next]_vars
FairSpec == Spec /\ Fairness

-----------------------------------------------------------------------------
TypeOK ==
  /\ entries \in [Keys -> Calls \union {None}]
  /\ call \in [Calls -> Call]
  /\ submitted \subseteq Calls
  /\ expired \subseteq Calls
  /\ turn \in [Calls -> Nat]
  /\ turns \in Nat
  /\ bytes \in [Calls -> Nat]
  /\ retainedBytes \in Nat

Owns(c) == call[c].owner = c
\* The provider may be acting on c's prompt, or may have.
InDoubt(c) == Owns(c) /\ c \in submitted /\ call[c].pc \in {"running", "failed"}

\* An execution under way, or one that failed once submitted, keeps its key
\* whatever expires, is evicted or is released meanwhile; a key is never held
\* by a failure that submitted nothing.
EntryWhileInDoubt ==
  \A c \in Calls : Owns(c) =>
    /\ call[c].pc = "running" \/ InDoubt(c) => entries[call[c].key] = c
    /\ call[c].pc = "failed" /\ c \notin submitted => entries[call[c].key] # c

\* Two executions of one request id are never both in doubt: a retry can not put
\* the prompt in the browser a second time while the first may have gone through.
NoDoubleSubmission ==
  \A c, d \in Calls : InDoubt(c) /\ InDoubt(d) /\ call[c].key = call[d].key => c = d

\* The running total is the bytes of the entries in the map, through every insert,
\* eviction, expiry and failure, and neither entries nor bytes exceed their limits.
WithinLimits ==
  /\ retainedBytes = Weight(Stored)
  /\ Cardinality(Stored) <= MaxEntries /\ retainedBytes <= MaxBytes

\* Every call settles: with the outcome of its owner, or by a refusal.  Calls are
\* made once, hence the form: in the end none is under way.
CallsSettle == <>[](\A c \in Calls : call[c].pc \notin {"running", "waiting"})
=============================================================================
