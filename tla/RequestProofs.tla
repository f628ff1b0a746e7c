---------------------------- MODULE RequestProofs ----------------------------
(***************************************************************************)
(* What holds of a request, for any numbers of pieces, calls, keys and     *)
(* payloads and any limits.                                                *)
(*                                                                         *)
(* Of its id (RequestIdempotency): no request id is in doubt twice, and    *)
(* the cache keeps within its limits.  The byte totals count the bytes of  *)
(* the entries one by one, so that they follow from what is known of the   *)
(* cardinality of finite sets.                                             *)
(*                                                                         *)
(* Of its reply (ResponseStream): to its reader it is an answer stream,    *)
(* its end is told, and what is sent is well formed.  Frames are flattened *)
(* and dropped from sequences by folds of the community modules; what is   *)
(* known of those is proved first, from well-founded induction on sets of  *)
(* naturals.                                                               *)
(***************************************************************************)
EXTENDS RequestIdempotency, ResponseStream, FiniteSetTheorems, SequenceTheorems,
        WellFoundedInduction, TLAPS

-----------------------------------------------------------------------------
(* The cache of request ids.                                               *)

Types ==
  /\ entries \in [Keys -> Calls \union {None}]
  /\ call \in [Calls -> Call]
  /\ submitted \subseteq Calls

\* What the map holds is owned under that very key and was not given up.
EntriesAreOwned ==
  \A k \in Keys : entries[k] # None =>
    /\ Owns(entries[k])
    /\ call[entries[k]].key = k
    /\ call[entries[k]].pc \in {"running", "ok", "failed"}

\* Only owners run; a call that has not been made owns nothing and shares nothing.
RunnersOwn ==
  \A c \in Calls :
    /\ call[c].pc = "running" => Owns(c) /\ call[c].key \in Keys
    /\ call[c].pc = "waiting" => ~Owns(c)
    /\ call[c].pc = "new" => call[c].owner = None /\ c \notin submitted
    /\ Owns(c) => call[c].key \in Keys

IInv == Types /\ EntriesAreOwned /\ RunnersOwn /\ EntryWhileInDoubt

-----------------------------------------------------------------------------
LEMMA Initially == Init => IInv
<1> SUFFICES ASSUME Init PROVE IInv
  OBVIOUS
<1> USE CallsAssumption
<1>1. Types
  BY DEF Init, Types, Call
<1>2. EntriesAreOwned /\ RunnersOwn /\ EntryWhileInDoubt
  BY DEF Init, EntriesAreOwned, RunnersOwn, EntryWhileInDoubt, Owns, InDoubt
<1> QED BY <1>1, <1>2 DEF IInv

\* Dropping complete entries of the map disturbs nothing.
LEMMA DropComplete ==
  ASSUME IInv, NEW S \in SUBSET Completed
  PROVE  /\ Without(S) \in [Keys -> Calls \union {None}]
         /\ \A k \in Keys : Without(S)[k] # None => Without(S)[k] = entries[k]
         /\ \A c \in Calls : Owns(c) /\ call[c].pc \in {"running", "failed"}
                                   /\ entries[call[c].key] = c
              => Without(S)[call[c].key] = c
<1> USE CallsAssumption DEF IInv, Types
<1>1. Without(S) \in [Keys -> Calls \union {None}]
  BY DEF Without
<1>2. \A k \in Keys : Without(S)[k] # None => Without(S)[k] = entries[k]
  BY DEF Without
<1>3. ASSUME NEW c \in Calls, Owns(c), call[c].pc \in {"running", "failed"},
             entries[call[c].key] = c
      PROVE  Without(S)[call[c].key] = c
  <2>1. call[c].key \in Keys
    BY <1>3 DEF RunnersOwn
  <2>2. call[c].key \notin S
    BY <1>3, <2>1 DEF Completed
  <2> QED BY <1>3, <2>1, <2>2 DEF Without
<1> QED BY <1>1, <1>2, <1>3

LEMMA ShareStep ==
  ASSUME IInv, NEW c \in Calls, NEW k \in Keys, NEW p \in Payloads,
         call[c].pc = "new", Share(c, k, p)
  PROVE  IInv'
<1> USE CallsAssumption DEF IInv
<1> DEFINE o == entries[k]
<1>1. o \in Calls /\ Owns(o) /\ call[o].pc \in {"running", "ok", "failed"} /\ o # c
  BY DEF Share, Stored, Types, EntriesAreOwned
<1>2. Stale \subseteq Completed
  BY DEF Stale
<1>3. entries' = Without(Stale) /\ submitted' = submitted
  BY DEF Share
<1>4. PICK s \in {"conflict", "waiting", "ok", "failed"} : \E w \in {o, None} :
        call' = [call EXCEPT ![c] = [pc |-> s, key |-> k, payload |-> p, owner |-> w]]
  BY <1>1 DEF Share
<1>5. PICK w \in {o, None} :
        call' = [call EXCEPT ![c] = [pc |-> s, key |-> k, payload |-> p, owner |-> w]]
  BY <1>4
<1>6. w # c /\ w \in Calls \union {None}
  BY <1>1
<1>7. /\ \A d \in Calls : d # c => call'[d] = call[d]
      /\ call'[c].pc = s /\ call'[c].owner = w
  BY <1>5 DEF Types
<1>8. Types'
  BY <1>2, <1>3, <1>5, <1>6, DropComplete DEF Types, Call
<1>9. ~Owns(c) /\ ~Owns(c)' /\ c \notin submitted
  BY <1>6, <1>7 DEF Owns, RunnersOwn
<1>10. \A j \in Keys : entries'[j] # None =>
         entries'[j] = entries[j] /\ entries'[j] \in Calls /\ entries'[j] # c
  BY <1>2, <1>3, <1>8, <1>9, DropComplete DEF EntriesAreOwned, Types
<1>11. EntriesAreOwned'
  BY <1>7, <1>10 DEF EntriesAreOwned, Owns
<1>12. RunnersOwn'
  BY <1>3, <1>7, <1>9 DEF RunnersOwn, Owns
<1>13. EntryWhileInDoubt'
  <2> SUFFICES ASSUME NEW d \in Calls, Owns(d)'
               PROVE  /\ (call[d].pc = "running" \/ InDoubt(d))' => entries'[call'[d].key] = d
                      /\ call'[d].pc = "failed" /\ d \notin submitted' => entries'[call'[d].key] # d
    BY DEF EntryWhileInDoubt
  <2>1. d # c /\ call'[d] = call[d] /\ Owns(d)
    BY <1>7, <1>9 DEF Owns
  <2>2. call[d].key \in Keys
    BY <2>1 DEF RunnersOwn
  <2>3. ASSUME (call[d].pc = "running" \/ InDoubt(d))' PROVE entries'[call'[d].key] = d
    <3>1. call[d].pc = "running" \/ InDoubt(d)
      BY <1>3, <2>1, <2>3 DEF InDoubt
    <3>2. entries[call[d].key] = d /\ call[d].pc \in {"running", "failed"}
      BY <2>1, <3>1 DEF EntryWhileInDoubt, InDoubt
    <3> QED BY <1>2, <1>3, <2>1, <3>2, DropComplete
  <2>4. ASSUME call'[d].pc = "failed", d \notin submitted' PROVE entries'[call'[d].key] # d
    <3>1. entries[call[d].key] # d
      BY <1>3, <2>1, <2>4 DEF EntryWhileInDoubt
    <3> QED BY <1>10, <2>1, <2>2, <3>1, CallsAssumption DEF Types
  <2> QED BY <2>3, <2>4
<1> QED BY <1>8, <1>11, <1>12, <1>13

LEMMA InsertStep ==
  ASSUME IInv, NEW c \in Calls, NEW k \in Keys, NEW p \in Payloads,
         call[c].pc = "new", Insert(c, k, p)
  PROVE  IInv'
<1> USE CallsAssumption DEF IInv
<1> DEFINE kept == Stored \ Stale
           room == IF Full(kept) THEN Oldest(kept) ELSE {}
           gone == Stale \union room
<1>1. gone \in SUBSET Completed
  BY DEF Stale, Oldest
<1>2. k \notin kept /\ submitted' = submitted
  BY DEF Insert
<1>3. ~Owns(c) /\ c \notin submitted /\ c # None
  BY DEF Owns, RunnersOwn
<1>4. \A j \in Keys : entries[j] # c
  BY <1>3 DEF EntriesAreOwned
<1>5. \A j \in Keys : Without(gone)[j] # None =>
        Without(gone)[j] = entries[j] /\ Without(gone)[j] \in Calls
  BY <1>1, DropComplete DEF Types
<1>6. CASE Full(kept) /\ room = {}
  <2>1. entries' = Without(gone) /\ call' = [call EXCEPT ![c].pc = "full"]
    BY <1>6 DEF Insert
  <2>2. /\ \A d \in Calls : d # c => call'[d] = call[d]
        /\ call'[c].pc = "full" /\ call'[c].owner = call[c].owner
    BY <2>1 DEF Types, Call
  <2>3. Types'
    BY <1>1, <1>2, <2>1, DropComplete DEF Types, Call
  <2>4. ~Owns(c)'
    BY <1>3, <2>2 DEF Owns
  <2>5. ASSUME NEW j \in Keys, entries'[j] # None
        PROVE  /\ call'[entries'[j]].owner = entries'[j] /\ call'[entries'[j]].key = j
               /\ call'[entries'[j]].pc \in {"running", "ok", "failed"}
    <3>1. entries'[j] = entries[j] /\ entries[j] \in Calls /\ entries[j] # c
      BY <1>4, <1>5, <2>1, <2>5
    <3>2. call'[entries'[j]] = call[entries[j]]
      BY <2>2, <3>1
    <3> QED BY <2>5, <3>1, <3>2 DEF EntriesAreOwned, Owns
  <2>6. RunnersOwn'
    BY <1>2, <2>2, <2>4 DEF RunnersOwn, Owns
  <2>7. ASSUME NEW d \in Calls, Owns(d)'
        PROVE  /\ (call[d].pc = "running" \/ InDoubt(d))' => entries'[call'[d].key] = d
               /\ call'[d].pc = "failed" /\ d \notin submitted' => entries'[call'[d].key] # d
    <3>1. d # c /\ call'[d] = call[d] /\ Owns(d) /\ call[d].key \in Keys
      BY <2>2, <2>4, <2>7 DEF Owns, RunnersOwn
    <3>2. ASSUME (call[d].pc = "running" \/ InDoubt(d))' PROVE entries'[call'[d].key] = d
      <4>1. entries[call[d].key] = d /\ call[d].pc \in {"running", "failed"}
        BY <1>2, <3>1, <3>2 DEF EntryWhileInDoubt, InDoubt
      <4> QED BY <1>1, <2>1, <3>1, <4>1, DropComplete
    <3>3. ASSUME call'[d].pc = "failed", d \notin submitted' PROVE entries'[call'[d].key] # d
      <4>1. entries[call[d].key] # d
        BY <1>2, <3>1, <3>3 DEF EntryWhileInDoubt
      <4> QED BY <1>5, <2>1, <3>1, <4>1
    <3> QED BY <3>2, <3>3
  <2>8. EntriesAreOwned'
    BY <2>5 DEF EntriesAreOwned, Owns
  <2> QED BY <2>3, <2>6, <2>7, <2>8 DEF EntryWhileInDoubt
<1>7. CASE ~(Full(kept) /\ room = {})
  <2>1. /\ entries' = [Without(gone) EXCEPT ![k] = c]
        /\ call' = [call EXCEPT ![c] = [pc |-> "running", key |-> k, payload |-> p, owner |-> c]]
    BY <1>7 DEF Insert
  <2>2. /\ \A d \in Calls : d # c => call'[d] = call[d]
        /\ call'[c].pc = "running" /\ call'[c].owner = c /\ call'[c].key = k
    BY <2>1 DEF Types
  <2>3. Without(gone) \in [Keys -> Calls \union {None}]
    BY <1>1, DropComplete
  <2>4. Types'
    BY <1>2, <2>1, <2>3 DEF Types, Call
  <2>5. entries'[k] = c /\ \A j \in Keys : j # k => entries'[j] = Without(gone)[j]
    BY <2>1, <2>3
  <2>6. ASSUME NEW j \in Keys, entries'[j] # None
        PROVE  /\ call'[entries'[j]].owner = entries'[j] /\ call'[entries'[j]].key = j
               /\ call'[entries'[j]].pc \in {"running", "ok", "failed"}
    <3>1. CASE j = k
      BY <2>2, <2>5, <3>1 DEF Owns
    <3>2. CASE j # k
      <4>1. entries'[j] = entries[j] /\ entries[j] \in Calls /\ entries[j] # c
        BY <1>4, <1>5, <2>5, <2>6, <3>2
      <4>2. call'[entries'[j]] = call[entries[j]]
        BY <2>2, <4>1
      <4> QED BY <2>6, <4>1, <4>2 DEF EntriesAreOwned, Owns
    <3> QED BY <3>1, <3>2
  <2>7. RunnersOwn'
    BY <1>2, <2>2 DEF RunnersOwn, Owns
  <2>8. ASSUME NEW d \in Calls, Owns(d)'
        PROVE  /\ (call[d].pc = "running" \/ InDoubt(d))' => entries'[call'[d].key] = d
               /\ call'[d].pc = "failed" /\ d \notin submitted' => entries'[call'[d].key] # d
    <3>1. CASE d = c
      BY <2>2, <2>5, <3>1
    <3>2. CASE d # c
      <4>1. call'[d] = call[d] /\ Owns(d) /\ call[d].key \in Keys
        BY <2>2, <2>8, <3>2 DEF Owns, RunnersOwn
      <4>2. ASSUME (call[d].pc = "running" \/ InDoubt(d))' PROVE entries'[call'[d].key] = d
        <5>1. entries[call[d].key] = d /\ call[d].pc \in {"running", "failed"}
          BY <1>2, <4>1, <4>2 DEF EntryWhileInDoubt, InDoubt
        <5>2. call[d].key # k
          BY <1>2, <4>1, <5>1 DEF Stored, Stale, Completed
        <5> QED BY <1>1, <2>5, <4>1, <5>1, <5>2, DropComplete
      <4>3. ASSUME call'[d].pc = "failed", d \notin submitted' PROVE entries'[call'[d].key] # d
        <5>1. entries[call[d].key] # d
          BY <1>2, <4>1, <4>3 DEF EntryWhileInDoubt
        <5>2. CASE call[d].key = k
          BY <2>5, <3>2, <4>1, <5>2
        <5>3. CASE call[d].key # k
          <6>1. entries'[call[d].key] = Without(gone)[call[d].key]
            BY <2>5, <4>1, <5>3
          <6>2. d # None
            OBVIOUS
          <6> QED BY <1>5, <4>1, <5>1, <6>1, <6>2
        <5> QED BY <5>2, <5>3
      <4> QED BY <4>2, <4>3
    <3> QED BY <3>1, <3>2
  <2>9. EntriesAreOwned'
    BY <2>6 DEF EntriesAreOwned, Owns
  <2> QED BY <2>4, <2>7, <2>8, <2>9 DEF EntryWhileInDoubt
<1> QED BY <1>6, <1>7

LEMMA SubmitStep == ASSUME IInv, NEW c \in Calls, Submit(c) PROVE IInv'
<1> USE CallsAssumption DEF IInv
<1>1. Types' /\ EntriesAreOwned' /\ RunnersOwn'
  BY DEF Submit, Types, EntriesAreOwned, RunnersOwn, Owns
<1>2. EntryWhileInDoubt'
  BY DEF Submit, EntryWhileInDoubt, RunnersOwn, Owns, InDoubt
<1> QED BY <1>1, <1>2

\* When an owner settles, so do those that share its promise, and nobody else.
LEMMA SettleEffect ==
  ASSUME IInv, NEW c \in Calls, call[c].pc = "running",
         NEW outcome \in {"ok", "failed"}, Settle(c, outcome)
  PROVE  /\ call' \in [Calls -> Call]
         /\ \A d \in Calls : call'[d].owner = call[d].owner /\ call'[d].key = call[d].key
         /\ call'[c].pc = outcome
         /\ \A d \in Calls : d # c /\ Owns(d) => call'[d] = call[d]
         /\ \A d \in Calls : call'[d].pc \in {"running", "waiting", "new"} => call'[d] = call[d]
         /\ \A d \in Calls : \/ call'[d].pc = call[d].pc
                             \/ call'[d].pc = outcome /\ (d = c \/ ~Owns(d))
<1> USE DEF IInv
<1>1. Owns(c)
  BY DEF RunnersOwn
<1>2. call' \in [Calls -> Call]
  BY DEF Settle, Types, Call
<1>3. \A d \in Calls : call'[d] = IF call[d].owner = c /\ call[d].pc \in {"running", "waiting"}
                                     THEN [call[d] EXCEPT !.pc = outcome] ELSE call[d]
  BY DEF Settle
<1>4. \A d \in Calls : call[d] \in Call
  BY DEF Types
<1>5. \A d \in Calls : call[d].pc = "running" => Owns(d)
  BY DEF RunnersOwn
<1>6. \A d \in Calls : /\ call'[d].owner = call[d].owner /\ call'[d].key = call[d].key
                       /\ call'[d].pc \in {call[d].pc, outcome}
                       /\ call'[d] # call[d] => call[d].owner = c /\ call'[d].pc = outcome
  BY <1>3, <1>4 DEF Call
<1>7. call'[c].pc = outcome
  BY <1>1, <1>3, <1>4 DEF Call, Owns
<1>8. \A d \in Calls : d # c /\ Owns(d) => call'[d] = call[d]
  BY <1>3 DEF Owns
<1>9. \A d \in Calls : call'[d].pc \in {"running", "waiting", "new"} => call'[d] = call[d]
  <2> SUFFICES ASSUME NEW d \in Calls, call'[d].pc \in {"running", "waiting", "new"},
                      call'[d] # call[d]
               PROVE  FALSE
    OBVIOUS
  <2>1. call'[d].pc = outcome
    BY <1>6
  <2> QED BY <2>1
<1>10. \A d \in Calls : call'[d].pc = call[d].pc \/ (call'[d].pc = outcome /\ (d = c \/ ~Owns(d)))
  <2> SUFFICES ASSUME NEW d \in Calls, call'[d] # call[d]
               PROVE  call'[d].pc = outcome /\ (d = c \/ ~Owns(d))
    OBVIOUS
  <2> QED BY <1>6, <1>8
<1>11. \A d \in Calls : call'[d].owner = call[d].owner /\ call'[d].key = call[d].key
  BY <1>6
<1> HIDE DEF IInv
<1> QED BY <1>2, <1>7, <1>8, <1>9, <1>10, <1>11, Zenon

LEMMA SucceedsStep ==
  ASSUME IInv, NEW c \in Calls, NEW size \in Sizes, Succeeds(c, size)
  PROVE  IInv'
<1> USE CallsAssumption DEF IInv
<1>1. /\ call[c].pc = "running" /\ c \in submitted /\ Settle(c, "ok")
      /\ submitted' = submitted
  BY DEF Succeeds
<1>2. Owns(c) /\ call[c].key \in Keys /\ entries[call[c].key] = c
  BY <1>1 DEF RunnersOwn, EntryWhileInDoubt
<1>3. PICK gone \in SUBSET (Completed \union {call[c].key}) : entries' = Without(gone)
  BY DEF Succeeds
<1>4. /\ entries' \in [Keys -> Calls \union {None}]
      /\ \A j \in Keys : entries'[j] = IF j \in gone THEN None ELSE entries[j]
  BY <1>3 DEF Without, Types
<1>5. Types'
  BY <1>1, <1>4, SettleEffect DEF Types
<1>6. EntriesAreOwned'
  BY <1>1, <1>4, SettleEffect DEF EntriesAreOwned, Owns, Types
<1>7. RunnersOwn'
  BY <1>1, SettleEffect DEF RunnersOwn, Owns
<1>8. ASSUME NEW d \in Calls, Owns(d)'
      PROVE  /\ (call[d].pc = "running" \/ InDoubt(d))' => entries'[call'[d].key] = d
             /\ call'[d].pc = "failed" /\ d \notin submitted' => entries'[call'[d].key] # d
  <2>1. CASE d = c
    BY <1>1, <2>1, SettleEffect DEF InDoubt
  <2>2. CASE d # c
    <3>1. Owns(d) /\ call'[d] = call[d] /\ call[d].key \in Keys
      BY <1>1, <1>8, <2>2, SettleEffect DEF Owns, RunnersOwn
    <3>2. ASSUME (call[d].pc = "running" \/ InDoubt(d))' PROVE entries'[call'[d].key] = d
      <4>1. entries[call[d].key] = d /\ call[d].pc \in {"running", "failed"}
        BY <1>1, <3>1, <3>2 DEF EntryWhileInDoubt, InDoubt
      <4>2. call[d].key \notin gone
        BY <1>2, <1>3, <2>2, <4>1 DEF Completed
      <4> QED BY <1>4, <3>1, <4>1, <4>2
    <3>3. ASSUME call'[d].pc = "failed", d \notin submitted' PROVE entries'[call'[d].key] # d
      <4>1. entries[call[d].key] # d
        BY <1>1, <3>1, <3>3 DEF EntryWhileInDoubt
      <4> QED BY <1>4, <3>1, <4>1
    <3> QED BY <3>2, <3>3
  <2> QED BY <2>1, <2>2
<1> QED BY <1>5, <1>6, <1>7, <1>8 DEF EntryWhileInDoubt

LEMMA UncountedStep == ASSUME IInv, NEW c \in Calls, SucceedsUncounted(c) PROVE IInv'
<1> USE CallsAssumption DEF IInv
<1>1. /\ call[c].pc = "running" /\ Settle(c, "ok") /\ submitted' = submitted
      /\ entries' = [entries EXCEPT ![call[c].key] = None]
  BY DEF SucceedsUncounted
<1>2. Owns(c) /\ call[c].key \in Keys /\ entries[call[c].key] = c
  BY <1>1 DEF RunnersOwn, EntryWhileInDoubt
<1>3. /\ entries' \in [Keys -> Calls \union {None}]
      /\ \A j \in Keys : entries'[j] # None => entries'[j] = entries[j]
      /\ \A j \in Keys : j # call[c].key => entries'[j] = entries[j]
  BY <1>1, <1>2 DEF Types
<1>4. Types'
  BY <1>1, <1>3, SettleEffect DEF Types
<1>5. EntriesAreOwned'
  BY <1>1, <1>3, SettleEffect DEF EntriesAreOwned, Owns, Types
<1>6. RunnersOwn'
  BY <1>1, SettleEffect DEF RunnersOwn, Owns
<1>7. ASSUME NEW d \in Calls, Owns(d)'
      PROVE  /\ (call[d].pc = "running" \/ InDoubt(d))' => entries'[call'[d].key] = d
             /\ call'[d].pc = "failed" /\ d \notin submitted' => entries'[call'[d].key] # d
  <2>1. CASE d = c
    BY <1>1, <2>1, SettleEffect DEF InDoubt
  <2>2. CASE d # c
    <3>1. Owns(d) /\ call'[d] = call[d] /\ call[d].key \in Keys
      BY <1>1, <1>7, <2>2, SettleEffect DEF Owns, RunnersOwn
    <3>2. ASSUME (call[d].pc = "running" \/ InDoubt(d))' PROVE entries'[call'[d].key] = d
      <4>1. entries[call[d].key] = d
        BY <1>1, <3>1, <3>2 DEF EntryWhileInDoubt, InDoubt
      <4> QED BY <1>2, <1>3, <2>2, <3>1, <4>1
    <3>3. ASSUME call'[d].pc = "failed", d \notin submitted' PROVE entries'[call'[d].key] # d
      <4>1. entries[call[d].key] # d
        BY <1>1, <3>1, <3>3 DEF EntryWhileInDoubt
      <4> QED BY <1>3, <3>1, <4>1
    <3> QED BY <3>2, <3>3
  <2> QED BY <2>1, <2>2
<1> QED BY <1>4, <1>5, <1>6, <1>7 DEF EntryWhileInDoubt

LEMMA FailsStep == ASSUME IInv, NEW c \in Calls, Fails(c) PROVE IInv'
<1> USE CallsAssumption DEF IInv
<1>1. /\ call[c].pc = "running" /\ Settle(c, "failed") /\ submitted' = submitted
      /\ entries' = IF c \in submitted THEN entries ELSE [entries EXCEPT ![call[c].key] = None]
  BY DEF Fails
<1>2. Owns(c) /\ call[c].key \in Keys /\ entries[call[c].key] = c
  BY <1>1 DEF RunnersOwn, EntryWhileInDoubt
<1>3. /\ entries' \in [Keys -> Calls \union {None}]
      /\ \A j \in Keys : entries'[j] # None => entries'[j] = entries[j]
      /\ \A j \in Keys : j # call[c].key => entries'[j] = entries[j]
      /\ c \in submitted => entries'[call[c].key] = c
      /\ c \notin submitted => entries'[call[c].key] # c
  BY <1>1, <1>2 DEF Types
<1>4. Types'
  BY <1>1, <1>3, SettleEffect DEF Types
<1>5. EntriesAreOwned'
  BY <1>1, <1>3, SettleEffect DEF EntriesAreOwned, Owns, Types
<1>6. RunnersOwn'
  BY <1>1, SettleEffect DEF RunnersOwn, Owns
<1>7. ASSUME NEW d \in Calls, Owns(d)'
      PROVE  /\ (call[d].pc = "running" \/ InDoubt(d))' => entries'[call'[d].key] = d
             /\ call'[d].pc = "failed" /\ d \notin submitted' => entries'[call'[d].key] # d
  <2>1. CASE d = c
    BY <1>1, <1>3, <2>1, SettleEffect DEF InDoubt
  <2>2. CASE d # c
    <3>1. Owns(d) /\ call'[d] = call[d] /\ call[d].key \in Keys
      BY <1>1, <1>7, <2>2, SettleEffect DEF Owns, RunnersOwn
    <3>2. ASSUME (call[d].pc = "running" \/ InDoubt(d))' PROVE entries'[call'[d].key] = d
      <4>1. entries[call[d].key] = d
        BY <1>1, <3>1, <3>2 DEF EntryWhileInDoubt, InDoubt
      <4> QED BY <1>2, <1>3, <2>2, <3>1, <4>1
    <3>3. ASSUME call'[d].pc = "failed", d \notin submitted' PROVE entries'[call'[d].key] # d
      <4>1. entries[call[d].key] # d
        BY <1>1, <3>1, <3>3 DEF EntryWhileInDoubt
      <4> QED BY <1>3, <3>1, <4>1
    <3> QED BY <3>2, <3>3
  <2> QED BY <2>1, <2>2
<1> QED BY <1>4, <1>5, <1>6, <1>7 DEF EntryWhileInDoubt

\* Neither the clock nor a stuttering step touches what the invariant speaks of.
LEMMA OtherSteps == ASSUME IInv, UNCHANGED <<entries, call, submitted>> PROVE IInv'
BY DEF IInv, Types, EntriesAreOwned, RunnersOwn, EntryWhileInDoubt, InDoubt, Owns

LEMMA Inductive == IInv /\ [Next]_vars => IInv'
<1> SUFFICES ASSUME IInv, [Next]_vars PROVE IInv'
  OBVIOUS
<1>1. ASSUME NEW c \in Calls, NEW ask \in Asks[c], Execute(c, ask[1], ask[2]) PROVE IInv'
  <2>1. ask[1] \in Keys /\ ask[2] \in Payloads
    BY CallsAssumption
  <2> QED BY <1>1, <2>1, ShareStep, InsertStep DEF Execute
<1>2. ASSUME NEW c \in Calls, Submit(c) PROVE IInv'
  BY <1>2, SubmitStep
<1>3. ASSUME NEW c \in Calls, NEW size \in Sizes, Succeeds(c, size) PROVE IInv'
  BY <1>3, SucceedsStep
<1>4. ASSUME NEW c \in Calls, Fails(c) PROVE IInv'
  BY <1>4, FailsStep
<1>5. ASSUME NEW c \in Calls, Expire(c) PROVE IInv'
  BY <1>5, OtherSteps DEF Expire
<1>6. CASE UNCHANGED vars
  BY <1>6, OtherSteps DEF vars
<1>7. ASSUME NEW c \in Calls, SucceedsUncounted(c) PROVE IInv'
  BY <1>7, UncountedStep
<1> QED BY <1>1, <1>2, <1>3, <1>4, <1>5, <1>6, <1>7 DEF Next

-----------------------------------------------------------------------------
\* A key in doubt keeps its entry, and a failure that submitted nothing leaves
\* none behind (execute, remove and the rejection handler).
THEOREM DoubtIsRemembered == Spec => []EntryWhileInDoubt
<1>1. IInv => EntryWhileInDoubt
  BY DEF IInv
<1> QED BY Initially, Inductive, <1>1, PTL DEF Spec

\* No request id has two executions in doubt: the cache never lets a retry submit
\* a prompt again while the first may have gone through.
THEOREM SubmittedOnce == Spec => []NoDoubleSubmission
<1>1. IInv => NoDoubleSubmission
  BY DEF IInv, EntryWhileInDoubt, NoDoubleSubmission, InDoubt
<1> QED BY Initially, Inductive, <1>1, PTL DEF Spec
-----------------------------------------------------------------------------
(* Totals of bytes *)

LEMMA UnitsFinite ==
  ASSUME NEW S, IsFiniteSet(S), NEW size, \A k \in S : size[k] \in Nat
  PROVE  IsFiniteSet(Units(size, S)) /\ Total(size, S) \in Nat
<1> DEFINE f == [k \in S |-> {k} \X (1..size[k])]
           F == {{k} \X (1..size[k]) : k \in S}
<1>1. f \in Surjection(S, F)
  BY DEF Surjection
<1>2. IsFiniteSet(F)
  BY <1>1, FS_Surjection
<1>3. \A T \in F : IsFiniteSet(T)
  <2>1. ASSUME NEW k \in S PROVE IsFiniteSet({k} \X (1..size[k]))
    <3> DEFINE A == {k}
               B == 1..size[k]
    <3>1. size[k] \in Nat
      BY <2>1
    <3>2. IsFiniteSet(B)
      BY <3>1, FS_Interval
    <3>3. IsFiniteSet(A)
      BY FS_Singleton
    <3> HIDE DEF A, B
    <3>4. IsFiniteSet(A \X B)
      BY <3>2, <3>3, FS_Product
    <3> QED BY <3>4 DEF A, B
  <2> QED BY <2>1
<1>4. IsFiniteSet(UNION F)
  BY <1>2, <1>3, FS_UNION
<1> QED BY <1>4, FS_CardinalityType DEF Units, Total

\* The total of two disjoint sets of keys is that of the one and that of the other.
LEMMA TotalSplit ==
  ASSUME NEW S, IsFiniteSet(S), NEW T, IsFiniteSet(T), S \intersect T = {},
         NEW size, \A k \in S \union T : size[k] \in Nat
  PROVE  Total(size, S \union T) = Total(size, S) + Total(size, T)
<1>1. Units(size, S \union T) = Units(size, S) \union Units(size, T)
  BY DEF Units
<1>2. Units(size, S) \intersect Units(size, T) = {}
  BY DEF Units
<1>3. IsFiniteSet(Units(size, S)) /\ IsFiniteSet(Units(size, T))
  BY UnitsFinite
<1> DEFINE A == Units(size, S)
           B == Units(size, T)
<1>4. Cardinality(A) \in Nat /\ Cardinality(B) \in Nat /\ Cardinality(A \intersect B) = 0
  BY <1>2, <1>3, FS_CardinalityType, FS_EmptySet
<1>5. Cardinality(A \union B) = Cardinality(A) + Cardinality(B) - Cardinality(A \intersect B)
  BY <1>3, FS_Union
<1>6. Total(size, S \union T) = Cardinality(A \union B)
  BY <1>1 DEF Total
<1> HIDE DEF A, B
<1>7. Cardinality(A \union B) = Cardinality(A) + Cardinality(B)
  BY <1>4, <1>5
<1> QED BY <1>6, <1>7 DEF Total, A, B

LEMMA TotalOne ==
  ASSUME NEW k, NEW size, size[k] \in Nat
  PROVE  Total(size, {k}) = size[k]
<1>1. Units(size, {k}) = {k} \X (1..size[k])
  BY DEF Units
<1>2. IsFiniteSet(1..size[k]) /\ Cardinality(1..size[k]) = size[k]
  BY FS_Interval
<1>3. IsFiniteSet({k}) /\ Cardinality({k}) = 1
  BY FS_Singleton
<1> DEFINE A == {k}
           B == 1..size[k]
<1>4. Cardinality(A \X B) = Cardinality(A) * Cardinality(B)
  BY <1>2, <1>3, FS_Product
<1>5. Total(size, {k}) = Cardinality(A \X B)
  BY <1>1 DEF Total
<1> HIDE DEF A, B
<1>6. Total(size, {k}) = 1 * size[k]
  BY <1>2, <1>3, <1>4, <1>5 DEF A, B
<1> QED BY <1>6

LEMMA TotalSame ==
  ASSUME NEW S, NEW size, NEW other, \A k \in S : size[k] = other[k]
  PROVE  Total(size, S) = Total(other, S)
<1>1. Units(size, S) = Units(other, S)
  BY DEF Units
<1> QED BY <1>1 DEF Total

LEMMA TotalZero ==
  ASSUME NEW S, NEW size, \A k \in S : size[k] = 0
  PROVE  Total(size, S) = 0
<1>1. Units(size, S) = {}
  BY DEF Units
<1> QED BY <1>1, FS_EmptySet DEF Total

LEMMA TotalPart ==
  ASSUME NEW S, IsFiniteSet(S), NEW T \in SUBSET S,
         NEW size, \A k \in S : size[k] \in Nat
  PROVE  Total(size, S) = Total(size, T) + Total(size, S \ T)
<1>1. S = T \union (S \ T) /\ T \intersect (S \ T) = {}
  OBVIOUS
<1>2. IsFiniteSet(T) /\ IsFiniteSet(S \ T)
  BY FS_Subset, FS_Difference
<1> QED BY <1>1, <1>2, TotalSplit

-----------------------------------------------------------------------------
(* The limits *)

\* Only what has succeeded has bytes.
Measured ==
  /\ bytes \in [Calls -> Nat] /\ turn \in [Calls -> Nat]
  /\ turns \in Nat /\ retainedBytes \in Nat
  /\ \A c \in Calls : bytes[c] # 0 => call[c].pc = "ok"

LInv == IInv /\ Measured /\ WithinLimits

Held == [k \in Keys |-> bytes[entries[k]]]

\* The map is finite, and what a part of it weighs is a total of one function.
MapSound ==
  /\ Stored \in SUBSET Keys /\ IsFiniteSet(Stored) /\ Completed \subseteq Stored
  /\ \A k \in Stored : entries[k] \in Calls /\ Held[k] = bytes[entries[k]] /\ Held[k] \in Nat
  /\ \A S \in SUBSET Stored : IsFiniteSet(S) /\ Weight(S) = Total(Held, S)

LEMMA StoredIs == IInv /\ Measured => MapSound
<1> SUFFICES ASSUME IInv, Measured PROVE MapSound
  OBVIOUS
<1> USE CallsAssumption
<1>1. Stored \in SUBSET Keys /\ Completed \subseteq Stored
  BY DEF Stored, Completed
<1>2. \A k \in Stored : entries[k] \in Calls /\ Held[k] = bytes[entries[k]] /\ Held[k] \in Nat
  BY DEF Stored, IInv, Types, Measured, Held
<1>3. IsFiniteSet(Stored)
  BY <1>1, FS_Subset
<1>4. ASSUME NEW S \in SUBSET Stored
      PROVE  IsFiniteSet(S) /\ Weight(S) = Total(Held, S)
  <2>1. IsFiniteSet(S)
    BY <1>3, FS_Subset
  <2> DEFINE size == [k \in S |-> bytes[entries[k]]]
  <2>2. \A k \in S : size[k] = Held[k]
    BY <1>2
  <2>3. Total(size, S) = Total(Held, S)
    BY <2>2, TotalSame
  <2> QED BY <2>1, <2>3 DEF Weight
<1> QED BY <1>1, <1>2, <1>3, <1>4 DEF MapSound

\* What is dropped takes its bytes along.
LEMMA LessIs ==
  ASSUME LInv, NEW S \in SUBSET Stored
  PROVE  /\ Less(S) = Total(Held, Stored \ S)
         /\ Less(S) \in Nat /\ Less(S) <= MaxBytes
         /\ Cardinality(Stored \ S) \in Nat /\ Cardinality(Stored \ S) <= MaxEntries
<1> USE LimitsAssumption
<1>1. IInv /\ Measured
  BY DEF LInv
<1>2. /\ Weight(S) = Total(Held, S) /\ Weight(Stored) = Total(Held, Stored)
      /\ IsFiniteSet(Stored) /\ IsFiniteSet(S) /\ IsFiniteSet(Stored \ S)
      /\ \A k \in Stored : Held[k] \in Nat
  BY <1>1, StoredIs DEF MapSound
<1> DEFINE a == Total(Held, S)
           b == Total(Held, Stored \ S)
<1>3. Total(Held, Stored) = a + b
  BY <1>2, TotalPart
<1>4. a \in Nat /\ b \in Nat
  BY <1>2, UnitsFinite
<1>5. retainedBytes = a + b /\ retainedBytes <= MaxBytes
  BY <1>2, <1>3 DEF LInv, WithinLimits
<1>6. Less(S) = IF a > retainedBytes THEN 0 ELSE retainedBytes - a
  BY <1>2 DEF Less
<1>7. Cardinality(Stored) \in Nat /\ Cardinality(Stored) <= MaxEntries
  BY <1>2, FS_CardinalityType DEF LInv, WithinLimits
<1>8. Cardinality(Stored \ S) \in Nat /\ Cardinality(Stored \ S) <= Cardinality(Stored)
  BY <1>2, FS_Subset, FS_CardinalityType
<1> HIDE DEF a, b
<1>9. Less(S) = b /\ b <= MaxBytes
  BY <1>4, <1>5, <1>6
<1> QED BY <1>4, <1>7, <1>8, <1>9 DEF b

\* A step after which the map holds what it held, with the same bytes, but for some keys.
LEMMA DropKeeps ==
  ASSUME LInv, IInv', Measured', NEW S \in SUBSET Stored,
         Stored' = Stored \ S, \A k \in Stored' : entries'[k] = entries[k],
         UNCHANGED bytes, retainedBytes' = Less(S)
  PROVE  WithinLimits'
<1>1. IInv /\ Measured
  BY DEF LInv
<1>2. /\ \A k \in Stored : Held[k] = bytes[entries[k]]
      /\ \A k \in Stored' : Held'[k] = bytes'[entries'[k]]
      /\ Weight(Stored)' = Total(Held', Stored')
  <2>1. MapSound /\ MapSound'
    BY <1>1, StoredIs, PTL
  <2> QED BY <2>1 DEF MapSound
<1>3. \A k \in Stored' : Held'[k] = Held[k]
  BY <1>2
<1>4. Total(Held', Stored') = Total(Held, Stored')
  BY <1>3, TotalSame
<1> QED BY <1>2, <1>4, LessIs DEF WithinLimits

LEMMA WithoutIs ==
  ASSUME LInv, NEW S \in SUBSET Stored, entries' = Without(S)
  PROVE  Stored' = Stored \ S /\ \A k \in Stored' : entries'[k] = entries[k]
BY DEF Without, Stored, LInv, IInv, Types

\* Some entry of a part of the map was inserted first.
LEMMA SomeOldest ==
  ASSUME LInv, NEW T \in SUBSET Stored, T # {}
  PROVE  \E k \in T : \A j \in T : ~Older(j, k)
<1> DEFINE N == {turn[entries[k]] : k \in T}
           less == OpToRel(<, Nat)
<1>1. \A k \in T : entries[k] \in Calls
  BY StoredIs DEF LInv, MapSound
<1>2. N \subseteq Nat /\ N # {}
  BY <1>1 DEF LInv, Measured
<1>3. IsWellFoundedOn(less, Nat)
  BY NatLessThanWellFounded
<1>4. \A x, y \in Nat : <<x, y>> \in less <=> x < y
  BY DEF OpToRel
<1> HIDE DEF less, N
<1>5. PICK x \in N : \A y \in N : <<y, x>> \notin less
  BY <1>2, <1>3, WFMin
<1>6. PICK k \in T : x = turn[entries[k]]
  BY <1>5 DEF N
<1>7. \A j \in T : ~(turn[entries[j]] < turn[entries[k]])
  BY <1>2, <1>4, <1>5, <1>6 DEF N
<1> QED BY <1>7 DEF Older

LEMMA ShareLimits ==
  ASSUME LInv, IInv', NEW c \in Calls, NEW k \in Keys, NEW p \in Payloads,
         call[c].pc = "new", Share(c, k, p)
  PROVE  Measured' /\ WithinLimits'
<1>1. Stale \in SUBSET Stored
  BY DEF Stale, Completed
<1>2. /\ entries' = Without(Stale) /\ retainedBytes' = Less(Stale)
      /\ UNCHANGED <<turn, turns, bytes>>
      /\ \A d \in Calls \ {c} : call'[d] = call[d]
  BY DEF Share, LInv, IInv, Types
<1>3. Measured'
  BY <1>1, <1>2, LessIs DEF Measured, LInv
<1> QED BY <1>1, <1>2, <1>3, WithoutIs, DropKeeps

LEMMA InsertLimits ==
  ASSUME LInv, IInv', NEW c \in Calls, NEW k \in Keys, NEW p \in Payloads,
         call[c].pc = "new", Insert(c, k, p)
  PROVE  Measured' /\ WithinLimits'
<1> DEFINE kept == Stored \ Stale
           room == IF Full(kept) THEN Oldest(kept) ELSE {}
           gone == Stale \union room
<1>1. gone \in SUBSET Stored /\ room \subseteq kept
  BY DEF Stale, Completed, Oldest
<1>2. Less(gone) \in Nat
  BY <1>1, LessIs
<1>3. retainedBytes' = Less(gone) /\ k \notin kept /\ bytes' = bytes
  BY DEF Insert
<1>4. turn' \in [Calls -> Nat] /\ turns' \in Nat
  BY DEF Insert, LInv, Measured
<1>5. \A d \in Calls \ {c} : call'[d] = call[d]
  BY DEF Insert, LInv, IInv, Types
<1>6. bytes[c] = 0
  BY DEF LInv, Measured
<1>7. Measured'
  BY <1>2, <1>3, <1>4, <1>5, <1>6 DEF Measured, LInv
<1>8. CASE Full(kept) /\ room = {}
  <2>1. entries' = Without(gone)
    BY <1>8 DEF Insert
  <2> QED BY <1>1, <1>3, <1>7, <2>1, WithoutIs, DropKeeps
<1>9. CASE ~(Full(kept) /\ room = {})
  <2> DEFINE rest == Stored \ gone
  <2>1. entries' = [Without(gone) EXCEPT ![k] = c]
    BY <1>9 DEF Insert
  <2>2. k \notin rest /\ rest \in SUBSET Stored /\ rest = kept \ room
    BY <1>3
  <2>3. Stored' = rest \union {k} /\ entries'[k] = c /\ \A j \in rest : entries'[j] = entries[j]
    <3> DEFINE others == Without(gone)
    <3>1. /\ DOMAIN others = Keys
          /\ \A j \in Keys : others[j] = IF j \in gone THEN None ELSE entries[j]
          /\ entries' = [others EXCEPT ![k] = c]
      BY <2>1 DEF Without
    <3> HIDE DEF others, gone
    <3>2. \A j \in Keys : entries'[j] = IF j = k THEN c ELSE others[j]
      BY <3>1
    <3>3. c # None
      BY CallsAssumption
    <3>4. \A j \in Keys :
            entries'[j] = IF j = k THEN c ELSE IF j \in gone THEN None ELSE entries[j]
      BY <3>1, <3>2
    <3>5. /\ Stored = {j \in Keys : entries[j] # None}
          /\ Stored' = {j \in Keys : entries'[j] # None}
      BY DEF Stored
    <3> QED BY <2>2, <3>3, <3>4, <3>5
  <2> HIDE DEF rest
  <2>4. MapSound /\ MapSound'
    BY <1>7, StoredIs, PTL DEF LInv
  <2>5. /\ \A j \in rest : Held'[j] = Held[j] /\ Held[j] \in Nat
        /\ Held'[k] = 0
        /\ Weight(Stored)' = Total(Held', rest \union {k})
    <3>1. \A j \in Stored' : Held'[j] = bytes[entries'[j]]
      BY <1>3, <2>4 DEF MapSound
    <3>2. \A j \in rest : Held[j] = bytes[entries[j]] /\ Held[j] \in Nat
      BY <2>2, <2>4 DEF MapSound
    <3>3. Weight(Stored)' = Total(Held', Stored')
      BY <2>4 DEF MapSound
    <3> QED BY <1>6, <2>3, <3>1, <3>2, <3>3
  <2>6. IsFiniteSet(rest) /\ IsFiniteSet(kept) /\ IsFiniteSet({k})
    BY <2>2, <2>4, FS_Singleton DEF MapSound
  <2>7. Less(gone) = Total(Held, rest) /\ Less(gone) <= MaxBytes
    BY <1>1, LessIs DEF rest
  <2>8. Weight(Stored)' = Less(gone)
    <3>1. rest \intersect {k} = {} /\ \A j \in rest \union {k} : Held'[j] \in Nat
      <4>1. \A j \in rest : Held'[j] \in Nat
        BY <2>5
      <4>2. Held'[k] \in Nat
        BY <2>5
      <4> QED BY <2>2, <4>1, <4>2
    <3>2. Total(Held', rest \union {k}) = Total(Held', rest) + Total(Held', {k})
      BY <2>6, <3>1, TotalSplit
    <3>3. Total(Held', rest) = Total(Held, rest) /\ Total(Held', {k}) = 0
      BY <2>5, TotalSame, TotalZero
    <3> QED BY <1>2, <2>5, <2>7, <3>2, <3>3
  <2>9. Cardinality(Stored') <= MaxEntries
    <3>1. Cardinality(rest \union {k}) = Cardinality(rest) + 1
      BY <2>2, <2>6, FS_AddElement
    <3>2. /\ Cardinality(kept) \in Nat /\ Cardinality(rest) \in Nat
          /\ Cardinality(rest) <= Cardinality(kept)
          /\ rest # kept => Cardinality(rest) # Cardinality(kept)
      BY <2>2, <2>6, FS_Subset, FS_CardinalityType
    <3>3. Cardinality(kept) <= MaxEntries
      <4>1. Stale \in SUBSET Stored
        BY DEF Stale, Completed
      <4> QED BY <4>1, LessIs
    <3>4. CASE Full(kept)
      <4>1. rest # kept
        BY <1>1, <1>9, <2>2, <3>4
      <4> QED BY <2>3, <3>1, <3>2, <3>3, <4>1, LimitsAssumption
    <3>5. CASE ~Full(kept)
      BY <2>3, <3>1, <3>2, <3>5, LimitsAssumption DEF Full
    <3> QED BY <3>4, <3>5
  <2> QED BY <1>3, <1>7, <2>7, <2>8, <2>9 DEF WithinLimits
<1> QED BY <1>8, <1>9

\* An entry of a call that has not succeeded weighs nothing, and may go by itself.
LEMMA UncountedLimits ==
  ASSUME LInv, IInv', NEW c \in Calls, NEW outcome, NEW S \in SUBSET {call[c].key},
         call[c].pc = "running", Settle(c, outcome), entries' = Without(S),
         UNCHANGED <<turn, turns, bytes, retainedBytes>>
  PROVE  Measured' /\ WithinLimits'
<1> DEFINE key == call[c].key
<1>1. key \in Stored /\ entries[key] = c
  BY CallsAssumption DEF LInv, IInv, RunnersOwn, EntryWhileInDoubt, Stored
<1>2. \A d \in Calls : call'[d].pc # call[d].pc => call[d].pc \in {"running", "waiting"}
  BY DEF Settle
<1>3. Measured'
  BY <1>2 DEF Measured, LInv
<1>4. S \in SUBSET Stored
  BY <1>1
<1>5. Stored' = Stored \ S /\ \A k \in Stored' : entries'[k] = entries[k]
  BY <1>4, WithoutIs
<1>6. retainedBytes' = Less(S)
  <2>1. MapSound
    BY StoredIs DEF LInv
  <2>2. \A k \in S : Held[k] = 0
    BY <1>1, <2>1 DEF LInv, Measured, MapSound
  <2>3. Weight(S) = 0
    BY <1>4, <2>1, <2>2, TotalZero DEF MapSound
  <2>4. retainedBytes \in Nat
    BY DEF LInv, Measured
  <2> QED BY <2>3, <2>4 DEF Less
<1> QED BY <1>3, <1>4, <1>5, <1>6, DropKeeps

LEMMA FailsLimits ==
  ASSUME LInv, IInv', NEW c \in Calls, Fails(c) \/ SucceedsUncounted(c)
  PROVE  Measured' /\ WithinLimits'
<1> DEFINE key == call[c].key
<1>1. call[c].pc = "running" /\ UNCHANGED <<turn, turns, bytes, retainedBytes>>
  BY DEF Fails, SucceedsUncounted
<1>2. \/ Settle(c, "failed") /\ entries' = entries
      \/ Settle(c, "failed") /\ entries' = [entries EXCEPT ![key] = None]
      \/ Settle(c, "ok") /\ entries' = [entries EXCEPT ![key] = None]
  BY DEF Fails, SucceedsUncounted
<1>3. entries = Without({}) /\ [entries EXCEPT ![key] = None] = Without({key})
  BY DEF Without, LInv, IInv, Types
<1>4. {} \in SUBSET {key} /\ {key} \in SUBSET {key}
  OBVIOUS
<1> QED BY <1>1, <1>2, <1>3, <1>4, UncountedLimits

\* The keys that go are the oldest until the rest fits: the first that stays has, with
\* all that is younger, no more than fits.
LEMMA SucceedsLimits ==
  ASSUME LInv, IInv', NEW c \in Calls, NEW size \in Sizes, Succeeds(c, size)
  PROVE  Measured' /\ WithinLimits'
<1> USE LimitsAssumption
<1> DEFINE key == call[c].key
           total == retainedBytes + size
           complete == Completed \union {key}
           W == [k \in Keys |-> IF k = key THEN size ELSE bytes[entries[k]]]
           Bytes(S) == Total([k \in S |-> IF k = key THEN size ELSE bytes[entries[k]]], S)
           gone == {k \in complete : total > MaxBytes + Bytes({j \in complete : Older(j, k)})}
           rest == Stored \ gone
<1>1. /\ call[c].pc = "running" /\ Settle(c, "ok") /\ bytes' = [bytes EXCEPT ![c] = size]
      /\ entries' = Without(gone) /\ UNCHANGED <<turn, turns>>
      /\ retainedBytes' = IF Bytes(gone) > total THEN 0 ELSE total - Bytes(gone)
  BY DEF Succeeds
<1>2. key \in Stored /\ key \in Keys /\ entries[key] = c /\ size \in Nat
  BY <1>1, CallsAssumption DEF LInv, IInv, RunnersOwn, EntryWhileInDoubt, Stored
<1>3. MapSound /\ IInv /\ Measured
  BY StoredIs DEF LInv
<1>4. complete \in SUBSET Stored /\ gone \in SUBSET Stored /\ rest \in SUBSET Stored
  BY <1>2, <1>3 DEF MapSound
<1>5. \A k \in Stored : W[k] \in Nat /\ (k # key => W[k] = Held[k] /\ entries[k] # c)
  <2>1. ASSUME NEW k \in Stored, k # key PROVE W[k] = Held[k] /\ entries[k] # c
    BY <1>3, <2>1 DEF MapSound, IInv, EntriesAreOwned, Stored
  <2> QED BY <1>2, <1>3, <2>1 DEF MapSound
<1>6. W[key] = size /\ Held[key] = 0
  BY <1>1, <1>2, <1>3 DEF MapSound, Measured
<1>7. ASSUME NEW S \in SUBSET Stored PROVE Bytes(S) = Total(W, S) /\ Bytes(S) \in Nat
  <2> DEFINE sizes == [k \in S |-> IF k = key THEN size ELSE bytes[entries[k]]]
  <2>1. \A k \in S : sizes[k] = W[k]
    BY <1>3 DEF MapSound
  <2>2. Total(sizes, S) = Total(W, S)
    BY <2>1, TotalSame
  <2>3. IsFiniteSet(S) /\ \A k \in S : W[k] \in Nat
    BY <1>3, <1>5 DEF MapSound
  <2> HIDE DEF W
  <2>4. Total(W, S) \in Nat
    BY <2>3, UnitsFinite
  <2> QED BY <2>2, <2>4
<1>8. entries' = Without(gone) /\ Stored' = rest /\ \A k \in rest : entries'[k] = entries[k]
  <2> HIDE DEF gone
  <2> QED BY <1>1, <1>4, WithoutIs
<1>9. /\ gone \subseteq complete
      /\ \A k \in complete \ gone : total <= MaxBytes + Bytes({j \in complete : Older(j, k)})
  <2>1. ASSUME NEW k \in complete \ gone
        PROVE  total <= MaxBytes + Bytes({j \in complete : Older(j, k)})
    <3> DEFINE older == {j \in complete : Older(j, k)}
    <3>1. ~(total > MaxBytes + Bytes(older))
      BY <2>1
    <3>2. Bytes(older) \in Nat
      <4>1. older \in SUBSET Stored
        BY <1>4
      <4> HIDE DEF older, Bytes
      <4> QED BY <1>7, <4>1
    <3>3. total \in Nat
      BY <1>2, <1>3 DEF Measured
    <3> HIDE DEF older, total, Bytes
    <3>4. total <= MaxBytes + Bytes(older)
      BY <3>1, <3>2, <3>3
    <3> QED BY <3>4 DEF older
  <2> QED BY <2>1
<1>10. IsFiniteSet(Stored) /\ IsFiniteSet(rest) /\ IsFiniteSet(gone)
  BY <1>3, <1>4 DEF MapSound
<1> HIDE DEF gone, W
<1>11. total = Total(W, Stored)
  <2> DEFINE others == Stored \ {key}
  <2>1. /\ Total(W, Stored) = Total(W, {key}) + Total(W, others)
        /\ Total(Held, Stored) = Total(Held, {key}) + Total(Held, others)
    BY <1>2, <1>3, <1>5, <1>10, TotalPart DEF MapSound
  <2>2. Total(W, {key}) = size /\ Total(Held, {key}) = 0
    BY <1>2, <1>6, TotalOne
  <2>3. Total(W, others) = Total(Held, others)
    BY <1>5, TotalSame
  <2>4. retainedBytes = Total(Held, Stored)
    BY <1>3 DEF LInv, WithinLimits, MapSound
  <2>5. Total(Held, others) \in Nat
    BY <1>3, UnitsFinite DEF MapSound
  <2> QED BY <1>2, <2>1, <2>2, <2>3, <2>4, <2>5
<1>12. total = Total(W, gone) + Total(W, rest) /\ Total(W, gone) \in Nat /\ Total(W, rest) \in Nat
  BY <1>4, <1>5, <1>7, <1>10, <1>11, TotalPart
<1>13. retainedBytes' = Total(W, rest) /\ retainedBytes' \in Nat
  <2>1. Bytes(gone) = Total(W, gone)
    BY <1>4, <1>7
  <2> HIDE DEF Bytes, total, rest
  <2> QED BY <1>1, <1>12, <2>1
<1>14. Measured'
  <2>1. \A d \in Calls : call'[d].pc # call[d].pc => call'[d].pc = "ok"
    BY <1>1, <1>3 DEF Settle, IInv, Types, Call
  <2>2. call'[c].pc = "ok"
    BY <1>1, <1>3, SettleEffect
  <2> HIDE DEF rest
  <2> QED BY <1>1, <1>2, <1>3, <1>13, <2>1, <2>2 DEF Measured
<1>15. retainedBytes' = Weight(Stored)'
  <2>1. MapSound'
    BY <1>14, StoredIs, PTL
  <2>2. Weight(Stored)' = Total(Held', Stored') /\ \A k \in Stored' : Held'[k] = bytes'[entries'[k]]
    BY <2>1 DEF MapSound
  <2>3. \A k \in rest : Held'[k] = W[k]
    <3>1. ASSUME NEW k \in rest PROVE Held'[k] = W[k]
      <4>1. Held'[k] = bytes'[entries[k]] /\ entries[k] \in Calls /\ Held[k] = bytes[entries[k]]
        BY <1>3, <1>8, <2>2, <3>1 DEF MapSound
      <4>2. CASE k = key
        BY <1>1, <1>2, <1>3, <1>6, <4>1, <4>2 DEF Measured
      <4>3. CASE k # key
        BY <1>1, <1>3, <1>5, <4>1, <4>3 DEF Measured
      <4> QED BY <4>2, <4>3
    <3> QED BY <3>1
  <2>4. Total(Held', rest) = Total(W, rest)
    BY <2>3, TotalSame
  <2> QED BY <1>8, <1>13, <2>2, <2>4
<1>16. Total(W, rest) <= MaxBytes
  <2>1. CASE complete \ gone = {}
    <3>1. \A k \in rest : W[k] = 0
      <4>1. ASSUME NEW k \in rest PROVE W[k] = 0
        <5>1. k \notin complete
          BY <2>1, <4>1
        <5>2. k # key /\ call[entries[k]].pc # "ok" /\ entries[k] \in Calls
          BY <1>3, <4>1, <5>1 DEF Completed, MapSound
        <5> QED BY <1>3, <1>5, <4>1, <5>2 DEF Measured, MapSound
      <4> QED BY <4>1
    <3>2. Total(W, rest) = 0
      BY <3>1, TotalZero
    <3> QED BY <3>2
  <2>2. CASE complete \ gone # {}
    <3>1. PICK k \in complete \ gone : \A j \in complete \ gone : ~Older(j, k)
      BY <1>4, <2>2, SomeOldest
    <3> DEFINE older == {j \in complete : Older(j, k)}
    <3>2. older \subseteq gone /\ older \in SUBSET Stored
      BY <1>4, <3>1
    <3>3. total <= MaxBytes + Bytes(older)
      BY <1>9, <3>1
    <3> HIDE DEF older
    <3>4. Bytes(older) = Total(W, older) /\ Bytes(older) \in Nat
      BY <1>7, <3>2
    <3> HIDE DEF Bytes
    <3>5. Total(W, gone) = Total(W, older) + Total(W, gone \ older)
      BY <1>4, <1>5, <1>10, <3>2, TotalPart
    <3>6. Total(W, gone \ older) \in Nat
      <4>1. gone \ older \in SUBSET Stored /\ IsFiniteSet(gone \ older)
        BY <1>4, <1>10, FS_Difference
      <4> QED BY <1>5, <4>1, UnitsFinite
    <3> HIDE DEF total, rest
    <3>7. Total(W, older) \in Nat /\ total <= MaxBytes + Total(W, older)
      BY <3>3, <3>4
    <3> QED BY <1>12, <3>5, <3>6, <3>7
  <2> QED BY <2>1, <2>2
<1>17. Cardinality(Stored') <= MaxEntries
  BY <1>4, <1>8, LessIs
<1> QED BY <1>13, <1>14, <1>15, <1>16, <1>17 DEF WithinLimits

LEMMA LimitsInductive == LInv /\ [Next]_vars => LInv'
<1> SUFFICES ASSUME LInv, [Next]_vars PROVE LInv'
  OBVIOUS
<1>1. IInv'
  BY Inductive DEF LInv
<1>2. ASSUME NEW c \in Calls, NEW ask \in Asks[c], Execute(c, ask[1], ask[2])
      PROVE  Measured' /\ WithinLimits'
  <2>1. ask[1] \in Keys /\ ask[2] \in Payloads
    BY CallsAssumption
  <2> QED BY <1>1, <1>2, <2>1, ShareLimits, InsertLimits DEF Execute
<1>3. ASSUME UNCHANGED <<entries, call, turn, turns, bytes, retainedBytes>>
      PROVE  Measured' /\ WithinLimits'
  BY <1>3 DEF LInv, Measured, WithinLimits, Weight, Stored
<1>4. ASSUME NEW c \in Calls, Submit(c) \/ Expire(c) PROVE Measured' /\ WithinLimits'
  BY <1>3, <1>4 DEF Submit, Expire
<1>5. ASSUME UNCHANGED vars PROVE Measured' /\ WithinLimits'
  <2>1. UNCHANGED <<entries, call, turn, turns, bytes, retainedBytes>>
    BY <1>5 DEF vars
  <2> QED BY <1>3, <2>1
<1>6. ASSUME NEW c \in Calls, NEW size \in Sizes, Succeeds(c, size)
      PROVE  Measured' /\ WithinLimits'
  BY <1>1, <1>6, SucceedsLimits
<1>7. ASSUME NEW c \in Calls, Fails(c) \/ SucceedsUncounted(c) PROVE Measured' /\ WithinLimits'
  BY <1>1, <1>7, FailsLimits
<1>8. Measured' /\ WithinLimits'
  BY <1>2, <1>4, <1>5, <1>6, <1>7 DEF Next
<1> QED BY <1>1, <1>8 DEF LInv

\* However calls are inserted, evicted, expire and fail, the total is that of the entries
\* in the map, and neither they nor their bytes exceed the limits (execute and remove).
THEOREM LimitsHold == Spec => []WithinLimits
<1>1. Init => LInv
  <2> SUFFICES ASSUME Init PROVE LInv
    OBVIOUS
  <2>1. IInv /\ Measured
    BY Initially DEF Init, Measured
  <2>2. Stored = {} /\ retainedBytes = 0
    BY DEF Init, Stored
  <2>3. Weight({}) = 0
    BY TotalZero DEF Weight
  <2> QED BY <2>1, <2>2, <2>3, FS_EmptySet, LimitsAssumption DEF LInv, WithinLimits
<1>2. LInv => WithinLimits
  BY DEF LInv
<1> QED BY <1>1, <1>2, LimitsInductive, PTL DEF Spec

-----------------------------------------------------------------------------
(* Sequences, one element after another.                                   *)

\* A set of naturals that holds 0 and the next of each of its members holds all.
LEMMA AllNaturals ==
  ASSUME NEW N, 0 \in N, \A m \in Nat : m \in N => m + 1 \in N
  PROVE  Nat \subseteq N
<1> SUFFICES ASSUME NEW T, T = Nat \ N, T # {} PROVE FALSE
  OBVIOUS
<1> DEFINE less == OpToRel(<, Nat)
<1>1. IsWellFoundedOn(less, Nat)
  BY NatLessThanWellFounded
<1>2. \A x, y \in Nat : <<x, y>> \in less <=> x < y
  BY DEF OpToRel
<1> HIDE DEF less
<1>3. PICK x \in T : \A y \in T : <<y, x>> \notin less
  BY <1>1, WFMin
<1>4. x # 0 /\ x \in Nat
  OBVIOUS
<1>5. x - 1 \in Nat /\ x - 1 < x
  BY <1>4
<1>6. x - 1 \in N
  BY <1>2, <1>3, <1>4, <1>5
<1>7. (x - 1) + 1 = x
  BY <1>4
<1> QED BY <1>5, <1>6, <1>7

\* The same for sequences, which grow at their end.
LEMMA AllSequences ==
  ASSUME NEW S, NEW N, <<>> \in N, \A s \in Seq(S), e \in S : s \in N => Append(s, e) \in N
  PROVE  Seq(S) \subseteq N
<1> DEFINE M == {n \in Nat : \A s \in Seq(S) : Len(s) = n => s \in N}
<1>1. 0 \in M
  <2>1. ASSUME NEW s \in Seq(S), Len(s) = 0 PROVE s \in N
    BY <2>1, EmptySeq
  <2> QED BY <2>1
<1>2. ASSUME NEW n \in Nat, n \in M PROVE n + 1 \in M
  <2>1. ASSUME NEW s \in Seq(S), Len(s) = n + 1 PROVE s \in N
    <3>1. s # <<>>
      BY <1>2, <2>1
    <3>2. PICK u \in Seq(S), e \in S : s = Append(u, e)
      BY <3>1, SequenceEmptyOrAppend
    <3>3. Len(s) = Len(u) + 1
      BY <3>2, AppendProperties
    <3>4. Len(u) = n
      BY <1>2, <2>1, <3>3
    <3>5. u \in N
      BY <1>2, <3>4
    <3> QED BY <3>2, <3>5
  <2> QED BY <1>2, <2>1
<1> HIDE DEF M
<1>3. Nat \subseteq M
  BY <1>1, <1>2, AllNaturals
<1>4. ASSUME NEW s \in Seq(S) PROVE s \in N
  <2>1. Len(s) \in M
    BY <1>3
  <2> QED BY <2>1 DEF M
<1> QED BY <1>4

\* s \o Append(t, e) is one longer than s \o t.
LEMMA ConcatOn ==
  ASSUME NEW S, NEW s \in Seq(S), NEW t \in Seq(S), NEW e \in S
  PROVE  s \o Append(t, e) = Append(s \o t, e)
<1>1. <<e>> \in Seq(S) /\ s \o t \in Seq(S)
  BY ConcatProperties
<1>2. s \o Append(t, e) = s \o (t \o <<e>>)
  BY AppendIsConcat
<1>3. Append(s \o t, e) = (s \o t) \o <<e>>
  BY <1>1, AppendIsConcat
<1> QED BY <1>1, <1>2, <1>3, ConcatAssociative

\* A sequence is its beginning and what follows.
LEMMA Split ==
  ASSUME NEW S, NEW s \in Seq(S), NEW k \in 0..Len(s)
  PROVE  /\ SubSeq(s, 1, k) \in Seq(S) /\ SubSeq(s, k + 1, Len(s)) \in Seq(S)
         /\ Len(SubSeq(s, 1, k)) = k /\ Len(SubSeq(s, k + 1, Len(s))) = Len(s) - k
         /\ \A i \in 1..k : SubSeq(s, 1, k)[i] = s[i]
         /\ s = SubSeq(s, 1, k) \o SubSeq(s, k + 1, Len(s))
<1> DEFINE u == SubSeq(s, 1, k)
           v == SubSeq(s, k + 1, Len(s))
<1>1. Len(s) \in Nat /\ k \in Nat /\ k <= Len(s) /\ k + 1 \in Nat
  BY LenProperties
<1>2. u \in Seq(S) /\ Len(u) = k /\ \A i \in 1..k : u[i] = s[i]
  <2>1. \A i \in 1..k : s[i] \in S
    BY <1>1, ElementOfSeq
  <2> QED BY <1>1, <2>1, SubSeqProperties
<1>3. v \in Seq(S) /\ Len(v) = Len(s) - k /\ \A i \in 1..Len(s) - k : v[i] = s[k + i]
  <2>1. \A i \in k + 1..Len(s) : s[i] \in S
    BY <1>1, ElementOfSeq
  <2> QED BY <1>1, <2>1, SubSeqProperties
<1> HIDE DEF u, v
<1>4. /\ u \o v \in Seq(S) /\ Len(u \o v) = Len(u) + Len(v)
      /\ \A i \in 1..Len(u) + Len(v) :
           (u \o v)[i] = IF i <= Len(u) THEN u[i] ELSE v[i - Len(u)]
  BY <1>2, <1>3, ConcatProperties
<1>5. Len(u \o v) = Len(s)
  BY <1>1, <1>2, <1>3, <1>4
<1>6. ASSUME NEW i \in 1..Len(s) PROVE (u \o v)[i] = s[i]
  <2>1. i \in 1..Len(u) + Len(v)
    BY <1>1, <1>2, <1>3
  <2>2. CASE i <= k
    BY <1>1, <1>2, <1>4, <2>1, <2>2
  <2>3. CASE ~(i <= k)
    <3>1. i - k \in 1..Len(s) - k /\ k + (i - k) = i
      BY <1>1, <2>3
    <3>2. (u \o v)[i] = v[i - k]
      BY <1>2, <1>4, <2>1, <2>3
    <3>3. v[i - k] = s[k + (i - k)]
      BY <1>3, <3>1
    <3> QED BY <3>1, <3>2, <3>3
  <2> QED BY <2>2, <2>3
<1>7. u \o v = s
  BY <1>4, <1>5, <1>6, SeqEqual
<1> QED BY <1>2, <1>3, <1>7 DEF u, v

-----------------------------------------------------------------------------
(* FlattenSeq.                                                             *)

LEMMA FlattensExist ==
  ASSUME NEW s, NEW m \in Nat
  PROVE  \E f : f = [i \in 1..m |-> IF i = 1 THEN s[i] ELSE f[i - 1] \o s[i]]
<1> DEFINE Is(f, k) == f = [i \in 1..k |-> IF i = 1 THEN s[i] ELSE f[i - 1] \o s[i]]
           N == {k \in Nat : \E f : Is(f, k)}
<1>1. 0 \in N
  <2> DEFINE f == [i \in 1..0 |-> s]
  <2>1. Is(f, 0)
    OBVIOUS
  <2> QED BY <2>1
<1>2. ASSUME NEW k \in Nat, k \in N PROVE k + 1 \in N
  <2>1. PICK f : Is(f, k)
    BY <1>2
  <2> DEFINE x == IF k = 0 THEN s[1] ELSE f[k] \o s[k + 1]
             g == [i \in 1..k + 1 |-> IF i = k + 1 THEN x ELSE f[i]]
  <2>2. \A i \in 1..k : f[i] = IF i = 1 THEN s[i] ELSE f[i - 1] \o s[i]
    BY <2>1
  <2>3. \A i \in 1..k + 1 : g[i] = IF i = k + 1 THEN x ELSE f[i]
    OBVIOUS
  <2> HIDE DEF x
  <2>4. ASSUME NEW i \in 1..k + 1
        PROVE  g[i] = IF i = 1 THEN s[i] ELSE g[i - 1] \o s[i]
    <3>1. CASE i # k + 1
      <4>1. i \in 1..k /\ g[i] = f[i]
        BY <2>3, <3>1
      <4>2. i # 1 => g[i - 1] = f[i - 1]
        BY <2>3, <4>1
      <4> QED BY <2>2, <4>1, <4>2
    <3>2. CASE i = k + 1
      <4>1. g[i] = x
        BY <2>3, <3>2
      <4>2. CASE k = 0
        BY <3>2, <4>1, <4>2 DEF x
      <4>3. CASE k # 0
        <5>1. i - 1 = k /\ k \in 1..k + 1 /\ k # k + 1 /\ i # 1
          BY <3>2, <4>3
        <5>2. g[i - 1] = f[k]
          BY <2>3, <5>1
        <5>3. x = f[k] \o s[i]
          BY <3>2, <4>3 DEF x
        <5> QED BY <4>1, <5>1, <5>2, <5>3
      <4> QED BY <4>2, <4>3
    <3> QED BY <3>1, <3>2
  <2>5. Is(g, k + 1)
    BY <2>4
  <2> HIDE DEF g, Is
  <2>6. \E h : Is(h, k + 1)
    BY <2>5
  <2> QED BY <2>6
<1> HIDE DEF N
<1>3. Nat \subseteq N
  BY <1>1, <1>2, AllNaturals
<1> QED BY <1>3 DEF N

\* The partial results of flattening s.
Steps(s, f) ==
  /\ Len(s) > 0 => f[1] = s[1]
  /\ \A i \in 1..Len(s) : i # 1 => f[i] = f[i - 1] \o s[i]

LEMMA FlattenIs ==
  ASSUME NEW S, NEW s \in Seq(S), s # <<>>
  PROVE  \E f : Steps(s, f) /\ FlattenSeq(s) = f[Len(s)]
<1> DEFINE m == Len(s)
           f == CHOOSE f : f = [i \in 1..m |-> IF i = 1 THEN s[i] ELSE f[i - 1] \o s[i]]
<1>1. m \in Nat /\ m # 0
  BY EmptySeq
<1>2. f = [i \in 1..m |-> IF i = 1 THEN s[i] ELSE f[i - 1] \o s[i]]
  <2> HIDE DEF m
  <2>1. \E g : g = [i \in 1..m |-> IF i = 1 THEN s[i] ELSE g[i - 1] \o s[i]]
    BY <1>1, FlattensExist
  <2> QED BY <2>1, Zenon
<1>3. FlattenSeq(s) = f[m]
  BY <1>1, Zenon DEF FlattenSeq
<1> HIDE DEF f
<1>4. Steps(s, f)
  <2>1. \A i \in 1..m : f[i] = IF i = 1 THEN s[i] ELSE f[i - 1] \o s[i]
    BY <1>2
  <2>2. m > 0 => 1 \in 1..m
    BY <1>1
  <2> QED BY <2>1, <2>2 DEF Steps
<1> QED BY <1>3, <1>4

LEMMA FlattenOfNone == FlattenSeq(<<>>) = <<>>
BY DEF FlattenSeq

\* t goes on from where s ends.
GoesOn(s, t) ==
  Len(s) \in Nat /\ Len(t) \in Nat /\ Len(s) <= Len(t) /\ \A i \in 1..Len(s) : s[i] = t[i]

\* The steps are those of any sequence that begins alike.
LEMMA StepsAgree ==
  ASSUME NEW s, NEW t, NEW f, NEW g, Steps(s, f), Steps(t, g), GoesOn(s, t)
  PROVE  \A i \in 1..Len(s) : f[i] = g[i]
<1> DEFINE N == {n \in Nat : n \in 1..Len(s) => f[n] = g[n]}
<1> USE DEF GoesOn
<1>1. 0 \in N
  OBVIOUS
<1>2. ASSUME NEW n \in Nat, n \in N PROVE n + 1 \in N
  <2> SUFFICES ASSUME n + 1 \in 1..Len(s) PROVE f[n + 1] = g[n + 1]
    OBVIOUS
  <2>1. n + 1 \in 1..Len(t) /\ s[n + 1] = t[n + 1]
    OBVIOUS
  <2>2. CASE n = 0
    <3>1. f[1] = s[1] /\ g[1] = t[1]
      BY <2>2, <2>1 DEF Steps
    <3> QED BY <2>1, <2>2, <3>1
  <2>3. CASE n # 0
    <3>1. n + 1 # 1 /\ (n + 1) - 1 = n /\ n \in 1..Len(s)
      BY <2>3
    <3>2. f[n + 1] = f[(n + 1) - 1] \o s[n + 1] /\ g[n + 1] = g[(n + 1) - 1] \o t[n + 1]
      BY <2>1, <3>1 DEF Steps
    <3>3. f[n] = g[n]
      BY <1>2, <3>1
    <3> QED BY <2>1, <3>1, <3>2, <3>3
  <2> QED BY <2>2, <2>3
<1> HIDE DEF N
<1>3. Nat \subseteq N
  BY <1>1, <1>2, AllNaturals
<1> QED BY <1>3 DEF N

LEMMA FlattenOfSequence ==
  ASSUME NEW T, NEW s \in Seq(Seq(T)) PROVE FlattenSeq(s) \in Seq(T)
<1>1. CASE s = <<>>
  <2>1. FlattenSeq(s) = <<>>
    BY <1>1, FlattenOfNone
  <2> QED BY <2>1, EmptySeq
<1>2. CASE s # <<>>
  <2>1. PICK f : Steps(s, f) /\ FlattenSeq(s) = f[Len(s)]
    BY <1>2, FlattenIs
  <2> DEFINE N == {n \in Nat : n \in 1..Len(s) => f[n] \in Seq(T)}
  <2>2. 0 \in N
    OBVIOUS
  <2>3. ASSUME NEW n \in Nat, n \in N PROVE n + 1 \in N
    <3> SUFFICES ASSUME n + 1 \in 1..Len(s) PROVE f[n + 1] \in Seq(T)
      OBVIOUS
    <3>1. s[n + 1] \in Seq(T)
      BY ElementOfSeq
    <3>2. CASE n = 0
      <4>1. f[1] = s[1]
        BY <2>1, <3>2 DEF Steps
      <4> QED BY <3>1, <3>2, <4>1
    <3>3. CASE n # 0
      <4>1. n + 1 # 1 /\ (n + 1) - 1 = n /\ n \in 1..Len(s)
        BY <3>3
      <4>2. f[n + 1] = f[(n + 1) - 1] \o s[n + 1]
        BY <2>1, <4>1 DEF Steps
      <4>3. f[n] \in Seq(T)
        BY <2>3, <4>1
      <4> QED BY <3>1, <4>1, <4>2, <4>3, ConcatProperties
    <3> QED BY <3>2, <3>3
  <2> HIDE DEF N
  <2>4. Nat \subseteq N
    BY <2>2, <2>3, AllNaturals
  <2>5. Len(s) \in Nat /\ Len(s) # 0
    BY <1>2, EmptySeq
  <2>6. Len(s) \in 1..Len(s)
    BY <2>5
  <2> QED BY <2>1, <2>4, <2>5, <2>6 DEF N
<1> QED BY <1>1, <1>2

LEMMA FlattenOn ==
  ASSUME NEW T, NEW s \in Seq(Seq(T)), NEW x \in Seq(T)
  PROVE  FlattenSeq(Append(s, x)) = FlattenSeq(s) \o x
<1> DEFINE a == Append(s, x)
<1>1. /\ a \in Seq(Seq(T)) /\ a # <<>> /\ Len(a) = Len(s) + 1 /\ a[Len(s) + 1] = x
      /\ \A i \in 1..Len(s) : a[i] = s[i]
  BY AppendProperties
<1> HIDE DEF a
<1>2. PICK f : Steps(a, f) /\ FlattenSeq(a) = f[Len(a)]
  BY <1>1, FlattenIs
<1>3. CASE s = <<>>
  <2>1. FlattenSeq(s) = <<>> /\ Len(s) = 0
    BY <1>3, FlattenOfNone, EmptySeq
  <2>2. FlattenSeq(a) = f[1] /\ f[1] = a[1] /\ a[1] = x
    BY <1>1, <1>2, <2>1 DEF Steps
  <2>3. <<>> \o x = x
    BY ConcatEmptySeq
  <2> QED BY <2>1, <2>2, <2>3 DEF a
<1>4. CASE s # <<>>
  <2>1. PICK g : Steps(s, g) /\ FlattenSeq(s) = g[Len(s)]
    BY <1>4, FlattenIs
  <2>2. Len(s) \in Nat /\ Len(s) # 0
    BY <1>4, EmptySeq
  <2>3. Len(s) <= Len(a) /\ Len(s) \in 1..Len(s) /\ Len(a) \in 1..Len(a) /\ Len(a) # 1
        /\ Len(a) - 1 = Len(s)
    BY <1>1, <2>2
  <2>4. \A i \in 1..Len(s) : s[i] = a[i]
    BY <1>1
  <2>5. \A i \in 1..Len(s) : g[i] = f[i]
    <3>1. Steps(s, g) /\ Steps(a, f)
      BY <1>2, <2>1
    <3>2. GoesOn(s, a)
      BY <1>1, <2>2, <2>3, <2>4 DEF GoesOn
    <3> QED BY <3>1, <3>2, StepsAgree
  <2>6. g[Len(s)] = f[Len(s)]
    BY <2>3, <2>5
  <2>7. f[Len(a)] = f[Len(a) - 1] \o a[Len(a)]
    BY <1>2, <2>3 DEF Steps
  <2> QED BY <1>1, <1>2, <2>1, <2>3, <2>6, <2>7 DEF a
<1> QED BY <1>3, <1>4

LEMMA FlattenConcat ==
  ASSUME NEW T, NEW s \in Seq(Seq(T)), NEW t \in Seq(Seq(T))
  PROVE  FlattenSeq(s \o t) = FlattenSeq(s) \o FlattenSeq(t)
<1> DEFINE F(q) == FlattenSeq(q)
           N == {q \in Seq(Seq(T)) : F(s \o q) = F(s) \o F(q)}
<1>1. <<>> \in N
  <2>1. s \o <<>> = s /\ F(s) \in Seq(T) /\ F(<<>>) = <<>> /\ <<>> \in Seq(Seq(T))
    BY ConcatEmptySeq, FlattenOfSequence, FlattenOfNone, EmptySeq
  <2>2. F(s) \o <<>> = F(s)
    BY <2>1, ConcatEmptySeq
  <2> QED BY <2>1, <2>2
<1>2. ASSUME NEW q \in Seq(Seq(T)), NEW x \in Seq(T), q \in N PROVE Append(q, x) \in N
  <2>1. s \o Append(q, x) = Append(s \o q, x) /\ s \o q \in Seq(Seq(T))
    BY ConcatOn, ConcatProperties
  <2>2. F(s \o Append(q, x)) = F(s \o q) \o x
    BY <2>1, FlattenOn
  <2>3. F(Append(q, x)) = F(q) \o x
    BY FlattenOn
  <2>4. F(s \o q) = F(s) \o F(q)
    BY <1>2
  <2>5. F(s) \in Seq(T) /\ F(q) \in Seq(T)
    BY FlattenOfSequence
  <2> HIDE DEF F
  <2>6. (F(s) \o F(q)) \o x = F(s) \o (F(q) \o x)
    BY <2>5, ConcatAssociative
  <2>7. Append(q, x) \in Seq(Seq(T))
    BY AppendProperties
  <2> QED BY <2>2, <2>3, <2>4, <2>6, <2>7
<1> HIDE DEF N
<1>3. Seq(Seq(T)) \subseteq N
  BY <1>1, <1>2, AllSequences
<1> QED BY <1>3 DEF N

-----------------------------------------------------------------------------
(* Frames.                                                                 *)

Marks ==
  {"role", "tool_calls", "finish", "[DONE]", "created", "item_added", "part_added", "text_done",
   "part_done", "item_done", "call_added", "arguments_delta", "arguments_done", "call_done",
   "completed", "message_start", "block_start", "input_delta", "block_stop", "message_delta",
   "message_stop", "done", "delta", "ping", "error", "status", "json"}
Frame == [type : Marks, text : Seq(Pieces), at : Nat]
Connection == [buffer : Seq(Frame), full : BOOLEAN, ended : BOOLEAN, destroyed : BOOLEAN]

LEMMA FramesAre ==
  /\ \A t \in Marks : Control(t) \in Frame /\ Control(t).type = t
  /\ \A t \in Marks, i \in Nat : At(t, i) \in Frame /\ At(t, i).type = t
  /\ \A t \in Marks, s \in Seq(Pieces) : Said(t, s) \in Frame /\ Said(t, s).type = t
BY EmptySeq DEF Frame, Control, At, Said

\* What each frame of fs leaves when some types are dropped, its text, and the places it takes.
Kept(fs, types) == [i \in DOMAIN fs |-> IF fs[i].type \in types THEN <<>> ELSE <<fs[i]>>]
TextsIn(fs) == [i \in DOMAIN fs |-> IF fs[i].type \in {"delta", "json"} THEN fs[i].text ELSE <<>>]
Places(fs) == [i \in DOMAIN fs |-> [place \in 1..Size(fs[i]) |-> fs[i]]]

LEMMA KeptIs ==
  ASSUME NEW fs \in Seq(Frame), NEW types
  PROVE  /\ Kept(fs, types) \in Seq(Seq(Frame)) /\ Len(Kept(fs, types)) = Len(fs)
         /\ \A i \in 1..Len(fs) :
              Kept(fs, types)[i] = IF fs[i].type \in types THEN <<>> ELSE <<fs[i]>>
<1>1. DOMAIN fs = 1..Len(fs) /\ Len(fs) \in Nat
  BY LenProperties
<1>2. \A i \in 1..Len(fs) : fs[i] \in Frame
  BY ElementOfSeq
<1>3. \A i \in 1..Len(fs) : (IF fs[i].type \in types THEN <<>> ELSE <<fs[i]>>) \in Seq(Frame)
  BY <1>2
<1>4. Kept(fs, types) = [i \in 1..Len(fs) |-> IF fs[i].type \in types THEN <<>> ELSE <<fs[i]>>]
  BY <1>1 DEF Kept
<1>5. Kept(fs, types) \in Seq(Seq(Frame))
  BY <1>1, <1>3, <1>4, IsASeq
<1> QED BY <1>1, <1>4, <1>5

LEMMA TextsInIs ==
  ASSUME NEW fs \in Seq(Frame)
  PROVE  /\ TextsIn(fs) \in Seq(Seq(Pieces)) /\ Len(TextsIn(fs)) = Len(fs)
         /\ \A i \in 1..Len(fs) :
              TextsIn(fs)[i] = IF fs[i].type \in {"delta", "json"} THEN fs[i].text ELSE <<>>
<1>1. DOMAIN fs = 1..Len(fs) /\ Len(fs) \in Nat
  BY LenProperties
<1>2. \A i \in 1..Len(fs) : fs[i].text \in Seq(Pieces)
  <2>1. \A i \in 1..Len(fs) : fs[i] \in Frame
    BY ElementOfSeq
  <2> QED BY <2>1 DEF Frame
<1>3. \A i \in 1..Len(fs) :
        (IF fs[i].type \in {"delta", "json"} THEN fs[i].text ELSE <<>>) \in Seq(Pieces)
  BY <1>2
<1>4. TextsIn(fs) = [i \in 1..Len(fs) |->
                       IF fs[i].type \in {"delta", "json"} THEN fs[i].text ELSE <<>>]
  BY <1>1 DEF TextsIn
<1>5. TextsIn(fs) \in Seq(Seq(Pieces))
  BY <1>1, <1>3, <1>4, IsASeq
<1> QED BY <1>1, <1>4, <1>5

LEMMA SizeIs == ASSUME NEW f \in Frame PROVE Size(f) \in Nat /\ Size(f) >= 1
<1>1. Len(f.text) \in Nat
  BY LenProperties DEF Frame
<1> QED BY <1>1 DEF Size

LEMMA PlacesAre ==
  ASSUME NEW fs \in Seq(Frame)
  PROVE  /\ Places(fs) \in Seq(Seq(Frame)) /\ Len(Places(fs)) = Len(fs)
         /\ \A i \in 1..Len(fs) : Places(fs)[i] = [place \in 1..Size(fs[i]) |-> fs[i]]
<1>1. DOMAIN fs = 1..Len(fs) /\ Len(fs) \in Nat
  BY LenProperties
<1>2. \A i \in 1..Len(fs) : fs[i] \in Frame /\ Size(fs[i]) \in Nat
  BY ElementOfSeq, SizeIs
<1>3. \A i \in 1..Len(fs) : [place \in 1..Size(fs[i]) |-> fs[i]] \in Seq(Frame)
  BY <1>2, IsASeq
<1>4. Places(fs) = [i \in 1..Len(fs) |-> [place \in 1..Size(fs[i]) |-> fs[i]]]
  BY <1>1 DEF Places
<1>5. Places(fs) \in Seq(Seq(Frame))
  BY <1>1, <1>3, <1>4, IsASeq
<1> QED BY <1>1, <1>4, <1>5

\* Where q has an element of s, z has what x made of it.
Mirrors(q, s, z, x) ==
  \A i \in 1..Len(q), j \in 1..Len(s) : q[i] = s[j] => z[i] = x[j]

\* z is made of s \o t, element by element, as x of s and y of t.
Assembled(S, T, s, t, x, y, z) ==
  /\ {s, t} \subseteq Seq(S) /\ {x, y, z} \subseteq Seq(T)
  /\ Len(x) = Len(s) /\ Len(y) = Len(t) /\ Len(z) = Len(s \o t)
  /\ Mirrors(s \o t, s, z, x) /\ Mirrors(s \o t, t, z, y)

LEMMA PartsOfConcat ==
  ASSUME NEW S, NEW T, NEW s, NEW t, NEW x, NEW y, NEW z, Assembled(S, T, s, t, x, y, z)
  PROVE  z = x \o y
<1> USE DEF Assembled
<1>1. Len(s) \in Nat /\ Len(t) \in Nat
  BY LenProperties
<1>2. /\ Len(s \o t) = Len(s) + Len(t)
      /\ \A i \in 1..Len(s) + Len(t) :
           (s \o t)[i] = IF i <= Len(s) THEN s[i] ELSE t[i - Len(s)]
  BY ConcatProperties
<1>3. /\ x \o y \in Seq(T) /\ Len(x \o y) = Len(s) + Len(t)
      /\ \A i \in 1..Len(s) + Len(t) :
           (x \o y)[i] = IF i <= Len(s) THEN x[i] ELSE y[i - Len(s)]
  <2>1. /\ x \o y \in Seq(T) /\ Len(x \o y) = Len(x) + Len(y)
        /\ \A i \in 1..Len(x) + Len(y) :
             (x \o y)[i] = IF i <= Len(x) THEN x[i] ELSE y[i - Len(x)]
    BY ConcatProperties
  <2> QED BY <2>1
<1>4. ASSUME NEW i \in 1..Len(z) PROVE z[i] = (x \o y)[i]
  <2>1. CASE i <= Len(s)
    <3>1. i \in 1..Len(s) /\ i \in 1..Len(s \o t) /\ (s \o t)[i] = s[i]
      BY <1>1, <1>2, <2>1
    <3>2. z[i] = x[i]
      BY <3>1 DEF Mirrors
    <3> QED BY <1>1, <1>2, <1>3, <2>1, <3>2
  <2>2. CASE ~(i <= Len(s))
    <3>1. i - Len(s) \in 1..Len(t) /\ i \in 1..Len(s \o t) /\ (s \o t)[i] = t[i - Len(s)]
      BY <1>1, <1>2, <2>2
    <3>2. z[i] = y[i - Len(s)]
      BY <3>1 DEF Mirrors
    <3> QED BY <1>1, <1>2, <1>3, <2>2, <3>2
  <2> QED BY <2>1, <2>2
<1>5. Len(z) = Len(x \o y)
  BY <1>2, <1>3
<1> QED BY <1>3, <1>4, <1>5, SeqEqual

LEMMA FlattenOne == ASSUME NEW T, NEW x \in Seq(T) PROVE FlattenSeq(<<x>>) = x
<1>1. <<>> \in Seq(Seq(T)) /\ <<x>> = Append(<<>>, x)
  BY EmptySeq
<1>2. FlattenSeq(<<x>>) = <<>> \o x
  BY <1>1, FlattenOn, FlattenOfNone
<1> QED BY <1>2, ConcatEmptySeq

-----------------------------------------------------------------------------
(* Dropping frames.                                                        *)

LEMMA DroppingIs ==
  ASSUME NEW fs \in Seq(Frame), NEW types
  PROVE  Dropping(fs, types) = FlattenSeq(Kept(fs, types)) /\ Dropping(fs, types) \in Seq(Frame)
<1>1. Dropping(fs, types) = FlattenSeq(Kept(fs, types))
  BY DEF Dropping, Kept
<1> QED BY <1>1, KeptIs, FlattenOfSequence

LEMMA DroppingConcat ==
  ASSUME NEW s \in Seq(Frame), NEW t \in Seq(Frame), NEW types
  PROVE  Dropping(s \o t, types) = Dropping(s, types) \o Dropping(t, types)
<1> DEFINE x == Kept(s, types)
           y == Kept(t, types)
           z == Kept(s \o t, types)
<1>1. s \o t \in Seq(Frame)
  BY ConcatProperties
<1>2. /\ x \in Seq(Seq(Frame)) /\ Len(x) = Len(s)
      /\ \A i \in 1..Len(s) : x[i] = IF s[i].type \in types THEN <<>> ELSE <<s[i]>>
  BY KeptIs
<1>3. /\ y \in Seq(Seq(Frame)) /\ Len(y) = Len(t)
      /\ \A i \in 1..Len(t) : y[i] = IF t[i].type \in types THEN <<>> ELSE <<t[i]>>
  BY KeptIs
<1>4. /\ z \in Seq(Seq(Frame)) /\ Len(z) = Len(s \o t)
      /\ \A i \in 1..Len(s \o t) :
           z[i] = IF (s \o t)[i].type \in types THEN <<>> ELSE <<(s \o t)[i]>>
  BY <1>1, KeptIs
<1> HIDE DEF x, y, z
<1>5. z = x \o y
  <2>1. Mirrors(s \o t, s, z, x)
    BY <1>2, <1>4, Zenon DEF Mirrors
  <2>2. Mirrors(s \o t, t, z, y)
    BY <1>3, <1>4, Zenon DEF Mirrors
  <2>3. Assembled(Frame, Seq(Frame), s, t, x, y, z)
    BY <1>2, <1>3, <1>4, <2>1, <2>2 DEF Assembled
  <2> QED BY <2>3, PartsOfConcat
<1>6. FlattenSeq(z) = FlattenSeq(x) \o FlattenSeq(y)
  BY <1>2, <1>3, <1>5, FlattenConcat
<1> QED BY <1>1, <1>6, DroppingIs DEF x, y, z

LEMMA DroppingOne ==
  ASSUME NEW f \in Frame, NEW types
  PROVE  Dropping(<<f>>, types) = IF f.type \in types THEN <<>> ELSE <<f>>
<1> DEFINE fs == <<f>>
           x == IF f.type \in types THEN <<>> ELSE <<f>>
<1>1. fs \in Seq(Frame) /\ Len(fs) = 1 /\ fs[1] = f
  OBVIOUS
<1> HIDE DEF fs
<1>2. x \in Seq(Frame) /\ <<x>> \in Seq(Seq(Frame)) /\ Len(<<x>>) = 1 /\ <<x>>[1] = x
  OBVIOUS
<1>3. /\ Kept(fs, types) \in Seq(Seq(Frame)) /\ Len(Kept(fs, types)) = Len(fs)
      /\ \A i \in 1..Len(fs) :
           Kept(fs, types)[i] = IF fs[i].type \in types THEN <<>> ELSE <<fs[i]>>
  BY <1>1, KeptIs
<1>4. Kept(fs, types)[1] = x
  BY <1>1, <1>3
<1> HIDE DEF x
<1>5. Kept(fs, types) = <<x>>
  BY <1>1, <1>2, <1>3, <1>4, SeqEqual
<1>6. Dropping(fs, types) = FlattenSeq(<<x>>)
  BY <1>1, <1>5, DroppingIs
<1> QED BY <1>2, <1>6, FlattenOne DEF fs, x

LEMMA DroppingOfNone == ASSUME NEW types PROVE Dropping(<<>>, types) = <<>>
<1>1. Kept(<<>>, types) = <<>> /\ <<>> \in Seq(Frame)
  <2>1. <<>> \in Seq(Frame) /\ Len(<<>>) = 0
    BY EmptySeq
  <2>2. Kept(<<>>, types) \in Seq(Seq(Frame)) /\ Len(Kept(<<>>, types)) = 0
    BY <2>1, KeptIs
  <2> QED BY <2>1, <2>2, EmptySeq
<1> QED BY <1>1, DroppingIs, FlattenOfNone

LEMMA DroppingOn ==
  ASSUME NEW s \in Seq(Frame), NEW f \in Frame, NEW types
  PROVE  Dropping(Append(s, f), types) =
           IF f.type \in types THEN Dropping(s, types) ELSE Append(Dropping(s, types), f)
<1> DEFINE fs == <<f>>
<1>1. Append(s, f) = s \o fs /\ fs \in Seq(Frame)
  BY AppendIsConcat
<1>2. Dropping(Append(s, f), types) = Dropping(s, types) \o Dropping(fs, types)
  <2> HIDE DEF fs
  <2> QED BY <1>1, DroppingConcat
<1>3. Dropping(s, types) \in Seq(Frame)
  BY DroppingIs
<1>4. Dropping(<<f>>, types) = IF f.type \in types THEN <<>> ELSE <<f>>
  BY DroppingOne
<1> HIDE DEF Dropping
<1>5. CASE f.type \in types
  BY <1>2, <1>3, <1>4, <1>5, ConcatEmptySeq
<1>6. CASE f.type \notin types
  BY <1>2, <1>3, <1>4, <1>6, AppendIsConcat
<1> QED BY <1>5, <1>6

\* Frames of other types are all kept, and of those types all dropped.
LEMMA DroppingOthers ==
  ASSUME NEW s \in Seq(Frame), NEW types, \A i \in 1..Len(s) : s[i].type \notin types
  PROVE  Dropping(s, types) = s
<1> DEFINE N == {q \in Seq(Frame) :
                   (\A i \in 1..Len(q) : q[i].type \notin types) => Dropping(q, types) = q}
<1>1. <<>> \in N
  BY DroppingOfNone, EmptySeq
<1>2. ASSUME NEW q \in Seq(Frame), NEW f \in Frame, q \in N PROVE Append(q, f) \in N
  <2> DEFINE a == Append(q, f)
  <2>1. /\ a \in Seq(Frame) /\ Len(a) = Len(q) + 1 /\ a[Len(q) + 1] = f
        /\ \A i \in 1..Len(q) : a[i] = q[i]
    BY AppendProperties
  <2>2. Len(q) \in Nat
    BY LenProperties
  <2>3. Dropping(a, types) = IF f.type \in types THEN Dropping(q, types)
                             ELSE Append(Dropping(q, types), f)
    BY DroppingOn
  <2> HIDE DEF a
  <2>4. ASSUME \A i \in 1..Len(a) : a[i].type \notin types PROVE Dropping(a, types) = a
    <3>1. f.type \notin types /\ \A i \in 1..Len(q) : q[i].type \notin types
      <4>1. Len(q) + 1 \in 1..Len(a) /\ \A i \in 1..Len(q) : i \in 1..Len(a)
        BY <2>1, <2>2
      <4> QED BY <2>1, <2>4, <4>1
    <3>2. Dropping(q, types) = q
      BY <1>2, <3>1
    <3> QED BY <2>3, <3>1, <3>2 DEF a
  <2> QED BY <2>1, <2>4 DEF a
<1> HIDE DEF N
<1>3. Seq(Frame) \subseteq N
  BY <1>1, <1>2, AllSequences
<1> QED BY <1>3 DEF N

LEMMA DroppingThese ==
  ASSUME NEW s \in Seq(Frame), NEW types, \A i \in 1..Len(s) : s[i].type \in types
  PROVE  Dropping(s, types) = <<>>
<1> DEFINE N == {q \in Seq(Frame) :
                   (\A i \in 1..Len(q) : q[i].type \in types) => Dropping(q, types) = <<>>}
<1>1. <<>> \in N
  BY DroppingOfNone, EmptySeq
<1>2. ASSUME NEW q \in Seq(Frame), NEW f \in Frame, q \in N PROVE Append(q, f) \in N
  <2> DEFINE a == Append(q, f)
  <2>1. /\ a \in Seq(Frame) /\ Len(a) = Len(q) + 1 /\ a[Len(q) + 1] = f
        /\ \A i \in 1..Len(q) : a[i] = q[i]
    BY AppendProperties
  <2>2. Len(q) \in Nat
    BY LenProperties
  <2>3. Dropping(a, types) = IF f.type \in types THEN Dropping(q, types)
                             ELSE Append(Dropping(q, types), f)
    BY DroppingOn
  <2> HIDE DEF a
  <2>4. ASSUME \A i \in 1..Len(a) : a[i].type \in types PROVE Dropping(a, types) = <<>>
    <3>1. f.type \in types /\ \A i \in 1..Len(q) : q[i].type \in types
      <4>1. Len(q) + 1 \in 1..Len(a) /\ \A i \in 1..Len(q) : i \in 1..Len(a)
        BY <2>1, <2>2
      <4> QED BY <2>1, <2>4, <4>1
    <3>2. Dropping(q, types) = <<>>
      BY <1>2, <3>1
    <3> QED BY <2>3, <3>1, <3>2
  <2> QED BY <2>1, <2>4 DEF a
<1> HIDE DEF N
<1>3. Seq(Frame) \subseteq N
  BY <1>1, <1>2, AllSequences
<1> QED BY <1>3 DEF N

-----------------------------------------------------------------------------
(* Text and room.                                                          *)

LEMMA TextOfIs ==
  ASSUME NEW fs \in Seq(Frame)
  PROVE  TextOf(fs) = FlattenSeq(TextsIn(fs)) /\ TextOf(fs) \in Seq(Pieces)
<1>1. TextOf(fs) = FlattenSeq(TextsIn(fs))
  BY DEF TextOf, TextsIn
<1> QED BY <1>1, TextsInIs, FlattenOfSequence

LEMMA TextOfConcat ==
  ASSUME NEW s \in Seq(Frame), NEW t \in Seq(Frame)
  PROVE  TextOf(s \o t) = TextOf(s) \o TextOf(t)
<1> DEFINE x == TextsIn(s)
           y == TextsIn(t)
           z == TextsIn(s \o t)
<1>1. s \o t \in Seq(Frame)
  BY ConcatProperties
<1>2. /\ x \in Seq(Seq(Pieces)) /\ Len(x) = Len(s)
      /\ \A i \in 1..Len(s) : x[i] = IF s[i].type \in {"delta", "json"} THEN s[i].text ELSE <<>>
  BY TextsInIs
<1>3. /\ y \in Seq(Seq(Pieces)) /\ Len(y) = Len(t)
      /\ \A i \in 1..Len(t) : y[i] = IF t[i].type \in {"delta", "json"} THEN t[i].text ELSE <<>>
  BY TextsInIs
<1>4. /\ z \in Seq(Seq(Pieces)) /\ Len(z) = Len(s \o t)
      /\ \A i \in 1..Len(s \o t) :
           z[i] = IF (s \o t)[i].type \in {"delta", "json"} THEN (s \o t)[i].text ELSE <<>>
  BY <1>1, TextsInIs
<1> HIDE DEF x, y, z
<1>5. z = x \o y
  <2>1. Mirrors(s \o t, s, z, x)
    BY <1>2, <1>4, Zenon DEF Mirrors
  <2>2. Mirrors(s \o t, t, z, y)
    BY <1>3, <1>4, Zenon DEF Mirrors
  <2>3. Assembled(Frame, Seq(Pieces), s, t, x, y, z)
    BY <1>2, <1>3, <1>4, <2>1, <2>2 DEF Assembled
  <2> QED BY <2>3, PartsOfConcat
<1>6. FlattenSeq(z) = FlattenSeq(x) \o FlattenSeq(y)
  BY <1>2, <1>3, <1>5, FlattenConcat
<1> QED BY <1>1, <1>6, TextOfIs DEF x, y, z

LEMMA TextOfNone == TextOf(<<>>) = <<>>
<1>1. <<>> \in Seq(Frame) /\ Len(<<>>) = 0
  BY EmptySeq
<1>2. TextsIn(<<>>) \in Seq(Seq(Pieces)) /\ Len(TextsIn(<<>>)) = 0
  BY <1>1, TextsInIs
<1>3. TextsIn(<<>>) = <<>>
  BY <1>2, EmptySeq
<1> QED BY <1>1, <1>3, TextOfIs, FlattenOfNone

LEMMA TextOfOne ==
  ASSUME NEW f \in Frame
  PROVE  TextOf(<<f>>) = IF f.type \in {"delta", "json"} THEN f.text ELSE <<>>
<1> DEFINE fs == <<f>>
           x == IF f.type \in {"delta", "json"} THEN f.text ELSE <<>>
<1>1. fs \in Seq(Frame) /\ Len(fs) = 1 /\ fs[1] = f
  OBVIOUS
<1>2. x \in Seq(Pieces)
  BY EmptySeq DEF Frame
<1> HIDE DEF x
<1>3. <<x>> \in Seq(Seq(Pieces)) /\ Len(<<x>>) = 1 /\ <<x>>[1] = x
  BY <1>2
<1>4. /\ TextsIn(fs) \in Seq(Seq(Pieces)) /\ Len(TextsIn(fs)) = Len(fs)
      /\ \A i \in 1..Len(fs) :
           TextsIn(fs)[i] = IF fs[i].type \in {"delta", "json"} THEN fs[i].text ELSE <<>>
  BY <1>1, TextsInIs
<1>5. TextsIn(fs)[1] = x
  BY <1>1, <1>4 DEF x
<1> HIDE DEF fs
<1>6. TextsIn(fs) = <<x>>
  BY <1>1, <1>3, <1>4, <1>5, SeqEqual
<1>7. TextOf(fs) = FlattenSeq(<<x>>)
  BY <1>1, <1>6, TextOfIs
<1> QED BY <1>2, <1>7, FlattenOne DEF fs, x

\* Frames that are neither deltas nor a JSON reply say nothing.
LEMMA TextOfOthers ==
  ASSUME NEW s \in Seq(Frame), \A i \in 1..Len(s) : s[i].type \notin {"delta", "json"}
  PROVE  TextOf(s) = <<>>
<1> DEFINE N == {q \in Seq(Frame) :
                   (\A i \in 1..Len(q) : q[i].type \notin {"delta", "json"}) => TextOf(q) = <<>>}
<1>1. <<>> \in N
  BY TextOfNone, EmptySeq
<1>2. ASSUME NEW q \in Seq(Frame), NEW f \in Frame, q \in N PROVE Append(q, f) \in N
  <2> DEFINE a == Append(q, f)
  <2>1. /\ a \in Seq(Frame) /\ Len(a) = Len(q) + 1 /\ a[Len(q) + 1] = f
        /\ \A i \in 1..Len(q) : a[i] = q[i]
    BY AppendProperties
  <2>2. Len(q) \in Nat
    BY LenProperties
  <2>3. a = q \o <<f>> /\ <<f>> \in Seq(Frame)
    BY AppendIsConcat
  <2>4. TextOf(q \o <<f>>) = TextOf(q) \o TextOf(<<f>>)
    BY <2>3, TextOfConcat
  <2>5. TextOf(<<f>>) = IF f.type \in {"delta", "json"} THEN f.text ELSE <<>>
    BY TextOfOne
  <2> HIDE DEF a
  <2>6. ASSUME \A i \in 1..Len(a) : a[i].type \notin {"delta", "json"} PROVE TextOf(a) = <<>>
    <3>1. f.type \notin {"delta", "json"} /\ \A i \in 1..Len(q) : q[i].type \notin {"delta", "json"}
      <4>1. Len(q) + 1 \in 1..Len(a) /\ \A i \in 1..Len(q) : i \in 1..Len(a)
        BY <2>1, <2>2
      <4> QED BY <2>1, <2>6, <4>1
    <3>2. TextOf(q) = <<>>
      BY <1>2, <3>1
    <3>3. <<>> \o <<>> = <<>>
      BY EmptySeq, ConcatEmptySeq
    <3> QED BY <2>3, <2>4, <2>5, <3>1, <3>2, <3>3
  <2> QED BY <2>1, <2>6 DEF a
<1> HIDE DEF N
<1>3. Seq(Frame) \subseteq N
  BY <1>1, <1>2, AllSequences
<1> QED BY <1>3 DEF N

LEMMA WaitingIs ==
  ASSUME NEW fs \in Seq(Frame)
  PROVE  /\ FlattenSeq(Places(fs)) \in Seq(Frame) /\ Waiting(fs) = Len(FlattenSeq(Places(fs)))
         /\ Waiting(fs) \in Nat
<1>1. Waiting(fs) = Len(FlattenSeq(Places(fs)))
  BY DEF Waiting, Places
<1>2. FlattenSeq(Places(fs)) \in Seq(Frame)
  BY PlacesAre, FlattenOfSequence
<1> QED BY <1>1, <1>2, LenProperties

LEMMA WaitingForNone == Waiting(<<>>) = 0
<1>1. <<>> \in Seq(Frame) /\ Len(<<>>) = 0
  BY EmptySeq
<1>2. Places(<<>>) \in Seq(Seq(Frame)) /\ Len(Places(<<>>)) = 0
  BY <1>1, PlacesAre
<1>3. Places(<<>>) = <<>>
  BY <1>2, EmptySeq
<1> QED BY <1>1, <1>3, WaitingIs, FlattenOfNone

LEMMA WaitingForConcat ==
  ASSUME NEW s \in Seq(Frame), NEW t \in Seq(Frame)
  PROVE  Waiting(s \o t) = Waiting(s) + Waiting(t)
<1> DEFINE x == Places(s)
           y == Places(t)
           z == Places(s \o t)
<1>1. s \o t \in Seq(Frame)
  BY ConcatProperties
<1>2. /\ x \in Seq(Seq(Frame)) /\ Len(x) = Len(s)
      /\ \A i \in 1..Len(s) : x[i] = [place \in 1..Size(s[i]) |-> s[i]]
  BY PlacesAre
<1>3. /\ y \in Seq(Seq(Frame)) /\ Len(y) = Len(t)
      /\ \A i \in 1..Len(t) : y[i] = [place \in 1..Size(t[i]) |-> t[i]]
  BY PlacesAre
<1>4. /\ z \in Seq(Seq(Frame)) /\ Len(z) = Len(s \o t)
      /\ \A i \in 1..Len(s \o t) : z[i] = [place \in 1..Size((s \o t)[i]) |-> (s \o t)[i]]
  BY <1>1, PlacesAre
<1> HIDE DEF x, y, z
<1>5. z = x \o y
  <2>1. Mirrors(s \o t, s, z, x)
    BY <1>2, <1>4, Zenon DEF Mirrors
  <2>2. Mirrors(s \o t, t, z, y)
    BY <1>3, <1>4, Zenon DEF Mirrors
  <2>3. Assembled(Frame, Seq(Frame), s, t, x, y, z)
    BY <1>2, <1>3, <1>4, <2>1, <2>2 DEF Assembled
  <2> QED BY <2>3, PartsOfConcat
<1>6. FlattenSeq(z) = FlattenSeq(x) \o FlattenSeq(y)
  BY <1>2, <1>3, <1>5, FlattenConcat
<1>7. FlattenSeq(x) \in Seq(Frame) /\ FlattenSeq(y) \in Seq(Frame)
  BY <1>2, <1>3, FlattenOfSequence
<1>8. Len(FlattenSeq(z)) = Len(FlattenSeq(x)) + Len(FlattenSeq(y))
  BY <1>6, <1>7, ConcatProperties
<1> QED BY <1>1, <1>8, WaitingIs DEF x, y, z

-----------------------------------------------------------------------------
(* Writing to the connection.                                              *)

LEMMA WrittenIs ==
  ASSUME NEW c \in Connection, NEW fs \in Seq(Frame)
  PROVE  LET d == Written(c, fs) IN
         /\ d \in Connection /\ d.buffer = c.buffer \o fs
         /\ d.ended = c.ended /\ d.destroyed = c.destroyed
<1> DEFINE b == c.buffer \o fs
           full == c.full \/ Waiting(b) > HighWater
<1>1. b \in Seq(Frame)
  BY ConcatProperties DEF Connection
<1>2. full \in BOOLEAN
  BY DEF Connection
<1>3. Written(c, fs) = [c EXCEPT !.buffer = b, !.full = full]
  BY DEF Written
<1> HIDE DEF b, full
<1>4. [c EXCEPT !.buffer = b, !.full = full] \in Connection
  BY <1>1, <1>2 DEF Connection
<1> QED BY <1>3, <1>4 DEF Connection, b

\* What would wait with the first n frames of fs.
Load(fs, n) == Waiting(connection.buffer) + Waiting(SubSeq(fs, 1, n))

LEMMA FittingIs ==
  ASSUME connection \in Connection, NEW fs \in Seq(Frame)
  PROVE  LET n == Fitting(fs) IN
         /\ n \in 0..Len(fs)
         /\ Gone => n = 0
         /\ ~Gone => (n = 0 \/ Load(fs, n) <= Limit) /\ (n = Len(fs) \/ Load(fs, n + 1) > Limit)
<1> DEFINE W(k) == Load(fs, k)
           Stops(n, k) == (n = 0 \/ W(n) <= Limit) /\ (n = k \/ W(n + 1) > Limit)
           N == {k \in Nat : k <= Len(fs) => \E n \in 0..k : Stops(n, k)}
<1>1. Limit \in Nat /\ Len(fs) \in Nat
  BY ReplyLimitsAssumption, LenProperties
<1>2. \A k \in 0..Len(fs) : W(k) \in Nat
  <2>1. ASSUME NEW k \in 0..Len(fs) PROVE W(k) \in Nat
    <3>1. \A i \in 1..k : fs[i] \in Frame
      BY <1>1, ElementOfSeq
    <3>2. SubSeq(fs, 1, k) \in Seq(Frame)
      BY <1>1, <3>1, SubSeqProperties
    <3>3. Waiting(SubSeq(fs, 1, k)) \in Nat
      BY <3>2, WaitingIs
    <3>4. Waiting(connection.buffer) \in Nat
      BY WaitingIs DEF Connection
    <3> QED BY <3>3, <3>4 DEF Load
  <2> QED BY <2>1
<1> HIDE DEF W
<1>3. 0 \in N
  OBVIOUS
<1>4. ASSUME NEW k \in Nat, k \in N PROVE k + 1 \in N
  <2> SUFFICES ASSUME k + 1 <= Len(fs) PROVE \E n \in 0..k + 1 : Stops(n, k + 1)
    OBVIOUS
  <2>1. k <= Len(fs)
    BY <1>1
  <2>2. PICK n \in 0..k : Stops(n, k)
    BY <1>4, <2>1
  <2>3. CASE W(k + 1) <= Limit /\ n = k
    BY <2>3
  <2>4. CASE ~(W(k + 1) <= Limit) /\ n = k
    <3>1. W(n + 1) > Limit
      BY <1>1, <1>2, <2>4
    <3> QED BY <2>2, <3>1
  <2>5. CASE n # k
    BY <2>2, <2>5
  <2> QED BY <2>3, <2>4, <2>5
<1> HIDE DEF N
<1>5. Nat \subseteq N
  BY <1>3, <1>4, AllNaturals
<1>6. \E n \in 0..Len(fs) : Stops(n, Len(fs))
  BY <1>1, <1>5 DEF N
<1>7. CASE Gone
  BY <1>1, <1>7 DEF Fitting
<1>8. CASE ~Gone
  <2> DEFINE m == CHOOSE n \in 0..Len(fs) : Stops(n, Len(fs))
  <2>1. m \in 0..Len(fs) /\ Stops(m, Len(fs))
    BY <1>6
  <2>2. Fitting(fs) = m
    BY <1>8 DEF Fitting, W, Load
  <2> HIDE DEF m
  <2> QED BY <1>8, <2>1, <2>2 DEF W
<1> QED BY <1>7, <1>8

LEMMA WriteIs ==
  ASSUME connection \in Connection, NEW fs \in Seq(Frame)
  PROVE  LET n == Fitting(fs)
             d == Write(fs) IN
         /\ n \in 0..Len(fs) /\ SubSeq(fs, 1, n) \in Seq(Frame)
         /\ d \in Connection /\ d.buffer = connection.buffer \o SubSeq(fs, 1, n)
         /\ d.ended = connection.ended /\ d.destroyed = connection.destroyed
         /\ Fits(fs) => d.buffer = connection.buffer \o fs /\ (fs = <<>> \/ ~Gone)
         /\ ~Fits(fs) => n < Len(fs)
         /\ Gone => d.buffer = connection.buffer
<1> DEFINE n == Fitting(fs)
           u == SubSeq(fs, 1, n)
<1>1. n \in 0..Len(fs) /\ (Gone => n = 0) /\ Len(fs) \in Nat
  BY FittingIs, LenProperties
<1>2. u \in Seq(Frame) /\ Len(u) = n
  <2>1. \A i \in 1..n : fs[i] \in Frame
    BY <1>1, ElementOfSeq
  <2> QED BY <1>1, <2>1, SubSeqProperties
<1>3. n = Len(fs) => u = fs
  BY SubSeqFull
<1>4. Write(fs) = Written(connection, u)
  BY DEF Write
<1>5. connection.buffer \in Seq(Frame)
  BY DEF Connection
<1>6. Fits(fs) => n = Len(fs) /\ (fs = <<>> \/ ~Gone)
  BY DEF Fits
<1>7. ~Fits(fs) => n < Len(fs)
  <2>1. ASSUME ~Fits(fs), n = Len(fs) PROVE FALSE
    <3>1. fs # <<>> /\ Gone
      BY <2>1 DEF Fits
    <3>2. Len(fs) = 0
      BY <1>1, <2>1, <3>1
    <3> QED BY <3>1, <3>2, EmptySeq
  <2> QED BY <1>1, <2>1
<1>8. Gone => u = <<>>
  BY <1>1, <1>2, EmptySeq
<1> HIDE DEF n, u
<1>9. LET d == Written(connection, u) IN
      /\ d \in Connection /\ d.buffer = connection.buffer \o u
      /\ d.ended = connection.ended /\ d.destroyed = connection.destroyed
  BY <1>2, WrittenIs
<1>10. Gone => connection.buffer \o u = connection.buffer
  BY <1>5, <1>8, ConcatEmptySeq
<1>11. /\ n \in 0..Len(fs) /\ u \in Seq(Frame)
       /\ Write(fs) \in Connection /\ Write(fs).buffer = connection.buffer \o u
       /\ Write(fs).ended = connection.ended /\ Write(fs).destroyed = connection.destroyed
       /\ Fits(fs) => Write(fs).buffer = connection.buffer \o fs /\ (fs = <<>> \/ ~Gone)
       /\ ~Fits(fs) => n < Len(fs)
       /\ Gone => Write(fs).buffer = connection.buffer
  BY <1>1, <1>2, <1>3, <1>4, <1>6, <1>7, <1>9, <1>10
<1> QED BY <1>11 DEF n, u

\* What begins a sequence that fits does fit.
LEMMA FitsPart ==
  ASSUME connection \in Connection, NEW s \in Seq(Frame), NEW t \in Seq(Frame), t # <<>>,
         Fits(s \o t)
  PROVE  Fits(s)
<1> DEFINE q == s \o t
           b == Waiting(connection.buffer)
           n == Fitting(s)
<1>1. Len(s) \in Nat /\ Len(t) \in Nat /\ Len(t) # 0 /\ Limit \in Nat
  BY LenProperties, EmptySeq, ReplyLimitsAssumption
<1>2. q \in Seq(Frame) /\ Len(q) = Len(s) + Len(t) /\ q # <<>> /\ Fits(q)
  BY <1>1, ConcatProperties, ConcatEqualIffEmpty
<1>6. Waiting(q) = Waiting(s) + Waiting(t)
  BY WaitingForConcat
<1> HIDE DEF q
<1>3. ~Gone /\ Fitting(q) = Len(q)
  BY <1>2 DEF Fits
<1>4. b \in Nat /\ Waiting(s) \in Nat /\ Waiting(t) \in Nat
  BY WaitingIs DEF Connection
<1>5. b + Waiting(q) <= Limit
  <2>1. SubSeq(q, 1, Len(q)) = q
    BY <1>2, SubSeqFull
  <2>2. LET m == Fitting(q) IN ~Gone => (m = 0 \/ Load(q, m) <= Limit)
    BY <1>2, FittingIs
  <2>3. Len(q) = 0 \/ b + Waiting(SubSeq(q, 1, Len(q))) <= Limit
    BY <1>3, <2>2 DEF Load
  <2>4. Len(q) # 0
    BY <1>1, <1>2
  <2>5. b + Waiting(SubSeq(q, 1, Len(q))) <= Limit
    BY <2>3, <2>4
  <2> HIDE DEF b
  <2> QED BY <2>1, <2>5, Zenon
<1>7. n \in 0..Len(s) /\ (n = Len(s) \/ b + Waiting(SubSeq(s, 1, n + 1)) > Limit)
  <2>1. n \in 0..Len(s) /\ (~Gone => n = Len(s) \/ Load(s, n + 1) > Limit)
    BY FittingIs
  <2> QED BY <1>3, <2>1 DEF Load
<1> HIDE DEF b, n
<1>8. CASE n # Len(s)
  <2> DEFINE u == SubSeq(s, 1, n + 1)
             v == SubSeq(s, (n + 1) + 1, Len(s))
  <2>1. n + 1 \in 0..Len(s)
    BY <1>1, <1>7, <1>8
  <2>2. u \in Seq(Frame) /\ v \in Seq(Frame) /\ s = u \o v
    BY <2>1, Split
  <2>4. b + Waiting(u) > Limit
    BY <1>7, <1>8
  <2> HIDE DEF u, v
  <2>5. Waiting(s) = Waiting(u) + Waiting(v) /\ Waiting(u) \in Nat /\ Waiting(v) \in Nat
    BY <2>2, WaitingForConcat, WaitingIs
  <2> QED BY <1>1, <1>4, <1>5, <1>6, <2>4, <2>5
<1>9. CASE n = Len(s)
  BY <1>3, <1>9 DEF Fits, n
<1> QED BY <1>8, <1>9

\* Of a sequence that does not fit, but for its last frame, all the others are written.
LEMMA FitsExactly ==
  ASSUME connection \in Connection, NEW s \in Seq(Frame), NEW f \in Frame, Fits(s), ~Fits(s \o <<f>>)
  PROVE  Write(s \o <<f>>).buffer = connection.buffer \o s
<1> DEFINE e == <<f>>
           q == s \o e
           b == Waiting(connection.buffer)
           n == Fitting(q)
<1>1. e \in Seq(Frame) /\ Len(e) = 1 /\ Len(s) \in Nat /\ Limit \in Nat
  BY LenProperties, ReplyLimitsAssumption
<1> HIDE DEF e
<1>2. q \in Seq(Frame) /\ Len(q) = Len(s) + 1
  BY <1>1, ConcatProperties
<1>3. \A k \in 1..Len(s) : SubSeq(q, 1, k) = SubSeq(s, 1, k)
  <2> SUFFICES ASSUME NEW k \in 1..Len(s) PROVE SubSeq(q, 1, k) = SubSeq(s, 1, k)
    OBVIOUS
  <2>1. 1 \in 1..Len(s)
    BY <1>1
  <2> QED BY <1>1, <2>1, SubSeqOfConcat1
<1> HIDE DEF q
<1>4. /\ n \in 0..Len(q) /\ Write(q).buffer = connection.buffer \o SubSeq(q, 1, n)
      /\ n < Len(q) /\ (Gone => Write(q).buffer = connection.buffer)
  BY <1>2, WriteIs DEF q, e
<1>5. connection.buffer \in Seq(Frame) /\ b \in Nat /\ Waiting(s) \in Nat
  BY WaitingIs DEF Connection
<1>6. CASE Gone
  <2>1. s = <<>>
    BY <1>6 DEF Fits
  <2> QED BY <1>4, <1>5, <1>6, <2>1, ConcatEmptySeq DEF q, e
<1>7. CASE ~Gone
  <2>1. ~(n = Len(q)) /\ Load(q, n + 1) > Limit
    <3>1. LET m == Fitting(q) IN ~Gone => (m = Len(q) \/ Load(q, m + 1) > Limit)
      BY <1>2, FittingIs
    <3>2. n # Len(q)
      BY <1>1, <1>2, <1>4
    <3> QED BY <1>7, <3>1, <3>2
  <2>2. s = <<>> \/ b + Waiting(s) <= Limit
    <3>1. Fitting(s) = Len(s)
      BY DEF Fits
    <3>2. LET m == Fitting(s) IN m = 0 \/ Load(s, m) <= Limit
      BY <1>7, FittingIs
    <3>3. Len(s) = 0 \/ b + Waiting(SubSeq(s, 1, Len(s))) <= Limit
      BY <3>1, <3>2 DEF Load
    <3>4. SubSeq(s, 1, Len(s)) = s
      BY SubSeqFull
    <3> HIDE DEF b
    <3> QED BY <3>3, <3>4, EmptySeq
  <2>3. b + Waiting(SubSeq(q, 1, n + 1)) > Limit
    BY <2>1 DEF Load
  <2>6. n < Len(s) \/ n = Len(s)
    BY <1>1, <1>2, <1>4
  <2> HIDE DEF b, n
  <2>4. CASE n < Len(s)
    <3> DEFINE u == SubSeq(s, 1, n + 1)
               v == SubSeq(s, (n + 1) + 1, Len(s))
    <3>1. n + 1 \in 0..Len(s) /\ n + 1 \in 1..Len(s)
      BY <1>1, <1>2, <1>4, <2>4
    <3>2. u \in Seq(Frame) /\ v \in Seq(Frame) /\ s = u \o v
      BY <3>1, Split
    <3>3. b + Waiting(u) > Limit
      BY <1>3, <2>3, <3>1
    <3> HIDE DEF u, v
    <3>4. Waiting(s) = Waiting(u) + Waiting(v) /\ Waiting(u) \in Nat /\ Waiting(v) \in Nat
      BY <3>2, WaitingForConcat, WaitingIs
    <3>5. s # <<>>
      BY <3>1, EmptySeq
    <3> QED BY <1>1, <1>5, <2>2, <3>3, <3>4, <3>5
  <2>5. CASE n = Len(s)
    <3>1. SubSeq(q, 1, n) = s
      <4>1. CASE n = 0
        <5>1. s = <<>>
          BY <2>5, <4>1, EmptySeq
        <5>2. SubSeq(q, 1, 0) = <<>>
          BY SubSeqEmpty
        <5> QED BY <4>1, <5>1, <5>2
      <4>2. CASE n # 0
        <5>1. Len(s) \in 1..Len(s)
          BY <1>1, <2>5, <4>2
        <5> QED BY <1>3, <2>5, <5>1, SubSeqFull
      <4> QED BY <4>1, <4>2
    <3> QED BY <1>4, <3>1 DEF q, e
  <2> QED BY <2>4, <2>5, <2>6
<1> QED BY <1>6, <1>7

-----------------------------------------------------------------------------
(* What a writer sends.                                                    *)

\* Frames that neither end a reply, nor are pings, nor carry a piece of text; frames that
\* do not end it; and pieces of text.
Plain(p) ==
  {f \in Frame : f.type \notin {Terminal(p), "json", "error", "status", "ping", "delta"}}
Inner(p) == {f \in Frame : f.type \notin {Terminal(p), "json", "error", "status"}}
Deltas == {f \in Frame : f.type = "delta"}

\* After the text: what closes it, the tool calls, and what ends the reply but for its
\* last frame.
Place(answer) == IF answer = <<>> THEN 0 ELSE 1
Closes(p, answer) ==
  CASE p = "responses" ->
         (IF answer = <<>> THEN <<>>
          ELSE <<Said("text_done", answer), Said("part_done", answer), Said("item_done", answer)>>)
    [] p = "anthropic" -> (IF answer = <<>> THEN <<>> ELSE <<At("block_stop", 1)>>)
    [] OTHER           -> <<>>
Nearly(p) ==
  CASE p = "chat"      -> <<Control("finish")>>
    [] p = "anthropic" -> <<Control("message_delta")>>
    [] OTHER           -> <<>>
LastOf(p, answer, n) ==
  CASE p = "chat"        -> Control("[DONE]")
    [] p = "responses"   -> Said("completed", answer)
    [] p = "anthropic"   -> Control("message_stop")
    [] p = "ollama_chat" -> At("done", n)
    [] OTHER             -> Control("done")
Body(p, answer, n) == Closes(p, answer) \o (ToolCalls(p, Place(answer), n) \o Nearly(p))

\* The text that is still to be sent, in its block.
RestOf(answer) == SubSeq(answer, Len(writer.said) + 1, Len(answer))
Leading(answer) ==
  IF RestOf(answer) = <<>> THEN <<>>
  ELSE (IF writer.opened THEN <<>> ELSE TextOpening(request.protocol)) \o Rest(RestOf(answer))

LEMMA OpeningsArePlain ==
  ASSUME NEW p \in Protocols PROVE Begin(p) \in Seq(Plain(p)) /\ TextOpening(p) \in Seq(Plain(p))
<1>1. <<>> \in Seq(Plain(p))
  BY EmptySeq
<1>2. CASE p = "chat"
  <2>1. Control("role") \in Plain(p)
    BY <1>2, FramesAre DEF Plain, Terminal, Marks
  <2> QED BY <1>1, <1>2, <2>1 DEF Begin, TextOpening, ChatBegin
<1>3. CASE p = "responses"
  <2>1. {Control("created"), Control("item_added"), Control("part_added")} \subseteq Plain(p)
    BY <1>3, FramesAre DEF Plain, Terminal, Marks
  <2> QED BY <1>3, <2>1 DEF Begin, TextOpening, ResponsesBegin, ResponsesMessage
<1>4. CASE p = "anthropic"
  <2>1. {Control("message_start"), At("block_start", 1)} \subseteq Plain(p)
    BY <1>4, FramesAre DEF Plain, Terminal, Marks
  <2> QED BY <1>4, <2>1 DEF Begin, TextOpening, AnthropicBegin, AnthropicBlock
<1>5. CASE p \in {"ollama_chat", "ollama_generate"}
  BY <1>1, <1>5 DEF Begin, TextOpening
<1> QED BY <1>2, <1>3, <1>4, <1>5 DEF Protocols

LEMMA CallsArePlain ==
  ASSUME NEW p \in Protocols, NEW from \in Nat, NEW n \in Nat
  PROVE  ToolCalls(p, from, n) \in Seq(Plain(p))
<1>1. <<>> \in Seq(Plain(p))
  BY EmptySeq
<1>2. CASE p = "chat"
  <2>1. At("tool_calls", n) \in Plain(p)
    BY <1>2, FramesAre DEF Plain, Terminal, Marks
  <2> QED BY <1>1, <1>2, <2>1 DEF ToolCalls
<1>3. CASE p = "responses"
  <2> DEFINE b(i) == <<At("call_added", from + i), At("arguments_delta", from + i),
                       At("arguments_done", from + i), At("call_done", from + i)>>
  <2>1. ASSUME NEW i \in 1..n PROVE b(i) \in Seq(Plain(p))
    <3>1. {At("call_added", from + i), At("arguments_delta", from + i),
           At("arguments_done", from + i), At("call_done", from + i)} \subseteq Plain(p)
      BY <1>3, FramesAre DEF Plain, Terminal, Marks
    <3> QED BY <3>1
  <2> HIDE DEF b
  <2>2. [i \in 1..n |-> b(i)] \in Seq(Seq(Plain(p)))
    BY <2>1, IsASeq
  <2>3. FlattenSeq([i \in 1..n |-> b(i)]) \in Seq(Plain(p))
    BY <2>2, FlattenOfSequence
  <2>4. ToolCalls(p, from, n) = FlattenSeq([i \in 1..n |-> b(i)])
    BY <1>3 DEF ToolCalls, ResponsesCalls, b
  <2> QED BY <2>3, <2>4
<1>4. CASE p = "anthropic"
  <2> DEFINE b(i) == Block("block_start", "input_delta", "block_stop", from + i)
  <2>1. ASSUME NEW i \in 1..n PROVE b(i) \in Seq(Plain(p))
    <3>1. {At("block_start", from + i), At("input_delta", from + i),
           At("block_stop", from + i)} \subseteq Plain(p)
      BY <1>4, FramesAre DEF Plain, Terminal, Marks
    <3> QED BY <3>1 DEF Block
  <2> HIDE DEF b
  <2>2. [i \in 1..n |-> b(i)] \in Seq(Seq(Plain(p)))
    BY <2>1, IsASeq
  <2>3. FlattenSeq([i \in 1..n |-> b(i)]) \in Seq(Plain(p))
    BY <2>2, FlattenOfSequence
  <2>4. ToolCalls(p, from, n) = FlattenSeq([i \in 1..n |-> b(i)])
    BY <1>4 DEF ToolCalls, b
  <2> QED BY <2>3, <2>4
<1>5. CASE p \in {"ollama_chat", "ollama_generate"}
  BY <1>1, <1>5 DEF ToolCalls
<1> QED BY <1>2, <1>3, <1>4, <1>5 DEF Protocols

LEMMA BodyIsPlain ==
  ASSUME NEW p \in Protocols, NEW answer \in Seq(Pieces), NEW n \in Nat
  PROVE  /\ Closes(p, answer) \in Seq(Plain(p)) /\ Nearly(p) \in Seq(Plain(p))
         /\ ToolCalls(p, Place(answer), n) \in Seq(Plain(p))
         /\ Body(p, answer, n) \in Seq(Plain(p))
<1>1. <<>> \in Seq(Plain(p))
  BY EmptySeq
<1>2. Closes(p, answer) \in Seq(Plain(p))
  <2>1. CASE p = "responses"
    <3>1. {Said("text_done", answer), Said("part_done", answer), Said("item_done", answer)}
             \subseteq Plain(p)
      BY <2>1, FramesAre DEF Plain, Terminal, Marks
    <3> QED BY <1>1, <2>1, <3>1 DEF Closes
  <2>2. CASE p = "anthropic"
    <3> DEFINE f == At("block_stop", 1)
    <3>0. f \in Frame /\ f.type = "block_stop"
      BY FramesAre DEF Marks
    <3> HIDE DEF f
    <3>2. f \in Plain(p)
      BY <2>2, <3>0 DEF Plain, Terminal
    <3>1. At("block_stop", 1) \in Plain(p)
      BY <3>2 DEF f
    <3> QED BY <1>1, <2>2, <3>1 DEF Closes
  <2> QED BY <1>1, <2>1, <2>2 DEF Closes
<1>3. Nearly(p) \in Seq(Plain(p))
  <2>1. CASE p = "chat"
    <3>1. Control("finish") \in Plain(p)
      BY <2>1, FramesAre DEF Plain, Terminal, Marks
    <3> QED BY <2>1, <3>1 DEF Nearly
  <2>2. CASE p = "anthropic"
    <3>1. Control("message_delta") \in Plain(p)
      BY <2>2, FramesAre DEF Plain, Terminal, Marks
    <3> QED BY <2>2, <3>1 DEF Nearly
  <2> QED BY <1>1, <2>1, <2>2 DEF Nearly
<1>4. ToolCalls(p, Place(answer), n) \in Seq(Plain(p))
  BY CallsArePlain DEF Place
<1> QED BY <1>2, <1>3, <1>4, ConcatProperties DEF Body

LEMMA LastIs ==
  ASSUME NEW p \in Protocols, NEW answer \in Seq(Pieces), NEW n \in Nat
  PROVE  LastOf(p, answer, n) \in Frame /\ LastOf(p, answer, n).type = Terminal(p)
<1>1. LastOf(p, answer, n) \in Frame
  BY FramesAre DEF LastOf, Marks
<1>2. LastOf(p, answer, n).type = Terminal(p)
  BY FramesAre DEF LastOf, Marks, Terminal, Protocols
<1> QED BY <1>1, <1>2

\* Plain frames are inner frames, and inner frames are frames.
LEMMA PlainIsInner ==
  ASSUME NEW p \in Protocols, NEW s \in Seq(Plain(p)) PROVE s \in Seq(Inner(p)) /\ s \in Seq(Frame)
<1>1. Plain(p) \subseteq Inner(p) /\ Inner(p) \subseteq Frame
  BY DEF Plain, Inner
<1>2. s \in Seq(Inner(p))
  BY <1>1, SeqMonotonic
<1> QED BY <1>1, <1>2, SeqMonotonic

LEMMA InnerAreFrames == ASSUME NEW p, NEW s \in Seq(Inner(p)) PROVE s \in Seq(Frame)
<1>1. Inner(p) \subseteq Frame
  BY DEF Inner
<1> QED BY <1>1, SeqMonotonic

Together(S, x, y, z, w) == {x, y, z, w} \subseteq Seq(S)

LEMMA Regroup ==
  ASSUME NEW S, NEW x, NEW y, NEW z, NEW w, Together(S, x, y, z, w)
  PROVE  ((x \o y) \o z) \o w = x \o ((y \o z) \o w)
<1>1. x \in Seq(S) /\ y \in Seq(S) /\ z \in Seq(S) /\ w \in Seq(S)
  BY DEF Together
<1>2. y \o z \in Seq(S)
  BY <1>1, ConcatProperties
<1>3. (x \o y) \o z = x \o (y \o z)
  BY <1>1, ConcatAssociative
<1> DEFINE yz == y \o z
<1> HIDE DEF yz
<1>4. (x \o yz) \o w = x \o (yz \o w)
  <2>1. yz \in Seq(S)
    BY <1>2 DEF yz
  <2>2. x \in Seq(S) /\ w \in Seq(S)
    BY <1>1
  <2> QED BY <2>1, <2>2, ConcatAssociative
<1> QED BY <1>3, <1>4 DEF yz

\* The frames of finish(): the rest of the text, then what closes the reply.
LEMMA ClosingIs ==
  ASSUME request.protocol \in Protocols, writer.said \in Seq(Pieces), writer.opened \in BOOLEAN,
         NEW answer \in Seq(Pieces), NEW n \in Nat
  PROVE  LET p == request.protocol IN
         /\ RestOf(answer) \in Seq(Pieces) /\ Leading(answer) \in Seq(Frame)
         /\ Closing(answer, n) \in Seq(Frame)
         /\ Closing(answer, n) # <<>>
         /\ Closing(answer, n) \o EndChunk(p) = Leading(answer) \o Append(Body(p, answer, n), LastOf(p, answer, n))
<1> DEFINE p == request.protocol
           rest == RestOf(answer)
           opening == IF writer.opened THEN <<>> ELSE TextOpening(p)
           a == Leading(answer)
           b == Closes(p, answer)
           c == ToolCalls(p, Place(answer), n)
           d == LastOf(p, answer, n)
           e == Nearly(p)
           all == Append(Body(p, answer, n), d)
<1>1. rest \in Seq(Pieces)
  <2>1. Len(answer) \in Nat /\ Len(writer.said) \in Nat
    BY LenProperties
  <2>2. \A i \in Len(writer.said) + 1..Len(answer) : answer[i] \in Pieces
    BY <2>1, ElementOfSeq
  <2> QED BY <2>1, <2>2, SubSeqProperties DEF RestOf
<1>2. <<>> \in Seq(Frame) /\ Rest(rest) \in Seq(Frame)
  <2>1. Delta(rest) \in Frame
    BY <1>1, FramesAre DEF Delta, Marks
  <2> QED BY <2>1, EmptySeq DEF Rest
<1>3. opening \in Seq(Frame)
  BY <1>2, OpeningsArePlain, PlainIsInner
<1>4. a = IF rest = <<>> THEN <<>> ELSE opening \o Rest(rest)
  BY DEF Leading
<1>5. a \in Seq(Frame)
  BY <1>2, <1>3, <1>4, ConcatProperties
<1>6. b \in Seq(Frame) /\ c \in Seq(Frame) /\ e \in Seq(Frame) /\ d \in Frame
  BY BodyIsPlain, PlainIsInner, LastIs
<1>7. Body(p, answer, n) = b \o (c \o e)
  BY DEF Body
<1>8. p \in Protocols
  OBVIOUS
<1> HIDE DEF p
<1>9. opening = <<>> => a = Rest(rest)
  <2>1. <<>> \o Rest(rest) = Rest(rest)
    BY <1>2, ConcatEmptySeq
  <2> QED BY <1>4, <2>1 DEF Rest
<1>20. Rest(rest) \o <<d>> \in Seq(Frame) /\ Rest(rest) \o <<d>> # <<>>
  BY <1>2, <1>6, ConcatProperties, ConcatEqualIffEmpty
<1> DEFINE q == Closing(answer, n)
<1>10. CASE p = "chat"
  <2>1. b = <<>> /\ e = <<Control("finish")>> /\ d = Control("[DONE]") /\ EndChunk(p) = <<d>>
        /\ opening = <<>>
    BY <1>10 DEF Closes, Nearly, LastOf, EndChunk, TextOpening
  <2>2. c = IF n > 0 THEN <<At("tool_calls", n)>> ELSE <<>>
    BY <1>10 DEF ToolCalls
  <2>3. q = (a \o c) \o e
    BY <1>9, <1>10, <2>1, <2>2 DEF Closing, ChatFinish, RestOf, p
  <2>4. a \o c \in Seq(Frame) /\ q \in Seq(Frame) /\ e # <<>> /\ q # <<>>
    <3>1. a \o c \in Seq(Frame)
      BY <1>5, <1>6, ConcatProperties
    <3>2. e # <<>>
      BY <2>1
    <3> QED BY <1>6, <2>3, <3>1, <3>2, ConcatProperties, ConcatEqualIffEmpty
  <2>5. c \o e \in Seq(Frame)
    BY <1>6, ConcatProperties
  <2> HIDE DEF a, b, c, d, e, q
  <2>6. all = Append(c \o e, d)
    BY <1>7, <2>1, <2>5, ConcatEmptySeq
  <2>7. q \o EndChunk(p) = a \o all
    <3>1. Together(Frame, a, c, e, <<d>>)
      BY <1>5, <1>6 DEF Together
    <3>2. ((a \o c) \o e) \o <<d>> = a \o ((c \o e) \o <<d>>)
      BY <3>1, Regroup
    <3>3. Append(c \o e, d) = (c \o e) \o <<d>>
      BY <1>6, <2>5, AppendIsConcat
    <3> QED BY <2>1, <2>3, <2>6, <3>2, <3>3
  <2> QED BY <1>1, <1>5, <2>4, <2>7 DEF p, a, q, d
<1>11. CASE p = "responses"
  <2>1. e = <<>> /\ EndChunk(p) = <<>> /\ d = Said("completed", answer)
        /\ opening = IF writer.opened THEN <<>> ELSE ResponsesMessage
    BY <1>11 DEF Nearly, LastOf, EndChunk, TextOpening
  <2>2. b = IF answer = <<>> THEN <<>>
            ELSE <<Said("text_done", answer), Said("part_done", answer), Said("item_done", answer)>>
    BY <1>11 DEF Closes
  <2>3. c = ResponsesCalls(Place(answer), n)
    BY <1>11 DEF ToolCalls
  <2>4. ResponsesText(opening, rest, answer) = a \o b
    BY <1>4, <2>2 DEF ResponsesText
  <2>5. q = ResponsesFinish(opening, rest, answer, n)
    BY <1>11, <2>1 DEF Closing, RestOf, TextOpening, p
  <2>6. q = ((a \o b) \o c) \o <<d>>
    BY <2>1, <2>3, <2>4, <2>5 DEF ResponsesFinish, Place
  <2>7. q \in Seq(Frame) /\ q # <<>>
    <3>1. (a \o b) \o c \in Seq(Frame) /\ <<d>> \in Seq(Frame) /\ <<d>> # <<>>
      BY <1>5, <1>6, ConcatProperties
    <3> QED BY <2>6, <3>1, ConcatProperties, ConcatEqualIffEmpty
  <2> HIDE DEF a, b, c, d, e, q
  <2>8. c \o e = c
    BY <1>6, <2>1, ConcatEmptySeq
  <2>9. q \o EndChunk(p) = q
    BY <2>1, <2>7, ConcatEmptySeq
  <2>10. q = a \o all
    <3>1. Together(Frame, a, b, c, <<d>>) /\ b \o c \in Seq(Frame)
      BY <1>5, <1>6, ConcatProperties DEF Together
    <3>2. ((a \o b) \o c) \o <<d>> = a \o ((b \o c) \o <<d>>)
      BY <3>1, Regroup
    <3>3. Append(b \o c, d) = (b \o c) \o <<d>>
      BY <1>6, <3>1, AppendIsConcat
    <3> QED BY <1>7, <2>6, <2>8, <3>2, <3>3
  <2> QED BY <1>1, <1>5, <2>7, <2>9, <2>10 DEF p, a, q, d
<1>12. CASE p = "anthropic"
  <2> DEFINE m == Control("message_delta")
  <2>1. e = <<m>> /\ EndChunk(p) = <<>> /\ d = Control("message_stop")
        /\ opening = IF writer.opened THEN <<>> ELSE AnthropicBlock
    BY <1>12 DEF Nearly, LastOf, EndChunk, TextOpening
  <2>2. b = IF answer = <<>> THEN <<>> ELSE <<At("block_stop", 1)>>
    BY <1>12 DEF Closes
  <2>3. c = AnthropicCalls(Place(answer), n)
    BY <1>12 DEF ToolCalls, AnthropicCalls, Block
  <2>4. AnthropicText(opening, rest, answer) = a \o b
    BY <1>4, <2>2 DEF AnthropicText
  <2>5. q = AnthropicFinish(opening, rest, answer, n)
    BY <1>12, <2>1 DEF Closing, RestOf, TextOpening, p
  <2>6. q = ((a \o b) \o c) \o <<m, d>>
    BY <2>1, <2>3, <2>4, <2>5 DEF AnthropicFinish, Place
  <2>7. m \in Frame
    BY FramesAre DEF Marks
  <2> HIDE DEF a, b, c, d, e, q, m
  <2>8. <<m, d>> = <<m>> \o <<d>> /\ <<m, d>> \in Seq(Frame) /\ <<m, d>> # <<>>
    BY <1>6, <2>7
  <2>9. q \in Seq(Frame) /\ q # <<>> /\ a \o b \in Seq(Frame) /\ (a \o b) \o c \in Seq(Frame)
        /\ c \o e \in Seq(Frame)
    <3>1. a \o b \in Seq(Frame) /\ (a \o b) \o c \in Seq(Frame) /\ c \o e \in Seq(Frame)
      BY <1>5, <1>6, ConcatProperties
    <3> QED BY <2>6, <2>8, <3>1, ConcatProperties, ConcatEqualIffEmpty
  <2>10. q = (((a \o b) \o c) \o e) \o <<d>>
    BY <1>6, <2>1, <2>6, <2>8, <2>9, ConcatAssociative
  <2>11. ((a \o b) \o c) \o e = (a \o b) \o (c \o e)
    <3>1. a \o b \in Seq(Frame)
      BY <2>9
    <3> DEFINE ab == a \o b
    <3>2. ab \in Seq(Frame)
      BY <3>1
    <3> HIDE DEF all, ab
    <3>3. (ab \o c) \o e = ab \o (c \o e)
      BY <1>6, <3>2, ConcatAssociative
    <3> QED BY <3>3 DEF ab
  <2>12. q \o EndChunk(p) = q
    BY <2>1, <2>9, ConcatEmptySeq
  <2>13. q = a \o all
    <3> DEFINE ce == c \o e
    <3>1. ce \in Seq(Frame)
      BY <2>9
    <3> HIDE DEF ce
    <3>2. Together(Frame, a, b, ce, <<d>>) /\ b \o ce \in Seq(Frame)
      BY <1>5, <1>6, <3>1, ConcatProperties DEF Together
    <3>3. ((a \o b) \o ce) \o <<d>> = a \o ((b \o ce) \o <<d>>)
      BY <3>2, Regroup
    <3>4. Append(b \o ce, d) = (b \o ce) \o <<d>>
      BY <1>6, <3>2, AppendIsConcat
    <3> QED BY <1>7, <2>10, <2>11, <3>3, <3>4 DEF ce
  <2> QED BY <1>1, <1>5, <2>9, <2>12, <2>13 DEF p, a, q, d
<1>13. CASE p \in {"ollama_chat", "ollama_generate"}
  <2>1. b = <<>> /\ c = <<>> /\ e = <<>> /\ EndChunk(p) = <<>> /\ opening = <<>>
    BY <1>13 DEF Closes, Nearly, EndChunk, TextOpening, ToolCalls
  <2>2. q = a \o <<d>>
    BY <1>9, <1>13, <2>1 DEF Closing, OllamaChatFinish, OllamaGenerateFinish, RestOf, LastOf, p
  <2> HIDE DEF a, b, c, d, e, q
  <2>3. q \in Seq(Frame) /\ q # <<>>
    BY <1>9, <1>20, <2>1, <2>2
  <2>4. <<>> \o (<<>> \o <<>>) = <<>>
    BY <1>2, ConcatEmptySeq
  <2>5. all = Append(<<>>, d)
    BY <1>7, <2>1, <2>4
  <2>6. q \o EndChunk(p) = q
    BY <2>1, <2>3, ConcatEmptySeq
  <2>7. q = a \o all
    <3>1. Append(<<>>, d) = <<d>>
      OBVIOUS
    <3> QED BY <2>2, <2>5, <3>1
  <2> QED BY <1>1, <1>5, <2>3, <2>6, <2>7 DEF p, a, q, d
<1> QED BY <1>8, <1>10, <1>11, <1>12, <1>13 DEF Protocols

-----------------------------------------------------------------------------
(* How a reply ends.                                                       *)

ErrorFrame == Control("error")

LEMMA WithErrorIs ==
  ASSUME NEW c \in Connection
  PROVE  LET d == WithError(c) IN
         /\ d \in Connection /\ d.ended /\ d.destroyed = c.destroyed
         /\ d.buffer = c.buffer \/ d.buffer = c.buffer \o <<ErrorFrame>>
         /\ c.destroyed => d.buffer = c.buffer
         /\ ~c.destroyed /\ ~c.ended /\ Waiting(c.buffer) < Limit
              => d.buffer = c.buffer \o <<ErrorFrame>>
<1> DEFINE e == <<ErrorFrame>>
           told == ~c.destroyed /\ ~c.ended /\ Waiting(c.buffer) < Limit
           w == IF told THEN Written(c, e) ELSE c
<1>1. e \in Seq(Frame)
  <2>1. ErrorFrame \in Frame
    BY FramesAre DEF Marks, ErrorFrame
  <2> QED BY <2>1
<1>2. WithError(c) = [w EXCEPT !.ended = TRUE]
  BY DEF WithError, ErrorFrame
<1> HIDE DEF e
<1>3. LET v == Written(c, e) IN
      /\ v \in Connection /\ v.buffer = c.buffer \o e
      /\ v.ended = c.ended /\ v.destroyed = c.destroyed
  BY <1>1, WrittenIs
<1>4. /\ w \in Connection /\ w.destroyed = c.destroyed
      /\ told => w.buffer = c.buffer \o e
      /\ ~told => w.buffer = c.buffer
  BY <1>3
<1> HIDE DEF w
<1>5. LET d == [w EXCEPT !.ended = TRUE] IN
      d \in Connection /\ d.ended /\ d.destroyed = w.destroyed /\ d.buffer = w.buffer
  BY <1>4 DEF Connection
<1> QED BY <1>2, <1>4, <1>5 DEF e

LEMMA RefusalIs ==
  ASSUME NEW c \in Connection
  PROVE  LET d == Refusal(c) IN
         /\ d \in Connection /\ d.ended /\ d.destroyed = c.destroyed
         /\ c.destroyed => d.buffer = c.buffer
         /\ ~c.destroyed => d.buffer = <<Control("status")>>
<1> DEFINE e == <<Control("status")>>
<1>1. e \in Seq(Frame)
  <2>1. Control("status") \in Frame
    BY FramesAre DEF Marks
  <2> QED BY <2>1
<1>2. Refusal(c) = IF c.destroyed THEN [c EXCEPT !.ended = TRUE]
                   ELSE [c EXCEPT !.buffer = e, !.ended = TRUE]
  BY DEF Refusal
<1> HIDE DEF e
<1> QED BY <1>1, <1>2 DEF Connection, e

LEMMA JsonIs ==
  ASSUME connection \in Connection, NEW answer \in Seq(Pieces)
  PROVE  LET d == Json(answer) IN
         /\ d \in Connection /\ d.ended /\ d.destroyed = connection.destroyed
         /\ connection.destroyed => d.buffer = connection.buffer
         /\ ~connection.destroyed => d.buffer = <<Said("json", answer)>>
<1> DEFINE e == <<Said("json", answer)>>
<1>1. e \in Seq(Frame)
  <2>1. Said("json", answer) \in Frame
    BY FramesAre DEF Marks
  <2> QED BY <2>1
<1>2. Json(answer) = IF connection.destroyed THEN [connection EXCEPT !.ended = TRUE]
                     ELSE [connection EXCEPT !.buffer = e, !.ended = TRUE]
  BY DEF Json
<1> HIDE DEF e
<1> QED BY <1>1, <1>2 DEF Connection, e

\* All that finish() may send, with the end of the reply.
Whole(answer, n) == Closing(answer, n) \o EndChunk(request.protocol)

\* The writer has what it needs to finish.
Ready ==
  /\ request.protocol \in Protocols /\ writer.said \in Seq(Pieces) /\ writer.opened \in BOOLEAN
  /\ connection \in Connection

\* A finish that succeeds sends the whole, and its last frame.
LEMMA FinishedIs ==
  ASSUME Ready, NEW answer \in Seq(Pieces), NEW n \in Nat, Finishes(answer, n)
  PROVE  LET d == Finish(answer, n) IN
         /\ ~Gone /\ d \in Connection /\ d.ended /\ d.destroyed = connection.destroyed
         /\ Whole(answer, n) \in Seq(Frame)
         /\ d.buffer = connection.buffer \o Whole(answer, n)
<1> USE DEF Ready
<1> DEFINE q == Closing(answer, n)
           e == EndChunk(request.protocol)
           w == Write(q)
           b == w.buffer \o e
<1>1. q \in Seq(Frame) /\ q # <<>>
  BY ClosingIs
<1>2. e \in Seq(Frame)
  <2>1. Control("[DONE]") \in Frame
    BY FramesAre DEF Marks
  <2> QED BY <2>1, EmptySeq DEF EndChunk
<1>3. Fits(q)
  BY DEF Finishes
<1>4. Finish(answer, n) = [w EXCEPT !.buffer = b, !.ended = TRUE]
  BY DEF Finish
<1>5. Whole(answer, n) = q \o e
  BY DEF Whole
<1> HIDE DEF q, e
<1>6. /\ w \in Connection /\ w.buffer = connection.buffer \o q
      /\ w.destroyed = connection.destroyed /\ ~Gone
  BY <1>1, <1>3, WriteIs
<1>7. connection.buffer \in Seq(Frame)
  BY DEF Connection
<1>8. b = connection.buffer \o (q \o e) /\ b \in Seq(Frame) /\ q \o e \in Seq(Frame)
  <2> DEFINE a == connection.buffer
  <2>1. b = (a \o q) \o e
    BY <1>6
  <2>2. a \in Seq(Frame)
    BY <1>7
  <2> HIDE DEF a, b
  <2>3. (a \o q) \o e = a \o (q \o e)
    BY <1>1, <1>2, <2>2, ConcatAssociative
  <2>4. q \o e \in Seq(Frame)
    BY <1>1, <1>2, ConcatProperties
  <2>5. a \o (q \o e) \in Seq(Frame)
    BY <2>2, <2>4, ConcatProperties
  <2> QED BY <2>1, <2>3, <2>4, <2>5 DEF a
<1> HIDE DEF w, b
<1>9. LET d == [w EXCEPT !.buffer = b, !.ended = TRUE] IN
      d \in Connection /\ d.ended /\ d.destroyed = w.destroyed /\ d.buffer = b
  BY <1>6, <1>8 DEF Connection
<1> QED BY <1>4, <1>5, <1>6, <1>8, <1>9

\* One that does not has sent a part of it, and then perhaps an error.
LEMMA UnfinishedIs ==
  ASSUME Ready, NEW answer \in Seq(Pieces), NEW n \in Nat, ~Finishes(answer, n)
  PROVE  \E c \in Connection, k \in Nat :
           /\ Finish(answer, n) = WithError(c)
           /\ c.ended = connection.ended /\ c.destroyed = connection.destroyed
           /\ Gone => c.buffer = connection.buffer
           /\ \/ c.buffer = connection.buffer
              \/ /\ IsPrefix(writer.said, answer) /\ k < Len(Closing(answer, n))
                 /\ c.buffer = connection.buffer \o SubSeq(Closing(answer, n), 1, k)
<1> USE DEF Ready
<1> DEFINE q == Closing(answer, n)
           k == Fitting(q)
           w == Write(q)
<1>1. q \in Seq(Frame) /\ q # <<>>
  BY ClosingIs
<1>2. Finish(answer, n) = WithError(IF IsPrefix(writer.said, answer) THEN w ELSE connection)
  BY DEF Finish
<1>3. CASE ~IsPrefix(writer.said, answer)
  BY <1>2, <1>3
<1>4. CASE IsPrefix(writer.said, answer)
  <2>1. ~Fits(q)
    BY <1>4 DEF Finishes
  <2> HIDE DEF q
  <2>2. /\ k \in Nat /\ k < Len(q)
        /\ w \in Connection /\ w.buffer = connection.buffer \o SubSeq(q, 1, k)
        /\ w.ended = connection.ended /\ w.destroyed = connection.destroyed
        /\ Gone => w.buffer = connection.buffer
    BY <1>1, <2>1, WriteIs, LenProperties
  <2>3. Finish(answer, n) = WithError(w)
    BY <1>2, <1>4
  <2> HIDE DEF k, w
  <2> QED BY <1>4, <2>2, <2>3 DEF q
<1> QED BY <1>3, <1>4

-----------------------------------------------------------------------------
(* The invariant: types, and what goes with where the handler is.          *)

Requests == [protocol : Protocols, stream : BOOLEAN, buffered : BOOLEAN]

ReplyTypes ==
  /\ request \in Requests \union {NoRequest}
  /\ handler \in {"idle", "executing", "over"}
  /\ writer \in [said : Seq(Pieces), opened : BOOLEAN, torn : BOOLEAN]
  /\ connection \in Connection
  /\ heard \in Seq(Frame)
  /\ beat \in [on : BOOLEAN, sent : 0..MaxPings]
  /\ executor \in [state : {"idle", "working", "waiting", "settled"}, offers : 0..MaxText,
                   refused : BOOLEAN, aborted : BOOLEAN, answer : Texts \union {NoAnswer}]
  /\ Len(writer.said) <= executor.offers

\* Before the request nothing has been done; the handler is over when the reply is ended;
\* the executor works for a handler that executes; a connection that is gone holds no
\* frame; and nothing is sent before the end where no stream was asked for.
Phases ==
  /\ handler = "idle" =>
       /\ request = NoRequest /\ writer.said = <<>> /\ ~writer.opened /\ heard = <<>>
       /\ connection.buffer = <<>> /\ ~connection.destroyed /\ ~beat.on
       /\ executor.state = "idle" /\ ~executor.refused
  /\ handler = "over" <=> connection.ended
  /\ handler = "executing" <=> executor.state \in {"working", "waiting"}
  /\ handler = "executing" => request \in Requests
  /\ handler # "over" => executor.answer = NoAnswer
  /\ connection.destroyed => connection.buffer = <<>>
  /\ ~request.stream => ~beat.on /\ (~connection.ended => heard = <<>> /\ connection.buffer = <<>>)

Basics == ReplyTypes /\ Phases

LEMMA TextsAre == Texts \subseteq Seq(Pieces) /\ \A s \in Seq(Pieces) : Len(s) <= MaxText => s \in Texts
<1>1. Texts = UNION {[1..m -> Pieces] : m \in 0..MaxText}
  BY DEF Texts, BoundedSeq, SeqOf
<1>2. ASSUME NEW t \in Texts PROVE t \in Seq(Pieces)
  <2>1. PICK m \in 0..MaxText : t \in [1..m -> Pieces]
    BY <1>1
  <2>2. m \in Nat
    OBVIOUS
  <2> QED BY <2>1, <2>2, SeqDef
<1>3. ASSUME NEW s \in Seq(Pieces), Len(s) <= MaxText PROVE s \in Texts
  <2>1. Len(s) \in 0..MaxText /\ s \in [1..Len(s) -> Pieces]
    BY <1>3, LenProperties, ReplyLimitsAssumption
  <2> QED BY <1>1, <2>1
<1> QED BY <1>2, <1>3

LEMMA BasicsImplyTypeOK == Basics => ReplyTypeOK
<1> SUFFICES ASSUME Basics PROVE ReplyTypeOK
  OBVIOUS
<1> USE ReplyLimitsAssumption DEF Basics, ReplyTypes
<1>1. request \in [protocol : Protocols, stream : BOOLEAN, buffered : BOOLEAN] \union {NoRequest}
  BY DEF Requests
<1>2. writer.said \in BoundedSeq(Pieces, MaxText) /\ writer.opened \in BOOLEAN
  <2>1. writer.said \in Seq(Pieces) /\ Len(writer.said) <= MaxText
    <3>1. Len(writer.said) \in Nat
      BY LenProperties
    <3> QED BY <3>1
  <2> QED BY <2>1, TextsAre DEF Texts
<1>3. {connection.full, connection.ended, connection.destroyed, beat.on} \subseteq BOOLEAN
  BY DEF Connection
<1>4. beat.sent \in 0..MaxPings
  OBVIOUS
<1>5. /\ executor.state \in {"idle", "working", "waiting", "settled"}
      /\ executor.offers \in 0..MaxText /\ executor.answer \in Texts \union {NoAnswer}
  OBVIOUS
<1> QED BY <1>1, <1>2, <1>3, <1>4, <1>5 DEF ReplyTypeOK

LEMMA BasicsInitially == ReplyInit => Basics
<1> SUFFICES ASSUME ReplyInit PROVE Basics
  OBVIOUS
<1> USE ReplyLimitsAssumption DEF ReplyInit
<1>1. <<>> \in Seq(Pieces) /\ <<>> \in Seq(Frame) /\ Len(<<>>) = 0
  BY EmptySeq
<1>2. ReplyTypes
  <2>1. connection \in Connection
    BY <1>1 DEF Connection
  <2>2. executor \in [state : {"idle", "working", "waiting", "settled"}, offers : 0..MaxText,
                   refused : BOOLEAN, aborted : BOOLEAN, answer : Texts \union {NoAnswer}]
    OBVIOUS
  <2> QED BY <1>1, <2>1, <2>2 DEF ReplyTypes
<1>3. Phases
  BY DEF Phases, NoRequest
<1> QED BY <1>2, <1>3 DEF Basics

LEMMA AcceptBasics ==
  ASSUME Basics, NEW p \in Protocols, NEW stream \in BOOLEAN, NEW buffered \in BOOLEAN,
         Accept(p, stream, buffered)
  PROVE  /\ Basics' /\ request'.protocol = p /\ request'.stream = stream
         /\ heard = <<>> /\ connection'.buffer = (IF stream THEN Begin(p) ELSE <<>>)
         /\ ~connection'.ended /\ ~connection'.destroyed
<1> USE DEF Basics, ReplyTypes
<1>1. handler = "idle" /\ handler' = "executing" /\ UNCHANGED <<writer, heard>>
  BY DEF Accept
<1>2. request' \in Requests /\ request'.protocol = p /\ request'.stream = stream
  BY DEF Accept, Requests
<1>3. /\ connection' \in Connection /\ ~connection'.ended /\ ~connection'.destroyed
      /\ connection'.buffer = IF stream THEN Begin(p) ELSE <<>>
  <2>1. Begin(p) \in Seq(Frame)
    BY OpeningsArePlain, PlainIsInner
  <2>2. ~connection.ended /\ ~connection.destroyed /\ connection.buffer = <<>>
    BY <1>1 DEF Phases, Connection
  <2> DEFINE b == Begin(p)
  <2>3. connection' = IF stream THEN Written(connection, b) ELSE connection
    BY DEF Accept
  <2>4. b \in Seq(Frame)
    BY <2>1
  <2> HIDE DEF b
  <2>5. <<>> \o b = b
    BY <2>4, ConcatEmptySeq
  <2>6. LET d == Written(connection, b) IN
         /\ d \in Connection /\ d.buffer = connection.buffer \o b
         /\ d.ended = connection.ended /\ d.destroyed = connection.destroyed
    BY <2>4, WrittenIs
  <2> QED BY <2>2, <2>3, <2>5, <2>6 DEF b
<1>4. beat' \in [on : BOOLEAN, sent : 0..MaxPings] /\ (~stream => ~beat'.on)
  BY DEF Accept
<1>5. /\ executor' \in [state : {"idle", "working", "waiting", "settled"}, offers : 0..MaxText,
                   refused : BOOLEAN, aborted : BOOLEAN, answer : Texts \union {NoAnswer}]
      /\ executor'.offers = executor.offers /\ executor'.state = "working"
      /\ executor'.answer = executor.answer
  BY DEF Accept
<1>6. ReplyTypes'
  BY <1>1, <1>2, <1>3, <1>4, <1>5
<1>7. Phases'
  BY <1>1, <1>2, <1>3, <1>4, <1>5 DEF Phases
<1> QED BY <1>1, <1>2, <1>3, <1>6, <1>7 DEF Phases

LEMMA InvalidBasics ==
  ASSUME Basics, InvalidRequest
  PROVE  /\ Basics' /\ request = NoRequest /\ heard = <<>> /\ connection'.buffer = <<Control("status")>>
         /\ ~connection.destroyed /\ ~connection'.destroyed /\ connection'.ended
<1> USE DEF Basics, ReplyTypes
<1>1. handler = "idle" /\ handler' = "over" /\ UNCHANGED <<request, writer, heard, beat, executor>>
      /\ connection' = Refusal(connection)
  BY DEF InvalidRequest
<1>2. ~connection.destroyed /\ heard = <<>> /\ request = NoRequest /\ executor.state = "idle"
      /\ ~beat.on
  BY <1>1 DEF Phases
<1>3. /\ connection' \in Connection /\ connection'.ended /\ ~connection'.destroyed
      /\ connection'.buffer = <<Control("status")>>
  BY <1>1, <1>2, RefusalIs
<1>4. ReplyTypes'
  BY <1>1, <1>3
<1>5. Phases'
  BY <1>1, <1>2, <1>3 DEF Phases
<1> QED BY <1>2, <1>3, <1>4, <1>5

\* A delta goes to the connection as far as it fits.
DeltaFrames(s) == (IF writer.opened THEN <<>> ELSE TextOpening(request.protocol)) \o <<Delta(s)>>

LEMMA DeltaFramesAre ==
  ASSUME Basics, request \in Requests, NEW s \in Seq(Pieces)
  PROVE  LET opening == IF writer.opened THEN <<>> ELSE TextOpening(request.protocol) IN
         /\ opening \in Seq(Frame) /\ DeltaFrames(s) \in Seq(Frame) /\ DeltaFrames(s) # <<>>
         /\ Delta(s) \in Frame /\ <<Delta(s)>> \in Seq(Frame) /\ Delta(s).type = "delta"
<1> DEFINE opening == IF writer.opened THEN <<>> ELSE TextOpening(request.protocol)
           d == <<Delta(s)>>
<1>1. request.protocol \in Protocols
  BY DEF Requests
<1>2. opening \in Seq(Frame)
  BY <1>1, OpeningsArePlain, PlainIsInner, EmptySeq
<1>3. Delta(s) \in Frame /\ Delta(s).type = "delta"
  BY FramesAre DEF Delta, Marks
<1>4. d \in Seq(Frame) /\ d # <<>>
  BY <1>3
<1>5. DeltaFrames(s) = opening \o d
  BY DEF DeltaFrames
<1> HIDE DEF opening, d
<1>6. opening \o d \in Seq(Frame) /\ opening \o d # <<>>
  BY <1>2, <1>4, ConcatProperties, ConcatEqualIffEmpty
<1> QED BY <1>2, <1>3, <1>4, <1>5, <1>6 DEF opening, d

LEMMA SaidGrows ==
  ASSUME NEW text \in Seq(Pieces), NEW piece \in Pieces
  PROVE  text \o <<piece>> \in Seq(Pieces) /\ Len(text \o <<piece>>) = Len(text) + 1
BY AppendIsConcat, AppendProperties

LEMMA OfferBasics ==
  ASSUME Basics, NEW piece \in Pieces, Offer(<<piece>>)
  PROVE  /\ Basics' /\ handler = "executing" /\ request \in Requests /\ request.stream
         /\ UNCHANGED <<request, handler, heard>> /\ connection' = Write(DeltaFrames(<<piece>>))
         /\ executor'.answer = executor.answer /\ connection'.destroyed = connection.destroyed
         /\ executor.refused => executor'.refused
         /\ writer'.opened
         /\ writer'.torn = (writer.torn \/ ~Fits(IF writer.opened THEN <<>> ELSE TextOpening(request.protocol)))
         /\ writer'.said = IF Fits(IF writer.opened THEN <<>> ELSE TextOpening(request.protocol))
                           THEN writer.said \o <<piece>> ELSE writer.said
         /\ executor'.refused = (executor.refused \/ ~Fits(DeltaFrames(<<piece>>)))
         /\ Fits(DeltaFrames(<<piece>>)) =>
              Fits(IF writer.opened THEN <<>> ELSE TextOpening(request.protocol))
         /\ ~executor'.refused =>
              /\ Fits(DeltaFrames(<<piece>>)) /\ writer'.said = writer.said \o <<piece>>
              /\ ~connection.destroyed
<1> USE DEF Basics, ReplyTypes
<1> DEFINE s == <<piece>>
           opening == IF writer.opened THEN <<>> ELSE TextOpening(request.protocol)
           frames == DeltaFrames(s)
<1>1. /\ executor.state = "working" /\ request.stream /\ executor.offers < MaxText
      /\ UNCHANGED <<request, handler, heard, beat>>
      /\ connection' = Write(frames)
      /\ writer' = [said |-> IF Fits(opening) THEN writer.said \o s ELSE writer.said, opened |-> TRUE,
                    torn |-> writer.torn \/ ~Fits(opening)]
      /\ executor' = [executor EXCEPT !.offers = @ + 1,
                        !.refused = @ \/ ~Fits(frames),
                        !.state = IF Fits(frames) /\ connection'.full THEN "waiting" ELSE @]
  BY DEF Offer, DeltaFrames
<1>2. handler = "executing" /\ request \in Requests
  BY <1>1 DEF Phases
<1>3. s \in Seq(Pieces) /\ Len(s) = 1
  OBVIOUS
<1>4. /\ opening \in Seq(Frame) /\ frames \in Seq(Frame) /\ frames # <<>>
      /\ <<Delta(s)>> \in Seq(Frame) /\ frames = opening \o <<Delta(s)>>
  BY <1>2, <1>3, DeltaFramesAre DEF DeltaFrames
<1> HIDE DEF s, opening, frames
<1>5. /\ connection' \in Connection
      /\ connection'.ended = connection.ended /\ connection'.destroyed = connection.destroyed
      /\ Gone => connection'.buffer = connection.buffer
      /\ Fits(frames) => ~Gone
  BY <1>1, <1>4, WriteIs
<1>6. Fits(frames) => Fits(opening)
  <2> DEFINE d == <<Delta(s)>>
  <2>1. d \in Seq(Frame) /\ d # <<>> /\ frames = opening \o d
    BY <1>4
  <2> HIDE DEF d
  <2> QED BY <1>4, <2>1, FitsPart
<1>7. writer.said \o s \in Seq(Pieces) /\ Len(writer.said \o s) = Len(writer.said) + 1
  BY SaidGrows DEF s
<1>8. writer' \in [said : Seq(Pieces), opened : BOOLEAN, torn : BOOLEAN]
      /\ Len(writer'.said) <= Len(writer.said) + 1 /\ writer'.opened
      /\ writer'.torn = (writer.torn \/ ~Fits(opening))
      /\ writer'.said = IF Fits(opening) THEN writer.said \o s ELSE writer.said
  <2>1. Len(writer.said) \in Nat
    BY LenProperties
  <2> QED BY <1>1, <1>7, <2>1
<1>9. /\ executor' \in [state : {"idle", "working", "waiting", "settled"}, offers : 0..MaxText,
                   refused : BOOLEAN, aborted : BOOLEAN, answer : Texts \union {NoAnswer}]
      /\ executor'.offers = executor.offers + 1 /\ executor'.state \in {"working", "waiting"}
      /\ executor'.answer = executor.answer
      /\ executor'.refused = (executor.refused \/ ~Fits(frames))
  <2>1. MaxText \in Nat
    BY ReplyLimitsAssumption
  <2> DEFINE r == executor.refused \/ ~Fits(frames)
             t == IF Fits(frames) /\ connection'.full THEN "waiting" ELSE executor.state
  <2>2. executor' = [executor EXCEPT !.offers = executor.offers + 1, !.refused = r, !.state = t]
    BY <1>1
  <2>3. r \in BOOLEAN
    OBVIOUS
  <2>4. t \in {"working", "waiting"}
    BY <1>1
  <2> HIDE DEF r, t
  <2>5. executor.offers + 1 \in 0..MaxText
    BY <1>1, <2>1
  <2> QED BY <2>2, <2>3, <2>4, <2>5 DEF r
<1>10. ReplyTypes'
  <2>1. Len(writer'.said) <= executor'.offers
    <3>1. Len(writer'.said) \in Nat /\ Len(writer.said) \in Nat
      BY <1>8, LenProperties
    <3> QED BY <1>8, <1>9, <3>1
  <2> QED BY <1>1, <1>5, <1>8, <1>9, <2>1
<1>11. Phases'
  BY <1>1, <1>2, <1>5, <1>9 DEF Phases, Gone
<1>12. ~executor'.refused => Fits(frames) /\ writer'.said = writer.said \o s /\ ~connection.destroyed
  BY <1>1, <1>5, <1>6, <1>9 DEF Gone
<1>13. executor.refused => executor'.refused
  BY <1>9
<1> QED BY <1>1, <1>2, <1>5, <1>6, <1>8, <1>9, <1>10, <1>11, <1>12, <1>13 DEF s, frames, opening

LEMMA DrainBasics ==
  ASSUME Basics, DrainTimeout
  PROVE  /\ Basics' /\ UNCHANGED <<request, handler, writer, connection, heard, beat>>
         /\ executor'.refused /\ executor'.answer = executor.answer
<1> USE DEF Basics, ReplyTypes
<1>1. /\ executor.state = "waiting" /\ UNCHANGED <<request, handler, writer, connection, heard, beat>>
      /\ executor' = [executor EXCEPT !.state = "working", !.refused = TRUE]
  BY DEF DrainTimeout
<1>2. ReplyTypes' /\ executor'.state = "working" /\ executor'.refused
      /\ executor'.answer = executor.answer
  BY <1>1
<1>3. Phases'
  BY <1>1, <1>2 DEF Phases
<1> QED BY <1>1, <1>2, <1>3

\* The executor settles with an answer: the whole of the reply is sent, or a part of it and
\* perhaps an error, or the JSON reply.
LEMMA AnswerBasics ==
  ASSUME Basics, Answer
  PROVE  /\ Basics' /\ handler = "executing" /\ ~executor.refused /\ ~executor'.refused
         /\ UNCHANGED <<request, writer, heard>> /\ request \in Requests
         /\ connection'.ended /\ connection'.destroyed = connection.destroyed
         /\ \E answer \in Texts, n \in 0..MaxTools :
              /\ executor'.answer = answer
              /\ connection' = IF request.stream THEN Finish(answer, n) ELSE Json(answer)
<1> USE DEF Basics, ReplyTypes
<1>1. /\ handler = "executing" /\ executor.state = "working" /\ ~executor.refused
      /\ handler' = "over" /\ UNCHANGED <<request, writer, heard>>
  BY DEF Answer
<1>2. PICK answer \in Texts, n \in 0..MaxTools :
       /\ executor' = [executor EXCEPT !.state = "settled", !.answer = answer]
       /\ connection' = IF request.stream THEN Finish(answer, n) ELSE Json(answer)
       /\ beat' = [beat EXCEPT !.on = @ /\ ~Finishes(answer, n)]
  BY DEF Answer
<1>3. request \in Requests /\ answer \in Seq(Pieces) /\ n \in Nat /\ Ready
  BY <1>1, TextsAre, ReplyLimitsAssumption DEF Phases, Ready, Requests
<1>4. /\ executor' \in [state : {"idle", "working", "waiting", "settled"}, offers : 0..MaxText,
                   refused : BOOLEAN, aborted : BOOLEAN, answer : Texts \union {NoAnswer}]
      /\ executor'.offers = executor.offers /\ executor'.state = "settled"
      /\ ~executor'.refused /\ executor'.answer = answer
  BY <1>1, <1>2
<1>5. beat' \in [on : BOOLEAN, sent : 0..MaxPings] /\ (~beat.on => ~beat'.on)
  BY <1>2
<1>6. /\ connection' \in Connection /\ connection'.ended
      /\ connection'.destroyed = connection.destroyed
      /\ connection.destroyed => connection'.buffer = connection.buffer
  <2>1. CASE ~request.stream
    BY <1>2, <1>3, <2>1, JsonIs
  <2>2. CASE request.stream /\ Finishes(answer, n)
    BY <1>2, <1>3, <2>2, FinishedIs DEF Gone
  <2>3. CASE request.stream /\ ~Finishes(answer, n)
    <3>1. PICK c \in Connection :
            /\ Finish(answer, n) = WithError(c) /\ c.destroyed = connection.destroyed
            /\ Gone => c.buffer = connection.buffer
      BY <1>3, <2>3, UnfinishedIs
    <3>2. connection' = WithError(c)
      BY <1>2, <2>3, <3>1
    <3> QED BY <3>1, <3>2, WithErrorIs DEF Gone
  <2> QED BY <2>1, <2>2, <2>3
<1>7. ReplyTypes'
  BY <1>1, <1>4, <1>5, <1>6
<1>8. Phases'
  BY <1>1, <1>4, <1>5, <1>6 DEF Phases
<1> QED BY <1>1, <1>2, <1>3, <1>4, <1>6, <1>7, <1>8

LEMMA FailBasics ==
  ASSUME Basics, Fail
  PROVE  /\ Basics' /\ handler = "executing" /\ connection'.ended
         /\ UNCHANGED <<request, writer, heard>> /\ request \in Requests
         /\ executor'.answer = NoAnswer /\ executor'.refused = executor.refused
         /\ connection'.destroyed = connection.destroyed
         /\ connection' = IF request.stream THEN WithError(connection) ELSE Refusal(connection)
<1> USE DEF Basics, ReplyTypes
<1>1. /\ handler = "executing" /\ executor.state = "working" /\ handler' = "over"
      /\ UNCHANGED <<request, writer, heard, beat>>
      /\ executor' = [executor EXCEPT !.state = "settled"]
      /\ connection' = IF request.stream THEN WithError(connection) ELSE Refusal(connection)
  BY DEF Fail
<1>2. request \in Requests /\ executor.answer = NoAnswer
  BY <1>1 DEF Phases
<1>3. /\ executor' \in [state : {"idle", "working", "waiting", "settled"}, offers : 0..MaxText,
                   refused : BOOLEAN, aborted : BOOLEAN, answer : Texts \union {NoAnswer}]
      /\ executor'.offers = executor.offers /\ executor'.state = "settled"
      /\ executor'.answer = executor.answer /\ executor'.refused = executor.refused
  BY <1>1
<1>4. /\ connection' \in Connection /\ connection'.ended
      /\ connection'.destroyed = connection.destroyed
      /\ connection.destroyed => connection'.buffer = connection.buffer
  BY <1>1, WithErrorIs, RefusalIs
<1>5. ReplyTypes'
  BY <1>1, <1>3, <1>4
<1>6. Phases'
  BY <1>1, <1>2, <1>3, <1>4 DEF Phases
<1> QED BY <1>1, <1>2, <1>3, <1>4, <1>5, <1>6

LEMMA ReceiveBasics ==
  ASSUME Basics, Receive
  PROVE  /\ Basics' /\ UNCHANGED <<request, handler, writer>>
         /\ connection.buffer # <<>> /\ ~connection.destroyed /\ ~connection'.destroyed
         /\ connection'.ended = connection.ended
         /\ heard' = Append(heard, Head(connection.buffer))
         /\ connection'.buffer = Tail(connection.buffer)
         /\ executor'.refused = executor.refused /\ executor'.answer = executor.answer
<1> USE DEF Basics, ReplyTypes
<1> DEFINE rest == Tail(connection.buffer)
           f == Head(connection.buffer)
<1>1. /\ connection.buffer # <<>> /\ ~connection.destroyed
      /\ heard' = Append(heard, f)
      /\ connection' = [connection EXCEPT !.buffer = rest, !.full = @ /\ rest # <<>>]
      /\ executor' = [executor EXCEPT !.state = IF rest = <<>> /\ @ = "waiting" THEN "working" ELSE @]
      /\ UNCHANGED <<request, handler, writer, beat>>
  BY DEF Receive
<1>2. rest \in Seq(Frame) /\ f \in Frame
  <2>1. connection.buffer \in Seq(Frame)
    BY DEF Connection
  <2> QED BY <1>1, <2>1, HeadTailProperties
<1> HIDE DEF rest, f
<1>3. heard' \in Seq(Frame)
  BY <1>1, <1>2, AppendProperties
<1>4. /\ connection' \in Connection /\ connection'.ended = connection.ended
      /\ connection'.destroyed = connection.destroyed /\ connection'.buffer = rest
  BY <1>1, <1>2 DEF Connection
<1>5. /\ executor' \in [state : {"idle", "working", "waiting", "settled"}, offers : 0..MaxText,
                   refused : BOOLEAN, aborted : BOOLEAN, answer : Texts \union {NoAnswer}]
      /\ executor'.offers = executor.offers
      /\ executor'.state \in {"working", "waiting"} <=> executor.state \in {"working", "waiting"}
      /\ executor'.answer = executor.answer /\ executor'.refused = executor.refused
  BY <1>1
<1>6. handler # "idle"
  BY <1>1 DEF Phases
<1>7. ReplyTypes'
  BY <1>1, <1>3, <1>4, <1>5
<1>8. Phases'
  BY <1>1, <1>4, <1>5, <1>6 DEF Phases
<1> QED BY <1>1, <1>4, <1>5, <1>7, <1>8 DEF rest, f

\* The socket is closed, by the client or by a heartbeat that found no room.
LEMMA GoneBasics ==
  ASSUME Basics, NEW ended, Closed(ended), handler # "idle", ~connection.destroyed,
         connection' = [connection EXCEPT !.destroyed = TRUE, !.buffer = <<>>],
         beat' = [beat EXCEPT !.on = FALSE], heard' = heard, ended \in BOOLEAN
  PROVE  /\ Basics' /\ UNCHANGED <<request, handler, writer, heard>>
         /\ connection'.ended = connection.ended /\ connection'.destroyed
         /\ connection'.buffer = <<>> /\ executor'.answer = executor.answer
         /\ executor.refused => executor'.refused
<1> USE DEF Basics, ReplyTypes
<1>1. UNCHANGED <<request, handler, writer>>
  BY DEF Closed
<1>2. <<>> \in Seq(Frame)
  BY EmptySeq
<1>3. /\ connection' \in Connection /\ connection'.ended = connection.ended
      /\ connection'.destroyed /\ connection'.buffer = <<>>
  BY <1>2 DEF Connection
<1>4. /\ executor' \in [state : {"idle", "working", "waiting", "settled"}, offers : 0..MaxText,
                   refused : BOOLEAN, aborted : BOOLEAN, answer : Texts \union {NoAnswer}]
      /\ executor'.offers = executor.offers
      /\ executor'.state \in {"working", "waiting"} <=> executor.state \in {"working", "waiting"}
      /\ executor'.answer = executor.answer
      /\ executor.refused => executor'.refused
  <2> DEFINE a == executor.aborted \/ (handler = "executing" /\ ~ended)
             r == executor.refused \/ executor.state = "waiting"
             t == IF executor.state = "waiting" THEN "working" ELSE executor.state
  <2>1. executor' = [executor EXCEPT !.aborted = a, !.refused = r, !.state = t]
    BY DEF Closed
  <2>2. a \in BOOLEAN /\ r \in BOOLEAN /\ (executor.refused => r)
    OBVIOUS
  <2>3. t \in {"idle", "working", "waiting", "settled"}
        /\ (t \in {"working", "waiting"} <=> executor.state \in {"working", "waiting"})
    OBVIOUS
  <2> HIDE DEF a, r, t
  <2> QED BY <2>1, <2>2, <2>3
<1>5. beat' \in [on : BOOLEAN, sent : 0..MaxPings] /\ ~beat'.on
  OBVIOUS
<1>6. ReplyTypes'
  BY <1>1, <1>3, <1>4, <1>5
<1>7. Phases'
  BY <1>1, <1>3, <1>4, <1>5 DEF Phases
<1> QED BY <1>1, <1>3, <1>4, <1>6, <1>7

\* A ping: the heartbeat stops with the reply, sends a frame that fits, or finds no room.
LEMMA PingBasics ==
  ASSUME Basics, Ping
  PROVE  /\ Basics' /\ UNCHANGED <<request, handler, writer, heard>>
         /\ connection'.ended = connection.ended /\ executor'.answer = executor.answer
         /\ executor.refused => executor'.refused
         /\ \/ connection' = connection
            \/ /\ connection'.destroyed /\ connection'.buffer = <<>> /\ handler # "idle"
               /\ ~connection.destroyed /\ ~connection.ended
            \/ /\ ~connection'.destroyed /\ ~connection.ended /\ handler # "idle"
               /\ request.stream /\ ~connection.destroyed
               /\ connection'.buffer = connection.buffer \o <<Control("ping")>>
<1> USE DEF Basics, ReplyTypes
<1>0. beat.on /\ request.stream /\ handler # "idle"
  BY DEF Ping, Phases
<1>1. CASE Gone /\ beat' = [beat EXCEPT !.on = FALSE]
           /\ UNCHANGED <<request, handler, writer, connection, heard, executor>>
  <2>1. ReplyTypes'
    BY <1>1
  <2>2. Phases'
    BY <1>1 DEF Phases
  <2> QED BY <1>1, <2>1, <2>2
<1>2. CASE /\ ~Gone /\ beat.sent < MaxPings /\ Fits(<<Control("ping")>>)
           /\ connection' = Write(<<Control("ping")>>)
           /\ beat' = [beat EXCEPT !.sent = @ + 1]
           /\ UNCHANGED <<request, handler, writer, heard, executor>>
  <2> DEFINE fs == <<Control("ping")>>
  <2>1. fs \in Seq(Frame)
    <3>1. Control("ping") \in Frame
      BY FramesAre DEF Marks
    <3> QED BY <3>1
  <2> HIDE DEF fs
  <2>2. /\ connection' \in Connection /\ connection'.buffer = connection.buffer \o fs
        /\ connection'.ended = connection.ended /\ connection'.destroyed = connection.destroyed
    BY <1>2, <2>1, WriteIs DEF fs
  <2>3. beat' \in [on : BOOLEAN, sent : 0..MaxPings] /\ beat'.on = beat.on
    <3>1. beat.sent + 1 \in 0..MaxPings
      BY <1>2, ReplyLimitsAssumption
    <3> QED BY <1>2, <3>1
  <2>4. ReplyTypes'
    BY <1>2, <2>2, <2>3
  <2>5. Phases'
    BY <1>0, <1>2, <2>2, <2>3 DEF Phases, Gone
  <2> QED BY <1>0, <1>2, <2>2, <2>4, <2>5 DEF fs, Gone
<1>3. CASE /\ ~Gone /\ connection' = [connection EXCEPT !.destroyed = TRUE, !.buffer = <<>>]
           /\ beat' = [beat EXCEPT !.on = FALSE] /\ heard' = heard /\ Closed(FALSE)
  BY <1>0, <1>3, GoneBasics DEF Gone
<1> QED BY <1>1, <1>2, <1>3 DEF Ping

LEMMA LeaveBasics ==
  ASSUME Basics, Leave
  PROVE  /\ Basics' /\ UNCHANGED <<request, handler, writer, heard>> /\ handler # "idle"
         /\ connection'.ended = connection.ended /\ connection'.destroyed
         /\ ~connection.destroyed
         /\ connection'.buffer = <<>> /\ executor'.answer = executor.answer
         /\ executor.refused => executor'.refused
<1>1. connection.ended \in BOOLEAN
  BY DEF Basics, ReplyTypes, Connection
<1> QED BY <1>1, GoneBasics DEF Leave

\* The steps of the specification.
LEMMA Accepted ==
  ChatRequest \/ ResponsesRequest \/ AnthropicRequest \/ OllamaChatRequest \/ OllamaGenerateRequest
    => \E p \in Protocols, stream \in BOOLEAN, buffered \in BOOLEAN : Accept(p, stream, buffered)
<1>1. ASSUME ChatRequest PROVE \E p \in Protocols, stream \in BOOLEAN, buffered \in BOOLEAN :
                                 Accept(p, stream, buffered)
  <2>1. PICK stream, contract, tools, format \in BOOLEAN :
          Accept("chat", stream, contract \/ tools \/ format)
    BY <1>1 DEF ChatRequest
  <2>2. (contract \/ tools \/ format) \in BOOLEAN /\ "chat" \in Protocols
    BY DEF Protocols
  <2> QED BY <2>1, <2>2, Zenon
<1>2. ASSUME ResponsesRequest PROVE \E p \in Protocols, stream \in BOOLEAN, buffered \in BOOLEAN :
                                 Accept(p, stream, buffered)
  <2>1. PICK stream, contract, tools, format \in BOOLEAN :
          Accept("responses", stream, contract \/ tools \/ format)
    BY <1>2 DEF ResponsesRequest
  <2>2. (contract \/ tools \/ format) \in BOOLEAN /\ "responses" \in Protocols
    BY DEF Protocols
  <2> QED BY <2>1, <2>2, Zenon
<1>3. ASSUME AnthropicRequest PROVE \E p \in Protocols, stream \in BOOLEAN, buffered \in BOOLEAN :
                                 Accept(p, stream, buffered)
  <2>1. "anthropic" \in Protocols
    BY DEF Protocols
  <2> QED BY <1>3, <2>1, Zenon DEF AnthropicRequest
<1>4. ASSUME OllamaChatRequest PROVE \E p \in Protocols, stream \in BOOLEAN, buffered \in BOOLEAN :
                                 Accept(p, stream, buffered)
  <2>1. PICK stream, tools, format \in BOOLEAN : Accept("ollama_chat", stream, tools \/ format)
    BY <1>4 DEF OllamaChatRequest
  <2>2. (tools \/ format) \in BOOLEAN /\ "ollama_chat" \in Protocols
    BY DEF Protocols
  <2> QED BY <2>1, <2>2, Zenon
<1>5. ASSUME OllamaGenerateRequest
      PROVE  \E p \in Protocols, stream \in BOOLEAN, buffered \in BOOLEAN :
                                 Accept(p, stream, buffered)
  <2>1. FALSE \in BOOLEAN /\ "ollama_generate" \in Protocols
    BY DEF Protocols
  <2> QED BY <1>5, <2>1, Zenon DEF OllamaGenerateRequest
<1> QED BY <1>1, <1>2, <1>3, <1>4, <1>5

LEMMA BasicsStep == Basics /\ [ReplyNext]_replyVars => Basics'
<1> SUFFICES ASSUME Basics, [ReplyNext]_replyVars PROVE Basics'
  OBVIOUS
<1>1. ASSUME NEW p \in Protocols, NEW stream \in BOOLEAN, NEW buffered \in BOOLEAN,
             Accept(p, stream, buffered)
      PROVE  Basics'
  BY <1>1, AcceptBasics
<1>2. CASE InvalidRequest
  BY <1>2, InvalidBasics
<1>3. ASSUME NEW s \in {<<p>> : p \in Pieces}, Offer(s) PROVE Basics'
  <2>1. PICK piece \in Pieces : s = <<piece>>
    OBVIOUS
  <2>2. Offer(<<piece>>)
    BY <1>3, <2>1
  <2> QED BY <2>2, OfferBasics
<1>4. CASE DrainTimeout
  BY <1>4, DrainBasics
<1>5. CASE Answer
  BY <1>5, AnswerBasics
<1>6. CASE Fail
  BY <1>6, FailBasics
<1>7. CASE Receive
  BY <1>7, ReceiveBasics
<1>8. CASE Leave
  BY <1>8, LeaveBasics
<1>9. CASE Ping
  BY <1>9, PingBasics
<1>10. CASE UNCHANGED replyVars
  BY <1>10 DEF replyVars, Basics, ReplyTypes, Phases
<1> QED BY <1>1, <1>2, <1>3, <1>4, <1>5, <1>6, <1>7, <1>8, <1>9, <1>10, Accepted DEF ReplyNext

\* Every variable keeps its type, whatever the sizes and limits.
THEOREM ReplyTypesHold == ReplySpec => []ReplyTypeOK
<1>1. ReplySpec => []Basics
  BY BasicsInitially, BasicsStep, PTL DEF ReplySpec
<1> QED BY <1>1, BasicsImplyTypeOK, PTL

-----------------------------------------------------------------------------
(* A reply that ends says how.                                             *)

\* The whole of a reply ends with its last frame, and no frame before it ends a reply.
LEMMA WholeIs ==
  ASSUME Ready, NEW answer \in Seq(Pieces), NEW n \in Nat
  PROVE  LET p == request.protocol
             b == Leading(answer) \o Body(p, answer, n)
             f == LastOf(p, answer, n) IN
         /\ Leading(answer) \in Seq(Inner(p)) /\ Body(p, answer, n) \in Seq(Inner(p))
         /\ b \in Seq(Inner(p)) /\ f \in Frame /\ f.type = Terminal(p)
         /\ Whole(answer, n) = Append(b, f) /\ Closing(answer, n) \in Seq(Frame)
<1> DEFINE p == request.protocol
           a == Leading(answer)
           q == Body(p, answer, n)
           f == LastOf(p, answer, n)
<1> USE DEF Ready
<1>1. p \in Protocols
  OBVIOUS
<1>2. /\ RestOf(answer) \in Seq(Pieces) /\ a \in Seq(Frame) /\ Closing(answer, n) \in Seq(Frame)
      /\ Whole(answer, n) = a \o Append(q, f)
  BY ClosingIs DEF Whole
<1>3. q \in Seq(Inner(p)) /\ q \in Seq(Frame)
  BY <1>1, BodyIsPlain, PlainIsInner
<1>4. f \in Frame /\ f.type = Terminal(p)
  BY <1>1, LastIs
<1>5. a \in Seq(Inner(p))
  <2> DEFINE opening == IF writer.opened THEN <<>> ELSE TextOpening(p)
             d == Rest(RestOf(answer))
  <2>1. <<>> \in Seq(Inner(p))
    BY EmptySeq
  <2>2. opening \in Seq(Inner(p))
    BY <1>1, <2>1, OpeningsArePlain, PlainIsInner
  <2>3. d \in Seq(Inner(p))
    <3>1. Delta(RestOf(answer)) \in Frame /\ Delta(RestOf(answer)).type = "delta"
      BY <1>2, FramesAre DEF Delta, Marks
    <3>2. Delta(RestOf(answer)) \in Inner(p)
      BY <1>1, <3>1 DEF Inner, Terminal
    <3> DEFINE g == Delta(RestOf(answer))
    <3>3. d = IF RestOf(answer) = <<>> THEN <<>> ELSE <<g>>
      BY DEF Rest
    <3>4. g \in Inner(p)
      BY <3>2
    <3> HIDE DEF d, g, p
    <3>5. <<g>> \in Seq(Inner(p))
      BY <3>4
    <3> QED BY <2>1, <3>3, <3>5
  <2>4. a = IF RestOf(answer) = <<>> THEN <<>> ELSE opening \o d
    BY DEF Leading
  <2> HIDE DEF opening, d
  <2> QED BY <2>1, <2>2, <2>3, <2>4, ConcatProperties
<1> HIDE DEF a, q, f, p
<1>6. a \o Append(q, f) = Append(a \o q, f)
  BY <1>2, <1>3, <1>4, ConcatOn
<1>7. a \o q \in Seq(Inner(p))
  BY <1>3, <1>5, ConcatProperties
<1> QED BY <1>2, <1>3, <1>4, <1>5, <1>6, <1>7 DEF a, q, f, p

LEMMA LastOfConcat ==
  ASSUME NEW u \in Seq(Frame), NEW v \in Seq(Frame), NEW f \in Frame
  PROVE  LET b == u \o Append(v, f) IN b # <<>> /\ b[Len(b)] = f
<1> DEFINE w == u \o v
           b == Append(w, f)
<1>1. u \o Append(v, f) = b
  BY ConcatOn
<1>2. w \in Seq(Frame)
  BY ConcatProperties
<1> HIDE DEF w
<1>3. b # <<>> /\ Len(b) = Len(w) + 1 /\ b[Len(w) + 1] = f
  BY <1>2, AppendProperties
<1> QED BY <1>1, <1>3

LEMMA LastOfOne ==
  ASSUME NEW u \in Seq(Frame), NEW f \in Frame
  PROVE  LET b == u \o <<f>> IN b # <<>> /\ b[Len(b)] = f
<1>1. <<>> \in Seq(Frame) /\ <<f>> = Append(<<>>, f)
  BY EmptySeq
<1> QED BY <1>1, LastOfConcat

Told(b) == b # <<>> /\ (b[Len(b)].type \in Ends' \/ Waiting(b) >= Limit)

LEMMA ErrorIsTold ==
  ASSUME NEW c \in Connection, ~c.destroyed, ~c.ended
  PROVE  Told(WithError(c).buffer)
<1> DEFINE b == WithError(c).buffer
<1>1. c.buffer \in Seq(Frame)
  BY DEF Connection
<1>2. CASE b = c.buffer \o <<ErrorFrame>>
  <2>1. ErrorFrame \in Frame /\ ErrorFrame.type = "error"
    BY FramesAre DEF Marks, ErrorFrame
  <2>2. b # <<>> /\ b[Len(b)] = ErrorFrame
    BY <1>1, <1>2, <2>1, LastOfOne
  <2> QED BY <2>1, <2>2 DEF Told, Ends
<1>3. CASE b # c.buffer \o <<ErrorFrame>>
  <2>1. b = c.buffer /\ ~(Waiting(c.buffer) < Limit)
    BY <1>3, WithErrorIs
  <2>2. Waiting(c.buffer) \in Nat /\ Limit \in Nat /\ HighWater \in Nat /\ HighWater < Limit
    BY <1>1, WaitingIs, ReplyLimitsAssumption
  <2>3. b # <<>>
    BY <2>1, <2>2, WaitingForNone
  <2>4. Waiting(b) >= Limit
    <3> HIDE DEF b
    <3> QED BY <2>1, <2>2
  <2> QED BY <2>3, <2>4 DEF Told
<1> QED BY <1>2, <1>3

LEMMA EndsTold ==
  ASSUME Basics, [ReplyNext]_replyVars, connection'.ended, ~connection.ended,
         ~connection'.destroyed
  PROVE  Told(connection'.buffer)
<1>1. ASSUME NEW p \in Protocols, NEW stream \in BOOLEAN, NEW buffered \in BOOLEAN,
             Accept(p, stream, buffered)
      PROVE  FALSE
  BY <1>1, AcceptBasics
<1>2. CASE InvalidRequest
  <2>1. Control("status") \in Frame /\ Control("status").type = "status"
    BY FramesAre DEF Marks
  <2>2. connection'.buffer = <<Control("status")>>
    BY <1>2, InvalidBasics
  <2>3. connection'.buffer # <<>> /\ connection'.buffer[Len(connection'.buffer)] = Control("status")
    BY <2>2
  <2> QED BY <2>1, <2>3 DEF Told, Ends
<1>3. CASE Answer
  <2>1. PICK answer \in Texts, n \in 0..MaxTools :
            connection' = IF request.stream THEN Finish(answer, n) ELSE Json(answer)
    BY <1>3, AnswerBasics
  <2>2. request \in Requests /\ request' = request
    BY <1>3, AnswerBasics
  <2>3. Ready /\ answer \in Seq(Pieces) /\ n \in Nat /\ connection.buffer \in Seq(Frame)
    BY <2>2, TextsAre, ReplyLimitsAssumption DEF Basics, ReplyTypes, Ready, Requests, Connection
  <2>4. CASE ~request.stream
    <3>1. ~connection.destroyed /\ connection'.buffer = <<Said("json", answer)>>
      BY <2>1, <2>3, <2>4, JsonIs DEF Ready
    <3>2. Said("json", answer) \in Frame /\ Said("json", answer).type = "json"
      BY <2>3, FramesAre DEF Marks
    <3>3. connection'.buffer # <<>> /\ connection'.buffer[Len(connection'.buffer)] = Said("json", answer)
      BY <3>1
    <3> QED BY <3>2, <3>3 DEF Told, Ends
  <2>5. CASE request.stream /\ Finishes(answer, n)
    <3> DEFINE b == Leading(answer) \o Body(request.protocol, answer, n)
               f == LastOf(request.protocol, answer, n)
    <3>1. connection'.buffer = connection.buffer \o Whole(answer, n)
      BY <2>1, <2>3, <2>5, FinishedIs
    <3>2. /\ b \in Seq(Inner(request.protocol)) /\ f \in Frame
          /\ f.type = Terminal(request.protocol) /\ Whole(answer, n) = Append(b, f)
      BY <2>3, WholeIs
    <3>3. b \in Seq(Frame)
      BY <3>2, InnerAreFrames
    <3> HIDE DEF b, f
    <3>4. connection'.buffer # <<>> /\ connection'.buffer[Len(connection'.buffer)] = f
      <4> DEFINE c == connection.buffer
      <4>1. c \in Seq(Frame) /\ f \in Frame
        BY <2>3, <3>2
      <4> HIDE DEF c
      <4>2. c \o Append(b, f) # <<>> /\ (c \o Append(b, f))[Len(c \o Append(b, f))] = f
        BY <3>3, <4>1, LastOfConcat
      <4> QED BY <3>1, <3>2, <4>2 DEF c
    <3> QED BY <2>2, <3>2, <3>4 DEF Told, Ends
  <2>6. CASE request.stream /\ ~Finishes(answer, n)
    <3>1. PICK c \in Connection :
            /\ Finish(answer, n) = WithError(c)
            /\ c.ended = connection.ended /\ c.destroyed = connection.destroyed
      BY <2>3, <2>6, UnfinishedIs
    <3>2. connection' = WithError(c) /\ ~c.ended /\ ~c.destroyed
      BY <2>1, <2>6, <3>1, WithErrorIs
    <3> QED BY <3>2, ErrorIsTold
  <2> QED BY <2>4, <2>5, <2>6
<1>4. CASE Fail
  <2>1. connection' = IF request.stream THEN WithError(connection) ELSE Refusal(connection)
    BY <1>4, FailBasics
  <2>2. connection \in Connection
    BY DEF Basics, ReplyTypes
  <2>3. CASE request.stream
    <3>1. ~connection.destroyed
      BY <2>1, <2>2, <2>3, WithErrorIs
    <3> QED BY <2>1, <2>2, <2>3, <3>1, ErrorIsTold
  <2>4. CASE ~request.stream
    <3>1. Control("status") \in Frame /\ Control("status").type = "status"
      BY FramesAre DEF Marks
    <3>2. connection'.buffer = <<Control("status")>>
      BY <2>1, <2>2, <2>4, RefusalIs
    <3>3. connection'.buffer # <<>> /\ connection'.buffer[Len(connection'.buffer)] = Control("status")
      BY <3>2
    <3> QED BY <3>1, <3>3 DEF Told, Ends
  <2> QED BY <2>3, <2>4
<1>5. ASSUME NEW s \in {<<p>> : p \in Pieces}, Offer(s) PROVE FALSE
  <2>1. PICK piece \in Pieces : s = <<piece>>
    OBVIOUS
  <2>2. Basics' /\ handler' = handler /\ handler = "executing"
    BY <1>5, <2>1, OfferBasics
  <2> QED BY <2>2 DEF Basics, Phases
<1>6. ~DrainTimeout /\ ~Receive /\ ~Leave /\ ~Ping /\ ~UNCHANGED replyVars
  BY DrainBasics, ReceiveBasics, LeaveBasics, PingBasics DEF replyVars
<1> QED BY <1>1, <1>2, <1>3, <1>4, <1>5, <1>6, Accepted DEF ReplyNext

\* EndIsTold: a reply the server ends has its last frame, or an error, or a full buffer.
THEOREM EndIsToldHolds == ReplySpec => EndIsTold
<1> DEFINE Step == connection'.ended /\ ~connection.ended /\ ~connection'.destroyed
                     => Told(connection'.buffer)
<1>2. Basics /\ [ReplyNext]_replyVars => [Step]_replyVars
  BY EndsTold
<1>3. EndIsTold <=> [][Step]_replyVars
  BY Zenon DEF EndIsTold, Told
<1>4. ReplySpec => []Basics
  BY BasicsInitially, BasicsStep, PTL DEF ReplySpec
<1> QED BY <1>2, <1>3, <1>4, PTL DEF ReplySpec

-----------------------------------------------------------------------------
(* What has been sent, from the first frame to the last.                   *)

LEMMA BeginningIsInner ==
  ASSUME NEW p, NEW s \in Seq(Frame), NEW t \in Seq(Frame), s \o t \in Seq(Inner(p))
  PROVE  s \in Seq(Inner(p))
<1>1. Len(s) \in Nat /\ Len(t) \in Nat
  BY LenProperties
<1>2. Len(s \o t) = Len(s) + Len(t) /\ \A i \in 1..Len(s) : (s \o t)[i] = s[i]
  BY <1>1, ConcatProperties
<1> DEFINE q == s \o t
<1>3. q \in Seq(Inner(p)) /\ \A i \in 1..Len(s) : i \in 1..Len(q) /\ q[i] = s[i]
  BY <1>1, <1>2
<1> HIDE DEF q
<1>4. \A i \in 1..Len(s) : s[i] \in Inner(p)
  BY <1>3, ElementOfSeq
<1>5. s = [i \in 1..Len(s) |-> s[i]]
  BY LenProperties
<1> QED BY <1>1, <1>4, <1>5, IsASeq

\* Of a sequence whose last frame alone may end a reply, all that comes before something else.
LEMMA BeforeTheLast ==
  ASSUME NEW p, NEW s \in Seq(Frame), NEW t \in Seq(Frame), NEW u \in Seq(Inner(p)), NEW f \in Frame,
         s \o t = Append(u, f), t # <<>>
  PROVE  s \in Seq(Inner(p))
<1>1. PICK v \in Seq(Frame), g \in Frame : t = Append(v, g)
  BY SequenceEmptyOrAppend
<1>2. s \o Append(v, g) = Append(s \o v, g)
  BY ConcatOn
<1> DEFINE w == s \o v
<1>3. w \in Seq(Frame) /\ u \in Seq(Frame)
  BY ConcatProperties, InnerAreFrames
<1>4. Append(w, g) = Append(u, f)
  BY <1>1, <1>2
<1> HIDE DEF w
<1>5. w = u
  BY <1>3, <1>4, AppendInjective
<1>6. s \o v \in Seq(Inner(p))
  BY <1>5 DEF w
<1> QED BY <1>6, BeginningIsInner

\* What an unfinished reply sends is a part of the whole, then perhaps an error.
LEMMA UnfinishedSends ==
  ASSUME Ready, NEW answer \in Seq(Pieces), NEW n \in Nat, ~Finishes(answer, n)
  PROVE  LET d == Finish(answer, n) IN
         /\ d.destroyed = connection.destroyed
         /\ connection.destroyed => d.buffer = connection.buffer
         /\ \E v \in Seq(Inner(request.protocol)), w \in Seq(Frame) :
              /\ d.buffer = connection.buffer \o v \/ d.buffer = connection.buffer \o Append(v, ErrorFrame)
              /\ v = <<>> \/ (IsPrefix(writer.said, answer) /\ Whole(answer, n) = v \o w)
<1> DEFINE p == request.protocol
           d == Finish(answer, n)
           a == connection.buffer
           q == Closing(answer, n)
<1> USE DEF Ready
<1>1. PICK c \in Connection, k \in Nat :
           /\ d = WithError(c)
           /\ c.ended = connection.ended /\ c.destroyed = connection.destroyed
           /\ Gone => c.buffer = a
           /\ \/ c.buffer = a
              \/ /\ IsPrefix(writer.said, answer) /\ k < Len(q) /\ c.buffer = a \o SubSeq(q, 1, k)
  BY UnfinishedIs
<1>2. /\ d.destroyed = connection.destroyed
      /\ c.destroyed => d.buffer = c.buffer
      /\ d.buffer = c.buffer \/ d.buffer = c.buffer \o <<ErrorFrame>>
  BY <1>1, WithErrorIs
<1>3. connection.destroyed => d.buffer = a
  BY <1>1, <1>2 DEF Gone
<1>4. a \in Seq(Frame)
  BY DEF Connection
<1>5. ErrorFrame \in Frame /\ <<>> \in Seq(Inner(p)) /\ <<>> \in Seq(Frame)
  BY FramesAre, EmptySeq DEF Marks, ErrorFrame
<1>6. ASSUME NEW v \in Seq(Frame), c.buffer = a \o v
      PROVE  d.buffer = a \o v \/ d.buffer = a \o Append(v, ErrorFrame)
  <2>0. a \in Seq(Frame)
    BY <1>4
  <2> HIDE DEF a, d
  <2>1. a \o Append(v, ErrorFrame) = Append(a \o v, ErrorFrame)
    BY <1>5, <2>0, ConcatOn
  <2> DEFINE av == a \o v
  <2>2. av \in Seq(Frame)
    BY <1>4, ConcatProperties
  <2> HIDE DEF av
  <2>3. Append(av, ErrorFrame) = av \o <<ErrorFrame>>
    BY <1>5, <2>2, AppendIsConcat
  <2> QED BY <1>2, <1>6, <2>1, <2>3 DEF av
<1>7. CASE c.buffer = a
  <2>1. c.buffer = a \o <<>>
    BY <1>4, <1>7, ConcatEmptySeq
  <2> HIDE DEF a, d
  <2>2. d.buffer = a \o <<>> \/ d.buffer = a \o Append(<<>>, ErrorFrame)
    BY <1>5, <1>6, <2>1
  <2> QED BY <1>2, <1>3, <1>5, <2>2 DEF a, d
<1>8. CASE /\ IsPrefix(writer.said, answer) /\ k < Len(q) /\ c.buffer = a \o SubSeq(q, 1, k)
  <2> DEFINE v == SubSeq(q, 1, k)
             r == SubSeq(q, k + 1, Len(q))
             e == EndChunk(p)
             b == Leading(answer) \o Body(p, answer, n)
             f == LastOf(p, answer, n)
             all == Whole(answer, n)
  <2>1. /\ q \in Seq(Frame) /\ all = Append(b, f) /\ b \in Seq(Inner(p)) /\ f \in Frame
        /\ all = q \o e
    BY WholeIs DEF Whole
  <2>2. e \in Seq(Frame)
    <3>1. Control("[DONE]") \in Frame
      BY FramesAre DEF Marks
    <3> QED BY <1>5, <3>1 DEF EndChunk
  <2> HIDE DEF q, e, b, f, all, p
  <2>3. Len(q) \in Nat /\ Len(q) # 0 /\ k \in 0..Len(q)
    BY <1>8, <2>1, LenProperties
  <2>4. /\ v \in Seq(Frame) /\ r \in Seq(Frame) /\ q = v \o r /\ Len(r) = Len(q) - k
    BY <2>1, <2>3, Split
  <2>5. Len(r) # 0
    BY <1>8, <2>3, <2>4
  <2> HIDE DEF v, r
  <2>6. all = v \o (r \o e) /\ r \o e \in Seq(Frame) /\ r \o e # <<>>
    <3>1. (v \o r) \o e = v \o (r \o e)
      BY <2>2, <2>4, ConcatAssociative
    <3>2. r # <<>>
      BY <2>5, EmptySeq
    <3> QED BY <2>1, <2>2, <2>4, <3>1, <3>2, ConcatProperties, ConcatEqualIffEmpty
  <2> DEFINE w == r \o e
  <2>7. w \in Seq(Frame) /\ w # <<>> /\ v \o w = Append(b, f)
    BY <2>1, <2>6
  <2> HIDE DEF w
  <2>8. v \in Seq(Inner(p))
    BY <2>1, <2>4, <2>7, BeforeTheLast
  <2>9. d.buffer = a \o v \/ d.buffer = a \o Append(v, ErrorFrame)
    BY <1>6, <1>8, <2>4 DEF v
  <2> HIDE DEF a, d
  <2> QED BY <1>2, <1>3, <1>8, <2>6, <2>7, <2>8, <2>9 DEF a, d, w, all, p
<1> QED BY <1>1, <1>7, <1>8

\* A reply is made of frames that do not end it, and, once ended, perhaps of one that does:
\* with the last frame of the protocol, or as a JSON reply, its text is the whole answer.
EndsWell ==
  \E u \in Seq(Inner(request.protocol)), f \in Frame :
    /\ Sent = Append(u, f) /\ f.type \in Ends
    /\ f.type \in {Terminal(request.protocol), "json"} =>
         executor.answer # NoAnswer /\ TextOf(Sent) = executor.answer
Framed == Sent \in Seq(Inner(request.protocol)) \/ (connection.ended /\ EndsWell)

\* As long as no delta was refused, what was sent says what the writer has said.
TextIsSaid ==
  handler = "executing" /\ request.stream /\ ~executor.refused /\ ~connection.destroyed
    => TextOf(Sent) = writer.said

Faithful == Basics /\ Framed /\ TextIsSaid

LEMMA SentIs == Basics => Sent \in Seq(Frame) /\ heard \in Seq(Frame) /\ connection.buffer \in Seq(Frame)
<1> SUFFICES ASSUME Basics
             PROVE  Sent \in Seq(Frame) /\ heard \in Seq(Frame) /\ connection.buffer \in Seq(Frame)
  OBVIOUS
<1> DEFINE a == connection.buffer
<1>1. heard \in Seq(Frame) /\ a \in Seq(Frame)
  BY DEF Basics, ReplyTypes, Connection
<1> HIDE DEF a
<1>2. heard \o a \in Seq(Frame)
  BY <1>1, ConcatProperties
<1> QED BY <1>1, <1>2 DEF a, Sent

\* While the reply goes on, what is sent is added to what was sent.
LEMMA SentOn ==
  ASSUME Basics, heard' = heard, NEW fs \in Seq(Frame), connection'.buffer = connection.buffer \o fs
  PROVE  Sent' = Sent \o fs
<1> DEFINE a == connection.buffer
<1>1. heard \in Seq(Frame) /\ a \in Seq(Frame)
  BY SentIs
<1>2. Sent = heard \o a /\ Sent' = heard \o (a \o fs)
  BY DEF Sent
<1> HIDE DEF a
<1> QED BY <1>1, <1>2, ConcatAssociative

LEMMA FramedOn ==
  ASSUME Basics, heard' = heard, UNCHANGED request, ~connection.ended, Framed,
         NEW fs \in Seq(Inner(request.protocol)), connection'.buffer = connection.buffer \o fs
  PROVE  Framed'
<1>1. fs \in Seq(Frame)
  BY InnerAreFrames
<1>2. Sent' = Sent \o fs
  BY <1>1, SentOn
<1>3. Sent \in Seq(Inner(request.protocol))
  BY DEF Framed
<1> DEFINE a == Sent
           p == request.protocol
<1>4. a \in Seq(Inner(p)) /\ fs \in Seq(Inner(p))
  BY <1>3
<1> HIDE DEF a, p
<1>5. a \o fs \in Seq(Inner(p))
  BY <1>4, ConcatProperties
<1>6. Sent' \in Seq(Inner(request.protocol'))
  BY <1>2, <1>5 DEF a, p
<1> QED BY <1>6 DEF Framed

\* When the client or the heartbeat closes the connection, what was heard is the reply.
LEMMA FramedWhenGone ==
  ASSUME Basics, UNCHANGED <<request, heard>>, connection'.ended = connection.ended,
         executor'.answer = executor.answer, connection'.buffer = <<>>, Framed
  PROVE  Framed'
<1> DEFINE a == connection.buffer
<1>1. heard \in Seq(Frame) /\ a \in Seq(Frame) /\ Sent = heard \o a
  BY SentIs DEF Sent
<1>2. Sent' = heard
  <2>1. Sent' = heard \o <<>>
    BY DEF Sent
  <2> QED BY <1>1, <2>1, ConcatEmptySeq
<1>3. CASE a = <<>>
  <2>1. Sent = heard
    BY <1>1, <1>3, ConcatEmptySeq
  <2> QED BY <1>2, <2>1 DEF Framed, EndsWell, Ends
<1>4. CASE Sent \in Seq(Inner(request.protocol))
  <2> HIDE DEF a
  <2>1. heard \in Seq(Inner(request.protocol))
    BY <1>1, <1>4, BeginningIsInner
  <2> QED BY <1>2, <2>1 DEF Framed
<1>5. CASE a # <<>> /\ EndsWell
  <2>1. PICK u \in Seq(Inner(request.protocol)), f \in Frame : Sent = Append(u, f)
    BY <1>5 DEF EndsWell
  <2> HIDE DEF a
  <2>2. heard \o a = Append(u, f)
    BY <1>1, <2>1
  <2>3. heard \in Seq(Inner(request.protocol))
    BY <1>1, <1>5, <2>1, <2>2, BeforeTheLast
  <2> QED BY <1>2, <2>3 DEF Framed
<1> QED BY <1>3, <1>4, <1>5 DEF Framed

LEMMA FaithfulInitially == ReplyInit => Faithful
<1> SUFFICES ASSUME ReplyInit PROVE Faithful
  OBVIOUS
<1>1. Sent = <<>>
  <2>1. heard = <<>> /\ connection.buffer = <<>> /\ <<>> \in Seq(Frame)
    BY EmptySeq DEF ReplyInit
  <2> QED BY <2>1, ConcatEmptySeq DEF Sent
<1>2. Framed
  BY <1>1, EmptySeq DEF Framed
<1>3. TextIsSaid
  BY DEF TextIsSaid, ReplyInit
<1> QED BY <1>2, <1>3, BasicsInitially DEF Faithful

LEMMA FaithfulAccept ==
  ASSUME Faithful, NEW p \in Protocols, NEW stream \in BOOLEAN, NEW buffered \in BOOLEAN,
         Accept(p, stream, buffered)
  PROVE  Framed' /\ TextIsSaid'
<1>1. /\ request'.protocol = p /\ heard = <<>> /\ heard' = heard /\ writer' = writer
      /\ connection'.buffer = (IF stream THEN Begin(p) ELSE <<>>) /\ handler = "idle"
  BY AcceptBasics DEF Faithful, Accept
<1>2. Begin(p) \in Seq(Plain(p)) /\ <<>> \in Seq(Plain(p))
  BY OpeningsArePlain, EmptySeq
<1> DEFINE b == connection'.buffer
<1>3. b \in Seq(Plain(p))
  BY <1>1, <1>2
<1>4. Sent' = <<>> \o b
  BY <1>1 DEF Sent
<1> HIDE DEF b
<1>5. b \in Seq(Inner(p)) /\ b \in Seq(Frame)
  BY <1>3, PlainIsInner
<1>6. Sent' = b
  BY <1>4, <1>5, ConcatEmptySeq
<1>7. Framed'
  BY <1>1, <1>5, <1>6 DEF Framed
<1>8. TextOf(b) = <<>>
  <2>1. \A i \in 1..Len(b) : b[i] \in Plain(p)
    BY <1>3, ElementOfSeq
  <2>2. \A i \in 1..Len(b) : b[i].type \notin {"delta", "json"}
    BY <2>1 DEF Plain
  <2> QED BY <1>5, <2>2, TextOfOthers
<1>9. writer'.said = <<>>
  BY <1>1 DEF Faithful, Basics, Phases
<1>10. TextIsSaid'
  BY <1>6, <1>8, <1>9 DEF TextIsSaid
<1> QED BY <1>7, <1>10

LEMMA TextOfPlain ==
  ASSUME NEW p \in Protocols, NEW s \in Seq(Plain(p)) PROVE TextOf(s) = <<>>
<1>1. \A i \in 1..Len(s) : s[i] \in Plain(p)
  BY ElementOfSeq
<1>2. \A i \in 1..Len(s) : s[i].type \notin {"delta", "json"}
  BY <1>1 DEF Plain
<1> QED BY <1>2, PlainIsInner, TextOfOthers

LEMMA DeltaSays == ASSUME NEW s \in Seq(Pieces) PROVE TextOf(<<Delta(s)>>) = s
<1>1. Delta(s) \in Frame /\ Delta(s).type = "delta"
  BY FramesAre DEF Delta, Marks
<1>2. Delta(s).text = s
  BY DEF Delta, Said
<1> HIDE DEF Delta
<1> QED BY <1>1, <1>2, TextOfOne

LEMMA DeltaFramesSay ==
  ASSUME Basics, request \in Requests, NEW s \in Seq(Pieces)
  PROVE  TextOf(DeltaFrames(s)) = s /\ DeltaFrames(s) \in Seq(Inner(request.protocol))
<1> DEFINE p == request.protocol
           opening == IF writer.opened THEN <<>> ELSE TextOpening(p)
           d == <<Delta(s)>>
<1>1. p \in Protocols
  BY DEF Requests
<1>2. opening \in Seq(Plain(p))
  BY <1>1, OpeningsArePlain, EmptySeq
<1>3. Delta(s) \in Frame /\ Delta(s).type = "delta"
  BY FramesAre DEF Delta, Marks
<1>4. Delta(s) \in Inner(p)
  BY <1>1, <1>3 DEF Inner, Terminal
<1>5. d \in Seq(Inner(p)) /\ d \in Seq(Frame)
  <2> DEFINE f == Delta(s)
  <2>1. f \in Inner(p) /\ f \in Frame
    BY <1>3, <1>4
  <2> HIDE DEF f, p
  <2> QED BY <2>1 DEF f
<1>6. DeltaFrames(s) = opening \o d
  BY DEF DeltaFrames
<1>7. TextOf(d) = s
  BY DeltaSays
<1> HIDE DEF p, opening, d
<1>8. opening \in Seq(Inner(p)) /\ opening \in Seq(Frame) /\ TextOf(opening) = <<>>
  BY <1>1, <1>2, PlainIsInner, TextOfPlain
<1>9. opening \o d \in Seq(Inner(p))
  BY <1>5, <1>8, ConcatProperties
<1>10. TextOf(opening \o d) = <<>> \o s
  BY <1>5, <1>7, <1>8, TextOfConcat
<1> QED BY <1>6, <1>9, <1>10, ConcatEmptySeq DEF p

LEMMA FaithfulOffer ==
  ASSUME Faithful, NEW piece \in Pieces, Offer(<<piece>>)
  PROVE  Framed' /\ TextIsSaid'
<1> DEFINE s == <<piece>>
           fs == DeltaFrames(s)
           a == connection.buffer
           k == Fitting(fs)
<1>1. /\ Basics /\ handler = "executing" /\ request \in Requests /\ request.stream
      /\ UNCHANGED <<request, handler, heard>> /\ connection' = Write(fs)
      /\ executor.refused => executor'.refused
      /\ ~executor'.refused => Fits(fs) /\ writer'.said = writer.said \o s /\ ~connection.destroyed
  BY OfferBasics DEF Faithful
<1>2. connection \in Connection /\ ~connection.ended /\ writer.said \in Seq(Pieces)
  BY <1>1 DEF Basics, ReplyTypes, Phases, Connection
<1>3. s \in Seq(Pieces)
  OBVIOUS
<1>4. fs \in Seq(Inner(request.protocol)) /\ TextOf(fs) = s
  BY <1>1, <1>3, DeltaFramesSay
<1>5. fs \in Seq(Frame)
  BY <1>4, InnerAreFrames
<1> HIDE DEF fs, s
<1>6. /\ k \in 0..Len(fs) /\ connection'.buffer = connection.buffer \o SubSeq(fs, 1, k)
      /\ Fits(fs) => connection'.buffer = connection.buffer \o fs
  BY <1>1, <1>2, <1>5, WriteIs
<1>7. Framed'
  <2> DEFINE v == SubSeq(fs, 1, k)
             w == SubSeq(fs, k + 1, Len(fs))
  <2>1. v \in Seq(Frame) /\ w \in Seq(Frame) /\ fs = v \o w
    BY <1>5, <1>6, Split
  <2> HIDE DEF w, v
  <2>2. v \in Seq(Inner(request.protocol))
    BY <1>4, <2>1, BeginningIsInner
  <2>3. connection'.buffer = connection.buffer \o v
    BY <1>6 DEF v
  <2> QED BY <1>1, <1>2, <2>2, <2>3, FramedOn DEF Faithful
<1>8. ASSUME ~executor'.refused PROVE TextOf(Sent') = writer'.said
  <2>1. Sent' = Sent \o fs
    BY <1>1, <1>5, <1>6, <1>8, SentOn
  <2>2. TextOf(Sent) = writer.said
    BY <1>1, <1>8 DEF Faithful, TextIsSaid
  <2>3. Sent \in Seq(Frame)
    BY <1>1, SentIs
  <2> DEFINE b == Sent
  <2>4. b \in Seq(Frame) /\ TextOf(b) = writer.said
    BY <2>2, <2>3
  <2> HIDE DEF b
  <2>5. TextOf(b \o fs) = TextOf(b) \o TextOf(fs)
    BY <1>5, <2>4, TextOfConcat
  <2> QED BY <1>1, <1>4, <1>8, <2>1, <2>4, <2>5 DEF b
<1>9. TextIsSaid'
  BY <1>8 DEF TextIsSaid
<1> QED BY <1>7, <1>9

LEMMA TextGoesOn ==
  ASSUME NEW s \in Seq(Pieces), NEW answer \in Seq(Pieces), IsPrefix(s, answer)
  PROVE  s \o SubSeq(answer, Len(s) + 1, Len(answer)) = answer
<1>1. Len(s) \in 0..Len(answer)
  <2>1. Len(s) \in Nat /\ Len(answer) \in Nat
    BY LenProperties
  <2> QED BY <2>1 DEF IsPrefix
<1>2. SubSeq(answer, 1, Len(s)) = s
  BY SubSeqFull DEF IsPrefix
<1> DEFINE k == Len(s)
<1>3. k \in 0..Len(answer)
  BY <1>1
<1> HIDE DEF k
<1>4. answer = SubSeq(answer, 1, k) \o SubSeq(answer, k + 1, Len(answer))
  BY <1>3, Split
<1> QED BY <1>2, <1>4 DEF k

\* The whole of a reply says the rest of the answer.
LEMMA WholeSays ==
  ASSUME Ready, NEW answer \in Seq(Pieces), NEW n \in Nat
  PROVE  Whole(answer, n) \in Seq(Frame) /\ TextOf(Whole(answer, n)) = RestOf(answer)
<1> DEFINE p == request.protocol
           a == Leading(answer)
           q == Body(p, answer, n)
           f == LastOf(p, answer, n)
           r == RestOf(answer)
<1> USE DEF Ready
<1>1. p \in Protocols
  OBVIOUS
<1>2. /\ a \in Seq(Inner(p)) /\ q \in Seq(Inner(p)) /\ f \in Frame /\ f.type = Terminal(p)
      /\ Whole(answer, n) = Append(a \o q, f)
  BY WholeIs
<1>3. r \in Seq(Pieces)
  BY ClosingIs
<1>4. a \in Seq(Frame) /\ q \in Seq(Frame)
  BY <1>2, InnerAreFrames
<1>5. TextOf(q) = <<>>
  BY <1>1, BodyIsPlain, TextOfPlain
<1>6. TextOf(<<f>>) = <<>>
  BY <1>1, <1>2, TextOfOne DEF Terminal, Protocols
<1>7. TextOf(a) = r
  <2> DEFINE opening == IF writer.opened THEN <<>> ELSE TextOpening(p)
             d == <<Delta(r)>>
  <2>1. opening \in Seq(Plain(p))
    BY <1>1, OpeningsArePlain, EmptySeq
  <2>2. d \in Seq(Frame)
    <3>1. Delta(r) \in Frame
      BY <1>3, FramesAre DEF Delta, Marks
    <3> QED BY <3>1
  <2>3. TextOf(d) = r
    BY <1>3, DeltaSays
  <2>4. a = IF r = <<>> THEN <<>> ELSE opening \o d
    BY DEF Leading, Rest
  <2> HIDE DEF opening, d, a, r, p
  <2>5. TextOf(opening) = <<>> /\ opening \in Seq(Frame)
    BY <1>1, <2>1, TextOfPlain, PlainIsInner
  <2>6. TextOf(opening \o d) = <<>> \o r
    BY <2>2, <2>3, <2>5, TextOfConcat
  <2> QED BY <1>3, <2>4, <2>6, TextOfNone, ConcatEmptySeq
<1> HIDE DEF a, q, f, r, p
<1>8. a \o q \in Seq(Frame) /\ TextOf(a \o q) = r
  <2>1. a \o q \in Seq(Frame)
    BY <1>4, ConcatProperties
  <2>2. TextOf(a \o q) = r \o <<>>
    BY <1>4, <1>5, <1>7, TextOfConcat
  <2> QED BY <1>3, <2>1, <2>2, ConcatEmptySeq
<1> DEFINE aq == a \o q
<1>9. aq \in Seq(Frame) /\ TextOf(aq) = r
  BY <1>8
<1> HIDE DEF aq
<1>10. Append(aq, f) = aq \o <<f>> /\ <<f>> \in Seq(Frame) /\ Append(aq, f) \in Seq(Frame)
  BY <1>2, <1>9, AppendIsConcat, AppendProperties
<1>11. TextOf(aq \o <<f>>) = r \o <<>>
  BY <1>6, <1>9, <1>10, TextOfConcat
<1> QED BY <1>2, <1>3, <1>10, <1>11, ConcatEmptySeq DEF aq, r

\* A reply of one frame that ends it.
LEMMA FramedAlone ==
  ASSUME heard' = <<>>, connection'.ended, NEW f \in Frame, connection'.buffer = <<f>>,
         f.type \in Ends',
         f.type \in {Terminal(request'.protocol), "json"} =>
           executor'.answer # NoAnswer /\ TextOf(<<f>>) = executor'.answer
  PROVE  Framed'
<1> DEFINE fs == <<f>>
<1>1. fs \in Seq(Frame) /\ fs = Append(<<>>, f)
  OBVIOUS
<1>2. Sent' = <<>> \o fs
  BY DEF Sent
<1> HIDE DEF fs
<1>3. Sent' = fs
  BY <1>1, <1>2, ConcatEmptySeq
<1>4. <<>> \in Seq(Inner(request'.protocol))
  BY EmptySeq
<1>5. EndsWell'
  BY <1>1, <1>3, <1>4 DEF EndsWell, fs
<1> QED BY <1>5 DEF Framed

\* A reply that goes on to an error, or stops.
LEMMA FramedToError ==
  ASSUME Basics, heard' = heard, UNCHANGED request, ~connection.ended, connection'.ended, Framed,
         NEW v \in Seq(Inner(request.protocol)), request.protocol \in Protocols,
         \/ connection'.buffer = connection.buffer \o v
         \/ connection'.buffer = connection.buffer \o Append(v, ErrorFrame)
  PROVE  Framed'
<1>1. CASE connection'.buffer = connection.buffer \o v
  BY <1>1, FramedOn
<1>2. CASE connection'.buffer = connection.buffer \o Append(v, ErrorFrame)
  <2>1. ErrorFrame \in Frame /\ ErrorFrame.type = "error"
    BY FramesAre DEF Marks, ErrorFrame
  <2>2. v \in Seq(Frame)
    BY InnerAreFrames
  <2> DEFINE e == Append(v, ErrorFrame)
  <2>3. e \in Seq(Frame)
    BY <2>1, <2>2, AppendProperties
  <2>4. connection'.buffer = connection.buffer \o e
    BY <1>2
  <2> HIDE DEF e
  <2>5. Sent' = Sent \o e
    BY <2>3, <2>4, SentOn
  <2> DEFINE a == Sent
             p == request.protocol
  <2>6. a \in Seq(Inner(p)) /\ a \in Seq(Frame)
    BY SentIs DEF Framed
  <2>7. v \in Seq(Inner(p)) /\ p \in Protocols
    OBVIOUS
  <2> HIDE DEF a, p
  <2>8. a \o v \in Seq(Inner(p))
    BY <2>6, <2>7, ConcatProperties
  <2>9. a \o e = Append(a \o v, ErrorFrame)
    BY <2>1, <2>2, <2>6, ConcatOn DEF e
  <2>10. ErrorFrame.type \notin {Terminal(p), "json"}
    BY <2>1, <2>7 DEF Terminal
  <2>11. EndsWell'
    <3>1. Sent' = Append(a \o v, ErrorFrame)
      BY <2>5, <2>9 DEF a
    <3>2. request'.protocol = p
      BY DEF p
    <3>3. ErrorFrame.type \in Ends'
      BY <2>1 DEF Ends
    <3> QED BY <2>1, <2>8, <2>10, <3>1, <3>2, <3>3 DEF EndsWell
  <2> QED BY <2>11 DEF Framed
<1> QED BY <1>1, <1>2

LEMMA NotExecuting == ASSUME Basics', connection'.ended PROVE TextIsSaid'
BY DEF Basics, Phases, TextIsSaid

LEMMA FaithfulAnswer ==
  ASSUME Faithful, Answer
  PROVE  Framed' /\ TextIsSaid'
<1>1. /\ Basics /\ Basics' /\ handler = "executing" /\ ~executor.refused
      /\ UNCHANGED <<request, writer, heard>> /\ request \in Requests /\ connection'.ended
  BY AnswerBasics DEF Faithful
<1>2. PICK answer \in Texts, n \in 0..MaxTools :
              /\ executor'.answer = answer
              /\ connection' = IF request.stream THEN Finish(answer, n) ELSE Json(answer)
  BY AnswerBasics DEF Faithful
<1>3. /\ Ready /\ answer \in Seq(Pieces) /\ n \in Nat /\ answer # NoAnswer
      /\ ~connection.ended /\ request.protocol \in Protocols
  BY <1>1, TextsAre, ReplyLimitsAssumption, NoAnswerAssumption
     DEF Basics, ReplyTypes, Ready, Requests, Phases, Connection
<1>4. TextIsSaid'
  BY <1>1, NotExecuting
<1>5. CASE connection.destroyed
  <2>1. connection'.buffer = connection.buffer
    <3>1. CASE ~request.stream
      BY <1>2, <1>3, <1>5, <3>1, JsonIs DEF Ready
    <3>2. CASE request.stream /\ Finishes(answer, n)
      BY <1>3, <1>5, <3>2, FinishedIs DEF Gone
    <3>3. CASE request.stream /\ ~Finishes(answer, n)
      BY <1>2, <1>3, <1>5, <3>3, UnfinishedSends
    <3> QED BY <3>1, <3>2, <3>3
  <2>2. Sent' = Sent
    BY <1>1, <2>1 DEF Sent
  <2> QED BY <1>1, <1>3, <1>4, <2>2 DEF Framed, Faithful
<1>6. CASE ~connection.destroyed /\ ~request.stream
  <2> DEFINE f == Said("json", answer)
  <2>1. connection'.buffer = <<f>> /\ heard' = <<>>
    BY <1>1, <1>2, <1>3, <1>6, JsonIs DEF Ready, Basics, Phases
  <2>2. f \in Frame /\ f.type = "json"
    BY <1>3, FramesAre DEF Marks
  <2>3. f.text = answer
    BY DEF Said
  <2> HIDE DEF f
  <2>4. TextOf(<<f>>) = answer
    BY <2>2, <2>3, TextOfOne
  <2>5. f.type \in Ends'
    BY <2>2 DEF Ends
  <2> QED BY <1>1, <1>2, <1>3, <1>4, <2>1, <2>2, <2>4, <2>5, FramedAlone
<1>7. CASE ~connection.destroyed /\ request.stream /\ Finishes(answer, n)
  <2> DEFINE p == request.protocol
             a == Sent
             b == Leading(answer) \o Body(p, answer, n)
             f == LastOf(p, answer, n)
             all == Whole(answer, n)
  <2>1. connection'.buffer = connection.buffer \o all
    BY <1>2, <1>3, <1>7, FinishedIs
  <2>2. all \in Seq(Frame) /\ TextOf(all) = RestOf(answer)
    BY <1>3, WholeSays
  <2>3. b \in Seq(Inner(p)) /\ f \in Frame /\ f.type = Terminal(p) /\ all = Append(b, f)
    BY <1>3, WholeIs
  <2>4. Sent' = a \o all
    BY <1>1, <2>1, <2>2, SentOn
  <2>5. a \in Seq(Inner(p)) /\ a \in Seq(Frame) /\ TextOf(a) = writer.said
    BY <1>1, <1>3, <1>7, SentIs DEF Faithful, Framed, TextIsSaid
  <2>6. IsPrefix(writer.said, answer)
    BY <1>7 DEF Finishes
  <2>7. writer.said \o RestOf(answer) = answer
    BY <1>3, <2>6, TextGoesOn DEF Ready, RestOf
  <2> HIDE DEF a, b, f, all, p
  <2>8. TextOf(a \o all) = answer
    BY <2>2, <2>5, <2>7, TextOfConcat
  <2>9. b \in Seq(Frame)
    BY <2>3, InnerAreFrames
  <2>10. a \o all = Append(a \o b, f)
    BY <2>3, <2>5, <2>9, ConcatOn
  <2>11. a \o b \in Seq(Inner(p))
    BY <2>3, <2>5, ConcatProperties
  <2>12. EndsWell'
    <3>1. Sent' = Append(a \o b, f) /\ TextOf(Sent') = answer
      BY <2>4, <2>8, <2>10
    <3>2. request'.protocol = p
      BY <1>1 DEF p
    <3>3. f.type \in Ends'
      BY <2>3, <3>2 DEF Ends
    <3> QED BY <1>2, <1>3, <2>3, <2>11, <3>1, <3>2, <3>3 DEF EndsWell
  <2> QED BY <1>1, <1>4, <2>12 DEF Framed
<1>8. CASE ~connection.destroyed /\ request.stream /\ ~Finishes(answer, n)
  <2>1. PICK v \in Seq(Inner(request.protocol)), w \in Seq(Frame) :
          \/ Finish(answer, n).buffer = connection.buffer \o v
          \/ Finish(answer, n).buffer = connection.buffer \o Append(v, ErrorFrame)
    BY <1>3, <1>8, UnfinishedSends
  <2>2. connection' = Finish(answer, n)
    BY <1>2, <1>8
  <2>3. Framed'
    BY <1>1, <1>3, <2>1, <2>2, FramedToError DEF Faithful
  <2> QED BY <1>4, <2>3
<1> QED BY <1>5, <1>6, <1>7, <1>8

LEMMA FaithfulFail ==
  ASSUME Faithful, Fail
  PROVE  Framed' /\ TextIsSaid'
<1>1. /\ Basics /\ Basics' /\ handler = "executing" /\ connection'.ended
      /\ UNCHANGED <<request, writer, heard>> /\ request \in Requests
      /\ executor'.answer = NoAnswer
      /\ connection' = IF request.stream THEN WithError(connection) ELSE Refusal(connection)
  BY FailBasics DEF Faithful
<1>2. connection \in Connection /\ ~connection.ended /\ request.protocol \in Protocols
  BY <1>1 DEF Basics, ReplyTypes, Requests, Phases
<1>3. TextIsSaid'
  BY <1>1, NotExecuting
<1>4. CASE ~request.stream /\ connection.destroyed
  <2>1. connection'.buffer = connection.buffer
    BY <1>1, <1>2, <1>4, RefusalIs
  <2>2. Sent' = Sent
    BY <1>1, <2>1 DEF Sent
  <2> QED BY <1>1, <1>2, <1>3, <2>2 DEF Framed, Faithful
<1>5. CASE ~request.stream /\ ~connection.destroyed
  <2> DEFINE f == Control("status")
  <2>1. connection'.buffer = <<f>> /\ heard' = <<>>
    BY <1>1, <1>2, <1>5, RefusalIs DEF Basics, Phases
  <2>2. f \in Frame /\ f.type = "status"
    BY FramesAre DEF Marks
  <2> HIDE DEF f
  <2>3. f.type \in Ends' /\ f.type \notin {Terminal(request'.protocol), "json"}
    BY <1>1, <1>2, <2>2 DEF Ends, Terminal
  <2> QED BY <1>1, <1>3, <2>1, <2>2, <2>3, FramedAlone
<1>6. CASE request.stream
  <2> DEFINE a == connection.buffer
  <2>1. connection'.buffer = a \/ connection'.buffer = a \o <<ErrorFrame>>
    BY <1>1, <1>2, <1>6, WithErrorIs
  <2>2. a \in Seq(Frame) /\ <<>> \in Seq(Inner(request.protocol))
    BY <1>2, EmptySeq DEF Connection
  <2>3. a \o <<>> = a /\ Append(<<>>, ErrorFrame) = <<ErrorFrame>>
    BY <2>2, ConcatEmptySeq
  <2>4. \/ connection'.buffer = connection.buffer \o <<>>
        \/ connection'.buffer = connection.buffer \o Append(<<>>, ErrorFrame)
    BY <2>1, <2>3
  <2>5. Framed'
    BY <1>1, <1>2, <2>2, <2>4, FramedToError DEF Faithful
  <2> QED BY <1>3, <2>5
<1> QED BY <1>4, <1>5, <1>6

LEMMA HeadAndTail ==
  ASSUME NEW S, NEW s \in Seq(S), NEW t \in Seq(S), t # <<>>
  PROVE  Append(s, Head(t)) \o Tail(t) = s \o t
<1> DEFINE h == <<Head(t)>>
           r == Tail(t)
<1>1. /\ Head(t) \in S /\ r \in Seq(S) /\ Len(r) = Len(t) - 1 /\ Head(t) = t[1]
      /\ \A i \in 1..Len(r) : r[i] = t[i + 1]
  BY HeadTailProperties
<1>2. Len(t) \in Nat /\ Len(t) # 0
  BY EmptySeq
<1>3. h \in Seq(S) /\ Len(h) = 1 /\ h[1] = t[1]
  BY <1>1
<1>4. Append(s, Head(t)) = s \o h
  BY <1>1, AppendIsConcat
<1> HIDE DEF h, r
<1>5. h \o r = t
  <2>1. /\ h \o r \in Seq(S) /\ Len(h \o r) = Len(h) + Len(r)
        /\ \A i \in 1..Len(h) + Len(r) : (h \o r)[i] = IF i <= Len(h) THEN h[i] ELSE r[i - Len(h)]
    <3>1. h \in Seq(S) /\ r \in Seq(S)
      BY <1>1, <1>3
    <3> QED BY <3>1, ConcatProperties
  <2>2. Len(h \o r) = Len(t)
    BY <1>1, <1>2, <1>3, <2>1
  <2>3. ASSUME NEW i \in 1..Len(t) PROVE (h \o r)[i] = t[i]
    <3>1. CASE i = 1
      BY <1>1, <1>2, <1>3, <2>1, <3>1
    <3>2. CASE i # 1
      <4>1. i - 1 \in 1..Len(r) /\ (i - 1) + 1 = i
        BY <1>1, <1>2, <3>2
      <4>2. (h \o r)[i] = r[i - 1]
        BY <1>1, <1>2, <1>3, <2>1, <3>2
      <4> QED BY <1>1, <4>1, <4>2
    <3> QED BY <3>1, <3>2
  <2> QED BY <2>1, <2>2, <2>3, SeqEqual
<1>6. (s \o h) \o r = s \o (h \o r)
  <2>1. h \in Seq(S) /\ r \in Seq(S)
    BY <1>1, <1>3
  <2> QED BY <2>1, ConcatAssociative
<1> QED BY <1>4, <1>5, <1>6 DEF r

LEMMA SentKept == ASSUME Basics, Receive PROVE Sent' = Sent
<1> DEFINE a == connection.buffer
<1>1. a # <<>> /\ heard' = Append(heard, Head(a)) /\ connection'.buffer = Tail(a)
  BY ReceiveBasics
<1>2. heard \in Seq(Frame) /\ a \in Seq(Frame)
  BY SentIs
<1>3. Sent = heard \o a /\ Sent' = Append(heard, Head(a)) \o Tail(a)
  BY <1>1 DEF Sent
<1> HIDE DEF a
<1> QED BY <1>1, <1>2, <1>3, HeadAndTail

LEMMA FaithfulReceive == ASSUME Faithful, Receive PROVE Framed' /\ TextIsSaid'
<1>1. /\ UNCHANGED <<request, handler, writer>> /\ connection'.ended = connection.ended
      /\ ~connection.destroyed /\ ~connection'.destroyed
      /\ executor'.refused = executor.refused /\ executor'.answer = executor.answer
  BY ReceiveBasics DEF Faithful
<1>2. Sent' = Sent
  BY SentKept DEF Faithful
<1> QED BY <1>1, <1>2 DEF Faithful, Framed, EndsWell, Ends, TextIsSaid

LEMMA FaithfulLeave == ASSUME Faithful, Leave PROVE Framed' /\ TextIsSaid'
<1>1. /\ UNCHANGED <<request, handler, writer, heard>>
      /\ connection'.ended = connection.ended /\ connection'.destroyed
      /\ connection'.buffer = <<>> /\ executor'.answer = executor.answer
  BY LeaveBasics DEF Faithful
<1>2. Framed'
  BY <1>1, FramedWhenGone DEF Faithful
<1> QED BY <1>1, <1>2 DEF TextIsSaid

LEMMA FaithfulPing == ASSUME Faithful, Ping PROVE Framed' /\ TextIsSaid'
<1>1. /\ Basics /\ UNCHANGED <<request, handler, writer, heard>>
      /\ connection'.ended = connection.ended /\ executor'.answer = executor.answer
      /\ executor.refused => executor'.refused
  BY PingBasics DEF Faithful
<1>2. CASE connection' = connection
  BY <1>1, <1>2 DEF Faithful, Framed, EndsWell, Ends, Sent, TextIsSaid
<1>3. CASE connection'.destroyed /\ connection'.buffer = <<>>
  <2>1. Framed'
    BY <1>1, <1>3, FramedWhenGone DEF Faithful
  <2> QED BY <1>3, <2>1 DEF TextIsSaid
<1>4. CASE /\ ~connection'.destroyed /\ ~connection.ended /\ handler # "idle" /\ ~connection.destroyed
           /\ connection'.buffer = connection.buffer \o <<Control("ping")>>
  <2> DEFINE p == request.protocol
             fs == <<Control("ping")>>
  <2>1. p \in Protocols
    BY <1>1, <1>4 DEF Basics, ReplyTypes, Phases, Requests
  <2>2. Control("ping") \in Frame /\ Control("ping").type = "ping"
    BY FramesAre DEF Marks
  <2>3. Control("ping") \in Inner(p)
    BY <2>1, <2>2 DEF Inner, Terminal
  <2>4. fs \in Seq(Inner(p)) /\ fs \in Seq(Frame)
    BY <2>2, <2>3
  <2>5. TextOf(fs) = <<>>
    BY <2>2, TextOfOne
  <2>6. connection'.buffer = connection.buffer \o fs
    BY <1>4
  <2> HIDE DEF fs
  <2>7. Framed'
    BY <1>1, <1>4, <2>4, <2>6, FramedOn DEF Faithful
  <2>8. Sent' = Sent \o fs
    BY <1>1, <2>4, <2>6, SentOn
  <2> DEFINE a == Sent
  <2>9. a \in Seq(Frame)
    BY <1>1, SentIs
  <2> HIDE DEF a
  <2>10. TextOf(a \o fs) = TextOf(a) \o <<>> /\ TextOf(a) \in Seq(Pieces)
    BY <2>4, <2>5, <2>9, TextOfConcat, TextOfIs
  <2>11. TextOf(a \o fs) = TextOf(a)
    BY <2>10, ConcatEmptySeq
  <2>12. TextIsSaid'
    BY <1>1, <1>4, <2>8, <2>11 DEF TextIsSaid, Faithful, a
  <2> QED BY <2>7, <2>12
<1> QED BY <1>2, <1>3, <1>4, PingBasics DEF Faithful

LEMMA FaithfulStep == Faithful /\ [ReplyNext]_replyVars => Faithful'
<1> SUFFICES ASSUME Faithful, [ReplyNext]_replyVars PROVE Framed' /\ TextIsSaid'
  BY BasicsStep DEF Faithful
<1>1. ASSUME NEW p \in Protocols, NEW stream \in BOOLEAN, NEW buffered \in BOOLEAN,
             Accept(p, stream, buffered)
      PROVE  Framed' /\ TextIsSaid'
  BY <1>1, FaithfulAccept
<1>2. CASE InvalidRequest
  <2>1. /\ Basics' /\ request = NoRequest /\ heard = <<>>
        /\ connection'.buffer = <<Control("status")>> /\ connection'.ended
        /\ UNCHANGED <<request, heard>>
    BY <1>2, InvalidBasics DEF Faithful, InvalidRequest
  <2> DEFINE f == Control("status")
  <2>2. f \in Frame /\ f.type = "status"
    BY FramesAre DEF Marks
  <2>3. f.type \in Ends' /\ f.type \notin {Terminal(request'.protocol), "json"}
    <3>1. request'.protocol = "none"
      BY <2>1 DEF NoRequest
    <3> HIDE DEF f
    <3> QED BY <2>2, <3>1 DEF Ends, Terminal
  <2>4. connection'.buffer = <<f>> /\ heard' = <<>>
    BY <2>1
  <2> HIDE DEF f
  <2> QED BY <2>1, <2>2, <2>3, <2>4, FramedAlone, NotExecuting
<1>3. ASSUME NEW s \in {<<p>> : p \in Pieces}, Offer(s) PROVE Framed' /\ TextIsSaid'
  <2>1. PICK piece \in Pieces : s = <<piece>>
    OBVIOUS
  <2>2. Offer(<<piece>>)
    BY <1>3, <2>1
  <2> QED BY <2>2, FaithfulOffer
<1>4. CASE DrainTimeout
  BY <1>4, DrainBasics DEF Faithful, Framed, EndsWell, Ends, Sent, TextIsSaid
<1>5. CASE Answer
  BY <1>5, FaithfulAnswer
<1>6. CASE Fail
  BY <1>6, FaithfulFail
<1>7. CASE Receive
  BY <1>7, FaithfulReceive
<1>8. CASE Leave
  BY <1>8, FaithfulLeave
<1>9. CASE Ping
  BY <1>9, FaithfulPing
<1>10. CASE UNCHANGED replyVars
  BY <1>10 DEF replyVars, Faithful, Framed, EndsWell, Ends, Sent, TextIsSaid
<1> QED BY <1>1, <1>2, <1>3, <1>4, <1>5, <1>6, <1>7, <1>8, <1>9, <1>10, Accepted DEF ReplyNext

-----------------------------------------------------------------------------
(* To its reader a reply is an answer stream.                              *)

\* Nothing more will be heard on the connection.
Cut == connection.destroyed \/ (connection.ended /\ connection.buffer = <<>>)
StatusIn(p, cut, fs) ==
  IF Kinds(fs) \intersect {Terminal(p), "json"} # {} THEN "complete"
  ELSE IF Kinds(fs) \intersect {"error", "status"} # {} THEN "failed"
  ELSE IF cut THEN "cut"
  ELSE "open"

LEMMA StatusIs ==
  /\ StatusOf(heard) = StatusIn(request.protocol, Cut, heard)
  /\ StatusOf(heard)' = StatusIn(request'.protocol, Cut', heard')
BY DEF StatusOf, StatusIn, Cut

LEMMA StatusOfInner ==
  ASSUME NEW p, NEW h \in Seq(Inner(p)), NEW cut \in BOOLEAN
  PROVE  StatusIn(p, cut, h) = IF cut THEN "cut" ELSE "open"
<1>1. \A i \in DOMAIN h : h[i] \in Inner(p)
  BY ElementOfSeq, LenProperties
<1>2. Kinds(h) \intersect {Terminal(p), "json"} = {} /\ Kinds(h) \intersect {"error", "status"} = {}
  BY <1>1 DEF Kinds, Inner
<1> QED BY <1>2 DEF StatusIn

LEMMA StatusOfEnded ==
  ASSUME NEW p, NEW u \in Seq(Inner(p)), NEW f \in Frame, NEW cut \in BOOLEAN
  PROVE  /\ f.type \in {Terminal(p), "json"} => StatusIn(p, cut, Append(u, f)) = "complete"
         /\ f.type \in {"error", "status"} \ {Terminal(p), "json"}
              => StatusIn(p, cut, Append(u, f)) = "failed"
<1> DEFINE h == Append(u, f)
<1>1. \A i \in 1..Len(u) : u[i] \in Inner(p)
  BY ElementOfSeq
<1>2. u \in Seq(Frame) /\ Len(u) \in Nat
  BY InnerAreFrames, LenProperties
<1>3. /\ DOMAIN h = 1..(Len(u) + 1) /\ h[Len(u) + 1] = f
      /\ \A i \in 1..Len(u) : h[i] = u[i]
  BY <1>2, AppendProperties, LenProperties
<1> HIDE DEF h
<1>4. f.type \in Kinds(h)
  <2>1. Len(u) + 1 \in DOMAIN h
    BY <1>2, <1>3
  <2> QED BY <1>3, <2>1 DEF Kinds
<1>5. \A k \in Kinds(h) : k = f.type \/ k \notin {Terminal(p), "json", "error", "status"}
  <2>1. ASSUME NEW i \in DOMAIN h
        PROVE  h[i].type = f.type \/ h[i].type \notin {Terminal(p), "json", "error", "status"}
    <3>1. i = Len(u) + 1 \/ i \in 1..Len(u)
      BY <1>2, <1>3
    <3> QED BY <1>1, <1>3, <3>1 DEF Inner
  <2> QED BY <2>1 DEF Kinds
<1>6. ASSUME f.type \in {Terminal(p), "json"} PROVE StatusIn(p, cut, h) = "complete"
  <2>1. f.type \in Kinds(h) \intersect {Terminal(p), "json"}
    BY <1>4, <1>6
  <2> QED BY <2>1 DEF StatusIn
<1>7. ASSUME f.type \in {"error", "status"} \ {Terminal(p), "json"}
      PROVE  StatusIn(p, cut, h) = "failed"
  <2>1. Kinds(h) \intersect {Terminal(p), "json"} = {}
    BY <1>5, <1>7
  <2>2. f.type \in Kinds(h) \intersect {"error", "status"}
    BY <1>4, <1>7
  <2> QED BY <2>1, <2>2 DEF StatusIn
<1> QED BY <1>6, <1>7 DEF h

LEMMA PrefixOfConcat ==
  ASSUME NEW S, NEW s \in Seq(S), NEW x \in Seq(S)
  PROVE  IsPrefix(s, s \o x) /\ IsPrefix(s, s)
<1>1. Len(s) \in Nat /\ Len(x) \in Nat
  BY LenProperties
<1>2. /\ s \o x \in Seq(S) /\ Len(s \o x) = Len(s) + Len(x)
      /\ \A i \in 1..Len(s) : (s \o x)[i] = s[i]
  BY <1>1, ConcatProperties
<1> DEFINE q == s \o x
<1>3. q \in Seq(S) /\ Len(s) <= Len(q) /\ \A i \in 1..Len(s) : q[i] = s[i]
  BY <1>1, <1>2
<1> HIDE DEF q
<1>4. SubSeq(q, 1, Len(s)) = SubSeq(s, 1, Len(s))
  <2>1. \A i \in 1..Len(s) : SubSeq(q, 1, Len(s))[i] = q[i] /\ SubSeq(s, 1, Len(s))[i] = s[i]
    BY <1>1, <1>3
  <2>2. /\ SubSeq(q, 1, Len(s)) = [i \in 1..Len(s) |-> q[i]]
        /\ SubSeq(s, 1, Len(s)) = [i \in 1..Len(s) |-> s[i]]
    BY <1>1, <1>3, SubSeqProperties
  <2> QED BY <1>3, <2>2
<1> QED BY <1>1, <1>3, <1>4 DEF IsPrefix, q

StepAnswers == [Answered!Next]_(Answered!vars)

LEMMA HeardStands ==
  ASSUME UNCHANGED <<request, heard>>, Cut' = Cut
  PROVE  UNCHANGED <<TextOf(heard), StatusOf(heard)>>
BY StatusIs DEF TextOf

LEMMA Stutters ==
  ASSUME UNCHANGED <<request, heard>>, Cut' = Cut, executor'.answer = executor.answer
  PROVE  StepAnswers
BY HeardStands DEF StepAnswers, Answered!vars

LEMMA GivesUp ==
  ASSUME executor'.answer = executor.answer, StatusOf(heard) = "open",
         StatusOf(heard)' \in {"failed", "cut"}, IsPrefix(TextOf(heard), TextOf(heard)')
  PROVE  StepAnswers
<1> DEFINE t == TextOf(heard)
           u == TextOf(heard)'
<1>1. Answered!IsPrefix(t, u) = IsPrefix(t, u)
  BY DEF Answered!IsPrefix, IsPrefix
<1>2. Answered!GiveUp
  BY <1>1 DEF Answered!GiveUp
<1> QED BY <1>2 DEF StepAnswers, Answered!Next

LEMMA Hears ==
  ASSUME executor'.answer = executor.answer, StatusOf(heard) = "open",
         StatusOf(heard)' = "open", IsPrefix(TextOf(heard), TextOf(heard)')
  PROVE  StepAnswers
<1> DEFINE t == TextOf(heard)
           u == TextOf(heard)'
<1>1. Answered!IsPrefix(t, u) = IsPrefix(t, u)
  BY DEF Answered!IsPrefix, IsPrefix
<1>2. CASE t # u
  <2>1. Answered!IsStrictPrefix(t, u)
    BY <1>1, <1>2 DEF Answered!IsStrictPrefix
  <2>2. Answered!Hear
    BY <2>1 DEF Answered!Hear
  <2> QED BY <2>2 DEF StepAnswers, Answered!Next
<1>3. CASE t = u
  BY <1>3 DEF StepAnswers, Answered!vars
<1> QED BY <1>2, <1>3

LEMMA Completes ==
  ASSUME executor'.answer = executor.answer, StatusOf(heard) = "open",
         StatusOf(heard)' = "complete", executor.answer # NoAnswer,
         IsPrefix(TextOf(heard), TextOf(heard)'), TextOf(heard)' = executor.answer
  PROVE  StepAnswers
<1> DEFINE t == TextOf(heard)
           u == TextOf(heard)'
<1>1. Answered!IsPrefix(t, u) = IsPrefix(t, u)
  BY DEF Answered!IsPrefix, IsPrefix
<1>2. Answered!Complete
  BY <1>1 DEF Answered!Complete
<1> QED BY <1>2 DEF StepAnswers, Answered!Next

LEMMA HeardOpen ==
  ASSUME Faithful, heard \in Seq(Inner(request.protocol))
  PROVE  Cut \in BOOLEAN /\ StatusOf(heard) = IF Cut THEN "cut" ELSE "open"
<1>1. Cut \in BOOLEAN
  BY DEF Faithful, Basics, ReplyTypes, Connection, Cut
<1> QED BY <1>1, StatusIs, StatusOfInner

\* What has been heard ends the reply, or is followed by the frame that does, or has no end.
LEMMA HeardIs ==
  ASSUME NEW p, NEW h \in Seq(Frame), NEW b \in Seq(Frame),
         NEW u \in Seq(Inner(p)), NEW f \in Frame, h \o b = Append(u, f)
  PROVE  h \in Seq(Inner(p)) \/ (b = <<>> /\ h = Append(u, f))
<1>1. CASE b = <<>>
  BY <1>1, ConcatEmptySeq
<1>2. CASE b # <<>>
  BY <1>2, BeforeTheLast
<1> QED BY <1>1, <1>2

\* While frames wait, nothing heard has ended the reply.
LEMMA HeardInner ==
  ASSUME Faithful, connection.buffer # <<>> \/ ~connection.ended
  PROVE  heard \in Seq(Inner(request.protocol))
<1> DEFINE a == connection.buffer
<1>1. heard \in Seq(Frame) /\ a \in Seq(Frame) /\ Sent = heard \o a
  BY SentIs DEF Faithful, Sent
<1> HIDE DEF a
<1>2. CASE Sent \in Seq(Inner(request.protocol))
  BY <1>1, <1>2, BeginningIsInner
<1>3. CASE connection.ended /\ EndsWell
  <2>1. PICK u \in Seq(Inner(request.protocol)), f \in Frame : Sent = Append(u, f)
    BY <1>3 DEF EndsWell
  <2>2. heard \o a = Append(u, f)
    BY <1>1, <2>1
  <2> QED BY <1>1, <1>3, <2>2, HeardIs DEF a
<1> QED BY <1>2, <1>3 DEF Faithful, Framed

\* The connection is closed: a reply not yet ended to its reader is cut.
LEMMA GoneAnswers ==
  ASSUME Faithful, Basics', UNCHANGED <<request, heard>>, executor'.answer = executor.answer,
         connection'.ended = connection.ended, connection'.destroyed, connection'.buffer = <<>>
  PROVE  StepAnswers
<1>1. Cut' = TRUE
  BY DEF Cut
<1>2. CASE heard \in Seq(Inner(request.protocol))
  <2>1. Cut \in BOOLEAN /\ StatusOf(heard) = IF Cut THEN "cut" ELSE "open"
    BY <1>2, HeardOpen
  <2>2. StatusOf(heard)' = "cut"
    BY <1>1, <1>2, StatusIs, StatusOfInner
  <2>3. TextOf(heard)' = TextOf(heard)
    BY DEF TextOf
  <2>4. IsPrefix(TextOf(heard), TextOf(heard)')
    <3>1. TextOf(heard) \in Seq(Pieces)
      BY SentIs, TextOfIs DEF Faithful
    <3> QED BY <2>3, <3>1, PrefixOfConcat
  <2>5. CASE Cut
    <3>1. Cut' = Cut
      BY <1>1, <2>5
    <3> QED BY <3>1, Stutters
  <2>6. CASE ~Cut
    BY <2>1, <2>2, <2>4, <2>6, GivesUp
  <2> QED BY <2>5, <2>6
<1>3. CASE heard \notin Seq(Inner(request.protocol))
  <2>1. connection.ended /\ connection.buffer = <<>>
    BY <1>3, HeardInner DEF Faithful, Basics, ReplyTypes, Connection
  <2>2. Cut' = Cut
    BY <1>1, <2>1 DEF Cut
  <2> QED BY <2>2, Stutters
<1> QED BY <1>2, <1>3

\* Where the connection was not ended, and is not emptied as it is, all is as before.
LEMMA EndedAnswers ==
  ASSUME Basics, Basics', ~connection.ended, connection'.destroyed = connection.destroyed,
         connection'.destroyed \/ ~connection'.ended \/ Told(connection'.buffer)
  PROVE  Cut' = Cut
<1>1. /\ connection.ended \in BOOLEAN /\ connection'.ended \in BOOLEAN
      /\ connection.destroyed \in BOOLEAN
  BY DEF Basics, ReplyTypes, Connection
<1> QED BY <1>1 DEF Cut, Told

LEMMA ReceiveAnswers == ASSUME Faithful, Receive PROVE StepAnswers
<1> DEFINE p == request.protocol
           f == Head(connection.buffer)
           t == TextOf(heard)
           d == TextOf(<<f>>)
<1>1. /\ Faithful' /\ connection.buffer # <<>> /\ ~connection.destroyed /\ ~connection'.destroyed
      /\ UNCHANGED request /\ connection'.ended = connection.ended
      /\ heard' = Append(heard, f) /\ executor'.answer = executor.answer /\ Sent' = Sent
  BY ReceiveBasics, FaithfulReceive, SentKept DEF Faithful
<1>2. heard \in Seq(Frame) /\ f \in Frame /\ Sent \in Seq(Frame)
  <2>1. connection.buffer \in Seq(Frame)
    BY SentIs DEF Faithful
  <2> QED BY <1>1, <2>1, SentIs, HeadTailProperties DEF Faithful
<1>3. StatusOf(heard) = "open"
  <2>1. heard \in Seq(Inner(p))
    BY <1>1, HeardInner
  <2>2. Cut = FALSE
    BY <1>1 DEF Cut, Faithful, Basics, ReplyTypes, Connection
  <2> QED BY <2>1, <2>2, HeardOpen
<1> HIDE DEF f
<1>4. t \in Seq(Pieces) /\ d \in Seq(Pieces) /\ TextOf(heard') = t \o d
  <2>1. <<f>> \in Seq(Frame) /\ Append(heard, f) = heard \o <<f>>
    BY <1>2, AppendIsConcat
  <2>2. TextOf(heard \o <<f>>) = TextOf(heard) \o TextOf(<<f>>)
    BY <1>2, <2>1, TextOfConcat
  <2> QED BY <1>1, <1>2, <2>1, <2>2, TextOfIs
<1>5. IsPrefix(t, TextOf(heard'))
  BY <1>4, PrefixOfConcat
<1>6. TextOf(heard)' = TextOf(heard')
  BY DEF TextOf
<1>7. heard' \in Seq(Frame) /\ connection'.buffer \in Seq(Frame) /\ Cut' \in BOOLEAN
  BY <1>1 DEF Faithful, Basics, ReplyTypes, Connection, Cut
<1>8. CASE heard' \in Seq(Inner(p))
  <2>1. StatusOf(heard)' = IF Cut' THEN "cut" ELSE "open"
    BY <1>1, <1>7, <1>8, StatusIs, StatusOfInner
  <2>2. CASE Cut'
    BY <1>1, <1>3, <1>5, <1>6, <2>1, <2>2, GivesUp
  <2>3. CASE ~Cut'
    BY <1>1, <1>3, <1>5, <1>6, <2>1, <2>3, Hears
  <2> QED BY <2>2, <2>3
<1>9. CASE heard' \notin Seq(Inner(p))
  <2> DEFINE b == connection'.buffer
             h == heard'
  <2>1. h \in Seq(Frame) /\ b \in Seq(Frame) /\ h \notin Seq(Inner(p)) /\ Sent' = h \o b
    BY <1>7, <1>9 DEF Sent
  <2>2. Framed' /\ request'.protocol = p
    BY <1>1 DEF Faithful
  <2> HIDE DEF b, h
  <2>3. EndsWell'
    BY <2>1, <2>2, BeginningIsInner DEF Framed
  <2>4. PICK u \in Seq(Inner(p)), g \in Frame :
           /\ Sent' = Append(u, g) /\ g.type \in {Terminal(p), "json", "error", "status"}
           /\ g.type \in {Terminal(p), "json"} =>
                executor'.answer # NoAnswer /\ TextOf(Sent') = executor'.answer
    BY <2>2, <2>3, Zenon DEF EndsWell, Ends
  <2>5. h = Append(u, g) /\ b = <<>>
    <3>1. h \o b = Append(u, g)
      BY <2>1, <2>4
    <3> QED BY <2>1, <3>1, HeardIs
  <2>6. Sent' = h
    BY <2>1, <2>4, <2>5
  <2>7. StatusOf(heard)' = StatusIn(p, Cut', Append(u, g))
    BY <2>2, <2>5, StatusIs DEF h
  <2>8. CASE g.type \in {Terminal(p), "json"}
    <3>1. StatusOf(heard)' = "complete"
      BY <1>7, <2>7, <2>8, StatusOfEnded
    <3>2. executor.answer # NoAnswer /\ TextOf(heard') = executor.answer
      BY <1>1, <2>4, <2>6, <2>8 DEF h
    <3> QED BY <1>1, <1>3, <1>5, <1>6, <3>1, <3>2, Completes
  <2>9. CASE g.type \notin {Terminal(p), "json"}
    <3>1. StatusOf(heard)' = "failed"
      BY <1>7, <2>4, <2>7, <2>9, StatusOfEnded
    <3> QED BY <1>1, <1>3, <1>5, <1>6, <3>1, GivesUp
  <2> QED BY <2>8, <2>9
<1> QED BY <1>8, <1>9

LEMMA AnswersStep == Faithful /\ [ReplyNext]_replyVars => StepAnswers
<1> SUFFICES ASSUME Faithful, [ReplyNext]_replyVars PROVE StepAnswers
  OBVIOUS
<1>0. Basics /\ Basics'
  BY BasicsStep DEF Faithful
<1>1. ASSUME NEW p \in Protocols, NEW stream \in BOOLEAN, NEW buffered \in BOOLEAN,
             Accept(p, stream, buffered)
      PROVE  StepAnswers
  <2>1. /\ heard = <<>> /\ heard' = <<>> /\ ~connection'.ended /\ ~connection'.destroyed
        /\ handler = "idle" /\ executor'.answer = executor.answer
    BY <1>0, <1>1, AcceptBasics DEF Accept
  <2>2. ~connection.ended /\ ~connection.destroyed
    BY <1>0, <2>1 DEF Basics, Phases
  <2>3. Cut = FALSE /\ Cut' = FALSE
    BY <2>1, <2>2 DEF Cut
  <2>4. <<>> \in Seq(Inner(request.protocol)) /\ <<>> \in Seq(Inner(request'.protocol))
    BY EmptySeq
  <2>5. StatusOf(heard) = "open" /\ StatusOf(heard)' = "open"
    BY <2>1, <2>3, <2>4, StatusIs, StatusOfInner
  <2>6. TextOf(heard)' = TextOf(heard)
    BY <2>1 DEF TextOf
  <2> QED BY <2>1, <2>5, <2>6 DEF StepAnswers, Answered!vars
<1>2. CASE InvalidRequest
  <2>1. /\ UNCHANGED <<request, heard>> /\ executor'.answer = executor.answer /\ ~connection.ended
    BY <1>0, <1>2 DEF InvalidRequest, Basics, Phases
  <2>2. ~connection.destroyed /\ ~connection'.destroyed /\ connection'.ended
    BY <1>0, <1>2, InvalidBasics
  <2>3. Told(connection'.buffer)
    BY <1>0, <2>1, <2>2, EndsTold
  <2>4. connection'.destroyed = connection.destroyed
    BY <1>0, <2>2 DEF Basics, ReplyTypes, Connection
  <2>5. Cut' = Cut
    BY <1>0, <2>1, <2>3, <2>4, EndedAnswers
  <2> QED BY <2>1, <2>5, Stutters
<1>3. ASSUME NEW s \in {<<p>> : p \in Pieces}, Offer(s) PROVE StepAnswers
  <2>1. PICK piece \in Pieces : s = <<piece>>
    OBVIOUS
  <2>2. /\ UNCHANGED <<request, handler, heard>> /\ executor'.answer = executor.answer
        /\ handler = "executing" /\ connection'.destroyed = connection.destroyed
    BY <1>0, <1>3, <2>1, OfferBasics
  <2>3. ~connection.ended /\ ~connection'.ended
    BY <1>0, <2>2 DEF Basics, Phases
  <2>4. Cut' = Cut
    BY <1>0, <2>2, <2>3, EndedAnswers
  <2> QED BY <2>2, <2>4, Stutters
<1>4. CASE DrainTimeout
  <2>1. UNCHANGED <<request, heard, connection>> /\ executor'.answer = executor.answer
    BY <1>0, <1>4, DrainBasics
  <2>2. Cut' = Cut
    BY <2>1 DEF Cut
  <2> QED BY <2>1, <2>2, Stutters
<1>5. CASE Answer
  <2>1. /\ UNCHANGED <<request, heard>> /\ handler = "executing" /\ connection'.ended
        /\ connection'.destroyed = connection.destroyed /\ executor'.answer \in Texts
    BY <1>0, <1>5, AnswerBasics
  <2>2. ~connection.ended /\ executor.answer = NoAnswer
    BY <1>0, <2>1 DEF Basics, Phases
  <2>3. Cut' = Cut
    BY <1>0, <2>1, <2>2, EndsTold, EndedAnswers
  <2>4. UNCHANGED <<TextOf(heard), StatusOf(heard)>>
    BY <2>1, <2>3, HeardStands
  <2>5. Answered!Decide
    BY <2>1, <2>2, <2>4 DEF Answered!Decide
  <2> QED BY <2>5 DEF StepAnswers, Answered!Next
<1>6. CASE Fail
  <2>1. /\ UNCHANGED <<request, heard>> /\ handler = "executing" /\ connection'.ended
        /\ connection'.destroyed = connection.destroyed /\ executor'.answer = NoAnswer
    BY <1>0, <1>6, FailBasics
  <2>2. ~connection.ended /\ executor.answer = NoAnswer
    BY <1>0, <2>1 DEF Basics, Phases
  <2>3. Cut' = Cut
    BY <1>0, <2>1, <2>2, EndsTold, EndedAnswers
  <2> QED BY <2>1, <2>2, <2>3, Stutters
<1>7. CASE Receive
  BY <1>7, ReceiveAnswers
<1>8. CASE Leave
  BY <1>0, <1>8, LeaveBasics, GoneAnswers
<1>9. CASE Ping
  <2>1. /\ UNCHANGED <<request, heard>> /\ executor'.answer = executor.answer
        /\ connection'.ended = connection.ended
    BY <1>0, <1>9, PingBasics
  <2>2. CASE connection' = connection
    <3>1. Cut' = Cut
      BY <2>2 DEF Cut
    <3> QED BY <2>1, <3>1, Stutters
  <2>3. CASE connection'.destroyed /\ connection'.buffer = <<>>
    BY <1>0, <2>1, <2>3, GoneAnswers
  <2>4. CASE ~connection'.destroyed /\ ~connection.ended /\ ~connection.destroyed
    <3>1. Cut' = Cut
      BY <2>1, <2>4 DEF Cut
    <3> QED BY <2>1, <3>1, Stutters
  <2> QED BY <1>0, <1>9, <2>2, <2>3, <2>4, PingBasics
<1>10. CASE UNCHANGED replyVars
  <2>1. UNCHANGED <<request, heard, connection, executor>>
    BY <1>10 DEF replyVars
  <2>2. Cut' = Cut
    BY <2>1 DEF Cut
  <2> QED BY <2>1, <2>2, Stutters
<1> QED BY <1>1, <1>2, <1>3, <1>4, <1>5, <1>6, <1>7, <1>8, <1>9, <1>10, Accepted DEF ReplyNext

\* Whatever the protocol, the pings and the errors, a reply is to its reader an answer
\* stream: its text only grows, it is closed once, and complete only with the answer.
THEOREM RepliesAreAnswers == ReplySpec => ImplementsAnswerStream
<1>1. ReplyInit => Answered!Init
  <2> SUFFICES ASSUME ReplyInit PROVE Answered!Init
    OBVIOUS
  <2>1. Faithful /\ heard = <<>> /\ Cut = FALSE /\ executor.answer = NoAnswer
    BY FaithfulInitially DEF ReplyInit, Cut
  <2>2. heard \in Seq(Inner(request.protocol))
    BY <2>1, EmptySeq
  <2>3. StatusOf(heard) = "open"
    BY <2>1, <2>2, HeardOpen
  <2> QED BY <2>1, <2>3, TextOfNone DEF Answered!Init
<1>2. Faithful /\ [ReplyNext]_replyVars => [Answered!Next]_(Answered!vars)
  BY AnswersStep DEF StepAnswers
<1>3. ReplySpec => []Faithful
  BY FaithfulInitially, FaithfulStep, PTL DEF ReplySpec
<1> QED BY <1>1, <1>2, <1>3, PTL DEF ReplySpec, ImplementsAnswerStream, Answered!Spec

-----------------------------------------------------------------------------
(* Frames without their text.                                              *)

Mute == {f \in Frame : f.text = <<>>}
Hushed(f) == [f EXCEPT !.text = <<>>]

LEMMA HushedIs ==
  ASSUME NEW f \in Frame
  PROVE  /\ Hushed(f) \in Mute /\ (f \in Mute => Hushed(f) = f)
<1>1. <<>> \in Seq(Pieces)
  BY EmptySeq
<1>2. Hushed(f) \in Mute
  BY <1>1 DEF Hushed, Mute, Frame
<1>3. f \in Mute => Hushed(f) = f
  BY DEF Hushed, Mute, Frame
<1> QED BY <1>2, <1>3

LEMMA MutesAre ==
  /\ \A t \in Marks : Control(t) \in Mute /\ (\A s : Hushed(Said(t, s)) = Control(t))
  /\ \A t \in Marks, i \in Nat : At(t, i) \in Mute
  /\ Mute \subseteq Frame
<1>1. \A t \in Marks : Control(t) \in Mute
  BY FramesAre DEF Mute, Control
<1>2. \A t \in Marks : \A s : Hushed(Said(t, s)) = Control(t)
  BY DEF Hushed, Said, Control
<1>3. \A t \in Marks, i \in Nat : At(t, i) \in Mute
  BY FramesAre DEF Mute, At
<1> QED BY <1>1, <1>2, <1>3 DEF Mute

LEMMA MuteAreFrames == ASSUME NEW s \in Seq(Mute) PROVE s \in Seq(Frame)
BY MutesAre, SeqMonotonic

LEMMA BareIs ==
  ASSUME NEW s \in Seq(Frame)
  PROVE  /\ Bare(s) \in Seq(Mute) /\ Len(Bare(s)) = Len(s)
         /\ \A i \in 1..Len(s) : Bare(s)[i] = Hushed(s[i])
<1>1. DOMAIN s = 1..Len(s) /\ Len(s) \in Nat
  BY LenProperties
<1>2. Bare(s) = [i \in 1..Len(s) |-> Hushed(s[i])]
  BY <1>1 DEF Bare, Hushed
<1>3. \A i \in 1..Len(s) : Hushed(s[i]) \in Mute
  BY ElementOfSeq, HushedIs
<1>4. [i \in 1..Len(s) |-> Hushed(s[i])] \in Seq(Mute)
  BY <1>1, <1>3, IsASeq
<1> QED BY <1>1, <1>2, <1>4, LenProperties

LEMMA BareConcat ==
  ASSUME NEW s \in Seq(Frame), NEW t \in Seq(Frame)
  PROVE  Bare(s \o t) = Bare(s) \o Bare(t)
<1> DEFINE x == Bare(s)
           y == Bare(t)
           z == Bare(s \o t)
<1>1. s \o t \in Seq(Frame)
  BY ConcatProperties
<1>2. /\ x \in Seq(Mute) /\ Len(x) = Len(s)
      /\ \A i \in 1..Len(s) : x[i] = Hushed(s[i])
  BY BareIs
<1>3. /\ y \in Seq(Mute) /\ Len(y) = Len(t)
      /\ \A i \in 1..Len(t) : y[i] = Hushed(t[i])
  BY BareIs
<1>4. /\ z \in Seq(Mute) /\ Len(z) = Len(s \o t)
      /\ \A i \in 1..Len(s \o t) : z[i] = Hushed((s \o t)[i])
  BY <1>1, BareIs
<1> HIDE DEF x, y, z
<1>5. z = x \o y
  <2>1. Mirrors(s \o t, s, z, x)
    BY <1>2, <1>4, Zenon DEF Mirrors
  <2>2. Mirrors(s \o t, t, z, y)
    BY <1>3, <1>4, Zenon DEF Mirrors
  <2>3. Assembled(Frame, Mute, s, t, x, y, z)
    BY <1>2, <1>3, <1>4, <2>1, <2>2 DEF Assembled
  <2> QED BY <2>3, PartsOfConcat
<1> QED BY <1>5 DEF x, y, z

LEMMA BareMute == ASSUME NEW s \in Seq(Mute) PROVE Bare(s) = s
<1>1. s \in Seq(Frame) /\ \A i \in 1..Len(s) : s[i] \in Mute /\ s[i] \in Frame
  BY MuteAreFrames, ElementOfSeq, MutesAre
<1>2. Bare(s) \in Seq(Mute) /\ Len(Bare(s)) = Len(s) /\ \A i \in 1..Len(s) : Bare(s)[i] = Hushed(s[i])
  BY <1>1, BareIs
<1>3. \A i \in 1..Len(s) : Bare(s)[i] = s[i]
  BY <1>1, <1>2, HushedIs
<1> QED BY <1>2, <1>3, SeqEqual

LEMMA OpeningsAreMute ==
  ASSUME NEW p \in Protocols
  PROVE  /\ Begin(p) \in Seq(Mute) /\ TextOpening(p) \in Seq(Mute) /\ TextEnd(p) \in Seq(Mute)
         /\ Nearly(p) \in Seq(Mute)
<1>1. <<>> \in Seq(Mute)
  BY EmptySeq
<1>2. CASE p = "chat"
  <2>1. Control("role") \in Mute /\ Control("finish") \in Mute
    BY MutesAre DEF Marks
  <2> QED BY <1>1, <1>2, <2>1 DEF Begin, TextOpening, ChatBegin, TextEnd, Nearly
<1>3. CASE p = "responses"
  <2>1. {Control("created"), Control("item_added"), Control("part_added"), Control("text_done"),
         Control("part_done"), Control("item_done")} \subseteq Mute
    BY MutesAre DEF Marks
  <2>2. <<Control("text_done"), Control("part_done"), Control("item_done")>> \in Seq(Mute)
    BY <2>1
  <2>3. <<Control("item_added"), Control("part_added")>> \in Seq(Mute) /\ <<Control("created")>> \in Seq(Mute)
    BY <2>1
  <2> QED BY <1>1, <1>3, <2>2, <2>3
          DEF Begin, TextOpening, ResponsesBegin, ResponsesMessage, TextEnd, Nearly
<1>4. CASE p = "anthropic"
  <2>1. {Control("message_start"), At("block_start", 1), At("block_stop", 1), Control("message_delta")}
            \subseteq Mute
    BY MutesAre DEF Marks
  <2> QED BY <1>4, <2>1 DEF Begin, TextOpening, AnthropicBegin, AnthropicBlock, TextEnd, Nearly
<1>5. CASE p \in {"ollama_chat", "ollama_generate"}
  BY <1>1, <1>5 DEF Begin, TextOpening, TextEnd, Nearly
<1> QED BY <1>2, <1>3, <1>4, <1>5 DEF Protocols

LEMMA CallsAreMute ==
  ASSUME NEW p \in Protocols, NEW from \in Nat, NEW n \in Nat
  PROVE  ToolCalls(p, from, n) \in Seq(Mute)
<1>1. <<>> \in Seq(Mute)
  BY EmptySeq
<1>2. CASE p = "chat"
  <2>1. At("tool_calls", n) \in Mute
    BY MutesAre DEF Marks
  <2> QED BY <1>1, <1>2, <2>1 DEF ToolCalls
<1>3. CASE p = "responses"
  <2> DEFINE b(i) == <<At("call_added", from + i), At("arguments_delta", from + i),
                       At("arguments_done", from + i), At("call_done", from + i)>>
  <2>1. ASSUME NEW i \in 1..n PROVE b(i) \in Seq(Mute)
    <3>1. {At("call_added", from + i), At("arguments_delta", from + i),
           At("arguments_done", from + i), At("call_done", from + i)} \subseteq Mute
      BY MutesAre DEF Marks
    <3> QED BY <3>1
  <2> HIDE DEF b
  <2>2. [i \in 1..n |-> b(i)] \in Seq(Seq(Mute))
    BY <2>1, IsASeq
  <2>3. FlattenSeq([i \in 1..n |-> b(i)]) \in Seq(Mute)
    BY <2>2, FlattenOfSequence
  <2>4. ToolCalls(p, from, n) = FlattenSeq([i \in 1..n |-> b(i)])
    BY <1>3 DEF ToolCalls, ResponsesCalls, b
  <2> QED BY <2>3, <2>4
<1>4. CASE p = "anthropic"
  <2> DEFINE b(i) == Block("block_start", "input_delta", "block_stop", from + i)
  <2>1. ASSUME NEW i \in 1..n PROVE b(i) \in Seq(Mute)
    <3>1. {At("block_start", from + i), At("input_delta", from + i),
           At("block_stop", from + i)} \subseteq Mute
      BY MutesAre DEF Marks
    <3> QED BY <3>1 DEF Block
  <2> HIDE DEF b
  <2>2. [i \in 1..n |-> b(i)] \in Seq(Seq(Mute))
    BY <2>1, IsASeq
  <2>3. FlattenSeq([i \in 1..n |-> b(i)]) \in Seq(Mute)
    BY <2>2, FlattenOfSequence
  <2>4. ToolCalls(p, from, n) = FlattenSeq([i \in 1..n |-> b(i)])
    BY <1>4 DEF ToolCalls, b
  <2> QED BY <2>3, <2>4
<1>5. CASE p \in {"ollama_chat", "ollama_generate"}
  BY <1>1, <1>5 DEF ToolCalls
<1> QED BY <1>2, <1>3, <1>4, <1>5 DEF Protocols

\* What closes the text, and the last frame, without their text.
LEMMA BareCloses ==
  ASSUME NEW p \in Protocols, NEW answer \in Seq(Pieces)
  PROVE  Bare(Closes(p, answer)) = IF answer # <<>> THEN TextEnd(p) ELSE <<>>
<1>1. <<>> \in Seq(Mute)
  BY EmptySeq
<1>2. CASE p = "responses" /\ answer # <<>>
  <2> DEFINE a == Said("text_done", answer)
             b == Said("part_done", answer)
             c == Said("item_done", answer)
             s == <<a, b, c>>
  <2>1. {a, b, c} \subseteq Frame
    BY FramesAre DEF Marks
  <2>2. /\ Hushed(a) = Control("text_done") /\ Hushed(b) = Control("part_done")
        /\ Hushed(c) = Control("item_done")
    BY MutesAre DEF Marks
  <2>3. Closes(p, answer) = s
    BY <1>2 DEF Closes
  <2> HIDE DEF a, b, c
  <2>4. s \in Seq(Frame) /\ Len(s) = 3 /\ s[1] = a /\ s[2] = b /\ s[3] = c
    BY <2>1
  <2> HIDE DEF s
  <2>5. /\ Bare(s) \in Seq(Mute) /\ Len(Bare(s)) = 3
        /\ Bare(s)[1] = Hushed(a) /\ Bare(s)[2] = Hushed(b) /\ Bare(s)[3] = Hushed(c)
    BY <2>4, BareIs
  <2> DEFINE x == Control("text_done")
             y == Control("part_done")
             z == Control("item_done")
  <2>6. {x, y, z} \subseteq Mute
    BY MutesAre DEF Marks
  <2>7. TextEnd(p) = <<x, y, z>>
    BY <1>2 DEF TextEnd
  <2>8. Bare(s)[1] = x /\ Bare(s)[2] = y /\ Bare(s)[3] = z
    BY <2>2, <2>5
  <2> HIDE DEF x, y, z
  <2>9. Bare(s) = <<x, y, z>>
    <3>1. <<x, y, z>> \in Seq(Mute) /\ Len(<<x, y, z>>) = 3
      BY <2>6
    <3> QED BY <2>5, <2>8, <3>1, SeqEqual
  <2> QED BY <1>2, <2>3, <2>7, <2>9
<1>3. CASE p = "anthropic" /\ answer # <<>>
  <2>1. Closes(p, answer) = TextEnd(p)
    BY <1>3 DEF Closes, TextEnd
  <2> QED BY <1>3, <2>1, OpeningsAreMute, BareMute
<1>4. CASE p \notin {"responses", "anthropic"} \/ answer = <<>>
  <2>1. Closes(p, answer) = <<>> /\ (answer # <<>> => TextEnd(p) = <<>>)
    BY <1>4 DEF Closes, TextEnd
  <2> QED BY <1>1, <2>1, BareMute
<1> QED BY <1>2, <1>3, <1>4

LEMMA PairIs == ASSUME NEW S, NEW a \in S, NEW b \in S PROVE <<a>> \o <<b>> = <<a, b>>
<1> DEFINE u == <<a>>
           v == <<b>>
           w == <<a, b>>
<1>1. /\ u \in Seq(S) /\ v \in Seq(S) /\ w \in Seq(S) /\ Len(u) = 1 /\ Len(v) = 1 /\ Len(w) = 2
      /\ u[1] = a /\ v[1] = b /\ w[1] = a /\ w[2] = b
  OBVIOUS
<1> HIDE DEF u, v, w
<1>2. /\ u \o v \in Seq(S) /\ Len(u \o v) = Len(u) + Len(v)
      /\ \A i \in 1..Len(u) + Len(v) : (u \o v)[i] = IF i <= Len(u) THEN u[i] ELSE v[i - Len(u)]
  BY <1>1, ConcatProperties
<1>3. Len(u \o v) = Len(w) /\ \A i \in 1..Len(u \o v) : (u \o v)[i] = w[i]
  BY <1>1, <1>2
<1>4. u \o v = w
  BY <1>1, <1>2, <1>3, SeqEqual
<1> QED BY <1>4 DEF u, v, w

LEMMA EndIs ==
  ASSUME NEW p \in Protocols, NEW answer \in Seq(Pieces), NEW n \in Nat
  PROVE  /\ Hushed(LastOf(p, answer, n)) \in Mute
         /\ End(p, n) = Nearly(p) \o <<Hushed(LastOf(p, answer, n))>>
<1> DEFINE f == LastOf(p, answer, n)
           g == Hushed(f)
<1>1. g \in Mute
  BY LastIs, HushedIs
<1>2. CASE p = "responses"
  <2>1. g = Control("completed")
    BY <1>2, MutesAre DEF LastOf, Marks
  <2>2. End(p, n) = <<g>> /\ Nearly(p) = <<>>
    BY <1>2, <2>1 DEF End, Nearly
  <2> HIDE DEF g
  <2> QED BY <1>1, <2>2, ConcatEmptySeq DEF g
<1>3. CASE p # "responses"
  <2>1. f \in Mute
    BY <1>3, MutesAre DEF LastOf, Marks
  <2>2. g = f
    BY <2>1, LastIs, HushedIs
  <2>3. CASE p = "chat"
    <3>0. Control("finish") \in Mute
      BY MutesAre DEF Marks
    <3>1. End(p, n) = <<Control("finish"), f>> /\ Nearly(p) = <<Control("finish")>>
      BY <2>3 DEF End, Nearly, LastOf
    <3> HIDE DEF f
    <3>2. <<Control("finish")>> \o <<f>> = <<Control("finish"), f>>
      BY <2>1, <3>0, PairIs
    <3> QED BY <1>1, <2>2, <3>1, <3>2 DEF f
  <2>4. CASE p = "anthropic"
    <3>0. Control("message_delta") \in Mute
      BY MutesAre DEF Marks
    <3>1. End(p, n) = <<Control("message_delta"), f>> /\ Nearly(p) = <<Control("message_delta")>>
      BY <2>4 DEF End, Nearly, LastOf
    <3> HIDE DEF f
    <3>2. <<Control("message_delta")>> \o <<f>> = <<Control("message_delta"), f>>
      BY <2>1, <3>0, PairIs
    <3> QED BY <1>1, <2>2, <3>1, <3>2 DEF f
  <2>5. CASE p \in {"ollama_chat", "ollama_generate"}
    <3>1. End(p, n) = <<f>> /\ Nearly(p) = <<>>
      BY <2>5 DEF End, Nearly, LastOf
    <3> HIDE DEF f
    <3>2. <<>> \o <<f>> = <<f>>
      OBVIOUS
    <3> QED BY <1>1, <2>2, <3>1, <3>2 DEF f
  <2> QED BY <1>3, <2>3, <2>4, <2>5 DEF Protocols
<1> QED BY <1>2, <1>3

-----------------------------------------------------------------------------
(* Beginnings of sequences.                                                *)

LEMMA BeginningIs ==
  ASSUME NEW S, NEW s \in Seq(S), NEW x \in Seq(S)
  PROVE  SubSeq(s \o x, 1, Len(s)) = s
<1>1. IsPrefix(s, s \o x)
  BY PrefixOfConcat
<1> QED BY <1>1, SubSeqFull DEF IsPrefix

LEMMA PrefixIs ==
  ASSUME NEW S, NEW s \in Seq(S), NEW t \in Seq(S), IsPrefix(s, t)
  PROVE  \E x \in Seq(S) : t = s \o x
<1>1. Len(s) \in 0..Len(t)
  <2>1. Len(s) \in Nat /\ Len(t) \in Nat
    BY LenProperties
  <2> QED BY <2>1 DEF IsPrefix
<1>2. SubSeq(t, 1, Len(s)) = s
  BY SubSeqFull DEF IsPrefix
<1> DEFINE k == Len(s)
           x == SubSeq(t, k + 1, Len(t))
<1>3. k \in 0..Len(t)
  BY <1>1
<1> HIDE DEF k
<1>4. t = SubSeq(t, 1, k) \o x /\ x \in Seq(S)
  BY <1>3, Split
<1> QED BY <1>2, <1>4 DEF k

LEMMA PrefixShorter ==
  ASSUME NEW S, NEW s \in Seq(S), NEW x \in Seq(S), NEW g \in Seq(S), IsPrefix(s \o x, g)
  PROVE  IsPrefix(s, g)
<1>1. s \o x \in Seq(S)
  BY ConcatProperties
<1>2. PICK y \in Seq(S) : g = (s \o x) \o y
  <2> DEFINE sx == s \o x
  <2>1. sx \in Seq(S) /\ IsPrefix(sx, g)
    BY <1>1
  <2> HIDE DEF sx
  <2>2. \E y \in Seq(S) : g = sx \o y
    BY <2>1, PrefixIs
  <2> QED BY <2>2 DEF sx
<1>3. g = s \o (x \o y) /\ x \o y \in Seq(S)
  BY <1>2, ConcatAssociative, ConcatProperties
<1> DEFINE xy == x \o y
<1>4. g = s \o xy /\ xy \in Seq(S)
  BY <1>3
<1> HIDE DEF xy
<1> QED BY <1>4, PrefixOfConcat

\* What is part of a beginning is in its place.
LEMMA PlaceIn ==
  ASSUME NEW S, NEW s \in Seq(S), NEW x \in Seq(S), NEW i \in 1..Len(s)
  PROVE  i \in DOMAIN (s \o x) /\ (s \o x)[i] = s[i] /\ SubSeq(s \o x, 1, i) = SubSeq(s, 1, i)
<1>1. Len(s) \in Nat /\ Len(x) \in Nat
  BY LenProperties
<1>2. /\ s \o x \in Seq(S) /\ Len(s \o x) = Len(s) + Len(x)
      /\ \A j \in 1..Len(s) : (s \o x)[j] = s[j]
  BY <1>1, ConcatProperties
<1> DEFINE q == s \o x
<1>3. q \in Seq(S) /\ DOMAIN q = 1..Len(q) /\ Len(s) <= Len(q) /\ Len(q) \in Nat
      /\ \A j \in 1..Len(s) : q[j] = s[j]
  BY <1>1, <1>2, LenProperties
<1> HIDE DEF q
<1>4. /\ SubSeq(q, 1, i) = [j \in 1..i |-> q[j]]
      /\ SubSeq(s, 1, i) = [j \in 1..i |-> s[j]]
  BY <1>1, <1>3, SubSeqProperties
<1>5. \A j \in 1..i : q[j] = s[j]
  BY <1>1, <1>3
<1>6. [j \in 1..i |-> q[j]] = [j \in 1..i |-> s[j]]
  BY <1>5
<1> QED BY <1>1, <1>3, <1>4, <1>6 DEF q

-----------------------------------------------------------------------------
(* Well-formed streams.                                                    *)

LEMMA GrammarIs ==
  ASSUME NEW p \in Protocols, NEW text \in BOOLEAN, NEW n \in Nat
  PROVE  Grammar(p, text, n) \in Seq(Mute) /\ End(p, n) \in Seq(Mute)
<1>1. /\ Begin(p) \in Seq(Mute) /\ TextOpening(p) \in Seq(Mute) /\ TextEnd(p) \in Seq(Mute)
      /\ Nearly(p) \in Seq(Mute) /\ <<>> \in Seq(Mute)
  BY OpeningsAreMute, EmptySeq
<1> DEFINE m == IF text THEN TextOpening(p) \o TextEnd(p) ELSE <<>>
           k == ToolCalls(p, IF text THEN 1 ELSE 0, n)
           g == Hushed(LastOf(p, <<>>, n))
           e == End(p, n)
           b == Begin(p)
<1>2. m \in Seq(Mute)
  <2> DEFINE x == TextOpening(p)
             y == TextEnd(p)
  <2>1. x \in Seq(Mute) /\ y \in Seq(Mute) /\ <<>> \in Seq(Mute) /\ m = IF text THEN x \o y ELSE <<>>
    BY <1>1
  <2> HIDE DEF x, y, m
  <2> QED BY <2>1, ConcatProperties
<1>3. k \in Seq(Mute)
  BY CallsAreMute
<1>4. e \in Seq(Mute)
  <2> DEFINE w == Nearly(p)
             l == <<g>>
  <2>1. g \in Mute /\ e = w \o l
    BY EndIs, EmptySeq
  <2>2. l \in Seq(Mute) /\ w \in Seq(Mute)
    <3> HIDE DEF g
    <3> QED BY <1>1, <2>1
  <2> HIDE DEF w, l, e
  <2> QED BY <2>1, <2>2, ConcatProperties
<1>5. Grammar(p, text, n) = ((b \o m) \o k) \o e /\ b \in Seq(Mute)
  BY <1>1 DEF Grammar
<1> HIDE DEF b, m, k, e
<1>6. b \o m \in Seq(Mute)
  BY <1>2, <1>5, ConcatProperties
<1>7. (b \o m) \o k \in Seq(Mute)
  BY <1>3, <1>6, ConcatProperties
<1>8. ((b \o m) \o k) \o e \in Seq(Mute)
  BY <1>4, <1>7, ConcatProperties
<1> QED BY <1>4, <1>5, <1>8 DEF e

\* The beginning of a well-formed stream is well formed.
LEMMA WellFormedPart ==
  ASSUME NEW p \in Protocols, NEW text \in BOOLEAN, NEW n \in Nat,
         NEW s \in Seq(Frame), NEW t \in Seq(Frame), WellFormed(p, text, n, s \o t)
  PROVE  WellFormed(p, text, n, s)
<1> DEFINE x == Skeleton(s)
           y == Skeleton(t)
           g == Grammar(p, text, n)
<1>1. x \in Seq(Frame) /\ y \in Seq(Frame) /\ Skeleton(s \o t) = x \o y
  BY DroppingIs, DroppingConcat DEF Skeleton
<1>2. IsPrefix(Bare(x \o y), g)
  BY <1>1 DEF WellFormed
<1>3. g \in Seq(Mute)
  BY GrammarIs
<1> HIDE DEF x, y, g
<1>4. Bare(x \o y) = Bare(x) \o Bare(y)
  BY <1>1, BareConcat
<1> DEFINE u == Bare(x)
           v == Bare(y)
<1>5. u \in Seq(Mute) /\ v \in Seq(Mute) /\ IsPrefix(u \o v, g)
  BY <1>1, <1>2, <1>4, BareIs
<1> HIDE DEF u, v
<1>6. IsPrefix(u, g)
  BY <1>3, <1>5, PrefixShorter
<1>7. ASSUME NEW i \in DOMAIN s, s[i].type = "delta"
      PROVE  text /\ Len(Skeleton(SubSeq(s, 1, i))) = Len(Begin(p)) + Len(TextOpening(p))
  <2>1. i \in 1..Len(s)
    BY LenProperties
  <2>2. /\ i \in DOMAIN (s \o t) /\ (s \o t)[i] = s[i]
        /\ SubSeq(s \o t, 1, i) = SubSeq(s, 1, i)
    BY <2>1, PlaceIn
  <2> DEFINE q == s \o t
  <2>3. \A j \in DOMAIN q : q[j].type = "delta" =>
          text /\ Len(Skeleton(SubSeq(q, 1, j))) = Len(Begin(p)) + Len(TextOpening(p))
    BY DEF WellFormed
  <2>4. i \in DOMAIN q /\ q[i] = s[i] /\ SubSeq(q, 1, i) = SubSeq(s, 1, i)
    BY <2>2
  <2> HIDE DEF q
  <2> QED BY <1>7, <2>3, <2>4
<1> QED BY <1>6, <1>7 DEF WellFormed, u, x, g

\* Frames that are no pieces of text.
Quiet == {f \in Frame : f.type # "delta"}

LEMMA SkeletonsAre ==
  /\ \A s \in Seq(Quiet) : s \in Seq(Frame) /\ Skeleton(s) = s
  /\ \A s \in Seq(Deltas) : s \in Seq(Frame) /\ Skeleton(s) = <<>>
<1>1. ASSUME NEW s \in Seq(Quiet) PROVE s \in Seq(Frame) /\ Skeleton(s) = s
  <2>1. \A i \in 1..Len(s) : s[i] \in Quiet
    BY ElementOfSeq
  <2>2. Quiet \subseteq Frame /\ \A i \in 1..Len(s) : s[i].type \notin {"delta"}
    BY <2>1 DEF Quiet
  <2>3. s \in Seq(Frame)
    BY <2>2, SeqMonotonic
  <2> QED BY <2>2, <2>3, DroppingOthers DEF Skeleton
<1>2. ASSUME NEW s \in Seq(Deltas) PROVE s \in Seq(Frame) /\ Skeleton(s) = <<>>
  <2>1. \A i \in 1..Len(s) : s[i] \in Deltas
    BY ElementOfSeq
  <2>2. Deltas \subseteq Frame /\ \A i \in 1..Len(s) : s[i].type \in {"delta"}
    BY <2>1 DEF Deltas
  <2>3. s \in Seq(Frame)
    BY <2>2, SeqMonotonic
  <2> QED BY <2>2, <2>3, DroppingThese DEF Skeleton
<1> QED BY <1>1, <1>2

\* The frames before the text, the text, and the frames after it.
Shape(p, text, n, x, ds, z) ==
  /\ x \in Seq(Quiet) /\ ds \in Seq(Deltas) /\ z \in Seq(Quiet)
  /\ Bare(x \o z) = Grammar(p, text, n)
  /\ ds # <<>> => text /\ Len(x) = Len(Begin(p)) + Len(TextOpening(p))

IsText(fs, i) == i \in DOMAIN fs /\ fs[i].type = "delta"

LEMMA TextInPlace ==
  ASSUME NEW x \in Seq(Quiet), NEW ds \in Seq(Deltas), NEW z \in Seq(Quiet), NEW i,
         IsText((x \o ds) \o z, i)
  PROVE  ds # <<>> /\ Skeleton(SubSeq((x \o ds) \o z, 1, i)) = x
<1> DEFINE w == x \o ds
           fs == w \o z
<1>1. x \in Seq(Frame) /\ ds \in Seq(Frame) /\ z \in Seq(Frame)
  BY SkeletonsAre
<1>2. Len(x) \in Nat /\ Len(ds) \in Nat /\ Len(z) \in Nat
  BY LenProperties
<1>3. /\ w \in Seq(Frame) /\ Len(w) = Len(x) + Len(ds)
      /\ \A j \in 1..Len(x) : w[j] = x[j]
  BY <1>1, <1>2, ConcatProperties
<1>4. ds # <<>> => Len(ds) # 0
  BY <1>1, EmptySeq
<1>5. \A j \in 1..Len(x) : x[j].type # "delta"
  <2>1. \A j \in 1..Len(x) : x[j] \in Quiet
    BY ElementOfSeq
  <2> QED BY <2>1 DEF Quiet
<1>6. \A j \in 1..Len(z) : z[j].type # "delta"
  <2>1. \A j \in 1..Len(z) : z[j] \in Quiet
    BY ElementOfSeq
  <2> QED BY <2>1 DEF Quiet
<1> HIDE DEF w
<1>7. /\ fs \in Seq(Frame) /\ Len(fs) = Len(w) + Len(z)
      /\ \A j \in 1..Len(w) + Len(z) : fs[j] = IF j <= Len(w) THEN w[j] ELSE z[j - Len(w)]
  <2>1. w \in Seq(Frame) /\ z \in Seq(Frame)
    BY <1>1, <1>3
  <2> QED BY <2>1, ConcatProperties
<1>8. i \in DOMAIN fs /\ fs[i].type = "delta"
  BY DEF w, IsText
<1> HIDE DEF fs
<1>9. i \in 1..Len(w) + Len(z)
  BY <1>7, <1>8, LenProperties
<1>10. i <= Len(w)
  <2> SUFFICES ASSUME ~(i <= Len(w)) PROVE FALSE
    OBVIOUS
  <2>1. fs[i] = z[i - Len(w)]
    BY <1>7, <1>9
  <2>2. i - Len(w) \in 1..Len(z)
    BY <1>2, <1>3, <1>9
  <2> QED BY <1>6, <1>8, <2>1, <2>2
<1>11. i \in 1..Len(w) /\ fs[i] = w[i]
  BY <1>2, <1>3, <1>7, <1>9, <1>10
<1>12. ~(i <= Len(x))
  <2> SUFFICES ASSUME i <= Len(x) PROVE FALSE
    OBVIOUS
  <2>1. i \in 1..Len(x)
    BY <1>2, <1>9
  <2>2. w[i] = x[i]
    BY <1>3, <2>1
  <2> QED BY <1>5, <1>8, <1>11, <2>1, <2>2
<1> DEFINE k == i - Len(x)
           a == SubSeq(ds, 1, k)
           b == SubSeq(ds, k + 1, Len(ds))
<1>13. k \in 0..Len(ds) /\ k # 0 /\ Len(x) + k = i
  BY <1>2, <1>3, <1>9, <1>10, <1>12
<1>14. ds # <<>>
  <2>1. Len(<<>>) = 0
    BY EmptySeq
  <2>2. Len(ds) # 0
    <3> HIDE DEF k
    <3> QED BY <1>2, <1>13
  <2> QED BY <2>1, <2>2
<1> HIDE DEF k
<1>15. a \in Seq(Deltas) /\ b \in Seq(Deltas) /\ Len(a) = k /\ ds = a \o b
  BY <1>13, Split
<1> HIDE DEF a, b
<1>16. a \in Seq(Frame) /\ b \in Seq(Frame) /\ Skeleton(a) = <<>> /\ Skeleton(x) = x
  BY <1>15, SkeletonsAre
<1>17. w = (x \o a) \o b
  <2>1. x \in Seq(Frame) /\ a \in Seq(Frame) /\ b \in Seq(Frame)
    BY <1>1, <1>16
  <2>2. (x \o a) \o b = x \o (a \o b)
    BY <2>1, ConcatAssociative
  <2>3. ds = a \o b
    BY <1>15
  <2>4. w = x \o ds
    BY DEF w
  <2> HIDE DEF w
  <2> QED BY <2>2, <2>3, <2>4, Zenon
<1> DEFINE xa == x \o a
<1>18. xa \in Seq(Frame) /\ Len(xa) = i /\ w = xa \o b
  BY <1>1, <1>13, <1>15, <1>16, <1>17, ConcatProperties
<1>19. Skeleton(xa) = x
  <2>0. x \in Seq(Frame) /\ a \in Seq(Frame)
    BY <1>1, <1>16
  <2>1. Skeleton(xa) = Skeleton(x) \o Skeleton(a)
    BY <2>0, DroppingConcat DEF Skeleton
  <2> QED BY <1>1, <1>16, <2>1, ConcatEmptySeq
<1> HIDE DEF xa
<1>20. SubSeq(w, 1, i) = xa
  BY <1>16, <1>18, BeginningIs
<1>21. SubSeq(fs, 1, i) = SubSeq(w, 1, i)
  BY <1>1, <1>3, <1>11, PlaceIn DEF fs
<1> QED BY <1>14, <1>19, <1>20, <1>21 DEF fs, w

LEMMA ShapedWell ==
  ASSUME NEW p \in Protocols, NEW text \in BOOLEAN, NEW n \in Nat, NEW x, NEW ds, NEW z,
         Shape(p, text, n, x, ds, z)
  PROVE  WellFormed(p, text, n, (x \o ds) \o z)
<1>1. x \in Seq(Quiet) /\ ds \in Seq(Deltas) /\ z \in Seq(Quiet)
  BY DEF Shape
<1>2. /\ x \in Seq(Frame) /\ ds \in Seq(Frame) /\ z \in Seq(Frame)
      /\ Skeleton(x) = x /\ Skeleton(ds) = <<>> /\ Skeleton(z) = z
  BY <1>1, SkeletonsAre
<1> DEFINE w == x \o ds
           fs == w \o z
           g == Grammar(p, text, n)
<1>3. w \in Seq(Frame) /\ Skeleton(w) = x
  <2>1. Skeleton(w) = Skeleton(x) \o Skeleton(ds)
    BY <1>2, DroppingConcat DEF Skeleton
  <2> QED BY <1>2, <2>1, ConcatEmptySeq, ConcatProperties
<1>4. Skeleton(fs) = x \o z
  <2> HIDE DEF w
  <2>1. Skeleton(fs) = Skeleton(w) \o Skeleton(z)
    BY <1>2, <1>3, DroppingConcat DEF Skeleton
  <2> QED BY <1>2, <1>3, <2>1
<1>5. IsPrefix(Bare(Skeleton(fs)), g)
  <2>1. Bare(Skeleton(fs)) = g
    BY <1>4 DEF Shape
  <2>2. g \in Seq(Mute)
    BY GrammarIs
  <2> HIDE DEF g
  <2> QED BY <2>1, <2>2, PrefixOfConcat
<1>6. ASSUME NEW i \in DOMAIN fs, fs[i].type = "delta"
      PROVE  text /\ Len(Skeleton(SubSeq(fs, 1, i))) = Len(Begin(p)) + Len(TextOpening(p))
  <2>1. ds # <<>> /\ Skeleton(SubSeq(fs, 1, i)) = x
    BY <1>1, <1>6, TextInPlace DEF IsText
  <2> QED BY <2>1 DEF Shape
<1> QED BY <1>5, <1>6 DEF WellFormed

\* What comes before the text.
Opened(p, text) == Begin(p) \o (IF text THEN TextOpening(p) ELSE <<>>)
Ending(p, answer, n) == Append(Body(p, answer, n), LastOf(p, answer, n))

AllTogether(S, o, e, k, w, g) == {o, e, k, w, g} \subseteq Seq(S)

LEMMA Regrouped ==
  ASSUME NEW S, NEW o, NEW e, NEW k, NEW w, NEW g, AllTogether(S, o, e, k, w, g)
  PROVE  o \o ((e \o (k \o w)) \o g) = ((o \o e) \o k) \o (w \o g)
<1>1. o \in Seq(S) /\ e \in Seq(S) /\ k \in Seq(S) /\ w \in Seq(S) /\ g \in Seq(S)
  BY DEF AllTogether
<1> DEFINE kw == k \o w
           wg == w \o g
           oe == o \o e
           kwg == kw \o g
<1>2. kw \in Seq(S) /\ wg \in Seq(S) /\ oe \in Seq(S)
  BY <1>1, ConcatProperties
<1>3. kwg = k \o wg
  <2>1. k \in Seq(S) /\ w \in Seq(S) /\ g \in Seq(S)
    BY <1>1
  <2> QED BY <2>1, ConcatAssociative
<1>4. kwg \in Seq(S)
  <2> HIDE DEF kw
  <2> QED BY <1>1, <1>2, ConcatProperties
<1>5. (e \o kw) \o g = e \o kwg
  <2> HIDE DEF kw
  <2> QED BY <1>1, <1>2, ConcatAssociative
<1>6. o \o (e \o kwg) = oe \o kwg
  <2> HIDE DEF kwg
  <2>1. o \in Seq(S) /\ e \in Seq(S) /\ kwg \in Seq(S)
    BY <1>1, <1>4
  <2> QED BY <2>1, ConcatAssociative
<1>7. oe \o (k \o wg) = (oe \o k) \o wg
  <2> HIDE DEF oe, wg
  <2>1. oe \in Seq(S) /\ k \in Seq(S) /\ wg \in Seq(S)
    BY <1>1, <1>2
  <2> QED BY <2>1, ConcatAssociative
<1> QED BY <1>3, <1>5, <1>6, <1>7

LEMMA OpenedIs ==
  ASSUME NEW p \in Protocols, NEW text \in BOOLEAN
  PROVE  /\ Opened(p, text) \in Seq(Quiet) /\ Opened(p, text) \in Seq(Mute)
         /\ text => Len(Opened(p, text)) = Len(Begin(p)) + Len(TextOpening(p))
<1> DEFINE b == Begin(p)
           t == IF text THEN TextOpening(p) ELSE <<>>
<1>1. b \in Seq(Plain(p)) /\ t \in Seq(Plain(p))
  BY OpeningsArePlain, EmptySeq
<1>2. Plain(p) \subseteq Quiet
  BY DEF Plain, Quiet
<1>3. b \in Seq(Mute) /\ t \in Seq(Mute)
  BY OpeningsAreMute, EmptySeq
<1>4. Opened(p, text) = b \o t /\ (text => t = TextOpening(p))
  BY DEF Opened
<1> HIDE DEF b, t
<1>5. b \in Seq(Quiet) /\ t \in Seq(Quiet)
  BY <1>1, <1>2, SeqMonotonic
<1>6. b \o t \in Seq(Quiet) /\ Len(b \o t) = Len(b) + Len(t)
  BY <1>5, ConcatProperties
<1>7. b \o t \in Seq(Mute)
  BY <1>3, ConcatProperties
<1> QED BY <1>4, <1>6, <1>7 DEF b

LEMMA EndingIs ==
  ASSUME NEW p \in Protocols, NEW answer \in Seq(Pieces), NEW n \in Nat
  PROVE  Ending(p, answer, n) \in Seq(Quiet)
<1> DEFINE b == Body(p, answer, n)
           f == LastOf(p, answer, n)
<1>1. b \in Seq(Plain(p))
  BY BodyIsPlain
<1>2. Plain(p) \subseteq Quiet
  BY DEF Plain, Quiet
<1>3. f \in Quiet
  <2>1. f \in Frame /\ f.type = Terminal(p)
    BY LastIs
  <2> HIDE DEF f
  <2> QED BY <2>1 DEF Quiet, Terminal, Protocols
<1>4. Ending(p, answer, n) = Append(b, f)
  BY DEF Ending
<1> HIDE DEF b, f
<1>5. b \in Seq(Quiet)
  BY <1>1, <1>2, SeqMonotonic
<1> QED BY <1>3, <1>4, <1>5, AppendProperties

\* The whole of a reply, without its text, is the grammar of its protocol.
LEMMA WholeIsGrammar ==
  ASSUME NEW p \in Protocols, NEW answer \in Seq(Pieces), NEW n \in Nat
  PROVE  Bare(Opened(p, answer # <<>>) \o Ending(p, answer, n)) = Grammar(p, answer # <<>>, n)
<1> DEFINE text == answer # <<>>
           o == Opened(p, text)
           c == Closes(p, answer)
           k == ToolCalls(p, Place(answer), n)
           w == Nearly(p)
           f == LastOf(p, answer, n)
           g == <<Hushed(f)>>
           e == IF text THEN TextEnd(p) ELSE <<>>
           kw == k \o w
           q == Body(p, answer, n)
           z == Ending(p, answer, n)
<1>1. /\ o \in Seq(Mute) /\ c \in Seq(Frame) /\ k \in Seq(Mute) /\ w \in Seq(Mute)
      /\ f \in Frame /\ Hushed(f) \in Mute /\ e \in Seq(Mute) /\ q \in Seq(Frame)
  <2>1. c \in Seq(Plain(p)) /\ q \in Seq(Plain(p))
    BY BodyIsPlain
  <2>2. c \in Seq(Frame) /\ q \in Seq(Frame)
    BY <2>1, PlainIsInner
  <2>3. Place(answer) \in Nat
    BY DEF Place
  <2>4. k \in Seq(Mute)
    BY <2>3, CallsAreMute
  <2> QED BY <2>2, <2>4, OpenedIs, OpeningsAreMute, EmptySeq, LastIs, EndIs
<1>2. g \in Seq(Mute)
  <2> DEFINE h == Hushed(f)
  <2>1. h \in Mute
    BY <1>1
  <2> HIDE DEF h
  <2>2. <<h>> \in Seq(Mute)
    BY <2>1
  <2> QED BY <2>2 DEF h
<1>3. Bare(c) = e
  BY BareCloses
<1>4. q = c \o kw /\ z = Append(q, f)
  BY DEF Body, Ending
<1>5. Grammar(p, text, n) = ((o \o e) \o k) \o (w \o g)
  <2> DEFINE b == Begin(p)
             t == IF text THEN TextOpening(p) ELSE <<>>
             m == IF text THEN TextOpening(p) \o TextEnd(p) ELSE <<>>
             l == End(p, n)
  <2>1. m = t \o e
    <3>1. <<>> \o <<>> = <<>>
      BY EmptySeq, ConcatEmptySeq
    <3> QED BY <3>1
  <2>2. k = ToolCalls(p, IF text THEN 1 ELSE 0, n)
    BY DEF Place
  <2>3. l = w \o g
    BY EndIs
  <2>4. Grammar(p, text, n) = ((b \o m) \o k) \o l
    BY <2>2 DEF Grammar
  <2>5. o = b \o t
    BY DEF Opened
  <2>6. b \in Seq(Mute) /\ t \in Seq(Mute) /\ e \in Seq(Mute)
    BY <1>1, OpeningsAreMute, EmptySeq
  <2> HIDE DEF b, t, m, l, o, e, k, w, g
  <2>7. b \o (t \o e) = (b \o t) \o e
    BY <2>6, ConcatAssociative
  <2> QED BY <2>1, <2>3, <2>4, <2>5, <2>7
<1> HIDE DEF o, c, k, w, f, g, e, q, z, text
<1>6. kw \in Seq(Mute) /\ Bare(kw) = kw /\ kw \in Seq(Frame)
  BY <1>1, ConcatProperties, BareMute, MuteAreFrames
<1>7. Bare(q) = e \o kw
  <2> HIDE DEF kw
  <2>1. Bare(c \o kw) = Bare(c) \o Bare(kw)
    BY <1>1, <1>6, BareConcat
  <2> QED BY <1>3, <1>4, <1>6, <2>1
<1>8. Bare(<<f>>) = g
  <2> DEFINE s == <<f>>
  <2>1. s \in Seq(Frame) /\ Len(s) = 1 /\ s[1] = f
    BY <1>1
  <2> HIDE DEF s
  <2>2. Bare(s) \in Seq(Mute) /\ Len(Bare(s)) = 1 /\ Bare(s)[1] = Hushed(f)
    BY <2>1, BareIs
  <2>3. Len(g) = 1 /\ g[1] = Hushed(f)
    BY DEF g
  <2> QED BY <1>2, <2>2, <2>3, SeqEqual DEF s
<1>9. z = q \o <<f>> /\ <<f>> \in Seq(Frame)
  BY <1>1, <1>4, AppendIsConcat
<1>10. Bare(z) = (e \o kw) \o g /\ z \in Seq(Frame)
  <2> DEFINE s == <<f>>
  <2>1. s \in Seq(Frame) /\ q \in Seq(Frame) /\ z = q \o s
    BY <1>1, <1>9
  <2> HIDE DEF s
  <2>2. Bare(q \o s) = Bare(q) \o Bare(s) /\ q \o s \in Seq(Frame)
    BY <2>1, BareConcat, ConcatProperties
  <2> QED BY <1>7, <1>8, <2>1, <2>2 DEF s
<1>11. Bare(o \o z) = o \o ((e \o kw) \o g)
  <2>1. o \in Seq(Frame) /\ Bare(o) = o
    BY <1>1, BareMute, MuteAreFrames
  <2>2. Bare(o \o z) = Bare(o) \o Bare(z)
    BY <1>10, <2>1, BareConcat
  <2> QED BY <1>10, <2>1, <2>2
<1>12. AllTogether(Mute, o, e, k, w, g)
  BY <1>1, <1>2 DEF AllTogether
<1>13. o \o ((e \o kw) \o g) = ((o \o e) \o k) \o (w \o g)
  BY <1>12, Regrouped
<1> QED BY <1>5, <1>11, <1>13 DEF o, z, text

\* A stream is well formed from its first frame to its last.
LEMMA WholeIsWellFormed ==
  ASSUME NEW p \in Protocols, NEW answer \in Seq(Pieces), NEW n \in Nat, NEW ds \in Seq(Deltas),
         answer = <<>> => ds = <<>>
  PROVE  WellFormed(p, answer # <<>>, n, (Opened(p, answer # <<>>) \o ds) \o Ending(p, answer, n))
<1> DEFINE text == answer # <<>>
           x == Opened(p, text)
           z == Ending(p, answer, n)
<1>1. x \in Seq(Quiet) /\ (text => Len(x) = Len(Begin(p)) + Len(TextOpening(p)))
  BY OpenedIs
<1>2. z \in Seq(Quiet)
  BY EndingIs
<1>3. Bare(x \o z) = Grammar(p, text, n)
  BY WholeIsGrammar
<1>4. ds # <<>> => text
  OBVIOUS
<1> HIDE DEF x, z
<1>5. Shape(p, text, n, x, ds, z)
  BY <1>1, <1>2, <1>3, <1>4 DEF Shape
<1>6. text \in BOOLEAN
  OBVIOUS
<1> HIDE DEF text
<1>7. WellFormed(p, text, n, (x \o ds) \o z)
  BY <1>5, <1>6, ShapedWell
<1> QED BY <1>7 DEF text, x, z

-----------------------------------------------------------------------------
(* What was sent, but for the pings and the errors.                        *)

Clear(fs) == Dropping(fs, {"ping", "error"})
Loud == {f \in Frame : f.type \notin {"ping", "error"}}

LEMMA ClearIs ==
  /\ \A s \in Seq(Frame) : Clear(s) \in Seq(Frame)
  /\ \A s \in Seq(Loud) : s \in Seq(Frame) /\ Clear(s) = s
<1>1. ASSUME NEW s \in Seq(Frame) PROVE Clear(s) \in Seq(Frame)
  BY DroppingIs DEF Clear
<1>2. ASSUME NEW s \in Seq(Loud) PROVE s \in Seq(Frame) /\ Clear(s) = s
  <2>1. \A i \in 1..Len(s) : s[i] \in Loud
    BY ElementOfSeq
  <2>2. Loud \subseteq Frame /\ \A i \in 1..Len(s) : s[i].type \notin {"ping", "error"}
    BY <2>1 DEF Loud
  <2>3. s \in Seq(Frame)
    BY <2>2, SeqMonotonic
  <2> QED BY <2>2, <2>3, DroppingOthers DEF Clear
<1> QED BY <1>1, <1>2

LEMMA ClearConcat ==
  ASSUME NEW s \in Seq(Frame), NEW t \in Seq(Frame)
  PROVE  Clear(s \o t) = Clear(s) \o Clear(t)
BY DroppingConcat DEF Clear

\* Nothing is said by a ping or an error.
LEMMA ClearOn ==
  ASSUME NEW s \in Seq(Frame), NEW f \in Frame, f.type \in {"ping", "error"}
  PROVE  Clear(Append(s, f)) = Clear(s) /\ Clear(s \o <<f>>) = Clear(s)
<1>1. Clear(Append(s, f)) = Clear(s)
  BY DroppingOn DEF Clear
<1> QED BY <1>1, AppendIsConcat

LEMMA DeltaOn ==
  ASSUME NEW p \in Protocols, NEW open \in BOOLEAN, NEW ds \in Seq(Deltas), ~open => ds = <<>>,
         NEW d \in Deltas
  PROVE  /\ Append(ds, d) \in Seq(Deltas) /\ Append(ds, d) # <<>>
         /\ (Opened(p, open) \o ds) \o ((IF open THEN <<>> ELSE TextOpening(p)) \o <<d>>)
              = Opened(p, TRUE) \o Append(ds, d)
<1> DEFINE b == Begin(p)
           t == TextOpening(p)
           e == <<d>>
<1>1. b \in Seq(Frame) /\ t \in Seq(Frame) /\ ds \in Seq(Frame) /\ d \in Frame
  BY OpeningsArePlain, PlainIsInner, SkeletonsAre DEF Deltas
<1>2. e \in Seq(Frame) /\ e \in Seq(Deltas)
  BY <1>1
<1>3. Append(ds, d) \in Seq(Deltas) /\ Append(ds, d) # <<>> /\ Append(ds, d) = ds \o e
  BY AppendProperties, AppendIsConcat
<1>4. Opened(p, TRUE) = b \o t /\ Opened(p, FALSE) = b \o <<>>
  BY DEF Opened
<1> HIDE DEF b, t, e
<1>5. CASE open
  <2> DEFINE o == b \o t
  <2>1. o \in Seq(Frame)
    BY <1>1, ConcatProperties
  <2>2. <<>> \o e = e
    BY <1>2, ConcatEmptySeq
  <2> HIDE DEF o
  <2>3. (o \o ds) \o e = o \o (ds \o e)
    BY <1>1, <1>2, <2>1, ConcatAssociative
  <2> QED BY <1>3, <1>4, <1>5, <2>2, <2>3 DEF e, o
<1>6. CASE ~open
  <2>1. ds = <<>>
    BY <1>6
  <2>2. b \o <<>> = b /\ <<>> \o e = e
    BY <1>1, <1>2, ConcatEmptySeq
  <2>3. b \o (t \o e) = (b \o t) \o e
    <3>1. b \in Seq(Frame) /\ t \in Seq(Frame) /\ e \in Seq(Frame)
      BY <1>1, <1>2
    <3> QED BY <3>1, ConcatAssociative
  <2>4. (Opened(p, open) \o ds) = b
    BY <1>4, <1>6, <2>1, <2>2
  <2>5. Append(ds, d) = e
    BY <1>3, <2>1, <2>2
  <2> QED BY <1>3, <1>4, <1>6, <2>3, <2>4, <2>5 DEF e, t
<1> QED BY <1>5, <1>6

LEMMA OpenedIsFrames ==
  ASSUME NEW p \in Protocols, NEW open \in BOOLEAN, NEW ds \in Seq(Deltas)
  PROVE  Opened(p, open) \o ds \in Seq(Frame) /\ Opened(p, open) \in Seq(Frame)
<1>1. Opened(p, open) \in Seq(Frame) /\ ds \in Seq(Frame)
  BY OpenedIs, SkeletonsAre
<1> QED BY <1>1, ConcatProperties

\* The text is opened, if it is not yet.
LEMMA OpeningOn ==
  ASSUME NEW p \in Protocols, NEW open \in BOOLEAN, NEW ds \in Seq(Deltas), ~open => ds = <<>>
  PROVE  (Opened(p, open) \o ds) \o (IF open THEN <<>> ELSE TextOpening(p)) = Opened(p, TRUE) \o ds
<1> DEFINE b == Begin(p)
           t == TextOpening(p)
<1>1. b \in Seq(Frame) /\ t \in Seq(Frame)
  BY OpeningsArePlain, PlainIsInner
<1>2. Opened(p, TRUE) = b \o t /\ Opened(p, FALSE) = b \o <<>>
  BY DEF Opened
<1>3. CASE open
  <2> DEFINE o == Opened(p, open) \o ds
  <2>1. o \in Seq(Frame) /\ o = Opened(p, TRUE) \o ds
    BY <1>3, OpenedIsFrames
  <2> HIDE DEF o
  <2>2. o \o <<>> = o
    BY <2>1, ConcatEmptySeq
  <2> QED BY <1>3, <2>1, <2>2 DEF o
<1>4. CASE ~open
  <2> HIDE DEF b, t
  <2>1. ds = <<>>
    BY <1>4
  <2>2. b \o t \in Seq(Frame)
    BY <1>1, ConcatProperties
  <2>3. (b \o <<>>) \o <<>> = b /\ (b \o t) \o <<>> = b \o t
    <3>1. b \o <<>> = b
      BY <1>1, ConcatEmptySeq
    <3> DEFINE c == b \o t
    <3>2. c \in Seq(Frame)
      BY <2>2
    <3> HIDE DEF c
    <3>3. c \o <<>> = c
      BY <3>2, ConcatEmptySeq
    <3> QED BY <3>1, <3>3 DEF c
  <2>4. Opened(p, open) \o ds = b
    BY <1>2, <1>4, <2>1, <2>3
  <2>5. Opened(p, TRUE) \o ds = b \o t
    BY <1>2, <2>1, <2>3
  <2> QED BY <1>4, <2>4, <2>5 DEF t
<1> QED BY <1>3, <1>4

\* What the writer has begun is well formed.
LEMMA BegunIsWell ==
  ASSUME NEW p \in Protocols, NEW said \in Seq(Pieces), NEW ds \in Seq(Deltas),
         said = <<>> => ds = <<>>
  PROVE  WellFormed(p, said # <<>>, 0, Opened(p, said # <<>>) \o ds)
<1> DEFINE s == Opened(p, said # <<>>) \o ds
           z == Ending(p, said, 0)
           open == said # <<>>
<1>1. WellFormed(p, open, 0, s \o z)
  BY WholeIsWellFormed
<1>2. s \in Seq(Frame)
  BY OpenedIsFrames
<1>3. z \in Seq(Frame)
  BY EndingIs, SkeletonsAre
<1>4. open \in BOOLEAN
  OBVIOUS
<1> HIDE DEF s, z, open
<1>5. WellFormed(p, open, 0, s)
  BY <1>1, <1>2, <1>3, <1>4, WellFormedPart
<1> QED BY <1>5 DEF s, open

Joined(S, x, y, z) == {x, y, z} \subseteq Seq(S)

LEMMA Joins ==
  ASSUME NEW S, NEW x, NEW y, NEW z, Joined(S, x, y, z)
  PROVE  (x \o y) \o z = x \o (y \o z)
<1>1. x \in Seq(S) /\ y \in Seq(S) /\ z \in Seq(S)
  BY DEF Joined
<1> QED BY <1>1, ConcatAssociative

\* A reply that is finished as it was begun.
LEMMA FinishOn ==
  ASSUME Ready, NEW answer \in Seq(Pieces), NEW n \in Nat, IsPrefix(writer.said, answer),
         writer.opened <=> writer.said # <<>>,
         NEW ds \in Seq(Deltas), ~writer.opened => ds = <<>>
  PROVE  WellFormed(request.protocol, answer # <<>>, n,
                    (Opened(request.protocol, writer.opened) \o ds) \o Whole(answer, n))
<1> DEFINE p == request.protocol
           open == writer.opened
           r == RestOf(answer)
           l == Leading(answer)
           z == Ending(p, answer, n)
           b == Opened(p, open) \o ds
           d == Delta(r)
<1>1. /\ r \in Seq(Pieces) /\ l \in Seq(Frame) /\ Whole(answer, n) = l \o z
      /\ p \in Protocols /\ open \in BOOLEAN
  BY ClosingIs DEF Ready, Whole, Ending
<1>2. writer.said \o r = answer /\ writer.said \in Seq(Pieces)
  BY TextGoesOn DEF Ready, RestOf
<1>3. z \in Seq(Frame) /\ b \in Seq(Frame)
  BY <1>1, EndingIs, SkeletonsAre, OpenedIsFrames
<1>4. l = IF r = <<>> THEN <<>> ELSE (IF open THEN <<>> ELSE TextOpening(p)) \o <<d>>
  BY DEF Leading, Rest
<1>5. d \in Deltas
  BY <1>1, FramesAre DEF Delta, Marks, Deltas
<1>6. b \o (l \o z) = (b \o l) \o z
  <2> HIDE DEF b, l, z
  <2>1. Joined(Frame, b, l, z)
    BY <1>1, <1>3 DEF Joined
  <2>2. (b \o l) \o z = b \o (l \o z)
    BY <2>1, Joins
  <2> QED BY <2>2
<1>7. CASE r = <<>>
  <2>1. answer = writer.said
    BY <1>2, <1>7, ConcatEmptySeq
  <2>2. b \o l = b
    <3> HIDE DEF b
    <3> QED BY <1>3, <1>4, <1>7, ConcatEmptySeq
  <2>3. open = (answer # <<>>)
    BY <1>1, <2>1
  <2>4. WellFormed(p, answer # <<>>, n, (Opened(p, answer # <<>>) \o ds) \o z)
    BY <1>1, <2>1, WholeIsWellFormed
  <2> HIDE DEF l, z
  <2> QED BY <1>1, <1>6, <2>2, <2>3, <2>4
<1>8. CASE r # <<>>
  <2>1. answer # <<>>
    BY <1>1, <1>2, <1>8, ConcatEqualIffEmpty
  <2> DEFINE e == Append(ds, d)
  <2>2. /\ e \in Seq(Deltas) /\ e # <<>>
        /\ b \o ((IF open THEN <<>> ELSE TextOpening(p)) \o <<d>>) = Opened(p, TRUE) \o e
    <3> HIDE DEF d, p
    <3>1. ~open => ds = <<>>
      OBVIOUS
    <3> HIDE DEF open
    <3> QED BY <1>1, <1>5, <3>1, DeltaOn
  <2>3. b \o l = Opened(p, TRUE) \o e
    BY <1>4, <1>8, <2>2
  <2>4. (answer # <<>>) = TRUE
    BY <2>1
  <2>5. WellFormed(p, answer # <<>>, n, (Opened(p, answer # <<>>) \o e) \o z)
    <3> HIDE DEF e
    <3> QED BY <1>1, <2>1, <2>2, WholeIsWellFormed
  <2> HIDE DEF l, z, e, b
  <2> QED BY <1>1, <1>6, <2>3, <2>4, <2>5 DEF b
<1> QED BY <1>7, <1>8

-----------------------------------------------------------------------------
(* The stream is well formed at every step.                                *)

\* The writer has opened its text when it has said some, but for a text whose opening was
\* refused; an answer cannot follow that.
OpenedIsSaid ==
  /\ writer.torn => executor.refused
  /\ ~writer.torn => (writer.opened <=> writer.said # <<>>)

\* What was sent is the text, opened, and pieces of it.
BeginsWith(p, open, c) ==
  \E ds \in Seq(Deltas) : c = Opened(p, open) \o ds /\ (~open => ds = <<>>)
Begins(s) == BeginsWith(request.protocol, writer.opened, Clear(s))
Begun ==
  handler = "executing" /\ request.stream /\ ~writer.torn /\ ~connection.destroyed => Begins(Sent)
SpelledIn(p, c) == \E text \in BOOLEAN, n \in 0..MaxTools : WellFormed(p, text, n, c)
Spelled(s) == SpelledIn(request.protocol, Clear(s))
IsSpelled == request.stream /\ ~writer.torn => Spelled(Sent)

WellSpelled == Faithful /\ OpenedIsSaid /\ Begun /\ IsSpelled

LEMMA BegunIsSpelled ==
  ASSUME NEW p \in Protocols, NEW said \in Seq(Pieces), NEW c, BeginsWith(p, said # <<>>, c)
  PROVE  SpelledIn(p, c)
<1>1. PICK ds \in Seq(Deltas) : c = Opened(p, said # <<>>) \o ds /\ (~(said # <<>>) => ds = <<>>)
  BY DEF BeginsWith
<1>2. WellFormed(p, said # <<>>, 0, Opened(p, said # <<>>) \o ds)
  BY <1>1, BegunIsWell
<1>3. 0 \in 0..MaxTools /\ (said # <<>>) \in BOOLEAN
  BY ReplyLimitsAssumption
<1> DEFINE open == said # <<>>
<1>4. WellFormed(p, open, 0, c) /\ open \in BOOLEAN
  BY <1>1, <1>2, <1>3
<1> HIDE DEF open
<1> QED BY <1>3, <1>4 DEF SpelledIn

\* What was spelled stays so when its end is cut off.
LEMMA SpelledPart ==
  ASSUME request.protocol \in Protocols, NEW s \in Seq(Frame), NEW t \in Seq(Frame), Spelled(s \o t)
  PROVE  Spelled(s)
<1> DEFINE p == request.protocol
           c == Clear(s)
           d == Clear(t)
<1>1. PICK text \in BOOLEAN, n \in 0..MaxTools : WellFormed(p, text, n, Clear(s \o t))
  BY DEF Spelled, SpelledIn
<1>2. c \in Seq(Frame) /\ d \in Seq(Frame) /\ Clear(s \o t) = c \o d
  BY ClearIs, ClearConcat
<1>3. n \in Nat /\ p \in Protocols /\ WellFormed(p, text, n, c \o d)
  BY <1>1, <1>2, ReplyLimitsAssumption
<1> HIDE DEF c, d, p
<1>4. WellFormed(p, text, n, c)
  BY <1>2, <1>3, WellFormedPart
<1> QED BY <1>4 DEF Spelled, SpelledIn, c, p

LEMMA SpelledInitially == ReplyInit => WellSpelled
<1> SUFFICES ASSUME ReplyInit PROVE WellSpelled
  OBVIOUS
<1>1. OpenedIsSaid /\ ~request.stream /\ handler = "idle"
  <2>1. writer.torn = FALSE /\ writer.opened = FALSE /\ writer.said = <<>>
    BY DEF ReplyInit
  <2>2. ~request.stream /\ handler = "idle"
    BY DEF ReplyInit, NoRequest
  <2> QED BY <2>1, <2>2 DEF OpenedIsSaid
<1> QED BY <1>1, FaithfulInitially DEF WellSpelled, Begun, IsSpelled

LEMMA SpelledAccept ==
  ASSUME WellSpelled, NEW p \in Protocols, NEW stream \in BOOLEAN, NEW buffered \in BOOLEAN,
         Accept(p, stream, buffered)
  PROVE  OpenedIsSaid' /\ Begun' /\ IsSpelled'
<1>1. /\ Basics' /\ request'.protocol = p /\ request'.stream = stream /\ heard = <<>> /\ heard' = heard
      /\ writer' = writer /\ handler' = "executing" /\ handler = "idle"
      /\ connection'.buffer = (IF stream THEN Begin(p) ELSE <<>>)
  BY AcceptBasics DEF WellSpelled, Faithful, Accept
<1>2. writer.said = <<>> /\ ~writer.opened /\ ~writer.torn
  BY <1>1 DEF WellSpelled, Faithful, Basics, Phases, OpenedIsSaid
<1>3. OpenedIsSaid'
  <2>1. writer'.said = <<>> /\ ~writer'.opened /\ ~writer'.torn
    BY <1>1, <1>2
  <2> QED BY <2>1 DEF OpenedIsSaid
<1>4. request' \in Requests
  BY <1>1 DEF Basics, Phases
<1>5. CASE ~stream
  BY <1>1, <1>3, <1>5 DEF Begun, IsSpelled
<1>6. CASE stream
  <2> DEFINE b == Begin(p)
  <2>1. b \in Seq(Plain(p)) /\ Plain(p) \subseteq Loud
    BY OpeningsArePlain DEF Plain, Loud
  <2>2. Sent' = <<>> \o b /\ Opened(p, FALSE) = b \o <<>>
    BY <1>1, <1>6 DEF Sent, Opened
  <2> HIDE DEF b
  <2>3. b \in Seq(Loud)
    BY <2>1, SeqMonotonic
  <2>4. b \in Seq(Frame) /\ Clear(b) = b
    BY <2>3, ClearIs
  <2>5. Sent' = b /\ Opened(p, FALSE) = b /\ b \o <<>> = b
    BY <2>2, <2>4, ConcatEmptySeq
  <2>6. Clear(Sent') = Opened(p, FALSE) \o <<>>
    BY <2>4, <2>5
  <2>7. writer'.opened = FALSE
    BY <1>1, <1>2 DEF WellSpelled, Faithful, Basics, ReplyTypes
  <2>8. <<>> \in Seq(Deltas)
    BY EmptySeq
  <2>9. Begins(Sent)'
    BY <1>1, <2>6, <2>7, <2>8 DEF Begins, BeginsWith
  <2>10. Spelled(Sent)'
    <3>1. writer'.opened = (writer'.said # <<>>) /\ writer'.said \in Seq(Pieces)
      BY <1>1, <1>2, <2>7 DEF Basics, ReplyTypes
    <3>2. BeginsWith(p, writer'.said # <<>>, Clear(Sent'))
      BY <1>1, <2>9, <3>1 DEF Begins
    <3> QED BY <1>1, <3>1, <3>2, BegunIsSpelled DEF Spelled
  <2> QED BY <1>3, <2>9, <2>10 DEF Begun, IsSpelled
<1> QED BY <1>5, <1>6

\* A piece is taken whole.
LEMMA SpelledOfferWhole ==
  ASSUME WellSpelled, NEW piece \in Pieces, Offer(<<piece>>), ~writer'.torn,
         Fits(DeltaFrames(<<piece>>))
  PROVE  OpenedIsSaid' /\ Begun' /\ IsSpelled'
<1> DEFINE s == <<piece>>
           p == request.protocol
           fs == DeltaFrames(s)
           d == Delta(s)
           o == IF writer.opened THEN <<>> ELSE TextOpening(p)
<1>1. /\ Basics /\ Basics' /\ handler = "executing" /\ request \in Requests /\ request.stream
      /\ UNCHANGED <<request, handler, heard>> /\ connection' = Write(fs)
      /\ writer'.opened /\ ~writer.torn /\ Fits(fs) /\ writer'.said = writer.said \o s
  BY OfferBasics DEF WellSpelled, Faithful
<1>18. ~connection.destroyed
  <2>3. s \in Seq(Pieces)
    OBVIOUS
  <2>4. connection \in Connection
    BY <1>1 DEF Basics, ReplyTypes
  <2>1. fs # <<>> /\ connection \in Connection
    BY <1>1, <2>3, <2>4, DeltaFramesAre
  <2>2. fs \in Seq(Frame)
    BY <1>1, <2>3, DeltaFramesAre
  <2> HIDE DEF fs
  <2> QED BY <1>1, <2>1, <2>2, WriteIs DEF Gone
<1> SUFFICES OpenedIsSaid' /\ Begins(Sent)' /\ Spelled(Sent)'
  BY DEF Begun, IsSpelled
<1>2. /\ p \in Protocols /\ s \in Seq(Pieces) /\ connection \in Connection
      /\ writer.opened \in BOOLEAN /\ writer.said \in Seq(Pieces) /\ writer'.said \in Seq(Pieces)
      /\ writer'.opened = TRUE
  BY <1>1 DEF Requests, Basics, ReplyTypes
<1>3. fs \in Seq(Frame)
  BY <1>1, <1>2, DeltaFramesAre
<1>4. fs = o \o <<d>>
  BY DEF DeltaFrames
<1>5. d \in Deltas
  <2>1. d \in Frame /\ d.type = "delta"
    <3> DEFINE t == s
    <3>1. t \in Seq(Pieces)
      BY <1>2
    <3> HIDE DEF t
    <3>2. Delta(t) \in Frame /\ Delta(t).type = "delta"
      BY <3>1, FramesAre DEF Delta, Marks
    <3> QED BY <3>2 DEF t
  <2> HIDE DEF d
  <2> QED BY <2>1 DEF Deltas
<1>6. fs \in Seq(Loud)
  <2>1. o \in Seq(Plain(p)) /\ Plain(p) \subseteq Loud
    BY <1>2, OpeningsArePlain, EmptySeq DEF Plain, Loud
  <2>2. d \in Loud
    BY <1>5 DEF Deltas, Loud
  <2> DEFINE e == <<d>>
  <2>3. e \in Seq(Loud)
    <3> HIDE DEF d
    <3> QED BY <2>2
  <2> HIDE DEF o, e, fs
  <2>4. o \in Seq(Loud)
    BY <2>1, SeqMonotonic
  <2> QED BY <1>4, <2>3, <2>4, ConcatProperties DEF e
<1>7. writer'.said # <<>>
  <2>1. writer.said \o s # <<>>
    BY <1>2, ConcatEqualIffEmpty
  <2> QED BY <1>1, <2>1
<1> HIDE DEF fs, d
<1>8. connection'.buffer = connection.buffer \o fs
  BY <1>1, <1>2, <1>3, WriteIs
<1>9. Sent' = Sent \o fs
  BY <1>1, <1>3, <1>8, SentOn
<1>10. Clear(Sent') = Clear(Sent) \o fs
  <2> DEFINE a == Sent
  <2>1. a \in Seq(Frame) /\ Clear(fs) = fs
    BY <1>1, <1>6, SentIs, ClearIs
  <2> HIDE DEF a
  <2>2. Clear(a \o fs) = Clear(a) \o Clear(fs)
    BY <1>3, <2>1, ClearConcat
  <2> QED BY <1>9, <2>1, <2>2 DEF a
<1>11. Begins(Sent)
  BY <1>1, <1>18 DEF WellSpelled, Begun
<1>12. PICK ds \in Seq(Deltas) : /\ Clear(Sent) = Opened(p, writer.opened) \o ds
                                 /\ ~writer.opened => ds = <<>>
  BY <1>11 DEF Begins, BeginsWith
<1> DEFINE e == Append(ds, d)
<1>13. e \in Seq(Deltas) /\ Clear(Sent') = Opened(p, TRUE) \o e
  <2> DEFINE open == writer.opened
  <2>1. open \in BOOLEAN /\ (~open => ds = <<>>) /\ Clear(Sent) = Opened(p, open) \o ds
        /\ fs = (IF open THEN <<>> ELSE TextOpening(p)) \o <<d>>
    BY <1>2, <1>4, <1>12
  <2> HIDE DEF open, p, o
  <2>2. /\ e \in Seq(Deltas)
        /\ (Opened(p, open) \o ds) \o ((IF open THEN <<>> ELSE TextOpening(p)) \o <<d>>)
             = Opened(p, TRUE) \o e
    BY <1>2, <1>5, <2>1, DeltaOn
  <2> QED BY <1>10, <2>1, <2>2
<1> HIDE DEF e
<1>14. BeginsWith(p, TRUE, Clear(Sent'))
  BY <1>13 DEF BeginsWith
<1>15. Begins(Sent)'
  BY <1>1, <1>2, <1>14 DEF Begins
<1>16. Spelled(Sent)'
  <2>1. BeginsWith(p, writer'.said # <<>>, Clear(Sent'))
    <3>1. (writer'.said # <<>>) = TRUE
      BY <1>7
    <3> QED BY <1>14, <3>1
  <2>2. SpelledIn(p, Clear(Sent'))
    BY <1>2, <2>1, BegunIsSpelled
  <2> QED BY <1>1, <2>2 DEF Spelled
<1>17. OpenedIsSaid'
  BY <1>1, <1>7 DEF OpenedIsSaid
<1> QED BY <1>15, <1>16, <1>17

\* Of a piece nothing is taken but the frames that open its text.
LEMMA SpelledOfferCut ==
  ASSUME WellSpelled, NEW piece \in Pieces, Offer(<<piece>>), ~writer'.torn,
         ~Fits(DeltaFrames(<<piece>>))
  PROVE  OpenedIsSaid' /\ Begun' /\ IsSpelled'
<1> DEFINE s == <<piece>>
           p == request.protocol
           fs == DeltaFrames(s)
           d == Delta(s)
           o == IF writer.opened THEN <<>> ELSE TextOpening(p)
<1>1. /\ Basics /\ Basics' /\ handler = "executing" /\ request \in Requests /\ request.stream
      /\ UNCHANGED <<request, handler, heard>> /\ connection' = Write(fs)
      /\ connection'.destroyed = connection.destroyed
      /\ writer'.opened /\ ~writer.torn /\ Fits(o) /\ writer'.said = writer.said \o s
  <2>1. writer.torn \in BOOLEAN
    BY DEF WellSpelled, Faithful, Basics, ReplyTypes
  <2> QED BY <2>1, OfferBasics DEF WellSpelled, Faithful
<1>2. /\ p \in Protocols /\ s \in Seq(Pieces) /\ connection \in Connection
      /\ writer.opened \in BOOLEAN /\ writer.said \in Seq(Pieces) /\ writer'.said \in Seq(Pieces)
      /\ writer'.opened = TRUE
  BY <1>1 DEF Requests, Basics, ReplyTypes
<1>3. o \in Seq(Frame) /\ d \in Frame /\ fs = o \o <<d>>
  BY <1>1, <1>2, DeltaFramesAre DEF DeltaFrames
<1>4. o \in Seq(Loud)
  <2>1. o \in Seq(Plain(p)) /\ Plain(p) \subseteq Loud
    BY <1>2, OpeningsArePlain, EmptySeq DEF Plain, Loud
  <2> HIDE DEF o
  <2> QED BY <2>1, SeqMonotonic
<1>5. writer'.said # <<>>
  <2>1. writer.said \o s # <<>>
    BY <1>2, ConcatEqualIffEmpty
  <2> QED BY <1>1, <2>1
<1>6. ~Fits(fs)
  OBVIOUS
<1> HIDE DEF fs, d, o
<1>7. connection'.buffer = connection.buffer \o o
  BY <1>1, <1>2, <1>3, <1>6, FitsExactly
<1>8. Sent' = Sent \o o
  BY <1>1, <1>3, <1>7, SentOn
<1>9. Clear(Sent') = Clear(Sent) \o o
  <2> DEFINE a == Sent
  <2>1. a \in Seq(Frame) /\ Clear(o) = o
    BY <1>1, <1>4, SentIs, ClearIs
  <2> HIDE DEF a
  <2>2. Clear(a \o o) = Clear(a) \o Clear(o)
    BY <1>3, <2>1, ClearConcat
  <2> QED BY <1>8, <2>1, <2>2 DEF a
<1>10. OpenedIsSaid'
  BY <1>1, <1>5 DEF OpenedIsSaid
<1>11. CASE connection.destroyed
  <2>1. o = <<>>
    BY <1>1, <1>11 DEF Fits, Gone
  <2> DEFINE c == Clear(Sent)
  <2>2. c \in Seq(Frame)
    BY <1>1, SentIs, ClearIs
  <2>3. Clear(Sent') = c
    <3> HIDE DEF c
    <3>1. Clear(Sent') = c \o <<>>
      BY <1>9, <2>1 DEF c
    <3> QED BY <2>2, <3>1, ConcatEmptySeq
  <2>4. Spelled(Sent)
    BY <1>1 DEF WellSpelled, IsSpelled
  <2> QED BY <1>1, <1>10, <1>11, <2>3, <2>4 DEF Begun, IsSpelled, Spelled
<1>12. CASE ~connection.destroyed
  <2>1. Begins(Sent)
    BY <1>1, <1>12 DEF WellSpelled, Begun
  <2>2. PICK ds \in Seq(Deltas) : /\ Clear(Sent) = Opened(p, writer.opened) \o ds
                                  /\ ~writer.opened => ds = <<>>
    BY <2>1 DEF Begins, BeginsWith
  <2>3. (Opened(p, writer.opened) \o ds) \o o = Opened(p, TRUE) \o ds
    <3> DEFINE open == writer.opened
    <3>1. open \in BOOLEAN /\ (~open => ds = <<>>) /\ o = IF open THEN <<>> ELSE TextOpening(p)
      BY <1>2, <2>2 DEF o
    <3> HIDE DEF open, p
    <3>2. (Opened(p, open) \o ds) \o (IF open THEN <<>> ELSE TextOpening(p)) = Opened(p, TRUE) \o ds
      BY <1>2, <3>1, OpeningOn
    <3>3. (Opened(p, open) \o ds) \o o = Opened(p, TRUE) \o ds
      BY <3>1, <3>2
    <3> QED BY <3>3 DEF open
  <2>4. Clear(Sent') = Opened(p, TRUE) \o ds
    BY <1>9, <2>2, <2>3
  <2>5. BeginsWith(p, TRUE, Clear(Sent'))
    BY <2>4 DEF BeginsWith
  <2>6. Begins(Sent)'
    BY <1>1, <1>2, <2>5 DEF Begins
  <2>7. SpelledIn(p, Clear(Sent'))
    <3>1. (writer'.said # <<>>) = TRUE
      BY <1>5
    <3>2. BeginsWith(p, writer'.said # <<>>, Clear(Sent'))
      BY <2>5, <3>1
    <3> QED BY <1>2, <3>2, BegunIsSpelled
  <2>8. Spelled(Sent)'
    BY <1>1, <2>7 DEF Spelled
  <2> QED BY <1>10, <2>6, <2>8 DEF Begun, IsSpelled
<1> QED BY <1>11, <1>12

LEMMA SpelledOffer ==
  ASSUME WellSpelled, NEW piece \in Pieces, Offer(<<piece>>)
  PROVE  OpenedIsSaid' /\ Begun' /\ IsSpelled'
<1> SUFFICES ASSUME ~writer'.torn PROVE OpenedIsSaid' /\ Begun' /\ IsSpelled'
  BY OfferBasics DEF WellSpelled, Faithful, OpenedIsSaid, Begun, IsSpelled
<1> QED BY SpelledOfferWhole, SpelledOfferCut

LEMMA SpelledAnswer ==
  ASSUME WellSpelled, Answer
  PROVE  OpenedIsSaid' /\ Begun' /\ IsSpelled'
<1> DEFINE p == request.protocol
           a == Sent
           c == Clear(Sent)
<1>1. /\ Basics /\ Basics' /\ handler = "executing" /\ ~executor.refused /\ ~executor'.refused
      /\ UNCHANGED <<request, writer, heard>> /\ request \in Requests /\ connection'.ended
  BY AnswerBasics DEF WellSpelled, Faithful
<1>2. PICK answer \in Texts, n \in 0..MaxTools :
              connection' = IF request.stream THEN Finish(answer, n) ELSE Json(answer)
  BY AnswerBasics DEF WellSpelled, Faithful
<1>3. /\ Ready /\ answer \in Seq(Pieces) /\ n \in Nat /\ p \in Protocols
  BY <1>1, TextsAre, ReplyLimitsAssumption DEF Basics, ReplyTypes, Ready, Requests
<1>4. OpenedIsSaid' /\ Begun' /\ OpenedIsSaid
  BY <1>1 DEF Basics, Phases, Begun, OpenedIsSaid, WellSpelled
<1> SUFFICES ASSUME request.stream PROVE Spelled(Sent)'
  BY <1>1, <1>4 DEF IsSpelled
<1>13. ~writer.torn
  BY <1>1, <1>4 DEF OpenedIsSaid
<1>5. Spelled(Sent) /\ a \in Seq(Frame) /\ c \in Seq(Frame)
  BY <1>1, <1>13, SentIs, ClearIs DEF WellSpelled, IsSpelled
<1>6. ASSUME Clear(Sent') = Clear(Sent) PROVE Spelled(Sent)'
  BY <1>1, <1>5, <1>6 DEF Spelled
<1>7. CASE connection.destroyed
  <2>1. connection'.buffer = connection.buffer
    <3>1. CASE Finishes(answer, n)
      BY <1>3, <1>7, <3>1, FinishedIs DEF Gone
    <3>2. CASE ~Finishes(answer, n)
      BY <1>2, <1>3, <1>7, <3>2, UnfinishedSends
    <3> QED BY <3>1, <3>2
  <2>2. Sent' = Sent
    BY <1>1, <2>1 DEF Sent
  <2> QED BY <1>6, <2>2
<1>8. ASSUME ~connection.destroyed, IsPrefix(writer.said, answer)
      PROVE  WellFormed(p, answer # <<>>, n, c \o Whole(answer, n))
  <2>1. Begins(Sent)
    BY <1>1, <1>8, <1>13 DEF WellSpelled, Begun
  <2>2. PICK ds \in Seq(Deltas) : /\ c = Opened(p, writer.opened) \o ds
                                  /\ ~writer.opened => ds = <<>>
    BY <2>1 DEF Begins, BeginsWith
  <2>3. writer.opened <=> writer.said # <<>>
    BY <1>4, <1>13 DEF OpenedIsSaid
  <2>4. WellFormed(p, answer # <<>>, n, (Opened(p, writer.opened) \o ds) \o Whole(answer, n))
    <3> HIDE DEF a, c
    <3> QED BY <1>3, <1>8, <2>2, <2>3, FinishOn
  <2> HIDE DEF c
  <2> QED BY <2>2, <2>4
<1>9. (answer # <<>>) \in BOOLEAN
  OBVIOUS
<1>10. Whole(answer, n) \in Seq(Frame) /\ Clear(Whole(answer, n)) = Whole(answer, n)
  <2> DEFINE b == Leading(answer) \o Body(p, answer, n)
             f == LastOf(p, answer, n)
             all == Whole(answer, n)
  <2>1. /\ b \in Seq(Inner(p)) /\ f \in Frame /\ f.type = Terminal(p)
        /\ all = Append(b, f)
    BY <1>3, WholeIs
  <2>2. all \in Seq(Frame)
    BY <1>3, WholeSays
  <2>3. Leading(answer) \in Seq(Loud)
    <3> DEFINE r == RestOf(answer)
               d == <<Delta(r)>>
               o == IF writer.opened THEN <<>> ELSE TextOpening(p)
    <3>1. o \in Seq(Plain(p)) /\ <<>> \in Seq(Loud) /\ Plain(p) \subseteq Loud
      BY <1>3, OpeningsArePlain, EmptySeq DEF Plain, Loud
    <3>2. o \in Seq(Loud)
      <4> HIDE DEF o
      <4> QED BY <3>1, SeqMonotonic
    <3>3. r \in Seq(Pieces)
      BY <1>3, ClosingIs DEF Ready
    <3>4. d \in Seq(Loud)
      <4> DEFINE g == Delta(r)
      <4>1. g \in Loud
        BY <3>3, FramesAre DEF Delta, Marks, Loud
      <4> HIDE DEF g
      <4>2. <<g>> \in Seq(Loud)
        BY <4>1
      <4> QED BY <4>2 DEF g
    <3>5. Leading(answer) = IF r = <<>> THEN <<>> ELSE o \o d
      BY DEF Leading, Rest
    <3> HIDE DEF o, d, r
    <3> QED BY <3>1, <3>2, <3>4, <3>5, ConcatProperties
  <2>4. Body(p, answer, n) \in Seq(Loud)
    <3>1. Body(p, answer, n) \in Seq(Plain(p)) /\ Plain(p) \subseteq Loud
      BY <1>3, BodyIsPlain DEF Plain, Loud
    <3> DEFINE q == Body(p, answer, n)
    <3>2. q \in Seq(Plain(p))
      BY <3>1
    <3> HIDE DEF q
    <3>3. q \in Seq(Loud)
      BY <3>1, <3>2, SeqMonotonic
    <3> QED BY <3>3 DEF q
  <2>5. f \in Loud
    <3> HIDE DEF f
    <3> QED BY <1>3, <2>1 DEF Loud, Terminal, Protocols
  <2>6. b \in Seq(Loud)
    <3> DEFINE l == Leading(answer)
               q == Body(p, answer, n)
    <3>1. l \in Seq(Loud) /\ q \in Seq(Loud) /\ b = l \o q
      BY <2>3, <2>4
    <3> HIDE DEF l, q, b
    <3> QED BY <3>1, ConcatProperties
  <2> HIDE DEF b, f, all
  <2>7. all \in Seq(Loud)
    BY <2>1, <2>5, <2>6, AppendProperties
  <2> QED BY <2>2, <2>7, ClearIs DEF all
<1>11. CASE ~connection.destroyed /\ Finishes(answer, n)
  <2> DEFINE all == Whole(answer, n)
             text == answer # <<>>
  <2>1. connection'.buffer = connection.buffer \o all
    BY <1>2, <1>3, <1>11, FinishedIs
  <2>2. Sent' = a \o all
    BY <1>1, <1>10, <2>1, SentOn
  <2>3. WellFormed(p, text, n, c \o all) /\ text \in BOOLEAN
    BY <1>8, <1>11 DEF Finishes
  <2>4. all \in Seq(Frame) /\ Clear(all) = all
    BY <1>10
  <2> HIDE DEF all, text, a, c
  <2>5. Clear(Sent') = c \o all
    BY <1>5, <2>2, <2>4, ClearConcat DEF a, c
  <2>6. SpelledIn(p, Clear(Sent'))
    BY <2>3, <2>5 DEF SpelledIn
  <2> QED BY <1>1, <2>6 DEF Spelled
<1>12. CASE ~connection.destroyed /\ ~Finishes(answer, n)
  <2>1. PICK v \in Seq(Inner(p)), w \in Seq(Frame) :
          /\ \/ Finish(answer, n).buffer = connection.buffer \o v
             \/ Finish(answer, n).buffer = connection.buffer \o Append(v, ErrorFrame)
          /\ v = <<>> \/ (IsPrefix(writer.said, answer) /\ Whole(answer, n) = v \o w)
    BY <1>3, <1>12, UnfinishedSends
  <2>2. \/ connection'.buffer = connection.buffer \o v
        \/ connection'.buffer = connection.buffer \o Append(v, ErrorFrame)
    BY <1>2, <2>1
  <2>3. v \in Seq(Frame) /\ ErrorFrame \in Frame /\ ErrorFrame.type = "error"
    BY InnerAreFrames, FramesAre DEF Marks, ErrorFrame
  <2>4. Append(v, ErrorFrame) \in Seq(Frame) /\ Clear(Append(v, ErrorFrame)) = Clear(v)
    BY <2>3, ClearOn, AppendProperties
  <2>5. PICK x \in Seq(Frame) : Sent' = a \o x /\ Clear(x) = Clear(v)
    <3>1. CASE connection'.buffer = connection.buffer \o v
      BY <1>1, <2>3, <3>1, SentOn
    <3>2. CASE connection'.buffer = connection.buffer \o Append(v, ErrorFrame)
      <4> DEFINE y == Append(v, ErrorFrame)
      <4>1. y \in Seq(Frame) /\ connection'.buffer = connection.buffer \o y /\ Clear(y) = Clear(v)
        BY <2>4, <3>2
      <4> HIDE DEF y
      <4>2. Sent' = a \o y
        BY <1>1, <4>1, SentOn
      <4> QED BY <4>1, <4>2
    <3> QED BY <2>2, <3>1, <3>2
  <2>6. Clear(Sent') = c \o Clear(v)
    <3>1. Clear(a \o x) = Clear(a) \o Clear(x)
      <4> HIDE DEF a
      <4> QED BY <1>5, <2>5, ClearConcat
    <3> QED BY <2>5, <3>1
  <2>7. CASE v = <<>>
    <3>1. Clear(v) = <<>>
      BY <2>7, DroppingOfNone DEF Clear
    <3>2. Clear(Sent') = c
      <4> HIDE DEF c
      <4> QED BY <1>5, <2>6, <3>1, ConcatEmptySeq
    <3> QED BY <1>6, <3>2
  <2>8. CASE IsPrefix(writer.said, answer) /\ Whole(answer, n) = v \o w
    <3> DEFINE text == answer # <<>>
               y == Clear(v)
               z == Clear(w)
    <3>1. WellFormed(p, text, n, c \o Whole(answer, n)) /\ text \in BOOLEAN
      BY <1>8, <1>12, <2>8
    <3>2. y \in Seq(Frame) /\ z \in Seq(Frame)
      BY <2>3, ClearIs
    <3>3. Whole(answer, n) = y \o z
      <4>1. Clear(v \o w) = y \o z
        BY <2>3, ClearConcat
      <4> QED BY <1>10, <2>8, <4>1
    <3> HIDE DEF text, y, z, a, c
    <3>4. (c \o y) \o z = c \o (y \o z) /\ c \o y \in Seq(Frame)
      <4>1. Joined(Frame, c, y, z)
        BY <1>5, <3>2 DEF Joined
      <4>2. (c \o y) \o z = c \o (y \o z)
        BY <4>1, Joins
      <4>3. c \in Seq(Frame) /\ y \in Seq(Frame)
        BY <1>5, <3>2
      <4> QED BY <4>2, <4>3, ConcatProperties
    <3> DEFINE cy == c \o y
    <3>5. cy \in Seq(Frame) /\ WellFormed(p, text, n, cy \o z)
      BY <3>1, <3>3, <3>4
    <3> HIDE DEF cy, p
    <3>6. WellFormed(p, text, n, cy)
      BY <1>3, <3>1, <3>2, <3>5, WellFormedPart
    <3>7. SpelledIn(p, Clear(Sent'))
      BY <2>6, <3>1, <3>6 DEF SpelledIn, cy, y
    <3> QED BY <1>1, <3>7 DEF Spelled, p
  <2> QED BY <2>1, <2>7, <2>8
<1> QED BY <1>7, <1>11, <1>12

\* A step that says nothing.
LEMMA SpelledQuiet ==
  ASSUME WellSpelled, UNCHANGED <<request, writer>>, executor.refused => executor'.refused,
         Clear(Sent') = Clear(Sent),
         request.stream /\ handler' = "executing" /\ ~connection'.destroyed
           => handler = "executing" /\ ~connection.destroyed
  PROVE  OpenedIsSaid' /\ Begun' /\ IsSpelled'
<1>1. OpenedIsSaid'
  BY DEF WellSpelled, OpenedIsSaid
<1>2. Begun'
  BY DEF WellSpelled, Begun, Begins
<1>3. IsSpelled'
  BY DEF WellSpelled, IsSpelled, Spelled
<1> QED BY <1>1, <1>2, <1>3

\* The client goes away with what it has heard.
LEMMA SpelledGone ==
  ASSUME WellSpelled, UNCHANGED <<request, writer, heard>>, executor.refused => executor'.refused,
         connection'.destroyed, connection'.buffer = <<>>
  PROVE  OpenedIsSaid' /\ Begun' /\ IsSpelled'
<1>1. OpenedIsSaid' /\ Begun'
  BY DEF WellSpelled, OpenedIsSaid, Begun
<1>2. ASSUME request.stream, ~writer.torn PROVE Spelled(Sent)'
  <2>1. request.protocol \in Protocols
    BY <1>2 DEF WellSpelled, Faithful, Basics, ReplyTypes, Requests, NoRequest
  <2> DEFINE b == connection.buffer
  <2>2. heard \in Seq(Frame) /\ b \in Seq(Frame) /\ Sent = heard \o b /\ Sent' = heard \o <<>>
    BY SentIs DEF WellSpelled, Faithful, Sent
  <2>3. Spelled(Sent)
    BY <1>2 DEF WellSpelled, IsSpelled
  <2> HIDE DEF b
  <2>4. Spelled(heard \o b)
    BY <2>2, <2>3
  <2>5. Spelled(heard)
    BY <2>1, <2>2, <2>4, SpelledPart
  <2>6. Sent' = heard
    BY <2>2, ConcatEmptySeq
  <2> QED BY <2>5, <2>6 DEF Spelled
<1> QED BY <1>1, <1>2 DEF IsSpelled

LEMMA SpelledFail == ASSUME WellSpelled, Fail PROVE OpenedIsSaid' /\ Begun' /\ IsSpelled'
<1> DEFINE a == Sent
           e == <<ErrorFrame>>
<1>1. /\ Basics /\ Basics' /\ UNCHANGED <<request, writer, heard>>
      /\ executor'.refused = executor.refused /\ connection'.ended
      /\ connection' = IF request.stream THEN WithError(connection) ELSE Refusal(connection)
  BY FailBasics DEF WellSpelled, Faithful
<1>2. handler' = "over"
  BY DEF Fail
<1>3. CASE ~request.stream
  BY <1>1, <1>2, <1>3 DEF WellSpelled, OpenedIsSaid, Begun, IsSpelled
<1>4. CASE request.stream
  <2>1. ErrorFrame \in Frame /\ ErrorFrame.type = "error"
    BY FramesAre DEF Marks, ErrorFrame
  <2>2. a \in Seq(Frame) /\ e \in Seq(Frame) /\ connection \in Connection
    BY <1>1, <2>1, SentIs DEF Basics, ReplyTypes
  <2>3. connection'.buffer = connection.buffer \/ connection'.buffer = connection.buffer \o e
    BY <1>1, <1>4, <2>2, WithErrorIs
  <2> HIDE DEF e
  <2>4. Sent' = Sent \/ Sent' = a \o e
    <3>1. CASE connection'.buffer = connection.buffer
      BY <1>1, <3>1 DEF Sent
    <3>2. CASE connection'.buffer = connection.buffer \o e
      BY <1>1, <2>2, <3>2, SentOn
    <3> QED BY <2>3, <3>1, <3>2
  <2>5. Clear(a \o e) = Clear(a)
    <3> HIDE DEF a
    <3> QED BY <2>1, <2>2, ClearOn DEF e
  <2>6. Clear(Sent') = Clear(Sent)
    BY <2>4, <2>5
  <2> QED BY <1>1, <1>2, <2>6, SpelledQuiet
<1> QED BY <1>3, <1>4

LEMMA SpelledPing == ASSUME WellSpelled, Ping PROVE OpenedIsSaid' /\ Begun' /\ IsSpelled'
<1>1. /\ Basics /\ UNCHANGED <<request, handler, writer, heard>>
      /\ executor.refused => executor'.refused
  BY PingBasics DEF WellSpelled, Faithful
<1>2. CASE connection' = connection
  <2>1. Clear(Sent') = Clear(Sent)
    BY <1>1, <1>2 DEF Sent
  <2> QED BY <1>1, <1>2, <2>1, SpelledQuiet
<1>3. CASE connection'.destroyed /\ connection'.buffer = <<>>
  BY <1>1, <1>3, SpelledGone
<1>4. CASE /\ ~connection'.destroyed /\ ~connection.destroyed
           /\ connection'.buffer = connection.buffer \o <<Control("ping")>>
  <2> DEFINE a == Sent
             f == Control("ping")
             e == <<f>>
  <2>1. f \in Frame /\ f.type = "ping"
    BY FramesAre DEF Marks
  <2> HIDE DEF f
  <2>2. a \in Seq(Frame) /\ e \in Seq(Frame)
    BY <1>1, <2>1, SentIs
  <2>3. connection'.buffer = connection.buffer \o e
    BY <1>4 DEF f
  <2>4. Clear(a \o e) = Clear(a)
    <3> HIDE DEF a
    <3> QED BY <2>1, <2>2, ClearOn
  <2> HIDE DEF e
  <2>5. Sent' = a \o e
    BY <1>1, <2>2, <2>3, SentOn
  <2>6. Clear(Sent') = Clear(Sent)
    BY <2>4, <2>5
  <2> QED BY <1>1, <1>4, <2>6, SpelledQuiet
<1> QED BY <1>2, <1>3, <1>4, PingBasics DEF WellSpelled, Faithful

LEMMA SpelledStep == WellSpelled /\ [ReplyNext]_replyVars => WellSpelled'
<1> SUFFICES ASSUME WellSpelled, [ReplyNext]_replyVars PROVE OpenedIsSaid' /\ Begun' /\ IsSpelled'
  BY FaithfulStep DEF WellSpelled
<1>1. ASSUME NEW p \in Protocols, NEW stream \in BOOLEAN, NEW buffered \in BOOLEAN,
             Accept(p, stream, buffered)
      PROVE  OpenedIsSaid' /\ Begun' /\ IsSpelled'
  BY <1>1, SpelledAccept
<1>2. CASE InvalidRequest
  <2>1. request = NoRequest /\ UNCHANGED <<request, writer, executor>>
    BY <1>2, InvalidBasics DEF WellSpelled, Faithful, InvalidRequest
  <2>2. ~request'.stream
    BY <2>1 DEF NoRequest
  <2> QED BY <2>1, <2>2 DEF WellSpelled, OpenedIsSaid, Begun, IsSpelled
<1>3. ASSUME NEW s \in {<<p>> : p \in Pieces}, Offer(s) PROVE OpenedIsSaid' /\ Begun' /\ IsSpelled'
  <2>1. PICK piece \in Pieces : s = <<piece>>
    OBVIOUS
  <2>2. Offer(<<piece>>)
    BY <1>3, <2>1
  <2> QED BY <2>2, SpelledOffer
<1>4. CASE DrainTimeout
  <2>1. executor'.refused /\ UNCHANGED <<request, handler, writer, connection, heard>>
    BY <1>4, DrainBasics DEF WellSpelled, Faithful
  <2>2. Clear(Sent') = Clear(Sent)
    BY <2>1 DEF Sent
  <2> QED BY <2>1, <2>2, SpelledQuiet
<1>5. CASE Answer
  BY <1>5, SpelledAnswer
<1>6. CASE Fail
  BY <1>6, SpelledFail
<1>7. CASE Receive
  <2>1. UNCHANGED <<request, handler, writer>> /\ ~connection.destroyed /\ executor'.refused = executor.refused
    BY <1>7, ReceiveBasics DEF WellSpelled, Faithful
  <2>2. Sent' = Sent
    BY <1>7, SentKept DEF WellSpelled, Faithful
  <2> QED BY <2>1, <2>2, SpelledQuiet
<1>8. CASE Leave
  <2>1. /\ UNCHANGED <<request, writer, heard>> /\ connection'.destroyed
        /\ connection'.buffer = <<>> /\ (executor.refused => executor'.refused)
    BY <1>8, LeaveBasics DEF WellSpelled, Faithful
  <2> QED BY <2>1, SpelledGone
<1>9. CASE Ping
  BY <1>9, SpelledPing
<1>10. CASE UNCHANGED replyVars
  <2>1. Clear(Sent') = Clear(Sent)
    BY <1>10 DEF replyVars, Sent
  <2> QED BY <1>10, <2>1, SpelledQuiet DEF replyVars
<1> QED BY <1>1, <1>2, <1>3, <1>4, <1>5, <1>6, <1>7, <1>8, <1>9, <1>10, Accepted DEF ReplyNext

\* Nothing is sent after what ends a reply.
LEMMA NothingAfterTheEnd ==
  ASSUME Faithful
  PROVE  \A i \in 1..Len(Sent) - 1 : Sent[i].type \notin Ends
<1> DEFINE p == request.protocol
           s == Sent
<1>1. ASSUME NEW u \in Seq(Inner(p)), NEW i \in 1..Len(u) PROVE u[i].type \notin Ends
  <2>1. u[i] \in Inner(p)
    BY ElementOfSeq
  <2> QED BY <2>1 DEF Inner, Ends
<1>2. s \in Seq(Frame) /\ Len(s) \in Nat
  <2>1. s \in Seq(Frame)
    BY SentIs DEF Faithful
  <2> QED BY <2>1, LenProperties
<1>3. CASE s \in Seq(Inner(p))
  <2> HIDE DEF s
  <2>1. \A i \in 1..Len(s) : s[i].type \notin Ends
    BY <1>1, <1>3
  <2> QED BY <1>2, <2>1 DEF s
<1>4. CASE EndsWell
  <2>1. PICK u \in Seq(Inner(p)), f \in Frame : s = Append(u, f)
    BY <1>4 DEF EndsWell
  <2>2. u \in Seq(Frame)
    BY InnerAreFrames
  <2> HIDE DEF s
  <2>3. Len(s) = Len(u) + 1 /\ Len(u) \in Nat /\ \A i \in 1..Len(u) : s[i] = u[i]
    BY <2>1, <2>2, AppendProperties, LenProperties
  <2>4. \A i \in 1..Len(s) - 1 : s[i].type \notin Ends
    BY <1>1, <2>3
  <2> QED BY <2>4 DEF s
<1> QED BY <1>3, <1>4 DEF Faithful, Framed

\* Every stream is well formed for its protocol (StreamIsWellFormed): whatever the pings, the
\* refused writes, the drains and the errors in between, what a writer of openai.ts,
\* anthropic.ts or ollama.ts sends begins the grammar of its protocol, with each piece of
\* text inside the block of the text, unless the frames that open the text were refused;
\* and no frame follows the one that ends the reply, in any case.
THEOREM StreamIsWellFormedHolds == ReplySpec => []StreamIsWellFormed
<1>1. ReplySpec => []WellSpelled
  BY SpelledInitially, SpelledStep, PTL DEF ReplySpec
<1>2. WellSpelled => StreamIsWellFormed
  <2> SUFFICES ASSUME WellSpelled PROVE StreamIsWellFormed
    OBVIOUS
  <2>1. \A i \in 1..Len(Sent) - 1 : Sent[i].type \notin Ends
    BY NothingAfterTheEnd DEF WellSpelled
  <2>2. request.stream /\ ~writer.torn =>
          \E text \in BOOLEAN, n \in 0..MaxTools :
            WellFormed(request.protocol, text, n, Dropping(Sent, {"ping", "error"}))
    BY DEF WellSpelled, IsSpelled, Spelled, SpelledIn, Clear
  <2> QED BY <2>1, <2>2 DEF StreamIsWellFormed
<1> QED BY <1>1, <1>2, PTL

=============================================================================
