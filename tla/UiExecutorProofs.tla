--------------------------- MODULE UiExecutorProofs ---------------------------
(***************************************************************************)
(* Theorems about UiExecutor and the page it types into, for any functions *)
(* and effects, any answers the parser reads and any bounds.               *)
(*                                                                         *)
(* The inductive invariant has three parts.  Of the page it says what is   *)
(* known at each stage of a turn: before the prompt is sent the page is    *)
(* idle and its last answer is the baseline; after, the page is busy with  *)
(* the prompt or not at all, so that an answer that is not the baseline is *)
(* the prompt's.  Of the memory it says what it owes the calls ever made:  *)
(* pending calls are not answered, and the evidence and the ids that may   *)
(* give more of it are those of the task at hand.  Of execute() it says    *)
(* that the results it brings are pending and that an answer it wants      *)
(* reformatted had passed what is enforced.                                *)
(*                                                                         *)
(* What the chat has been told is a second invariant, on top of the first: *)
(* the history that is kept and the client's transcript are known to the   *)
(* chat, so that of a request that goes on from the transcript the part    *)
(* that is not typed is known; without a history all of it is typed.       *)
(***************************************************************************)
EXTENDS UiExecutor, SequenceTheorems, WellFoundedInduction, TLAPS

-----------------------------------------------------------------------------
(* The inductive invariant *)

\* What is known of the page at each stage of a turn.
TurnSound ==
  /\ turn.taken <= 1 /\ (turn.whole \/ turn.late)
  /\ turn.phase \in {"settle", "compose", "check", "dispatch"} => turn.taken = 0 /\ turn.whole
  /\ turn.phase = "settle" => page.busy < turn.prompt /\ page.last < turn.prompt
  /\ turn.phase \in {"compose", "check", "dispatch"} =>
       page.busy = 0 /\ page.last = turn.baseline /\ turn.baseline < turn.prompt
  /\ turn.phase = "dispatch" => page.draft \in {"whole", "empty"} \/ turn.late
  /\ turn.phase \in {"confirm", "read"} =>
       page.busy \in {0, turn.prompt} /\ page.last \in {turn.baseline, turn.prompt}

\* No page knows a prompt that was not written yet.
PagesBounded == {page.busy, page.last, turn.prompt} \subseteq 0..prompts

PageInv == PageTypeOK /\ TurnSound /\ PagesBounded /\ AnswerIsOfPrompt

\* The shapes of the executor's memory, of execute() and of the record of a call
Memory(e) ==
  e \in [history : {e.history}, pending : SUBSET Nat, exploring : SUBSET Nat,
         mutating : SUBSET Nat, task : {e.task}, active : {e.active},
         evidence : [explored : BOOLEAN, mutated : BOOLEAN, used : BOOLEAN]]
CallShape(c) ==
  c \in [running : BOOLEAN, ids : SUBSET Nat, logical : {c.logical}, told : {c.told},
         tools : {c.tools}, demand : {c.demand}, structured : {c.structured},
         repairs : Nat, formatted : BOOLEAN]
IsRecord(x) ==
  x \in [effect : {x.effect}, task : {x.task}, reported : BOOLEAN, settled : BOOLEAN]
Records(m) ==
  /\ \E S : m \in Seq(S)
  /\ \A id \in DOMAIN m : IsRecord(m[id])

\* A result of a call of the task at hand has been brought that shows the effect.
ShownOf(e, m, effect) ==
  \E id \in DOMAIN m : effect \in m[id].effect /\ m[id].reported /\ m[id].task = e.task

\* What the memory says of the calls that were made
Sound(e, m) ==
  /\ e.exploring \union e.mutating \subseteq e.pending
  /\ e.pending \subseteq DOMAIN m
  /\ \A id \in e.pending : ~m[id].settled
  /\ \A id \in e.exploring : "explore" \in m[id].effect /\ m[id].task = e.task
  /\ \A id \in e.mutating : "mutate" \in m[id].effect /\ m[id].task = e.task
  /\ e.evidence.explored => ShownOf(e, m, "explore")
  /\ e.evidence.mutated => ShownOf(e, m, "mutate")

\* What execute() knows while it runs
CallSound ==
  /\ call.running <=> turn.phase # "idle"
  /\ ~call.running => call = NoCall
  /\ call.ids \subseteq executor.pending
  /\ call.formatted => Enforced(call.demand, executor.evidence, <<>>)
  /\ call.demand.explore \/ call.demand.mutate => call.demand.enabled

IInv ==
  /\ PageInv /\ CallSound
  /\ Memory(executor) /\ CallShape(call)
  /\ Records(made) /\ Sound(executor, made)

-----------------------------------------------------------------------------
(* A turn of the page: one lemma per action *)

LEMMA SettleKeeps == PageInv /\ Settle => PageInv'
<1> SUFFICES ASSUME PageInv, Settle PROVE PageInv'
  OBVIOUS
<1> USE BoundsAssumption
    DEF PageInv, PageTypeOK, TurnSound, PagesBounded, AnswerIsOfPrompt, Fine, Mishap, Phases
<1>1. PageTypeOK' /\ PagesBounded' /\ AnswerIsOfPrompt'
  BY DEF Settle
<1>2. /\ turn'.phase = "compose" /\ turn'.baseline = page.last
      /\ turn'.taken = turn.taken /\ turn'.whole = turn.whole /\ turn'.prompt = turn.prompt
      /\ turn'.late = turn.late
  BY DEF Settle
<1>3. page' = page /\ page.busy = 0 /\ turn.phase = "settle"
  BY DEF Settle, Idle
<1>4. TurnSound'
  BY <1>2, <1>3
<1> QED BY <1>1, <1>4

LEMMA NotReadyKeeps == PageInv /\ NotReady => PageInv'
<1> SUFFICES ASSUME PageInv, NotReady PROVE PageInv'
  OBVIOUS
<1> USE BoundsAssumption
    DEF PageInv, NotReady, PageTypeOK, TurnSound, PagesBounded, AnswerIsOfPrompt, Fine, Mishap, Phases
<1>1. PageTypeOK'
  OBVIOUS
<1>2. TurnSound'
  OBVIOUS
<1>3. PagesBounded' /\ AnswerIsOfPrompt'
  OBVIOUS
<1> QED BY <1>1, <1>2, <1>3

LEMMA ComposeKeeps == PageInv /\ Compose => PageInv'
<1> SUFFICES ASSUME PageInv, Compose PROVE PageInv'
  OBVIOUS
<1> USE BoundsAssumption
    DEF PageInv, Compose, PageTypeOK, TurnSound, PagesBounded, AnswerIsOfPrompt, Fine, Mishap, Phases
<1>1. PageTypeOK'
  OBVIOUS
<1>2. TurnSound'
  OBVIOUS
<1>3. PagesBounded' /\ AnswerIsOfPrompt'
  OBVIOUS
<1> QED BY <1>1, <1>2, <1>3

LEMMA FinalCheckKeeps == PageInv /\ FinalCheck => PageInv'
<1> SUFFICES ASSUME PageInv, FinalCheck PROVE PageInv'
  OBVIOUS
<1> USE BoundsAssumption
    DEF PageInv, PageTypeOK, TurnSound, PagesBounded, AnswerIsOfPrompt, Fine, Mishap, Phases
<1>1. PageTypeOK' /\ PagesBounded' /\ AnswerIsOfPrompt'
  BY DEF FinalCheck
<1>2. /\ turn'.baseline = turn.baseline /\ turn'.taken = turn.taken
      /\ turn'.whole = turn.whole /\ turn'.prompt = turn.prompt
      /\ turn'.late = turn.late
      /\ turn'.phase \in {"dispatch", "failed"}
      /\ turn'.phase = "dispatch" => page.draft = "whole"
  BY DEF FinalCheck, Intact
<1>3. page' = page /\ turn.phase = "check"
  BY DEF FinalCheck
<1>4. TurnSound'
  BY <1>2, <1>3
<1> QED BY <1>1, <1>4

LEMMA DispatchKeeps == PageInv /\ Dispatch => PageInv'
<1> SUFFICES ASSUME PageInv, Dispatch PROVE PageInv'
  OBVIOUS
<1>1. PICK click \in {"done", "timeout", "error"}, how \in {"cleared", "lingers", "ignored"} :
        /\ IF how = "ignored" THEN UNCHANGED page ELSE Takes(how)
        /\ turn' = [turn EXCEPT !.phase = AfterClick(click),
                               !.taken = IF how = "ignored" THEN @ ELSE @ + 1,
                               !.whole = @ /\ (how = "ignored" \/ page.draft = "whole")]
  BY DEF Dispatch
<1> USE BoundsAssumption
    DEF PageInv, PageTypeOK, TurnSound, PagesBounded, AnswerIsOfPrompt, Fine, Mishap, Phases
<1>2. /\ turn.phase = "dispatch" /\ turn.taken = 0 /\ turn.whole = TRUE
      /\ prompts' = prompts /\ mishaps' \in 0..MaxMishaps
  BY DEF Dispatch
<1>3. how # "ignored" => page.draft = "whole" \/ turn.late
  BY <1>1, <1>2 DEF Takes
<1>4. AfterClick(click) \in {"failed", "confirm"}
  BY DEF AfterClick
<1> DEFINE after == AfterClick(click)
           took == IF how = "ignored" THEN turn.taken ELSE turn.taken + 1
           kept == turn.whole /\ (how = "ignored" \/ page.draft = "whole")
<1>5. turn' = [turn EXCEPT !.phase = after, !.taken = took, !.whole = kept]
  BY <1>1
<1>6. after \in {"failed", "confirm"} /\ took \in {0, 1} /\ kept \in BOOLEAN
      /\ (kept \/ turn.late)
  BY <1>2, <1>3, <1>4
<1> HIDE DEF after, took, kept
<1>7. /\ turn' \in [phase : Phases, prompt : 0..MaxPrompts, baseline : 0..MaxPrompts,
                   answer : 0..MaxPrompts, taken : 0..2, whole : BOOLEAN,
                   late : BOOLEAN]
      /\ turn'.phase \in {"failed", "confirm"} /\ turn'.taken <= 1
      /\ (turn'.whole \/ turn'.late)
      /\ turn'.prompt = turn.prompt /\ turn'.baseline = turn.baseline
  <2>1. /\ turn'.phase = after /\ turn'.taken = took /\ turn'.whole = kept
        /\ turn'.prompt = turn.prompt /\ turn'.baseline = turn.baseline
        /\ turn'.answer = turn.answer /\ turn'.late = turn.late
    BY <1>5
  <2>2. after \in Phases /\ took \in 0..2
    BY <1>6
  <2>3. turn' \in [phase : Phases, prompt : 0..MaxPrompts, baseline : 0..MaxPrompts,
                   answer : 0..MaxPrompts, taken : 0..2, whole : BOOLEAN,
                   late : BOOLEAN]
    BY <1>5, <1>6, <2>2
  <2> QED BY <1>6, <2>1, <2>3
<1>8. /\ page' \in [draft : {"empty", "whole", "spoiled"}, lingers : BOOLEAN,
                   busy : 0..MaxPrompts, last : 0..MaxPrompts]
      /\ page'.busy \in {0, turn.prompt} /\ page'.last = page.last
  <2>1. CASE how = "ignored"
    BY <1>1, <1>2, <2>1
  <2>2. CASE how # "ignored"
    <3> DEFINE slow == how = "lingers"
               shown == IF slow THEN page.draft ELSE "empty"
    <3>1. page' = [page EXCEPT !.busy = turn.prompt, !.lingers = slow, !.draft = shown]
      BY <1>1, <2>2 DEF Takes
    <3>2. slow \in BOOLEAN /\ shown \in {"empty", "whole", "spoiled"}
      OBVIOUS
    <3> HIDE DEF slow, shown
    <3> QED BY <3>1, <3>2
  <2> QED BY <2>1, <2>2
<1>9. PageTypeOK' /\ PagesBounded' /\ AnswerIsOfPrompt'
  BY <1>2, <1>7, <1>8
<1>10. TurnSound'
  BY <1>2, <1>7, <1>8
<1> QED BY <1>9, <1>10

LEMMA ConfirmKeeps == PageInv /\ Confirm => PageInv'
<1> SUFFICES ASSUME PageInv, Confirm PROVE PageInv'
  OBVIOUS
<1> USE BoundsAssumption
    DEF PageInv, Confirm, PageTypeOK, TurnSound, PagesBounded, AnswerIsOfPrompt, Fine, Mishap, Phases
<1>1. PageTypeOK'
  OBVIOUS
<1>2. TurnSound'
  OBVIOUS
<1>3. PagesBounded' /\ AnswerIsOfPrompt'
  OBVIOUS
<1> QED BY <1>1, <1>2, <1>3

LEMMA UnconfirmedKeeps == PageInv /\ Unconfirmed => PageInv'
<1> SUFFICES ASSUME PageInv, Unconfirmed PROVE PageInv'
  OBVIOUS
<1> USE BoundsAssumption
    DEF PageInv, Unconfirmed, PageTypeOK, TurnSound, PagesBounded, AnswerIsOfPrompt, Fine, Mishap, Phases
<1>1. PageTypeOK'
  OBVIOUS
<1>2. TurnSound'
  OBVIOUS
<1>3. PagesBounded' /\ AnswerIsOfPrompt'
  OBVIOUS
<1> QED BY <1>1, <1>2, <1>3

LEMMA ReadKeeps == PageInv /\ Read => PageInv'
<1> SUFFICES ASSUME PageInv, Read PROVE PageInv'
  OBVIOUS
<1> USE BoundsAssumption
    DEF PageInv, Read, PageTypeOK, TurnSound, PagesBounded, AnswerIsOfPrompt, Fine, Mishap, Phases
<1>1. PageTypeOK'
  OBVIOUS
<1>2. TurnSound'
  OBVIOUS
<1>3. PagesBounded' /\ AnswerIsOfPrompt'
  OBVIOUS
<1> QED BY <1>1, <1>2, <1>3

LEMMA ReadTimeoutKeeps == PageInv /\ ReadTimeout => PageInv'
<1> SUFFICES ASSUME PageInv, ReadTimeout PROVE PageInv'
  OBVIOUS
<1> USE BoundsAssumption
    DEF PageInv, ReadTimeout, PageTypeOK, TurnSound, PagesBounded, AnswerIsOfPrompt, Fine, Mishap, Phases
<1>1. PageTypeOK'
  OBVIOUS
<1>2. TurnSound'
  OBVIOUS
<1>3. PagesBounded' /\ AnswerIsOfPrompt'
  OBVIOUS
<1> QED BY <1>1, <1>2, <1>3

LEMMA AbortKeeps == PageInv /\ Abort => PageInv'
<1> SUFFICES ASSUME PageInv, Abort PROVE PageInv'
  OBVIOUS
<1> USE BoundsAssumption
    DEF PageInv, Abort, PageTypeOK, TurnSound, PagesBounded, AnswerIsOfPrompt, Fine, Mishap, Phases
<1>1. PageTypeOK'
  OBVIOUS
<1>2. TurnSound'
  OBVIOUS
<1>3. PagesBounded' /\ AnswerIsOfPrompt'
  OBVIOUS
<1> QED BY <1>1, <1>2, <1>3

LEMMA GeneratedKeeps == PageInv /\ Generated => PageInv'
<1> SUFFICES ASSUME PageInv, Generated PROVE PageInv'
  OBVIOUS
<1> USE BoundsAssumption
    DEF PageInv, PageTypeOK, TurnSound, PagesBounded, AnswerIsOfPrompt, Fine, Mishap, Phases
<1>1. page'.busy = 0 /\ page'.last = page.busy /\ page'.draft = page.draft
  BY DEF Generated
<1>2. page' \in [draft : {"empty", "whole", "spoiled"}, lingers : BOOLEAN,
                busy : 0..MaxPrompts, last : 0..MaxPrompts]
  <2> DEFINE n == page.busy
             b == [page EXCEPT !.busy = 0]
  <2>1. n \in 0..MaxPrompts /\ 0 \in 0..MaxPrompts
    OBVIOUS
  <2>2. page' = [page EXCEPT !.busy = 0, !.last = n]
    BY DEF Generated
  <2> HIDE DEF n
  <2> QED BY <2>1, <2>2
<1>3. turn' = turn /\ prompts' = prompts /\ mishaps' = mishaps /\ page.busy # 0
  BY DEF Generated
<1>4. PageTypeOK' /\ PagesBounded' /\ AnswerIsOfPrompt'
  BY <1>1, <1>2, <1>3
<1>5. TurnSound'
  BY <1>1, <1>3
<1> QED BY <1>4, <1>5

LEMMA RerenderKeeps == PageInv /\ Rerender => PageInv'
<1> SUFFICES ASSUME PageInv, Rerender PROVE PageInv'
  OBVIOUS
<1> USE BoundsAssumption
    DEF PageInv, Rerender, PageTypeOK, TurnSound, PagesBounded, AnswerIsOfPrompt, Fine, Mishap, Phases
<1>1. PageTypeOK'
  OBVIOUS
<1>2. TurnSound'
  OBVIOUS
<1>3. PagesBounded' /\ AnswerIsOfPrompt'
  OBVIOUS
<1> QED BY <1>1, <1>2, <1>3

LEMMA ReconcileKeeps == PageInv /\ Reconcile => PageInv'
<1> SUFFICES ASSUME PageInv, Reconcile PROVE PageInv'
  OBVIOUS
<1> USE BoundsAssumption
    DEF PageInv, PageTypeOK, TurnSound, PagesBounded, AnswerIsOfPrompt, Mishap, Phases
<1>1. PICK shown \in {"empty", "spoiled"} : page' = [page EXCEPT !.draft = shown]
  BY DEF Reconcile
<1> DEFINE late == turn.late \/ turn.phase = "dispatch"
<1>2. /\ turn' = [turn EXCEPT !.late = late] /\ turn.phase \in {"check", "dispatch"}
      /\ prompts' = prompts /\ mishaps' \in 0..MaxMishaps
  BY DEF Reconcile
<1>3. late \in BOOLEAN /\ (turn.phase = "dispatch" \/ turn.late => late)
  OBVIOUS
<1> HIDE DEF late
<1>4. /\ turn' \in [phase : Phases, prompt : 0..MaxPrompts, baseline : 0..MaxPrompts,
                   answer : 0..MaxPrompts, taken : 0..2, whole : BOOLEAN, late : BOOLEAN]
      /\ turn'.phase = turn.phase /\ turn'.prompt = turn.prompt
      /\ turn'.baseline = turn.baseline /\ turn'.answer = turn.answer
      /\ turn'.taken = turn.taken /\ turn'.whole = turn.whole /\ turn'.late = late
  BY <1>2, <1>3
<1>5. /\ page' \in [draft : {"empty", "whole", "spoiled"}, lingers : BOOLEAN,
                   busy : 0..MaxPrompts, last : 0..MaxPrompts]
      /\ page'.busy = page.busy /\ page'.last = page.last
  BY <1>1
<1>6. PageTypeOK' /\ PagesBounded' /\ AnswerIsOfPrompt'
  BY <1>2, <1>4, <1>5
<1>7. TurnSound'
  BY <1>2, <1>3, <1>4, <1>5
<1> QED BY <1>6, <1>7

LEMMA StartTurnKeeps == PageInv /\ StartTurn => PageInv' /\ turn'.phase = "settle"
<1> SUFFICES ASSUME PageInv, StartTurn PROVE PageInv' /\ turn'.phase = "settle"
  OBVIOUS
<1> USE BoundsAssumption
    DEF PageInv, PageTypeOK, TurnSound, PagesBounded, AnswerIsOfPrompt, Fine, Phases
<1> DEFINE n == prompts + 1
<1>1. turn' = [phase |-> "settle", prompt |-> n, baseline |-> 0, answer |-> 0, taken |-> 0,
               whole |-> TRUE, late |-> FALSE]
  BY DEF StartTurn, NoTurn
<1>2. /\ n \in 0..MaxPrompts /\ prompts' = n /\ page' = page /\ mishaps' = mishaps
      /\ page.busy < n /\ page.last < n
  BY DEF StartTurn
<1> HIDE DEF n
<1>3. PageTypeOK' /\ PagesBounded' /\ AnswerIsOfPrompt'
  BY <1>1, <1>2
<1>4. TurnSound'
  BY <1>1, <1>2
<1> QED BY <1>1, <1>3, <1>4

\* With no turn nothing need be known of the page.
LEMMA NoTurnKeeps ==
  PageInv /\ turn' = NoTurn /\ page' \in {page, FreshPage} /\ prompts' = prompts
    /\ mishaps' \in 0..MaxMishaps
  => PageInv' /\ turn'.phase = "idle"
<1> SUFFICES ASSUME PageInv, turn' = NoTurn, page' \in {page, FreshPage}, prompts' = prompts,
                    mishaps' \in 0..MaxMishaps
             PROVE  PageInv' /\ turn'.phase = "idle"
  OBVIOUS
<1> USE BoundsAssumption
    DEF PageInv, PageTypeOK, TurnSound, PagesBounded, AnswerIsOfPrompt, Phases
<1>1. turn' = [phase |-> "idle", prompt |-> 0, baseline |-> 0, answer |-> 0, taken |-> 0,
               whole |-> TRUE, late |-> FALSE]
  BY DEF NoTurn
<1>2. /\ page' \in [draft : {"empty", "whole", "spoiled"}, lingers : BOOLEAN,
                   busy : 0..MaxPrompts, last : 0..MaxPrompts]
      /\ page'.busy \in {page.busy, 0} /\ page'.last \in {page.last, 0}
  <2>1. CASE page' = page
    BY <2>1
  <2>2. CASE page' = FreshPage
    BY <2>2 DEF FreshPage
  <2> QED BY <2>1, <2>2
<1>3. PageTypeOK' /\ PagesBounded' /\ AnswerIsOfPrompt'
  BY <1>1, <1>2
<1>4. TurnSound'
  BY <1>1, <1>2
<1> QED BY <1>1, <1>3, <1>4

-----------------------------------------------------------------------------
(* The memory *)

-----------------------------------------------------------------------------
(* What execute does to the memory, one step of it at a time *)

LEMMA FreshSound ==
  ASSUME NEW m
  PROVE  Memory(FreshExecutor) /\ Sound(FreshExecutor, m) /\ FreshExecutor.pending = {}
<1>1. FreshExecutor.evidence = NoEvidence /\ FreshExecutor.pending = {}
      /\ FreshExecutor.exploring = {} /\ FreshExecutor.mutating = {}
  BY DEF FreshExecutor
<1>2. Sound(FreshExecutor, m)
  BY <1>1 DEF Sound, NoEvidence
<1>3. Memory(FreshExecutor)
  BY DEF Memory, FreshExecutor, NoEvidence
<1> QED BY <1>1, <1>2, <1>3

LEMMA ResumedSound ==
  ASSUME NEW e, NEW m, NEW logical, Memory(e), Sound(e, m)
  PROVE  LET f == Resumed(e, logical)
         IN  Memory(f) /\ Sound(f, m) /\ f.pending = e.pending
<1> DEFINE said == UserTurns(logical)
           text == Last(said).text
           f == [e EXCEPT !.active = text]
<1>1. Resumed(e, logical) \in {e, f}
  BY DEF Resumed
<1> HIDE DEF text
<1>2. /\ f \in [history : {e.history}, pending : SUBSET Nat, exploring : SUBSET Nat,
               mutating : SUBSET Nat, task : {e.task}, active : {text},
               evidence : [explored : BOOLEAN, mutated : BOOLEAN, used : BOOLEAN]]
      /\ f.history = e.history /\ f.pending = e.pending /\ f.exploring = e.exploring
      /\ f.mutating = e.mutating /\ f.task = e.task /\ f.active = text
      /\ f.evidence = e.evidence
  BY DEF Memory
<1> HIDE DEF f
<1>3. Memory(f)
  BY <1>2 DEF Memory
<1>4. Sound(f, m)
  BY <1>2 DEF Sound, ShownOf
<1> QED BY <1>1, <1>2, <1>3, <1>4

LEMMA RetaskedSound ==
  ASSUME NEW e, NEW m, NEW key, Memory(e), Sound(e, m)
  PROVE  LET f == Retasked(e, key)
         IN  Memory(f) /\ Sound(f, m) /\ f.pending = e.pending
<1> DEFINE n == NoEvidence
           f == [e EXCEPT !.task = key, !.evidence = n, !.exploring = {}, !.mutating = {}]
<1>1. Retasked(e, key) \in {e, f}
  BY DEF Retasked
<1>2. n \in [explored : BOOLEAN, mutated : BOOLEAN, used : BOOLEAN] /\ ~n.explored /\ ~n.mutated
  BY DEF NoEvidence
<1> HIDE DEF n
<1>3. /\ f \in [history : {e.history}, pending : SUBSET Nat, exploring : SUBSET Nat,
               mutating : SUBSET Nat, task : {key}, active : {e.active},
               evidence : [explored : BOOLEAN, mutated : BOOLEAN, used : BOOLEAN]]
      /\ f.history = e.history /\ f.pending = e.pending /\ f.exploring = {}
      /\ f.mutating = {} /\ f.task = key /\ f.active = e.active /\ f.evidence = n
  BY <1>2 DEF Memory
<1> HIDE DEF f
<1>4. Memory(f)
  BY <1>3 DEF Memory
<1>5. Sound(f, m)
  BY <1>2, <1>3 DEF Sound
<1> QED BY <1>1, <1>3, <1>4, <1>5

LEMMA ConsumedSound ==
  ASSUME NEW e, NEW m, NEW ids, Memory(e), Sound(e, m)
  PROVE  LET f == Consumed(e, ids)
         IN  /\ Memory(f) /\ Sound(f, m) /\ f.pending = e.pending \ ids
             /\ f.task = e.task /\ f.history = e.history /\ f.evidence = e.evidence
<1> DEFINE p == e.pending \ ids
           x == e.exploring \ ids
           u == e.mutating \ ids
           f == [e EXCEPT !.pending = p, !.exploring = x, !.mutating = u]
<1>1. Consumed(e, ids) = f
  BY DEF Consumed
<1>2. p \in SUBSET Nat /\ x \in SUBSET Nat /\ u \in SUBSET Nat
  <2>1. e.pending \in SUBSET Nat /\ e.exploring \in SUBSET Nat /\ e.mutating \in SUBSET Nat
    BY DEF Memory
  <2> QED BY <2>1
<1> HIDE DEF p, x, u
<1>3. /\ f \in [history : {e.history}, pending : SUBSET Nat, exploring : SUBSET Nat,
               mutating : SUBSET Nat, task : {e.task}, active : {e.active},
               evidence : [explored : BOOLEAN, mutated : BOOLEAN, used : BOOLEAN]]
      /\ f.history = e.history /\ f.pending = p /\ f.exploring = x
      /\ f.mutating = u /\ f.task = e.task /\ f.active = e.active /\ f.evidence = e.evidence
  BY <1>2 DEF Memory
<1> HIDE DEF f
<1>4. Memory(f)
  BY <1>3 DEF Memory
<1>5. Sound(f, m)
  BY <1>3 DEF Sound, ShownOf, p, x, u
<1> QED BY <1>1, <1>3, <1>4, <1>5 DEF p

\* What happens to the records of calls whose results are brought, and answered
Reported(m, ids) ==
  [id \in DOMAIN m |-> IF id \in ids THEN [m[id] EXCEPT !.reported = TRUE] ELSE m[id]]
Settled(m, ids) ==
  [id \in DOMAIN m |-> IF id \in ids THEN [m[id] EXCEPT !.settled = TRUE] ELSE m[id]]

\* Marking a record changes nothing else of it.
LEMMA MarkRecord ==
  ASSUME NEW x, IsRecord(x)
  PROVE  LET y == [x EXCEPT !.reported = TRUE]
             z == [x EXCEPT !.settled = TRUE]
         IN  /\ IsRecord(y) /\ y.effect = x.effect /\ y.task = x.task
             /\ y.reported /\ y.settled = x.settled
             /\ IsRecord(z) /\ z.effect = x.effect /\ z.task = x.task
             /\ z.reported = x.reported
<1> DEFINE y == [x EXCEPT !.reported = TRUE]
           z == [x EXCEPT !.settled = TRUE]
<1>1. /\ y \in [effect : {x.effect}, task : {x.task}, reported : BOOLEAN, settled : BOOLEAN]
      /\ y.effect = x.effect /\ y.task = x.task /\ y.reported /\ y.settled = x.settled
  BY DEF IsRecord
<1>2. /\ z \in [effect : {x.effect}, task : {x.task}, reported : BOOLEAN, settled : BOOLEAN]
      /\ z.effect = x.effect /\ z.task = x.task /\ z.reported = x.reported
  BY DEF IsRecord
<1> HIDE DEF y, z
<1>3. IsRecord(y) /\ IsRecord(z)
  BY <1>1, <1>2 DEF IsRecord
<1> QED BY <1>1, <1>2, <1>3 DEF y, z

\* A sequence of which some elements are changed is one.
LEMMA MappedSeq ==
  ASSUME NEW S, NEW m \in Seq(S), NEW T, NEW f, f = [i \in DOMAIN m |-> f[i]],
         \A i \in DOMAIN m : f[i] \in T
  PROVE  f \in Seq(T) /\ Len(f) = Len(m) /\ DOMAIN f = DOMAIN m
<1>1. DOMAIN m = 1..Len(m) /\ Len(m) \in Nat
  OBVIOUS
<1>2. f \in [1..Len(m) -> T]
  BY <1>1
<1> QED BY <1>1, <1>2

LEMMA MarkedRecords ==
  ASSUME NEW m, NEW ids, Records(m)
  PROVE  /\ Records(Reported(m, ids)) /\ DOMAIN Reported(m, ids) = DOMAIN m
         /\ Records(Settled(m, ids)) /\ DOMAIN Settled(m, ids) = DOMAIN m
         /\ Len(Settled(m, ids)) = Len(m)
<1>1. PICK S : m \in Seq(S)
  BY DEF Records
<1>2. ASSUME NEW f, f = [i \in DOMAIN m |-> f[i]], \A i \in DOMAIN m : IsRecord(f[i])
      PROVE  Records(f) /\ DOMAIN f = DOMAIN m /\ Len(f) = Len(m)
  <2> DEFINE T == {f[i] : i \in DOMAIN m}
  <2>1. f \in Seq(T) /\ Len(f) = Len(m) /\ DOMAIN f = DOMAIN m
    BY <1>1, <1>2, MappedSeq
  <2> QED BY <1>2, <2>1 DEF Records
<1>3. \A i \in DOMAIN m : IsRecord(Reported(m, ids)[i])
  BY MarkRecord DEF Reported, Records
<1>4. \A i \in DOMAIN m : IsRecord(Settled(m, ids)[i])
  BY MarkRecord DEF Settled, Records
<1>5. /\ Reported(m, ids) = [i \in DOMAIN m |-> Reported(m, ids)[i]]
      /\ Settled(m, ids) = [i \in DOMAIN m |-> Settled(m, ids)[i]]
  BY DEF Reported, Settled
<1> QED BY <1>2, <1>3, <1>4, <1>5

\* Results that are brought: those of the task's calls are evidence of what they show.
LEMMA EvidencedSound ==
  ASSUME NEW e, NEW m, NEW ids, Memory(e), Sound(e, m), Records(m)
  PROVE  LET f == Evidenced(e, ids)
         IN  Memory(f) /\ Sound(f, Reported(m, ids)) /\ f.pending = e.pending
<1> DEFINE x == ids \intersect e.exploring # {}
           u == ids \intersect e.mutating # {}
           w == ids \intersect e.pending # {}
           v == e.evidence
           n == [explored |-> v.explored \/ x, mutated |-> v.mutated \/ u,
                 used |-> v.used \/ w]
           f == [e EXCEPT !.evidence = n]
<1>1. Evidenced(e, ids) = f
  BY DEF Evidenced
<1>2. v \in [explored : BOOLEAN, mutated : BOOLEAN, used : BOOLEAN]
  BY DEF Memory
<1>3. /\ n \in [explored : BOOLEAN, mutated : BOOLEAN, used : BOOLEAN]
      /\ n.explored <=> v.explored \/ x
      /\ n.mutated <=> v.mutated \/ u
  BY <1>2
<1> HIDE DEF n
<1>4. /\ f \in [history : {e.history}, pending : SUBSET Nat, exploring : SUBSET Nat,
               mutating : SUBSET Nat, task : {e.task}, active : {e.active},
               evidence : [explored : BOOLEAN, mutated : BOOLEAN, used : BOOLEAN]]
      /\ f.history = e.history /\ f.pending = e.pending /\ f.exploring = e.exploring
      /\ f.mutating = e.mutating /\ f.task = e.task /\ f.active = e.active /\ f.evidence = n
  BY <1>3 DEF Memory
<1> HIDE DEF f
<1>5. Memory(f)
  BY <1>4 DEF Memory
<1> DEFINE k == Reported(m, ids)
<1>6. /\ DOMAIN k = DOMAIN m
      /\ \A id \in DOMAIN m :
           /\ k[id].effect = m[id].effect /\ k[id].task = m[id].task
           /\ k[id].settled = m[id].settled
           /\ m[id].reported \/ id \in ids => k[id].reported
  BY MarkRecord DEF Reported, Records
<1> HIDE DEF k
<1>7. \A effect : ShownOf(e, m, effect) => ShownOf(f, k, effect)
  BY <1>4, <1>6 DEF ShownOf
<1>8. x => ShownOf(f, k, "explore")
  BY <1>4, <1>6 DEF ShownOf, Sound
<1>9. u => ShownOf(f, k, "mutate")
  BY <1>4, <1>6 DEF ShownOf, Sound
<1>10. Sound(f, k)
  BY <1>3, <1>4, <1>6, <1>7, <1>8, <1>9 DEF Sound
<1> QED BY <1>1, <1>4, <1>5, <1>10 DEF k

\* What is not pending any more may be answered.
LEMMA SettledSound ==
  ASSUME NEW e, NEW m, NEW ids, Sound(e, m), Records(m), e.pending \intersect ids = {}
  PROVE  Sound(e, Settled(m, ids))
<1> DEFINE k == Settled(m, ids)
<1>1. /\ DOMAIN k = DOMAIN m
      /\ \A id \in DOMAIN m :
           /\ k[id].effect = m[id].effect /\ k[id].task = m[id].task
           /\ k[id].reported = m[id].reported
           /\ id \notin ids => k[id] = m[id]
  BY MarkRecord DEF Settled, Records
<1> HIDE DEF k
<1>2. \A effect : ShownOf(e, m, effect) => ShownOf(e, k, effect)
  BY <1>1 DEF ShownOf
<1>3. Sound(e, k)
  BY <1>1, <1>2 DEF Sound
<1> QED BY <1>3 DEF k

\* New calls: of the executor's task, with nothing brought and nothing answered.
LEMMA RememberedSound ==
  ASSUME NEW e, NEW m, Memory(e), Sound(e, m), Records(m),
         NEW k, DOMAIN m \subseteq DOMAIN k, DOMAIN k \subseteq Nat,
         \A id \in DOMAIN m : k[id] = m[id],
         NEW effects, DOMAIN effects \subseteq DOMAIN k \ DOMAIN m,
         \A id \in DOMAIN effects :
           k[id].effect = effects[id] /\ k[id].task = e.task /\ ~k[id].settled
  PROVE  LET f == Remembered(e, effects)
         IN  Memory(f) /\ Sound(f, k) /\ f.evidence = e.evidence
<1> DEFINE p == e.pending \union DOMAIN effects
           x == e.exploring \union {id \in DOMAIN effects : "explore" \in effects[id]}
           u == e.mutating \union {id \in DOMAIN effects : "mutate" \in effects[id]}
           f == [e EXCEPT !.pending = p, !.exploring = x, !.mutating = u]
           ids == {id \in f.pending : Cardinality({j \in f.pending : j > id}) >= MaxTracked}
<1>1. Remembered(e, effects) = Consumed(f, ids)
  BY DEF Remembered
<1>2. p \in SUBSET Nat /\ x \in SUBSET Nat /\ u \in SUBSET Nat
  <2>1. e.pending \in SUBSET Nat /\ e.exploring \in SUBSET Nat /\ e.mutating \in SUBSET Nat
    BY DEF Memory
  <2> QED BY <2>1
<1> HIDE DEF p, x, u
<1>3. /\ f \in [history : {e.history}, pending : SUBSET Nat, exploring : SUBSET Nat,
               mutating : SUBSET Nat, task : {e.task}, active : {e.active},
               evidence : [explored : BOOLEAN, mutated : BOOLEAN, used : BOOLEAN]]
      /\ f.history = e.history /\ f.pending = p /\ f.exploring = x
      /\ f.mutating = u /\ f.task = e.task /\ f.active = e.active /\ f.evidence = e.evidence
  BY <1>2 DEF Memory
<1> HIDE DEF f, ids
<1>4. Memory(f)
  BY <1>3 DEF Memory
<1>5. \A effect : ShownOf(e, m, effect) => ShownOf(f, k, effect)
  BY <1>3 DEF ShownOf
<1>6. Sound(f, k)
  <2>1. /\ f.pending = e.pending \union DOMAIN effects
        /\ f.exploring = e.exploring \union {id \in DOMAIN effects : "explore" \in effects[id]}
        /\ f.mutating = e.mutating \union {id \in DOMAIN effects : "mutate" \in effects[id]}
        /\ f.task = e.task /\ f.evidence = e.evidence
    BY <1>3 DEF p, x, u
  <2>2. f.exploring \union f.mutating \subseteq f.pending /\ f.pending \subseteq DOMAIN k
    BY <2>1 DEF Sound
  <2>3. \A id \in f.pending : ~k[id].settled
    BY <2>1 DEF Sound
  <2>4. \A id \in f.exploring : "explore" \in k[id].effect /\ k[id].task = f.task
    BY <2>1 DEF Sound
  <2>5. \A id \in f.mutating : "mutate" \in k[id].effect /\ k[id].task = f.task
    BY <2>1 DEF Sound
  <2>6. /\ f.evidence.explored => ShownOf(f, k, "explore")
        /\ f.evidence.mutated => ShownOf(f, k, "mutate")
    BY <2>1, <1>5 DEF Sound
  <2> QED BY <2>2, <2>3, <2>4, <2>5, <2>6 DEF Sound
<1>7. LET g == Consumed(f, ids) IN Memory(g) /\ Sound(g, k) /\ g.evidence = f.evidence
  BY <1>4, <1>6, ConsumedSound
<1>8. f.evidence = e.evidence
  BY <1>3
<1> QED BY <1>1, <1>7, <1>8

-----------------------------------------------------------------------------
(* execute and reset *)

LEMMA NoCallIs ==
  /\ CallShape(NoCall) /\ NoCall.ids = {} /\ ~NoCall.running /\ ~NoCall.formatted
  /\ NoCall.demand = NoDemand
BY DEF CallShape, NoCall

LEMMA DemandsAreEnabled ==
  /\ ~NoDemand.explore /\ ~NoDemand.mutate
  /\ \A task : LET d == BuildToolEnforcementPlan(task)
               IN  d.explore \/ d.mutate => d.enabled
<1>1. ~NoDemand.explore /\ ~NoDemand.mutate
  BY DEF NoDemand
<1>2. ASSUME NEW task
      PROVE  LET d == BuildToolEnforcementPlan(task) IN d.explore \/ d.mutate => d.enabled
  BY <1>1 DEF BuildToolEnforcementPlan
<1> QED BY <1>1, <1>2

LEMMA Initially == Init => IInv
<1> SUFFICES ASSUME Init PROVE IInv
  OBVIOUS
<1>1. PageInv
  BY BoundsAssumption DEF Init, PageInit, PageInv, PageTypeOK, TurnSound, PagesBounded,
     AnswerIsOfPrompt, FreshPage, NoTurn, Phases
<1>2. executor = FreshExecutor /\ call = NoCall /\ made = <<>> /\ turn.phase = "idle"
  BY DEF Init, PageInit, NoTurn
<1>3. Memory(executor) /\ Sound(executor, made) /\ executor.pending = {}
  BY <1>2, FreshSound
<1>4. CallShape(call) /\ CallSound
  BY <1>2, NoCallIs, DemandsAreEnabled DEF CallSound
<1>5. Records(made)
  <2>1. made \in Seq({}) /\ DOMAIN made = {}
    BY <1>2
  <2> QED BY <2>1 DEF Records
<1> QED BY <1>1, <1>3, <1>4, <1>5 DEF IInv

\* A turn goes on, or the page does: nothing of execute changes.
LEMMA TurnsKeep ==
  IInv /\ PageInv' /\ UNCHANGED <<executor, call, made>> /\ (turn'.phase = "idle" <=> turn.phase = "idle")
  => IInv'
BY DEF IInv, CallSound, Memory, CallShape, Records, IsRecord, Sound, ShownOf

\* The call ends without an answer.
LEMMA EndKeeps ==
  IInv /\ turn' = NoTurn /\ call' = NoCall /\ UNCHANGED <<page, prompts, mishaps, executor, made>>
  => IInv'
<1> SUFFICES ASSUME IInv, turn' = NoTurn, call' = NoCall,
                    UNCHANGED <<page, prompts, mishaps, executor, made>>
             PROVE  IInv'
  OBVIOUS
<1>1. PageInv' /\ turn'.phase = "idle"
  <2>1. mishaps \in 0..MaxMishaps
    BY DEF IInv, PageInv, PageTypeOK
  <2> QED BY <2>1, NoTurnKeeps DEF IInv
<1>2. CallShape(call') /\ CallSound'
  BY <1>1, NoCallIs, DemandsAreEnabled DEF CallSound
<1> QED BY <1>1, <1>2 DEF IInv, Memory, CallShape, Records, Sound, ShownOf

LEMMA TurnKeeps == IInv /\ Turn => IInv'
<1> SUFFICES ASSUME IInv, Turn PROVE IInv'
  OBVIOUS
<1>1. PageInv'
  BY SettleKeeps, NotReadyKeeps, ComposeKeeps, FinalCheckKeeps, ConfirmKeeps, UnconfirmedKeeps,
     ReadKeeps, ReadTimeoutKeeps DEF Turn, IInv
<1>2. turn.phase # "idle" /\ turn'.phase # "idle"
  <2>1. turn \in [phase : Phases, prompt : 0..MaxPrompts, baseline : 0..MaxPrompts,
                  answer : 0..MaxPrompts, taken : 0..2, whole : BOOLEAN,
                  late : BOOLEAN]
    BY DEF IInv, PageInv, PageTypeOK
  <2> QED BY <2>1 DEF Turn, Settle, NotReady, Compose, FinalCheck, Confirm, Unconfirmed, Read, ReadTimeout
<1> QED BY <1>1, <1>2, TurnsKeep DEF Turn, logicVars

LEMMA DisturbancesKeep == IInv /\ (Interrupt \/ Disturb \/ Send \/ Say) => IInv'
<1> SUFFICES ASSUME IInv, Interrupt \/ Disturb \/ Send \/ Say PROVE IInv'
  OBVIOUS
<1>1. PageInv'
  BY AbortKeeps, RerenderKeeps, ReconcileKeeps, DispatchKeeps, GeneratedKeeps
  DEF Interrupt, Disturb, Send, Say, IInv
<1>2. turn'.phase = "idle" <=> turn.phase = "idle"
  <2>1. turn \in [phase : Phases, prompt : 0..MaxPrompts, baseline : 0..MaxPrompts,
                  answer : 0..MaxPrompts, taken : 0..2, whole : BOOLEAN,
                  late : BOOLEAN]
    BY DEF IInv, PageInv, PageTypeOK
  <2>2. CASE Interrupt
    BY <2>1, <2>2 DEF Interrupt, Abort
  <2>3. CASE Reconcile
    <3> DEFINE late == turn.late \/ turn.phase = "dispatch"
    <3>1. turn' = [turn EXCEPT !.late = late]
      BY <2>3 DEF Reconcile
    <3> HIDE DEF late
    <3> QED BY <2>1, <3>1
  <2>5. CASE Rerender \/ Say
    BY <2>5 DEF Rerender, Say, Generated
  <2>4. CASE Send
    <3>1. PICK click \in {"done", "timeout", "error"} : turn'.phase = AfterClick(click)
      BY <2>1, <2>4 DEF Send, Dispatch
    <3> QED BY <2>4, <3>1 DEF AfterClick, Send, Dispatch
  <2> QED BY <2>2, <2>3, <2>4, <2>5 DEF Disturb
<1> QED BY <1>1, <1>2, TurnsKeep DEF Interrupt, Disturb, Send, Say, logicVars

LEMMA RefusalsKeep ==
  ASSUME IInv, ~call.running, NEW r, Refuse(r) \/ RefuseStray(r)
  PROVE  IInv'
<1>1. CASE Refuse(r)
  BY <1>1, TurnsKeep DEF Refuse, pageVars, IInv, PageInv, PageTypeOK, TurnSound, PagesBounded,
     AnswerIsOfPrompt
<1>2. CASE RefuseStray(r)
  <2> DEFINE selected == Selected(executor, r)
             ids == BeforeStray(executor, selected)
             e == Resumed(executor, r.logical)
  <2>1. /\ executor' = Evidenced(e, ids) /\ made' = Reported(made, ids)
        /\ UNCHANGED <<pageVars, call>>
    BY <1>2 DEF RefuseStray, Reported
  <2> HIDE DEF ids, selected
  <2>2. Memory(e) /\ Sound(e, made) /\ e.pending = executor.pending
    BY ResumedSound DEF IInv
  <2> HIDE DEF e
  <2>3. Memory(executor') /\ Sound(executor', made') /\ executor'.pending = executor.pending
    BY <2>1, <2>2, EvidencedSound DEF IInv
  <2>4. Records(made')
    BY <2>1, MarkedRecords DEF IInv
  <2>5. CallSound' /\ CallShape(call')
    BY <2>1, <2>3, NoCallIs DEF IInv, CallSound, pageVars
  <2>6. PageInv'
    BY <2>1 DEF pageVars, IInv, PageInv, PageTypeOK, TurnSound, PagesBounded, AnswerIsOfPrompt
  <2> QED BY <2>3, <2>4, <2>5, <2>6 DEF IInv, Memory, CallShape, Records, Sound, ShownOf
<1> QED BY <1>1, <1>2

LEMMA ResetKeeps == IInv /\ Reset => IInv'
<1> SUFFICES ASSUME IInv, Reset PROVE IInv'
  OBVIOUS
<1>1. /\ executor' = FreshExecutor /\ made' = made /\ call' = call /\ ~call.running
      /\ turn' = turn /\ prompts' = prompts /\ page' \in {page, FreshPage}
  BY DEF Reset
<1>2. mishaps' \in 0..MaxMishaps
  BY BoundsAssumption DEF Reset, Mishap, Fine, IInv, PageInv, PageTypeOK
<1>3. PageInv'
  <2> USE DEF PageInv, PageTypeOK, TurnSound, PagesBounded, AnswerIsOfPrompt
  <2>1. CASE page' = page
    BY <1>1, <1>2, <2>1 DEF IInv
  <2>2. CASE page' = FreshPage
    <3>1. turn.phase = "idle"
      BY <1>1 DEF IInv, CallSound
    <3>2. /\ page' \in [draft : {"empty", "whole", "spoiled"}, lingers : BOOLEAN,
                       busy : 0..MaxPrompts, last : 0..MaxPrompts]
          /\ page'.busy = 0 /\ page'.last = 0
      BY <2>2, BoundsAssumption DEF FreshPage
    <3> QED BY <1>1, <1>2, <3>1, <3>2 DEF IInv
  <2> QED BY <1>1, <2>1, <2>2
<1>4. CallSound' /\ CallShape(call')
  BY <1>1, FreshSound, NoCallIs DEF IInv, CallSound
<1>5. Memory(executor') /\ Sound(executor', made')
  BY <1>1, FreshSound
<1> QED BY <1>1, <1>3, <1>4, <1>5 DEF IInv, Memory, CallShape, Records, Sound, ShownOf

\* Each step of Begin leaves the memory sound.
LEMMA PreparedSound ==
  ASSUME NEW e, NEW m, NEW r, Memory(e), Sound(e, m), Records(m)
  PROVE  LET f == Prepared(e, r)
         IN  /\ Memory(f) /\ Sound(f, Reported(m, Settles(e, Selected(e, r))))
             /\ f.pending = e.pending
<1> DEFINE selected == Selected(e, r)
           ids == Settles(e, selected)
           retasked == IF IsResult(selected) THEN e ELSE Retasked(e, TaskKey(r.logical))
           resumed == IF IsSynthetic(Last(selected)) THEN retasked ELSE Resumed(retasked, r.logical)
<1>1. Prepared(e, r) = Evidenced(resumed, ids)
  BY DEF Prepared
<1>2. Memory(retasked) /\ Sound(retasked, m) /\ retasked.pending = e.pending
  BY RetaskedSound
<1> HIDE DEF retasked
<1>3. Memory(resumed) /\ Sound(resumed, m) /\ resumed.pending = e.pending
  BY <1>2, ResumedSound
<1> HIDE DEF resumed
<1>4. LET f == Evidenced(resumed, ids)
      IN  Memory(f) /\ Sound(f, Reported(m, ids)) /\ f.pending = resumed.pending
  BY <1>3, EvidencedSound
<1> QED BY <1>1, <1>3, <1>4

LEMMA SettlesPending ==
  ASSUME NEW e, NEW selected, Ids(selected) \subseteq e.pending
  PROVE  Settles(e, selected) \subseteq e.pending
BY DEF Settles

LEMMA BeginKeeps ==
  ASSUME IInv, ~call.running, NEW r, Begin(r)
  PROVE  IInv' /\ call'.ids \subseteq executor.pending
<1> DEFINE known == IF ResetsItself(executor, r) THEN FreshExecutor ELSE executor
           selected == Selected(known, r)
           ids == Settles(known, selected)
<1>1. /\ Ids(selected) \subseteq known.pending
      /\ StartTurn /\ executor' = Prepared(known, r) /\ made' = Reported(made, ids)
  BY DEF Begin, Reported
<1> DEFINE logical == r.logical
           told == Range(HistoryHydration(r.logical, selected, known.history # <<>>))
                   \union Range(Spoken(selected))
           tools == ~r.contract
           demand == IF r.contract THEN NoDemand ELSE Demand(executor', r)
           structured == ~r.contract /\ UserTurns(r.logical) # <<>>
                         /\ Last(UserTurns(r.logical)).text = "json"
<1>2. call' = [NoCall EXCEPT !.running = TRUE, !.ids = ids, !.logical = logical,
                             !.told = told, !.tools = tools, !.demand = demand,
                             !.structured = structured]
  BY DEF Begin
<1>11. demand.explore \/ demand.mutate => demand.enabled
  BY DemandsAreEnabled DEF Demand
<1> HIDE DEF logical, told, tools, demand, structured
<1>3. Memory(known) /\ Sound(known, made) /\ known.pending \subseteq executor.pending
  BY FreshSound DEF IInv
<1> HIDE DEF known
<1>4. ids \subseteq known.pending
  BY <1>1, SettlesPending
<1>5. /\ Memory(executor') /\ Sound(executor', made')
      /\ executor'.pending = known.pending
  BY <1>1, <1>3, PreparedSound DEF IInv
<1>6. ids \in SUBSET Nat
  <2>1. known.pending \in SUBSET Nat
    BY <1>3 DEF Memory
  <2> QED BY <1>4, <2>1
<1> HIDE DEF ids, selected
<1>7. /\ CallShape(call') /\ call'.running /\ call'.ids = ids /\ ~call'.formatted
      /\ call'.demand = demand
  <2>1. call' = [running |-> TRUE, ids |-> ids, logical |-> logical, told |-> told, tools |-> tools,
                 demand |-> demand, structured |-> structured, repairs |-> 0, formatted |-> FALSE]
    BY <1>2 DEF NoCall
  <2> QED BY <1>6, <2>1 DEF CallShape
<1>8. PageInv' /\ turn'.phase = "settle"
  BY <1>1, StartTurnKeeps DEF IInv
<1>9. CallSound'
  BY <1>4, <1>5, <1>7, <1>8, <1>11 DEF CallSound
<1>10. Records(made')
  BY <1>1, MarkedRecords DEF IInv
<1> QED BY <1>3, <1>4, <1>5, <1>7, <1>8, <1>9, <1>10 DEF IInv, Memory, CallShape, Records, Sound, ShownOf

LEMMA RepairsKeep ==
  ASSUME IInv, Answered, NEW text, Repair(text) \/ RepairFormat(text)
  PROVE  IInv' /\ call'.ids = call.ids /\ turn'.phase = "settle"
<1>1. /\ StartTurn /\ UNCHANGED <<executor, made>> /\ call.running
  BY DEF Repair, RepairFormat, Answered
<1>2. PageInv' /\ turn'.phase = "settle"
  BY <1>1, StartTurnKeeps DEF IInv
<1>3. CASE Repair(text)
  <2> DEFINE c == call
             n == c.repairs + 1
             k == [c EXCEPT !.repairs = n, !.told = {}]
  <2>1. call' = k
    BY <1>3 DEF Repair
  <2>2. n \in Nat
    BY DEF IInv, CallShape
  <2> HIDE DEF n
  <2>3. /\ k \in [running : BOOLEAN, ids : SUBSET Nat, logical : {c.logical}, told : {{}},
                 tools : {c.tools}, demand : {c.demand}, structured : {c.structured},
                 repairs : Nat, formatted : BOOLEAN]
        /\ k.running = c.running /\ k.ids = c.ids /\ k.logical = c.logical /\ k.told = {}
        /\ k.tools = c.tools /\ k.demand = c.demand /\ k.structured = c.structured
        /\ k.formatted = c.formatted
    BY <2>2 DEF IInv, CallShape
  <2> HIDE DEF k
  <2>4. CallShape(k)
    BY <2>3 DEF CallShape
  <2>5. CallSound'
    BY <1>1, <1>2, <2>1, <2>3 DEF CallSound, IInv
  <2> QED BY <1>1, <1>2, <2>1, <2>3, <2>4, <2>5 DEF IInv, Memory, CallShape, Records, Sound, ShownOf
<1>4. CASE RepairFormat(text)
  <2> DEFINE c == call
             k == [c EXCEPT !.formatted = TRUE, !.told = {}]
  <2>1. call' = k
    BY <1>4 DEF RepairFormat
  <2>2. /\ k \in [running : BOOLEAN, ids : SUBSET Nat, logical : {c.logical}, told : {{}},
                 tools : {c.tools}, demand : {c.demand}, structured : {c.structured},
                 repairs : Nat, formatted : BOOLEAN]
        /\ k.running = c.running /\ k.ids = c.ids /\ k.logical = c.logical /\ k.told = {}
        /\ k.tools = c.tools /\ k.demand = c.demand /\ k.structured = c.structured
        /\ k.formatted = TRUE
    BY DEF IInv, CallShape
  <2> HIDE DEF k
  <2>3. CallShape(k)
    BY <2>2 DEF CallShape
  <2>4. Enforced(call.demand, executor.evidence, <<>>)
    BY <1>4 DEF RepairFormat, Unformatted, Accepted
  <2>5. CallSound'
    BY <1>1, <1>2, <2>1, <2>2, <2>4 DEF CallSound, IInv
  <2> QED BY <1>1, <1>2, <2>1, <2>2, <2>3, <2>5 DEF IInv, Memory, CallShape, Records, Sound, ShownOf
<1> QED BY <1>3, <1>4

\* The history is not part of what the memory says of calls.
LEMMA HistorySound ==
  ASSUME NEW e, NEW m, NEW h, Memory(e), Sound(e, m)
  PROVE  LET f == [e EXCEPT !.history = h]
         IN  Memory(f) /\ Sound(f, m) /\ f.evidence = e.evidence
<1> DEFINE f == [e EXCEPT !.history = h]
<1>1. /\ f \in [history : {h}, pending : SUBSET Nat, exploring : SUBSET Nat,
               mutating : SUBSET Nat, task : {e.task}, active : {e.active},
               evidence : [explored : BOOLEAN, mutated : BOOLEAN, used : BOOLEAN]]
      /\ f.history = h /\ f.pending = e.pending /\ f.exploring = e.exploring
      /\ f.mutating = e.mutating /\ f.task = e.task /\ f.active = e.active
      /\ f.evidence = e.evidence
  BY DEF Memory
<1> HIDE DEF f
<1>2. Memory(f)
  BY <1>1 DEF Memory
<1>3. Sound(f, m)
  BY <1>1 DEF Sound, ShownOf
<1> QED BY <1>1, <1>2, <1>3 DEF f

\* The calls an answer returns, and the record made of each
Given(text) == IF call.formatted THEN <<>> ELSE Parsed(text).calls

LEMMA GivenSeq == ASSUME NEW text \in Answers PROVE Given(text) \in Seq(Calls)
<1>1. Parsed(text).calls \in Seq(Calls)
  BY AnswersAssumption DEF Parsed, Text
<1> QED BY <1>1 DEF Given

\* A call of an answer as it is kept.
Kept(c) == [effect |-> Effect[c.tool], task |-> executor.task, reported |-> FALSE, settled |-> FALSE]

LEMMA KeptFields ==
  \A c : Kept(c).effect = Effect[c.tool] /\ Kept(c).task = executor.task /\ ~Kept(c).settled
BY DEF Kept

\* Complete adds one record per call, and only marks the ones there were.
LEMMA CompleteMakes ==
  ASSUME IInv, NEW text \in Answers, Complete(text)
  PROVE  LET calls == Given(text)
             new == {Len(made) + i : i \in DOMAIN calls}
         IN  /\ Len(made) \in Nat /\ DOMAIN made = 1..Len(made) /\ DOMAIN calls \subseteq Nat \ {0}
             /\ Records(made') /\ DOMAIN made' = DOMAIN made \union new
             /\ \A id \in DOMAIN made : made'[id] = Settled(made, call.ids)[id]
             /\ \A id \in new : made'[id] = Kept(calls[id - Len(made)])
<1> DEFINE calls == Given(text)
           m == Settled(made, call.ids)
           n == Len(made)
           more == [i \in DOMAIN calls |-> Kept(calls[i])]
           new == {n + i : i \in DOMAIN calls}
<1>1. made' = m \o more
  BY DEF Complete, Given, Kept, Settled
<1>2. calls \in Seq(Calls)
  BY GivenSeq
<1> HIDE DEF calls
<1>3. PICK S : made \in Seq(S)
  BY DEF IInv, Records
<1>4. Records(m) /\ DOMAIN m = DOMAIN made /\ Len(m) = Len(made)
  BY MarkedRecords DEF IInv
<1>5. PICK T : m \in Seq(T)
  BY <1>4 DEF Records
<1> HIDE DEF m
<1>6. DOMAIN calls = 1..Len(calls) /\ Len(calls) \in Nat /\ DOMAIN made = 1..n /\ n \in Nat
  BY <1>2, <1>3
<1> DEFINE K == {Kept(calls[i]) : i \in DOMAIN calls}
<1>7. more \in Seq(K) /\ Len(more) = Len(calls) /\ \A i \in DOMAIN calls : more[i] = Kept(calls[i])
  <2>1. more \in [1..Len(calls) -> K]
    BY <1>6
  <2> QED BY <1>6, <2>1
<1> HIDE DEF more, K
<1>8. /\ made' \in Seq(T \union K) /\ Len(made') = n + Len(calls)
      /\ \A i \in 1..n + Len(calls) : made'[i] = IF i <= n THEN m[i] ELSE more[i - n]
  <2> DEFINE U == T \union K
  <2>1. m \in Seq(U) /\ more \in Seq(U)
    BY <1>5, <1>7
  <2> HIDE DEF U
  <2>2. (m \o more) \in Seq(U) /\ Len(m \o more) = Len(m) + Len(more)
    BY <2>1
  <2>3. \A i \in 1..Len(m) + Len(more) :
          (m \o more)[i] = IF i <= Len(m) THEN m[i] ELSE more[i - Len(m)]
    BY <2>1
  <2> QED BY <1>1, <1>4, <1>7, <2>2, <2>3 DEF U
<1> DEFINE L == Len(calls)
<1>9. /\ DOMAIN made' = 1..n + L
      /\ \A i \in 1..n : made'[i] = m[i]
      /\ \A i \in DOMAIN calls : made'[n + i] = Kept(calls[i])
  <2>1. DOMAIN made' = 1..n + L
    BY <1>8
  <2>2. \A i \in 1..n : made'[i] = m[i]
    BY <1>6, <1>8
  <2>3. ASSUME NEW i \in DOMAIN calls PROVE made'[n + i] = Kept(calls[i])
    <3>1. i \in 1..L /\ n + i \in 1..n + L /\ ~(n + i <= n) /\ (n + i) - n = i
      BY <1>6
    <3>2. made'[n + i] = more[i]
      BY <1>8, <3>1
    <3> QED BY <1>7, <3>2
  <2> QED BY <2>1, <2>2, <2>3
<1>10. DOMAIN made' = DOMAIN made \union new
  <2>1. ASSUME NEW x \in 1..n + L PROVE x \in 1..n \/ x \in new
    <3>1. CASE x > n
      <4>1. x - n \in 1..L /\ x = n + (x - n)
        BY <1>6, <3>1
      <4> QED BY <1>6, <4>1
    <3> QED BY <1>6, <3>1
  <2>2. ASSUME NEW i \in DOMAIN calls PROVE n + i \in 1..n + L
    BY <1>6
  <2>3. 1..n \subseteq 1..n + L
    BY <1>6
  <2> QED BY <1>6, <1>9, <2>1, <2>2, <2>3
<1>11. \A id \in new : made'[id] = Kept(calls[id - n])
  <2>1. ASSUME NEW i \in DOMAIN calls PROVE made'[n + i] = Kept(calls[(n + i) - n])
    <3>1. (n + i) - n = i
      BY <1>6
    <3> QED BY <1>9, <3>1
  <2> QED BY <2>1
<1>12. Records(made')
  <2>1. ASSUME NEW c PROVE IsRecord(Kept(c))
    BY DEF IsRecord, Kept
  <2>2. \A id \in DOMAIN made : IsRecord(made'[id])
    BY <1>4, <1>6, <1>9 DEF Records
  <2>3. \A id \in new : IsRecord(made'[id])
    BY <1>11, <2>1
  <2> QED BY <1>8, <1>10, <2>2, <2>3 DEF Records
<1>13. DOMAIN calls \subseteq Nat \ {0}
  BY <1>6
<1> QED BY <1>6, <1>9, <1>10, <1>11, <1>12, <1>13 DEF m, calls

\* What was brought is consumed and marked, the new calls are remembered, and the
\* history with the answer is stored.
LEMMA CompleteKeeps ==
  ASSUME IInv, NEW text \in Answers, Complete(text)
  PROVE  IInv'
<1> DEFINE calls == Given(text)
           new == {Len(made) + i : i \in DOMAIN calls}
           effects == [id \in new |-> Effect[calls[id - Len(made)].tool]]
           m == Settled(made, call.ids)
           e == Consumed(executor, call.ids)
           f == Remembered(e, effects)
           h == StoreHistory(f.history, call.logical, Raw(turn.prompt))
<1>1. /\ Len(made) \in Nat /\ DOMAIN made = 1..Len(made) /\ DOMAIN calls \subseteq Nat \ {0}
      /\ Records(made') /\ DOMAIN made' = DOMAIN made \union new
      /\ \A id \in DOMAIN made : made'[id] = m[id]
      /\ \A id \in new : made'[id] = Kept(calls[id - Len(made)])
  BY CompleteMakes
<1>2. executor' = [f EXCEPT !.history = h]
  BY DEF Complete, Remember, Given
<1>3. call' = NoCall /\ turn' = NoTurn /\ UNCHANGED <<page, prompts>>
  BY DEF Complete
<1>4. mishaps' \in 0..MaxMishaps
  <2>1. Fine \/ Mishap
    BY DEF Complete
  <2> QED BY <2>1, BoundsAssumption DEF Mishap, Fine, IInv, PageInv, PageTypeOK
<1> HIDE DEF calls
<1>5. /\ Memory(e) /\ Sound(e, made) /\ e.pending \intersect call.ids = {}
      /\ e.task = executor.task
  <2>1. /\ Memory(e) /\ Sound(e, made) /\ e.pending = executor.pending \ call.ids
        /\ e.task = executor.task
    <3> DEFINE ids == call.ids
               memory == executor
               recorded == made
    <3>1. Memory(memory) /\ Sound(memory, recorded)
      BY DEF IInv
    <3> HIDE DEF ids, memory, recorded
    <3>2. LET g == Consumed(memory, ids)
          IN  /\ Memory(g) /\ Sound(g, recorded) /\ g.pending = memory.pending \ ids
              /\ g.task = memory.task
      BY <3>1, ConsumedSound
    <3> QED BY <3>2 DEF ids, memory, recorded
  <2> HIDE DEF e
  <2> QED BY <2>1
<1> HIDE DEF e
<1>6. Sound(e, m) /\ Records(m) /\ DOMAIN m = DOMAIN made
  BY <1>5, SettledSound, MarkedRecords DEF IInv
<1> HIDE DEF m
<1>7. new \intersect DOMAIN made = {}
  BY <1>1
<1>8. \A id \in new : /\ made'[id].effect = effects[id]
                       /\ made'[id].task = executor.task /\ ~made'[id].settled
  BY <1>1, KeptFields
<1>9. DOMAIN effects = new /\ DOMAIN made' \subseteq Nat
  BY <1>1
<1> HIDE DEF effects, new
<1>10. Memory(f) /\ Sound(f, made')
  <2> DEFINE k == made'
  <2>1. DOMAIN m \subseteq DOMAIN k /\ DOMAIN k \subseteq Nat
    BY <1>1, <1>6, <1>9
  <2>2. \A id \in DOMAIN m : k[id] = m[id]
    BY <1>1, <1>6
  <2>3. DOMAIN effects \subseteq DOMAIN k \ DOMAIN m
    BY <1>1, <1>6, <1>7, <1>9
  <2>4. \A id \in DOMAIN effects :
           k[id].effect = effects[id] /\ k[id].task = e.task /\ ~k[id].settled
    BY <1>5, <1>8, <1>9
  <2> HIDE DEF k
  <2>5. Memory(f) /\ Sound(f, k)
    BY <1>5, <1>6, <2>1, <2>2, <2>3, <2>4, RememberedSound
  <2> QED BY <2>5 DEF k
<1> HIDE DEF f
<1>11. Memory(executor') /\ Sound(executor', made')
  BY <1>2, <1>10, HistorySound
<1>12. PageInv' /\ turn'.phase = "idle"
  BY <1>3, <1>4, NoTurnKeeps DEF IInv
<1>13. CallSound' /\ CallShape(call')
  BY <1>3, <1>12, NoCallIs, DemandsAreEnabled DEF CallSound
<1> QED BY <1>1, <1>11, <1>12, <1>13 DEF IInv, Memory, CallShape, Records, Sound, ShownOf

LEMMA JudgeKeeps == IInv /\ Judge => IInv'
<1> SUFFICES ASSUME IInv, Judge PROVE IInv'
  OBVIOUS
<1>1. PICK text \in Answers :
        Repair(text) \/ RepairFormat(text) \/ GiveUp(text) \/ Complete(text)
  BY DEF Judge
<1>2. CASE Repair(text) \/ RepairFormat(text)
  BY <1>2, RepairsKeep DEF Judge
<1>3. CASE GiveUp(text)
  BY <1>3, EndKeeps DEF GiveUp
<1>4. CASE Complete(text)
  BY <1>4, CompleteKeeps
<1> QED BY <1>1, <1>2, <1>3, <1>4

LEMMA ExecuteKeeps == IInv /\ Execute => IInv'
<1> SUFFICES ASSUME IInv, Execute PROVE IInv'
  OBVIOUS
<1>1. PICK r : Refuse(r) \/ RefuseStray(r) \/ Begin(r)
  BY DEF Execute
<1>2. ~call.running
  BY DEF Execute
<1> QED BY <1>1, <1>2, RefusalsKeep, BeginKeeps

LEMMA Inductive == IInv /\ [Next]_vars => IInv'
<1> SUFFICES ASSUME IInv, [Next]_vars PROVE IInv'
  OBVIOUS
<1>1. CASE UNCHANGED vars
  BY <1>1, TurnsKeep DEF vars, pageVars, logicVars, IInv, PageInv, PageTypeOK, TurnSound,
     PagesBounded, AnswerIsOfPrompt
<1>2. CASE Fail
  BY <1>2, EndKeeps DEF Fail
<1> QED BY <1>1, <1>2, ExecuteKeeps, TurnKeeps, DisturbancesKeep, JudgeKeeps, ResetKeeps DEF Next

LEMMA Always == Spec => []IInv
BY Initially, Inductive, PTL DEF Spec

\* What is read is the answer of the prompt that was sent (waitForUiIdle,
\* captureResponseBaseline and awaitResponse), for any page, prompts and mishaps.
THEOREM AnswersAreOfPrompts == Spec => []AnswerIsOfPrompt
<1>1. IInv => AnswerIsOfPrompt
  BY DEF IInv, PageInv
<1> QED BY <1>1, Always, PTL

\* No prompt is taken twice, whatever its click reported, and none otherwise than as it was
\* written unless the editor changed it after the last look at it, which sendUiPrompt does
\* not see (sendUiPrompt).
THEOREM PromptsAreSentOnce == Spec => []SentOnceAndWhole
<1>1. IInv => SentOnceAndWhole
  BY DEF IInv, PageInv, TurnSound, SentOnceAndWhole
<1> QED BY <1>1, Always, PTL

\* A result that has been answered is never sent again (consumeToolCall).
THEOREM SettledStaySettled == Spec => SettledCallsStaySettled
<1>1. ASSUME IInv, [Next]_vars, ~call.running, NEW id \in call'.ids PROVE ~made[id].settled
  <2>1. call'.ids \subseteq executor.pending
    <3>1. call.ids = {}
      BY <1>1, NoCallIs DEF IInv, CallSound
    <3>2. NoCall.ids = {}
      BY NoCallIs
    <3>3. ASSUME NEW r, Begin(r) PROVE call'.ids \subseteq executor.pending
      BY <1>1, <3>3, BeginKeeps
    <3>4. ASSUME Judge PROVE FALSE
      BY <1>1, <3>4 DEF Judge, Answered
    <3>5. ASSUME Execute PROVE call'.ids \subseteq executor.pending
      BY <3>1, <3>3, <3>5 DEF Execute, Refuse, RefuseStray
    <3>6. ASSUME Fail \/ Reset \/ Turn \/ Send \/ Interrupt \/ Say \/ Disturb \/ UNCHANGED vars
          PROVE  call' \in {call, NoCall}
      BY <3>6 DEF Fail, Reset, Turn, Send, Interrupt, Say, Disturb, logicVars, vars
    <3> QED BY <1>1, <3>1, <3>2, <3>4, <3>5, <3>6 DEF Next
  <2> QED BY <1>1, <2>1 DEF IInv, Sound
<1>2. IInv /\ [Next]_vars =>
        [~call.running => \A id \in call'.ids : ~made[id].settled]_vars
  BY <1>1
<1> QED BY <1>2, Always, PTL DEF Spec, SettledCallsStaySettled

\* What a task must show it has shown, by the results of its own calls, before a call
\* that changes something or a final answer is returned (enforceToolResponse and the
\* evidence it is given).
THEOREM WorkShowsEvidence == Spec => WorkIsEvidenced
<1> DEFINE new == DOMAIN made' \ DOMAIN made
           answers == Answered /\ turn'.phase = "idle" /\ executor' # executor
           Fair == /\ call.demand.explore /\ (\E id \in new : "mutate" \in made'[id].effect)
                        => Shown("explore")
                   /\ answers /\ call.demand.mutate /\ new = {} => Shown("mutate")
<1>1. ASSUME IInv, NEW text \in Answers, Complete(text) PROVE Fair
  <2> DEFINE calls == Given(text)
             ids == {Len(made) + i : i \in DOMAIN calls}
  <2>1. /\ Len(made) \in Nat /\ DOMAIN made = 1..Len(made) /\ DOMAIN calls \subseteq Nat \ {0}
        /\ DOMAIN made' = DOMAIN made \union ids
        /\ \A id \in ids : made'[id] = Kept(calls[id - Len(made)])
    BY <1>1, CompleteMakes
  <2>2. Enforced(call.demand, executor.evidence, calls)
    <3>1. CASE call.formatted
      BY <1>1, <3>1 DEF Given, IInv, CallSound
    <3>2. CASE ~call.formatted
      BY <1>1, <3>2 DEF Given, Complete, Accepted
    <3> QED BY <3>1, <3>2
  <2> HIDE DEF calls
  <2>3. call.demand.explore \/ call.demand.mutate => call.demand.enabled
    BY <1>1 DEF IInv, CallSound
  <2>4. /\ executor.evidence.explored => Shown("explore")
        /\ executor.evidence.mutated => Shown("mutate")
    BY <1>1 DEF IInv, Sound, ShownOf, Shown
  <2>5. ASSUME call.demand.explore, NEW id \in new, "mutate" \in made'[id].effect
        PROVE  Shown("explore")
    <3>1. id \in ids
      BY <2>1, <2>5
    <3>2. PICK i \in DOMAIN calls : id = Len(made) + i
      BY <3>1
    <3>3. id - Len(made) = i
      BY <2>1, <3>2
    <3>4. "mutate" \in Effect[calls[i].tool]
      BY <2>1, <2>5, <3>1, <3>3, KeptFields
    <3>5. Has(calls, "mutate")
      BY <3>4 DEF Has
    <3> QED BY <2>2, <2>3, <2>4, <2>5, <3>5 DEF Enforced
  <2>6. ASSUME call.demand.mutate, new = {} PROVE Shown("mutate")
    <3>1. calls = <<>>
      <4>1. DOMAIN calls = {}
        <5>1. ASSUME NEW i \in DOMAIN calls PROVE FALSE
          <6>1. Len(made) + i \in ids /\ Len(made) + i \notin DOMAIN made
            BY <2>1
          <6> QED BY <2>1, <2>6, <6>1
        <5> QED BY <5>1
      <4>2. calls \in Seq(Calls)
        BY <1>1, GivenSeq DEF calls
      <4> QED BY <4>1, <4>2
    <3> QED BY <2>2, <2>3, <2>4, <2>6, <3>1 DEF Enforced, Has
  <2> QED BY <2>5, <2>6
<1>2. ASSUME made' = made, ~answers PROVE Fair
  BY <1>2
<1>3. ASSUME NEW m, NEW ids PROVE DOMAIN Reported(m, ids) = DOMAIN m
  BY DEF Reported
<1>4. ASSUME DOMAIN made' = DOMAIN made, ~answers PROVE Fair
  BY <1>4
<1>5. ASSUME IInv, [Next]_vars PROVE Fair \/ UNCHANGED vars
  <2>1. CASE Execute
    <3>1. DOMAIN made' = DOMAIN made
      BY <2>1 DEF Execute, Refuse, RefuseStray, Begin
    <3>2. ~answers
      BY <2>1 DEF Execute, Answered
    <3> QED BY <1>4, <3>1, <3>2
  <2>2. CASE Judge
    <3>1. PICK text \in Answers :
            Repair(text) \/ RepairFormat(text) \/ GiveUp(text) \/ Complete(text)
      BY <2>2 DEF Judge
    <3>2. CASE Complete(text)
      BY <1>1, <1>5, <3>2
    <3>3. CASE Repair(text) \/ RepairFormat(text) \/ GiveUp(text)
      <4>1. made' = made /\ executor' = executor
        BY <3>3 DEF Repair, RepairFormat, GiveUp
      <4> QED BY <1>4, <4>1
    <3> QED BY <3>1, <3>2, <3>3
  <2>3. CASE Fail \/ Turn \/ Send \/ Interrupt \/ Say \/ Disturb
    <3>1. made' = made /\ executor' = executor
      BY <2>3 DEF Fail, Turn, Send, Interrupt, Say, Disturb, logicVars
    <3> QED BY <1>4, <3>1
  <2>4. CASE Reset
    <3>1. made' = made /\ ~answers
      BY <2>4 DEF Reset, Answered
    <3> QED BY <1>4, <3>1
  <2> QED BY <1>5, <2>1, <2>2, <2>3, <2>4 DEF Next
<1>6. IInv /\ [Next]_vars => [Fair]_vars
  BY <1>5
<1> QED BY <1>6, Always, PTL DEF Spec, WorkIsEvidenced

-----------------------------------------------------------------------------
(* Parts of histories *)

\* A set of naturals that holds 0 and the next of each of its members holds all.
LEMMA AllNaturals ==
  ASSUME NEW N, 0 \in N, \A m \in Nat : m \in N => m + 1 \in N
  PROVE  Nat \subseteq N
<1> SUFFICES ASSUME NEW T, T = Nat \ N, T # {} PROVE FALSE
  OBVIOUS
<1> DEFINE less == OpToRel(<, Nat)
<1>1. IsWellFoundedOn(less, Nat)
  BY NatLessThanWellFounded
<1>2. \A x, y \in Nat : <<x, y>> \in less <=> x < y
  BY DEF OpToRel
<1> HIDE DEF less
<1>3. PICK x \in T : \A y \in T : <<y, x>> \notin less
  BY <1>1, WFMin
<1>4. x # 0 /\ x \in Nat
  OBVIOUS
<1>5. x - 1 \in Nat /\ x - 1 < x
  BY <1>4
<1>6. x - 1 \in N
  BY <1>2, <1>3, <1>4, <1>5
<1>7. (x - 1) + 1 = x
  BY <1>4
<1> QED BY <1>5, <1>6, <1>7

\* A set of places that is not empty has a first and a last.
LEMMA PlacesEnd ==
  ASSUME NEW n \in Nat, NEW P \in SUBSET (1..n), P # {}
  PROVE  /\ Max(P) \in P /\ \A i \in P : i <= Max(P)
         /\ Min(P) \in P /\ \A i \in P : Min(P) <= i
<1> DEFINE Ends(Q) == (\E x \in Q : \A y \in Q : x >= y) /\ (\E x \in Q : \A y \in Q : x =< y)
           N == {k \in Nat : \A Q \in SUBSET (1..k) : Q # {} => Ends(Q)}
<1>1. 0 \in N
  <2>1. 1..0 = {}
    OBVIOUS
  <2> QED BY <2>1
<1>2. ASSUME NEW k \in Nat, k \in N PROVE k + 1 \in N
  <2> SUFFICES ASSUME NEW Q \in SUBSET (1..k + 1), Q # {} PROVE Ends(Q)
    OBVIOUS
  <2> DEFINE R == Q \intersect (1..k)
  <2>1. R \in SUBSET (1..k) /\ \A y \in Q : y = k + 1 \/ y \in R
    OBVIOUS
  <2>2. CASE R = {}
    <3>1. k + 1 \in Q /\ \A y \in Q : y = k + 1
      BY <2>1, <2>2
    <3>2. \A y \in Q : k + 1 >= y /\ k + 1 =< y
      BY <3>1
    <3> QED BY <3>1, <3>2
  <2>3. CASE R # {}
    <3>1. Ends(R)
      BY <1>2, <2>1, <2>3
    <3>2. PICK a \in R : \A y \in R : a >= y
      BY <3>1
    <3>3. PICK b \in R : \A y \in R : b =< y
      BY <3>1
    <3>4. b \in Q /\ \A y \in Q : b =< y
      BY <2>1, <3>3
    <3>5. \E x \in Q : \A y \in Q : x >= y
      <4>1. CASE k + 1 \in Q
        BY <2>1, <4>1
      <4>2. CASE k + 1 \notin Q
        BY <2>1, <3>2, <4>2
      <4> QED BY <4>1, <4>2
    <3> QED BY <3>4, <3>5
  <2> QED BY <2>2, <2>3
<1> HIDE DEF N
<1>3. n \in N
  BY <1>1, <1>2, AllNaturals
<1>4. Ends(P)
  BY <1>3 DEF N
<1>5. Max(P) \in P /\ \A y \in P : Max(P) >= y
  BY <1>4, Zenon DEF Max
<1>6. Min(P) \in P /\ \A y \in P : Min(P) =< y
  BY <1>4, Zenon DEF Min
<1> QED BY <1>5, <1>6

\* What is left of a sequence from a place on, and what is before it.
LEMMA Ending ==
  ASSUME NEW S, NEW m \in Seq(S), NEW d \in 0..Len(m)
  PROVE  LET p == SubSeq(m, d + 1, Len(m))
         IN  p \in Seq(S) /\ Len(p) = Len(m) - d /\ \A i \in 1..Len(m) - d : p[i] = m[d + i]
<1>1. Len(m) \in Nat /\ d \in Nat /\ d <= Len(m) /\ d + 1 \in Nat
  BY LenProperties
<1>2. \A i \in d + 1..Len(m) : m[i] \in S
  BY <1>1, ElementOfSeq
<1> QED BY <1>1, <1>2, SubSeqProperties

LEMMA Beginning ==
  ASSUME NEW S, NEW m \in Seq(S), NEW d \in 0..Len(m)
  PROVE  LET p == SubSeq(m, 1, d)
         IN  p \in Seq(S) /\ Len(p) = d /\ \A i \in 1..d : p[i] = m[i]
<1>1. Len(m) \in Nat /\ d \in Nat /\ d <= Len(m)
  BY LenProperties
<1>2. \A i \in 1..d : m[i] \in S
  BY <1>1, ElementOfSeq
<1> QED BY <1>1, <1>2, SubSeqProperties

LEMMA PrefixBegins ==
  ASSUME NEW S, NEW s \in Seq(S), NEW t \in Seq(S), IsPrefix(s, t)
  PROVE  Len(s) <= Len(t) /\ \A i \in 1..Len(s) : s[i] = t[i]
<1>1. Len(s) <= Len(t) /\ SubSeq(s, 1, Len(s)) = SubSeq(t, 1, Len(s))
  BY Zenon DEF IsPrefix
<1>2. Len(s) \in Nat /\ Len(t) \in Nat
  BY LenProperties
<1>3. Len(s) \in 0..Len(s) /\ Len(s) \in 0..Len(t)
  BY <1>1, <1>2
<1>4. \A i \in 1..Len(s) : SubSeq(s, 1, Len(s))[i] = s[i]
  BY <1>3, Beginning
<1>5. \A i \in 1..Len(s) : SubSeq(t, 1, Len(s))[i] = t[i]
  BY <1>3, Beginning
<1> QED BY <1>1, <1>4, <1>5

\* The last message that is of a kind
LEMMA LastIs ==
  ASSUME NEW n \in Nat, NEW P \in SUBSET (1..n)
  PROVE  LET d == IF P # {} THEN Max(P) ELSE 0
         IN  d \in 0..n /\ (d # 0 => d \in P) /\ \A i \in d + 1..n : i \notin P
<1>1. CASE P = {}
  BY <1>1
<1>2. CASE P # {}
  <2> DEFINE d == Max(P)
  <2>1. d \in P /\ \A i \in P : i <= d
    BY <1>2, PlacesEnd
  <2> HIDE DEF d
  <2>2. d \in 0..n /\ \A i \in d + 1..n : i \notin P
    <3>1. d \in 1..n
      BY <2>1
    <3>2. ASSUME NEW i \in d + 1..n, i \in P PROVE FALSE
      BY <2>1, <3>1, <3>2
    <3> QED BY <3>1, <3>2
  <2> QED BY <1>2, <2>1, <2>2 DEF d
<1> QED BY <1>1, <1>2

LEMMA LastAssistantIs ==
  ASSUME NEW S, NEW m \in Seq(S)
  PROVE  LET d == LastAssistant(m)
         IN  /\ d \in 0..Len(m)
             /\ d # 0 => m[d].role = "assistant"
             /\ \A i \in d + 1..Len(m) : m[i].role # "assistant"
<1> DEFINE P == {i \in 1..Len(m) : m[i].role = "assistant"}
           d == IF P # {} THEN Max(P) ELSE 0
<1>1. LastAssistant(m) = d
  BY Zenon DEF LastAssistant, SelectLastInSeq
<1>2. Len(m) \in Nat
  BY LenProperties
<1>3. d \in 0..Len(m) /\ (d # 0 => d \in P) /\ \A i \in d + 1..Len(m) : i \notin P
  BY <1>2, LastIs
<1> HIDE DEF d
<1> QED BY <1>1, <1>2, <1>3

-----------------------------------------------------------------------------
(* What the chat has been told *)

Roles == {"user", "tool", "assistant", "system"}
Words == Asks \union {"result", "host", "contract", "control", "raw", "remade"}
Messages == [role : Roles, text : Words, n : Nat]

\* A history that goes on from t: its part from t, and then what is new, a turn of the
\* user or the results of the answer before them.
GoesOnFrom(m, t) ==
  \E k \in 0..Len(m) :
    /\ \A i \in 1..k : m[i] \in Range(t)
    /\ \/ k = Len(m) - 1 /\ m[Len(m)].role = "user" /\ WithoutTurnData(m[Len(m)]) = m[Len(m)]
       \/ k # 0 /\ k < Len(m) /\ m[k].role = "assistant" /\ \A i \in k + 1..Len(m) : m[i].role = "tool"

\* A request goes on from the transcript t, or is a repair of an answer in a history that
\* the chat has been told.
Fits(r, t, told) ==
  /\ r.logical \in Seq(Messages) /\ r.incoming \in Seq(Messages)
  /\ \/ GoesOnFrom(r.logical, t) /\ r.incoming = r.logical
     \/ /\ r.logical # <<>> /\ \E a \in Asks : r.logical[Len(r.logical)] = User(a)
        /\ \A i \in 1..Len(r.logical) - 1 : r.logical[i] \in Range(t)
        /\ r.incoming = WithTurnData(r.logical)
     \/ r.incoming = <<System, Control>> /\ told

\* The history of a request is typed, or told already, when the chat has one.
Tells(e, c) == e.history # <<>> /\ ~(c.strayed /\ chat.epoch > 0)

\* What the chat was told, what an editor took out of a prompt too
Heard == chat.known \union chat.lost
Known(messages) == Range(messages) \subseteq Heard

\* Heard is only expanded where the chat is told something.
LEMMA HeardStays == chat' = chat => Heard' = Heard
BY DEF Heard

\* The client; and what its transcript, its calls and its request have to do with each
\* other.
ClientIs(c) ==
  c \in [style : {c.style}, transcript : {c.transcript}, open : {c.open},
         request : {c.request}, served : BOOLEAN, asked : {c.asked}, resets : {c.resets},
         repair : BOOLEAN, strayed : BOOLEAN]

ClientShape ==
  /\ client.transcript \in Seq(Messages) /\ client.request.logical \in Seq(Messages)
  /\ client.open \in Seq(Nat)
  /\ client.open # <<>> => client.transcript # <<>>
  /\ client.transcript # <<>> => client.transcript[Len(client.transcript)].role = "assistant"
  /\ call.running => ~client.served /\ ~client.repair /\ client.request.logical = call.logical
  /\ client.repair => ~client.served
  /\ ~client.served => Fits(client.request, client.transcript,
                            Tells(executor, client) => Known(client.request.logical))

\* Until the chat is left it knows the transcript, and after that again once it has been
\* told the history with a prompt.
TranscriptIsKnown ==
  /\ chat \in [epoch : Nat, known : {chat.known}, lost : {chat.lost}]
  /\ chat.epoch = 0 => Known(client.transcript)
  /\ executor.history \in Seq(Messages)
  /\ Tells(executor, client) =>
       /\ Known(client.transcript) /\ Known(executor.history)
       /\ client.repair => Known(client.request.logical)

\* What a request says is known, or goes out with its prompt.
CallIsTold ==
  /\ call.running => call.logical \in Seq(Messages)
  /\ call.running /\ ~(client.strayed /\ chat.epoch > 0) =>
       Range(call.logical) \subseteq
         Heard \union (IF turn.taken = 0 THEN call.told ELSE {})

\* An answer that was read is of a prompt that was taken, and what the model said is known.
AnswerIsKnown ==
  /\ turn.phase \in {"confirm", "read"} /\ turn.taken = 0 =>
       page.busy = 0 /\ page.last = turn.baseline
  /\ turn.phase = "answered" => turn.taken # 0
  /\ turn.phase = "answered" \/ (turn.phase # "idle" /\ page.last = turn.prompt) =>
       {Raw(turn.prompt), Remade(turn.prompt)} \subseteq Heard

ContextInv ==
  /\ ClientIs(client)
  /\ client.style # "bare" => ClientShape /\ TranscriptIsKnown /\ CallIsTold /\ AnswerIsKnown

\* What is new of m to a chat with the history h: from a place on.
From(h, m, d) ==
  \/ d = Len(h) /\ \A i \in 1..d : m[i] = h[i]
  \/ d # 0 /\ m[d].role = "assistant"
  \/ m[Len(m)].role = "assistant" \/ \A i \in 1..Len(m) : m[i].role # "assistant"

LEMMA PendingIs ==
  ASSUME NEW h \in Seq(Messages), NEW m \in Seq(Messages), h # <<>>, m # <<>>
  PROVE  \E d \in 0..Len(m) :
           PendingMessages(h, m) = SubSeq(m, d + 1, Len(m)) /\ From(h, m, d)
<1>1. Len(m) \in Nat \ {0} /\ Len(h) \in Nat \ {0}
  BY EmptySeq
<1> DEFINE a == LastAssistant(m)
<1>2. /\ a \in 0..Len(m)
      /\ a # 0 => m[a].role = "assistant"
      /\ \A i \in a + 1..Len(m) : m[i].role # "assistant"
  BY LastAssistantIs
<1> HIDE DEF a
<1>3. CASE IsPrefix(h, m)
  <2>1. Len(h) <= Len(m) /\ \A i \in 1..Len(h) : h[i] = m[i]
    BY <1>3, PrefixBegins
  <2>2. PendingMessages(h, m) = SubSeq(m, Len(h) + 1, Len(m))
    BY <1>3, Zenon DEF PendingMessages, HistoryIsPrefix
  <2>3. From(h, m, Len(h)) /\ Len(h) \in 0..Len(m)
    BY <1>1, <2>1 DEF From
  <2> QED BY <2>2, <2>3
<1>4. CASE ~IsPrefix(h, m) /\ a \in 1..Len(m) - 1
  <2>1. PendingMessages(h, m) = SubSeq(m, a + 1, Len(m))
    BY <1>4, Zenon DEF PendingMessages, HistoryIsPrefix, a
  <2>2. From(h, m, a) /\ a \in 0..Len(m)
    BY <1>1, <1>2, <1>4 DEF From
  <2> QED BY <2>1, <2>2
<1>5. CASE ~IsPrefix(h, m) /\ a \notin 1..Len(m) - 1
  <2>1. PendingMessages(h, m) = <<m[Len(m)]>>
    BY <1>5, Zenon DEF PendingMessages, HistoryIsPrefix, a, Last
  <2> DEFINE d == Len(m) - 1
             p == SubSeq(m, d + 1, Len(m))
  <2>2. d \in 0..Len(m) /\ Len(m) - d = 1 /\ d + 1 = Len(m)
    BY <1>1
  <2>3. p \in Seq(Messages) /\ Len(p) = Len(m) - d /\ \A i \in 1..Len(m) - d : p[i] = m[d + i]
    <3> HIDE DEF d
    <3> QED BY <2>2, Ending
  <2> HIDE DEF d, p
  <2>4. p = <<m[Len(m)]>>
    <3>1. Len(p) = 1 /\ p[1] = m[Len(m)]
      <4>1. 1 \in 1..Len(m) - d
        BY <2>2
      <4> QED BY <2>2, <2>3, <4>1
    <3>2. m[Len(m)] \in Messages
      BY <1>1, ElementOfSeq
    <3>3. p \in Seq(Messages)
      BY <2>3
    <3>4. <<m[Len(m)]>> \in Seq(Messages) /\ Len(<<m[Len(m)]>>) = 1
      BY <3>2
    <3> QED BY <3>1, <3>3, <3>4, SeqEqual
  <2>5. a = 0 \/ a = Len(m)
    <3>1. a \in Nat /\ a <= Len(m) /\ ~(a >= 1 /\ a <= Len(m) - 1)
      BY <1>1, <1>2, <1>5
    <3> QED BY <1>1, <3>1
  <2>6. From(h, m, d)
    <3>1. CASE a = 0
      <4>1. \A i \in 1..Len(m) : m[i].role # "assistant"
        BY <1>2, <3>1
      <4> QED BY <4>1 DEF From
    <3>2. CASE a = Len(m)
      BY <1>1, <1>2, <3>2 DEF From
    <3> QED BY <2>5, <3>1, <3>2
  <2> QED BY <2>1, <2>2, <2>4, <2>6 DEF p
<1> QED BY <1>3, <1>4, <1>5

\* What is selected, is in the words of the chat.
LEMMA SelectedIs ==
  ASSUME NEW p \in Seq(Messages), SelectMinimalUiPrompts(p) # <<>>
  PROVE  LET s == SelectMinimalUiPrompts(p)
         IN  /\ p # <<>> /\ p[Len(p)].role \in {"user", "tool"} /\ s \in Seq(Messages)
             /\ p[Len(p)].role = "user" => s = <<p[Len(p)]>>
             /\ p[Len(p)].role = "tool" =>
                  \A i \in 1..Len(p) : (\A j \in i..Len(p) : p[j].role = "tool")
                                         => p[i] \in Range(Spoken(s))
<1> DEFINE s == SelectMinimalUiPrompts(p)
           P == {i \in 1..Len(p) : p[i].role # "tool"}
           d == IF P # {} THEN Max(P) ELSE 0
<1>1. p # <<>> /\ p[Len(p)].role \in {"user", "tool"}
  BY Zenon DEF SelectMinimalUiPrompts, Last
<1>2. Len(p) \in Nat \ {0}
  BY <1>1, EmptySeq
<1>3. CASE p[Len(p)].role = "user"
  <2>1. s = <<p[Len(p)]>>
    BY <1>1, <1>3, Zenon DEF SelectMinimalUiPrompts, Last
  <2>2. p[Len(p)] \in Messages
    BY <1>2, ElementOfSeq
  <2>3. p[Len(p)].role # "tool"
    BY <1>3
  <2>4. <<p[Len(p)]>> \in Seq(Messages)
    BY <2>2
  <2> QED BY <1>1, <2>1, <2>3, <2>4
<1>4. CASE p[Len(p)].role = "tool"
  <2>1. d \in 0..Len(p) /\ (d # 0 => d \in P) /\ \A i \in d + 1..Len(p) : i \notin P
    BY <1>2, LastIs
  <2>2. s = SubSeq(p, 1 + d, Len(p))
    <3>1. p[Len(p)].role # "user"
      BY <1>4
    <3> QED BY <1>1, <1>4, <3>1, Zenon DEF SelectMinimalUiPrompts, Last, SelectLastInSeq
  <2>3. d # 0 => p[d].role # "tool"
    BY <2>1
  <2> HIDE DEF d, P
  <2>4. s = SubSeq(p, d + 1, Len(p))
    <3>1. 1 + d = d + 1
      BY <2>1
    <3> QED BY <2>2, <3>1
  <2> HIDE DEF s
  <2>5. s \in Seq(Messages) /\ Len(s) = Len(p) - d /\ \A i \in 1..Len(p) - d : s[i] = p[d + i]
    BY <2>1, <2>4, Ending
  <2>6. ASSUME NEW i \in 1..Len(p), \A j \in i..Len(p) : p[j].role = "tool"
        PROVE  p[i] \in Range(Spoken(s))
    <3>1. i > d
      <4>1. CASE d = 0
        BY <4>1
      <4>2. CASE d # 0
        <5>1. d \notin i..Len(p)
          BY <2>3, <2>6, <4>2
        <5> QED BY <1>2, <2>1, <5>1
      <4> QED BY <4>1, <4>2
    <3>2. i - d \in 1..Len(p) - d /\ d + (i - d) = i
      BY <1>2, <2>1, <3>1
    <3>3. s[i - d] = p[i] /\ p[i].role = "tool"
      <4>1. i \in i..Len(p)
        BY <1>2
      <4> QED BY <2>5, <2>6, <3>2, <4>1
    <3>4. i - d \in DOMAIN s
      <4>1. DOMAIN s = 1..Len(s)
        BY <2>5, LenProperties
      <4> QED BY <2>5, <3>2, <4>1
    <3>5. Spoken(s)[i - d] = p[i] /\ DOMAIN Spoken(s) = DOMAIN s
      BY <3>3, <3>4 DEF Spoken, WithoutTurnData
    <3> QED BY <3>4, <3>5 DEF Range
  <2>7. p[Len(p)].role # "user"
    BY <1>4
  <2> QED BY <1>1, <2>5, <2>6, <2>7 DEF s
<1> QED BY <1>1, <1>3, <1>4

LEMMA SpokenIs ==
  ASSUME NEW s \in Seq(Messages)
  PROVE  DOMAIN Spoken(s) = 1..Len(s) /\ \A i \in 1..Len(s) : Spoken(s)[i] = WithoutTurnData(s[i])
<1>1. DOMAIN s = 1..Len(s)
  BY LenProperties
<1> QED BY <1>1 DEF Spoken

\* A turn of the user is selected alone.
LEMMA UserIsSelected ==
  ASSUME NEW h \in Seq(Messages), NEW m \in Seq(Messages), m # <<>>, m[Len(m)].role = "user",
         SelectMinimalUiPrompts(PendingMessages(h, m)) # <<>>
  PROVE  WithoutTurnData(m[Len(m)]) \in Range(Spoken(SelectMinimalUiPrompts(PendingMessages(h, m))))
<1> DEFINE p == PendingMessages(h, m)
<1>1. Len(m) \in Nat \ {0}
  BY EmptySeq
<1>2. p \in Seq(Messages) /\ (p # <<>> => p[Len(p)] = m[Len(m)])
  <2>1. CASE h = <<>>
    <3>1. p = m
      BY <2>1, Zenon DEF PendingMessages
    <3> QED BY <3>1
  <2>2. CASE h # <<>>
    <3>1. PICK d \in 0..Len(m) : p = SubSeq(m, d + 1, Len(m))
      BY <2>2, PendingIs
    <3> HIDE DEF p
    <3>2. p \in Seq(Messages) /\ Len(p) = Len(m) - d /\ \A i \in 1..Len(m) - d : p[i] = m[d + i]
      BY <3>1, Ending
    <3>3. p # <<>> => Len(p) \in 1..Len(m) - d /\ d + Len(p) = Len(m)
      BY <1>1, <3>2, EmptySeq
    <3>4. p # <<>> => p[Len(p)] = m[d + Len(p)]
      BY <3>2, <3>3
    <3> QED BY <3>2, <3>3, <3>4
  <2> QED BY <2>1, <2>2
<1> HIDE DEF p
<1> DEFINE s == SelectMinimalUiPrompts(p)
<1>3. s # <<>>
  BY DEF p
<1>4. p # <<>> /\ s = <<p[Len(p)]>>
  <2>1. p # <<>> /\ (p[Len(p)].role = "user" => s = <<p[Len(p)]>>)
    BY <1>2, <1>3, SelectedIs
  <2> QED BY <1>2, <2>1
<1> HIDE DEF s
<1>5. s = <<m[Len(m)]>>
  BY <1>2, <1>4
<1>6. s[1] = m[Len(m)] /\ DOMAIN s = {1}
  BY <1>5
<1>7. Spoken(s)[1] = WithoutTurnData(m[Len(m)]) /\ DOMAIN Spoken(s) = {1}
  BY <1>6 DEF Spoken
<1>8. WithoutTurnData(m[Len(m)]) \in Range(Spoken(s))
  BY <1>7 DEF Range
<1> QED BY <1>8 DEF s, p

\* Of a history that goes on from one that is known, the rest is selected.
LEMMA RestIsSelected ==
  ASSUME NEW K, NEW h \in Seq(Messages), NEW t, NEW m \in Seq(Messages), h # <<>>,
         Range(h) \subseteq K, Range(t) \subseteq K, GoesOnFrom(m, t),
         SelectMinimalUiPrompts(PendingMessages(h, m)) # <<>>
  PROVE  Range(m) \subseteq K \union Range(Spoken(SelectMinimalUiPrompts(PendingMessages(h, m))))
<1> DEFINE s == SelectMinimalUiPrompts(PendingMessages(h, m))
<1>1. PICK k \in 0..Len(m) :
        /\ \A i \in 1..k : m[i] \in Range(t)
        /\ \/ k = Len(m) - 1 /\ m[Len(m)].role = "user" /\ WithoutTurnData(m[Len(m)]) = m[Len(m)]
           \/ k # 0 /\ k < Len(m) /\ m[k].role = "assistant" /\ \A i \in k + 1..Len(m) : m[i].role = "tool"
  BY DEF GoesOnFrom
<1>2. Len(m) \in Nat \ {0} /\ DOMAIN m = 1..Len(m) /\ m # <<>>
  <2>1. Len(m) \in Nat /\ DOMAIN m = 1..Len(m) /\ Len(<<>>) = 0
    BY LenProperties, EmptySeq
  <2>2. ASSUME Len(m) = 0 PROVE FALSE
    <3>1. k = 0
      BY <2>2
    <3>2. k = Len(m) - 1 \/ k # 0
      BY <1>1
    <3> QED BY <2>2, <3>1, <3>2
  <2> QED BY <2>1, <2>2
<1>3. DOMAIN h = 1..Len(h)
  BY LenProperties
<1> DEFINE n == Len(m)
<1>6. n \in Nat \ {0} /\ k \in 0..n
  BY <1>1, <1>2
<1> HIDE DEF s
<1> SUFFICES ASSUME NEW i \in 1..Len(m), i > k PROVE m[i] \in K \union Range(Spoken(s))
  <2>1. ASSUME NEW i \in 1..n, ~(i > k) PROVE m[i] \in K
    <3>1. i \in 1..k
      BY <1>6, <2>1
    <3> QED BY <1>1, <3>1
  <2>2. ASSUME NEW x \in Range(m), \A i \in 1..n : i > k => m[i] \in K \union Range(Spoken(s))
        PROVE  x \in K \union Range(Spoken(s))
    BY <1>2, <2>1, <2>2 DEF Range
  <2> QED BY <2>2 DEF s
<1>4. CASE k = Len(m) - 1 /\ m[Len(m)].role = "user" /\ WithoutTurnData(m[Len(m)]) = m[Len(m)]
  <2>1. i = n
    BY <1>4, <1>6
  <2>2. m[Len(m)] \in Range(Spoken(s))
    BY <1>2, <1>4, UserIsSelected DEF s
  <2> QED BY <2>1, <2>2
<1>5. CASE k # 0 /\ k < Len(m) /\ m[k].role = "assistant" /\ \A j \in k + 1..Len(m) : m[j].role = "tool"
  <2> DEFINE p == PendingMessages(h, m)
  <2>1. PICK d \in 0..Len(m) : p = SubSeq(m, d + 1, Len(m)) /\ From(h, m, d)
    BY <1>2, PendingIs
  <2>2. p # <<>> /\ p[Len(p)].role \in {"user", "tool"}
        /\ (p[Len(p)].role = "tool" =>
              \A j \in 1..Len(p) : (\A l \in j..Len(p) : p[l].role = "tool")
                                     => p[j] \in Range(Spoken(s)))
    <3>1. p \in Seq(Messages)
      BY <2>1, Ending
    <3> HIDE DEF p
    <3>2. SelectMinimalUiPrompts(p) # <<>>
      BY DEF p
    <3>3. s = SelectMinimalUiPrompts(p)
      BY DEF p, s
    <3> QED BY <3>1, <3>2, <3>3, SelectedIs
  <2> HIDE DEF p, s
  <2>3. p \in Seq(Messages) /\ Len(p) = Len(m) - d /\ \A j \in 1..Len(m) - d : p[j] = m[d + j]
    BY <2>1, Ending
  <2>4. Len(p) \in Nat \ {0}
    BY <2>2, <2>3, EmptySeq
  <2>5. \A j \in k + 1..Len(m) : m[j].role = "tool"
    BY <1>5
  <2>6. p[Len(p)].role = "tool"
    <3>1. Len(p) \in 1..Len(m) - d /\ d + Len(p) = Len(m) /\ Len(m) \in k + 1..Len(m)
      <4>1. Len(p) = n - d /\ Len(p) \in Nat \ {0} /\ d \in 0..n /\ k < n
        BY <1>5, <2>3, <2>4
      <4> HIDE DEF n
      <4>2. Len(p) \in 1..n - d /\ d + Len(p) = n /\ n \in k + 1..n
        BY <1>6, <4>1
      <4> QED BY <4>2 DEF n
    <3>2. p[Len(p)] = m[d + Len(p)]
      BY <2>3, <3>1
    <3> QED BY <2>5, <3>1, <3>2
  <2>7. CASE i > d
    <3>1. i - d \in 1..Len(p) /\ d + (i - d) = i /\ i - d \in 1..Len(m) - d
      BY <1>2, <2>3, <2>7
    <3>2. p[i - d] = m[d + (i - d)]
      BY <2>3, <3>1
    <3>3. ASSUME NEW l \in i - d..Len(p) PROVE p[l].role = "tool"
      <4>1. l \in 1..Len(m) - d /\ d + l \in k + 1..Len(m)
        BY <1>2, <2>3, <3>1
      <4>2. p[l] = m[d + l]
        BY <2>3, <4>1
      <4> QED BY <2>5, <4>1, <4>2
    <3>4. p[i - d] \in Range(Spoken(s))
      BY <2>2, <2>6, <3>1, <3>3
    <3> QED BY <3>1, <3>2, <3>4
  <2>8. CASE i <= d
    <3>1. d = Len(h) /\ \A j \in 1..d : m[j] = h[j]
      <4>1. m[k].role = "assistant" /\ k \in 1..Len(m)
        BY <1>2, <1>5
      <4>2. m[Len(m)].role # "assistant"
        <5>1. Len(m) \in k + 1..Len(m)
          BY <1>2, <1>5
        <5> QED BY <2>5, <5>1
      <4>3. ~\A j \in 1..Len(m) : m[j].role # "assistant"
        BY <4>1
      <4>4. m[d].role = "tool"
        BY <2>5, <2>8
      <4> QED BY <2>1, <4>2, <4>3, <4>4 DEF From
    <3>2. m[i] = h[i] /\ i \in DOMAIN h
      BY <1>3, <2>8, <3>1
    <3> QED BY <3>2 DEF Range
  <2> QED BY <1>2, <2>7, <2>8
<1> QED BY <1>1, <1>4, <1>5

LEMMA ReverseIs ==
  ASSUME NEW S, NEW u \in Seq(S)
  PROVE  /\ Reverse(u) \in Seq(S) /\ Len(Reverse(u)) = Len(u)
         /\ \A i \in 1..Len(u) : Reverse(u)[i] = u[(Len(u) - i) + 1]
<1> DEFINE n == Len(u)
<1>1. n \in Nat
  BY LenProperties
<1>2. \A i \in 1..n : u[(n - i) + 1] \in S
  <2>1. ASSUME NEW i \in 1..n PROVE (n - i) + 1 \in 1..n
    BY <1>1
  <2> QED BY <2>1, ElementOfSeq
<1>3. Reverse(u) = [i \in 1..n |-> u[(n - i) + 1]]
  BY DEF Reverse
<1> HIDE DEF n
<1>4. Reverse(u) \in [1..n -> S]
  BY <1>2, <1>3
<1>5. Reverse(u) \in Seq(S)
  BY <1>1, <1>4
<1>6. Len(Reverse(u)) = n
  BY <1>1, <1>4
<1> QED BY <1>3, <1>5, <1>6 DEF n

LEMMA SuffixEnds ==
  ASSUME NEW S, NEW u \in Seq(S), NEW v \in Seq(S), IsSuffix(u, v)
  PROVE  Len(u) <= Len(v) /\ \A i \in 1..Len(u) : v[Len(v) - Len(u) + i] = u[i]
<1> DEFINE a == Reverse(u)
           b == Reverse(v)
<1>1. Len(u) \in Nat /\ Len(v) \in Nat
  BY LenProperties
<1>2. /\ a \in Seq(S) /\ Len(a) = Len(u)
      /\ \A i \in 1..Len(u) : a[i] = u[(Len(u) - i) + 1]
  BY ReverseIs
<1>3. /\ b \in Seq(S) /\ Len(b) = Len(v)
      /\ \A i \in 1..Len(v) : b[i] = v[(Len(v) - i) + 1]
  BY ReverseIs
<1>4. IsPrefix(a, b)
  BY Zenon DEF IsSuffix
<1> HIDE DEF a, b
<1>5. Len(a) <= Len(b) /\ \A i \in 1..Len(a) : a[i] = b[i]
  BY <1>2, <1>3, <1>4, PrefixBegins
<1>6. ASSUME NEW i \in 1..Len(u) PROVE v[Len(v) - Len(u) + i] = u[i]
  <2> DEFINE j == (Len(u) - i) + 1
  <2>1. j \in 1..Len(u) /\ (Len(u) - j) + 1 = i /\ (Len(v) - j) + 1 = Len(v) - Len(u) + i
    BY <1>1
  <2>2. j \in 1..Len(v) /\ j \in 1..Len(a)
    BY <1>1, <1>2, <1>3, <1>5, <2>1
  <2> HIDE DEF j
  <2>3. a[j] = u[(Len(u) - j) + 1] /\ b[j] = v[(Len(v) - j) + 1] /\ a[j] = b[j]
    BY <1>2, <1>3, <1>5, <2>1, <2>2
  <2> QED BY <2>1, <2>3
<1> QED BY <1>2, <1>3, <1>5, <1>6

\* A chat that knows nothing is told all there is.
LEMMA Hydrated ==
  ASSUME NEW m \in Seq(Messages), NEW s \in Seq(Messages)
  PROVE  Range(m) \subseteq Range(HistoryHydration(m, s, FALSE)) \union Range(Spoken(s))
<1> DEFINE u == Spoken(s)
           d == Len(m) - Len(s)
<1>1. DOMAIN m = 1..Len(m) /\ Len(m) \in Nat /\ Len(s) \in Nat
  BY LenProperties
<1>2. CASE IsSuffix(u, m)
  <2> DEFINE S == Range(u) \union Messages
  <2>1. DOMAIN u = 1..Len(s)
    BY SpokenIs
  <2>2. u \in [1..Len(s) -> S] /\ m \in Seq(S)
    <3>1. u \in [1..Len(s) -> S]
      <4>1. u = [i \in 1..Len(s) |-> u[i]]
        BY <2>1 DEF Spoken
      <4>2. \A i \in 1..Len(s) : u[i] \in S
        BY <2>1 DEF Range
      <4> HIDE DEF u, S
      <4> QED BY <4>1, <4>2
    <3>2. Messages \subseteq S
      OBVIOUS
    <3> HIDE DEF S
    <3> QED BY <3>1, <3>2, SeqMonotonic
  <2> HIDE DEF u, S
  <2>3. u \in Seq(S) /\ Len(u) = Len(s)
    BY <1>1, <2>2
  <2>4. Len(u) <= Len(m) /\ \A i \in 1..Len(u) : m[Len(m) - Len(u) + i] = u[i]
    BY <1>2, <2>2, <2>3, SuffixEnds
  <2>5. HistoryHydration(m, s, FALSE) = SubSeq(m, 1, d)
    BY <1>2, Zenon DEF HistoryHydration, u
  <2> DEFINE f == SubSeq(m, 1, d)
  <2>6. d \in 0..Len(m)
    BY <1>1, <2>3, <2>4
  <2>7. f \in Seq(Messages) /\ Len(f) = d /\ \A i \in 1..d : f[i] = m[i]
    <3> HIDE DEF d
    <3> QED BY <2>6, Beginning
  <2>8. DOMAIN f = 1..d
    BY <2>7, LenProperties
  <2>9. ASSUME NEW i \in 1..Len(m) PROVE m[i] \in Range(f) \union Range(u)
    <3>1. CASE i <= d
      <4>1. i \in DOMAIN f /\ f[i] = m[i]
        BY <1>1, <2>6, <2>7, <2>8, <3>1
      <4> HIDE DEF f
      <4> QED BY <4>1 DEF Range
    <3>2. CASE ~(i <= d)
      <4>1. i - d \in 1..Len(u) /\ Len(m) - Len(u) + (i - d) = i
        BY <1>1, <2>3, <2>6, <3>2
      <4>2. m[i] = u[i - d] /\ i - d \in DOMAIN u
        BY <2>1, <2>3, <2>4, <4>1
      <4> QED BY <4>2 DEF Range
    <3> QED BY <3>1, <3>2
  <2> HIDE DEF f
  <2> QED BY <1>1, <2>5, <2>9 DEF Range, f, u
<1>3. CASE ~IsSuffix(u, m)
  <2>1. HistoryHydration(m, s, FALSE) = m
    BY <1>3, Zenon DEF HistoryHydration, u
  <2> QED BY <2>1
<1> QED BY <1>2, <1>3

\* The messages there are
LEMMA MessagesAre ==
  /\ System \in Messages /\ Control \in Messages
  /\ \A a \in Asks : User(a) \in Messages /\ Message("user", a, 1) \in Messages
  /\ \A n \in Nat : {Result(n), Host(n), Raw(n), Remade(n)} \subseteq Messages
BY DEF System, Control, User, Result, Host, Raw, Remade, Message, Messages, Words, Roles

\* A turn with the data before it, and without.
LEMMA TurnDataIs ==
  ASSUME NEW m \in Seq(Messages), m # <<>>, NEW a \in Asks, m[Len(m)] = User(a)
  PROVE  LET w == WithTurnData(m)
         IN  /\ w \in Seq(Messages) /\ w # <<>> /\ w[Len(w)] = Message("user", a, 1)
             /\ w[Len(w)].role = "user" /\ WithoutTurnData(w[Len(w)]) = User(a)
<1> DEFINE x == Message("user", a, 1)
           n == Len(m)
           v == [m EXCEPT ![n] = x]
           w == <<System>> \o v
<1>1. n \in Nat \ {0}
  BY EmptySeq
<1>2. x \in Messages /\ System \in Messages
  BY MessagesAre
<1>3. WithTurnData(m) = w
  <2>1. m[Len(m)].role = "user" /\ m[Len(m)].text = a
    BY DEF User, Message
  <2> QED BY <2>1 DEF WithTurnData
<1>4. x.role = "user" /\ x.text = a /\ x.text # "host"
  BY AsksAssumption DEF Message, Tasks
<1>5. WithoutTurnData(x) = User(a)
  BY <1>4 DEF WithoutTurnData
<1> HIDE DEF x
<1>6. v \in Seq(Messages) /\ Len(v) = n /\ v[n] = x
  <2>1. n \in 1..n
    BY <1>1
  <2> QED BY <1>2, <2>1, ExceptSeq
<1> HIDE DEF v
<1>7. <<System>> \in Seq(Messages) /\ Len(<<System>>) = 1
  BY <1>2
<1>8. w \in Seq(Messages) /\ Len(w) = n + 1
  BY <1>6, <1>7, ConcatProperties
<1>9. w[n + 1] = x
  <2>1. n + 1 \in 1..Len(<<System>>) + Len(v) /\ ~(n + 1 <= Len(<<System>>))
        /\ (n + 1) - Len(<<System>>) = n
    BY <1>1, <1>6, <1>7
  <2> QED BY <1>6, <1>7, <2>1, ConcatProperties
<1>10. w # <<>>
  <2>1. Len(<<>>) = 0
    BY EmptySeq
  <2> QED BY <1>1, <1>8, <2>1
<1> HIDE DEF w
<1> QED BY <1>3, <1>4, <1>5, <1>8, <1>9, <1>10 DEF x

\* A request that fits is told with the prompt or known, to a chat with a history that
\* is known; to one without, it is told in full.
LEMMA RequestIsTold ==
  ASSUME NEW K, NEW h \in Seq(Messages), NEW t, NEW told, NEW r, Fits(r, t, told),
         h # <<>> => Range(h) \subseteq K /\ Range(t) \subseteq K
                     /\ (told => Range(r.logical) \subseteq K),
         SelectMinimalUiPrompts(PendingMessages(h, r.incoming)) # <<>>
  PROVE  LET s == SelectMinimalUiPrompts(PendingMessages(h, r.incoming))
         IN  Range(r.logical) \subseteq
               K \union (Range(HistoryHydration(r.logical, s, h # <<>>)) \union Range(Spoken(s)))
<1> DEFINE m == r.logical
           p == PendingMessages(h, r.incoming)
           s == SelectMinimalUiPrompts(p)
<1>1. m \in Seq(Messages) /\ r.incoming \in Seq(Messages)
  BY DEF Fits
<1>2. CASE h = <<>>
  <2>1. s \in Seq(Messages)
    <3>1. p = r.incoming
      BY <1>2, Zenon DEF PendingMessages
    <3>2. SelectMinimalUiPrompts(p) # <<>> /\ p \in Seq(Messages)
      BY <1>1, <3>1
    <3> HIDE DEF p
    <3> QED BY <3>2, SelectedIs
  <2> HIDE DEF s, m
  <2>2. Range(m) \subseteq Range(HistoryHydration(m, s, FALSE)) \union Range(Spoken(s))
    BY <1>1, <2>1, Hydrated DEF m
  <2>3. (h # <<>>) = FALSE
    BY <1>2
  <2> QED BY <2>2, <2>3 DEF s, m
<1>3. CASE h # <<>>
  <2>1. Range(m) \subseteq K \union Range(Spoken(s))
    <3>1. CASE GoesOnFrom(m, t) /\ r.incoming = m
      BY <1>1, <1>3, <3>1, RestIsSelected
    <3>2. CASE /\ m # <<>> /\ \E a \in Asks : m[Len(m)] = User(a)
               /\ \A i \in 1..Len(m) - 1 : m[i] \in Range(t)
               /\ r.incoming = WithTurnData(m)
      <4>1. PICK a \in Asks : m[Len(m)] = User(a)
        BY <3>2
      <4> DEFINE w == r.incoming
      <4>2. /\ w # <<>> /\ w[Len(w)].role = "user" /\ WithoutTurnData(w[Len(w)]) = User(a)
        BY <1>1, <3>2, <4>1, TurnDataIs
      <4>3. WithoutTurnData(w[Len(w)]) \in Range(Spoken(s))
        BY <1>1, <4>2, UserIsSelected
      <4>4. m[Len(m)] \in Range(Spoken(s))
        BY <4>1, <4>2, <4>3
      <4>5. DOMAIN m = 1..Len(m) /\ Len(m) \in Nat
        BY <1>1, LenProperties
      <4>6. \A i \in 1..Len(m) - 1 : m[i] \in K
        BY <1>3, <3>2
      <4> DEFINE n == Len(m)
      <4>8. n \in Nat
        BY <4>5
      <4> HIDE DEF s, m
      <4>7. ASSUME NEW i \in 1..Len(m) PROVE m[i] \in K \union Range(Spoken(s))
        <5>1. CASE i = Len(m)
          BY <4>4, <5>1
        <5>2. CASE i # Len(m)
          <6>1. i \in 1..n - 1
            BY <4>8, <5>2 DEF n
          <6>2. m[i] \in K
            BY <4>6, <6>1 DEF n
          <6> QED BY <6>2
        <5> QED BY <5>1, <5>2
      <4> QED BY <4>5, <4>7 DEF Range
    <3>3. CASE told
      BY <1>3, <3>3
    <3> QED BY <3>1, <3>2, <3>3 DEF Fits
  <2> HIDE DEF s, m
  <2> QED BY <2>1 DEF s, m
<1> QED BY <1>2, <1>3

-----------------------------------------------------------------------------
(* What the client asks *)

LEMMA GoesOnWith ==
  ASSUME NEW t, NEW m \in Seq(Messages), \A i \in 1..Len(m) : m[i] \in Range(t),
         NEW x \in Messages, x.role = "user", WithoutTurnData(x) = x
  PROVE  LET a == Append(m, x)
         IN  /\ a \in Seq(Messages) /\ a # <<>> /\ a[Len(a)] = x /\ GoesOnFrom(a, t)
             /\ \A i \in 1..Len(a) - 1 : a[i] \in Range(t)
<1> DEFINE a == Append(m, x)
           n == Len(m)
<1>1. n \in Nat
  BY LenProperties
<1>2. /\ a \in Seq(Messages) /\ Len(a) = n + 1 /\ a[n + 1] = x
      /\ \A i \in 1..n : a[i] = m[i]
  BY AppendProperties
<1>3. a # <<>>
  BY AppendProperties
<1> HIDE DEF a
<1>4. \A i \in 1..n : a[i] \in Range(t)
  BY <1>2
<1> HIDE DEF n
<1>5. n \in 0..Len(a) /\ n = Len(a) - 1 /\ a[Len(a)] = x
  BY <1>1, <1>2
<1>6. GoesOnFrom(a, t)
  BY <1>4, <1>5 DEF GoesOnFrom
<1> QED BY <1>2, <1>3, <1>4, <1>5, <1>6 DEF a

LEMMA GoesOnWithResults ==
  ASSUME NEW t \in Seq(Messages), t # <<>>, t[Len(t)].role = "assistant",
         NEW u \in Seq(Messages), u # <<>>, \A i \in 1..Len(u) : u[i].role = "tool"
  PROVE  t \o u \in Seq(Messages) /\ GoesOnFrom(t \o u, t)
<1> DEFINE a == t \o u
           n == Len(t)
           k == Len(u)
<1>1. n \in Nat \ {0} /\ k \in Nat \ {0} /\ DOMAIN t = 1..n
  BY EmptySeq, LenProperties
<1>2. /\ a \in Seq(Messages) /\ Len(a) = n + k
      /\ \A i \in 1..n + k : a[i] = IF i <= n THEN t[i] ELSE u[i - n]
  BY ConcatProperties
<1> HIDE DEF a, n, k
<1>3. \A i \in 1..n : a[i] = t[i]
  BY <1>1, <1>2
<1>4. \A i \in 1..n : a[i] \in Range(t)
  BY <1>1, <1>3 DEF Range
<1>5. a[n].role = "assistant"
  BY <1>1, <1>3 DEF n
<1>6. ASSUME NEW i \in n + 1..n + k PROVE a[i].role = "tool"
  <2>1. i \in 1..n + k /\ ~(i <= n) /\ i - n \in 1..k
    BY <1>1
  <2>2. a[i] = u[i - n]
    BY <1>2, <2>1
  <2> QED BY <2>1, <2>2 DEF k
<1>7. n \in 0..Len(a) /\ n # 0 /\ n < Len(a)
  BY <1>1, <1>2
<1>8. \A i \in n + 1..Len(a) : a[i].role = "tool"
  BY <1>2, <1>6
<1>9. GoesOnFrom(a, t)
  BY <1>4, <1>5, <1>7, <1>8 DEF GoesOnFrom
<1> QED BY <1>2, <1>9 DEF a

\* A new turn of the user, in a history or as a request of the contract
LEMMA TurnFits ==
  ASSUME NEW t, NEW m \in Seq(Messages), \A i \in 1..Len(m) : m[i] \in Range(t),
         NEW a \in Asks, NEW r, NEW told,
         r = Plain(Append(m, User(a))) \/ r = Contract(Append(m, User(a)))
  PROVE  Fits(r, t, told)
<1> DEFINE x == User(a)
           s == Append(m, x)
<1>1. x \in Messages
  BY MessagesAre
<1>2. x.role = "user" /\ WithoutTurnData(x) = x
  BY DEF User, Message, WithoutTurnData
<1>3. /\ s \in Seq(Messages) /\ s # <<>> /\ s[Len(s)] = x /\ GoesOnFrom(s, t)
      /\ \A i \in 1..Len(s) - 1 : s[i] \in Range(t)
  <2> HIDE DEF x
  <2> QED BY <1>1, <1>2, GoesOnWith
<1> HIDE DEF s
<1>4. CASE r = Plain(s)
  <2>1. r.logical = s /\ r.incoming = s
    BY <1>4 DEF Plain, Request
  <2> QED BY <1>3, <2>1 DEF Fits
<1>5. CASE r = Contract(s)
  <2>1. r.logical = s /\ r.incoming = WithTurnData(s)
    BY <1>5 DEF Contract, Request
  <2>2. WithTurnData(s) \in Seq(Messages)
    BY <1>3, TurnDataIs
  <2>3. \E b \in Asks : s[Len(s)] = User(b)
    BY <1>3
  <2> QED BY <1>3, <2>1, <2>2, <2>3 DEF Fits
<1> QED BY <1>4, <1>5 DEF s

\* The results of the open calls
LEMMA ResultsAre ==
  ASSUME NEW o \in Seq(Nat)
  PROVE  LET u == [i \in DOMAIN o |-> Result(o[i])]
         IN  /\ u \in Seq(Messages) /\ Len(u) = Len(o)
             /\ \A i \in 1..Len(u) : u[i].role = "tool"
<1> DEFINE n == Len(o)
           u == [i \in DOMAIN o |-> Result(o[i])]
<1>1. n \in Nat /\ DOMAIN o = 1..n
  BY LenProperties
<1>2. \A i \in 1..n : o[i] \in Nat
  BY ElementOfSeq
<1>3. \A i \in 1..n : u[i] \in Messages /\ u[i].role = "tool"
  <2>1. \A k \in Nat : Result(k) \in Messages
    BY MessagesAre
  <2>2. \A k : Result(k).role = "tool"
    BY DEF Result, Message
  <2>3. \A i \in 1..n : u[i] = Result(o[i])
    BY <1>1
  <2> HIDE DEF u
  <2> QED BY <1>2, <2>1, <2>2, <2>3
<1>4. u = [i \in 1..n |-> u[i]]
  BY <1>1
<1> HIDE DEF u, n
<1>5. u \in [1..n -> Messages]
  BY <1>3, <1>4
<1>6. u \in Seq(Messages) /\ Len(u) = n
  BY <1>1, <1>5
<1> QED BY <1>3, <1>6 DEF u, n

\* The results the client brings, or one too many
LEMMA ResultsFit ==
  ASSUME NEW t \in Seq(Messages), t # <<>>, t[Len(t)].role = "assistant",
         NEW u \in Seq(Messages), u # <<>>, \A i \in 1..Len(u) : u[i].role = "tool",
         NEW r, NEW told, r = Plain(t \o u) \/ r = Plain(Append(t \o u, Result(0)))
  PROVE  Fits(r, t, told)
<1>1. CASE r = Plain(t \o u)
  <2>1. r.logical = t \o u /\ r.incoming = t \o u
    BY <1>1 DEF Plain, Request
  <2>2. t \o u \in Seq(Messages) /\ GoesOnFrom(t \o u, t)
    BY GoesOnWithResults
  <2> QED BY <2>1, <2>2 DEF Fits
<1>2. CASE r = Plain(Append(t \o u, Result(0)))
  <2> DEFINE x == Result(0)
             v == Append(u, x)
             a == Append(t \o u, x)
  <2>1. x \in Messages /\ x.role = "tool"
    <3>1. x \in Messages
      BY MessagesAre
    <3> QED BY <3>1 DEF Result, Message
  <2> HIDE DEF x
  <2>2. v \in Seq(Messages) /\ v # <<>> /\ Len(v) = Len(u) + 1 /\ v[Len(u) + 1] = x
        /\ \A i \in 1..Len(u) : v[i] = u[i]
    BY <2>1, AppendProperties
  <2>3. Len(u) \in Nat
    BY LenProperties
  <2>4. \A i \in 1..Len(v) : v[i].role = "tool"
    <3> HIDE DEF v
    <3>1. ASSUME NEW i \in 1..Len(v) PROVE i = Len(u) + 1 \/ i \in 1..Len(u)
      BY <2>2, <2>3
    <3> QED BY <2>1, <2>2, <3>1
  <2>5. a = t \o v
    <3>1. t \o u \in Seq(Messages)
      BY ConcatProperties
    <3>2. a = (t \o u) \o <<x>> /\ v = u \o <<x>>
      BY <2>1, <3>1, AppendIsConcat
    <3>3. <<x>> \in Seq(Messages)
      BY <2>1
    <3> QED BY <3>2, <3>3, ConcatAssociative
  <2> HIDE DEF v, a
  <2>6. a \in Seq(Messages) /\ GoesOnFrom(a, t)
    BY <2>2, <2>4, <2>5, GoesOnWithResults
  <2>7. r.logical = a /\ r.incoming = a
    BY <1>2 DEF a, x, Plain, Request
  <2> QED BY <2>6, <2>7 DEF Fits
<1> QED BY <1>1, <1>2

\* The report of the host
LEMMA HostFits ==
  ASSUME NEW t \in Seq(Messages), NEW r, NEW told, r = Plain(Append(t, Host(Len(t))))
  PROVE  Fits(r, t, told)
<1> DEFINE n == Len(t)
           x == Host(n)
           a == Append(t, x)
<1>1. n \in Nat /\ DOMAIN t = 1..n
  BY LenProperties
<1>2. x \in Messages
  BY <1>1, MessagesAre
<1>3. x.role = "user" /\ WithoutTurnData(x) = x
  BY DEF Host, Message, WithoutTurnData
<1>4. \A i \in 1..Len(t) : t[i] \in Range(t)
  BY <1>1 DEF Range
<1> HIDE DEF x
<1>5. a \in Seq(Messages) /\ GoesOnFrom(a, t)
  BY <1>2, <1>3, <1>4, GoesOnWith
<1> HIDE DEF a
<1>6. r.logical = a /\ r.incoming = a
  BY DEF a, x, n, Plain, Request
<1> QED BY <1>5, <1>6 DEF Fits

\* Whatever the client asks fits.
LEMMA AskedFits ==
  ASSUME ClientShape, TranscriptIsKnown, client.style # "bare", NEW kind \in Requests,
         client.repair <=> kind = "repair", NEW r \in Asked(kind)
  PROVE  Fits(r, client.transcript, Tells(executor, client) => Known(r.logical))
<1> DEFINE t == client.transcript
           u == [i \in DOMAIN client.open |-> Result(client.open[i])]
           Made(m) == IF client.style = "contract" THEN Contract(m) ELSE Plain(m)
           told == Tells(executor, client) => Known(r.logical)
<1>1. \/ kind = "ask" /\ \E a \in Asks : r = Made(Append(t, User(a)))
      \/ kind = "results" /\ u # <<>> /\ r = Plain(t \o u)
      \/ kind = "stray" /\ u # <<>> /\ r = Plain(Append(t \o u, Result(0)))
      \/ kind = "host" /\ u # <<>> /\ r = Plain(Append(t, Host(Len(t))))
      \/ kind = "again" /\ ~client.served /\ r = client.request
      \/ kind = "rewind" /\ \E k \in 1..Len(t) - 1, a \in Asks :
                              r = Made(Append(SubSeq(t, 1, k), User(a)))
      \/ kind = "repair" /\ r = Request(<<System, Control>>, client.request.logical, TRUE)
  <2>1. kind \in {"ask", "results", "stray", "host", "again", "repair", "rewind"}
    BY RequestsAssumption
  <2>2. CASE kind = "ask"
    <3>1. Asked(kind) = {Made(Append(t, User(a))) : a \in Asks}
      BY <2>2 DEF Asked
    <3> QED BY <2>2, <3>1
  <2>3. CASE kind = "results"
    BY <2>3 DEF Asked
  <2>4. CASE kind = "stray"
    BY <2>4 DEF Asked
  <2>5. CASE kind = "host"
    BY <2>5 DEF Asked
  <2>6. CASE kind = "again"
    BY <2>6 DEF Asked
  <2>7. CASE kind = "rewind"
    <3>1. Asked(kind) = {Made(Append(SubSeq(t, 1, k), User(a))) :
                           k \in {j \in 1..Len(t) - 1 : t[j].role = "assistant"}, a \in Asks}
      BY <2>7 DEF Asked
    <3> QED BY <2>7, <3>1
  <2>8. CASE kind = "repair"
    BY <2>8 DEF Asked
  <2> QED BY <2>1, <2>2, <2>3, <2>4, <2>5, <2>6, <2>7, <2>8
<1>2. t \in Seq(Messages) /\ client.open \in Seq(Nat)
  BY DEF ClientShape
<1>3. /\ u \in Seq(Messages) /\ Len(u) = Len(client.open)
      /\ \A i \in 1..Len(u) : u[i].role = "tool"
  BY <1>2, ResultsAre
<1>4. u # <<>> => t # <<>> /\ t[Len(t)].role = "assistant"
  <2>1. ASSUME client.open = <<>> PROVE u = <<>>
    BY <2>1
  <2> HIDE DEF u
  <2> QED BY <2>1 DEF ClientShape
<1>5. DOMAIN t = 1..Len(t) /\ Len(t) \in Nat
  BY <1>2, LenProperties
<1>6. \A i \in 1..Len(t) : t[i] \in Range(t)
  BY <1>5 DEF Range
<1>7. ASSUME NEW m PROVE Made(m) \in {Plain(m), Contract(m)}
  OBVIOUS
<1> HIDE DEF t, u, Made, told
<1>8. ASSUME NEW a \in Asks, r = Made(Append(t, User(a))) PROVE Fits(r, t, told)
  BY <1>2, <1>6, <1>7, <1>8, TurnFits
<1>9. ASSUME u # <<>>, r = Plain(t \o u) \/ r = Plain(Append(t \o u, Result(0)))
      PROVE  Fits(r, t, told)
  BY <1>2, <1>3, <1>4, <1>9, ResultsFit
<1>10. ASSUME r = Plain(Append(t, Host(Len(t)))) PROVE Fits(r, t, told)
  BY <1>2, <1>10, HostFits
<1>11. ASSUME ~client.served, r = client.request PROVE Fits(r, t, told)
  BY <1>11 DEF ClientShape, t, told
<1>12. ASSUME NEW k \in 1..Len(t) - 1, NEW a \in Asks, r = Made(Append(SubSeq(t, 1, k), User(a)))
       PROVE  Fits(r, t, told)
  <2> DEFINE m == SubSeq(t, 1, k)
  <2>1. k \in 0..Len(t)
    BY <1>5
  <2>2. m \in Seq(Messages) /\ Len(m) = k /\ \A i \in 1..k : m[i] = t[i]
    BY <1>2, <2>1, Beginning
  <2> HIDE DEF m
  <2>3. \A i \in 1..Len(m) : m[i] \in Range(t)
    BY <1>5, <1>6, <2>1, <2>2
  <2>4. r = Made(Append(m, User(a)))
    BY <1>12 DEF m
  <2> QED BY <1>7, <2>2, <2>3, <2>4, TurnFits
<1>13. ASSUME kind = "repair", r = Request(<<System, Control>>, client.request.logical, TRUE)
       PROVE  Fits(r, t, told)
  <2>1. r.logical = client.request.logical /\ r.incoming = <<System, Control>>
    BY <1>13 DEF Request
  <2>2. client.repair
    BY <1>13
  <2>3. told
    BY <2>1, <2>2 DEF TranscriptIsKnown, told
  <2>4. r.incoming \in Seq(Messages) /\ r.logical \in Seq(Messages)
    <3>1. System \in Messages /\ Control \in Messages
      BY MessagesAre
    <3> QED BY <2>1, <3>1 DEF ClientShape
  <2> QED BY <2>1, <2>3, <2>4 DEF Fits
<1> QED BY <1>1, <1>8, <1>9, <1>10, <1>11, <1>12, <1>13 DEF t, told

-----------------------------------------------------------------------------
(* What the chat has been told is an invariant *)

LEMMA FitsAlso ==
  ASSUME NEW r, NEW t, NEW a, NEW b, Fits(r, t, a), a => b PROVE Fits(r, t, b)
BY DEF Fits

\* Nothing is forgotten while the client and the memory are what they were.
LEMMA SameMemory ==
  ASSUME ClientShape, TranscriptIsKnown, UNCHANGED <<client, executor>>,
         call'.running => call.running /\ call'.logical = call.logical,
         chat' \in [epoch : {chat.epoch}, known : {chat'.known}, lost : {chat'.lost}],
         Heard \subseteq Heard'
  PROVE  ClientShape' /\ TranscriptIsKnown'
<1>1. \A m : Known(m) => Known(m)'
  BY DEF Known
<1>2. Tells(executor, client)' <=> Tells(executor, client)
  BY DEF Tells
<1>3. TranscriptIsKnown'
  BY <1>1, <1>2 DEF TranscriptIsKnown
<1>4. ~client'.served => Fits(client'.request, client'.transcript,
                              Tells(executor, client)' => Known(client.request.logical)')
  BY <1>1, <1>2, FitsAlso DEF ClientShape
<1>5. ClientShape'
  BY <1>4 DEF ClientShape
<1> QED BY <1>3, <1>5

\* What a step of a turn leaves alone
LEMMA PageMoves ==
  ASSUME IInv, Turn \/ Interrupt \/ Disturb
  PROVE  /\ turn'.taken = turn.taken /\ turn'.prompt = turn.prompt
         /\ page'.last = page.last /\ page'.busy = page.busy
         /\ turn'.phase # "idle" => turn.phase # "idle"
         /\ turn'.phase \in {"confirm", "read"} =>
              turn.phase \in {"confirm", "read"} /\ turn'.baseline = turn.baseline
         /\ turn'.phase = "answered" =>
              \/ turn.phase = "answered"
              \/ turn.phase = "read" /\ page.last # turn.baseline /\ turn'.answer = page.last
<1>1. /\ page \in [draft : {"empty", "whole", "spoiled"}, lingers : BOOLEAN,
                  busy : 0..MaxPrompts, last : 0..MaxPrompts]
      /\ turn \in [phase : Phases, prompt : 0..MaxPrompts, baseline : 0..MaxPrompts,
                  answer : 0..MaxPrompts, taken : 0..2, whole : BOOLEAN,
                  late : BOOLEAN]
  BY DEF IInv, PageInv, PageTypeOK
<1>2. CASE Settle
  BY <1>1, <1>2 DEF Settle
<1>3. CASE NotReady
  BY <1>1, <1>3 DEF NotReady
<1>4. CASE Compose
  BY <1>1, <1>4 DEF Compose
<1>5. CASE FinalCheck
  <2>1. turn'.phase \in {"dispatch", "failed"}
    BY <1>1, <1>5 DEF FinalCheck
  <2>2. /\ turn'.taken = turn.taken /\ turn'.prompt = turn.prompt /\ page' = page
        /\ turn.phase = "check"
    BY <1>1, <1>5 DEF FinalCheck
  <2> QED BY <2>1, <2>2
<1>6. CASE Confirm
  BY <1>1, <1>6 DEF Confirm
<1>7. CASE Unconfirmed
  BY <1>1, <1>7 DEF Unconfirmed
<1>8. CASE Read
  BY <1>1, <1>8 DEF Read
<1>9. CASE ReadTimeout
  BY <1>1, <1>9 DEF ReadTimeout
<1>10. CASE Interrupt
  BY <1>1, <1>10 DEF Interrupt, Abort
<1>11. CASE Disturb
  <2>1. CASE Rerender
    BY <1>1, <2>1 DEF Rerender
  <2>2. CASE Reconcile
    <3> DEFINE late == turn.late \/ turn.phase = "dispatch"
    <3>1. turn' = [turn EXCEPT !.late = late]
      BY <2>2 DEF Reconcile
    <3>2. \E shown \in {"empty", "spoiled"} : page' = [page EXCEPT !.draft = shown]
      BY <2>2 DEF Reconcile
    <3>3. page'.last = page.last /\ page'.busy = page.busy
      BY <1>1, <3>2
    <3> HIDE DEF late
    <3> QED BY <1>1, <3>1, <3>3
  <2> QED BY <1>11, <2>1, <2>2 DEF Disturb
<1> QED BY <1>2, <1>3, <1>4, <1>5, <1>6, <1>7, <1>8, <1>9, <1>10, <1>11 DEF Turn

LEMMA TurnTells ==
  ASSUME IInv, IInv', ContextInv, Turn \/ Interrupt \/ Disturb PROVE ContextInv'
<1> SUFFICES ASSUME client.style # "bare"
             PROVE  (ClientShape /\ TranscriptIsKnown /\ CallIsTold /\ AnswerIsKnown)'
  BY DEF ContextInv, ClientIs, Turn, Interrupt, Disturb, logicVars
<1>1. ClientShape /\ TranscriptIsKnown /\ CallIsTold /\ AnswerIsKnown
  BY DEF ContextInv
<1>2. UNCHANGED <<executor, call, client, chat>>
  BY DEF Turn, Interrupt, Disturb, logicVars
<1>3. ClientShape' /\ TranscriptIsKnown'
  <2>1. chat' \in [epoch : {chat.epoch}, known : {chat'.known}, lost : {chat'.lost}]
    BY <1>1, <1>2 DEF TranscriptIsKnown
  <2> QED BY <1>1, <1>2, <2>1, HeardStays, SameMemory
<1>4. CallIsTold'
  BY <1>1, <1>2, PageMoves, HeardStays DEF CallIsTold
<1>5. AnswerIsKnown'
  <2>1. AnswerIsOfPrompt'
    BY DEF IInv, PageInv
  <2> QED BY <1>1, <1>2, <2>1, PageMoves, HeardStays DEF AnswerIsKnown, AnswerIsOfPrompt
<1> QED BY <1>3, <1>4, <1>5

\* What is taken is told.
LEMMA SendTells ==
  ASSUME IInv, IInv', ContextInv, Send PROVE ContextInv'
<1> SUFFICES ASSUME client.style # "bare"
             PROVE  (ClientShape /\ TranscriptIsKnown /\ CallIsTold /\ AnswerIsKnown)'
  BY DEF ContextInv, ClientIs, Send
<1>1. ClientShape /\ TranscriptIsKnown /\ CallIsTold /\ AnswerIsKnown
  BY DEF ContextInv
<1>2. UNCHANGED <<executor, call, client>>
  BY DEF Send
<1>3. /\ turn.phase = "dispatch" /\ turn.taken = 0
      /\ page.busy = 0 /\ page.last = turn.baseline /\ turn.baseline < turn.prompt
  BY DEF Send, Dispatch, IInv, PageInv, TurnSound
<1>4. /\ page \in [draft : {"empty", "whole", "spoiled"}, lingers : BOOLEAN,
                  busy : 0..MaxPrompts, last : 0..MaxPrompts]
      /\ turn \in [phase : Phases, prompt : 0..MaxPrompts, baseline : 0..MaxPrompts,
                  answer : 0..MaxPrompts, taken : 0..2, whole : BOOLEAN,
                  late : BOOLEAN]
  BY DEF IInv, PageInv, PageTypeOK
<1>5. /\ turn'.phase \in {"failed", "confirm"} /\ turn'.prompt = turn.prompt
      /\ turn'.baseline = turn.baseline
      /\ \/ turn'.taken = 0 /\ page' = page
         \/ turn'.taken = 1 /\ page'.last = page.last
  <2>1. PICK click \in {"done", "timeout", "error"}, how \in {"cleared", "lingers", "ignored"} :
          /\ IF how = "ignored" THEN UNCHANGED page ELSE Takes(how)
          /\ turn' = [turn EXCEPT !.phase = AfterClick(click),
                                 !.taken = IF how = "ignored" THEN @ ELSE @ + 1,
                                 !.whole = @ /\ (how = "ignored" \/ page.draft = "whole")]
    BY DEF Send, Dispatch
  <2>2. AfterClick(click) \in {"failed", "confirm"}
    BY DEF AfterClick
  <2> DEFINE after == AfterClick(click)
             kept == turn.whole /\ (how = "ignored" \/ page.draft = "whole")
             took == IF how = "ignored" THEN turn.taken ELSE turn.taken + 1
  <2>3. turn' = [turn EXCEPT !.phase = after, !.taken = took, !.whole = kept]
    BY <2>1
  <2>4. took = IF how = "ignored" THEN 0 ELSE 1
    BY <1>3
  <2> HIDE DEF after, kept, took
  <2>5. turn'.phase = after /\ turn'.prompt = turn.prompt /\ turn'.baseline = turn.baseline
        /\ turn'.taken = took
    BY <1>4, <2>3
  <2>6. how # "ignored" => page'.last = page.last
    BY <1>4, <2>1 DEF Takes
  <2> QED BY <2>1, <2>2, <2>4, <2>5, <2>6 DEF after
<1>6. /\ chat' \in [epoch : {chat.epoch}, known : {chat'.known}, lost : {chat'.lost}]
      /\ Heard' = IF turn'.taken = 0 THEN Heard ELSE Heard \union call.told
  <2>1. chat \in [epoch : Nat, known : {chat.known}, lost : {chat.lost}]
    BY <1>1 DEF TranscriptIsKnown
  <2> DEFINE told == call.told
             heard == chat.known \union told
             missed == chat.lost \union told
  <2>2. turn'.taken = turn.taken <=> turn'.taken = 0
    BY <1>3, <1>5
  <2>3. \/ turn'.taken = 0 /\ chat' = chat
        \/ turn'.taken # 0 /\ chat' = [chat EXCEPT !.known = heard]
        \/ turn'.taken # 0 /\ chat' = [chat EXCEPT !.lost = missed]
    BY <2>2 DEF Send
  <2> HIDE DEF heard, missed, told
  <2>4. CASE turn'.taken = 0 /\ chat' = chat
    BY <2>1, <2>4 DEF Heard
  <2>5. CASE turn'.taken # 0 /\ chat' = [chat EXCEPT !.known = heard]
    <3>1. chat' \in [epoch : {chat.epoch}, known : {chat'.known}, lost : {chat'.lost}]
          /\ chat'.known = heard /\ chat'.lost = chat.lost
      BY <2>1, <2>5
    <3> QED BY <2>5, <3>1 DEF Heard, heard, told
  <2>6. CASE turn'.taken # 0 /\ chat' = [chat EXCEPT !.lost = missed]
    <3>1. chat' \in [epoch : {chat.epoch}, known : {chat'.known}, lost : {chat'.lost}]
          /\ chat'.known = chat.known /\ chat'.lost = missed
      BY <2>1, <2>6
    <3> QED BY <2>6, <3>1 DEF Heard, missed, told
  <2> QED BY <2>3, <2>4, <2>5, <2>6
<1>7. chat'.epoch = chat.epoch /\ Heard \subseteq Heard'
  BY <1>6
<1>8. ClientShape' /\ TranscriptIsKnown'
  BY <1>1, <1>2, <1>6, <1>7, SameMemory
<1>9. CallIsTold'
  <2>1. call.running => call.logical \in Seq(Messages)
    BY <1>1 DEF CallIsTold
  <2>2. ASSUME call.running, ~(client.strayed /\ chat.epoch > 0)
        PROVE  Range(call.logical) \subseteq Heard \union call.told
    BY <1>1, <1>3, <2>2 DEF CallIsTold
  <2>3. ASSUME call.running, ~(client.strayed /\ chat.epoch > 0)
        PROVE  Range(call.logical) \subseteq
                 Heard' \union (IF turn'.taken = 0 THEN call.told ELSE {})
    BY <1>6, <2>2, <2>3
  <2> QED BY <1>2, <1>7, <2>1, <2>3 DEF CallIsTold
<1>10. AnswerIsKnown'
  <2>1. page'.last = turn.baseline /\ page'.last # turn'.prompt
    BY <1>3, <1>4, <1>5
  <2> QED BY <1>3, <1>5, <2>1 DEF AnswerIsKnown
<1> QED BY <1>8, <1>9, <1>10

\* What the model says is known.
LEMMA SayTells ==
  ASSUME IInv, IInv', ContextInv, Say PROVE ContextInv'
<1> SUFFICES ASSUME client.style # "bare"
             PROVE  (ClientShape /\ TranscriptIsKnown /\ CallIsTold /\ AnswerIsKnown)'
  BY DEF ContextInv, ClientIs, Say
<1>1. ClientShape /\ TranscriptIsKnown /\ CallIsTold /\ AnswerIsKnown
  BY DEF ContextInv
<1>2. UNCHANGED <<executor, call, client>> /\ turn' = turn
  BY DEF Say, Generated
<1>3. page.busy # 0 /\ page'.last = page.busy /\ page'.busy = 0
  <2>1. page \in [draft : {"empty", "whole", "spoiled"}, lingers : BOOLEAN,
                  busy : 0..MaxPrompts, last : 0..MaxPrompts]
    BY DEF IInv, PageInv, PageTypeOK
  <2> QED BY <2>1 DEF Say, Generated
<1>4. /\ chat' \in [epoch : {chat.epoch}, known : {chat'.known}, lost : {chat'.lost}]
      /\ Heard' = Heard \union {Raw(page.busy), Remade(page.busy)}
  <2>1. chat \in [epoch : Nat, known : {chat.known}, lost : {chat.lost}]
    BY <1>1 DEF TranscriptIsKnown
  <2> DEFINE more == chat.known \union {Raw(page.busy), Remade(page.busy)}
  <2>2. chat' = [chat EXCEPT !.known = more]
    BY DEF Say
  <2> HIDE DEF more
  <2>3. /\ chat' \in [epoch : {chat.epoch}, known : {chat'.known}, lost : {chat'.lost}]
        /\ chat'.known = more /\ chat'.lost = chat.lost
    BY <2>1, <2>2
  <2> QED BY <2>3 DEF more, Heard
<1>5. chat'.epoch = chat.epoch /\ Heard \subseteq Heard'
  BY <1>4
<1>6. ClientShape' /\ TranscriptIsKnown'
  BY <1>1, <1>2, <1>4, <1>5, SameMemory
<1>7. CallIsTold'
  BY <1>1, <1>2, <1>5 DEF CallIsTold
<1>8. AnswerIsKnown'
  BY <1>1, <1>2, <1>3, <1>4 DEF AnswerIsKnown
<1> QED BY <1>6, <1>7, <1>8

\* A call that ends without an answer leaves all as it was.
LEMMA EndTells ==
  ASSUME IInv, ContextInv, turn' = NoTurn, call' = NoCall, UNCHANGED <<executor, client, chat>>
  PROVE  ContextInv'
<1> SUFFICES ASSUME client.style # "bare"
             PROVE  (ClientShape /\ TranscriptIsKnown /\ CallIsTold /\ AnswerIsKnown)'
  BY DEF ContextInv, ClientIs
<1>1. ClientShape /\ TranscriptIsKnown /\ CallIsTold /\ AnswerIsKnown
  BY DEF ContextInv
<1>2. ~call'.running /\ turn'.phase = "idle"
  BY NoCallIs DEF NoTurn
<1>3. ClientShape' /\ TranscriptIsKnown'
  <2>1. chat' \in [epoch : {chat.epoch}, known : {chat'.known}, lost : {chat'.lost}]
    BY <1>1 DEF TranscriptIsKnown
  <2> QED BY <1>1, <1>2, <2>1, HeardStays, SameMemory
<1> QED BY <1>2, <1>3 DEF CallIsTold, AnswerIsKnown

\* A turn that starts has taken nothing, and its answer is not there.
LEMMA StartedTurn ==
  ASSUME IInv, StartTurn
  PROVE  turn'.phase = "settle" /\ turn'.taken = 0 /\ page'.last # turn'.prompt
<1>1. turn' = [phase |-> "settle", prompt |-> prompts + 1, baseline |-> 0, answer |-> 0,
               taken |-> 0, whole |-> TRUE, late |-> FALSE]
  BY DEF StartTurn, NoTurn
<1>2. page' = page /\ page.last \in 0..prompts /\ prompts \in Nat
  BY BoundsAssumption DEF StartTurn, IInv, PageInv, PageTypeOK, PagesBounded
<1> QED BY <1>1, <1>2

LEMMA RepairTells ==
  ASSUME IInv, ContextInv, Answered, NEW text, Repair(text) \/ RepairFormat(text)
  PROVE  ContextInv'
<1> SUFFICES ASSUME client.style # "bare"
             PROVE  (ClientShape /\ TranscriptIsKnown /\ CallIsTold /\ AnswerIsKnown)'
  BY DEF ContextInv, ClientIs, Repair, RepairFormat
<1>1. ClientShape /\ TranscriptIsKnown /\ CallIsTold /\ AnswerIsKnown
  BY DEF ContextInv
<1>2. StartTurn /\ UNCHANGED <<executor, client, chat>> /\ call.running
  BY DEF Repair, RepairFormat, Answered
<1>3. call'.running /\ call'.logical = call.logical /\ call'.told = {}
  <2>1. CallShape(call)
    BY DEF IInv
  <2>2. CASE Repair(text)
    <3> DEFINE n == call.repairs + 1
    <3>1. call' = [call EXCEPT !.repairs = n, !.told = {}]
      BY <2>2 DEF Repair
    <3> HIDE DEF n
    <3> QED BY <1>2, <2>1, <3>1 DEF CallShape
  <2>3. CASE RepairFormat(text)
    <3>1. call' = [call EXCEPT !.formatted = TRUE, !.told = {}]
      BY <2>3 DEF RepairFormat
    <3> QED BY <1>2, <2>1, <3>1 DEF CallShape
  <2> QED BY <2>2, <2>3
<1>4. ClientShape' /\ TranscriptIsKnown'
  <2>1. chat' \in [epoch : {chat.epoch}, known : {chat'.known}, lost : {chat'.lost}]
    BY <1>1, <1>2 DEF TranscriptIsKnown
  <2> QED BY <1>1, <1>2, <1>3, <2>1, HeardStays, SameMemory
<1>5. CallIsTold'
  <2>1. turn.taken # 0
    BY <1>1 DEF AnswerIsKnown, Answered
  <2>2. turn'.taken = 0
    BY <1>2, StartedTurn
  <2> QED BY <1>1, <1>2, <1>3, <2>1, <2>2, HeardStays DEF CallIsTold
<1>6. AnswerIsKnown'
  BY <1>2, StartedTurn DEF AnswerIsKnown
<1> QED BY <1>4, <1>5, <1>6

\* A reset forgets: the next request tells everything.
LEMMA ResetTells ==
  ASSUME IInv, ContextInv, Reset PROVE ContextInv'
<1> DEFINE n == client.resets + 1
<1>1. client' = [client EXCEPT !.resets = n, !.strayed = FALSE]
  BY DEF Reset
<1> HIDE DEF n
<1>2. /\ ClientIs(client') /\ client'.style = client.style
      /\ client'.transcript = client.transcript /\ client'.open = client.open
      /\ client'.request = client.request /\ client'.served = client.served
      /\ client'.repair = client.repair
  BY <1>1 DEF ContextInv, ClientIs
<1> SUFFICES ASSUME client.style # "bare"
             PROVE  (ClientShape /\ TranscriptIsKnown /\ CallIsTold /\ AnswerIsKnown)'
  BY <1>2 DEF ContextInv
<1>3. ClientShape /\ TranscriptIsKnown
  BY DEF ContextInv
<1>4. ~call.running /\ ~client.repair /\ UNCHANGED <<turn, call>> /\ turn.phase = "idle"
  BY DEF Reset, IInv, CallSound
<1>5. executor'.history = <<>>
  BY DEF Reset, FreshExecutor
<1>6. ~Tells(executor, client)'
  BY <1>5 DEF Tells
<1>7. chat' \in [epoch : Nat, known : {chat'.known}, lost : {chat'.lost}] /\ (chat'.epoch = 0 => chat' = chat)
  <2>1. chat \in [epoch : Nat, known : {chat.known}, lost : {chat.lost}]
    BY <1>3 DEF TranscriptIsKnown
  <2>2. CASE UNCHANGED chat
    BY <2>1, <2>2
  <2>3. CASE chat' = NewChat(chat.epoch + 1)
    <3>1. chat.epoch + 1 \in Nat \ {0}
      BY <2>1
    <3> QED BY <2>3, <3>1 DEF NewChat
  <2> QED BY <2>2, <2>3 DEF Reset
<1>8. TranscriptIsKnown'
  <2>1. executor'.history \in Seq(Messages)
    BY <1>5
  <2>2. chat'.epoch = 0 => Range(client'.transcript) \subseteq Heard'
    BY <1>2, <1>3, <1>7, HeardStays DEF TranscriptIsKnown, Known
  <2> QED BY <1>6, <1>7, <2>1, <2>2 DEF TranscriptIsKnown, Known
<1>9. ClientShape'
  <2>1. ~client.served => Fits(client'.request, client'.transcript,
                               Tells(executor, client)' => Known(client.request.logical)')
    BY <1>2, <1>3, <1>6, FitsAlso DEF ClientShape
  <2> QED BY <1>2, <1>3, <1>4, <2>1 DEF ClientShape
<1>10. CallIsTold' /\ AnswerIsKnown'
  BY <1>4 DEF CallIsTold, AnswerIsKnown
<1> QED BY <1>8, <1>9, <1>10

-----------------------------------------------------------------------------
(* Requests *)

\* What execute makes of its memory before an answer is there leaves the history alone.
LEMMA ResumedHistory ==
  ASSUME NEW e, NEW logical, Memory(e) PROVE Resumed(e, logical).history = e.history
<1> DEFINE text == Last(UserTurns(logical)).text
           f == [e EXCEPT !.active = text]
<1>1. Resumed(e, logical) \in {e, f}
  BY DEF Resumed
<1> HIDE DEF text
<1>2. f.history = e.history
  BY DEF Memory
<1> QED BY <1>1, <1>2

LEMMA RetaskedHistory ==
  ASSUME NEW e, NEW key, Memory(e) PROVE Retasked(e, key).history = e.history
<1> DEFINE n == NoEvidence
           f == [e EXCEPT !.task = key, !.evidence = n, !.exploring = {}, !.mutating = {}]
<1>1. Retasked(e, key) \in {e, f}
  BY DEF Retasked
<1> HIDE DEF n
<1>2. f.history = e.history
  BY DEF Memory
<1> QED BY <1>1, <1>2

LEMMA EvidencedHistory ==
  ASSUME NEW e, NEW ids, Memory(e) PROVE Evidenced(e, ids).history = e.history
<1> DEFINE n == [explored |-> e.evidence.explored \/ ids \intersect e.exploring # {},
                 mutated |-> e.evidence.mutated \/ ids \intersect e.mutating # {},
                 used |-> e.evidence.used \/ ids \intersect e.pending # {}]
           f == [e EXCEPT !.evidence = n]
<1>1. Evidenced(e, ids) = f
  BY DEF Evidenced
<1> HIDE DEF n
<1>2. f.history = e.history
  BY DEF Memory
<1> QED BY <1>1, <1>2

LEMMA PreparedHistory ==
  ASSUME NEW e, NEW m, NEW r, Memory(e), Sound(e, m) PROVE Prepared(e, r).history = e.history
<1> DEFINE selected == Selected(e, r)
           ids == Settles(e, selected)
           retasked == IF IsResult(selected) THEN e ELSE Retasked(e, TaskKey(r.logical))
           resumed == IF IsSynthetic(Last(selected)) THEN retasked ELSE Resumed(retasked, r.logical)
<1>1. Prepared(e, r) = Evidenced(resumed, ids)
  BY DEF Prepared
<1>2. Memory(retasked) /\ Sound(retasked, m) /\ retasked.history = e.history
  BY RetaskedSound, RetaskedHistory
<1> HIDE DEF retasked
<1>3. Memory(resumed) /\ resumed.history = e.history
  BY <1>2, ResumedSound, ResumedHistory
<1> HIDE DEF resumed
<1> QED BY <1>1, <1>3, EvidencedHistory

LEMMA ServedIs ==
  ASSUME ClientIs(client), NEW r, Served(r)
  PROVE  /\ ClientIs(client') /\ client'.style = client.style
         /\ client'.transcript = client.transcript /\ client'.open = client.open
         /\ client'.request = r /\ client'.strayed = client.strayed
         /\ ~client'.served /\ ~client'.repair
<1> DEFINE n == client.asked + 1
<1>1. client' = [client EXCEPT !.request = r, !.served = FALSE, !.repair = FALSE, !.asked = n]
  BY DEF Served
<1> HIDE DEF n
<1> QED BY <1>1 DEF ClientIs

\* A request that is refused may be asked again.
LEMMA RefusalTells ==
  ASSUME IInv, ContextInv, ~call.running, NEW kind \in Requests,
         client.repair <=> kind = "repair", NEW r \in Asked(kind), Refuse(r) \/ RefuseStray(r)
  PROVE  ContextInv'
<1>1. /\ ClientIs(client') /\ client'.style = client.style
      /\ client'.transcript = client.transcript /\ client'.open = client.open
      /\ client'.request = r /\ client'.strayed = client.strayed
      /\ ~client'.served /\ ~client'.repair
  BY ServedIs DEF ContextInv, Refuse, RefuseStray
<1> SUFFICES ASSUME client.style # "bare"
             PROVE  (ClientShape /\ TranscriptIsKnown /\ CallIsTold /\ AnswerIsKnown)'
  BY <1>1 DEF ContextInv
<1>2. ClientShape /\ TranscriptIsKnown
  BY DEF ContextInv
<1>3. UNCHANGED <<turn, call, chat>> /\ turn.phase = "idle"
  BY DEF Refuse, RefuseStray, pageVars, IInv, CallSound
<1>4. executor'.history = executor.history
  <2>1. CASE Refuse(r)
    BY <2>1 DEF Refuse
  <2>2. CASE RefuseStray(r)
    <3> DEFINE e == Resumed(executor, r.logical)
               ids == BeforeStray(executor, Selected(executor, r))
    <3>1. executor' = Evidenced(e, ids)
      BY <2>2 DEF RefuseStray
    <3>2. Memory(e) /\ e.history = executor.history
      BY ResumedSound, ResumedHistory DEF IInv
    <3> HIDE DEF e, ids
    <3> QED BY <3>1, <3>2, EvidencedHistory
  <2> QED BY <2>1, <2>2
<1>5. Fits(r, client.transcript, Tells(executor, client) => Known(r.logical))
  BY <1>2, AskedFits
<1>6. Tells(executor, client)' <=> Tells(executor, client)
  BY <1>1, <1>3, <1>4 DEF Tells
<1>7. \A m : Known(m)' <=> Known(m)
  BY <1>3, HeardStays DEF Known
<1>8. TranscriptIsKnown'
  BY <1>1, <1>2, <1>3, <1>4, <1>6, <1>7 DEF TranscriptIsKnown, Known
<1>9. ClientShape'
  <2>1. Fits(client'.request, client'.transcript,
             Tells(executor, client)' => Known(client.request.logical)')
    <3>1. Known(client.request.logical)' <=> Known(r.logical)
      BY <1>1, <1>3, HeardStays DEF Known
    <3> QED BY <1>1, <1>5, <1>6, <3>1, FitsAlso
  <2>2. r.logical \in Seq(Messages)
    BY <1>5 DEF Fits
  <2> QED BY <1>1, <1>2, <1>3, <2>1, <2>2 DEF ClientShape
<1>10. CallIsTold' /\ AnswerIsKnown'
  BY <1>3 DEF CallIsTold, AnswerIsKnown
<1> QED BY <1>8, <1>9, <1>10

\* What a request says is known when it begins, or goes out with its prompt.
LEMMA BeginTells ==
  ASSUME IInv, ContextInv, ~call.running, NEW kind \in Requests,
         client.repair <=> kind = "repair", NEW r \in Asked(kind), Begin(r)
  PROVE  ContextInv'
<1>1. /\ ClientIs(client') /\ client'.style = client.style
      /\ client'.transcript = client.transcript /\ client'.open = client.open
      /\ client'.request = r /\ client'.strayed = client.strayed
      /\ ~client'.served /\ ~client'.repair
  BY ServedIs DEF ContextInv, Begin
<1> SUFFICES ASSUME client.style # "bare"
             PROVE  (ClientShape /\ TranscriptIsKnown /\ CallIsTold /\ AnswerIsKnown)'
  BY <1>1 DEF ContextInv
<1>2. ClientShape /\ TranscriptIsKnown
  BY DEF ContextInv
<1> DEFINE known == IF ResetsItself(executor, r) THEN FreshExecutor ELSE executor
           selected == Selected(known, r)
           hydration == HistoryHydration(r.logical, selected, known.history # <<>>)
<1>3. /\ selected # <<>> /\ StartTurn /\ executor' = Prepared(known, r)
      /\ call'.running /\ call'.logical = r.logical
      /\ call'.told = Range(hydration) \union Range(Spoken(selected))
  <2>1. selected # <<>> /\ StartTurn /\ executor' = Prepared(known, r)
    BY DEF Begin
  <2> DEFINE told == Range(hydration) \union Range(Spoken(selected))
             ids == Settles(known, selected)
             tools == ~r.contract
             demand == IF r.contract THEN NoDemand ELSE Demand(executor', r)
             structured == ~r.contract /\ UserTurns(r.logical) # <<>>
                           /\ Last(UserTurns(r.logical)).text = "json"
             logical == r.logical
  <2>2. call' = [NoCall EXCEPT !.running = TRUE, !.ids = ids, !.logical = logical,
                               !.told = told, !.tools = tools, !.demand = demand,
                               !.structured = structured]
    BY DEF Begin
  <2> HIDE DEF told, ids, tools, demand, structured, logical
  <2>3. call'.running /\ call'.logical = logical /\ call'.told = told
    BY <2>2 DEF NoCall
  <2> QED BY <2>1, <2>3 DEF told, logical
<1>4. Memory(known) /\ Sound(known, made)
  BY FreshSound DEF IInv
<1>5. \/ ResetsItself(executor, r) /\ known.history = <<>>
         /\ chat' = NewChat(chat.epoch + 1)
      \/ ~ResetsItself(executor, r) /\ known.history = executor.history /\ chat' = chat
  BY DEF Begin, FreshExecutor
<1> HIDE DEF known
<1>6. executor'.history = known.history
  BY <1>3, <1>4, PreparedHistory
<1>7. chat \in [epoch : Nat, known : {chat.known}, lost : {chat.lost}]
  BY <1>2 DEF TranscriptIsKnown
<1>8. /\ chat' \in [epoch : Nat, known : {chat'.known}, lost : {chat'.lost}] /\ known.history \in Seq(Messages)
      /\ chat'.epoch = 0 \/ known.history # <<>> => chat' = chat /\ known.history = executor.history
  <2>1. CASE ResetsItself(executor, r)
    <3>1. chat.epoch + 1 \in Nat \ {0}
      BY <1>7
    <3>2. known.history = <<>> /\ chat' = NewChat(chat.epoch + 1)
      BY <1>5, <2>1
    <3>3. chat'.epoch = chat.epoch + 1 /\ chat' \in [epoch : Nat, known : {chat'.known}, lost : {chat'.lost}]
      BY <3>1, <3>2 DEF NewChat
    <3>4. known.history \in Seq(Messages)
      BY <3>2
    <3> QED BY <3>1, <3>2, <3>3, <3>4
  <2>2. CASE ~ResetsItself(executor, r)
    BY <1>2, <1>5, <1>7, <2>2 DEF TranscriptIsKnown
  <2> QED BY <2>1, <2>2
<1>9. Fits(r, client.transcript, Tells(executor, client) => Known(r.logical))
  BY <1>2, AskedFits
<1>10. r.logical \in Seq(Messages)
  BY <1>9 DEF Fits
<1>11. ASSUME Tells(executor, client)'
       PROVE  Tells(executor, client) /\ chat' = chat /\ known.history = executor.history
  BY <1>1, <1>6, <1>8, <1>11 DEF Tells
<1>12. TranscriptIsKnown'
  <2>1. chat'.epoch = 0 => Range(client'.transcript) \subseteq Heard'
    BY <1>1, <1>2, <1>8, HeardStays DEF TranscriptIsKnown, Known
  <2>2. ASSUME Tells(executor, client)'
        PROVE  Range(client'.transcript) \subseteq Heard'
               /\ Range(executor'.history) \subseteq Heard'
    BY <1>1, <1>2, <1>6, <1>11, <2>2, HeardStays DEF TranscriptIsKnown, Known
  <2> QED BY <1>1, <1>6, <1>8, <2>1, <2>2 DEF TranscriptIsKnown, Known
<1>13. ClientShape'
  <2>1. ASSUME Tells(executor, client) => Known(r.logical), Tells(executor, client)'
        PROVE  Known(client.request.logical)'
    BY <1>1, <1>11, <2>1, HeardStays DEF Known
  <2>2. Fits(client'.request, client'.transcript,
             Tells(executor, client)' => Known(client.request.logical)')
    BY <1>1, <1>9, <2>1, FitsAlso
  <2> QED BY <1>1, <1>2, <1>3, <1>10, <2>2 DEF ClientShape
<1>14. CallIsTold'
  <2>1. ASSUME ~(client.strayed /\ chat'.epoch > 0)
        PROVE  Range(r.logical) \subseteq Heard' \union call'.told
    <3> DEFINE K == Heard'
               t == client.transcript
               told == Tells(executor, client) => Known(r.logical)
               h == known.history
               s == SelectMinimalUiPrompts(PendingMessages(h, r.incoming))
    <3>1. ASSUME h # <<>>
          PROVE  Range(h) \subseteq K /\ Range(t) \subseteq K
                 /\ (told => Range(r.logical) \subseteq K)
      <4>1. Tells(executor, client) /\ chat' = chat /\ h = executor.history
        BY <1>8, <2>1, <3>1 DEF Tells
      <4> QED BY <1>2, <4>1, HeardStays DEF TranscriptIsKnown, Known
    <3>2. s = selected
      BY DEF Selected
    <3>3. s # <<>>
      BY <1>3, <3>2
    <3>4. h \in Seq(Messages) /\ Fits(r, t, told)
      BY <1>8, <1>9
    <3> HIDE DEF K, t, told, h, s
    <3>5. Range(r.logical) \subseteq
            K \union (Range(HistoryHydration(r.logical, s, h # <<>>)) \union Range(Spoken(s)))
      BY <3>1, <3>3, <3>4, RequestIsTold DEF s
    <3> QED BY <1>3, <3>2, <3>5 DEF K, h
  <2>2. turn'.taken = 0
    BY <1>3, StartedTurn
  <2> QED BY <1>1, <1>3, <1>10, <2>1, <2>2 DEF CallIsTold
<1>15. AnswerIsKnown'
  BY <1>3, StartedTurn DEF AnswerIsKnown
<1> QED BY <1>12, <1>13, <1>14, <1>15

-----------------------------------------------------------------------------
(* Answers *)

LEMMA StoredHistory ==
  ASSUME NEW h \in Seq(Messages), NEW m \in Seq(Messages), NEW x \in Messages
  PROVE  /\ StoreHistory(h, m, x) \in Seq(Messages)
         /\ Range(StoreHistory(h, m, x)) \subseteq Range(h) \union Range(m) \union {x}
<1> DEFINE long == (h \o m) \o <<x>>
           a == m \o <<x>>
<1>1. <<x>> \in Seq(Messages) /\ h \o m \in Seq(Messages)
  BY ConcatProperties
<1>2. Append(m, x) = a
  BY AppendIsConcat
<1>3. a \in Seq(Messages) /\ long \in Seq(Messages)
  BY <1>1, ConcatProperties
<1>4. StoreHistory(h, m, x) \in {long, a, m}
  BY <1>2, Zenon DEF StoreHistory
<1>5. ASSUME NEW u \in Seq(Messages), NEW v \in Seq(Messages)
      PROVE  Range(u \o v) \subseteq Range(u) \union Range(v)
  <2>1. /\ DOMAIN u = 1..Len(u) /\ DOMAIN v = 1..Len(v) /\ Len(u) \in Nat /\ Len(v) \in Nat
    BY LenProperties
  <2> DEFINE w == u \o v
             n == Len(u)
             k == Len(v)
  <2>2. /\ w \in Seq(Messages) /\ Len(w) = n + k
        /\ \A i \in 1..n + k : w[i] = IF i <= n THEN u[i] ELSE v[i - n]
    BY ConcatProperties
  <2>3. DOMAIN w = 1..Len(w)
    BY <2>2, LenProperties
  <2>4. n \in Nat /\ k \in Nat /\ DOMAIN u = 1..n /\ DOMAIN v = 1..k
    BY <2>1
  <2> HIDE DEF w, n, k
  <2>5. ASSUME NEW i \in 1..n + k PROVE w[i] \in Range(u) \union Range(v)
    <3>1. CASE i <= n
      <4>1. w[i] = u[i] /\ i \in DOMAIN u
        BY <2>2, <2>4, <3>1
      <4> QED BY <4>1 DEF Range
    <3>2. CASE ~(i <= n)
      <4>1. w[i] = v[i - n] /\ i - n \in DOMAIN v
        BY <2>2, <2>4, <3>2
      <4> QED BY <4>1 DEF Range
    <3> QED BY <3>1, <3>2
  <2>6. Range(w) \subseteq Range(u) \union Range(v)
    BY <2>2, <2>3, <2>5 DEF Range
  <2> QED BY <2>6 DEF w
<1>6. Range(<<x>>) = {x}
  BY DEF Range
<1>7. Range(a) \subseteq Range(m) \union {x}
  BY <1>1, <1>5, <1>6
<1>8. Range(long) \subseteq Range(h) \union Range(m) \union {x}
  <2>1. Range(h \o m) \subseteq Range(h) \union Range(m)
    BY <1>5
  <2>2. Range(long) \subseteq Range(h \o m) \union Range(<<x>>)
    BY <1>1, <1>5
  <2> QED BY <1>6, <2>1, <2>2
<1> HIDE DEF long, a
<1>9. CASE StoreHistory(h, m, x) = long
  BY <1>3, <1>8, <1>9
<1>10. CASE StoreHistory(h, m, x) = a
  BY <1>3, <1>7, <1>10
<1>11. CASE StoreHistory(h, m, x) = m
  BY <1>11
<1> QED BY <1>4, <1>9, <1>10, <1>11

\* The calls of an answer are remembered next to the history.
LEMMA RememberedHistory ==
  ASSUME NEW e, NEW m, NEW effects, Memory(e), Sound(e, m), DOMAIN effects \subseteq Nat
  PROVE  Remembered(e, effects).history = e.history /\ Memory(Remembered(e, effects))
<1> DEFINE p == e.pending \union DOMAIN effects
           x == e.exploring \union {id \in DOMAIN effects : "explore" \in effects[id]}
           u == e.mutating \union {id \in DOMAIN effects : "mutate" \in effects[id]}
           f == [e EXCEPT !.pending = p, !.exploring = x, !.mutating = u]
           ids == {id \in f.pending : Cardinality({j \in f.pending : j > id}) >= MaxTracked}
<1>1. Remembered(e, effects) = Consumed(f, ids)
  BY DEF Remembered
<1>2. p \in SUBSET Nat /\ x \in SUBSET Nat /\ u \in SUBSET Nat
  <2>1. e.pending \in SUBSET Nat /\ e.exploring \in SUBSET Nat /\ e.mutating \in SUBSET Nat
    BY DEF Memory
  <2> QED BY <2>1
<1> HIDE DEF p, x, u
<1>3. /\ f \in [history : {e.history}, pending : SUBSET Nat, exploring : SUBSET Nat,
               mutating : SUBSET Nat, task : {e.task}, active : {e.active},
               evidence : [explored : BOOLEAN, mutated : BOOLEAN, used : BOOLEAN]]
      /\ f.history = e.history /\ f.pending \in SUBSET Nat /\ f.exploring \in SUBSET Nat
      /\ f.mutating \in SUBSET Nat /\ f.task = e.task /\ f.active = e.active
  BY <1>2 DEF Memory
<1> HIDE DEF f, ids
<1> DEFINE q == f.pending \ ids
           y == f.exploring \ ids
           z == f.mutating \ ids
           g == [f EXCEPT !.pending = q, !.exploring = y, !.mutating = z]
<1>4. Consumed(f, ids) = g
  BY DEF Consumed
<1>5. q \in SUBSET Nat /\ y \in SUBSET Nat /\ z \in SUBSET Nat
  BY <1>3
<1> HIDE DEF q, y, z
<1>6. /\ g \in [history : {e.history}, pending : SUBSET Nat, exploring : SUBSET Nat,
               mutating : SUBSET Nat, task : {e.task}, active : {e.active},
               evidence : [explored : BOOLEAN, mutated : BOOLEAN, used : BOOLEAN]]
      /\ g.history = e.history /\ g.task = e.task /\ g.active = e.active
  BY <1>3, <1>5
<1> HIDE DEF g
<1>7. Memory(g)
  BY <1>6 DEF Memory
<1> QED BY <1>1, <1>4, <1>6, <1>7

\* The history that is kept is the one that was, or what was asked with the answer.
LEMMA CompleteHistory ==
  ASSUME IInv, NEW text \in Answers, Complete(text)
  PROVE  executor'.history = StoreHistory(executor.history, call.logical, Raw(turn.prompt))
<1> DEFINE calls == Given(text)
           new == {Len(made) + i : i \in DOMAIN calls}
           effects == [id \in new |-> Effect[calls[id - Len(made)].tool]]
           e == Consumed(executor, call.ids)
           f == Remembered(e, effects)
           x == Raw(turn.prompt)
           h == StoreHistory(f.history, call.logical, x)
<1>1. executor' = [f EXCEPT !.history = h]
  BY DEF Complete, Remember, Given
<1>2. Len(made) \in Nat /\ DOMAIN calls \subseteq Nat \ {0}
  BY CompleteMakes
<1> HIDE DEF calls
<1>3. DOMAIN effects \subseteq Nat
  BY <1>2
<1>4. Memory(e) /\ Sound(e, made) /\ e.history = executor.history
  <2> DEFINE ids == call.ids
             memory == executor
             recorded == made
  <2>1. Memory(memory) /\ Sound(memory, recorded)
    BY DEF IInv
  <2> HIDE DEF ids, memory, recorded
  <2>2. LET g == Consumed(memory, ids)
        IN  Memory(g) /\ Sound(g, recorded) /\ g.history = memory.history
    BY <2>1, ConsumedSound
  <2> QED BY <2>2 DEF ids, memory, recorded
<1> HIDE DEF e, effects
<1>5. f.history = e.history /\ Memory(f)
  BY <1>3, <1>4, RememberedHistory
<1>6. h = StoreHistory(executor.history, call.logical, x)
  BY <1>4, <1>5
<1> HIDE DEF f, h, x
<1>7. executor'.history = h
  BY <1>1, <1>5 DEF Memory
<1> QED BY <1>6, <1>7 DEF x

\* What the client holds when the call has its answer, whether it came or not
LEMMA AnsweredClient ==
  ASSUME IInv, ClientIs(client), NEW text \in Answers, Complete(text)
  PROVE  /\ ClientIs(client') /\ client'.style = client.style
         /\ client'.request = client.request
         /\ \/ /\ client'.served
               /\ ~client.repair => ~client'.repair
               /\ client'.strayed = client.strayed
               /\ client'.transcript \in {Append(call.logical, Raw(turn.prompt)),
                                          Append(call.logical, Remade(turn.prompt))}
               /\ client'.open \in Seq(Nat)
            \/ /\ client'.served = client.served
               /\ client'.transcript = client.transcript /\ client'.open = client.open
               /\ client'.strayed = (client.strayed \/ ~IsPrefix(client.transcript, call.logical))
<1> DEFINE calls == Given(text)
           x == IF calls = <<>> /\ client.style # "contract" THEN Raw(turn.prompt)
                ELSE Remade(turn.prompt)
           t == Append(call.logical, x)
           o == [i \in DOMAIN calls |-> Len(made) + i]
           away == ~IsPrefix(client.transcript, call.logical)
           s == client.strayed \/ away
<1>1. \/ client' = [client EXCEPT !.transcript = t, !.open = o, !.served = TRUE]
      \/ client' = [client EXCEPT !.repair = FALSE, !.strayed = s]
      \/ client' = [client EXCEPT !.repair = TRUE, !.strayed = s]
  BY DEF Complete, Given, Without
<1>2. o \in Seq(Nat)
  <2> DEFINE n == Len(made)
             k == Len(calls)
  <2>1. n \in Nat
    BY CompleteMakes
  <2>2. DOMAIN calls = 1..k /\ k \in Nat
    BY GivenSeq, LenProperties
  <2> HIDE DEF calls, n, k
  <2>3. o \in [1..k -> Nat]
    BY <2>1, <2>2 DEF n
  <2> QED BY <2>2, <2>3
<1>3. t \in {Append(call.logical, Raw(turn.prompt)), Append(call.logical, Remade(turn.prompt))}
  OBVIOUS
<1>4. s \in BOOLEAN
  OBVIOUS
<1> HIDE DEF t, o, away
<1>5. CASE client' = [client EXCEPT !.transcript = t, !.open = o, !.served = TRUE]
  <2>1. /\ ClientIs(client') /\ client'.style = client.style
        /\ client'.request = client.request /\ client'.served
        /\ client'.transcript = t /\ client'.open = o /\ client'.repair = client.repair
        /\ client'.strayed = client.strayed
    BY <1>5 DEF ClientIs
  <2> QED BY <1>2, <1>3, <2>1
<1>6. ASSUME NEW b \in BOOLEAN, client' = [client EXCEPT !.repair = b, !.strayed = s]
      PROVE  /\ ClientIs(client') /\ client'.style = client.style
             /\ client'.request = client.request /\ client'.served = client.served
             /\ client'.transcript = client.transcript /\ client'.open = client.open
             /\ client'.strayed = s
  <2> HIDE DEF s
  <2> QED BY <1>4, <1>6 DEF ClientIs
<1> QED BY <1>1, <1>5, <1>6 DEF away

\* An answer is of a history that the chat has been told, and so is what is kept of it.
LEMMA CompleteTells ==
  ASSUME IInv, ContextInv, Answered, NEW text \in Answers, Complete(text)
  PROVE  ContextInv'
<1> DEFINE m == call.logical
           x == Raw(turn.prompt)
           y == Remade(turn.prompt)
           t == client.transcript
<1>1. /\ ClientIs(client') /\ client'.style = client.style
      /\ client'.request = client.request
      /\ \/ /\ client'.served
            /\ ~client.repair => ~client'.repair
            /\ client'.strayed = client.strayed
            /\ client'.transcript \in {Append(m, x), Append(m, y)}
            /\ client'.open \in Seq(Nat)
         \/ /\ client'.served = client.served
            /\ client'.transcript = t /\ client'.open = client.open
            /\ client'.strayed = (client.strayed \/ ~IsPrefix(t, m))
  BY AnsweredClient DEF ContextInv
<1> SUFFICES ASSUME client.style # "bare"
             PROVE  (ClientShape /\ TranscriptIsKnown /\ CallIsTold /\ AnswerIsKnown)'
  BY <1>1 DEF ContextInv
<1>2. ClientShape /\ TranscriptIsKnown /\ CallIsTold /\ AnswerIsKnown
  BY DEF ContextInv
<1>3. call.running /\ turn.phase = "answered"
  BY DEF Answered
<1>4. call' = NoCall /\ turn' = NoTurn /\ chat' = chat
  BY DEF Complete
<1>5. m \in Seq(Messages) /\ client.request.logical = m /\ ~client.served /\ ~client.repair
  BY <1>2, <1>3 DEF ClientShape, CallIsTold
<1>6. {x, y} \subseteq Heard
  BY <1>2, <1>3 DEF AnswerIsKnown
<1>7. ~(client.strayed /\ chat.epoch > 0) => Range(m) \subseteq Heard
  BY <1>2, <1>3 DEF CallIsTold, AnswerIsKnown
<1>8. x \in Messages /\ y \in Messages /\ x.role = "assistant" /\ y.role = "assistant"
  <2>1. turn.prompt \in Nat
    BY BoundsAssumption DEF IInv, PageInv, PageTypeOK
  <2>2. x \in Messages /\ y \in Messages
    BY <2>1, MessagesAre
  <2> QED BY <2>2 DEF Raw, Remade, Message
<1>9. executor'.history = StoreHistory(executor.history, m, x)
  BY CompleteHistory
<1>10. /\ chat.epoch \in Nat /\ executor.history \in Seq(Messages) /\ t \in Seq(Messages)
       /\ chat \in [epoch : Nat, known : {chat.known}, lost : {chat.lost}]
  BY <1>2 DEF TranscriptIsKnown, ClientShape
<1>11. /\ chat.epoch = 0 => Range(t) \subseteq Heard
       /\ Tells(executor, client) => /\ Range(t) \subseteq Heard
                                     /\ Range(executor.history) \subseteq Heard
  BY <1>2 DEF TranscriptIsKnown, Known
<1> HIDE DEF m, x, y, t
<1>12. ASSUME NEW z \in {x, y}
       PROVE  LET a == Append(m, z)
              IN  /\ a \in Seq(Messages) /\ a # <<>> /\ a[Len(a)].role = "assistant"
                  /\ Range(a) \subseteq Range(m) \union {z}
  <2> DEFINE a == Append(m, z)
             n == Len(m)
  <2>1. z \in Messages /\ z.role = "assistant"
    BY <1>8
  <2>2. n \in Nat /\ DOMAIN m = 1..n
    BY <1>5, LenProperties
  <2>3. a \in Seq(Messages) /\ Len(a) = n + 1 /\ a[n + 1] = z /\ a # <<>>
        /\ \A i \in 1..n : a[i] = m[i]
    BY <1>5, <2>1, AppendProperties
  <2>4. DOMAIN a = 1..n + 1
    BY <2>3, LenProperties
  <2> HIDE DEF a, n
  <2>5. ASSUME NEW i \in 1..n + 1 PROVE a[i] \in Range(m) \union {z}
    <3>1. CASE i = n + 1
      BY <2>3, <3>1
    <3>2. CASE i # n + 1
      <4>1. i \in 1..n
        BY <2>2, <3>2
      <4>2. a[i] = m[i] /\ i \in DOMAIN m
        BY <2>2, <2>3, <4>1
      <4> QED BY <4>2 DEF Range
    <3> QED BY <3>1, <3>2
  <2>6. Range(a) \subseteq Range(m) \union {z}
    BY <2>4, <2>5 DEF Range
  <2>7. a[Len(a)].role = "assistant"
    BY <2>1, <2>3
  <2> QED BY <2>3, <2>6, <2>7 DEF a
<1>13. /\ executor'.history \in Seq(Messages)
       /\ Range(executor'.history) \subseteq Range(executor.history) \union Range(m) \union {x}
  <2> DEFINE h == executor.history
  <2>1. h \in Seq(Messages) /\ m \in Seq(Messages) /\ x \in Messages
    BY <1>5, <1>8, <1>10
  <2>2. executor'.history = StoreHistory(h, m, x)
    BY <1>9
  <2> HIDE DEF h
  <2>3. executor'.history \in Seq(Messages)
        /\ Range(executor'.history) \subseteq Range(h) \union Range(m) \union {x}
    BY <2>1, <2>2, StoredHistory
  <2> QED BY <2>3 DEF h
<1>14. client'.transcript \in Seq(Messages)
       /\ (client'.transcript = t \/ Range(client'.transcript) \subseteq Range(m) \union {x, y})
  BY <1>1, <1>10, <1>12
\* Where the client has not strayed, what was told and what is kept are known.
<1>15. ASSUME ~(client'.strayed /\ chat.epoch > 0)
       PROVE  /\ ~(client.strayed /\ chat.epoch > 0)
              /\ client'.transcript = t /\ chat.epoch > 0 => IsPrefix(t, m)
                   \/ Range(t) \subseteq Range(m) \union {x, y}
  BY <1>1, <1>12, <1>14, <1>15
<1>16. ASSUME ~(client'.strayed /\ chat.epoch > 0)
       PROVE  /\ Range(m) \subseteq Heard
              /\ Range(executor'.history) \subseteq Heard
              /\ Range(client'.transcript) \subseteq Heard
  <2>1. Range(m) \subseteq Heard
    BY <1>7, <1>15, <1>16
  <2>2. Range(executor.history) \subseteq Heard
    <3>1. CASE executor.history = <<>>
      BY <3>1 DEF Range
    <3>2. CASE executor.history # <<>>
      BY <1>11, <1>15, <1>16, <3>2 DEF Tells
    <3> QED BY <3>1, <3>2
  <2>3. Range(client'.transcript) \subseteq Heard
    <3>1. CASE Range(client'.transcript) \subseteq Range(m) \union {x, y}
      BY <1>6, <2>1, <3>1
    <3>2. CASE client'.transcript = t
      <4>1. CASE chat.epoch = 0
        BY <1>11, <3>2, <4>1
      <4>2. CASE chat.epoch > 0 /\ IsPrefix(t, m)
        <5>1. Len(t) <= Len(m) /\ \A i \in 1..Len(t) : t[i] = m[i]
          BY <1>5, <1>10, <4>2, PrefixBegins
        <5>2. /\ DOMAIN t = 1..Len(t) /\ DOMAIN m = 1..Len(m)
              /\ Len(t) \in Nat /\ Len(m) \in Nat
          BY <1>5, <1>10, LenProperties
        <5>3. Range(t) \subseteq Range(m)
          <6>1. ASSUME NEW i \in DOMAIN t PROVE t[i] = m[i] /\ i \in DOMAIN m
            BY <5>1, <5>2
          <6> QED BY <6>1 DEF Range
        <5> QED BY <2>1, <3>2, <5>3
      <4>3. CASE Range(t) \subseteq Range(m) \union {x, y}
        BY <1>6, <2>1, <3>2, <4>3
      <4> QED BY <1>10, <1>15, <1>16, <3>2, <4>1, <4>2, <4>3
    <3> QED BY <1>14, <3>1, <3>2
  <2> QED BY <1>6, <1>13, <2>1, <2>2, <2>3
<1>17. TranscriptIsKnown'
  <2>1. ASSUME ~(client'.strayed /\ chat.epoch > 0)
        PROVE  Known(client.transcript)' /\ Known(executor.history)'
               /\ Known(client.request.logical)'
    BY <1>1, <1>4, <1>5, <1>16, <2>1, HeardStays DEF Known
  <2>2. chat.epoch = 0 => ~(client'.strayed /\ chat.epoch > 0)
    BY <1>10
  <2> QED BY <1>4, <1>10, <1>13, <2>1, <2>2 DEF TranscriptIsKnown, Tells
<1>18. ClientShape'
  <2>1. ~call'.running
    BY <1>4, NoCallIs
  <2>2. CASE client'.served
    <3>1. client'.transcript # <<>> /\ client'.transcript[Len(client'.transcript)].role = "assistant"
          /\ client'.open \in Seq(Nat) /\ ~client'.repair
      BY <1>1, <1>5, <1>12, <2>2
    <3> QED BY <1>1, <1>5, <1>14, <2>1, <2>2, <3>1 DEF ClientShape
  <2>3. CASE ~client'.served
    <3>1. client'.transcript = t /\ client'.open = client.open
      BY <1>1, <2>3
    <3>2. Fits(client.request, t, Tells(executor, client) => Known(client.request.logical))
      BY <1>2, <1>5 DEF ClientShape, t
    <3>3. Tells(executor, client)' => Known(client.request.logical)'
      BY <1>1, <1>4, <1>5, <1>16, HeardStays DEF Tells, Known
    <3>4. Fits(client'.request, client'.transcript,
               Tells(executor, client)' => Known(client.request.logical)')
      BY <1>1, <3>1, <3>2, <3>3, FitsAlso
    <3> QED BY <1>1, <1>2, <1>5, <2>1, <2>3, <3>1, <3>4 DEF ClientShape, t
  <2> QED BY <2>2, <2>3
<1>19. CallIsTold' /\ AnswerIsKnown'
  <2>1. ~call'.running /\ turn'.phase = "idle"
    BY <1>4, NoCallIs DEF NoTurn
  <2> QED BY <2>1 DEF CallIsTold, AnswerIsKnown
<1> QED BY <1>17, <1>18, <1>19

-----------------------------------------------------------------------------
(* The chat's context *)

LEMMA ContextInitially == Init => ContextInv
<1> SUFFICES ASSUME Init PROVE ContextInv
  OBVIOUS
<1>1. /\ client \in [style : Styles, transcript : {<<>>}, open : {<<>>}, request : {Plain(<<>>)},
                    served : {TRUE}, asked : {0}, resets : {0}, repair : {FALSE},
                    strayed : {FALSE}]
      /\ executor = FreshExecutor /\ call = NoCall /\ turn.phase = "idle"
      /\ chat = NewChat(0)
  BY DEF Init, PageInit, NoTurn
<1>2. ClientIs(client) /\ client.transcript = <<>> /\ client.open = <<>> /\ client.served
      /\ ~client.repair /\ client.request.logical = <<>>
  <2> DEFINE r == Plain(<<>>)
  <2>1. r.logical = <<>>
    BY DEF Plain, Request
  <2> HIDE DEF r
  <2>2. client \in [style : Styles, transcript : {<<>>}, open : {<<>>}, request : {r},
                    served : {TRUE}, asked : {0}, resets : {0}, repair : {FALSE},
                    strayed : {FALSE}]
    BY <1>1 DEF r
  <2>3. /\ client.transcript = <<>> /\ client.open = <<>> /\ client.served = TRUE
        /\ client.repair = FALSE /\ client.request = r /\ client.strayed = FALSE
    BY <2>2
  <2>4. ClientIs(client)
    BY <2>2, <2>3 DEF ClientIs
  <2> QED BY <2>1, <2>3, <2>4
<1>3. executor.history = <<>> /\ ~call.running
  BY <1>1, NoCallIs DEF FreshExecutor
<1>4. ClientShape
  BY <1>2, <1>3 DEF ClientShape
<1>5. TranscriptIsKnown
  <2>1. Range(<<>>) = {}
    BY DEF Range
  <2> QED BY <1>1, <1>2, <1>3, <2>1 DEF NewChat, TranscriptIsKnown, Tells, Known
<1> QED BY <1>1, <1>2, <1>3, <1>4, <1>5 DEF ContextInv, CallIsTold, AnswerIsKnown

LEMMA ContextInductive == IInv /\ IInv' /\ ContextInv /\ [Next]_vars => ContextInv'
<1> SUFFICES ASSUME IInv, IInv', ContextInv, [Next]_vars PROVE ContextInv'
  OBVIOUS
<1>1. CASE Execute
  <2>1. ~call.running
    BY <1>1 DEF Execute
  <2>2. PICK kind \in Requests :
          /\ client.repair <=> kind = "repair"
          /\ \E r \in Asked(kind) : Refuse(r) \/ RefuseStray(r) \/ Begin(r)
    BY <1>1 DEF Execute
  <2>3. PICK r \in Asked(kind) : Refuse(r) \/ RefuseStray(r) \/ Begin(r)
    BY <2>2
  <2> QED BY <2>1, <2>2, <2>3, RefusalTells, BeginTells
<1>2. CASE Judge
  <2>1. PICK text \in Answers :
          Repair(text) \/ RepairFormat(text) \/ GiveUp(text) \/ Complete(text)
    BY <1>2 DEF Judge
  <2>2. Answered
    BY <1>2 DEF Judge
  <2> QED BY <2>1, <2>2, RepairTells, EndTells, CompleteTells DEF GiveUp
<1>3. CASE Fail
  BY <1>3, EndTells DEF Fail
<1>4. CASE UNCHANGED vars
  BY <1>4, HeardStays DEF vars, pageVars, logicVars, ContextInv, ClientIs, ClientShape, TranscriptIsKnown,
     CallIsTold, AnswerIsKnown, Known, Tells
<1> QED BY <1>1, <1>2, <1>3, <1>4, TurnTells, SendTells, SayTells, ResetTells DEF Next

\* The history of a request that is answered is known to the chat, by earlier prompts or
\* with this one (historyHydration and selectMinimalUiPrompts), or was in a prompt its
\* editor changed after the last look: for any requests that come with their history,
\* answers and bounds, and any client but one that strayed after the chat was left.
THEOREM ContextIsKnown == Spec => ContextKnown
<1>1. Spec => []ContextInv
  BY Always, ContextInitially, ContextInductive, PTL DEF Spec
<1>2. IInv /\ ContextInv /\ [Next]_vars =>
        [client.style # "bare" /\ Answered /\ turn'.phase = "idle" /\ executor' # executor
           /\ ~(client.strayed /\ chat.epoch > 0)
           => Range(call.logical) \subseteq chat.known \union chat.lost]_vars
  BY DEF ContextInv, CallIsTold, AnswerIsKnown, Answered, Heard
<1> QED BY <1>1, <1>2, Always, PTL DEF Spec, ContextKnown

=============================================================================
