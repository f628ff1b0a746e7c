---------------------------- MODULE ReadPathProofs ----------------------------
(***************************************************************************)
(* The answer of a read, for any responses, pieces, failures and circuit:  *)
(* what is streamed is what is returned, an answer of the tap alone is a   *)
(* whole response, and the verdict on the tap is earned.  The invariant    *)
(* says who waits in the queue and what for, how far the tap task has      *)
(* followed the one response of the log, and what read() knows at each of  *)
(* its places.  Its steps fall into kinds: the monitor's, the task's,      *)
(* read()'s, and the run of the head of the queue.                         *)
(***************************************************************************)
EXTENDS ReadPath, SequenceTheorems, TLAPS

-----------------------------------------------------------------------------
(* The inductive invariant *)

After == {"judging", "final", "closing"}

\* The shapes of the state
ReaderShape(r) ==
  r \in [pc : {"idle", "armed", "racing", "failing", "draining", "done"} \union After,
         kind : {"stream", "contract", "plain"}, trusted : BOOLEAN, aborted : BOOLEAN,
         winner : {None, "dom", "tap"}, text : Texts, final : Texts, error : {r.error}]
TaskShape(t) ==
  /\ t \in [pc : {"off", "on", "cancelling", "done", "failed"}, head : Nat,
         matched : Bodies \union {None}, came : 0..Chunks, got : 0..Chunks, ended : BOOLEAN,
         failure : {t.failure}, settle : BOOLEAN, error : {None, "mismatch", "client"}]
  /\ t.pc = "failed" <=> t.error # None
MonShape(m) ==
  /\ m \in [pc : {"off", "top", "reading", "judging", "returned", "failed"},
         last : Texts, streamed : Texts, fresh : BOOLEAN, error : {m.error}]
  /\ m.pc # "failed" => m.error = None
RecShape(r) == r \in [source : {"tap", "dom"}, emitted : Seq(Nat), dom : Seq(Nat)]
Entries == [by : {"task", "mon", "read"}, act : {"tap", "dom", "direct", "fallback", "final"},
            d : Seq(Nat)]
Said == Failures \union {"decode_error", "verify_mismatch", "profile_mismatch", "verified"}

Shapes ==
  /\ ReaderShape(reader) /\ TaskShape(task) /\ MonShape(mon) /\ RecShape(rec)
  /\ turn \in [mode : {"disabled", "shadow", "active"}, profile : Profiles \union {None}]
  /\ health \in Health /\ delivered \in Seq(Nat) /\ chain \in Seq(Entries)
  /\ verdicts \in Seq(Said)

\* What the tap tells of response b, one event after the other
EventAt(b, i) ==
  IF i = 1 THEN Matched(b) ELSE IF i <= Chunks + 1 THEN Chunk(b, i - 1) ELSE End(b)
Event == [type : {"matched", "chunk", "end", "error"}, of : Bodies \union Failures, n : Nat]
Feeds(l, b) ==
  \A i \in 1..Len(l) :
    l[i] = EventAt(b, i) \/ (i = Len(l) /\ \E f \in Failures : l[i] = Failure(f))
LogShape(l) ==
  /\ l \in Seq(Event) /\ Len(l) <= Chunks + 2
  /\ \/ l = <<>> \/ \E f \in Failures : l = <<Failure(f)>>
     \/ \E b \in Bodies : Feeds(l, b)

\* The first n events are those of response b.
Brought(l, b, n) == n <= Len(l) /\ \A i \in 1..n : i <= Chunks + 1 => l[i] = EventAt(b, i)

\* A task that has met no failure has taken what the tap has told of one response.
Follows(t, l, kind) ==
  /\ t.head <= Len(l) /\ (t.head = 0 => t.matched = None)
  /\ t.failure = None =>
       /\ t.got <= t.came
       /\ t.head = 0 => t.came = 0
       /\ t.head # 0 => t.matched # None /\ Brought(l, t.matched, t.head)
       /\ t.head \in 1..Chunks + 1 => t.came = t.head - 1
       /\ t.ended => t.got = Chunks
       /\ t.ended <=> t.head = Chunks + 2
       /\ t.ended => l[Chunks + 2] = End(t.matched) \/ kind = "contract"
  /\ t.settle => kind = "contract" /\ (t.failure = None => t.got = Chunks)

FeedSound == LogShape(log) /\ (Closing(log) => over) /\ Follows(task, log, reader.kind)

\* Who waits in the queue, and what for
OneEach == \A i, j \in DOMAIN chain : chain[i].by = chain[j].by => i = j
Queue ==
  /\ OneEach
  /\ Waiting("task") => task.pc \in {"on", "cancelling"}
  /\ Waiting("mon") => mon.pc = "judging"
  /\ Waiting("read") => reader.pc \in After

\* What read() knows at each of its places
ReadSound ==
  /\ reader.pc \in {"idle", "armed"} =>
       /\ task = NoTask /\ mon = NoMonitor /\ rec = NewReconciler(FALSE)
       /\ chain = <<>> /\ delivered = <<>> /\ verdicts = <<>>
  /\ reader.pc \in {"idle", "armed", "racing", "failing"} => reader.winner = None
  /\ reader.pc = "racing" /\ ~Hybrid => task.pc = "off"
  /\ reader.pc \in {"failing", "draining"} \union After => over
  /\ reader.pc \in After \union {"done"} => task.pc \notin {"on", "cancelling"}
  /\ reader.pc = "failing" /\ reader.error = "timeout" => mon.pc = "failed" /\ mon.error = "timeout"
  /\ Streams =>
       /\ reader.pc \in {"draining"} \union After =>
            mon.pc \in {"returned", "failed"} /\ mon.error # "client"
       /\ reader.pc \in After => task.error # "client"

\* The client was told what was emitted, unless it has refused something.
Told ==
  Streams => \/ delivered = rec.emitted
             \/ "client" \in {task.error, mon.error} \/ reader.pc = "done"

\* The final text is the last in the queue, and then it is what was emitted.
ClosingSound ==
  reader.pc = "closing" =>
    IF Waiting("read") THEN chain[Len(chain)] = Entry("read", "final", reader.final)
                       ELSE chain = <<>> /\ rec.emitted = reader.final

VerdictSound ==
  /\ VerdictIsEarned
  /\ verdicts # <<>> => task.failure # None \/ reader.pc \in {"final", "closing", "done"}
  /\ "verified" \in {verdicts[i] : i \in DOMAIN verdicts} =>
       over /\ reader.pc \in {"final", "closing", "done"}

\* An answer that is the tap's came whole.
TapSound ==
  reader.winner = "tap" =>
    /\ reader.text = Answer
    /\ task.head > Chunks /\ task.matched # None /\ Brought(log, task.matched, Chunks + 1)
    /\ reader.pc \in {"final", "closing", "done"} /\ reader.error = None => reader.final = Answer

IInv == Shapes /\ FeedSound /\ Queue /\ ReadSound /\ Told /\ ClosingSound /\ VerdictSound /\ TapSound

-----------------------------------------------------------------------------
(* The operators *)

LEMMA TextsAre ==
  /\ <<>> \in Texts
  /\ \A t \in Texts : t \in Seq(Nat)
  /\ \A n \in 0..Chunks : SubSeq(Answer, 1, n) \in Texts
  /\ Answer \in Texts /\ SubSeq(Answer, 1, Chunks) = Answer
<1> USE ReadAssumption
<1>1. Answer \in Seq(1..Chunks) /\ Len(Answer) = Chunks /\ Answer \in [1..Chunks -> 1..Chunks]
  BY DEF Answer
<1>2. ASSUME NEW n \in 0..Chunks PROVE SubSeq(Answer, 1, n) \in [1..n -> 0..Chunks]
  <2>1. SubSeq(Answer, 1, n) \in Seq(0..Chunks) /\ Len(SubSeq(Answer, 1, n)) = n
    BY <1>1
  <2>2. SubSeq(Answer, 1, n) \in [1..Len(SubSeq(Answer, 1, n)) -> 0..Chunks]
    BY <2>1, LenProperties
  <2> QED BY <2>1, <2>2
<1>3. <<>> \in [1..0 -> 0..Chunks]
  OBVIOUS
<1>4. \A n \in 0..Chunks : \A t \in [1..n -> 0..Chunks] : t \in Texts /\ t \in Seq(Nat)
  BY DEF Texts
<1>5. SubSeq(Answer, 1, Chunks) = Answer
  BY <1>1
<1>6. Chunks \in 0..Chunks /\ 0 \in 0..Chunks
  OBVIOUS
<1>7. \A n \in 0..Chunks : SubSeq(Answer, 1, n) \in Texts
  BY <1>2, <1>4
<1>8. Answer \in Texts /\ <<>> \in Texts
  BY <1>3, <1>4, <1>5, <1>6, <1>7
<1>9. \A t \in Texts : t \in Seq(Nat)
  BY <1>4 DEF Texts
<1> QED BY <1>5, <1>7, <1>8, <1>9

\* The events of a whole response, in order
LEMMA WholeIs ==
  ASSUME NEW b \in Bodies
  PROVE  /\ Whole(b) \in Seq(Event) /\ Len(Whole(b)) = Chunks + 2
         /\ \A i \in 1..Chunks + 2 : Whole(b)[i] = EventAt(b, i)
<1> USE ReadAssumption
<1> DEFINE mid == [n \in 1..Chunks |-> Chunk(b, n)]
<1>1. Matched(b) \in Event /\ End(b) \in Event /\ \A n \in 1..Chunks : Chunk(b, n) \in Event
  BY DEF Matched, End, Chunk, Event
<1>2. mid \in Seq(Event) /\ Len(mid) = Chunks /\ \A n \in 1..Chunks : mid[n] = Chunk(b, n)
  BY <1>1
<1> HIDE DEF mid
<1>3. Whole(b) = <<Matched(b)>> \o mid \o <<End(b)>>
  BY DEF Whole, mid
<1> QED BY <1>1, <1>2, <1>3 DEF EventAt

LEMMA BroughtIsPrefix ==
  ASSUME NEW b \in Bodies, LogShape(log), Brought(log, b, Chunks + 1)
  PROVE  IsPrefix(SubSeq(Whole(b), 1, Chunks + 1), log)
<1> USE ReadAssumption
<1> DEFINE s == SubSeq(Whole(b), 1, Chunks + 1)
<1>1. s \in Seq(Event) /\ Len(s) = Chunks + 1 /\ \A i \in 1..Chunks + 1 : s[i] = EventAt(b, i)
  BY WholeIs
<1>2. log \in Seq(Event) /\ Len(log) \in Nat /\ Chunks + 1 <= Len(log)
      /\ \A i \in 1..Chunks + 1 : log[i] = EventAt(b, i)
  BY LenProperties DEF LogShape, Brought
<1> DEFINE l == SubSeq(log, 1, Chunks + 1)
<1>3. l \in Seq(Event) /\ Len(l) = Chunks + 1 /\ \A i \in 1..Chunks + 1 : l[i] = EventAt(b, i)
  BY <1>2
<1> HIDE DEF s, l
<1>4. s = l
  BY <1>1, <1>3, SeqEqual
<1>5. SubSeq(s, 1, Len(s)) = s
  BY <1>1
<1> QED BY <1>1, <1>2, <1>4, <1>5 DEF IsPrefix, s, l

LEMMA LogsAre ==
  ASSUME NEW l \in Logs PROVE LogShape(l)
<1> USE ReadAssumption
<1>1. \A b \in Bodies : /\ Whole(b) \in Seq(Event) /\ Len(Whole(b)) = Chunks + 2
                        /\ \A i \in 1..Chunks + 2 : Whole(b)[i] = EventAt(b, i)
  BY WholeIs
<1>2. ASSUME NEW b \in Bodies, NEW n \in 0..Chunks + 1
      PROVE  LET s == SubSeq(Whole(b), 1, n) IN
             /\ s \in Seq(Event) /\ Len(s) = n
             /\ \A i \in 1..n : s[i] = EventAt(b, i)
  BY <1>1
<1>3. CASE \E b \in Bodies, n \in 0..Chunks + 1 : l = SubSeq(Whole(b), 1, n)
  BY <1>2, <1>3 DEF LogShape, Feeds
<1>4. CASE \E b \in Bodies : l = Whole(b)
  BY <1>1, <1>4 DEF LogShape, Feeds
<1>5. CASE \E b \in Bodies, n \in 0..Chunks + 1, f \in Failures :
             l = Append(SubSeq(Whole(b), 1, n), Failure(f))
  <2> PICK b \in Bodies, n \in 0..Chunks + 1, f \in Failures :
             l = Append(SubSeq(Whole(b), 1, n), Failure(f))
    BY <1>5
  <2> DEFINE s == SubSeq(Whole(b), 1, n)
  <2>1. s \in Seq(Event) /\ Len(s) = n /\ \A i \in 1..n : s[i] = EventAt(b, i)
    BY <1>2
  <2>2. l = Append(s, Failure(f))
    OBVIOUS
  <2> HIDE DEF s
  <2>3. Failure(f) \in Event
    BY DEF Failure, Event
  <2> QED BY <2>1, <2>2, <2>3 DEF LogShape, Feeds
<1> DEFINE none == <<>>
           parts == {SubSeq(Whole(b), 1, n) : b \in Bodies, n \in 0..Chunks + 1}
           some == {none} \union parts
<1>6. ASSUME l \in some PROVE LogShape(l)
  <2>1. CASE l = none
    BY <2>1 DEF LogShape
  <2>2. CASE l \in parts
    BY <1>3, <2>2
  <2> QED BY <1>6, <2>1, <2>2
<1>7. ASSUME l \in {Whole(b) : b \in Bodies} PROVE LogShape(l)
  BY <1>4, <1>7
<1>8. ASSUME l \in {Append(k, Failure(f)) : k \in some, f \in Failures} PROVE LogShape(l)
  <2>1. PICK k \in some, f \in Failures : l = Append(k, Failure(f))
    BY <1>8
  <2>2. CASE k \in parts
    <3>1. PICK b \in Bodies, n \in 0..Chunks + 1 : k = SubSeq(Whole(b), 1, n)
      BY <2>2
    <3> QED BY <1>5, <2>1, <3>1
  <2>3. CASE k = none
    <3>1. l = <<Failure(f)>> /\ Failure(f) \in Event
      BY <2>1, <2>3 DEF Failure, Event
    <3> QED BY <3>1 DEF LogShape
  <2> HIDE DEF parts
  <2> QED BY <2>2, <2>3
<1>9. l \in some \union {Whole(b) : b \in Bodies}
                 \union {Append(k, Failure(f)) : k \in some, f \in Failures}
  BY DEF Logs
<1> HIDE DEF some, parts
<1> QED BY <1>6, <1>7, <1>8, <1>9

LEMMA HealthIs ==
  ASSUME NEW h \in Health
  PROVE  /\ \A reason : FailureRecorded(h, reason) \in Health
         /\ \A p \in Profiles : VerifiedRecorded(h, p) \in Health
                                /\ VerifiedRecorded(h, p).profile = p
         /\ Probing(h) \in Health /\ Cooled(h) \in Health
         /\ TurnMode(h, attached) \in {"disabled", "shadow", "active"}
<1> USE HealthAssumption
<1>1. ASSUME NEW reason PROVE FailureRecorded(h, reason) \in Health
  <2> DEFINE n == UpTo(Threshold, h.failures + 1)
             profile == IF reason \in {"verify_mismatch", "profile_mismatch"}
                        THEN None ELSE h.profile
             circuit == IF n = Threshold THEN "open" ELSE h.circuit
  <2>1. /\ n \in 0..Threshold /\ profile \in Profiles \union {None}
        /\ circuit \in {"closed", "open", "due"} /\ 0 \in 0..Required
    BY DEF UpTo, Health
  <2>2. FailureRecorded(h, reason) =
          [h EXCEPT !.failures = n, !.verified = 0, !.trusted = FALSE, !.probe = FALSE,
                    !.profile = profile, !.circuit = circuit]
    BY Zenon DEF FailureRecorded
  <2> HIDE DEF n, profile, circuit
  <2> QED BY <2>1, <2>2 DEF Health
<1>2. ASSUME NEW p \in Profiles
      PROVE  VerifiedRecorded(h, p) \in Health /\ VerifiedRecorded(h, p).profile = p
  <2> DEFINE n == IF h.profile = p THEN UpTo(Required, h.verified + 1) ELSE 1
             trusted == n = Required
  <2>1. n \in 0..Required /\ 0 \in 0..Threshold /\ trusted \in BOOLEAN
    BY DEF UpTo, Health
  <2>2. VerifiedRecorded(h, p) =
          [h EXCEPT !.profile = p, !.verified = n, !.failures = 0, !.circuit = "closed",
                    !.probe = FALSE, !.trusted = trusted]
    BY Zenon DEF VerifiedRecorded
  <2> HIDE DEF n, trusted
  <2> QED BY <2>1, <2>2 DEF Health
<1>3. Probing(h) \in Health /\ Cooled(h) \in Health
  BY DEF Probing, Cooled, Health
<1>4. TurnMode(h, attached) \in {"disabled", "shadow", "active"}
  BY DEF TurnMode
<1> QED BY <1>1, <1>2, <1>3, <1>4

\* What an action of the reconciler emits
Emits(r, streams, act, d, o) ==
  /\ RecShape(o.rec) /\ o.delta \in Seq(Nat) /\ o.bad \in BOOLEAN
  /\ streams /\ ~o.bad => o.rec.emitted = r.emitted \o o.delta
  /\ o.bad => o.rec.emitted = r.emitted
  /\ act = "final" /\ ~o.bad => o.rec.emitted = d

LEMMA Completes ==
  ASSUME NEW s \in Seq(Nat), NEW t \in Seq(Nat), IsPrefix(s, t)
  PROVE  SubSeq(t, Len(s) + 1, Len(t)) \in Seq(Nat) /\ s \o SubSeq(t, Len(s) + 1, Len(t)) = t
<1> DEFINE rest == SubSeq(t, Len(s) + 1, Len(t))
<1>1. Len(s) \in Nat /\ Len(t) \in Nat /\ Len(s) <= Len(t)
  BY DEF IsPrefix
<1>2. \A i \in 1..Len(s) : s[i] = t[i]
  <2>1. SubSeq(s, 1, Len(s)) = SubSeq(t, 1, Len(s))
    BY DEF IsPrefix
  <2> QED BY <1>1, <2>1
<1>3. rest \in Seq(Nat) /\ Len(rest) = Len(t) - Len(s)
      /\ \A i \in 1..Len(t) - Len(s) : rest[i] = t[Len(s) + i]
  BY <1>1
<1> HIDE DEF rest
<1> DEFINE c == s \o rest
<1>4. /\ c \in Seq(Nat) /\ Len(c) = Len(s) + Len(rest)
      /\ \A i \in 1..Len(s) + Len(rest) : c[i] = IF i <= Len(s) THEN s[i] ELSE rest[i - Len(s)]
  BY <1>3, ConcatProperties
<1> HIDE DEF c
<1>5. ASSUME NEW i \in 1..Len(t) PROVE c[i] = t[i]
  <2>1. i \in 1..Len(s) + Len(rest) /\ i \in Nat
    BY <1>1, <1>3
  <2>2. c[i] = IF i <= Len(s) THEN s[i] ELSE rest[i - Len(s)]
    BY <1>4, <2>1
  <2>3. CASE i <= Len(s)
    BY <1>1, <1>2, <2>2, <2>3
  <2>4. CASE ~(i <= Len(s))
    <3>1. i - Len(s) \in 1..Len(t) - Len(s) /\ Len(s) + (i - Len(s)) = i
      BY <1>1, <2>1, <2>4
    <3>2. rest[i - Len(s)] = t[Len(s) + (i - Len(s))]
      BY <1>3, <3>1
    <3> QED BY <2>2, <2>4, <3>1, <3>2
  <2> QED BY <2>3, <2>4
<1>6. c \in Seq(Nat) /\ Len(c) = Len(t)
  BY <1>1, <1>3, <1>4
<1>7. c = t
  BY <1>5, <1>6, SeqEqual
<1> QED BY <1>3, <1>7 DEF rest, c

LEMMA NothingEmits ==
  ASSUME NEW r, RecShape(r), NEW s \in BOOLEAN, NEW act, act # "final", NEW d
  PROVE  Emits(r, s, act, d, Nothing(r))
BY DEF Emits, Nothing, RecShape

LEMMA EmitEmits ==
  ASSUME NEW r, RecShape(r), NEW s \in BOOLEAN, NEW act, NEW d, NEW e \in Seq(Nat),
         act = "final" => d = r.emitted \o e
  PROVE  Emits(r, s, act, d, Emit(r, e)) /\ Emit(r, e).rec.emitted = r.emitted \o e
         /\ ~Emit(r, e).bad
<1> DEFINE text == r.emitted \o e
           k == [r EXCEPT !.emitted = text]
<1>1. text \in Seq(Nat)
  BY DEF RecShape
<1>2. Emit(r, e) = [rec |-> k, delta |-> e, bad |-> FALSE]
  BY Zenon DEF Emit
<1> HIDE DEF text
<1>3. RecShape(k) /\ k.emitted = text /\ k.dom = r.dom
  BY <1>1 DEF RecShape
<1> HIDE DEF k
<1>4. Emit(r, e).rec = k /\ Emit(r, e).delta = e /\ Emit(r, e).bad = FALSE
  BY <1>2
<1>5. act = "final" => d = text
  BY DEF text
<1>6. Emits(r, s, act, d, Emit(r, e))
  <2>1. k.emitted = r.emitted \o e
    BY <1>3 DEF text
  <2> QED BY <1>3, <1>4, <1>5, <2>1 DEF Emits
<1> QED BY <1>3, <1>4, <1>6 DEF text

LEMMA FlushEmits ==
  ASSUME NEW r, RecShape(r), NEW s \in BOOLEAN, NEW final \in BOOLEAN, NEW act, NEW d,
         act = "final" => final /\ r.dom = d
  PROVE  Emits(r, s, act, d, Flush(r, s, final))
<1>1. CASE ~final /\ IsPrefix(r.dom, r.emitted)
  BY <1>1, NothingEmits DEF Flush
<1>2. CASE ~(~final /\ IsPrefix(r.dom, r.emitted)) /\ ~IsPrefix(r.emitted, r.dom) /\ s
  BY <1>2 DEF Flush, Emits, Mismatch, Nothing, RecShape
<1>3. CASE ~(~final /\ IsPrefix(r.dom, r.emitted)) /\ ~IsPrefix(r.emitted, r.dom) /\ ~s
  <2> DEFINE none == <<>>
             k == [r EXCEPT !.emitted = none]
  <2>0. none \in Seq(Nat)
    OBVIOUS
  <2> HIDE DEF none
  <2>1. RecShape(k) /\ k.emitted = none /\ k.dom = r.dom /\ r.dom \in Seq(Nat)
    BY <2>0 DEF RecShape
  <2>2. Flush(r, s, final) = Emit(k, r.dom)
    BY <1>3, Zenon DEF Flush, k, none
  <2> HIDE DEF k
  <2>3. r.dom = k.emitted \o r.dom
    BY <2>1 DEF none
  <2>4. Emits(k, s, act, d, Emit(k, r.dom)) /\ ~Emit(k, r.dom).bad
    BY <2>1, <2>3, EmitEmits
  <2> QED BY <1>3, <2>2, <2>4 DEF Emits
<1>4. CASE IsPrefix(r.emitted, r.dom) /\ ~(~final /\ IsPrefix(r.dom, r.emitted))
  <2> DEFINE rest == SubSeq(r.dom, Len(r.emitted) + 1, Len(r.dom))
  <2>1. r.emitted \in Seq(Nat) /\ r.dom \in Seq(Nat)
    BY DEF RecShape
  <2>3. rest \in Seq(Nat) /\ r.emitted \o rest = r.dom
    BY <1>4, <2>1, Completes
  <2> HIDE DEF rest
  <2>4. Flush(r, s, final) = Emit(r, rest)
    BY <1>4 DEF Flush, rest, Rest
  <2> QED BY <2>3, <2>4, EmitEmits
<1> QED BY <1>1, <1>2, <1>3, <1>4

LEMMA ActionEmits ==
  ASSUME NEW r, RecShape(r), NEW s \in BOOLEAN, NEW act, NEW d \in Seq(Nat)
  PROVE  Emits(r, s, act, d, Action(r, s, act, d))
<1> DEFINE text == r.dom \o d
           grown == [r EXCEPT !.dom = text]
           back == [r EXCEPT !.source = "dom"]
           done == [r EXCEPT !.dom = d]
<1>1. /\ RecShape(grown) /\ RecShape(back) /\ RecShape(done)
      /\ grown.emitted = r.emitted /\ back.emitted = r.emitted /\ done.emitted = r.emitted
      /\ done.dom = d
  <2>1. text \in Seq(Nat)
    BY DEF RecShape
  <2> HIDE DEF text
  <2> QED BY <2>1 DEF RecShape
<1> HIDE DEF grown, back, done
<1>2. CASE act = "tap"
  BY <1>2, NothingEmits, EmitEmits DEF Action
<1>3. CASE act = "dom"
  <2>1. Emits(grown, s, act, d, Flush(grown, s, FALSE)) /\ Emits(grown, s, act, d, Nothing(grown))
    BY <1>1, <1>3, FlushEmits, NothingEmits
  <2>2. Action(r, s, act, d) \in {Flush(grown, s, FALSE), Nothing(grown)}
    BY <1>3, Zenon DEF Action, grown
  <2> QED BY <1>1, <2>1, <2>2 DEF Emits
<1>4. CASE act = "fallback"
  <2>1. Emits(back, s, act, d, Flush(back, s, FALSE)) /\ Action(r, s, act, d) = Flush(back, s, FALSE)
    BY <1>1, <1>4, FlushEmits DEF Action, back
  <2> QED BY <1>1, <2>1 DEF Emits
<1>5. CASE act = "final"
  <2>1. Emits(done, s, act, d, Flush(done, s, TRUE)) /\ Action(r, s, act, d) = Flush(done, s, TRUE)
    BY <1>1, <1>5, FlushEmits DEF Action, done
  <2> QED BY <1>1, <2>1 DEF Emits
<1>6. CASE act \notin {"tap", "dom", "fallback", "final"}
  BY <1>6, EmitEmits DEF Action
<1> QED BY <1>2, <1>3, <1>4, <1>5, <1>6

-----------------------------------------------------------------------------
(* The queue *)

LEMMA Joins ==
  ASSUME chain \in Seq(Entries), OneEach, NEW e \in Entries, ~Waiting(e.by),
         chain' = Append(chain, e)
  PROVE  /\ chain' \in Seq(Entries) /\ OneEach'
         /\ \A who : Waiting(who)' <=> Waiting(who) \/ who = e.by
         /\ chain' # <<>> /\ chain'[Len(chain')] = e
<1>1. chain' \in Seq(Entries) /\ Len(chain') = Len(chain) + 1 /\ chain'[Len(chain) + 1] = e
      /\ \A i \in 1..Len(chain) : chain'[i] = chain[i]
  OBVIOUS
<1>2. DOMAIN chain = 1..Len(chain) /\ DOMAIN chain' = 1..Len(chain) + 1 /\ Len(chain) \in Nat
  BY <1>1
<1>3. OneEach'
  BY <1>1, <1>2 DEF OneEach, Waiting
<1>4. ASSUME NEW who PROVE Waiting(who)' <=> Waiting(who) \/ who = e.by
  BY <1>1, <1>2 DEF Waiting
<1> QED BY <1>1, <1>2, <1>3, <1>4

LEMMA Leaves ==
  ASSUME chain \in Seq(Entries), OneEach, chain # <<>>, chain' = Tail(chain)
  PROVE  /\ Head(chain) \in Entries /\ Waiting(Head(chain).by)
         /\ chain' \in Seq(Entries) /\ OneEach'
         /\ \A who : Waiting(who)' <=> Waiting(who) /\ who # Head(chain).by
         /\ Head(chain).by = chain[Len(chain)].by => chain' = <<>>
         /\ chain' = <<>> => Head(chain) = chain[Len(chain)]
         /\ chain' # <<>> => chain'[Len(chain')] = chain[Len(chain)]
<1>1. chain' \in Seq(Entries) /\ Len(chain') = Len(chain) - 1 /\ Head(chain) = chain[1]
      /\ \A i \in 1..Len(chain) - 1 : chain'[i] = chain[i + 1]
  OBVIOUS
<1>2. /\ DOMAIN chain = 1..Len(chain) /\ DOMAIN chain' = 1..Len(chain) - 1
      /\ Len(chain) \in Nat \ {0} /\ chain[1] \in Entries
  BY <1>1
<1>3. OneEach'
  BY <1>1, <1>2 DEF OneEach
<1>4. ASSUME NEW who PROVE Waiting(who)' <=> Waiting(who) /\ who # Head(chain).by
  <2>1. ASSUME Waiting(who)' PROVE Waiting(who) /\ who # Head(chain).by
    <3> PICK i \in 1..Len(chain) - 1 : chain'[i].by = who
      BY <1>2, <2>1 DEF Waiting
    <3>1. chain[i + 1].by = who /\ i + 1 \in DOMAIN chain /\ 1 \in DOMAIN chain /\ i + 1 # 1
      BY <1>1, <1>2
    <3> QED BY <1>1, <3>1 DEF Waiting, OneEach
  <2>2. ASSUME Waiting(who), who # Head(chain).by PROVE Waiting(who)'
    <3> PICK i \in 1..Len(chain) : chain[i].by = who
      BY <1>2, <2>2 DEF Waiting
    <3>1. i - 1 \in 1..Len(chain) - 1 /\ chain'[i - 1] = chain[i]
      BY <1>1, <1>2, <2>2
    <3> QED BY <1>2, <3>1 DEF Waiting
  <2> QED BY <2>1, <2>2
<1>5. Waiting(Head(chain).by)
  BY <1>1, <1>2 DEF Waiting
<1>6. Head(chain).by = chain[Len(chain)].by => chain' = <<>>
  BY <1>1, <1>2 DEF OneEach
<1>7. chain' = <<>> => Len(chain) = 1
  <2>1. Len(<<>>) = 0
    OBVIOUS
  <2> QED BY ONLY <1>1, <1>2, <2>1
<1>8. chain' # <<>> => Len(chain') # 0
  BY <1>1
<1> QED BY <1>1, <1>2, <1>3, <1>4, <1>5, <1>6, <1>7, <1>8

-----------------------------------------------------------------------------
(* The kinds of steps *)

\* The monitor goes on; it may have queued a delta.
LEMMA MonitorStep ==
  ASSUME IInv, MonitorKeeps, ~AtOnce, mon.pc \in {"top", "reading", "judging"}, MonShape(mon'),
         mon'.pc # "off",
         \/ chain' = chain /\ (mon'.pc = "judging" => mon.pc = "judging")
            /\ (mon.pc = "judging" => ~Waiting("mon"))
         \/ /\ mon.pc = "reading" /\ mon'.pc = "judging"
            /\ chain' = chain \/ \E e \in Entries : e.by = "mon" /\ chain' = Append(chain, e)
  PROVE  IInv'
<1>0. IInv
  OBVIOUS
<1>1. reader.pc \notin {"idle", "armed"}
  <2>1. NoMonitor.pc = "off"
    BY DEF NoMonitor
  <2> QED BY <1>0, <2>1 DEF IInv, ReadSound
<1>2. Streams => reader.pc \notin {"draining"} \union After
  BY <1>0 DEF IInv, ReadSound
<1>3. reader.pc # "closing"
  BY <1>2 DEF AtOnce, After
<1>4. Shapes' /\ Queue'
  <2>1. CASE chain' = chain
    BY <1>0, <2>1 DEF IInv, Shapes, Queue, OneEach, Waiting, MonitorKeeps, tapState, MonShape
  <2>2. CASE \E e \in Entries : e.by = "mon" /\ chain' = Append(chain, e)
    <3> PICK e \in Entries : e.by = "mon" /\ chain' = Append(chain, e)
      BY <2>2
    <3>1. mon.pc = "reading" /\ mon'.pc = "judging" /\ ~Waiting("mon")
      BY <1>0 DEF IInv, Queue
    <3>2. chain \in Seq(Entries) /\ OneEach
      BY <1>0 DEF IInv, Shapes, Queue
    <3>3. /\ chain' \in Seq(Entries) /\ OneEach'
          /\ \A who : Waiting(who)' <=> Waiting(who) \/ who = e.by
      BY <3>1, <3>2, Joins
    <3>4. Shapes'
      BY <1>0, <3>3 DEF IInv, Shapes, MonitorKeeps, tapState
    <3> QED BY <1>0, <3>1, <3>3, <3>4 DEF IInv, Queue, MonitorKeeps, tapState
  <2> QED BY <2>1, <2>2
<1>5. FeedSound' /\ VerdictSound' /\ TapSound'
  BY <1>0 DEF IInv, FeedSound, VerdictSound, VerdictIsEarned, TapSound, MonitorKeeps, tapState
<1>6. ReadSound' /\ ClosingSound'
  BY <1>0, <1>1, <1>2, <1>3 DEF IInv, ReadSound, ClosingSound, MonitorKeeps, tapState, Hybrid, Streams, After
<1>7. Told'
  <2>1. mon.error = None
    BY <1>0 DEF IInv, Shapes, MonShape
  <2> QED BY <1>0, <2>1, ReadAssumption DEF IInv, Told, MonitorKeeps, tapState, Streams
<1> QED BY <1>4, <1>5, <1>6, <1>7 DEF IInv

\* The tap task goes on with its next event.
LEMMA TaskStep ==
  ASSUME IInv, task.pc \in {"on", "cancelling"}, ~Waiting("task"),
         TaskShape(task'), task'.pc \in {"on", "cancelling", "done"},
         Follows(task', log, reader.kind),
         task'.head >= task.head, task.matched # None => task'.matched = task.matched,
         task.failure # None => task'.failure # None,
         UNCHANGED <<log, attached, turn, reader, rec, delivered, mon>>, over' \in {over, TRUE},
         health' \in Health,
         \/ chain' = chain
         \/ /\ task'.pc # "done"
            /\ \E e \in Entries : e.by = "task" /\ chain' = Append(chain, e),
         \/ verdicts' = verdicts
         \/ /\ task.failure = None /\ task'.failure # None
            /\ \E x \in Said \ {"verified"} : verdicts' = Append(verdicts, x)
  PROVE  IInv'
<1>0. IInv
  OBVIOUS
<1>1. reader.pc \in {"racing", "failing", "draining"} /\ (reader.pc = "racing" => Hybrid)
  <2>1. NoTask.pc = "off"
    BY DEF NoTask
  <2>2. reader.pc \in {"idle", "armed", "racing", "failing", "draining", "done"} \union After
    BY <1>0 DEF IInv, Shapes, ReaderShape
  <2> QED BY <1>0, <2>1, <2>2 DEF IInv, ReadSound
<1>2. /\ chain' \in Seq(Entries) /\ OneEach'
      /\ \A who : Waiting(who)' => Waiting(who) \/ (who = "task" /\ task'.pc # "done")
  <2>1. CASE chain' = chain
    BY <1>0, <2>1 DEF IInv, Shapes, Queue, OneEach, Waiting
  <2>2. CASE chain' # chain
    <3> PICK e \in Entries : e.by = "task" /\ chain' = Append(chain, e) /\ task'.pc # "done"
      BY <2>2
    <3>1. chain \in Seq(Entries) /\ OneEach
      BY <1>0 DEF IInv, Shapes, Queue
    <3> QED BY <3>1, Joins
  <2> QED BY <2>1, <2>2
<1>3. /\ verdicts' \in Seq(Said) /\ Len(verdicts') <= 1
      /\ verdicts' # <<>> => task'.failure # None
      /\ "verified" \notin {verdicts'[i] : i \in DOMAIN verdicts'}
  <2>1. /\ verdicts \in Seq(Said) /\ Len(verdicts) <= 1
        /\ verdicts # <<>> => task.failure # None
        /\ "verified" \notin {verdicts[i] : i \in DOMAIN verdicts}
    BY <1>0, <1>1 DEF IInv, Shapes, VerdictSound, VerdictIsEarned
  <2>2. CASE verdicts' = verdicts
    BY <2>1, <2>2
  <2>3. CASE task.failure = None /\ task'.failure # None
              /\ \E x \in Said \ {"verified"} : verdicts' = Append(verdicts, x)
    <3> PICK x \in Said \ {"verified"} : verdicts' = Append(verdicts, x)
      BY <2>3
    <3>1. verdicts = <<>>
      BY <2>1, <2>3
    <3>2. verdicts' = <<x>>
      BY <3>1
    <3>3. x \in Said /\ x # "verified"
      OBVIOUS
    <3> QED BY ONLY <2>3, <3>2, <3>3
  <2> QED BY <2>2, <2>3
<1>4. Shapes'
  BY <1>0, <1>2, <1>3 DEF IInv, Shapes
<1>5. Queue'
  BY <1>0, <1>1, <1>2 DEF IInv, Queue, TaskShape
<1>6. FeedSound'
  BY <1>0 DEF IInv, FeedSound
<1>7. ReadSound' /\ ClosingSound'
  BY <1>0, <1>1 DEF IInv, ReadSound, ClosingSound, Hybrid, Streams, After
<1>8. Told'
  <2>1. task.error = None
    BY <1>0 DEF IInv, Shapes, TaskShape
  <2> QED BY <1>0, <2>1, ReadAssumption DEF IInv, Told, Streams
<1>9. VerdictSound'
  BY <1>1, <1>3 DEF VerdictSound, VerdictIsEarned
<1>10. TapSound'
  <2>1. task.head \in Nat /\ task'.head \in Nat
    BY <1>0 DEF IInv, Shapes, TaskShape
  <2> QED BY <1>0, <2>1, ReadAssumption DEF IInv, TapSound, Brought, Answer
<1> QED BY <1>4, <1>5, <1>6, <1>7, <1>8, <1>9, <1>10 DEF IInv

\* read() goes on to another place; it may have queued an action, and found a failure.
LEMMA ReadStep ==
  ASSUME IInv, reader.pc \notin {"idle", "armed", "done"},
         ReaderShape(reader'), reader'.pc \notin {"idle", "armed"}, reader'.kind = reader.kind,
         UNCHANGED <<log, attached, turn, rec, delivered, mon>>, over' \in {over, TRUE},
         health' \in Health, verdicts' \in Seq(Said),
         TaskShape(task'), task'.got \in {task.got, task.came},
         \A f \in {"pc", "head", "matched", "came", "ended", "settle", "error"} : task'[f] = task[f],
         task.failure # None => task'.failure # None,
         \/ /\ chain' = chain /\ reader'.pc # "closing"
            /\ Waiting("read") => reader'.pc \in After
         \/ /\ ~Waiting("read") /\ reader'.pc \in After
            /\ \E e \in Entries : /\ e.by = "read" /\ chain' = Append(chain, e)
                                  /\ reader'.pc = "closing" => e = Entry("read", "final", reader'.final),
         reader'.pc \in {"racing", "failing"} => reader'.winner = None,
         reader'.pc = "racing" => reader.pc = "racing",
         reader'.pc \in {"failing", "draining"} \union After => over',
         reader'.pc \in After \union {"done"} => task.pc \notin {"on", "cancelling"},
         reader'.pc = "failing" /\ reader'.error = "timeout" =>
           mon.pc = "failed" /\ mon.error = "timeout",
         Streams => /\ reader'.pc \in {"draining"} \union After =>
                         mon.pc \in {"returned", "failed"} /\ mon.error # "client"
                    /\ reader'.pc \in After => task.error # "client",
         VerdictSound', TapSound'
  PROVE  IInv'
<1>0. IInv
  OBVIOUS
<1>1. /\ chain' \in Seq(Entries) /\ OneEach'
      /\ \A who : Waiting(who)' => Waiting(who) \/ (who = "read" /\ reader'.pc \in After)
      /\ Waiting("read")' => reader'.pc \in After
      /\ reader'.pc = "closing" => Waiting("read")' /\ chain'[Len(chain')] = Entry("read", "final", reader'.final)
  <2>1. CASE chain' = chain /\ reader'.pc # "closing" /\ (Waiting("read") => reader'.pc \in After)
    BY <1>0, <2>1 DEF IInv, Shapes, Queue, OneEach, Waiting
  <2>2. CASE /\ ~Waiting("read") /\ reader'.pc \in After
             /\ \E e \in Entries : /\ e.by = "read" /\ chain' = Append(chain, e)
                                   /\ reader'.pc = "closing" => e = Entry("read", "final", reader'.final)
    <3> PICK e \in Entries : /\ e.by = "read" /\ chain' = Append(chain, e)
                             /\ reader'.pc = "closing" => e = Entry("read", "final", reader'.final)
      BY <2>2
    <3>1. chain \in Seq(Entries) /\ OneEach
      BY <1>0 DEF IInv, Shapes, Queue
    <3> QED BY <2>2, <3>1, Joins
  <2> QED BY <2>1, <2>2
<1>2. Shapes'
  BY <1>0, <1>1 DEF IInv, Shapes
<1>3. Queue'
  BY <1>0, <1>1 DEF IInv, Queue
<1>4. FeedSound'
  <2>1. TaskShape(task) /\ Follows(task, log, reader.kind)
    BY <1>0 DEF IInv, Shapes, FeedSound
  <2>2. Follows(task', log, reader.kind)
    BY <2>1 DEF Follows, TaskShape
  <2> QED BY <1>0, <2>2 DEF IInv, FeedSound
<1>5. ReadSound'
  BY <1>0 DEF IInv, ReadSound, Hybrid, Streams, After
<1>6. ClosingSound'
  BY <1>1 DEF ClosingSound
<1>7. Told'
  BY <1>0 DEF IInv, Told, Streams
<1> QED BY <1>2, <1>3, <1>4, <1>5, <1>6, <1>7 DEF IInv

-----------------------------------------------------------------------------
(* Before the read, and the feed *)

LEMMA Fresh ==
  /\ ReaderShape(NoReader) /\ TaskShape(NoTask) /\ MonShape(NoMonitor)
  /\ \A b \in BOOLEAN : RecShape(NewReconciler(b)) /\ NewReconciler(b).emitted = <<>>
  /\ NewHealth \in Health
  /\ LogShape(<<>>) /\ ~Closing(<<>>) /\ \A kind : Follows(NoTask, <<>>, kind)
<1> USE ReadAssumption, HealthAssumption
<1>1. ReaderShape(NoReader) /\ TaskShape(NoTask) /\ MonShape(NoMonitor)
  BY TextsAre DEF ReaderShape, NoReader, TaskShape, NoTask, MonShape, NoMonitor
<1>2. ASSUME NEW b \in BOOLEAN
      PROVE  RecShape(NewReconciler(b)) /\ NewReconciler(b).emitted = <<>>
  BY DEF RecShape, NewReconciler
<1>3. NewHealth \in Health
  BY DEF NewHealth, Health
<1>4. LogShape(<<>>) /\ ~Closing(<<>>)
  BY DEF LogShape, Closing
<1>5. ASSUME NEW kind PROVE Follows(NoTask, <<>>, kind)
  BY DEF Follows, NoTask
<1> QED BY <1>1, <1>2, <1>3, <1>4, <1>5

LEMMA Initially == Init => IInv
<1> SUFFICES ASSUME Init PROVE IInv
  OBVIOUS
<1>1. Shapes
  <2>1. /\ ReaderShape(NoReader) /\ TaskShape(NoTask) /\ MonShape(NoMonitor)
        /\ RecShape(NewReconciler(FALSE)) /\ NewHealth \in Health
    BY Fresh
  <2>2. <<>> \in Seq(Nat) /\ <<>> \in Seq(Entries) /\ <<>> \in Seq(Said)
    OBVIOUS
  <2>3. [mode |-> "disabled", profile |-> None]
          \in [mode : {"disabled", "shadow", "active"}, profile : Profiles \union {None}]
    OBVIOUS
  <2> QED BY <2>1, <2>2, <2>3 DEF Init, Shapes
<1>2. FeedSound
  BY Fresh DEF Init, InitFeed, FeedSound
<1>3. Queue /\ ~Waiting("read")
  BY DEF Init, Queue, OneEach, Waiting
<1>4. ReadSound /\ Told
  BY DEF Init, ReadSound, Told, NoReader, NoTask, NoMonitor, NewReconciler, Streams, After
<1>5. ClosingSound /\ TapSound
  BY ReadAssumption DEF Init, ClosingSound, TapSound, NoReader
<1>6. VerdictSound
  BY DEF Init, VerdictSound, VerdictIsEarned
<1> QED BY <1>1, <1>2, <1>3, <1>4, <1>5, <1>6 DEF IInv

\* While no read is under way, nothing is that could be lost.
LEMMA AtRest ==
  ASSUME ReaderShape(reader'), reader'.pc \in {"idle", "armed"}, reader'.winner = None,
         task' = NoTask, mon' = NoMonitor, rec' = NewReconciler(FALSE),
         chain' = <<>>, delivered' = <<>>, verdicts' = <<>>,
         turn' \in [mode : {"disabled", "shadow", "active"}, profile : Profiles \union {None}],
         health' \in Health, LogShape(log'), Closing(log') => over'
  PROVE  IInv'
<1>1. NoTask.settle = FALSE /\ NoTask.pc = "off" /\ NewReconciler(FALSE).emitted = <<>>
  BY DEF NoTask, NewReconciler
<1>2. Shapes'
  <2>1. /\ TaskShape(NoTask) /\ MonShape(NoMonitor) /\ RecShape(NewReconciler(FALSE))
    BY Fresh
  <2>2. <<>> \in Seq(Nat) /\ <<>> \in Seq(Entries) /\ <<>> \in Seq(Said)
    OBVIOUS
  <2> QED BY <2>1, <2>2 DEF Shapes
<1>3. FeedSound'
  BY ReadAssumption DEF FeedSound, Follows, NoTask, LogShape
<1>4. Queue'
  BY DEF Queue, OneEach, Waiting
<1>5. ReadSound' /\ Told' /\ ClosingSound'
  BY <1>1, ReadAssumption DEF ReadSound, Told, ClosingSound, Streams, After
<1>6. TapSound' /\ VerdictSound'
  BY <1>1, ReadAssumption DEF TapSound, VerdictSound, VerdictIsEarned
<1> QED BY <1>2, <1>3, <1>4, <1>5, <1>6 DEF IInv

LEMMA IdleReader ==
  ASSUME IInv, reader.pc \in {"idle", "armed"}
  PROVE  /\ task = NoTask /\ mon = NoMonitor /\ rec = NewReconciler(FALSE)
         /\ chain = <<>> /\ delivered = <<>> /\ verdicts = <<>>
         /\ turn \in [mode : {"disabled", "shadow", "active"}, profile : Profiles \union {None}]
         /\ health \in Health /\ LogShape(log) /\ (Closing(log) => over)
BY DEF IInv, Shapes, ReadSound, FeedSound

LEMMA BeforeSteps ==
  ASSUME IInv, Attach \/ Reset \/ CooldownEnds \/ ArmTurn \/ SendFails \/ NextTurn
  PROVE  IInv'
<1>1. ReaderShape(NoReader) /\ NoReader.pc = "idle" /\ NoReader.winner = None
  BY Fresh DEF NoReader
<1>2. ReaderShape(reader) /\ health \in Health /\ LogShape(log) /\ (Closing(log) => over)
      /\ (reader.pc \in {"idle", "armed"} => reader.winner = None)
      /\ turn \in [mode : {"disabled", "shadow", "active"}, profile : Profiles \union {None}]
  BY DEF IInv, Shapes, FeedSound, ReadSound
<1>3. CASE Attach
  BY <1>2, <1>3, IdleReader, AtRest, HealthIs DEF Attach
<1>4. CASE Reset
  BY <1>1, <1>2, <1>4, IdleReader, AtRest DEF Reset, Cancel
<1>5. CASE CooldownEnds
  BY <1>2, <1>5, IdleReader, AtRest, HealthIs DEF CooldownEnds
<1>6. CASE ArmTurn
  <2>1. ReaderShape(reader') /\ reader'.pc = "armed" /\ reader'.winner = None
    BY <1>2, <1>6 DEF ArmTurn, ReaderShape
  <2>2. /\ turn' \in [mode : {"disabled", "shadow", "active"}, profile : Profiles \union {None}]
        /\ health' \in Health
    <3>1. TurnMode(health, attached) \in {"disabled", "shadow", "active"} /\ Probing(health) \in Health
      BY <1>2, HealthIs
    <3>2. health.profile \in Profiles \union {None}
      BY <1>2 DEF Health
    <3> QED BY <1>2, <1>6, <3>1, <3>2 DEF ArmTurn
  <2>3. log' = <<>>
    BY <1>6 DEF ArmTurn, Arm
  <2>4. LogShape(log') /\ ~Closing(log')
    BY <2>3, Fresh
  <2> QED BY <1>6, <2>1, <2>2, <2>4, IdleReader, AtRest DEF ArmTurn
<1>7. CASE SendFails
  BY <1>1, <1>2, <1>7, IdleReader, AtRest DEF SendFails, Cancel, tapState
<1>8. CASE NextTurn
  <2>1. log' = <<>>
    BY <1>8 DEF NextTurn, Arm
  <2>2. LogShape(log') /\ ~Closing(log')
    BY <2>1, Fresh
  <2>3. [mode |-> "disabled", profile |-> None]
          \in [mode : {"disabled", "shadow", "active"}, profile : Profiles \union {None}]
    OBVIOUS
  <2> QED BY <1>1, <1>2, <1>8, <2>2, <2>3, AtRest DEF NextTurn
<1> QED BY <1>3, <1>4, <1>5, <1>6, <1>7, <1>8

LEMMA ReadBegins ==
  ASSUME IInv, NEW kind \in Kinds, Read(kind)
  PROVE  IInv'
<1>1. /\ chain = <<>> /\ delivered = <<>> /\ verdicts = <<>> /\ health \in Health
      /\ turn \in [mode : {"disabled", "shadow", "active"}, profile : Profiles \union {None}]
      /\ LogShape(log) /\ (Closing(log) => over)
  BY IdleReader DEF Read
<1>2. /\ ReaderShape(reader') /\ reader'.pc = "racing" /\ reader'.winner = None
  <2>1. ReaderShape(NoReader) /\ health.trusted \in BOOLEAN
    BY <1>1, Fresh DEF Health
  <2>2. kind \in {"stream", "contract", "plain"}
    BY ReadAssumption
  <2> DEFINE k == [NoReader EXCEPT !.pc = "racing", !.kind = kind, !.trusted = health.trusted]
  <2>3. k \in [pc : {"racing"}, kind : {"stream", "contract", "plain"}, trusted : BOOLEAN,
               aborted : BOOLEAN, winner : {None}, text : Texts, final : Texts, error : {k.error}]
    BY <2>1, <2>2 DEF ReaderShape, NoReader
  <2>4. reader' = k
    BY DEF Read
  <2> HIDE DEF k
  <2> QED BY <2>3, <2>4 DEF ReaderShape
<1>3. /\ TaskShape(task') /\ task'.head = 0 /\ task'.failure = None /\ task'.got = 0
      /\ task'.came = 0 /\ task'.matched = None /\ task'.ended = FALSE /\ task'.settle = FALSE
      /\ task'.pc \in {"off", "on"} /\ (~Hybrid => task'.pc = "off")
  <2>1. TaskShape(NoTask) /\ TaskShape([NoTask EXCEPT !.pc = "on"])
    BY Fresh DEF TaskShape, NoTask
  <2> QED BY <2>1 DEF Read, NoTask
<1>4. MonShape(mon') /\ RecShape(rec') /\ rec'.emitted = <<>>
  <2>1. MonShape(NoMonitor)
    BY Fresh
  <2>2. MonShape([NoMonitor EXCEPT !.pc = "top"])
    BY <2>1 DEF MonShape, NoMonitor
  <2>3. \A b \in BOOLEAN : RecShape(NewReconciler(b)) /\ NewReconciler(b).emitted = <<>>
    BY Fresh
  <2>4. (turn.mode = "active") \in BOOLEAN
    OBVIOUS
  <2> QED BY <2>2, <2>3, <2>4 DEF Read
<1>5. chain' = <<>> /\ delivered' = <<>> /\ verdicts' = <<>> /\ UNCHANGED <<log, over, tapState>>
  BY <1>1 DEF Read
<1>6. Shapes'
  <2>1. <<>> \in Seq(Nat) /\ <<>> \in Seq(Entries) /\ <<>> \in Seq(Said)
    OBVIOUS
  <2> QED BY <1>1, <1>2, <1>3, <1>4, <1>5, <2>1 DEF Shapes, tapState
<1>7. FeedSound'
  <2>1. Len(log) \in Nat
    BY <1>1, EmptySeq, LenProperties DEF LogShape
  <2> QED BY <1>1, <1>3, <1>5, <2>1, ReadAssumption DEF FeedSound, Follows
<1>8. Queue'
  BY <1>5 DEF Queue, OneEach, Waiting
<1>9. ReadSound' /\ Told' /\ ClosingSound'
  BY <1>2, <1>3, <1>4, <1>5, ReadAssumption
  DEF ReadSound, Told, ClosingSound, Streams, After, Hybrid, tapState
<1>10. TapSound' /\ VerdictSound'
  BY <1>2, <1>5, ReadAssumption DEF TapSound, VerdictSound, VerdictIsEarned
<1> QED BY <1>6, <1>7, <1>8, <1>9, <1>10 DEF IInv

LEMMA FeedGrows == ASSUME IInv, TapGrows PROVE IInv'
<1>0. IInv
  OBVIOUS
<1> USE ReadAssumption
<1>1. /\ UNCHANGED <<health, attached, turn, reader, task, rec, chain, delivered, mon, verdicts>>
      /\ ~over /\ log' \in Logs /\ IsPrefix(log, log') /\ over' = Closing(log')
  BY DEF TapGrows, Grow, tapState
<1>2. LogShape(log) /\ LogShape(log')
  BY <1>0, <1>1, LogsAre DEF IInv, FeedSound
<1>3. /\ Len(log) \in Nat /\ Len(log') \in Nat /\ Len(log) <= Len(log')
      /\ \A i \in 1..Len(log) : log'[i] = log[i]
  <2>1. log \in Seq(Event) /\ log' \in Seq(Event)
    BY <1>2 DEF LogShape
  <2>2. SubSeq(log, 1, Len(log)) = SubSeq(log', 1, Len(log)) /\ Len(log) <= Len(log')
    BY <1>1 DEF IsPrefix
  <2> QED BY <2>1, <2>2
<1>4. ASSUME NEW b, NEW n \in Nat, Brought(log, b, n) PROVE Brought(log', b, n)
  BY <1>3, <1>4 DEF Brought
<1>5. Shapes' /\ Queue'
  BY <1>0, <1>1 DEF IInv, Shapes, Queue, OneEach, Waiting
<1>6. TaskShape(task)
  BY <1>0 DEF IInv, Shapes
<1>7. FeedSound'
  <2>1. Follows(task, log, reader.kind)
    BY <1>0 DEF IInv, FeedSound
  <2>2. Follows(task, log', reader.kind)
    BY <1>3, <1>4, <1>6, <2>1 DEF Follows, TaskShape
  <2> QED BY <1>1, <1>2, <2>2 DEF FeedSound
<1>8. ReadSound' /\ Told' /\ ClosingSound'
  BY <1>0, <1>1 DEF IInv, ReadSound, Told, ClosingSound, Streams, After, Hybrid, Waiting
<1>9. VerdictSound'
  BY <1>0, <1>1 DEF IInv, VerdictSound, VerdictIsEarned
<1>10. TapSound'
  <2>1. Chunks + 1 \in Nat
    OBVIOUS
  <2> QED BY <1>0, <1>1, <1>4, <2>1 DEF IInv, TapSound, Answer
<1> QED BY <1>5, <1>7, <1>8, <1>9, <1>10 DEF IInv

-----------------------------------------------------------------------------
(* The queue runs *)

LEMMA DeliverStep == ASSUME IInv, Deliver PROVE IInv'
<1>0. IInv
  OBVIOUS
<1> DEFINE h == Head(chain)
           o == Action(rec, Streams, h.act, h.d)
<1>1. /\ chain # <<>> /\ chain \in Seq(Entries) /\ OneEach /\ chain' = Tail(chain)
      /\ rec' = o.rec /\ UNCHANGED <<log, over, tapState, verdicts>>
  BY <1>0 DEF IInv, Shapes, Queue, Deliver
<1>2. /\ h \in Entries /\ Waiting(h.by)
      /\ chain' \in Seq(Entries) /\ OneEach'
      /\ \A who : Waiting(who)' <=> Waiting(who) /\ who # h.by
      /\ h.by = chain[Len(chain)].by => chain' = <<>>
      /\ chain' = <<>> => h = chain[Len(chain)]
      /\ chain' # <<>> => chain'[Len(chain')] = chain[Len(chain)]
  BY <1>1, Leaves
<1>3. Emits(rec, Streams, h.act, h.d, o)
  <2>1. RecShape(rec) /\ Streams \in BOOLEAN /\ h.d \in Seq(Nat)
    BY <1>0, <1>2 DEF IInv, Shapes, Streams, Entries
  <2> QED BY <2>1, ActionEmits
<1>4. \/ \E why \in {"mismatch", "client"} :
             /\ Blamed(h.by, why) /\ UNCHANGED delivered
             /\ why = "client" => ~o.bad
             /\ why = "mismatch" => o.bad
      \/ /\ ~o.bad /\ delivered' = (IF Streams THEN delivered \o o.delta ELSE delivered)
         /\ UNCHANGED <<task, mon, reader>>
  BY DEF Deliver
<1> HIDE DEF h, o
<1>5. reader.pc \notin {"idle", "armed"}
  BY <1>0, <1>1 DEF IInv, ReadSound
<1>6. /\ ReaderShape(reader) /\ TaskShape(task) /\ MonShape(mon)
  BY <1>0 DEF IInv, Shapes
<1>7. /\ ReaderShape(reader') /\ TaskShape(task') /\ MonShape(mon')
      /\ \A f \in {"kind", "winner", "text", "final"} : reader'[f] = reader[f]
      /\ \A f \in {"head", "matched", "came", "got", "ended", "failure", "settle"} : task'[f] = task[f]
      /\ reader'.pc = (IF reader' = reader THEN reader.pc ELSE "done")
      /\ task'.pc = (IF task' = task THEN task.pc ELSE "failed")
      /\ mon'.pc = (IF mon' = mon THEN mon.pc ELSE "failed")
      /\ reader' # reader => reader'.error # None /\ h.by = "read"
      /\ task' # task => task'.error # None /\ h.by = "task"
      /\ mon' # mon => h.by = "mon"
  <2>1. CASE UNCHANGED <<task, mon, reader>>
    BY <1>6, <2>1
  <2>2. CASE \E why \in {"mismatch", "client"} : Blamed(h.by, why)
    <3> PICK why \in {"mismatch", "client"} : Blamed(h.by, why)
      BY <2>2
    <3>1. why # None
      BY ReadAssumption
    <3>2. /\ TaskShape(task')
          /\ \A f \in {"head", "matched", "came", "got", "ended", "failure", "settle"} : task'[f] = task[f]
          /\ task'.pc = (IF task' = task THEN task.pc ELSE "failed")
          /\ task' # task => task'.error # None /\ h.by = "task"
      BY <1>6, <3>1 DEF Blamed, TaskShape
    <3>3. /\ MonShape(mon')
          /\ mon'.pc = (IF mon' = mon THEN mon.pc ELSE "failed")
          /\ mon' # mon => h.by = "mon"
      BY <1>6, <3>1 DEF Blamed, MonShape
    <3>4. /\ ReaderShape(reader')
          /\ \A f \in {"kind", "winner", "text", "final"} : reader'[f] = reader[f]
          /\ reader'.pc = (IF reader' = reader THEN reader.pc ELSE "done")
          /\ reader' # reader => reader'.error # None /\ h.by = "read"
      BY <1>6, <3>1 DEF Blamed, ReaderShape
    <3> QED BY <3>2, <3>3, <3>4
  <2> QED BY <1>4, <2>1, <2>2
<1>8. /\ Waiting("task") => task.pc \in {"on", "cancelling"}
      /\ Waiting("mon") => mon.pc = "judging"
      /\ Waiting("read") => reader.pc \in After
  BY <1>0 DEF IInv, Queue
<1>9. Shapes'
  <2>1. delivered' \in Seq(Nat)
    <3>1. delivered \in Seq(Nat) /\ o.delta \in Seq(Nat)
      BY <1>0, <1>3 DEF IInv, Shapes, Emits
    <3>2. delivered' = delivered \/ delivered' = delivered \o o.delta
      BY <1>4
    <3>3. delivered \o o.delta \in Seq(Nat)
      BY <3>1, ConcatProperties
    <3> QED BY <3>1, <3>2, <3>3
  <2>2. RecShape(rec')
    BY <1>1, <1>3 DEF Emits
  <2> QED BY <1>0, <1>1, <1>2, <1>7, <2>1, <2>2 DEF IInv, Shapes, tapState
<1>10. Queue'
  BY <1>2, <1>7, <1>8 DEF Queue
<1>11. FeedSound'
  BY <1>0, <1>1, <1>7 DEF IInv, FeedSound, Follows
<1>12. ReadSound'
  <2>1. /\ reader'.pc # "done" => reader' = reader
        /\ task' # task => task.pc \in {"on", "cancelling"}
        /\ mon' # mon => mon.pc = "judging"
    BY <1>2, <1>7, <1>8
  <2>2. ReadSound
    BY <1>0 DEF IInv
  <2>3. reader'.pc = "done" => reader.pc \in After \union {"done"}
    BY <1>2, <1>7, <1>8
  <2>4. /\ mon.pc \in {"returned", "failed"} => mon' = mon
        /\ task.pc \notin {"on", "cancelling"} => task' = task
    BY <2>1
  <2>5. Streams' = Streams /\ Hybrid' = Hybrid /\ over' = over /\ reader'.winner = reader.winner
        /\ task'.pc \in {task.pc, "failed"}
    BY <1>1, <1>7 DEF Streams, Hybrid, tapState
  <2> QED BY <1>5, <2>1, <2>2, <2>3, <2>4, <2>5 DEF ReadSound, After
<1>13. Told'
  <2>1. CASE Blamed(h.by, "client")
    <3>1. h.by \in {"task", "mon", "read"}
      BY <1>2 DEF Entries
    <3>2. task'.error = "client" \/ mon'.error = "client" \/ reader'.pc = "done"
      BY <1>6, <2>1, <3>1 DEF Blamed, TaskShape, MonShape, ReaderShape
    <3> QED BY <3>2 DEF Told
  <2>3. CASE Blamed(h.by, "mismatch") /\ o.bad /\ UNCHANGED delivered
    <3>1. rec'.emitted = rec.emitted /\ Streams' = Streams
      BY <1>1, <1>3, <1>7, <2>3 DEF Emits, Streams
    <3>2. /\ mon' # mon => mon.error = None
          /\ task' # task => task.error = None
      BY <1>2, <1>6, <1>7, <1>8 DEF MonShape, TaskShape
    <3>3. reader'.pc = (IF reader' = reader THEN reader.pc ELSE "done")
      BY <1>7
    <3>4. /\ task.error = "client" => task'.error = "client"
          /\ mon.error = "client" => mon'.error = "client"
          /\ reader.pc = "done" => reader'.pc = "done"
      <4>1. "client" # None
        BY ReadAssumption
      <4> QED BY ONLY <3>2, <3>3, <4>1
    <3> QED BY <1>0, <2>3, <3>1, <3>4 DEF IInv, Told
  <2>2. CASE /\ ~o.bad /\ delivered' = (IF Streams THEN delivered \o o.delta ELSE delivered)
             /\ UNCHANGED <<task, mon, reader>>
    <3>1. Streams => rec'.emitted = rec.emitted \o o.delta
      BY <1>1, <1>3, <2>2 DEF Emits
    <3>2. Streams' = Streams
      BY <2>2 DEF Streams
    <3> QED BY <1>0, <2>2, <3>1, <3>2 DEF IInv, Told
  <2> QED BY <1>4, <2>1, <2>2, <2>3
<1>14. ClosingSound'
  <2> SUFFICES ASSUME reader'.pc = "closing" PROVE ClosingSound'
    BY DEF ClosingSound
  <2>1. reader' = reader /\ reader.pc = "closing"
    BY <1>7
  <2>2. Waiting("read") /\ chain[Len(chain)] = Entry("read", "final", reader.final)
    BY <1>0, <1>1, <2>1 DEF IInv, ClosingSound
  <2>3. CASE Waiting("read")'
    <3>1. chain' # <<>>
      BY <2>3 DEF Waiting
    <3> QED BY <1>2, <2>1, <2>2, <2>3, <3>1 DEF ClosingSound
  <2>4. CASE ~Waiting("read")'
    <3>1. h.by = "read"
      BY <1>2, <2>2, <2>4
    <3>2. chain' = <<>> /\ h = Entry("read", "final", reader.final)
      BY <1>2, <2>2, <3>1 DEF Entry
    <3>3. h.act = "final" /\ h.d = reader.final
      BY <3>2 DEF Entry
    <3>4. ~o.bad
      <4>1. ASSUME NEW why, Blamed("read", why) PROVE reader'.pc = "done"
        BY <1>6, <4>1 DEF Blamed, ReaderShape
      <4> QED BY <1>4, <2>1, <3>1, <4>1
    <3> QED BY <1>1, <1>3, <2>1, <2>4, <3>2, <3>3, <3>4 DEF ClosingSound, Emits
  <2> QED BY <2>3, <2>4
<1>15. VerdictSound'
  BY <1>0, <1>1, <1>5, <1>7 DEF IInv, VerdictSound, VerdictIsEarned, tapState
<1>16. TapSound'
  BY <1>0, <1>1, <1>7 DEF IInv, TapSound
<1> QED BY <1>9, <1>10, <1>11, <1>12, <1>13, <1>14, <1>15, <1>16 DEF IInv

-----------------------------------------------------------------------------
(* The tap task *)

\* What is in the event the task takes next, and what it has taken before
LEMMA NextEvent ==
  ASSUME IInv, task.head < Len(log)
  PROVE  LET h == task.head + 1
             e == log[h] IN
         /\ h \in 1..Chunks + 2 /\ h <= Len(log) /\ task.head \in Nat
         /\ e \in Event /\ Len(log) \in Nat
         /\ e.type = "matched" => h = 1 /\ e.of \in Bodies /\ e = Matched(e.of)
         /\ e.type = "chunk" => h \in 2..Chunks + 1 /\ e.n = h - 1 /\ e.n \in 1..Chunks
         /\ e.type = "end" => h = Chunks + 2
         /\ e.type = "error" => e.of \in Failures
         /\ e.type # "error" /\ task.failure = None /\ h > 1 => e = EventAt(task.matched, h)
<1> DEFINE h == task.head + 1
           e == log[h]
<1> USE ReadAssumption
<1>1. TaskShape(task) /\ LogShape(log) /\ Follows(task, log, reader.kind)
  BY DEF IInv, Shapes, FeedSound
<1>2. log \in Seq(Event) /\ Len(log) <= Chunks + 2 /\ Len(log) \in Nat /\ task.head \in Nat
  BY <1>1 DEF LogShape, TaskShape
<1>3. h \in 1..Chunks + 2 /\ h <= Len(log) /\ e \in Event
  BY <1>2, ElementOfSeq
<1>4. PICK b : Feeds(log, b) /\ (b \in Bodies \/ e.type = "error")
  <2>1. CASE \E f \in Failures : log = <<Failure(f)>>
    <3>1. PICK f \in Failures : log = <<Failure(f)>>
      BY <2>1
    <3>2. Len(log) = 1 /\ log[1] = Failure(f)
      BY <3>1
    <3>3. h = 1 /\ e.type = "error"
      BY <1>2, <1>3, <3>2 DEF Failure
    <3>4. Feeds(log, None)
      BY <3>2 DEF Feeds
    <3> QED BY <3>3, <3>4
  <2>2. CASE \E b \in Bodies : Feeds(log, b)
    BY <2>2
  <2> QED BY <1>1, <1>2, <1>3, <2>1, <2>2, EmptySeq DEF LogShape
<1>5. e = EventAt(b, h) \/ \E f \in Failures : e = Failure(f)
  BY <1>2, <1>3, <1>4 DEF Feeds
<1> HIDE DEF h, e
<1>6. /\ e.type = "matched" => h = 1 /\ e.of \in Bodies /\ e = Matched(e.of)
      /\ e.type = "chunk" => h \in 2..Chunks + 1 /\ e.n = h - 1 /\ e.n \in 1..Chunks
      /\ e.type = "end" => h = Chunks + 2
      /\ e.type = "error" => e.of \in Failures
      /\ e.type # "error" => e = EventAt(b, h)
  BY <1>3, <1>4, <1>5 DEF EventAt, Matched, Chunk, End, Failure
<1>7. task.failure = None /\ h > 1 => task.matched = b
  <2> SUFFICES ASSUME task.failure = None, h > 1 PROVE task.matched = b
    OBVIOUS
  <2>1. task.head # 0 /\ task.head >= 1
    BY <1>2 DEF h
  <2>2. log[1] = EventAt(task.matched, 1)
    BY <1>1, <1>2, <2>1 DEF Follows, Brought
  <2>3. log[1] = EventAt(b, 1) \/ \E f \in Failures : log[1] = Failure(f)
    BY <1>2, <1>3, <1>4 DEF Feeds
  <2>4. log[1].type = "matched" /\ log[1].of = task.matched
    BY <2>2 DEF EventAt, Matched
  <2>5. ~\E f \in Failures : log[1] = Failure(f)
    <3>1. \A f : Failure(f).type = "error"
      BY DEF Failure
    <3> QED BY ONLY <2>4, <3>1
  <2>6. EventAt(b, 1) = Matched(b)
    BY DEF EventAt
  <2>7. log[1] = Matched(b)
    BY <2>3, <2>5, <2>6
  <2>8. log[1].of = b
    BY ONLY <2>7 DEF Matched
  <2> QED BY ONLY <2>4, <2>8
<1>8. e.type # "error" /\ task.failure = None /\ h > 1 => e = EventAt(task.matched, h)
  BY <1>6, <1>7
<1>9. /\ h \in 1..Chunks + 2 /\ h <= Len(log) /\ task.head \in Nat
      /\ e \in Event /\ Len(log) \in Nat
      /\ e.type = "matched" => h = 1 /\ e.of \in Bodies /\ e = Matched(e.of)
      /\ e.type = "chunk" => h \in 2..Chunks + 1 /\ e.n = h - 1 /\ e.n \in 1..Chunks
      /\ e.type = "end" => h = Chunks + 2
      /\ e.type = "error" => e.of \in Failures
      /\ e.type # "error" /\ task.failure = None /\ h > 1 => e = EventAt(task.matched, h)
  BY ONLY <1>2, <1>3, <1>6, <1>8
<1> QED BY ONLY <1>9 DEF h, e

\* The settle timer starts at most on a whole contract.
LEMMA ConsideredIs ==
  ASSUME NEW t, TaskShape(t)
  PROVE  /\ TaskShape(Considered(t))
         /\ \A f \in {"pc", "head", "matched", "came", "got", "ended", "failure", "error"} :
              Considered(t)[f] = t[f]
         /\ Considered(t).settle =>
              t.settle \/ (reader.kind = "contract" /\ t.failure = None /\ t.got = Chunks)
<1> DEFINE s == t.settle \/ (reader.kind = "contract" /\ t.failure = None /\ ~reader.aborted
                             /\ Complete(t))
<1>1. Considered(t) = [t EXCEPT !.settle = s]
  BY Zenon DEF Considered
<1>2. s \in BOOLEAN /\ (s => t.settle \/ (reader.kind = "contract" /\ t.failure = None /\ t.got = Chunks))
  BY DEF TaskShape, Complete
<1> HIDE DEF s
<1> QED BY <1>1, <1>2 DEF TaskShape

LEMMA YieldsAre ==
  ASSUME NEW who \in {"task", "read"}, NEW t, t.got \in 0..Chunks, NEW n \in 0..Chunks,
         Yields(who, t, n)
  PROVE  chain' = chain \/ \E e \in Entries : e.by = who /\ chain' = Append(chain, e)
<1> DEFINE d == SubSeq(Answer, t.got + 1, n)
           e == Entry(who, "tap", d)
<1>1. Answer \in Seq(Nat) /\ Len(Answer) = Chunks
  BY ReadAssumption DEF Answer
<1>2. CASE n > t.got
  <2>1. d \in Seq(Nat)
    BY <1>1, <1>2, ReadAssumption
  <2>2. e \in Entries /\ e.by = who
    BY <2>1 DEF Entry, Entries
  <2> QED BY <2>2 DEF Yields
<1>3. CASE ~(n > t.got)
  BY <1>3 DEF Yields
<1> QED BY <1>2, <1>3

LEMMA TapTaskStep == ASSUME IInv, TapTask PROVE IInv'
<1>0. IInv
  OBVIOUS
<1> DEFINE h == task.head + 1
           t == [task EXCEPT !.head = h]
           e == log[h]
<1> USE ReadAssumption
<1>1. /\ task.pc = "on" /\ ~Waiting("task") /\ task.head < Len(log)
      /\ OnMatched(t, e) \/ OnChunk(t, e) \/ OnEnd(t, e) \/ OnError(t, e)
      /\ UNCHANGED <<log, over, attached, turn, reader, rec, delivered, mon>>
  <2>1. t = [task EXCEPT !.head = @ + 1] /\ t.head = h
    BY <1>0 DEF IInv, Shapes, TaskShape
  <2> QED BY <2>1 DEF TapTask
<1>2. /\ h \in 1..Chunks + 2 /\ h <= Len(log) /\ task.head \in Nat /\ Len(log) \in Nat
      /\ e \in Event
      /\ e.type = "matched" => h = 1 /\ e.of \in Bodies /\ e = Matched(e.of)
      /\ e.type = "chunk" => h \in 2..Chunks + 1 /\ e.n = h - 1 /\ e.n \in 1..Chunks
      /\ e.type = "end" => h = Chunks + 2
      /\ e.type = "error" => e.of \in Failures
      /\ e.type # "error" /\ task.failure = None /\ h > 1 => e = EventAt(task.matched, h)
  BY <1>1, NextEvent
<1>3. TaskShape(task) /\ Follows(task, log, reader.kind) /\ health \in Health
  BY <1>0 DEF IInv, Shapes, FeedSound
<1> DEFINE n == task.head
<1>4. n \in Nat /\ h = n + 1
  BY <1>2
<1>5. e = log[h]
  OBVIOUS
<1> HIDE DEF e, h
<1>6. /\ TaskShape(t) /\ t.head = h
      /\ \A f \in {"pc", "matched", "came", "got", "ended", "failure", "settle", "error"} : t[f] = task[f]
  BY <1>2, <1>3 DEF TaskShape
<1> HIDE DEF t
\* Whatever else: the task's failures and the events behind it
<1>7. /\ t.settle => reader.kind = "contract" /\ (t.failure = None => task.got = Chunks)
      /\ t.pc = "on"
      /\ t.failure = None =>
           /\ h > 1 => task.matched # None /\ Brought(log, task.matched, n)
           /\ h = 1 => task.matched = None /\ task.came = 0
           /\ h - 1 \in 1..Chunks + 1 => task.came = h - 2
           /\ task.got <= task.came
           /\ ~task.ended
      /\ h = 1 => task.matched = None
  BY <1>1, <1>2, <1>3, <1>4, <1>6 DEF Follows
<1>8. ASSUME NEW b, Brought(log, b, n), h <= Chunks + 1 => e = EventAt(b, h)
      PROVE  Brought(log, b, h)
  BY <1>2, <1>4, <1>5, <1>8 DEF Brought
<1>9. ASSUME NEW k, TaskShape(k), k.head = h, k.pc \in {"on", "cancelling"},
             Follows(k, log, reader.kind), task' = k,
             h > 1 => k.matched = task.matched,
             task.failure # None => k.failure # None,
             health' \in Health,
             \/ chain' = chain
             \/ \E x \in Entries : x.by = "task" /\ chain' = Append(chain, x),
             \/ verdicts' = verdicts
             \/ /\ task.failure = None /\ k.failure # None
                /\ \E x \in Said \ {"verified"} : verdicts' = Append(verdicts, x)
      PROVE  IInv'
  <2>1. task'.head >= task.head /\ (task.matched # None => task'.matched = task.matched)
    BY <1>2, <1>4, <1>7, <1>9
  <2>2. over' \in {over, TRUE} /\ TaskShape(task') /\ task'.pc \in {"on", "cancelling", "done"}
        /\ Follows(task', log, reader.kind) /\ (task.failure # None => task'.failure # None)
        /\ task.pc \in {"on", "cancelling"}
    BY <1>1, <1>9
  <2>3. \/ chain' = chain
        \/ /\ task'.pc # "done"
           /\ \E x \in Entries : x.by = "task" /\ chain' = Append(chain, x)
    BY <1>9
  <2>4. \/ verdicts' = verdicts
        \/ /\ task.failure = None /\ task'.failure # None
           /\ \E x \in Said \ {"verified"} : verdicts' = Append(verdicts, x)
    BY <1>9
  <2>5. UNCHANGED <<log, attached, turn, reader, rec, delivered, mon>>
    BY <1>1
  <2> QED BY <1>0, <1>1, <1>9, <2>1, <2>2, <2>3, <2>4, <2>5, TaskStep
\* A failure
<1>10. ASSUME NEW k, TaskShape(k), k.head = h, k.pc \in {"on", "cancelling"},
              \A f \in {"matched", "came", "got", "ended", "failure", "settle", "error"} : k[f] = task[f],
              NEW reason \in Said \ {"verified"}, FailTap("task", k, reason)
       PROVE  IInv'
  <2> DEFINE why == IF k.failure = None THEN reason ELSE k.failure
             m == [k EXCEPT !.failure = why]
             x == Entry("task", "fallback", <<>>)
  <2>1. task' = m /\ chain' = Append(chain, x)
    BY <1>10, Zenon DEF FailTap
  <2>2. why # None /\ (task.failure # None => why # None)
    BY <1>10 DEF Said
  <2> HIDE DEF why
  <2>3. /\ TaskShape(m) /\ m.head = h /\ m.pc \in {"on", "cancelling"} /\ m.failure = why
        /\ \A f \in {"matched", "came", "got", "ended", "settle", "error"} : m[f] = task[f]
    BY <1>10 DEF TaskShape
  <2> HIDE DEF m
  <2>4. Follows(m, log, reader.kind)
    BY <1>2, <1>6, <1>7, <2>2, <2>3 DEF Follows
  <2>5. x \in Entries /\ x.by = "task"
    BY DEF Entry, Entries
  <2>6. /\ health' \in Health
        /\ \/ verdicts' = verdicts
           \/ /\ task.failure = None /\ m.failure # None
              /\ \E y \in Said \ {"verified"} : verdicts' = Append(verdicts, y)
    <3>1. FailureRecorded(health, reason) \in Health
      BY <1>3, HealthIs
    <3> QED BY <1>3, <1>10, <2>2, <2>3, <3>1 DEF FailTap
  <2> HIDE DEF x
  <2>7. \E y \in Entries : y.by = "task" /\ chain' = Append(chain, y)
    BY <2>1, <2>5
  <2> QED BY <1>9, <2>1, <2>2, <2>3, <2>4, <2>6, <2>7
<1>11. CASE OnMatched(t, e)
  <2> DEFINE k == [t EXCEPT !.matched = e.of]
  <2>1. task' = k /\ UNCHANGED <<health, chain, verdicts>> /\ e.type = "matched"
    BY <1>11 DEF OnMatched
  <2>2. h = 1 /\ e.of \in Bodies /\ e = EventAt(e.of, 1) /\ e.of # None
    BY <1>2, <2>1 DEF EventAt
  <2>3. /\ TaskShape(k) /\ k.matched = e.of /\ k.head = h /\ k.pc = "on"
        /\ \A f \in {"came", "got", "ended", "failure", "settle", "error"} : k[f] = task[f]
    BY <1>6, <1>7, <2>2 DEF TaskShape
  <2> HIDE DEF k
  <2>4. Brought(log, e.of, h)
    BY <1>2, <1>5, <2>2 DEF Brought
  <2>5. Follows(k, log, reader.kind)
    BY <1>2, <1>6, <1>7, <2>2, <2>3, <2>4 DEF Follows
  <2> QED BY <1>3, <1>9, <2>1, <2>2, <2>3, <2>5
\* What goes on without a failure
<1>12. ASSUME NEW k, TaskShape(k), k.head = h, k.pc = "on", h > 1,
              k.matched = task.matched, k.failure = task.failure, k.settle = task.settle, k.error = task.error,
              task.failure = None /\ h <= Chunks + 1 => e = EventAt(task.matched, h),
              task.failure = None =>
                k.came = (IF h <= Chunks + 1 THEN h - 1 ELSE Chunks) /\ k.got \in task.got..k.came,
              task.failure = None /\ k.ended => k.got = Chunks,
              task.failure = None => (k.ended <=> h = Chunks + 2),
              task.failure = None /\ k.ended => e = End(task.matched) \/ reader.kind = "contract",
              task' = Considered(k), UNCHANGED <<health, verdicts>>,
              \/ chain' = chain
              \/ \E x \in Entries : x.by = "task" /\ chain' = Append(chain, x)
       PROVE  IInv'
  <2> DEFINE m == Considered(k)
  <2>1. /\ TaskShape(m) /\ m.head = h /\ m.pc = "on"
        /\ \A f \in {"matched", "came", "got", "ended", "failure", "error"} : m[f] = k[f]
        /\ m.settle => task.settle \/ (reader.kind = "contract" /\ task.failure = None /\ k.got = Chunks)
    BY <1>12, ConsideredIs
  <2>2. task' = m
    BY <1>12
  <2> HIDE DEF m
  <2>3. task.failure = None => Brought(log, task.matched, h) /\ task.matched # None
    BY <1>7, <1>6, <1>8, <1>12
  <2>4. m.settle => reader.kind = "contract" /\ (m.failure = None => m.got = Chunks)
    <3>1. TaskShape(k) /\ task.got \in Nat
      BY <1>3, <1>12 DEF TaskShape
    <3> QED BY <1>2, <1>6, <1>7, <1>12, <2>1, <3>1 DEF TaskShape
  <2>5. Follows(m, log, reader.kind)
    BY <1>1, <1>2, <1>5, <1>12, <2>1, <2>3, <2>4 DEF Follows
  <2> QED BY <1>3, <1>9, <1>12, <2>1, <2>2, <2>5
<1>13. CASE OnChunk(t, e)
  <2>1. e.type = "chunk" /\ h \in 2..Chunks + 1 /\ e.n = h - 1 /\ e.n \in 1..Chunks
    BY <1>2, <1>13 DEF OnChunk
  <2>2. CASE FailTap("task", [t EXCEPT !.pc = "cancelling"], "decode_error")
    <3> DEFINE k == [t EXCEPT !.pc = "cancelling"]
    <3>1. /\ TaskShape(k) /\ k.head = h /\ k.pc \in {"on", "cancelling"}
          /\ \A f \in {"matched", "came", "got", "ended", "failure", "settle", "error"} : k[f] = task[f]
      BY <1>6, <1>7 DEF TaskShape
    <3>2. "decode_error" \in Said \ {"verified"}
      BY DEF Said
    <3>3. FailTap("task", k, "decode_error")
      BY <2>2
    <3> HIDE DEF k
    <3> QED BY <1>10, <3>1, <3>2, <3>3
  <2>3. CASE /\ \E m \in {e.n - 1, e.n} :
                  /\ m >= t.got
                  /\ task' = Considered([t EXCEPT !.got = m, !.came = e.n])
                  /\ Yields("task", t, m)
             /\ UNCHANGED <<health, verdicts>>
    <3> PICK m \in {e.n - 1, e.n} : /\ m >= t.got
                                   /\ task' = Considered([t EXCEPT !.got = m, !.came = e.n])
                                   /\ Yields("task", t, m)
      BY <2>3
    <3> DEFINE k == [t EXCEPT !.got = m, !.came = e.n]
    <3>0. m \in 0..Chunks /\ e.n \in 0..Chunks /\ task.got \in 0..Chunks /\ m <= e.n /\ m >= task.got
      BY <1>3, <1>6, <2>1 DEF TaskShape
    <3>1. /\ TaskShape(k) /\ k.head = h /\ k.pc = "on" /\ k.came = h - 1 /\ k.got = m
          /\ \A f \in {"matched", "ended", "failure", "settle", "error"} : k[f] = task[f]
      BY <1>6, <1>7, <2>1, <3>0 DEF TaskShape
    <3>3. task' = Considered(k)
      OBVIOUS
    <3> HIDE DEF k
    <3>4. task.failure = None => k.came = (IF h <= Chunks + 1 THEN h - 1 ELSE Chunks)
                                 /\ k.got \in task.got..k.came
      BY <2>1, <3>0, <3>1
    <3>5. task.failure = None => (k.ended <=> h = Chunks + 2)
      BY <1>6, <1>7, <2>1, <3>1
    <3>6. task.failure = None => ~k.ended
      BY <2>1, <3>5
    <3>7. task.failure = None /\ h <= Chunks + 1 => e = EventAt(task.matched, h)
      BY <1>2, <2>1
    <3>8. chain' = chain \/ \E y \in Entries : y.by = "task" /\ chain' = Append(chain, y)
      BY <1>6, <3>0, YieldsAre
    <3>9. h > 1 /\ h <= Chunks + 1
      BY <2>1
    <3> QED BY <1>12, <2>3, <3>1, <3>3, <3>4, <3>5, <3>6, <3>7, <3>8, <3>9
  <2> QED BY <1>13, <2>2, <2>3 DEF OnChunk
<1>14. CASE OnEnd(t, e)
  <2>1. e.type = "end" /\ h = Chunks + 2 /\ h > 1
    BY <1>2, <1>14 DEF OnEnd
  <2>2. CASE FailTap("task", t, "decode_error")
    <3>1. "decode_error" \in Said \ {"verified"}
      BY DEF Said
    <3> QED BY <1>6, <1>7, <1>10, <2>2, <3>1
  <2>3. CASE /\ task' = Considered([t EXCEPT !.got = t.came, !.ended = TRUE])
             /\ Yields("task", t, t.came)
             /\ UNCHANGED <<health, verdicts>>
    <3> DEFINE k == [t EXCEPT !.got = t.came, !.ended = TRUE]
    <3>1. /\ TaskShape(k) /\ k.head = h /\ k.pc = "on" /\ k.ended = TRUE /\ k.got = task.came
          /\ \A f \in {"matched", "came", "failure", "settle", "error"} : k[f] = task[f]
      BY <1>6, <1>7 DEF TaskShape
    <3>2. task' = Considered(k)
      BY <2>3
    <3> HIDE DEF k
    <3>3. task.failure = None => e = End(task.matched) /\ task.came = Chunks /\ task.got <= task.came
      BY <1>2, <1>6, <1>7, <2>1 DEF EventAt
    <3>4. ~(h <= Chunks + 1) /\ task.came \in 0..Chunks /\ task.got \in 0..Chunks
      BY <1>3, <2>1 DEF TaskShape
    <3>5. chain' = chain \/ \E y \in Entries : y.by = "task" /\ chain' = Append(chain, y)
      BY <1>6, <2>3, <3>4, YieldsAre
    <3>6. task.failure = None => k.came = (IF h <= Chunks + 1 THEN h - 1 ELSE Chunks)
                                 /\ k.got \in task.got..k.came /\ k.got = Chunks
      BY <3>1, <3>3, <3>4
    <3> QED BY <1>12, <2>1, <2>3, <3>1, <3>2, <3>3, <3>4, <3>5, <3>6
  <2> QED BY <1>14, <2>2, <2>3 DEF OnEnd
<1>15. CASE OnError(t, e)
  <2>1. e.type = "error" /\ e.of \in Failures
    BY <1>2, <1>15 DEF OnError
  <2>2. CASE FailTap("task", t, e.of)
    <3>1. e.of \in Said \ {"verified"}
      BY <2>1 DEF Said
    <3> QED BY <1>6, <1>7, <1>10, <2>2, <3>1
  <2>3. CASE /\ e.of = "stream_aborted" /\ t.matched # None /\ Preserved(t)
             /\ task' = Considered([t EXCEPT !.ended = TRUE])
             /\ UNCHANGED <<health, chain, verdicts>>
    <3> DEFINE k == [t EXCEPT !.ended = TRUE]
    <3>1. /\ TaskShape(k) /\ k.head = h /\ k.pc = "on" /\ k.ended = TRUE
          /\ \A f \in {"matched", "came", "got", "failure", "settle", "error"} : k[f] = task[f]
      BY <1>6, <1>7 DEF TaskShape
    <3>2. task' = Considered(k)
      BY <2>3
    <3> HIDE DEF k
    <3>3. task.failure = None /\ task.got = Chunks /\ reader.kind = "contract" /\ task.matched # None
      BY <1>6, <2>3 DEF Preserved, Complete
    <3>4. h = Chunks + 2 /\ h > 1 /\ task.came = Chunks
      BY <1>2, <1>3, <1>6, <1>7, <3>3 DEF TaskShape
    <3>5. ~(h <= Chunks + 1) /\ k.came = Chunks /\ k.got = Chunks /\ k.got \in task.got..k.came
      BY <3>1, <3>3, <3>4
    <3> QED BY <1>12, <2>3, <3>1, <3>2, <3>3, <3>4, <3>5
  <2> QED BY <1>15, <2>2, <2>3 DEF OnError
<1> QED BY <1>1, <1>11, <1>13, <1>14, <1>15

LEMMA TaskSteps == ASSUME IInv, Task PROVE IInv'
<1>0. IInv
  OBVIOUS
<1>1. TaskShape(task) /\ Follows(task, log, reader.kind) /\ health \in Health
  BY <1>0 DEF IInv, Shapes, FeedSound
<1>2. ASSUME NEW pc \in {"on", "done"}, task' = [task EXCEPT !.pc = pc],
             task.pc \in {"on", "cancelling"}
      PROVE  /\ TaskShape(task') /\ task'.pc = pc /\ Follows(task', log, reader.kind)
             /\ task'.head >= task.head
             /\ task'.matched = task.matched /\ task'.failure = task.failure
  <2>1. /\ TaskShape(task') /\ task'.pc = pc
        /\ \A f \in {"head", "matched", "came", "got", "ended", "failure", "settle", "error"} : task'[f] = task[f]
    BY <1>1, <1>2 DEF TaskShape
  <2> QED BY <1>1, <2>1 DEF Follows, TaskShape
<1>3. CASE TapTask
  BY <1>0, <1>3, TapTaskStep
<1>4. CASE TapTaskCancels
  <2>1. task' = [task EXCEPT !.pc = "on"]
    BY <1>4 DEF TapTaskCancels
  <2> QED BY <1>0, <1>1, <1>2, <1>4, <2>1, TaskStep DEF TapTaskCancels, Cancel, tapState
<1>5. CASE TapTaskEnds
  <2>1. task' = [task EXCEPT !.pc = "done"]
    BY <1>5 DEF TapTaskEnds
  <2> QED BY <1>0, <1>1, <1>2, <1>5, <2>1, TaskStep DEF TapTaskEnds, tapState
<1> QED BY <1>3, <1>4, <1>5 DEF Task

-----------------------------------------------------------------------------
(* The monitor *)

LEMMA MonitorSteps == ASSUME IInv, Monitor PROVE IInv'
<1>0. IInv
  OBVIOUS
<1>1. MonShape(mon) /\ ~AtOnce
  BY <1>0 DEF IInv, Shapes, Monitor
<1>2. MonShape(NoMonitor)
  BY Fresh
<1>3. ASSUME NEW why, Throws(why) PROVE MonShape(mon') /\ mon'.pc = "failed"
  BY <1>2, <1>3 DEF Throws, MonShape, NoMonitor
<1>4. ASSUME NEW text \in Texts, Returns(text) PROVE MonShape(mon') /\ mon'.pc = "returned"
  BY <1>2, <1>4 DEF Returns, MonShape, NoMonitor
<1>5. ASSUME NEW pc \in {"top", "reading"}, NEW fresh \in BOOLEAN,
             mon' = [mon EXCEPT !.pc = pc, !.fresh = fresh], mon.pc # "failed"
      PROVE  MonShape(mon') /\ mon'.pc = pc
  BY <1>1, <1>5 DEF MonShape
<1>6. CASE MonitorIsLate
  <2>1. mon.pc = "top" /\ MonShape(mon') /\ mon'.pc = "failed" /\ chain' = chain /\ MonitorKeeps
    BY <1>3, <1>6 DEF MonitorIsLate
  <2> QED BY <1>0, <1>1, <2>1, MonitorStep
<1>7. CASE MonitorTop
  <2>1. /\ mon.pc = "top" /\ chain' = chain /\ MonitorKeeps
        /\ Throws("stopped") \/ mon' = [mon EXCEPT !.pc = "reading"]
    BY <1>7 DEF MonitorTop
  <2>2. MonShape(mon') /\ mon'.pc \in {"failed", "reading"}
    BY <1>1, <1>3, <2>1 DEF MonShape
  <2> QED BY <1>0, <1>1, <2>1, <2>2, MonitorStep
<1>8. CASE MonitorReads
  <2>1. mon.pc = "reading" /\ MonitorKeeps
    BY <1>8 DEF MonitorReads
  <2> PICK text \in Renderings(mon.last) :
        LET delta == Added(mon.streamed, text)
            fresh == text # mon.last IN
        /\ mon' = [mon EXCEPT !.pc = "judging", !.fresh = fresh,
                     !.last = text,
                     !.streamed = IF fresh /\ delta # <<>> THEN text ELSE @]
        /\ chain' = IF fresh /\ delta # <<>> /\ (Hybrid \/ Streams)
                      THEN Append(chain, Entry("mon", IF Hybrid THEN "dom" ELSE "direct", delta))
                      ELSE chain
    BY <1>8 DEF MonitorReads
  <2> DEFINE delta == Added(mon.streamed, text)
             fresh == text # mon.last
             streamed == IF fresh /\ delta # <<>> THEN text ELSE mon.streamed
             act == IF Hybrid THEN "dom" ELSE "direct"
             e == Entry("mon", act, delta)
  <2>2. mon' = [mon EXCEPT !.pc = "judging", !.fresh = fresh, !.last = text, !.streamed = streamed]
        /\ chain' \in {chain, Append(chain, e)}
    OBVIOUS
  <2>3. text \in Texts /\ mon.streamed \in Texts
    BY <1>1 DEF Renderings, MonShape
  <2>4. text \in Seq(Nat) /\ mon.streamed \in Seq(Nat)
    BY <2>3, TextsAre
  <2>5. delta \in Seq(Nat)
    BY <2>4, Completes DEF Added, Rest
  <2>6. fresh \in BOOLEAN /\ streamed \in Texts /\ act \in {"dom", "direct"}
    BY <2>3
  <2> HIDE DEF delta, fresh, streamed, act
  <2>7. MonShape(mon') /\ mon'.pc = "judging"
    BY <1>1, <2>1, <2>2, <2>3, <2>6 DEF MonShape
  <2>8. e \in Entries /\ e.by = "mon"
    BY <2>5, <2>6 DEF Entry, Entries
  <2> HIDE DEF e
  <2>9. chain' = chain \/ \E x \in Entries : x.by = "mon" /\ chain' = Append(chain, x)
    BY <2>2, <2>8
  <2> QED BY <1>0, <1>1, <2>1, <2>7, <2>9, MonitorStep
<1>9. CASE MonitorReturns
  <2>1. mon.pc = "judging" /\ ~Waiting("mon") /\ chain' = chain /\ MonitorKeeps
    BY <1>9 DEF MonitorReturns, Judging
  <2>2. mon.last \in Texts /\ Renderings(mon.last) \subseteq Texts
    BY <1>1 DEF MonShape, Renderings
  <2>3. MonShape(mon') /\ mon'.pc = "returned"
    BY <1>4, <1>9, <2>2 DEF MonitorReturns
  <2> QED BY <1>0, <1>1, <2>1, <2>3, MonitorStep
<1>10. CASE MonitorGoesOn
  <2>1. /\ mon.pc = "judging" /\ ~Waiting("mon") /\ chain' = chain /\ MonitorKeeps
        /\ mon' = ToTop(mon) \/ Throws("timeout") \/ Throws("stopped")
    BY <1>10 DEF MonitorGoesOn, Judging
  <2>2. MonShape(mon') /\ mon'.pc \in {"top", "failed"}
    BY <1>3, <1>5, <2>1 DEF ToTop
  <2> QED BY <1>0, <1>1, <2>1, <2>2, MonitorStep
<1> QED BY <1>6, <1>7, <1>8, <1>9, <1>10 DEF Monitor

-----------------------------------------------------------------------------
(* read() *)

\* What is known of the turn while read() has something left to do
LEMMA Reading ==
  ASSUME IInv, reader.pc \notin {"idle", "armed", "done"}
  PROVE  /\ ReaderShape(reader) /\ TaskShape(task) /\ MonShape(mon) /\ health \in Health
         /\ verdicts \in Seq(Said) /\ Len(verdicts) <= 1
         /\ Captured(task) \in Texts /\ TapText(task) \in Texts
         /\ Follows(task, log, reader.kind) /\ LogShape(log) /\ ReadSound /\ TapSound
         /\ reader.pc \notin {"final", "closing"} =>
              /\ verdicts # <<>> => task.failure # None
              /\ "verified" \notin {verdicts[i] : i \in DOMAIN verdicts}
         /\ Waiting("read") => reader.pc \in After
<1>1. /\ ReaderShape(reader) /\ TaskShape(task) /\ MonShape(mon) /\ health \in Health
      /\ verdicts \in Seq(Said) /\ Follows(task, log, reader.kind) /\ LogShape(log)
      /\ ReadSound /\ TapSound /\ VerdictSound /\ (Waiting("read") => reader.pc \in After)
  BY DEF IInv, Shapes, FeedSound, Queue
<1>2. Captured(task) \in Texts /\ TapText(task) \in Texts
  BY <1>1, TextsAre DEF Captured, TapText, TaskShape
<1> QED BY <1>1, <1>2 DEF VerdictSound, VerdictIsEarned

\* A task that has met no failure and holds every piece got each of them from the queue.
LEMMA WholeCapture ==
  ASSUME TaskShape(task), LogShape(log), Follows(task, log, reader.kind),
         task.failure = None, task.got = Chunks
  PROVE  /\ Captured(task) = Answer /\ task.matched # None
         /\ task.head > Chunks /\ Brought(log, task.matched, Chunks + 1)
<1> USE ReadAssumption
<1>1. Captured(task) = Answer
  BY TextsAre DEF Captured
<1>2. task.head \in Nat
  BY DEF TaskShape
<1>3. task.head >= Chunks + 1 /\ task.matched # None /\ Brought(log, task.matched, task.head)
  BY <1>2 DEF Follows, TaskShape
<1>4. Len(log) \in Nat
  BY LenProperties, EmptySeq DEF LogShape
<1> QED BY <1>1, <1>2, <1>3, <1>4 DEF Brought

\* read() itself finds the tap wanting.
LEMMA ReadFailsTap ==
  ASSUME IInv, reader.pc \in {"draining", "judging"}, ~Waiting("read"),
         NEW reason \in Said \ {"verified"}, FailTap("read", task, reason)
  PROVE  /\ TaskShape(task')
         /\ \A f \in {"pc", "head", "matched", "came", "got", "ended", "settle", "error"} : task'[f] = task[f]
         /\ task'.failure # None
         /\ \E e \in Entries : e.by = "read" /\ chain' = Append(chain, e)
         /\ health' \in Health /\ verdicts' \in Seq(Said) /\ Len(verdicts') <= 1
         /\ "verified" \notin {verdicts'[i] : i \in DOMAIN verdicts'}
<1> DEFINE why == IF task.failure = None THEN reason ELSE task.failure
           e == Entry("read", "fallback", <<>>)
<1>1. /\ TaskShape(task) /\ health \in Health /\ verdicts \in Seq(Said) /\ Len(verdicts) <= 1
      /\ verdicts # <<>> => task.failure # None
      /\ "verified" \notin {verdicts[i] : i \in DOMAIN verdicts}
  BY Reading
<1>2. why # None
  BY ReadAssumption DEF Said
<1>3. task' = [task EXCEPT !.failure = why] /\ chain' = Append(chain, e)
  BY Zenon DEF FailTap
<1>4. e \in Entries /\ e.by = "read"
  BY DEF Entry, Entries
<1>5. \/ task.failure # None /\ UNCHANGED <<health, verdicts>>
      \/ /\ task.failure = None /\ health' = FailureRecorded(health, reason)
         /\ verdicts' = Append(verdicts, reason)
  BY DEF FailTap
<1> HIDE DEF why, e
<1>6. /\ TaskShape(task') /\ task'.failure # None
      /\ \A f \in {"pc", "head", "matched", "came", "got", "ended", "settle", "error"} : task'[f] = task[f]
  BY <1>1, <1>2, <1>3 DEF TaskShape
<1>7. health' \in Health
  BY <1>1, <1>5, HealthIs
<1>8. /\ verdicts' \in Seq(Said) /\ Len(verdicts') <= 1
      /\ "verified" \notin {verdicts'[i] : i \in DOMAIN verdicts'}
  <2>1. CASE UNCHANGED verdicts
    BY <1>1, <2>1
  <2>2. CASE task.failure = None /\ verdicts' = Append(verdicts, reason)
    <3>0. verdicts = <<>>
      BY <1>1, <2>2
    <3>1. verdicts' = <<reason>>
      BY <2>2, <3>0
    <3>2. reason \in Said /\ reason # "verified"
      OBVIOUS
    <3> QED BY ONLY <3>1, <3>2
  <2> QED BY <1>5, <2>1, <2>2
<1> QED BY <1>3, <1>4, <1>6, <1>7, <1>8

LEMMA AbortStep == ASSUME IInv, AbortSignalled PROVE IInv'
<1>0. IInv /\ reader.pc = "racing"
  BY DEF AbortSignalled
<1>1. /\ ReaderShape(reader') /\ reader'.pc = "racing"
      /\ \A f \in {"kind", "winner", "text", "final", "error"} : reader'[f] = reader[f]
      /\ UNCHANGED <<log, over, tapState, task, rec, chain, delivered, mon, verdicts>>
  BY <1>0, Reading DEF AbortSignalled, ReaderShape
<1>2. VerdictSound' /\ TapSound'
  BY <1>0, <1>1 DEF IInv, VerdictSound, VerdictIsEarned, TapSound, tapState
<1> QED BY <1>0, <1>1, <1>2, Reading, ReadStep DEF ReadSound, tapState, After

\* A step of read() that leaves the tap alone, and the queue but for the final text
LEMMA PlainStep ==
  ASSUME IInv, reader.pc \notin {"idle", "armed", "done"},
         ReaderShape(reader'), reader'.pc \notin {"idle", "armed", "racing"},
         reader'.kind = reader.kind,
         UNCHANGED <<log, tapState, task, rec, delivered, mon, verdicts>>, over' \in {over, TRUE},
         \/ chain' = chain /\ reader'.pc # "closing" /\ ~Waiting("read")
         \/ /\ ~Waiting("read") /\ reader'.pc = "closing"
            /\ chain' = Append(chain, Entry("read", "final", reader'.final)),
         reader.pc = "racing" => reader'.pc \in {"failing", "draining"} \/ task.pc = "off",
         reader'.pc = "failing" => reader'.winner = None,
         reader'.pc \in {"failing", "draining"} \union After => over',
         reader'.pc \in After \union {"done"} => task.pc \notin {"on", "cancelling"},
         reader'.pc = "failing" /\ reader'.error = "timeout" =>
           mon.pc = "failed" /\ mon.error = "timeout",
         Streams => /\ reader'.pc \in {"draining"} \union After =>
                         mon.pc \in {"returned", "failed"} /\ mon.error # "client"
                    /\ reader'.pc \in After => task.error # "client",
         reader.pc \in {"final", "closing"} =>
           /\ reader'.pc \in {"closing", "done"}
           /\ reader'.winner = reader.winner /\ reader'.text = reader.text,
         TapSound'
  PROVE  IInv'
<1>0. IInv
  OBVIOUS
<1>1. /\ ReaderShape(reader) /\ TaskShape(task) /\ health \in Health /\ verdicts \in Seq(Said)
      /\ reader.pc \notin {"final", "closing"} =>
           /\ verdicts # <<>> => task.failure # None
           /\ "verified" \notin {verdicts[i] : i \in DOMAIN verdicts}
  BY <1>0, Reading
<1>2. VerdictSound'
  BY <1>0, <1>1 DEF IInv, VerdictSound, VerdictIsEarned, tapState
<1>3. \/ /\ chain' = chain /\ reader'.pc # "closing"
         /\ Waiting("read") => reader'.pc \in After
      \/ /\ ~Waiting("read") /\ reader'.pc \in After
         /\ \E e \in Entries : /\ e.by = "read" /\ chain' = Append(chain, e)
                               /\ reader'.pc = "closing" => e = Entry("read", "final", reader'.final)
  <2>1. CASE chain' = chain /\ reader'.pc # "closing" /\ ~Waiting("read")
    BY <2>1
  <2>2. CASE /\ ~Waiting("read") /\ reader'.pc = "closing"
             /\ chain' = Append(chain, Entry("read", "final", reader'.final))
    <3> DEFINE e == Entry("read", "final", reader'.final)
    <3>1. reader'.final \in Seq(Nat)
      BY TextsAre DEF ReaderShape
    <3>2. e \in Entries /\ e.by = "read"
      BY <3>1 DEF Entry, Entries
    <3> QED BY <2>2, <3>2 DEF After
  <2> QED BY <2>1, <2>2
<1> QED BY <1>0, <1>1, <1>2, <1>3, ReadStep DEF tapState

LEMMA RaceSteps == ASSUME IInv, DirectEnds \/ RaceEnds PROVE IInv'
<1>0. IInv /\ reader.pc = "racing"
  BY DEF DirectEnds, RaceEnds
<1>1. /\ ReaderShape(reader) /\ TaskShape(task) /\ MonShape(mon)
      /\ Captured(task) \in Texts /\ mon.last \in Texts
      /\ Follows(task, log, reader.kind) /\ LogShape(log) /\ ReadSound /\ TapSound
      /\ ~Waiting("read") /\ reader.winner = None
  BY <1>0, Reading DEF MonShape, After, ReadSound
<1>2. None \notin {"dom", "tap"}
  BY ReadAssumption
<1>3. CASE DirectEnds
  <2>1. /\ ReaderShape(reader') /\ reader'.pc = "done" /\ reader'.winner = "dom"
        /\ reader'.kind = reader.kind
    BY <1>1, <1>3 DEF DirectEnds, ReaderShape
  <2>2. /\ UNCHANGED <<log, over, tapState, task, rec, chain, delivered, mon, verdicts>>
        /\ task.pc = "off"
    BY <1>0, <1>1, <1>3 DEF DirectEnds, ReaderKeeps, tapState, ReadSound
  <2>3. TapSound'
    BY <2>1 DEF TapSound
  <2> QED BY <1>0, <1>1, <2>1, <2>2, <2>3, PlainStep DEF After
<1>4. CASE RaceEnds
  <2>1. /\ UNCHANGED <<log, tapState, task, rec, chain, delivered, mon, verdicts>> /\ over' = TRUE
    BY <1>4 DEF RaceEnds, StopObserving, Cancel
  <2>2. CASE /\ mon.pc = "returned"
             /\ reader' = [reader EXCEPT !.pc = "draining", !.winner = "dom", !.text = mon.last]
    <3>1. /\ ReaderShape(reader') /\ reader'.pc = "draining" /\ reader'.winner = "dom"
          /\ reader'.kind = reader.kind
      BY <1>1, <2>2 DEF ReaderShape
    <3>2. TapSound'
      BY <3>1 DEF TapSound
    <3>3. mon.error # "client"
      BY <1>1, <2>2, ReadAssumption DEF MonShape
    <3> QED BY <1>0, <1>1, <2>1, <2>2, <3>1, <3>2, <3>3, PlainStep DEF After
  <2>3. CASE /\ task.settle /\ task.failure = None /\ ~reader.aborted
             /\ reader' = [reader EXCEPT !.pc = "draining", !.winner = "tap", !.text = Captured(task)]
    <3>1. /\ ReaderShape(reader') /\ reader'.pc = "draining" /\ reader'.text = Captured(task)
          /\ reader'.kind = reader.kind /\ reader'.winner = "tap"
      BY <1>1, <2>3 DEF ReaderShape
    <3>2. reader.kind = "contract" /\ task.got = Chunks
      BY <1>1, <2>3 DEF Follows
    <3>3. TapSound'
      BY <1>1, <2>1, <2>3, <3>1, <3>2, WholeCapture DEF TapSound, Answer
    <3> QED BY <1>0, <1>1, <2>1, <2>3, <3>1, <3>2, <3>3, PlainStep DEF After, Streams
  <2>4. CASE \/ mon.pc = "failed" /\ reader' = [reader EXCEPT !.pc = "failing", !.error = mon.error]
             \/ task.pc = "failed" /\ reader' = [reader EXCEPT !.pc = "failing", !.error = task.error]
    <3>1. /\ ReaderShape(reader') /\ reader'.pc = "failing" /\ reader'.winner = None
          /\ reader'.kind = reader.kind
          /\ reader'.error = "timeout" => mon.pc = "failed" /\ mon.error = "timeout"
      <4>1. task.error # "timeout"
        BY <1>1, ReadAssumption DEF TaskShape
      <4>2. CASE mon.pc = "failed" /\ reader' = [reader EXCEPT !.pc = "failing", !.error = mon.error]
        BY <1>1, <4>2 DEF ReaderShape
      <4>3. CASE task.pc = "failed" /\ reader' = [reader EXCEPT !.pc = "failing", !.error = task.error]
        BY <1>1, <4>1, <4>3 DEF ReaderShape
      <4> QED BY <2>4, <4>2, <4>3
    <3>2. TapSound'
      BY <1>2, <3>1 DEF TapSound
    <3> QED BY <1>0, <1>1, <1>2, <2>1, <2>4, <3>1, <3>2, PlainStep DEF After
  <2> QED BY <1>4, <2>2, <2>3, <2>4 DEF RaceEnds
<1> QED BY <1>3, <1>4

LEMMA FailingStep == ASSUME IInv, Failing PROVE IInv'
<1>0. IInv /\ reader.pc = "failing"
  BY DEF Failing
<1>1. /\ ReaderShape(reader) /\ TaskShape(task) /\ Captured(task) \in Texts
      /\ Follows(task, log, reader.kind) /\ LogShape(log) /\ ReadSound
      /\ ~Waiting("read") /\ reader.winner = None /\ over
  BY <1>0, Reading DEF After, ReadSound
<1>2. None \notin {"dom", "tap"}
  BY ReadAssumption
<1>3. /\ UNCHANGED <<log, over, tapState, task, rec, chain, delivered, mon, verdicts>>
      /\ task.pc \in {"done", "failed"}
  BY DEF Failing, ReaderKeeps, tapState
<1>4. CASE /\ Recovered
           /\ reader' = [reader EXCEPT !.pc = "judging", !.winner = "tap", !.text = Captured(task),
                                       !.error = None]
  <2>1. /\ ReaderShape(reader') /\ reader'.pc = "judging" /\ reader'.text = Captured(task)
        /\ reader'.kind = reader.kind /\ reader'.winner = "tap"
    BY <1>1, <1>4 DEF ReaderShape, After
  <2>2. reader.error = "timeout" /\ task.error # "client" /\ task.failure = None /\ task.got = Chunks
    BY <1>4 DEF Recovered, Complete
  <2>3. mon.pc = "failed" /\ mon.error # "client"
    BY <1>0, <1>1, <2>2 DEF ReadSound
  <2>4. TapSound'
    BY <1>1, <1>3, <2>1, <2>2, WholeCapture DEF TapSound, Answer
  <2> QED BY <1>0, <1>1, <1>3, <2>1, <2>2, <2>3, <2>4, PlainStep DEF After, Streams
<1>5. CASE reader' = [reader EXCEPT !.pc = "done"]
  <2>1. ReaderShape(reader') /\ reader'.pc = "done" /\ reader'.kind = reader.kind /\ reader'.winner = None
    BY <1>1, <1>5 DEF ReaderShape
  <2>2. TapSound'
    BY <1>2, <2>1 DEF TapSound
  <2> QED BY <1>0, <1>1, <1>2, <1>3, <2>1, <2>2, PlainStep DEF After
<1> QED BY <1>4, <1>5 DEF Failing

LEMMA DrainedStep == ASSUME IInv, Drained PROVE IInv'
<1>0. IInv /\ reader.pc = "draining"
  BY DEF Drained
<1>1. /\ ReaderShape(reader) /\ TaskShape(task) /\ health \in Health /\ verdicts \in Seq(Said)
      /\ Follows(task, log, reader.kind) /\ ReadSound /\ TapSound
      /\ ~Waiting("read") /\ over /\ "verified" \notin {verdicts[i] : i \in DOMAIN verdicts}
  BY <1>0, Reading DEF After, ReadSound
<1>2. UNCHANGED <<log, attached, turn, rec, delivered, over, mon>>
  BY DEF Drained, ReaderKeeps
<1>3. CASE /\ task.pc = "failed"
           /\ reader' = [reader EXCEPT !.pc = "done", !.error = task.error]
           /\ UNCHANGED <<health, task, chain, verdicts>>
  <2>1. /\ ReaderShape(reader') /\ reader'.pc = "done" /\ reader'.error = task.error
        /\ \A f \in {"kind", "winner", "text", "final"} : reader'[f] = reader[f]
    BY <1>1, <1>3 DEF ReaderShape
  <2>2. TapSound'
    BY <1>1, <1>2, <1>3, <2>1 DEF TapSound, TaskShape
  <2> QED BY <1>0, <1>1, <1>2, <1>3, <2>1, <2>2, PlainStep DEF After, ReadSound, tapState
<1>4. CASE task.pc = "done" /\ reader' = [reader EXCEPT !.pc = "judging"]
  <2>0. task.error # "client"
    BY <1>1, <1>4, ReadAssumption DEF TaskShape
  <2>1. /\ ReaderShape(reader') /\ reader'.pc = "judging"
        /\ \A f \in {"kind", "winner", "text", "final", "error"} : reader'[f] = reader[f]
    BY <1>1, <1>4 DEF ReaderShape, After
  <2>2. CASE UNCHANGED <<health, task, chain, verdicts>>
    <3>1. TapSound'
      BY <1>1, <1>2, <2>1, <2>2 DEF TapSound
    <3> QED BY <1>0, <1>1, <1>2, <1>4, <2>0, <2>1, <2>2, <3>1, PlainStep DEF After, ReadSound, tapState
  <2>4. CASE /\ ~task.ended /\ reader.winner = "dom"
             /\ task' = [task EXCEPT !.got = task.came] /\ Yields("read", task, task.came)
             /\ UNCHANGED <<health, verdicts>>
    <3>1. /\ TaskShape(task') /\ task'.got = task.came
          /\ \A f \in {"pc", "head", "matched", "came", "ended", "settle", "failure", "error"} :
               task'[f] = task[f]
      BY <1>1, <2>4 DEF TaskShape
    <3>2. chain' = chain \/ \E e \in Entries : e.by = "read" /\ chain' = Append(chain, e)
      BY <1>1, <2>4, YieldsAre DEF TaskShape
    <3>3. VerdictSound'
      BY <1>0, <2>1, <2>4, <3>1, Reading DEF VerdictSound, VerdictIsEarned
    <3>4. TapSound'
      BY <2>1, <2>4 DEF TapSound
    <3> QED BY <1>0, <1>1, <1>2, <1>4, <2>0, <2>1, <2>4, <3>1, <3>2, <3>3, <3>4, ReadStep
            DEF After, ReadSound, tapState
  <2>3. CASE ~task.ended /\ reader.winner = "dom" /\ FailTap("read", task, "decode_error")
    <3>1. "decode_error" \in Said \ {"verified"}
      BY DEF Said
    <3>2. /\ TaskShape(task')
          /\ \A f \in {"pc", "head", "matched", "came", "got", "ended", "settle", "error"} : task'[f] = task[f]
          /\ task'.failure # None
          /\ \E e \in Entries : e.by = "read" /\ chain' = Append(chain, e)
          /\ health' \in Health /\ verdicts' \in Seq(Said) /\ Len(verdicts') <= 1
          /\ "verified" \notin {verdicts'[i] : i \in DOMAIN verdicts'}
      BY <1>0, <1>1, <2>3, <3>1, ReadFailsTap
    <3>3. VerdictSound'
      BY <3>2 DEF VerdictSound, VerdictIsEarned
    <3>4. TapSound'
      BY <2>1, <2>3 DEF TapSound
    <3> QED BY <1>0, <1>1, <1>2, <1>4, <2>0, <2>1, <3>2, <3>3, <3>4, ReadStep
            DEF After, ReadSound, tapState
  <2> QED BY <1>4, <2>2, <2>3, <2>4 DEF Drained
<1> QED BY <1>3, <1>4 DEF Drained

LEMMA VerdictStep == ASSUME IInv, Verdict PROVE IInv'
<1>0. IInv /\ reader.pc = "judging" /\ ~Waiting("read")
  BY DEF Verdict
<1>1. /\ ReaderShape(reader) /\ TaskShape(task) /\ health \in Health /\ verdicts \in Seq(Said)
      /\ Len(verdicts) <= 1 /\ (verdicts # <<>> => task.failure # None)
      /\ LogShape(log) /\ Follows(task, log, reader.kind) /\ ReadSound /\ TapSound
      /\ over /\ "verified" \notin {verdicts[i] : i \in DOMAIN verdicts}
      /\ TapText(task) \in Texts /\ reader.text \in Texts /\ <<>> \in Texts
  BY <1>0, Reading, TextsAre DEF After, ReadSound, ReaderShape
<1>2. UNCHANGED <<log, attached, turn, rec, delivered, over, mon>>
  BY DEF Verdict, ReaderKeeps
<1>3. ASSUME NEW final \in Texts, NEW why,
             reader' = [reader EXCEPT !.pc = "final", !.final = final, !.error = why]
      PROVE  /\ ReaderShape(reader') /\ reader'.pc = "final" /\ reader'.final = final
             /\ reader'.error = why
             /\ \A f \in {"kind", "winner", "text"} : reader'[f] = reader[f]
  BY <1>1, <1>3 DEF ReaderShape, After
<1>4. ASSUME NEW final \in Texts, reader' = [reader EXCEPT !.pc = "final", !.final = final]
      PROVE  /\ ReaderShape(reader') /\ reader'.pc = "final" /\ reader'.final = final
             /\ reader'.error = reader.error
             /\ \A f \in {"kind", "winner", "text"} : reader'[f] = reader[f]
  BY <1>1, <1>4 DEF ReaderShape, After
\* The tap is not judged.
<1>5. ASSUME NEW final \in Texts, Unjudged(final), reader.winner = "tap" => final = reader.text
      PROVE  IInv'
  <2>1. /\ ReaderShape(reader') /\ reader'.pc = "final" /\ reader'.final = final
        /\ \A f \in {"kind", "winner", "text"} : reader'[f] = reader[f]
        /\ UNCHANGED <<health, task, chain, verdicts>>
    BY <1>4, <1>5 DEF Unjudged
  <2>2. TapSound'
    BY <1>1, <1>2, <1>5, <2>1 DEF TapSound, Answer
  <2>3. VerdictSound'
    BY <1>1, <2>1 DEF VerdictSound, VerdictIsEarned
  <2> QED BY <1>0, <1>1, <1>2, <2>1, <2>2, <2>3, ReadStep DEF After, ReadSound, tapState
\* The tap is refused.
<1>6. ASSUME NEW final \in Texts, NEW why, NEW reason \in Said \ {"verified"},
             Refused(final, why, reason), reader.winner = "dom"
      PROVE  IInv'
  <2>1. /\ ReaderShape(reader') /\ reader'.pc = "final" /\ reader'.final = final
        /\ \A f \in {"kind", "winner", "text"} : reader'[f] = reader[f]
    BY <1>3, <1>6 DEF Refused
  <2>2. FailTap("read", task, reason)
    BY <1>6 DEF Refused
  <2>3. /\ TaskShape(task')
        /\ \A f \in {"pc", "head", "matched", "came", "got", "ended", "settle", "error"} : task'[f] = task[f]
        /\ task'.failure # None
        /\ \E e \in Entries : e.by = "read" /\ chain' = Append(chain, e)
        /\ health' \in Health /\ verdicts' \in Seq(Said) /\ Len(verdicts') <= 1
        /\ "verified" \notin {verdicts'[i] : i \in DOMAIN verdicts'}
    BY <1>0, <2>2, ReadFailsTap
  <2>4. VerdictSound'
    BY <2>3 DEF VerdictSound, VerdictIsEarned
  <2>5. TapSound'
    BY <1>6, <2>1, ReadAssumption DEF TapSound
  <2> QED BY <1>0, <1>1, <1>2, <2>1, <2>3, <2>4, <2>5, ReadStep DEF After, ReadSound, tapState
\* The tap is verified: its whole text is the page's.
<1>7. CASE Verifies /\ Agrees /\ Verified
  <2>1. /\ task.matched # None /\ task.ended /\ task.failure = None /\ reader.winner = "dom"
        /\ UNCHANGED <<task, chain>> /\ verdicts = <<>>
    BY <1>1, <1>7 DEF Verifies, Verified
  <2>2. /\ ReaderShape(reader') /\ reader'.pc = "final"
        /\ \A f \in {"kind", "winner", "text"} : reader'[f] = reader[f]
    BY <1>1, <1>4, <1>7 DEF Verified
  <2>3. task.got = Chunks /\ task.head = Chunks + 2
        /\ (log[Chunks + 2] = End(task.matched) \/ reader.kind = "contract")
    BY <1>1, <2>1, ReadAssumption DEF Follows, TaskShape
  <2>4. Len(log) = Chunks + 2
    <3>1. Len(log) \in Nat /\ Len(log) <= Chunks + 2 /\ task.head <= Len(log)
      BY <1>1, LenProperties DEF LogShape, Follows
    <3> QED BY <2>3, <3>1, ReadAssumption
  <2>5. TapSound'
    BY <2>1, <2>2, ReadAssumption DEF TapSound
  <2>6. CASE Extracts(task)
    <3>1. task.matched \in Profiles
      BY <2>6 DEF Extracts
    <3>2. /\ health' = VerifiedRecorded(health, task.matched)
          /\ verdicts' = Append(verdicts, "verified")
      BY <1>7, <2>6 DEF Verified
    <3>3. health' \in Health /\ health'.profile = task.matched
      BY <1>1, <3>1, <3>2, HealthIs
    <3>4. reader.text = Answer
      BY <1>7, <2>3, <2>6, TextsAre DEF Agrees, TapText, Captured
    <3>5. verdicts' = <<"verified">>
      BY <2>1, <3>2
    <3>6. verdicts' \in Seq(Said) /\ Len(verdicts') <= 1
      <4>1. "verified" \in Said
        BY DEF Said
      <4> QED BY ONLY <3>5, <4>1
    <3>7. VerdictIsEarned'
      BY <1>2, <2>1, <2>2, <2>3, <2>4, <3>3, <3>4, <3>6 DEF VerdictIsEarned, Answer
    <3>8. VerdictSound'
      BY <1>1, <1>2, <2>2, <3>7 DEF VerdictSound
    <3> QED BY <1>0, <1>1, <1>2, <2>1, <2>2, <2>5, <3>3, <3>6, <3>8, ReadStep
            DEF After, ReadSound, tapState
  <2>7. CASE ~Extracts(task)
    <3>1. UNCHANGED <<health, verdicts>>
      BY <1>7, <2>7 DEF Verified
    <3>2. VerdictSound'
      BY <1>1, <2>2, <3>1 DEF VerdictSound, VerdictIsEarned
    <3> QED BY <1>0, <1>1, <1>2, <2>1, <2>2, <2>5, <3>1, <3>2, ReadStep DEF After, ReadSound, tapState
  <2> QED BY <2>6, <2>7
<1>8. {"verify_mismatch", "profile_mismatch"} \subseteq Said \ {"verified"}
  BY DEF Said
<1>9. CASE ~Verifies /\ Unjudged(reader.text)
  BY <1>1, <1>5, <1>9
<1>10. CASE Verifies /\ (Unjudged(TapText(task)) \/ Refused(<<>>, "ambiguous", "verify_mismatch"))
  <2>1. reader.winner = "dom"
    BY <1>10 DEF Verifies
  <2> QED BY <1>1, <1>5, <1>6, <1>8, <1>10, <2>1, ReadAssumption
<1>11. CASE Verifies /\ Refused(reader.text, None, Difference)
  <2>1. reader.winner = "dom" /\ Difference \in Said \ {"verified"}
    BY <1>8, <1>11 DEF Verifies, Difference
  <2> QED BY <1>1, <1>6, <1>11, <2>1
<1> QED BY <1>7, <1>9, <1>10, <1>11 DEF Verdict

LEMMA FinalSteps == ASSUME IInv, Finalizing \/ Finalized PROVE IInv'
<1>0. IInv /\ reader.pc \in {"final", "closing"} /\ ~Waiting("read")
  BY DEF Finalizing, Finalized
<1>1. /\ ReaderShape(reader) /\ TaskShape(task) /\ ReadSound /\ TapSound /\ over
  BY <1>0, Reading DEF ReadSound, After
<1>2. UNCHANGED <<log, over, tapState, task, rec, delivered, mon, verdicts>>
  BY DEF Finalizing, Finalized, ReaderKeeps, tapState
<1>3. \/ reader' = [reader EXCEPT !.pc = "done"] /\ chain' = chain
      \/ /\ reader.pc = "final" /\ reader' = [reader EXCEPT !.pc = "closing"]
         /\ chain' = Append(chain, Entry("read", "final", reader.final))
  BY DEF Finalizing, Finalized
<1>4. /\ ReaderShape(reader')
      /\ \A f \in {"kind", "winner", "text", "final", "error"} : reader'[f] = reader[f]
      /\ \/ reader'.pc = "done" /\ chain' = chain
         \/ reader'.pc = "closing" /\ chain' = Append(chain, Entry("read", "final", reader'.final))
  <2>1. CASE reader' = [reader EXCEPT !.pc = "done"] /\ chain' = chain
    BY <1>1, <2>1 DEF ReaderShape
  <2>2. CASE /\ reader' = [reader EXCEPT !.pc = "closing"]
             /\ chain' = Append(chain, Entry("read", "final", reader.final))
    BY <1>1, <2>2 DEF ReaderShape, After
  <2> QED BY <1>3, <2>1, <2>2
<1>5. TapSound'
  BY <1>0, <1>1, <1>2, <1>4 DEF TapSound, Answer
<1> QED BY <1>0, <1>1, <1>2, <1>4, <1>5, PlainStep DEF After, ReadSound

LEMMA Inductive == IInv /\ [Next]_vars => IInv'
<1> SUFFICES ASSUME IInv, [Next]_vars PROVE IInv'
  OBVIOUS
<1>1. CASE Attach \/ Reset \/ CooldownEnds \/ ArmTurn \/ SendFails \/ NextTurn
  BY <1>1, BeforeSteps
<1>2. CASE \E kind \in Kinds : Read(kind)
  BY <1>2, ReadBegins
<1>3. CASE TapGrows
  BY <1>3, FeedGrows
<1>4. CASE AbortSignalled
  BY <1>4, AbortStep
<1>5. CASE Deliver
  BY <1>5, DeliverStep
<1>6. CASE Task
  BY <1>6, TaskSteps
<1>7. CASE Monitor
  BY <1>7, MonitorSteps
<1>8. CASE Reader
  BY <1>8, RaceSteps, FailingStep, DrainedStep, VerdictStep, FinalSteps DEF Reader
<1>9. CASE UNCHANGED vars
  <2>1. /\ UNCHANGED <<log, over, health, attached, turn, reader, task, rec, chain>>
        /\ UNCHANGED <<delivered, mon, verdicts>>
    BY <1>9 DEF vars
  <2>2. Shapes' /\ FeedSound' /\ Queue'
    BY <2>1 DEF IInv, Shapes, FeedSound, Queue, OneEach, Waiting
  <2>3. Told' /\ ClosingSound' /\ TapSound'
    BY <2>1 DEF IInv, Told, ClosingSound, TapSound, Waiting, Streams
  <2>5. ReadSound'
    BY <2>1 DEF IInv, ReadSound, Hybrid, Streams
  <2>4. VerdictSound'
    BY <2>1 DEF IInv, VerdictSound, VerdictIsEarned
  <2> QED BY <2>2, <2>3, <2>4, <2>5 DEF IInv
<1> QED BY <1>1, <1>2, <1>3, <1>4, <1>5, <1>6, <1>7, <1>8, <1>9 DEF Next

LEMMA Sound == Spec => []IInv
<1> QED BY Initially, Inductive, PTL DEF Spec

-----------------------------------------------------------------------------
(* The theorems *)

\* What a read by both observers has streamed, or else the deltas it returns, is the text it
\* returns (ResponseReconciler.finalize, failTap).
THEOREM StreamsAreAnswers == Spec => []StreamIsAnswer
<1>1. IInv => StreamIsAnswer
  <2> SUFFICES ASSUME IInv, Hybrid, reader.pc = "closing", ~Waiting("read")
               PROVE  (IF Streams THEN delivered ELSE rec.emitted) = reader.final
    BY DEF StreamIsAnswer
  <2>1. rec.emitted = reader.final
    BY DEF IInv, ClosingSound
  <2>2. Streams => task.error # "client" /\ mon.error # "client"
    BY DEF IInv, ReadSound, After
  <2>3. Streams => delivered = rec.emitted
    BY <2>2 DEF IInv, Told
  <2> QED BY <2>1, <2>3
<1> QED BY <1>1, Sound, PTL

\* A turn tells the tap's health of itself once, and a profile earns trust only from a stream
\* that came to its end with the page's own text (failTap, recordVerified).
THEOREM VerdictsAreEarned == Spec => []VerdictIsEarned
<1>1. IInv => VerdictIsEarned
  BY DEF IInv, VerdictSound
<1> QED BY <1>1, Sound, PTL

\* An answer taken from the tap alone is one whole response, from its match to its last piece,
\* each of which came through the queue (considerTapCompletion, preserveTerminalResponse).
THEOREM TapAnswersAreWhole == Spec => []TapAnswerIsWhole
<1>1. ASSUME IInv, Succeeded, reader.winner = "tap"
      PROVE  reader.final = Answer /\ IsPrefix(SubSeq(Whole(task.matched), 1, Chunks + 1), log)
  <2>1. /\ reader.final = Answer /\ task.matched # None
        /\ Brought(log, task.matched, Chunks + 1) /\ LogShape(log) /\ TaskShape(task)
    BY <1>1 DEF IInv, TapSound, Succeeded, FeedSound, Shapes
  <2>2. task.matched \in Bodies
    BY <2>1 DEF TaskShape
  <2> QED BY <2>1, <2>2, BroughtIsPrefix
<1>2. IInv => TapAnswerIsWhole
  BY <1>1 DEF TapAnswerIsWhole
<1> QED BY <1>2, Sound, PTL
=============================================================================
