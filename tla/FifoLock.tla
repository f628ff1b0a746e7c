------------------------------ MODULE FifoLock ------------------------------
(***************************************************************************)
(* What a serial queue promises its callers, and nothing about how it does *)
(* it: tasks wait in one line, a task may leave the line before its turn,  *)
(* and only the first of the line may take the single lane, once the       *)
(* previous holder has given it back.                                      *)
(***************************************************************************)
EXTENDS Naturals, Sequences

CONSTANTS Tasks, NoTask

VARIABLES line,    \* the tasks that wait, first come first
          holder,  \* the task that has the lane, or NoTask
          seen     \* the tasks that have stood in the line: nobody joins twice

vars == <<line, holder, seen>>

Init == line = <<>> /\ holder = NoTask /\ seen = {}

Join(t) ==
  /\ t \notin seen
  /\ line' = Append(line, t)
  /\ seen' = seen \union {t}
  /\ UNCHANGED holder

\* Those that stay keep their order.
Leave(quitters) ==
  /\ \E n \in 0..Len(line) : \E place \in [1..n -> DOMAIN line] :
       /\ \A i, j \in 1..n : i < j => place[i] < place[j]
       /\ {place[i] : i \in 1..n} = {i \in DOMAIN line : line[i] \notin quitters}
       /\ line' = [i \in 1..n |-> line[place[i]]]
  /\ UNCHANGED <<holder, seen>>

Take ==
  /\ holder = NoTask
  /\ line # <<>>
  /\ holder' = Head(line)
  /\ line' = Tail(line)
  /\ UNCHANGED seen

\* The holder gives the lane back, directly to the next of the line if any.
Yield ==
  /\ holder # NoTask
  /\ IF line = <<>>
       THEN holder' = NoTask /\ UNCHANGED line
       ELSE holder' = Head(line) /\ line' = Tail(line)
  /\ UNCHANGED seen

Next ==
  \/ \E t \in Tasks : Join(t)
  \/ \E quitters \in SUBSET Tasks : Leave(quitters)
  \/ Take
  \/ Yield

Spec == Init /\ [][Next]_vars
=============================================================================
