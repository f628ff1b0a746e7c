------------------------------ MODULE ChatPage ------------------------------
(***************************************************************************)
(* One prompt through the page of a web chat: captureResponseBaseline,     *)
(* sendPrompt and awaitResponse (runtime/ui-executor.ts) over waitForUiIdle,*)
(* sendUiPrompt and waitForSubmissionConfirmation (ui-interaction.ts).     *)
(*                                                                         *)
(* The page is not ours: its editor may change a draft it was given, a     *)
(* click may time out though it was taken, a prompt may be taken and still *)
(* be shown in the composer, and whatever was taken is answered even when  *)
(* nobody waits for it any more.  What is assumed of it:                   *)
(*   - it shows that it is generating from the moment it takes a prompt    *)
(*     until the answer is complete;                                       *)
(*   - a prompt it has not taken when the confirmation is given up is not  *)
(*     taken later.                                                        *)
(* A mishap is anything but the page doing as it is told.                  *)
(***************************************************************************)
EXTENDS Naturals

CONSTANTS MaxPrompts,    \* prompts sent in a behaviour
          MaxMishaps     \* and mishaps

ASSUME BoundsAssumption == MaxPrompts \in Nat /\ MaxMishaps \in Nat

VARIABLES
  page,      \* what the browser shows
  turn,      \* the prompt the executor is sending or reading the answer of
  prompts,   \* prompts begun so far: the next one's number
  mishaps

pageVars == <<page, turn, prompts, mishaps>>

Phases == {"idle", "settle", "compose", "check", "dispatch", "confirm", "read",
           "answered", "failed"}

\* draft    what the composer holds: nothing, a prompt as written, or something else
\* lingers  the draft has been taken already and is about to be cleared
\* busy     the prompt being answered, 0 for none
\* last     the prompt the last complete answer on the page is for
\* Of a turn: its prompt, the answer that was there before, the one read, how often and
\* how the page took it, and whether the editor changed the draft after the last look.
PageTypeOK ==
  /\ page \in [draft : {"empty", "whole", "spoiled"}, lingers : BOOLEAN,
               busy : 0..MaxPrompts, last : 0..MaxPrompts]
  /\ turn \in [phase : Phases, prompt : 0..MaxPrompts, baseline : 0..MaxPrompts,
               answer : 0..MaxPrompts, taken : 0..2, whole : BOOLEAN, late : BOOLEAN]
  /\ prompts \in 0..MaxPrompts
  /\ mishaps \in 0..MaxMishaps

FreshPage == [draft |-> "empty", lingers |-> FALSE, busy |-> 0, last |-> 0]
NoTurn == [phase |-> "idle", prompt |-> 0, baseline |-> 0, answer |-> 0, taken |-> 0,
           whole |-> TRUE, late |-> FALSE]

PageInit ==
  /\ page = FreshPage
  /\ turn = NoTurn
  /\ prompts = 0
  /\ mishaps = 0

Mishap == mishaps < MaxMishaps /\ mishaps' = mishaps + 1
Fine == UNCHANGED mishaps

-----------------------------------------------------------------------------
(* The executor's side *)

\* captureResponseBaseline, called when there is something to send
StartTurn ==
  /\ prompts < MaxPrompts
  /\ prompts' = prompts + 1
  /\ turn' = [NoTurn EXCEPT !.phase = "settle", !.prompt = prompts + 1]
  /\ UNCHANGED page /\ Fine

IdleSlip == TRUE   \* a slip: the page is looked at as it is

\* waitForUiIdle: no look at the page, and no draft, while an answer is changing
Idle == page.busy = 0

Settle ==
  /\ turn.phase = "settle"
  /\ Idle
  /\ turn' = [turn EXCEPT !.phase = "compose", !.baseline = page.last]
  /\ UNCHANGED <<page, prompts>> /\ Fine

NotReadySlip ==   \* a slip: a chat that is still generating is waited for
  /\ turn.phase = "settle" /\ page.busy = 0
  /\ turn' = [turn EXCEPT !.phase = "failed"]
  /\ Mishap
  /\ UNCHANGED <<page, prompts>>

\* The chat is still generating at the deadline, or no composer can be edited: a login,
\* a consent or a challenge is in front of it (waitForUiReady).
NotReady ==
  /\ turn.phase = "settle"
  /\ turn' = [turn EXCEPT !.phase = "failed"]
  /\ IF page.busy # 0 THEN Fine ELSE Mishap
  /\ UNCHANGED <<page, prompts>>

\* writeComposerText: the write that is verified replaces whatever was there
Compose ==
  /\ turn.phase = "compose"
  /\ \/ /\ page' = [page EXCEPT !.draft = "whole"]
        /\ turn' = [turn EXCEPT !.phase = "check"]
        /\ Fine
     \/ /\ page' = [page EXCEPT !.draft = "spoiled"]
        /\ turn' = [turn EXCEPT !.phase = "failed"]
        /\ Mishap
  /\ UNCHANGED prompts

\* The final integrity check of sendUiPrompt
Intact == page.draft = "whole"

FinalCheck ==
  /\ turn.phase = "check"
  /\ turn' = [turn EXCEPT !.phase = IF Intact THEN "dispatch" ELSE "failed"]
  /\ UNCHANGED <<page, prompts>> /\ Fine

\* The page takes a draft when it is not answering one, and clears the composer at once
\* or a little later.
Takes(how) ==
  /\ page.busy = 0 /\ page.draft # "empty"
  /\ page' = [page EXCEPT !.busy = turn.prompt, !.lingers = how = "lingers",
                          !.draft = IF how = "lingers" THEN @ ELSE "empty"]

AfterClickSlip(click) ==   \* a slip: a click that timed out is repeated
  CASE click = "done" -> "confirm" [] click = "timeout" -> "dispatch" [] OTHER -> "failed"

\* A click that timed out may have been taken, so it is never repeated; any other error
\* of it ends the turn.  Enter is pressed when no button is found.
AfterClick(click) == IF click = "error" THEN "failed" ELSE "confirm"

Dispatch ==
  /\ turn.phase = "dispatch"
  /\ \E click \in {"done", "timeout", "error"}, how \in {"cleared", "lingers", "ignored"} :
       /\ IF how = "ignored" THEN UNCHANGED page ELSE Takes(how)
       /\ turn' = [turn EXCEPT !.phase = AfterClick(click),
                               !.taken = IF how = "ignored" THEN @ ELSE @ + 1,
                               !.whole = @ /\ (how = "ignored" \/ page.draft = "whole")]
       /\ IF click = "done"
             /\ (how = "cleared" \/ (how = "ignored" /\ (page.busy # 0 \/ page.draft = "empty")))
          THEN Fine ELSE Mishap
  /\ UNCHANGED prompts

\* waitForSubmissionConfirmation: the composer is empty, an answer is being written, or
\* there is a new one.
Confirm ==
  /\ turn.phase = "confirm"
  /\ page.draft = "empty" \/ page.busy # 0 \/ page.last # turn.baseline
  /\ turn' = [turn EXCEPT !.phase = "read"]
  /\ UNCHANGED <<page, prompts>> /\ Fine

Unconfirmed ==
  /\ turn.phase = "confirm"
  /\ page.draft # "empty" /\ page.busy = 0 /\ page.last = turn.baseline
  /\ turn' = [turn EXCEPT !.phase = "failed"]
  /\ UNCHANGED <<page, prompts>> /\ Fine

\* HybridUiResponseReader.read ends with the answer that was not there before.
Read ==
  /\ turn.phase = "read"
  /\ page.busy = 0 /\ page.last # turn.baseline
  /\ turn' = [turn EXCEPT !.phase = "answered", !.answer = page.last]
  /\ UNCHANGED <<page, prompts>> /\ Fine

ReadTimeout ==
  /\ turn.phase = "read"
  /\ page.busy # 0 \/ page.last = turn.baseline
  /\ turn' = [turn EXCEPT !.phase = "failed"]
  /\ UNCHANGED <<page, prompts>> /\ Fine

\* The request is aborted: throwIfAborted and abortableSleep all the way down
Abort ==
  /\ turn.phase \notin {"idle", "answered", "failed"}
  /\ turn' = [turn EXCEPT !.phase = "failed"]
  /\ Mishap
  /\ UNCHANGED <<page, prompts>>

-----------------------------------------------------------------------------
(* The page's side *)

\* The answer is complete.
Generated ==
  /\ page.busy # 0
  /\ page' = [page EXCEPT !.busy = 0, !.last = page.busy]
  /\ UNCHANGED <<turn, prompts>> /\ Fine

\* The composer is cleared of a draft that was taken, whatever it shows by now.
Rerender ==
  /\ page.lingers
  /\ page' = [page EXCEPT !.draft = "empty", !.lingers = FALSE]
  /\ UNCHANGED <<turn, prompts>> /\ Fine

\* A controlled editor goes back to an older value after the write was verified, or after
\* the last look, in the seconds until a button is found and clicked.
Reconcile ==
  /\ turn.phase \in {"check", "dispatch"}
  /\ \E shown \in {"empty", "spoiled"} : page' = [page EXCEPT !.draft = shown]
  /\ turn' = [turn EXCEPT !.late = @ \/ turn.phase = "dispatch"]
  /\ Mishap
  /\ UNCHANGED prompts

-----------------------------------------------------------------------------

\* What is read is the answer of the prompt that was sent, also when the page was still
\* writing the answer of a prompt nobody waits for any more (ui-interaction.ts:336).
AnswerIsOfPrompt == turn.phase = "answered" => turn.answer = turn.prompt

\* A prompt is taken at most once, whatever its click reported, and only as it was
\* written, unless the editor has changed it after the last look (ui-interaction.ts:398-430).
SentOnceAndWhole == turn.taken <= 1 /\ (turn.whole \/ turn.late)
=============================================================================
