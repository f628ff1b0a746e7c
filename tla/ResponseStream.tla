--------------------------- MODULE ResponseStream ---------------------------
(***************************************************************************)
(* One HTTP reply, from the request to the last byte: the routers of       *)
(* src/src/proxy (openai-router, anthropic-router, ollama-router), their   *)
(* stream writers, the bounded buffer of stream-io.ts, the heartbeat, and  *)
(* the way an error is reported (http-errors.ts).                          *)
(*                                                                         *)
(* The actors are the executor, which offers pieces of text and then       *)
(* settles; the client, which reads slowly or goes away; and the timers.   *)
(* A frame is what one call of res.write() sends.                          *)
(***************************************************************************)
EXTENDS Integers, Sequences, SequencesExt

CONSTANTS
  Pieces,        \* the pieces of text an answer is made of
  MaxText,       \* bound: pieces in an answer, and deltas offered
  MaxTools,      \* bound: tool calls in an answer
  MaxPings,      \* bound: heartbeats sent
  Limit,         \* what may wait in the buffer of a connection (4 MiB)
  HighWater,     \* above this a write asks to wait for "drain"
  NoAnswer       \* no answer has been given

ASSUME ReplyLimitsAssumption ==
  {MaxText, MaxTools, MaxPings, Limit, HighWater} \subseteq Nat /\ HighWater < Limit

VARIABLES
  request,       \* what was asked: its protocol, whether it streams, buffers tools
  handler,       \* where its route handler is
  writer,        \* the private state of the stream writer; torn is of the model: the
                 \* frames that open the text were refused, and it counts as open
  connection,    \* the ServerResponse: its buffer and its flags
  heard,         \* the frames the client has received
  beat,          \* the heartbeat timer and the pings it has sent
  executor       \* what manager.execute() is doing

replyVars == <<request, handler, writer, connection, heard, beat, executor>>

Protocols == {"chat", "responses", "anthropic", "ollama_chat", "ollama_generate"}
Texts == BoundedSeq(Pieces, MaxText)
ASSUME NoAnswerAssumption == NoAnswer \notin Texts
NoRequest == [protocol |-> "none", stream |-> FALSE, buffered |-> FALSE]

ReplyInit ==
  /\ request = NoRequest
  /\ handler = "idle"
  /\ writer = [said |-> <<>>, opened |-> FALSE, torn |-> FALSE]
  /\ connection = [buffer |-> <<>>, full |-> FALSE, ended |-> FALSE, destroyed |-> FALSE]
  /\ heard = <<>>
  /\ beat = [on |-> FALSE, sent |-> 0]
  /\ executor = [state |-> "idle", offers |-> 0, refused |-> FALSE, aborted |-> FALSE,
                 answer |-> NoAnswer]

-----------------------------------------------------------------------------
(* Frames.                                                                 *)

Control(t) == [type |-> t, text |-> <<>>, at |-> 0]
At(t, i) == [type |-> t, text |-> <<>>, at |-> i]
Said(t, s) == [type |-> t, text |-> s, at |-> 0]

\* A frame costs one, and one more for each piece of text after the first.
Size(f) == IF Len(f.text) > 1 THEN Len(f.text) ELSE 1
Waiting(fs) == Len(FlattenSeq([i \in DOMAIN fs |-> [place \in 1..Size(fs[i]) |-> fs[i]]]))

Delta(s) == Said("delta", s)
Rest(s) == IF s = <<>> THEN <<>> ELSE <<Delta(s)>>

\* ChatStreamWriter: begin(), and finish() but for [DONE], which it passes to
\* res.end() and no limit stops.  What was not said yet is one frame, also where
\* finish() is given the deltas of an executor that passed none on and sends these
\* one by one; the frame of a legacy function call is left out, as requests for one
\* are refused (request-validation.ts:82).
ChatBegin == <<Control("role")>>
ChatFinish(rest, n) ==
  Rest(rest) \o (IF n > 0 THEN <<At("tool_calls", n)>> ELSE <<>>) \o <<Control("finish")>>

\* ResponsesStreamWriter: beginResponse(), beginMessage(), and finish(), which closes
\* the text if there is any and gives each tool call the next place.
ResponsesBegin == <<Control("created")>>
ResponsesMessage == <<Control("item_added"), Control("part_added")>>
ResponsesText(opening, rest, answer) ==
  (IF rest = <<>> THEN <<>> ELSE opening \o Rest(rest))
  \o (IF answer = <<>> THEN <<>>
      ELSE <<Said("text_done", answer), Said("part_done", answer), Said("item_done", answer)>>)
ResponsesCalls(from, n) ==
  FlattenSeq([i \in 1..n |-> <<At("call_added", from + i), At("arguments_delta", from + i),
                               At("arguments_done", from + i), At("call_done", from + i)>>])
ResponsesFinish(opening, rest, answer, n) ==
  ResponsesText(opening, rest, answer)
  \o ResponsesCalls(IF answer = <<>> THEN 0 ELSE 1, n) \o <<Said("completed", answer)>>

\* AnthropicStreamWriter: begin(), the start of the text in delta(), and finish().
AnthropicBegin == <<Control("message_start")>>
AnthropicBlock == <<At("block_start", 1)>>
AnthropicText(opening, rest, answer) ==
  (IF rest = <<>> THEN <<>> ELSE opening \o Rest(rest))
  \o (IF answer = <<>> THEN <<>> ELSE <<At("block_stop", 1)>>)
AnthropicCalls(from, n) ==
  FlattenSeq([i \in 1..n |-> <<At("block_start", from + i), At("input_delta", from + i),
                               At("block_stop", from + i)>>])
AnthropicFinish(opening, rest, answer, n) ==
  AnthropicText(opening, rest, answer)
  \o AnthropicCalls(IF answer = <<>> THEN 0 ELSE 1, n)
  \o <<Control("message_delta"), Control("message_stop")>>

\* OllamaChatStreamWriter and OllamaGenerateStreamWriter: finish().  The latter has
\* no place for tool calls.
OllamaChatFinish(rest, n) == Rest(rest) \o <<At("done", n)>>
OllamaGenerateFinish(rest) == Rest(rest) \o <<Control("done")>>

\* The same by protocol.
Begin(p) ==
  CASE p = "chat"      -> ChatBegin
    [] p = "responses" -> ResponsesBegin
    [] p = "anthropic" -> AnthropicBegin
    [] OTHER           -> <<>>
TextOpening(p) ==
  CASE p = "responses" -> ResponsesMessage
    [] p = "anthropic" -> AnthropicBlock
    [] OTHER           -> <<>>
EndChunk(p) == IF p = "chat" THEN <<Control("[DONE]")>> ELSE <<>>
Terminal(p) ==
  CASE p = "chat"      -> "[DONE]"
    [] p = "responses" -> "completed"
    [] p = "anthropic" -> "message_stop"
    [] OTHER           -> "done"

-----------------------------------------------------------------------------
(* The connection.                                                         *)

Gone == connection.destroyed \/ connection.ended

\* How many of the frames fit, one after the other: writeStreamChunk throws at
\* the first that does not, and at once when the reply is over.
Fitting(fs) ==
  IF Gone THEN 0
  ELSE CHOOSE n \in 0..Len(fs) :
         /\ n = 0 \/ Waiting(connection.buffer) + Waiting(SubSeq(fs, 1, n)) <= Limit
         /\ n = Len(fs) \/ Waiting(connection.buffer) + Waiting(SubSeq(fs, 1, n + 1)) > Limit
Fits(fs) == Fitting(fs) = Len(fs) /\ (fs = <<>> \/ ~Gone)

Written(c, fs) ==
  LET b == c.buffer \o fs
  IN  [c EXCEPT !.buffer = b, !.full = @ \/ Waiting(b) > HighWater]

\* writeStreamChunk for one frame after another, up to the first it refuses.
Write(fs) == Written(connection, SubSeq(fs, 1, Fitting(fs)))

\* sendProxyError after the headers: an error frame, unless the reply is over
\* or its buffer is full; then res.end() in any case.  Before the headers: a
\* reply of its own.
WithErrorSlip(c) ==   \* a slip: no error frame while a drain is awaited
  [(IF ~c.destroyed /\ ~c.ended /\ ~c.full
    THEN Written(c, <<Control("error")>>) ELSE c) EXCEPT !.ended = TRUE]
WithError(c) ==
  LET told == /\ ~c.destroyed /\ ~c.ended
              /\ Waiting(c.buffer) < Limit
  IN  [(IF told THEN Written(c, <<Control("error")>>) ELSE c) EXCEPT !.ended = TRUE]
Refusal(c) ==
  IF c.destroyed THEN [c EXCEPT !.ended = TRUE]
  ELSE [c EXCEPT !.buffer = <<Control("status")>>, !.ended = TRUE]

-----------------------------------------------------------------------------
(* The route handler.                                                      *)

\* A request is accepted.  One that asks for a stream is answered with its
\* headers and first frame before anything is executed.
Accept(p, stream, buffered) ==
  /\ handler = "idle" /\ handler' = "executing"
  /\ request' = [protocol |-> p, stream |-> stream, buffered |-> buffered \/ ~stream]
  /\ beat' = [beat EXCEPT !.on = stream /\ p \in {"chat", "responses", "anthropic"}]
  /\ connection' = IF stream THEN Written(connection, Begin(p)) ELSE connection
  /\ executor' = [executor EXCEPT !.state = "working"]
  /\ UNCHANGED <<writer, heard>>

\* The routes.  Deltas are sent as they come unless the answer may hold tool calls or
\* must have a format, or the request is an agent contract.
ChatRequest ==
  \E stream, contract, tools, format \in BOOLEAN :
     Accept("chat", stream, contract \/ tools \/ format)
ResponsesRequest ==
  \E stream, contract, tools, format \in BOOLEAN :
     Accept("responses", stream, contract \/ tools \/ format)
AnthropicRequest == \E stream, tools \in BOOLEAN : Accept("anthropic", stream, tools)
OllamaChatRequest ==
  \E stream, tools, format \in BOOLEAN : Accept("ollama_chat", stream, tools \/ format)
OllamaGenerateRequest == \E stream \in BOOLEAN : Accept("ollama_generate", stream, FALSE)

\* A request that cannot be executed, its body or its headers being invalid, is
\* refused before any header is sent.
InvalidRequest ==
  /\ handler = "idle"
  /\ handler' = "over"
  /\ connection' = Refusal(connection)
  /\ UNCHANGED <<request, writer, heard, beat, executor>>

\* onDelta: the writer sends the piece and the executor waits for the buffer to
\* drain.  A refusal does not keep the executor's queue from offering the next.
\* The text counts as said before it is written, except where the frames that
\* open it are refused first.
Offer(s) ==
  LET p == request.protocol
      opening == IF writer.opened THEN <<>> ELSE TextOpening(p)
      frames == opening \o <<Delta(s)>>
  IN  /\ executor.state = "working" /\ request.stream /\ ~request.buffered
      /\ executor.offers < MaxText
      /\ connection' = Write(frames)
      /\ writer' = [said |-> IF Fits(opening) THEN writer.said \o s ELSE writer.said,
                    opened |-> TRUE, torn |-> writer.torn \/ ~Fits(opening)]
      /\ executor' = [executor EXCEPT !.offers = @ + 1,
                        !.refused = @ \/ ~Fits(frames),
                        !.state = IF Fits(frames) /\ connection'.full THEN "waiting" ELSE @]
      /\ UNCHANGED <<request, handler, heard, beat>>

\* waitForDrain gives up after ten seconds (SlowConsumerError).
DrainTimeout ==
  /\ executor.state = "waiting"
  /\ executor' = [executor EXCEPT !.state = "working", !.refused = TRUE]
  /\ UNCHANGED <<request, handler, writer, connection, heard, beat>>

ClosingSlip(answer, n) ==   \* a slip: the text is opened again for its last piece
  LET p == request.protocol
      rest == SubSeq(answer, Len(writer.said) + 1, Len(answer))
  IN  CASE p = "chat"        -> ChatFinish(rest, n)
        [] p = "responses"   -> ResponsesFinish(ResponsesMessage, rest, answer, n)
        [] p = "anthropic"   -> AnthropicFinish(AnthropicBlock, rest, answer, n)
        [] p = "ollama_chat" -> OllamaChatFinish(rest, n)
        [] OTHER             -> OllamaGenerateFinish(rest)

\* The frames a writer sends for an answer that extends what it has said.
Closing(answer, n) ==
  LET p == request.protocol
      rest == SubSeq(answer, Len(writer.said) + 1, Len(answer))
      opening == IF writer.opened THEN <<>> ELSE TextOpening(p)
  IN  CASE p = "chat"        -> ChatFinish(rest, n)
        [] p = "responses"   -> ResponsesFinish(opening, rest, answer, n)
        [] p = "anthropic"   -> AnthropicFinish(opening, rest, answer, n)
        [] p = "ollama_chat" -> OllamaChatFinish(rest, n)
        [] OTHER             -> OllamaGenerateFinish(rest)

FinishesSlip(answer, n) == Fits(Closing(answer, n))   \* a slip: any answer will do

\* finish(): the answer must extend what was said, and every frame must fit.
Finishes(answer, n) == IsPrefix(writer.said, answer) /\ Fits(Closing(answer, n))

Finish(answer, n) ==
  IF Finishes(answer, n)
  THEN LET last == Write(Closing(answer, n))
       IN  [last EXCEPT !.buffer = @ \o EndChunk(request.protocol), !.ended = TRUE]
  ELSE WithError(IF IsPrefix(writer.said, answer) THEN Write(Closing(answer, n)) ELSE connection)

\* res.json(), which does nothing on a connection that is gone.
Json(answer) ==
  IF connection.destroyed THEN [connection EXCEPT !.ended = TRUE]
  ELSE [connection EXCEPT !.buffer = <<Said("json", answer)>>, !.ended = TRUE]

\* The executor settles with an answer, which it cannot once a delta was refused.
Answer ==
  /\ handler = "executing" /\ executor.state = "working" /\ ~executor.refused
  /\ \E answer \in Texts, n \in 0..MaxTools :
       /\ executor' = [executor EXCEPT !.state = "settled", !.answer = answer]
       /\ connection' = IF request.stream THEN Finish(answer, n) ELSE Json(answer)
       /\ beat' = [beat EXCEPT !.on = @ /\ ~Finishes(answer, n)]
  /\ handler' = "over"
  /\ UNCHANGED <<request, writer, heard>>

\* The executor settles with an error.
Fail ==
  /\ handler = "executing" /\ executor.state = "working"
  /\ executor' = [executor EXCEPT !.state = "settled"]
  /\ connection' = IF request.stream THEN WithError(connection) ELSE Refusal(connection)
  /\ handler' = "over"
  /\ UNCHANGED <<request, writer, heard, beat>>

-----------------------------------------------------------------------------
(* The client and the timers.                                              *)

ClosedSlip(ended) ==   \* a slip: only a reply that had been ended is aborted
  /\ executor' = [executor EXCEPT !.aborted = @ \/ (handler = "executing" /\ ended),
                    !.refused = @ \/ executor.state = "waiting",
                    !.state = IF @ = "waiting" THEN "working" ELSE @]
  /\ UNCHANGED <<request, handler, writer>>

\* The socket is gone: "close" aborts the execution unless the reply had been
\* ended, ends a wait for drain, and stops the heartbeat.
Closed(ended) ==
  /\ executor' = [executor EXCEPT !.aborted = @ \/ (handler = "executing" /\ ~ended),
                    !.refused = @ \/ executor.state = "waiting",
                    !.state = IF @ = "waiting" THEN "working" ELSE @]
  /\ UNCHANGED <<request, handler, writer>>

\* The client takes the next frame; an emptied buffer is "drain".
Receive ==
  /\ connection.buffer # <<>> /\ ~connection.destroyed
  /\ heard' = Append(heard, Head(connection.buffer))
  /\ LET rest == Tail(connection.buffer)
     IN  /\ connection' = [connection EXCEPT !.buffer = rest, !.full = @ /\ rest # <<>>]
         /\ executor' = [executor EXCEPT !.state =
                           IF rest = <<>> /\ @ = "waiting" THEN "working" ELSE @]
  /\ UNCHANGED <<request, handler, writer, beat>>

Leave ==
  /\ handler # "idle" /\ ~connection.destroyed
  /\ connection' = [connection EXCEPT !.destroyed = TRUE, !.buffer = <<>>]
  /\ beat' = [beat EXCEPT !.on = FALSE]
  /\ heard' = heard
  /\ Closed(connection.ended)

\* The heartbeat: it stops itself when the reply is over, and destroys a
\* connection that cannot take a ping.
Ping ==
  /\ beat.on
  /\ \/ /\ Gone
        /\ beat' = [beat EXCEPT !.on = FALSE]
        /\ UNCHANGED <<request, handler, writer, connection, heard, executor>>
     \/ /\ ~Gone /\ beat.sent < MaxPings /\ Fits(<<Control("ping")>>)
        /\ connection' = Write(<<Control("ping")>>)
        /\ beat' = [beat EXCEPT !.sent = @ + 1]
        /\ UNCHANGED <<request, handler, writer, heard, executor>>
     \/ /\ ~Gone /\ ~Fits(<<Control("ping")>>)
        /\ connection' = [connection EXCEPT !.destroyed = TRUE, !.buffer = <<>>]
        /\ beat' = [beat EXCEPT !.on = FALSE]
        /\ heard' = heard
        /\ Closed(FALSE)

ReplyNext ==
  \/ ChatRequest \/ ResponsesRequest \/ AnthropicRequest
  \/ OllamaChatRequest \/ OllamaGenerateRequest \/ InvalidRequest
  \/ \E s \in {<<p>> : p \in Pieces} : Offer(s)
  \/ DrainTimeout \/ Answer \/ Fail
  \/ Receive \/ Leave \/ Ping

\* An execution that was aborted, or whose delta was refused, settles; timers fire.
\* Nothing is assumed of the client, nor of an execution left alone.
MustSettle == executor.aborted \/ executor.refused
ReplyFairness ==
  /\ WF_replyVars(MustSettle /\ (Answer \/ Fail))
  /\ WF_replyVars(DrainTimeout)
  /\ WF_replyVars(Ping)

ReplySpec == ReplyInit /\ [][ReplyNext]_replyVars
ReplyFairSpec == ReplySpec /\ ReplyFairness

-----------------------------------------------------------------------------
ReplyTypeOK ==
  /\ request \in [protocol : Protocols, stream : BOOLEAN, buffered : BOOLEAN] \union {NoRequest}
  /\ handler \in {"idle", "executing", "over"}
  /\ writer.said \in BoundedSeq(Pieces, MaxText) /\ {writer.opened, writer.torn} \subseteq BOOLEAN
  /\ {connection.full, connection.ended, connection.destroyed, beat.on} \subseteq BOOLEAN
  /\ beat.sent \in 0..MaxPings
  /\ executor.state \in {"idle", "working", "waiting", "settled"}
  /\ executor.offers \in 0..MaxText /\ executor.answer \in Texts \union {NoAnswer}

\* A sequence of frames but for those of some types.
Dropping(fs, types) ==
  FlattenSeq([i \in DOMAIN fs |-> IF fs[i].type \in types THEN <<>> ELSE <<fs[i]>>])
Skeleton(fs) == Dropping(fs, {"delta"})
Kinds(fs) == {fs[i].type : i \in DOMAIN fs}

\* What the client sees of a reply: all it has been sent.
Sent == heard \o connection.buffer
Ends == {Terminal(request.protocol), "json", "error", "status"}

\* A stream is well formed for its protocol: its blocks are opened before they
\* are filled, closed once and numbered in order, every piece of text is inside the
\* block of the text, and nothing, not even a ping, follows its last frame
\* (the writers of openai.ts, anthropic.ts and ollama.ts, whatever the pings,
\* the refused writes, the drains and the errors in between).  Only a stream whose
\* text could not be opened is excepted: its next delta finds the block marked open.
Block(open, inner, close, i) == <<At(open, i), At(inner, i), At(close, i)>>
ToolCalls(p, from, n) ==
  CASE p = "chat"      -> IF n = 0 THEN <<>> ELSE <<At("tool_calls", n)>>
    [] p = "responses" -> ResponsesCalls(from, n)
    [] p = "anthropic" -> FlattenSeq([i \in 1..n |->
                            Block("block_start", "input_delta", "block_stop", from + i)])
    [] OTHER           -> <<>>
TextEnd(p) ==
  CASE p = "responses" -> <<Control("text_done"), Control("part_done"), Control("item_done")>>
    [] p = "anthropic" -> <<At("block_stop", 1)>>
    [] OTHER           -> <<>>
End(p, n) ==
  CASE p = "chat"        -> <<Control("finish"), Control("[DONE]")>>
    [] p = "responses"   -> <<Control("completed")>>
    [] p = "anthropic"   -> <<Control("message_delta"), Control("message_stop")>>
    [] p = "ollama_chat" -> <<At("done", n)>>
    [] OTHER             -> <<Control("done")>>
Grammar(p, text, n) ==
  Begin(p) \o (IF text THEN TextOpening(p) \o TextEnd(p) ELSE <<>>)
  \o ToolCalls(p, IF text THEN 1 ELSE 0, n) \o End(p, n)
Bare(fs) == [i \in DOMAIN fs |-> [fs[i] EXCEPT !.text = <<>>]]

WellFormed(p, text, n, fs) ==
  /\ IsPrefix(Bare(Skeleton(fs)), Grammar(p, text, n))
  /\ \A i \in DOMAIN fs : fs[i].type = "delta" =>
       text /\ Len(Skeleton(SubSeq(fs, 1, i))) = Len(Begin(p)) + Len(TextOpening(p))

StreamIsWellFormed ==
  /\ \A i \in 1..Len(Sent) - 1 : Sent[i].type \notin Ends
  /\ request.stream /\ ~writer.torn =>
       \E text \in BOOLEAN, n \in 0..MaxTools :
         WellFormed(request.protocol, text, n, Dropping(Sent, {"ping", "error"}))

\* A reply the server ends says how: with its last frame, or with an error, unless
\* its buffer was full to the brim when the error came (sendProxyError).
EndIsTold ==
  [][connection'.ended /\ ~connection.ended /\ ~connection'.destroyed =>
       LET b == connection'.buffer
       IN  b # <<>> /\ (b[Len(b)].type \in Ends' \/ Waiting(b) >= Limit)]_replyVars

\* To its reader a reply is an answer stream: text that only grows, closed once, and
\* complete only with the whole answer of the executor, in whatever protocol
\* (writer.finish; README.md: the text must extend what was streamed).
TextOf(fs) ==
  FlattenSeq([i \in DOMAIN fs |-> IF fs[i].type \in {"delta", "json"} THEN fs[i].text ELSE <<>>])
StatusOf(fs) ==
  IF Kinds(fs) \intersect {Terminal(request.protocol), "json"} # {} THEN "complete"
  ELSE IF Kinds(fs) \intersect {"error", "status"} # {} THEN "failed"
  ELSE IF connection.destroyed \/ (connection.ended /\ connection.buffer = <<>>) THEN "cut"
  ELSE "open"
Answered == INSTANCE AnswerStream WITH
  Answers <- Texts, None <- NoAnswer,
  answer <- executor.answer, text <- TextOf(heard), status <- StatusOf(heard)
ImplementsAnswerStream == Answered!Spec

\* When the client goes away the execution it was waiting for ends, and so does
\* the heartbeat (requestLifecycle, waitForDrain, startSseHeartbeat).
AbandonedRepliesEnd == connection.destroyed ~> (handler = "over" /\ ~beat.on)

=============================================================================
