--------------------------- MODULE ProviderReaders ---------------------------
(***************************************************************************)
(* How each transport reads a response: what every payload becomes, and    *)
(* what the turn added up to once the stream is over.  Four readers: chat  *)
(* completions (OpenAITransport and the compatible endpoints), Responses   *)
(* (OpenAITransport and Codex), Anthropic's Messages, and Gemini.          *)
(*                                                                         *)
(* A payload is one item the provider says:                                *)
(*   open         the first payload: the response and the model serving it *)
(*   text         a piece of the answer                                    *)
(*   held         a piece of the answer whose end could open a <think> tag *)
(*   call, args   a tool call opens; a fragment of its arguments           *)
(*   refuse       the provider declines, in words or by its stop reason    *)
(*   stop, tools, short, filtered, odd                                     *)
(*                the closing word: finished, finished to run the calls,   *)
(*                truncated, blocked, and a word this code does not know   *)
(*   error        the provider's own failure, in the stream                *)
(* with its place in the response (n), the index of its call and the id    *)
(* the provider gave the call.  What a payload carries for display only    *)
(* (reasoning, citations, hosted tools, token counts) is left out.         *)
(***************************************************************************)
EXTENDS Naturals, SequencesExt

NoId == <<"none", 0>>

\* One event: its kind, the item of the response it carries, a call's id and
\* the stop reason of an IterationEnd.
Event(event, item, id, reason) == [event |-> event, n |-> item.n, id |-> id, reason |-> reason]
Plain(event, item) == Event(event, item, NoId, "")
EndOf(reason) == [event |-> "IterationEnd", n |-> 0, id |-> NoId, reason |-> reason]

\* What a reader keeps of one response: the stop word, whether a payload named
\* the model, the ids of the calls by index, the text kept back for a tag, the
\* part counter, and whether a call was made.
NewTurn(at) == [stop |-> "", opened |-> FALSE, ids |-> [i \in {0, 1} |-> NoId],
                buffer |-> <<>>, at |-> at, calls |-> FALSE]

\* A handler's result: the turn it leaves, the events it yields, and whether it raises.
Made(turn, events) == [turn |-> turn, events |-> events, raised |-> FALSE]
Raised(turn, events) == [turn |-> turn, events |-> events, raised |-> TRUE]

Texts(pieces) == [i \in DOMAIN pieces |-> Plain("TextDelta", pieces[i])]

Closings == {"stop", "tools", "short", "filtered", "odd"}

\* The first payload that names the model opens the iteration.
Open(turn, item) ==
    Made([turn EXCEPT !.opened = TRUE],
         IF turn.opened THEN <<>> ELSE <<Plain("IterationStart", item)>>)

-----------------------------------------------------------------------------
(* Chat completions: OpenAITransport._parse_chat.                          *)

\* ThinkTagParser.feed: text is kept back while its end could open a tag, and
\* goes out with the next piece.
Feed(turn, item) ==
    IF item.says = "held" THEN Made([turn EXCEPT !.buffer = Append(@, item)], <<>>)
    ELSE Made([turn EXCEPT !.buffer = <<>>], Texts(Append(turn.buffer, item)))

\* A chunk's tool_calls: an id opens the call, and arguments go under the id
\* its index had.
ChatCall(turn, item) ==
    IF item.says = "call"
    THEN Made([turn EXCEPT !.ids[item.index] = item.id], <<Event("ToolUseStart", item, item.id, "")>>)
    ELSE Made(turn, <<Event("ToolInputDelta", item, turn.ids[item.index], "")>>)

\* A chunk's refusal decides the turn: a later finish_reason does not replace it.
ChatClose(turn, item) ==
    CASE item.says = "refuse" ->
           Made([turn EXCEPT !.stop = IF @ = "" THEN "filtered" ELSE @], <<Plain("Refusal", item)>>)
      [] OTHER -> Made([turn EXCEPT !.stop = IF @ = "filtered" THEN @ ELSE item.says], <<>>)

ChatReads(turn, item) ==
    CASE item.says = "open" -> Open(turn, item)
      [] item.says \in {"text", "held"} -> Feed(turn, item)
      [] item.says \in {"call", "args"} -> ChatCall(turn, item)
      [] OTHER -> ChatClose(turn, item)

\* _STOP_REASON_MAP and stop_reason_from.
ChatReason(stop) ==
    CASE stop = "stop" -> "end_turn"
      [] stop = "tools" -> "tool_use"
      [] stop = "short" -> "max_tokens"
      [] stop = "filtered" -> "refusal"
      [] stop = "error" -> "error"
      [] OTHER -> "unknown"

\* The text kept back goes out, and a stream without its closing word raises.
ChatFinished(turn) ==
    LET kept == Texts(turn.buffer)
    IN IF turn.stop \in {"", "error"} THEN Raised(turn, kept)
       ELSE Made(turn, Append(kept, EndOf(ChatReason(turn.stop))))

-----------------------------------------------------------------------------
(* The Responses API: the Responses reader.                                *)

\* output_item.added announces the call, and maps its item id to its call id.
ItemAdded(turn, item) ==
    Made([turn EXCEPT !.ids[item.index] = item.id, !.calls = TRUE],
         <<Event("ToolUseStart", item, item.id, "")>>)

\* response.completed: an unknown status raises, and a finished response that
\* holds a call wants it run.
Completed(turn, item) ==
    CASE turn.stop = "refusal" -> Made(turn, <<>>)
      [] turn.stop # "refusal" /\ item.says = "odd" -> Raised(turn, <<>>)
      [] OTHER -> Made([turn EXCEPT !.stop = IF turn.calls THEN "tool_use" ELSE "end_turn"], <<>>)

\* response.incomplete: cut short by the API.
Incomplete(turn, item) ==
    Made([turn EXCEPT !.stop = IF item.says = "short" THEN "max_tokens" ELSE "refusal"], <<>>)

ResponsesReads(turn, item) ==
    CASE item.says = "open" -> Open([turn EXCEPT !.opened = FALSE], item)
      [] item.says \in {"text", "held"} -> Made(turn, <<Plain("TextDelta", item)>>)
      [] item.says = "call" -> ItemAdded(turn, item)
      [] item.says = "args" -> Made(turn, <<Event("ToolInputDelta", item, turn.ids[item.index], "")>>)
      [] item.says = "refuse" -> Made([turn EXCEPT !.stop = "refusal"], <<Plain("Refusal", item)>>)
      [] item.says \in {"stop", "tools", "odd"} -> Completed(turn, item)
      [] item.says \in {"short", "filtered"} -> Incomplete(turn, item)
      [] OTHER -> Raised(turn, <<>>)

\* Responses.finished with a default: a cut stream reads as an answer.
ResponsesFinishedMutant(turn) ==
    Made(turn, <<EndOf(IF turn.stop = "" THEN "end_turn" ELSE turn.stop)>>)

\* A stream without one of its terminal events was cut, and raises.
ResponsesFinished(turn) ==
    IF turn.stop = "" THEN Raised(turn, <<>>) ELSE Made(turn, <<EndOf(turn.stop)>>)

-----------------------------------------------------------------------------
(* Anthropic's Messages: the Messages reader.                              *)

\* content_block_start of a tool_use block.
BlockStarted(turn, item) ==
    Made([turn EXCEPT !.ids[item.index] = item.id], <<Event("ToolUseStart", item, item.id, "")>>)

\* content_block_delta: text, or arguments by the index of their block.
BlockDelta(turn, item) ==
    Made(turn, <<IF item.says = "args"
                 THEN Event("ToolInputDelta", item, turn.ids[item.index], "")
                 ELSE Plain("TextDelta", item)>>)

\* message_delta carries the stop reason, and a decline with it.
MessageDelta(turn, item) ==
    Made([turn EXCEPT !.stop = item.says],
         IF item.says = "refuse" THEN <<Plain("Refusal", item)>> ELSE <<>>)

MessagesReads(turn, item) ==
    CASE item.says = "open" -> Open([turn EXCEPT !.opened = FALSE], item)
      [] item.says \in {"text", "held", "args"} -> BlockDelta(turn, item)
      [] item.says = "call" -> BlockStarted(turn, item)
      [] item.says = "error" -> Raised(turn, <<>>)
      [] OTHER -> MessageDelta(turn, item)

MessagesReason(stop) ==
    IF stop \in {"refuse", "filtered"} THEN "refusal" ELSE ChatReason(stop)

MessagesFinished(turn) ==
    IF turn.stop = "" THEN Raised(turn, <<>>)
    ELSE Made(turn, <<EndOf(MessagesReason(turn.stop))>>)

-----------------------------------------------------------------------------
(* Gemini: _chunk_events, _part_events and _call_events.                   *)

\* A function call is one part: its start and its arguments.  A call the API
\* gave no id is named by its place in the turn.
GeminiCall(turn, item) ==
    LET at == turn.at + 1
        id == IF item.id = NoId THEN <<"genai", at>> ELSE item.id
    IN Made([turn EXCEPT !.at = at, !.calls = TRUE],
            <<Event("ToolUseStart", item, id, ""), Event("ToolInputDelta", item, id, "")>>)

\* A candidate's finishReason; a blocked answer is announced as a refusal.
GeminiClose(turn, item) ==
    Made([turn EXCEPT !.stop = item.says],
         IF item.says \in {"refuse", "filtered"} THEN <<Plain("Refusal", item)>> ELSE <<>>)

GeminiReads(turn, item) ==
    CASE item.says = "open" -> Open(turn, item)
      [] item.says \in {"text", "held"} ->
           Made([turn EXCEPT !.at = @ + 1], <<Plain("TextDelta", item)>>)
      [] item.says = "call" -> GeminiCall(turn, item)
      [] OTHER -> GeminiClose(turn, item)

\* _FINISH_REASON_MAP: a malformed call reads as tool_use, a failure as error.
GeminiReason(stop) ==
    IF stop \in {"refuse", "filtered"} THEN "refusal" ELSE ChatReason(stop)

\* _do_stream, after the last chunk: cut, failed, or over, and over a finished
\* turn that called a tool the reason is tool_use.
GeminiFinished(turn) ==
    LET reason == GeminiReason(turn.stop)
    IN IF turn.stop = "" \/ reason = "error" THEN Raised(turn, <<>>)
       ELSE Made(turn, <<EndOf(IF turn.calls /\ reason # "refusal" THEN "tool_use" ELSE reason)>>)

-----------------------------------------------------------------------------
(* The reader of an endpoint.  "compatible" is ChatCompletionsTransport,   *)
(* which reads with OpenAITransport's chat reader.                         *)

Reads(api, turn, item) ==
    CASE api \in {"chat", "compatible"} -> ChatReads(turn, item)
      [] api = "responses" -> ResponsesReads(turn, item)
      [] api = "messages" -> MessagesReads(turn, item)
      [] api = "gemini" -> GeminiReads(turn, item)

Finished(api, turn) ==
    CASE api \in {"chat", "compatible"} -> ChatFinished(turn)
      [] api = "responses" -> ResponsesFinished(turn)
      [] api = "messages" -> MessagesFinished(turn)
      [] api = "gemini" -> GeminiFinished(turn)
=============================================================================
