------------------------------- MODULE Transport -------------------------------
(***************************************************************************)
(* One call of a transport's stream(): the request and its retries         *)
(* (_do_stream), the body arriving in chunks cut anywhere, the decoder     *)
(* (axio-sse), the reader of the endpoint, and the caller who takes the    *)
(* events.  The connection may fail before or in the middle of a response, *)
(* or close early without an error, and the caller may leave at any time.  *)
(***************************************************************************)
EXTENDS SSEDecoder, ProviderReaders, FiniteSets

CONSTANTS Apis,         \* the endpoints a behaviour may talk to
          MaxRetries,   \* max_retries: how many times the request is sent
          Talks,        \* bound: what a response may say between its opening and its close
          Layouts,      \* the ways a server may write its events down
          Chunks,       \* bound: the sizes a chunk may have
          Limit         \* MAX_EVENT

ASSUME TransportAssumption ==
    /\ MaxRetries \in Nat \ {0} /\ Limit \in Nat
    /\ Chunks \subseteq Nat \ {0}
    /\ Apis \subseteq {"chat", "compatible", "responses", "messages", "gemini"}
    /\ {layout.tail : layout \in Layouts} \subseteq {"none", "endless", "long", "much"}

VARIABLES api,       \* the endpoint
          attempt,   \* which sending of the request this is, from 1
          phase,     \* "ready" to send, "reading", "waiting" to send again, "done"
          plan,      \* what the server means to say in this response
          text,      \* the body that says it
          at,        \* how much of the body has arrived
          closed,    \* the body is over, as far as the reader was told
          decoder,   \* the Decoder
          events,    \* what it has dispatched in this response
          taken,     \* how many of these the reader has read
          turn,      \* the reader's state
          sent,      \* _do_stream's flag: an event reached the caller
          said, over \* what the caller received, and how the call ended

vars == <<api, attempt, phase, plan, text, at, closed, decoder, events, taken, turn, sent, said, over>>

response == <<plan, text, at, closed, decoder, events, taken>>

Contract == INSTANCE ProviderStream

-----------------------------------------------------------------------------
(* The server.                                                             *)

Item(says, index, id, n) == [says |-> says, index |-> index, id |-> id, n |-> n]

\* What an endpoint may say between the opening and the closing word: Messages
\* and Gemini decline with their closing word, Gemini's calls are whole, and only
\* a chat stream is searched for a tag.
Contents(endpoint) ==
    {<<"text", 0>>, <<"call", 0>>, <<"call", 1>>}
        \cup (IF endpoint = "gemini" THEN {} ELSE {<<"args", 0>>, <<"args", 1>>})
        \cup (IF endpoint \in {"chat", "compatible"} THEN {<<"held", 0>>} ELSE {})
        \cup (IF endpoint \in {"messages", "gemini"} THEN {} ELSE {<<"refuse", 0>>})

\* How an endpoint closes a response.
Endings(endpoint) ==
    {"stop", "short", "odd", "error"}
        \cup (IF endpoint \in {"messages", "gemini"} THEN {"refuse"} ELSE {"filtered"})
        \cup (IF endpoint = "responses" THEN {} ELSE {"tools"})

\* A call opens before its arguments come, and nothing is said twice.
LegalContent(content) ==
    /\ IsInjective(content)
    /\ \A i \in DOMAIN content : content[i][1] = "args" =>
          \E j \in 1..(i - 1) : content[j] = <<"call", content[i][2]>>

\* The responses an endpoint may give: the closing word is followed by [DONE]
\* where the endpoint sends one.
Plans(endpoint) ==
    LET contents == {c \in Talks : Range(c) \subseteq Contents(endpoint) /\ LegalContent(c)}
        Id(says, index) == IF says = "call" /\ endpoint # "gemini" THEN <<"call", index>> ELSE NoId
        Middle(content) == [i \in DOMAIN content |->
                            Item(content[i][1], content[i][2], Id(content[i][1], content[i][2]), i + 1)]
        Close(n, ending) == <<Item(ending, 0, NoId, n)>>
                              \o IF endpoint \in {"messages", "gemini"} THEN <<>>
                                 ELSE <<Item("done", 0, NoId, n + 1)>>
    IN {<<Item("open", 0, NoId, 1)>> \o Middle(c) \o Close(Len(c) + 2, e) :
            c \in contents, e \in Endings(endpoint)}

PlansOf == [endpoint \in Apis |-> Plans(endpoint)]

\* One event on the wire: its payload in one or two data lines, behind a comment
\* or not, every line under the layout's terminator, and a blank line.
Written(n, layout) ==
    (IF layout.comment THEN <<Colon>> \o layout.eol \o layout.eol ELSE <<>>)
      \o (IF layout.lines = 1 THEN <<DataField, <<"whole", n>>>>
          ELSE <<DataField, <<"half", n>>>> \o layout.eol \o <<DataField, <<"rest", n>>>>)
      \o layout.eol \o layout.eol

\* What a server may write behind its payloads: nothing, a line too long for
\* the decoder that never ends, or does, or an event of too many data lines.
TailOf(layout) ==
    LET junk == <<"junk", 0>>
        line == [i \in 1..(Limit + 1) |-> junk]
    IN CASE layout.tail = "none"    -> <<>>
         [] layout.tail = "endless" -> line
         [] layout.tail = "long"    -> line \o layout.eol
         [] layout.tail = "much"    ->
              FlattenSeq([i \in 1..(Limit \div 2 + 1) |-> <<DataField, junk>> \o layout.eol])

Body(p, layout) == FlattenSeq([n \in DOMAIN p |-> Written(n, layout)]) \o TailOf(layout)

\* Event.payload: the item whose JSON the joined data lines are; 0 when they
\* are not the whole of one.
ItemOf(event) ==
    LET whole == {n \in DOMAIN plan : \/ event = <<<<"whole", n>>>>
                                      \/ event = <<<<"half", n>>, <<"rest", n>>>>}
    IN IF whole = {} THEN 0 ELSE CHOOSE n \in whole : TRUE

-----------------------------------------------------------------------------
(* Sending the request.                                                    *)

\* No response is being read.
NoResponse ==
    /\ plan' = <<>> /\ text' = <<>> /\ at' = 0 /\ closed' = FALSE
    /\ decoder' = Fresh /\ events' = <<>> /\ taken' = 0

\* A call of stream(), before its first attempt.
Init ==
    /\ api \in Apis
    /\ attempt = 1 /\ phase = "ready"
    /\ plan = <<>> /\ text = <<>> /\ at = 0 /\ closed = FALSE
    /\ decoder = Fresh /\ events = <<>> /\ taken = 0
    /\ turn = NewTurn(0) /\ sent = FALSE
    /\ said = <<>> /\ over = "open"

\* The call raises.
Raise == over' = "raised" /\ phase' = "done"

\* ChatCompletionsTransport's rule in every transport.
ReplaysMutant == TRUE

\* ChatCompletionsTransport goes round again whatever the caller has seen; the
\* others do not once it has seen an event.
Replays == api = "compatible" \/ ~sent

\* The attempt failed in a way that is worth another: after a wait, unless it
\* was the last one.
Again ==
    /\ NoResponse
    /\ IF Replays /\ attempt < MaxRetries
       THEN phase' = "waiting" /\ UNCHANGED over
       ELSE Raise
    /\ UNCHANGED <<api, attempt, turn, sent, said>>

\* The provider answers 200, and the body is to be read.
Answered ==
    /\ phase = "ready"
    /\ \E p \in PlansOf[api], layout \in Layouts :
         plan' = p /\ text' = Body(p, layout)
    /\ at' = 0 /\ closed' = FALSE /\ decoder' = Fresh /\ events' = <<>> /\ taken' = 0
    /\ turn' = NewTurn(turn.at)
    /\ phase' = "reading"
    /\ UNCHANGED <<api, attempt, sent, said, over>>

\* 429 or a server fault: is_retryable.
Busy == phase = "ready" /\ Again

\* Any other status ends the call at once.
Refused ==
    /\ phase = "ready"
    /\ Raise
    /\ UNCHANGED <<api, attempt, turn, sent, said>> /\ UNCHANGED response

\* retry_delay has passed.
Waited ==
    /\ phase = "waiting"
    /\ attempt' = attempt + 1 /\ phase' = "ready"
    /\ UNCHANGED <<api, turn, sent, said, over>> /\ UNCHANGED response

-----------------------------------------------------------------------------
(* Reading the response.                                                   *)

\* Everything the last chunk completed has been read.
CaughtUp == taken = Len(events)

\* The decoder takes a chunk, or the end of the body.  If it refuses it, the
\* events that the chunk had completed are gone with it.
Decoded(chunk, final) ==
    LET result == Decode(decoder, chunk, final, Limit)
    IN /\ events' = events \o result.made
       /\ decoder' = result.decoder
       /\ IF result.decoder.refused THEN Raise ELSE UNCHANGED <<over, phase>>

\* A chunk of the body arrives.
Chunk ==
    /\ phase = "reading" /\ CaughtUp /\ ~closed
    /\ at < Len(text)
    /\ \E n \in Chunks :
         LET upto == IF at + n > Len(text) THEN Len(text) ELSE at + n
         IN /\ Decoded(SubSeq(text, at + 1, upto), FALSE)
            /\ at' = upto
    /\ UNCHANGED <<api, attempt, plan, text, closed, taken, turn, sent, said>>

\* The body ends, whole or not, with no error from the connection.
Closed ==
    /\ phase = "reading" /\ CaughtUp /\ ~closed
    /\ closed' = TRUE
    /\ Decoded(<<>>, TRUE)
    /\ UNCHANGED <<api, attempt, plan, text, at, taken, turn, sent, said>>

\* The connection fails, before the response or in the middle of it.
Dropped ==
    /\ phase \in {"ready", "reading"} /\ CaughtUp /\ ~closed
    /\ Again

\* The reader takes the next event: [DONE] ends the reading, data that is not
\* a payload raises, and a payload becomes the events the caller is given.
ReadEvent ==
    /\ phase = "reading" /\ ~CaughtUp
    /\ taken' = taken + 1
    /\ LET n == ItemOf(events[taken + 1])
       IN IF n = 0 THEN Raise /\ UNCHANGED <<turn, sent, said, closed>>
          ELSE IF plan[n].says = "done"
          THEN /\ closed' = TRUE
               /\ UNCHANGED <<turn, sent, said, over, phase>>
          ELSE LET result == Reads(api, turn, plan[n])
               IN /\ turn' = result.turn
                  /\ said' = said \o result.events
                  /\ sent' = (sent \/ result.events # <<>>)
                  /\ UNCHANGED closed
                  /\ IF result.raised THEN Raise ELSE UNCHANGED <<over, phase>>
    /\ UNCHANGED <<api, attempt, plan, text, at, decoder, events>>

\* The stream is over: the reader says what the turn added up to.
Finish ==
    /\ phase = "reading" /\ CaughtUp /\ closed
    /\ LET result == Finished(api, turn)
       IN /\ said' = said \o result.events
          /\ sent' = (sent \/ result.events # <<>>)
          /\ over' = IF result.raised THEN "raised" ELSE "ended"
    /\ phase' = "done"
    /\ UNCHANGED <<api, attempt, turn>> /\ UNCHANGED response

\* The caller closes the generator, or is cancelled: no except clause catches it.
Leave ==
    /\ phase # "done"
    /\ over' = "left" /\ phase' = "done"
    /\ UNCHANGED <<api, attempt, turn, sent, said>> /\ UNCHANGED response

Next == \/ Answered \/ Busy \/ Refused \/ Waited
        \/ Chunk \/ Closed \/ Dropped \/ ReadEvent \/ Finish \/ Leave

Spec == Init /\ [][Next]_vars

-----------------------------------------------------------------------------
(* Properties.                                                             *)

\* Within the limit the events dispatched do not depend on where the body was
\* cut: they are the events of what has arrived, read at once (axio-sse's
\* README:44, "The result does not depend on where it was cut";
\* Decoder._text_of, _take and _read).
\*
\* At the limit they do, whatever that line says, and this is all that can be
\* said: a body is refused exactly at the first cut at which an event has
\* collected too much or the open line is too long (decoder.py:115, 255), so
\* that a long line is accepted or not as it is cut; what was dispatched is
\* right as far as it goes, and the events completed in the refused chunk
\* itself are lost with it.
SplitsNeverMatter ==
    LET arrived == SubSeq(text, 1, at)
        certain == IF decoder.cr THEN Front(arrived) ELSE arrived
        whole == EventsOf(certain)
    IN /\ IsPrefix(events, whole)
       /\ events = whole \/ decoder.refused
       /\ decoder.refused <=> \/ CollectsTooMuch(certain, Limit)
                              \/ Len(OpenLine(certain)) > Limit

Carried == {"TextDelta", "ToolUseStart", "ToolInputDelta"}

\* What the caller has received of the response, as places in its plan.
Places(kind) == LET of == SelectSeq(said, LAMBDA e : e.event = kind)
                IN [i \in DOMAIN of |-> of[i].n]

\* Nothing is handed over twice or out of its order, and a turn that ends with
\* an answer carries everything the response said: a response cut before its
\* closing word is never an answer, however it was cut (_parse_chat, the
\* Responses and Messages readers, Gemini's _do_stream).  A chat stream may hand
\* a piece of text over late, and a decline stands without its closing word.
AnswerIsWhole ==
    /\ \A kind \in Carried : \A i, j \in DOMAIN Places(kind) :
          i < j => Places(kind)[i] < Places(kind)[j]
    /\ over = "ended" =>
         \/ Last(said).reason = "refusal" /\ \E i \in DOMAIN said : said[i].event = "Refusal"
         \/ /\ \E k \in 1..taken : plan[ItemOf(events[k])].says \in Closings
            /\ {item \in Range(plan) : item.says \in {"text", "held", "call", "args"}}
                 = {plan[e.n] : e \in {f \in Range(said) : f.event \in Carried}}

\* The detailed stream keeps the contract the agent loop relies on.
KeepsContract == Contract!Spec

\* The event contract of the transports' guide, "One IterationStart first".
StartsOnce == Cardinality({i \in DOMAIN said : said[i].event = "IterationStart"}) <= 1
=============================================================================
