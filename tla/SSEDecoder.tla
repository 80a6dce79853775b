------------------------------ MODULE SSEDecoder ------------------------------
(***************************************************************************)
(* The server-sent-events format as axio-sse reads it: chunks cut at any   *)
(* character go in, the events they completed come out (Decoder.decode).   *)
(*                                                                         *)
(* A character stands for as much text as the format never looks into:     *)
(* <<"CR", 0>> and <<"LF", 0>> are the terminators, <<"data", 0>> is the   *)
(* field name with its colon, <<"colon", 0>> opens a comment, and every    *)
(* other character is (a part of) a value.  The bytes of one character     *)
(* (UTF-8, the byte order mark) and the other fields are left out.         *)
(***************************************************************************)
EXTENDS Naturals, SequencesExt

CR == <<"CR", 0>>
LF == <<"LF", 0>>
DataField == <<"data", 0>>
Colon == <<"colon", 0>>

\* Decoder.reset: no text held, no terminator half read, no data collected, of
\* no size, and nothing refused (EventTooLarge).
Fresh == [held |-> <<>>, cr |-> FALSE, data |-> <<>>, size |-> 0, refused |-> FALSE]

\* Where the first terminator of a text starts; 0 when it has none.
FirstEnding(text) ==
    LET at == {i \in DOMAIN text : text[i] \in {CR, LF}}
    IN IF at = {} THEN 0 ELSE CHOOSE i \in at : \A j \in at : i <= j

\* Decoder._take: the first line, and the text after the longest ending there.
Take(text) ==
    LET end == FirstEnding(text)
        after == IF IsPrefix(<<CR, LF>>, SubSeq(text, end, Len(text)))
                 THEN end + 2 ELSE end + 1
    IN [line |-> SubSeq(text, 1, end - 1), rest |-> SubSeq(text, after, Len(text))]

\* Decoder._read: a blank line dispatches what was collected, if anything was,
\* and a data line is refused when the lines of its event outgrow the limit.
Read(reading, line, rest, limit) ==
    LET blank == line = <<>>
        ofData == ~blank /\ Head(line) = DataField
        size == reading.size + (IF ofData THEN Len(Tail(line)) + 1 ELSE 0)
    IN [held |-> rest,
        data |-> IF blank THEN <<>> ELSE reading.data \o (IF ofData THEN Tail(line) ELSE <<>>),
        size |-> IF blank THEN 0 ELSE size,
        made |-> IF blank /\ reading.size # 0
                 THEN Append(reading.made, reading.data) ELSE reading.made,
        refused |-> size > limit]

\* The loop of Decoder.decode, until no complete line is held or one is refused.
ReadLines(reading, limit) ==
    LET complete == Cardinality({i \in DOMAIN reading.held : reading.held[i] \in {CR, LF}})
        After[n \in 0..complete] ==
            IF n = 0 THEN reading
            ELSE LET before == After[n - 1]
                     took == Take(before.held)
                 IN IF before.refused \/ FirstEnding(before.held) = 0 THEN before
                    ELSE Read(before, took.line, took.rest, limit)
    IN After[complete]

\* Decoder._text_of without its last step: a CR ends a line at once.
TextOfMutant(decoder, chunk, final) == [text |-> chunk, cr |-> FALSE]

\* Decoder._text_of: a chunk that ends in a CR keeps it back until the next one
\* says whether an LF follows.
TextOf(decoder, chunk, final) ==
    LET text == IF decoder.cr THEN <<CR>> \o chunk ELSE chunk
        keeps == ~final /\ text # <<>> /\ Last(text) = CR
    IN [text |-> IF keeps THEN Front(text) ELSE text, cr |-> keeps]

\* Decoder._forget: at the end of file what never met its blank line is lost.
Forget == Fresh

\* Decoder._bounded: the line that is still open outgrew the limit.  A line is
\* measured only while it is open, so a longer one that ends within its chunk
\* is accepted.
Unbounded(held, limit) == Len(held) > limit

\* Decoder.decode: the decoder after a chunk, and the events it completed; a
\* chunk that is refused completes none.
Decode(decoder, chunk, final, limit) ==
    LET came == TextOf(decoder, chunk, final)
        read == ReadLines([held |-> decoder.held \o came.text, data |-> decoder.data,
                           size |-> decoder.size, made |-> <<>>, refused |-> FALSE], limit)
        refused == read.refused \/ (~final /\ Unbounded(read.held, limit))
    IN [made |-> IF refused THEN <<>> ELSE read.made,
        decoder |-> IF final /\ ~refused THEN Forget
                    ELSE [held |-> read.held, cr |-> came.cr, data |-> read.data,
                          size |-> read.size, refused |-> refused]]

-----------------------------------------------------------------------------
(* What the format says of a whole text, without a decoder.                *)

\* The characters that end a line: an LF, and a CR no LF follows.
LineEnds(text) ==
    {i \in DOMAIN text : \/ text[i] = LF
                         \/ text[i] = CR /\ (i = Len(text) \/ text[i + 1] # LF)}

\* The members of a set of positions of a text, in order.
InOrder(text, places) == SelectSeq([i \in 1..Len(text) |-> i], LAMBDA i : i \in places)

\* The lines of a text without their terminators, but for one it has not ended.
LinesOf(text) ==
    LET ends == InOrder(text, LineEnds(text))
        After(k) == IF k = 1 THEN 1 ELSE ends[k - 1] + 1
    IN [k \in DOMAIN ends |->
          SelectSeq(SubSeq(text, After(k), ends[k]), LAMBDA c : c \notin {CR, LF})]

\* The data lines since the last blank line before the k-th line.
DataBefore(lines, k) ==
    {j \in DOMAIN lines : /\ j < k /\ lines[j] # <<>> /\ Head(lines[j]) = DataField
                          /\ \A b \in j..(k - 1) : lines[b] # <<>>}

\* The events of a text: at each blank line the values of the data lines since
\* the blank line before it, where there are any.
EventsOf(text) ==
    LET lines == LinesOf(text)
        Values(k) == LET from == InOrder(text, DataBefore(lines, k))
                     IN FlattenSeq([i \in DOMAIN from |-> Tail(lines[from[i]])])
        blanks == InOrder(text, {k \in DOMAIN lines : lines[k] = <<>>})
    IN SelectSeq([i \in DOMAIN blanks |-> Values(blanks[i])], LAMBDA event : event # <<>>)

\* The line of a text that has no terminator yet.
OpenLine(text) ==
    SubSeq(text, 1 + FoldSet(LAMBDA i, last : IF i > last THEN i ELSE last, 0, LineEnds(text)),
           Len(text))

\* An event of the text collects more than the limit: the values of its data
\* lines, and a line feed for each.
CollectsTooMuch(text, limit) ==
    LET lines == LinesOf(text)
    IN \E k \in 1..(Len(lines) + 1) :
         FoldSet(LAMBDA j, sum : sum + Len(lines[j]), 0, DataBefore(lines, k)) > limit
=============================================================================
