-------------------------- MODULE TerminalIngress ---------------------------
(***************************************************************************)
(* TerminalIngress (axio_repl/_terminal_ingress.py): the bounded queue     *)
(* between the writers of the terminal, on any thread, and the one task    *)
(* that writes it.  Every operator is the body of one method under the     *)
(* ingress lock and maps a queue to a queue.                               *)
(*                                                                         *)
(* A frame's text is the sequence of the pieces it carries; the length of  *)
(* that sequence stands for its characters.                                *)
(***************************************************************************)
EXTENDS Integers, Sequences, SequencesExt

CONSTANTS
  MaxPending,   \* max_pending_chars
  MaxBatch,     \* max_batch_chars
  MaxLate       \* max_late_chars

ASSUME IngressLimits == MaxPending > 0 /\ MaxBatch > 0 /\ MaxLate > 0

Facades == {"stdout", "stderr"}

\* OutputFrame: kind is "text" for a completed write, "live" for a snapshot
\* of an unfinished line, "drop" for the removal of its row and "notice" for
\* the marker that clears every row.
Frame(kind, text, stream, id) ==
  [kind |-> kind, text |-> text, stream |-> stream, id |-> id]

EmptyIngress ==
  [phase |-> "open", pending |-> << >>, chars |-> 0, dropped |-> 0,
   late |-> << >>, lateChars |-> 0, lateDropped |-> 0,
   wake |-> FALSE, writing |-> FALSE]

IdleWhenEmpty(i) ==  \* mutant: a batch that is being written does not count
  i.pending = << >> /\ i.dropped = 0 /\ ~ i.wake

Idle(i) == /\ i.pending = << >>
           /\ i.dropped = 0
           /\ ~ i.writing
           /\ ~ i.wake

ConsumerShouldStop(i) == i.phase # "open" /\ Idle(i)

WakeDelivered(i) == [i EXCEPT !.wake = FALSE]

-----------------------------------------------------------------------------
(* Admission.                                                              *)

\* A snapshot still waiting at the tail gives way to its line's next frame.
ReplacesLive(i, f) ==
  /\ i.pending # << >>
  /\ Last(i.pending).kind = "live"
  /\ Last(i.pending).stream = f.stream
  /\ Last(i.pending).id = f.id

Projected(i, f) ==
  i.chars + Len(f.text) - (IF ReplacesLive(i, f) THEN Len(Last(i.pending).text) ELSE 0)

\* Two finished writes that no live line owns become one frame.
Coalesces(i, f) ==
  /\ i.pending # << >>
  /\ f.kind = "text" /\ f.id = 0
  /\ LET tail == Last(i.pending)
     IN /\ tail.kind = "text" /\ tail.id = 0
        /\ tail.stream = f.stream
        /\ Len(tail.text) + Len(f.text) <= MaxBatch

ReplaceLast(s, f) == [s EXCEPT ![Len(s)] = f]

\* Once one frame has been dropped everything is dropped until the consumer
\* has taken the notice, so that nothing overtakes what is missing.
DropsActive(i, f) ==
  f.kind # "drop" /\ (i.dropped > 0 \/ Projected(i, f) > MaxPending)

EnqueueActive(i, f) ==
  IF DropsActive(i, f) THEN [i EXCEPT !.dropped = @ + 1]
  ELSE [i EXCEPT
          !.chars = Projected(i, f),
          !.pending =
             CASE ReplacesLive(i, f) -> ReplaceLast(@, f)
               [] ~ ReplacesLive(i, f) /\ Coalesces(i, f) ->
                    ReplaceLast(@, [f EXCEPT !.text = Last(i.pending).text \o @])
               [] OTHER -> Append(@, f)]

EnqueueLate(i, f) ==
  IF i.lateDropped > 0 \/ i.lateChars + Len(f.text) > MaxLate
  THEN [i EXCEPT !.lateDropped = @ + 1]
  ELSE [i EXCEPT !.late = Append(@, f), !.lateChars = @ + Len(f.text)]

\* submit: where the frame went, and what its producer must do now.
Submit(i, f) ==
  CASE i.phase = "closed" ->
         [to |-> "fallback", ingress |-> i, wakes |-> FALSE, discards |-> FALSE]
    [] i.phase = "sealed" ->
         [to |-> "late", ingress |-> EnqueueLate(i, f), wakes |-> FALSE, discards |-> FALSE]
    [] i.phase = "open" ->
         [to |-> "active",
          ingress |-> [EnqueueActive(i, f) EXCEPT !.wake = TRUE],
          wakes |-> ~ i.wake,
          discards |-> DropsActive(i, f)]

-----------------------------------------------------------------------------
(* The consumer's side and the end of the session.                         *)

\* How many frames fit into one batch after the first.
BatchSize(i) ==
  LET size[n \in 0 .. Len(i.pending)] ==
        IF n = 0 THEN 0 ELSE size[n - 1] + Len(i.pending[n].text)
      fits == {n \in 1 .. Len(i.pending) : \A k \in 2 .. n : size[k] <= MaxBatch}
  IN CHOOSE n \in fits : \A k \in fits : k <= n

TextSize(frames) == Len(FlattenSeq([k \in DOMAIN frames |-> frames[k].text]))

\* next_batch: what is pending, or else the notice of what was dropped, whose
\* id holds the number of frames.
NextBatch(i) ==
  IF i.pending # << >>
  THEN LET batch == SubSeq(i.pending, 1, BatchSize(i))
       IN [frames |-> batch,
           ingress |-> [i EXCEPT !.pending = SubSeq(@, Len(batch) + 1, Len(@)),
                                 !.chars = @ - TextSize(batch), !.writing = TRUE]]
  ELSE IF i.dropped > 0
  THEN [frames |-> << Frame("notice", << >>, "stdout", i.dropped) >>,
        ingress |-> [i EXCEPT !.dropped = 0, !.writing = TRUE]]
  ELSE [frames |-> << >>, ingress |-> [i EXCEPT !.writing = FALSE]]

FinishBatch(i) == [i EXCEPT !.writing = FALSE]

SealSilently(i) ==  \* mutant: nobody is told to wake the consumer
  [ingress |-> IF i.phase = "open" THEN [i EXCEPT !.phase = "sealed", !.wake = TRUE] ELSE i,
   wakes |-> FALSE]

Seal(i) ==
  IF i.phase = "open"
  THEN [ingress |-> [i EXCEPT !.phase = "sealed", !.wake = TRUE], wakes |-> ~ i.wake]
  ELSE [ingress |-> i, wakes |-> FALSE]

Fail(i) ==
  IF i.phase = "closed" THEN i
  ELSE [i EXCEPT !.phase = "sealed", !.pending = << >>, !.chars = 0,
                 !.dropped = 0, !.wake = FALSE, !.writing = FALSE]

CloseLate(i) ==
  [i EXCEPT !.phase = "closed", !.late = << >>, !.lateChars = 0, !.lateDropped = 0]

=============================================================================
