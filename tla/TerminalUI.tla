----------------------------- MODULE TerminalUI -----------------------------
(***************************************************************************)
(* TerminalUI (axio_repl/_terminal.py, _prompt_terminal.py): everything an *)
(* interactive session prints passes through two line-buffered facades and *)
(* the bounded ingress to one consumer task, which alone touches the       *)
(* terminal.                                                               *)
(*                                                                         *)
(* Two threads write.  The event loop's thread runs the renderer, the      *)
(* consumer, drain() and close(): a task holds the loop from one await to  *)
(* the next (onLoop).  Another thread logs whole lines.  Between the locks *)
(* they take the threads interleave step by step.                          *)
(***************************************************************************)
EXTENDS TerminalIngress, FiniteSets

CONSTANTS
  Streams,      \* semantic streams of the renderer, on stdout
  MaxPieces,    \* bound: pieces written in all
  MaxShows,     \* bound: snapshots of unfinished lines that are published
  MayFail       \* whether a write to the terminal may raise

ASSUME PieceBound == MaxPieces \in Nat /\ MaxShows \in Nat /\ MayFail \in BOOLEAN

Threads == {"loop", "log"}
Writers == Streams \cup {"log"}           \* keys of _TerminalStream._buffers
ThreadOf(w) == IF w = "log" THEN "log" ELSE "loop"
StreamOf(w) == IF w = "log" THEN "stderr" ELSE "stdout"

VARIABLES
  phase,        \* _phase of the terminal
  error,        \* _consumer_error is set
  ingress,      \* _ingress
  facade,       \* the two _TerminalStream objects
  pc,           \* where each thread is inside a facade's method
  posted,       \* _notify_consumer calls waiting in the loop's ready queue
  wake,         \* the asyncio event _wake
  onLoop,       \* the task that runs on the loop now, or "free"
  consumer,     \* _consume: its place and the rest of its batch
  closer,       \* close: its place
  spill,        \* what close_late returned
  drainer,      \* drain: its place
  fallbackLock, \* _fallback_lock
  scroll,       \* pieces on the terminal, in order
  rows,         \* the live rows of PromptToolkitInlineOutput
  fallback,     \* pieces written to the original streams
  made,         \* history: pieces written so far, per writer
  shows,        \* history: snapshots so far
  skipped,      \* history: dropped pieces no notice has told of yet ...
  told,         \* ... and those a notice has told of
  cleared,      \* history: pieces of unfinished lines thrown away
  lost,         \* history: pieces that went down with the consumer
  due           \* history: handed over when drain was called, not shown yet

uiVars    == <<phase, error>>
eventVars == <<posted, wake>>
taskVars  == <<consumer, closer, spill, drainer>>
screen    == <<scroll, rows, fallback>>
history   == <<made, shows, skipped, told, cleared, lost, due>>
vars == <<uiVars, ingress, facade, pc, eventVars, onLoop, taskVars,
          fallbackLock, screen, history>>

NoFrame == Frame("none", << >>, "stdout", 0)
AtRest  == [at |-> "idle", rest |-> << >>, frame |-> NoFrame, wakes |-> FALSE]

Init ==
  /\ phase = "running" /\ error = FALSE
  /\ ingress = EmptyIngress
  /\ facade = [s \in Facades |->
       [owner |-> "none", flag |-> FALSE, next |-> 1,
        buffer |-> [w \in Writers |-> << >>], live |-> [w \in Writers |-> 0]]]
  /\ pc = [t \in Threads |-> AtRest]
  /\ posted = 0 /\ wake = FALSE
  /\ onLoop = "free"
  /\ consumer = [at |-> "wait", frames |-> << >>]
  /\ closer = "off" /\ spill = [frames |-> << >>, dropped |-> 0]
  /\ drainer = "off" /\ fallbackLock = "none"
  /\ scroll = << >> /\ rows = << >> /\ fallback = << >>
  /\ made = [w \in Writers |-> 0] /\ shows = 0
  /\ skipped = {} /\ told = {} /\ cleared = {} /\ lost = {} /\ due = {}

-----------------------------------------------------------------------------
(* The facades: write, flush, flush_live_line, discard_semantic_stream.    *)

\* _apply_pending_live_discard_locked: every writer with a live row loses
\* what it had buffered for it.
Owning(f) == {w \in Writers : f.live[w] # 0}

ApplyDiscard(f) ==
  IF ~ f.flag THEN f
  ELSE [f EXCEPT !.flag = FALSE,
                 !.buffer = [w \in Writers |-> IF f.live[w] # 0 THEN << >> ELSE @[w]],
                 !.live = [w \in Writers |-> 0]]

ThrownAway(f) ==
  IF f.flag THEN UNION {ToSet(f.buffer[w]) : w \in Owning(f)} ELSE {}

Emptied(f, w) == [f EXCEPT !.buffer[w] = << >>, !.live[w] = 0]

\* The frame that ends w's line with text, and what is left of the facade.
Finish(f, w, text) ==
  [facade |-> Emptied(f, w), frame |-> Frame("text", text, StreamOf(w), f.live[w])]

\* write of a line's end ...
EndLine(f, w, piece) == Finish(f, w, Append(f.buffer[w], piece))

\* ... and of text without one, which stays in the buffer.
Buffer(f, w, piece) ==
  [facade |-> [f EXCEPT !.buffer[w] = Append(@, piece)], frame |-> NoFrame]

\* flush: the unfinished line is committed as it is.  The renderer leaves its
\* lines alone while the editor is up (_input_active), close does not.
FlushOut(f, w) ==
  IF f.buffer[w] = << >> THEN [facade |-> Emptied(f, w), frame |-> NoFrame]
  ELSE Finish(f, w, f.buffer[w])

\* flush_live_line: a snapshot, under the id the line keeps until it ends.
ShowLive(f, w) ==
  LET id == IF f.live[w] # 0 THEN f.live[w] ELSE f.next
  IN IF f.buffer[w] = << >> THEN [facade |-> f, frame |-> NoFrame]
     ELSE [facade |-> [f EXCEPT !.live[w] = id,
                                !.next = IF f.live[w] # 0 THEN @ ELSE @ + 1],
           frame |-> Frame("live", f.buffer[w], StreamOf(w), id)]

\* discard_semantic_stream: the line and its row go.
DropLine(f, w) ==
  [facade |-> Emptied(f, w),
   frame |-> IF f.live[w] = 0 THEN NoFrame
             ELSE Frame("drop", << >>, StreamOf(w), f.live[w])]

\* submit reads the phase under _state_lock and uses it after it.
Entered(frame, rest) ==
  [at |-> CASE frame = NoFrame -> "end"
            [] frame # NoFrame /\ phase = "closed" -> "fallback"
            [] OTHER -> "admit",
   rest |-> rest, frame |-> frame, wakes |-> FALSE]

LoopIsFree(t) == t = "loop" => onLoop = "free" /\ closer = "off"

\* The thread has taken the facade's lock, changed the buffer and holds a
\* frame for the owner, or is done if there is none.
Enter(w, result) ==
  LET t == ThreadOf(w) IN
  /\ facade' = [facade EXCEPT ![StreamOf(w)] =
       [result.facade EXCEPT !.owner = IF result.frame = NoFrame THEN "none" ELSE t]]
  /\ IF result.frame = NoFrame THEN UNCHANGED <<pc, onLoop>>
     ELSE /\ pc' = [pc EXCEPT ![t] = Entered(result.frame, << >>)]
          /\ onLoop' = IF t = "loop" THEN "writer" ELSE onLoop

CanEnter(w) == /\ pc[ThreadOf(w)].at = "idle"
               /\ LoopIsFree(ThreadOf(w))
               /\ facade[StreamOf(w)].owner = "none"

Now(w) == ApplyDiscard(facade[StreamOf(w)])

Discarding(pieces, w) == cleared' = cleared \cup pieces \cup ThrownAway(facade[StreamOf(w)])

Everything == UNION {{<<w, n>> : n \in 1 .. made[w]} : w \in Writers}

Write(w) ==
  /\ CanEnter(w)
  /\ Cardinality(Everything) < MaxPieces
  /\ made' = [made EXCEPT ![w] = @ + 1]
  /\ \/ Enter(w, EndLine(Now(w), w, <<w, made[w] + 1>>))
     \/ w \in Streams /\ Enter(w, Buffer(Now(w), w, <<w, made[w] + 1>>))
  /\ Discarding({}, w)
  /\ UNCHANGED <<uiVars, ingress, eventVars, taskVars, fallbackLock, screen,
                 shows, skipped, told, lost, due>>

FlushLive(w) ==
  /\ CanEnter(w)
  /\ w \in Streams /\ shows < MaxShows
  /\ shows' = shows + 1
  /\ Enter(w, ShowLive(Now(w), w))
  /\ Discarding({}, w)
  /\ UNCHANGED <<uiVars, ingress, eventVars, taskVars, fallbackLock, screen,
                 made, skipped, told, lost, due>>

DiscardStream(w) ==
  /\ CanEnter(w)
  /\ w \in Streams /\ facade[StreamOf(w)].buffer[w] # << >>
  /\ Enter(w, DropLine(Now(w), w))
  /\ Discarding(ToSet(facade[StreamOf(w)].buffer[w]), w)
  /\ UNCHANGED <<uiVars, ingress, eventVars, taskVars, fallbackLock, screen,
                 made, shows, skipped, told, lost, due>>

-----------------------------------------------------------------------------
(* TerminalUI.submit, on the writing thread and under its facade's lock.   *)

Goto(t, place) == pc' = [pc EXCEPT ![t].at = place]

Admit(t) ==
  LET frame  == pc[t].frame
      answer == Submit(ingress, frame)
      dropped == \/ answer.discards
                 \/ answer.to = "late" /\ answer.ingress.lateDropped > ingress.lateDropped
  IN
  /\ pc[t].at = "admit"
  /\ ingress' = answer.ingress
  /\ pc' = [pc EXCEPT ![t].wakes = answer.wakes,
       ![t].at = CASE answer.to = "fallback" -> "fallback"
                   [] answer.discards        -> "discard"
                   [] OTHER                  -> "end"]
  /\ skipped' = IF dropped /\ frame.kind = "text"
                THEN skipped \cup ToSet(frame.text) ELSE skipped
  /\ UNCHANGED <<uiVars, facade, eventVars, onLoop, taskVars, fallbackLock,
                 screen, made, shows, told, cleared, lost, due>>

\* _discard_producer_live_buffers: both facades are asked to forget their
\* unfinished lines, without their locks.
RequestDiscard(t) ==
  /\ pc[t].at = "discard"
  /\ facade' = [s \in Facades |-> [facade[s] EXCEPT !.flag = TRUE]]
  /\ Goto(t, "end")
  /\ UNCHANGED <<uiVars, ingress, eventVars, onLoop, taskVars, fallbackLock,
                 screen, history>>

WriteFallback(t) ==
  /\ pc[t].at = "fallback"
  /\ fallbackLock = "none"
  /\ fallback' = fallback \o pc[t].frame.text
  /\ Goto(t, "end")
  /\ UNCHANGED <<uiVars, ingress, facade, eventVars, onLoop, taskVars,
                 fallbackLock, scroll, rows, history>>

NotifyConsumer ==
  /\ ingress' = WakeDelivered(ingress)
  /\ wake' = TRUE

Posted ==
  /\ posted > 0 /\ onLoop = "free"
  /\ posted' = posted - 1
  /\ NotifyConsumer
  /\ UNCHANGED <<uiVars, facade, pc, onLoop, taskVars, fallbackLock, screen, history>>

\* The consumer is woken, by a callback if this is not the loop's thread.
Notify(t) ==
  CASE ~ pc[t].wakes -> UNCHANGED <<ingress, eventVars>>
    [] pc[t].wakes /\ t = "loop" -> NotifyConsumer /\ UNCHANGED posted
    [] pc[t].wakes /\ t # "loop" ->
         posted' = posted + 1 /\ UNCHANGED <<ingress, wake>>

\* A thread is inside one facade at a time.
HeldBy(t) == CHOOSE s \in Facades : facade[s].owner = t

\* Back in the facade: apply a discard that came meanwhile, flush the next
\* writer of flush_all or release the lock.
Return(t) ==
  LET s == HeldBy(t)
      f == ApplyDiscard(facade[s])
      rest == pc[t].rest
  IN
  /\ pc[t].at = "end"
  /\ Notify(t)
  /\ cleared' = cleared \cup ThrownAway(facade[s])
  /\ IF rest = << >>
     THEN /\ facade' = [facade EXCEPT ![s] = [f EXCEPT !.owner = "none"]]
          /\ pc' = [pc EXCEPT ![t] = AtRest]
          /\ onLoop' = IF onLoop = "writer" /\ t = "loop" THEN "free" ELSE onLoop
     ELSE LET w == Head(rest)
              out == FlushOut(f, w)
          IN /\ facade' = [facade EXCEPT ![s] = out.facade]
             /\ pc' = [pc EXCEPT ![t] = Entered(out.frame, Tail(rest))]
             /\ UNCHANGED onLoop
  /\ UNCHANGED <<uiVars, taskVars, fallbackLock, screen,
                 made, shows, skipped, told, lost, due>>

-----------------------------------------------------------------------------
(* _consume.                                                               *)

\* drain clears the event _drained before it waits for it, so that all there
\* is to setting it is that it releases the waiting drain.
SetDrained == drainer' = IF drainer = "wait" THEN "check" ELSE drainer

ConsumerWakes ==
  /\ consumer.at = "wait" /\ wake /\ onLoop = "free"
  /\ wake' = FALSE
  /\ ingress' = WakeDelivered(ingress)
  /\ consumer' = [consumer EXCEPT !.at = "next"]
  /\ onLoop' = "consumer"
  /\ UNCHANGED <<uiVars, facade, pc, posted, closer, spill, drainer,
                 fallbackLock, screen, history>>

TakeBatch ==
  LET batch == NextBatch(ingress) IN
  /\ consumer.at = "next"
  /\ ingress' = batch.ingress
  /\ IF batch.frames # << >>
     THEN /\ consumer' = [at |-> "write", frames |-> batch.frames]
          /\ onLoop' = "free"
          /\ UNCHANGED drainer
     ELSE /\ consumer' = [consumer EXCEPT !.at = "stop"]
          /\ SetDrained
          /\ UNCHANGED onLoop
  /\ UNCHANGED <<uiVars, facade, pc, posted, wake, closer, spill, fallbackLock,
                 screen, history>>

StopOrWait ==
  /\ consumer.at = "stop"
  /\ consumer' = [consumer EXCEPT !.at = IF ConsumerShouldStop(ingress) THEN "done" ELSE "wait"]
  /\ onLoop' = "free"
  /\ UNCHANGED <<uiVars, ingress, facade, pc, eventVars, closer, spill, drainer,
                 fallbackLock, screen, history>>

RowOf(f) == <<f.stream, f.id>>
WithRow(k, text) == [r \in DOMAIN rows \cup {k} |-> IF r = k THEN text ELSE rows[r]]

DisplayKeepsRow(f) ==  \* mutant: a finished line leaves its row behind
  /\ scroll' = IF f.kind = "text" THEN scroll \o f.text ELSE scroll
  /\ rows' = CASE f.kind = "notice" -> << >>
               [] f.kind = "live"   -> WithRow(RowOf(f), f.text)
               [] f.kind = "text"   -> rows
               [] OTHER             -> Restrict(rows, DOMAIN rows \ {RowOf(f)})
  /\ told' = IF f.kind = "notice" THEN told \cup skipped ELSE told
  /\ skipped' = IF f.kind = "notice" THEN {} ELSE skipped
  /\ UNCHANGED due

\* _write and the inline output's transaction: rows are erased, the text is
\* written into the scrollback and the remaining rows are drawn again.
Display(f) ==
  /\ scroll' = IF f.kind = "text" THEN scroll \o f.text ELSE scroll
  /\ rows' = CASE f.kind = "notice" -> << >>
               [] f.kind = "live"   -> WithRow(RowOf(f), f.text)
               [] OTHER             -> Restrict(rows, DOMAIN rows \ {RowOf(f)})
  /\ told' = IF f.kind = "notice" THEN told \cup skipped ELSE told
  /\ skipped' = IF f.kind = "notice" THEN {} ELSE skipped
  /\ due' = CASE f.kind = "text"   -> due \ ToSet(f.text)
              [] f.kind = "notice" -> due \ skipped
              [] OTHER             -> due

WriteFrame ==
  /\ consumer.at = "write" /\ onLoop = "free"
  /\ Display(Head(consumer.frames))
  /\ IF Len(consumer.frames) > 1
     THEN /\ consumer' = [consumer EXCEPT !.frames = Tail(@)]
          /\ UNCHANGED <<ingress, onLoop>>
     ELSE /\ consumer' = [at |-> "next", frames |-> << >>]
          /\ ingress' = FinishBatch(ingress)
          /\ onLoop' = "consumer"
  /\ UNCHANGED <<uiVars, facade, pc, eventVars, closer, spill, drainer,
                 fallbackLock, fallback, made, shows, cleared, lost>>

PiecesOf(frames) ==
  UNION {ToSet(frames[k].text) : k \in {n \in DOMAIN frames : frames[n].kind = "text"}}

\* _record_failure: what was queued goes down with the terminal, what is
\* written from now on waits for close.
WriteFails ==
  /\ MayFail /\ consumer.at = "write" /\ onLoop = "free"
  /\ error' = TRUE
  /\ phase' = IF phase = "running" THEN "failed" ELSE phase
  /\ ingress' = Fail(ingress)
  /\ lost' = lost \cup PiecesOf(consumer.frames) \cup PiecesOf(ingress.pending) \cup skipped
  /\ skipped' = {}
  /\ SetDrained
  /\ consumer' = [at |-> "done", frames |-> << >>]
  /\ UNCHANGED <<facade, pc, posted, wake, onLoop, closer, spill, fallbackLock,
                 screen, made, shows, told, cleared, due>>

-----------------------------------------------------------------------------
(* drain.                                                                  *)

\* A call that finds the terminal idle returns at once and is left out.
CallDrain ==
  /\ ~ Idle(ingress)
  /\ drainer = "off" /\ onLoop = "free" /\ closer = "off"
  /\ drainer' = "check"
  /\ due' = PiecesOf(ingress.pending) \cup PiecesOf(consumer.frames) \cup skipped
  /\ UNCHANGED <<uiVars, ingress, facade, pc, eventVars, onLoop, consumer, closer,
                 spill, fallbackLock, screen, made, shows, skipped, told,
                 cleared, lost>>

CheckDrained ==
  /\ drainer = "check" /\ onLoop = "free"
  /\ IF error \/ Idle(ingress)
     THEN /\ drainer' = "off"
          /\ due' = {}
     ELSE /\ drainer' = "wait"
          /\ UNCHANGED due
  /\ UNCHANGED <<uiVars, ingress, facade, pc, posted, wake, onLoop, consumer, closer,
                 spill, fallbackLock, screen, made, shows, skipped, told, cleared, lost>>

-----------------------------------------------------------------------------
(* close.                                                                  *)

Close ==
  /\ closer = "off" /\ onLoop = "free"
  /\ phase' = "draining"
  /\ closer' = "stdout"
  /\ onLoop' = "closer"
  /\ UNCHANGED <<error, ingress, facade, pc, eventVars, consumer, spill, drainer,
                 fallbackLock, screen, history>>

\* flush_all of one facade after the other, through submit like any write.
FlushFacade ==
  /\ closer \in Facades /\ pc["loop"].at = "idle"
  /\ facade[closer].owner = "none"
  /\ facade' = [facade EXCEPT ![closer].owner = "loop"]
  /\ LET written == {w \in Writers : StreamOf(w) = closer /\ facade[closer].buffer[w] # << >>}
     IN \E order \in SetToAllKPermutations(written) :
          /\ Len(order) = Cardinality(written)
          /\ pc' = [pc EXCEPT !["loop"] =
               [AtRest EXCEPT !.at = "end", !.rest = order]]
  /\ closer' = IF closer = "stdout" THEN "stderr" ELSE "seal"
  /\ UNCHANGED <<uiVars, ingress, eventVars, onLoop, consumer, spill, drainer,
                 fallbackLock, screen, history>>

CloseSeals ==
  LET sealed == Seal(ingress) IN
  /\ closer = "seal" /\ pc["loop"].at = "idle"
  /\ IF sealed.wakes
     THEN /\ ingress' = WakeDelivered(sealed.ingress)
          /\ wake' = TRUE
     ELSE ingress' = sealed.ingress /\ UNCHANGED wake
  /\ closer' = "await"
  /\ onLoop' = "free"
  /\ UNCHANGED <<uiVars, facade, pc, posted, consumer, spill, drainer,
                 fallbackLock, screen, history>>

CloseTakesLateUnlocked ==  \* mutant: other writers may write meanwhile
  /\ closer = "await" /\ consumer.at = "done" /\ onLoop = "free"
  /\ spill' = [frames |-> ingress.late, dropped |-> ingress.lateDropped]
  /\ ingress' = CloseLate(ingress)
  /\ closer' = "spill"
  /\ onLoop' = "closer"
  /\ UNCHANGED <<uiVars, facade, pc, eventVars, consumer, drainer, fallbackLock, screen,
                 history>>

\* _flush_late_output: the ingress is closed and what came late is written
\* under one hold of the fallback lock.
CloseTakesLate ==
  /\ closer = "await" /\ consumer.at = "done" /\ onLoop = "free"
  /\ fallbackLock = "none"
  /\ fallbackLock' = "loop"
  /\ spill' = [frames |-> ingress.late, dropped |-> ingress.lateDropped]
  /\ ingress' = CloseLate(ingress)
  /\ closer' = "spill"
  /\ onLoop' = "closer"
  /\ UNCHANGED <<uiVars, facade, pc, eventVars, consumer, drainer, screen, history>>

CloseSpills ==
  /\ closer = "spill"
  /\ fallback' = fallback \o FlattenSeq([k \in DOMAIN spill.frames |-> spill.frames[k].text])
  /\ fallbackLock' = "none"
  /\ told' = IF spill.dropped > 0 THEN told \cup skipped ELSE told
  /\ skipped' = IF spill.dropped > 0 THEN {} ELSE skipped
  /\ spill' = [frames |-> << >>, dropped |-> 0]
  /\ closer' = "leave"
  /\ UNCHANGED <<uiVars, ingress, facade, pc, eventVars, onLoop, consumer, drainer,
                 scroll, rows, made, shows, cleared, lost, due>>

CloseEnds ==
  /\ closer = "leave"
  /\ phase' = "closed"
  /\ closer' = "closed"
  /\ onLoop' = "free"
  /\ UNCHANGED <<error, ingress, facade, pc, eventVars, consumer, spill, drainer,
                 fallbackLock, screen, history>>

-----------------------------------------------------------------------------
Step(t) == Admit(t) \/ RequestDiscard(t) \/ WriteFallback(t) \/ Return(t)

Consume == ConsumerWakes \/ TakeBatch \/ StopOrWait \/ WriteFrame \/ WriteFails

Closing == FlushFacade \/ CloseSeals \/ CloseTakesLate \/ CloseSpills \/ CloseEnds

Next ==
  \/ \E w \in Writers : Write(w) \/ FlushLive(w) \/ DiscardStream(w)
  \/ \E t \in Threads : Step(t)
  \/ Posted \/ Consume
  \/ CallDrain \/ CheckDrained
  \/ Close \/ Closing

Spec == Init /\ [][Next]_vars

\* Threads run, the loop runs what is ready, and the terminal answers.
FairSpec ==
  /\ Spec
  /\ \A t \in Threads : WF_vars(Step(t))
  /\ WF_vars(Posted) /\ WF_vars(Consume) /\ WF_vars(CheckDrained) /\ WF_vars(Closing)

-----------------------------------------------------------------------------
(* Properties.                                                             *)

Of(w, s) == SelectSeq(s, LAMBDA p : p[1] = w)
Rising(s) == \A i, j \in DOMAIN s : i < j => s[i][2] < s[j][2]

\* A line a writer has finished enters the terminal once, and each writer's
\* lines in the order it wrote them, from the first through the late ones to
\* those after the end of the session; unless the terminal itself failed.
OncePerLineInOrder == error \/ \A w \in Writers : Rising(Of(w, scroll \o fallback))

InHand == UNION {ToSet(facade[s].buffer[w]) : s \in Facades, w \in Writers}
          \cup UNION {ToSet(pc[t].frame.text) : t \in {u \in Threads : pc[u].at \in
                                                  {"admit", "fallback"}}}
Queued == PiecesOf(ingress.pending) \cup PiecesOf(consumer.frames)
          \cup PiecesOf(ingress.late) \cup PiecesOf(spill.frames)

NoticeIsDue == \/ ingress.dropped > 0 \/ ingress.lateDropped > 0 \/ spill.dropped > 0
               \/ \E k \in DOMAIN consumer.frames : consumer.frames[k].kind = "notice"

\* Nothing that was written vanishes: it is in a writer's hand, queued, on
\* the terminal or in the original stream, or it was dropped and a notice
\* says so or will; only a failed terminal takes output with it.
NothingVanishes ==
  /\ Everything \subseteq
       InHand \cup Queued \cup ToSet(scroll) \cup ToSet(fallback)
       \cup skipped \cup told \cup cleared \cup lost
  /\ skipped # {} => NoticeIsDue
  /\ lost # {} => error

\* Both: a line arrives once and in its place, or is told of.
LinesArrive == OncePerLineInOrder /\ NothingVanishes

\* When drain returns, everything that was handed over before it was called
\* is on the terminal, or a notice on the terminal tells of it.
DrainMeansShown ==
  [][drainer = "check" /\ drainer' = "off" => due = {} \/ error]_vars

\* drain and close return, however the threads and the consumer interleave
\* and whether or not the terminal fails.
WaitersReturn ==
  /\ (drainer = "check") ~> (drainer = "off")
  /\ (closer = "stdout") ~> (closer = "closed")

Owned(s) == {<<s, facade[s].live[w]>> : w \in Owning(facade[s])}

\* While nothing has been dropped, the rows at rest are exactly the
\* unfinished lines that were published, each showing a beginning of its line.
RowsAreTheLiveLines ==
  (/\ Idle(ingress) /\ consumer.at = "wait" /\ ~ wake /\ onLoop = "free"
   /\ \A t \in Threads : pc[t].at = "idle"
   /\ told = {} /\ cleared = {} /\ \A s \in Facades : ~ facade[s].flag)
  => /\ DOMAIN rows = UNION {Owned(s) : s \in Facades}
     /\ \A s \in Facades : \A w \in Owning(facade[s]) :
          IsPrefix(rows[<<s, facade[s].live[w]>>], facade[s].buffer[w])

=============================================================================
