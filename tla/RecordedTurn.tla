---------------------------- MODULE RecordedTurn ----------------------------
(***************************************************************************)
(* A turn that is observed (axio_tools_agents/runtime.py) and recorded     *)
(* (_write_runtime_event of axio_repl), and the end of the process at any  *)
(* moment.                                                                 *)
(*                                                                         *)
(* The agent answers in rounds, whose text comes in pieces.  Each event is *)
(* handed to the recorder before the next one is made.                     *)
(***************************************************************************)
EXTENDS SessionJournal

CONSTANTS
  MaxRounds,   \* bounds: rounds of the turn
  MaxPieces    \* .. pieces of text in a round

VARIABLES
  phase,     \* "before", "streaming", "ending", "unwinding" or "over"
  todo,      \* the events that are about to be published, in order
  round,     \* the round of the agent's loop, and the pieces of its text so far
  current,   \* current_iteration_text
  history    \* the messages of the turn in the agent's store

turnVars == <<phase, todo, round, current, history>>
vars == <<journalVars, turnVars>>

Init ==
  /\ JournalInit
  /\ phase = "before" /\ todo = <<>> /\ current = <<>> /\ history = <<>>
  /\ round = [n |-> 1, text |-> <<>>]

\* _DURABLE_JOURNAL_EVENTS
Durable(event) == event.kind \in {"message", "finished"}

Recording == pc.host = "running"
Streaming == Recording /\ phase = "streaming" /\ todo = <<>>

\* What comes next when the events in hand are published.
Then(p) == IF p = "ending" \/ p = "unwinding" THEN "over" ELSE p

-----------------------------------------------------------------------------
(* The turn.                                                               *)

\* observe_agent_turn: TurnStarted, and the user's message.
Begin ==
  /\ Recording /\ phase = "before"
  /\ phase' = "streaming"
  /\ history' = <<Committed("user", <<>>)>>
  /\ todo' = <<Plain("started"), Committed("user", <<>>)>>
  /\ UNCHANGED <<journalVars, round, current>>

\* A TextDelta: it is observed by the recorder without an await.
Say ==
  /\ Streaming /\ Len(round.text) < MaxPieces
  /\ LET piece == <<round.n, Len(round.text) + 1>>
     IN /\ round' = [round EXCEPT !.text = Append(@, piece)]
        /\ current' = Append(current, piece)
        /\ \E isTime \in BOOLEAN : journal' = Observed(journal, piece, isTime)
  /\ UNCHANGED <<pc, answer, holder, writer, fileVars, faults, promise, phase, todo, history>>

Answer == Committed("assistant", round.text)
Results == Committed("results", <<>>)

\* The round has asked for tools, which have run: the answer and the results are
\* stored as one batch, and a MessageCommitted follows for each; then the
\* ToolResults.
EndWithTools ==
  /\ Streaming /\ round.n < MaxRounds
  /\ history' = history \o <<Answer, Results>>
  /\ todo' = <<Answer, Results, Plain("result")>>
  /\ round' = [n |-> round.n + 1, text |-> <<>>]
  /\ UNCHANGED <<journalVars, phase, current>>

\* The provider has paused: the answer is stored and the loop goes on.
EndWithPause ==
  /\ Streaming /\ round.n < MaxRounds /\ round.text # <<>>
  /\ history' = Append(history, Answer)
  /\ todo' = <<Answer>>
  /\ round' = [n |-> round.n + 1, text |-> <<>>]
  /\ UNCHANGED <<journalVars, phase, current>>

\* The last response has been stored: the agent has answered, or has stopped for
\* a reason of its own.
Respond ==
  /\ Streaming /\ round.text # <<>>
  /\ history' = Append(history, Answer)
  /\ \E status \in {"succeeded", "failed"} : todo' = <<Answer, Finished(status)>>
  /\ phase' = "ending"
  /\ UNCHANGED <<journalVars, round, current>>

\* The stream has failed, and the text of the round is not stored.
Fail ==
  /\ Streaming
  /\ todo' = <<Finished("failed")>>
  /\ phase' = "ending"
  /\ UNCHANGED <<journalVars, round, current, history>>

\* finalize_cancelled_turn, which is shielded: the text that was said since the
\* last ToolResult is stored, unless an answer of the turn has exactly that text.
Unwind ==
  LET partial == Committed("assistant", current)
      added == IF current = <<>> \/ \E i \in DOMAIN history : history[i] = partial THEN <<>>
               ELSE <<partial>>
  IN /\ history' = history \o added
     /\ todo' = Append(added, Finished("cancelled"))
     /\ phase' = "unwinding"

\* The turn is cancelled while it waits for the provider or for tools, ..
Cancel ==
  /\ Streaming
  /\ Unwind
  /\ UNCHANGED <<journalVars, round, current>>

\* .. or while the recorder waits for a barrier: the event is not published again
\* and those behind it are not published at all.
CancelRecorder ==
  /\ phase \in {"streaming", "ending"}
  /\ pc.recorder \in {"locking", "putting", "awaiting"}
  /\ Leaves("recorder", "out")
  /\ IF Head(todo).kind = "finished"
     THEN todo' = <<>> /\ phase' = "over" /\ UNCHANGED history
     ELSE Unwind
  /\ UNCHANGED <<answer, fileVars, faults, promise, round, current>>

\* The turn was interrupted by Escape, and the notice of it is stored.
NoteInterruption ==
  /\ Recording /\ phase = "over" /\ todo = <<>>
  /\ history # <<>> /\ history[Len(history)] # Notice
  /\ \E i \in DOMAIN journal.admitted : journal.admitted[i].event = Finished("cancelled")
  /\ history' = Append(history, Notice)
  /\ todo' = <<Notice>>
  /\ UNCHANGED <<journalVars, phase, round, current>>

-----------------------------------------------------------------------------
(* The recorder.                                                           *)

\* The event has been recorded: the next one is published.  The fragments of a
\* turn are forgotten with its TurnFinished.
Recorded(event) ==
  /\ todo' = Tail(todo)
  /\ phase' = IF Len(todo) = 1 THEN Then(phase) ELSE phase

AfterEvent(j, event) == IF event.kind = "finished" THEN Forgotten(j) ELSE j

\* _write_runtime_event: a durable event is queued behind the fragments before
\* it, and waits for a barrier if it was accepted.
Record ==
  /\ todo # <<>> /\ pc.recorder = "out"
  /\ LET event == Head(todo)
         before == IF Durable(event) THEN Flushed(journal) ELSE journal
         after == Enqueued(before, event)
     IN /\ current' = IF event.kind = "result" THEN <<>> ELSE current
        /\ IF after.next # before.next /\ Durable(event)
           THEN CallSync(after) /\ UNCHANGED <<todo, phase>>
           ELSE /\ journal' = AfterEvent(after, event)
                /\ Recorded(event)
                /\ UNCHANGED <<pc, holder>>
  /\ UNCHANGED <<answer, writer, fileVars, faults, promise, round, history>>

\* sync returns.
Synced ==
  /\ \/ pc.recorder = "refused"
     \/ pc.recorder = "awaiting" /\ answer.recorder # "none"
  /\ promise' = IF pc.recorder = "awaiting" /\ answer.recorder = "true"
                THEN [records |-> Len(journal.admitted), pieces |-> Len(journal.observed)]
                ELSE promise
  /\ pc' = [pc EXCEPT !.recorder = "out"]
  /\ holder' = IF holder = "recorder" THEN Nobody ELSE holder
  /\ answer' = [answer EXCEPT !.recorder = "none"]
  /\ journal' = AfterEvent(journal, Head(todo))
  /\ Recorded(Head(todo))
  /\ UNCHANGED <<writer, fileVars, faults, round, current, history>>

-----------------------------------------------------------------------------
TurnStep ==
  \/ Begin \/ Say \/ EndWithTools \/ EndWithPause \/ Respond \/ Fail \/ Cancel
  \/ CancelRecorder \/ NoteInterruption \/ Record

Next ==
  \/ TurnStep \/ Synced
  \/ JournalStep /\ UNCHANGED turnVars

Spec == Init /\ [][Next]_vars

\* The event loop runs what is ready, and a thread ends what it was given.
Fairness ==
  /\ WF_vars(WriterStep /\ UNCHANGED turnVars)
  /\ WF_vars((Opened \/ PutEnd \/ PutClose \/ Closed) /\ UNCHANGED turnVars)
  /\ WF_vars(pc.host # "running" /\ Closes /\ UNCHANGED turnVars)
  /\ WF_vars(Locks /\ UNCHANGED turnVars)
  /\ \A t \in Clients : WF_vars(PutBarrier(t) /\ UNCHANGED turnVars)
  /\ WF_vars(Synced)

FairSpec == Spec /\ Fairness

-----------------------------------------------------------------------------
(* Properties.                                                             *)

\* What the end of the process, or of the machine, may leave of the file: the
\* durable lines and some prefix of the others.  What follows them is a part of
\* a line, and is not read.
Remains == {SubSeq(file, 1, n) : n \in durable..Len(file)}

\* The conversation that is recovered has every piece of text that was observed
\* before the last barrier, in a message or as the partial answer of a turn that
\* did not end, unless the turn failed and its text was given up.
ObservedIsDurable ==
  \A lines \in Remains :
    \A i \in 1..promise.pieces :
      \/ journal.observed[i] \in ToSet(TextIn(Recovered(lines)))
      \/ Holds(lines, Finished("failed"))

\* A barrier that has returned True, and a close without an error, have made
\* every record durable that was accepted before, the file's name included
\* (_journal.py:395-396), and every piece of text that waited in memory for a
\* checkpoint: whatever ends the process then, recovery tells it.
SyncedIsDurable ==
  /\ promise.records <= durable
  /\ promise.records > 0 => named
  /\ ObservedIsDurable

\* Whatever ends the process at whatever moment, and whichever operation on the
\* file has failed or was cut in the middle of a line before, what remains is
\* the beginning of what was accepted and can be recovered from.
RecoveryReadsIt ==
  \A lines \in Remains :
    /\ IsPrefix(lines, journal.admitted)
    /\ lines # <<>> => ~Fails(lines)

\* Who waits for a barrier or for the end of the journal does not wait for ever:
\* not behind a full queue, a failing file, a barrier that was given up or a
\* journal that is being closed.
BarriersReturn ==
  /\ pc.recorder # "out" ~> pc.recorder = "out"
  /\ pc.host \notin {"running", "closed", "cancelled"}
       ~> pc.host \in {"running", "closed", "cancelled"}

=============================================================================
