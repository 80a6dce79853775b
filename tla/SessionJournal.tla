--------------------------- MODULE SessionJournal ---------------------------
(***************************************************************************)
(* A session's journal (axio_repl/_journal.py): a bounded queue of records *)
(* and barriers, a task that appends the records to a file and makes it    *)
(* durable at each barrier, and the fragments of text that wait to be      *)
(* folded into one record.                                                 *)
(*                                                                         *)
(* The recorder awaits a barrier after each event that has to be durable;  *)
(* the host opens the journal and closes it.                               *)
(***************************************************************************)
EXTENDS Recovery

CONSTANTS
  QueueSize,    \* records and barriers the queue holds
  MaxFaults     \* bound: operations on the file that fail

ASSUME JournalAssumptions == QueueSize \in Nat \ {0} /\ MaxFaults \in Nat

VARIABLES
  journal,   \* the queue, and the fields of SessionJournal
  pc,        \* what the recorder and the host wait for
  answer,    \* the result of each one's barrier
  holder,    \* who has _close_lock
  writer,    \* the operation the writer task waits for, and its item
  file,      \* the lines of the file
  torn,      \* whether an unterminated line follows them
  durable,   \* the lines that the last fsync has covered
  named,     \* whether the directory entries are durable
  faults,    \* faults so far
  promise    \* what the last barrier that returned True has covered

fileVars == <<file, torn, durable, named>>
journalVars == <<journal, pc, answer, holder, writer, fileVars, faults, promise>>

Clients == {"recorder", "host"}
Nobody == "nobody"

\* What the queue holds.
NoRecord == [seq |-> 0, event |-> Plain("none")]
RecordItem(record) == [do |-> "record", record |-> record, for |-> Nobody]
BarrierItem(t) == [do |-> "sync", record |-> NoRecord, for |-> t]
CloseItem == [do |-> "close", record |-> NoRecord, for |-> Nobody]

HasRoom(j) == Len(j.queue) < QueueSize

\* Refuses the record that finds the queue full, and nothing else: its number is
\* missing from the file.
EnqueuedMutant(j, event) ==
  IF ~j.accepting \/ j.degraded THEN j
  ELSE IF ~HasRoom(j) THEN [j EXCEPT !.next = @ + 1]
  ELSE LET record == [seq |-> j.next, event |-> event]
       IN [j EXCEPT !.queue = Append(@, RecordItem(record)), !.next = @ + 1,
                    !.admitted = Append(@, record)]

\* _enqueue_nowait: the journal after it; a record that finds the queue full
\* degrades the journal for good.
Enqueued(j, event) ==
  IF ~j.accepting \/ j.degraded THEN j
  ELSE IF ~HasRoom(j) THEN [j EXCEPT !.degraded = TRUE]
  ELSE LET record == [seq |-> j.next, event |-> event]
       IN [j EXCEPT !.queue = Append(@, RecordItem(record)), !.next = @ + 1,
                    !.admitted = Append(@, record)]

\* _flush_checkpoint_nowait
Flushed(j) ==
  IF j.text = <<>> THEN j
  ELSE LET after == Enqueued(j, Checkpoint(j.text))
       IN IF after.next = j.next THEN after
          ELSE [after EXCEPT !.text = <<>>, !.flushed = TRUE]

\* observe_stream_event: the first fragment of a turn is flushed, and others
\* when it is time or there is enough text.
Observed(j, piece, isTime) ==
  LET with == [j EXCEPT !.text = Append(@, piece), !.observed = Append(@, piece)]
  IN IF ~j.flushed \/ isTime THEN Flushed(with) ELSE with

\* finish_turn_checkpoint
Forgotten(j) == [j EXCEPT !.text = <<>>, !.flushed = FALSE]

\* open, up to its first await: session_start is queued, and its barrier waits
\* for room.
JournalInit ==
  /\ journal = LET new == [queue |-> <<>>, next |-> 1, accepting |-> TRUE, degraded |-> FALSE,
                           closed |-> FALSE, text |-> <<>>, flushed |-> FALSE,
                           admitted |-> <<>>, observed |-> <<>>]
               IN Enqueued(new, Plain("start"))
  /\ pc = [recorder |-> "out", host |-> "putting"]
  /\ answer = [t \in Clients |-> "none"]
  /\ holder = "host"
  /\ writer = [at |-> "idle", item |-> CloseItem]
  /\ file = <<>> /\ torn = FALSE /\ durable = 0 /\ named = FALSE
  /\ faults = 0
  /\ promise = [records |-> 0, pieces |-> 0]

-----------------------------------------------------------------------------
(* Barriers.                                                               *)

\* _close_lock is free, and the host is not the next one to get it.
LockIsFree == holder = Nobody /\ pc.host # "closing"

\* sync, called by the recorder on journal j: it gets the lock or waits for it,
\* and goes on with a barrier to put unless the journal is being closed.
CallSync(j) ==
  IF ~LockIsFree
  THEN journal' = j /\ pc' = [pc EXCEPT !.recorder = "locking"] /\ UNCHANGED holder
  ELSE IF ~j.accepting
  THEN journal' = j /\ pc' = [pc EXCEPT !.recorder = "refused"] /\ UNCHANGED holder
  ELSE /\ journal' = Flushed(j)
       /\ pc' = [pc EXCEPT !.recorder = "putting"]
       /\ holder' = "recorder"

\* The recorder gets the lock it has waited for.
Locks ==
  /\ pc.recorder = "locking" /\ LockIsFree
  /\ CallSync(journal)
  /\ UNCHANGED <<answer, writer, fileVars, faults, promise>>

PutBarrier(t) ==
  /\ pc[t] = "putting" /\ HasRoom(journal)
  /\ journal' = [journal EXCEPT !.queue = Append(@, BarrierItem(t))]
  /\ pc' = [pc EXCEPT ![t] = "awaiting"]
  /\ answer' = [answer EXCEPT ![t] = "none"]
  /\ UNCHANGED <<holder, writer, fileVars, faults, promise>>

\* t stops waiting, with a place to go to; its barrier stays where it is.
Leaves(t, place) ==
  /\ journal' = [journal EXCEPT !.queue = [i \in DOMAIN @ |->
                   IF @[i].for = t THEN [@[i] EXCEPT !.for = Nobody] ELSE @[i]]]
  /\ writer' = IF writer.item.for = t THEN [writer EXCEPT !.item.for = Nobody] ELSE writer
  /\ pc' = [pc EXCEPT ![t] = place]
  /\ holder' = IF holder = t THEN Nobody ELSE holder

-----------------------------------------------------------------------------
(* The writer task.                                                        *)

IsDegraded == [journal EXCEPT !.degraded = TRUE]

Fault ==
  /\ faults < MaxFaults
  /\ faults' = faults + 1
  /\ journal' = IsDegraded

\* The item in hand has been dealt with.
WriterIdle == writer' = [at |-> "idle", item |-> CloseItem]

\* The barrier in hand gets its result, unless nobody waits for it.
Resolves(result) ==
  LET t == writer.item.for
  IN answer' = IF t = Nobody THEN answer
               ELSE [answer EXCEPT ![t] = IF result THEN "true" ELSE "false"]

\* The next item of the queue; a degraded journal skips records.
WriterTakes ==
  /\ writer.at = "idle" /\ journal.queue # <<>>
  /\ LET item == Head(journal.queue)
     IN writer' = CASE item.do = "sync" -> [at |-> "fsync", item |-> item]
                    [] item.do = "close" -> [at |-> "finally", item |-> item]
                    [] OTHER -> IF journal.degraded THEN writer
                                ELSE [at |-> "append", item |-> item]
  /\ journal' = [journal EXCEPT !.queue = Tail(@)]
  /\ UNCHANGED <<pc, answer, holder, fileVars, faults, promise>>

\* A line that continues an unterminated one cannot be read.
Garbage == [seq |-> 0, event |-> Plain("garbage")]
Appended(record) ==
  /\ file' = Append(file, IF torn THEN Garbage ELSE record)
  /\ torn' = FALSE

\* A record that could not be written is dropped, and the next one is tried.
WriterAppendsMutant ==
  /\ writer.at = "append"
  /\ \/ Appended(writer.item.record) /\ UNCHANGED <<journal, faults>>
     \/ /\ faults < MaxFaults /\ faults' = faults + 1
        /\ \/ UNCHANGED torn
           \/ torn' = TRUE
        /\ UNCHANGED <<file, journal>>
  /\ WriterIdle
  /\ UNCHANGED <<pc, answer, holder, durable, named, promise>>

\* A record is encoded and appended, or something of that fails, which may leave
\* a part of the line.
WriterAppends ==
  /\ writer.at = "append"
  /\ \/ Appended(writer.item.record) /\ UNCHANGED <<journal, faults>>
     \/ /\ Fault
        /\ \/ UNCHANGED torn
           \/ torn' = TRUE
        /\ UNCHANGED file
  /\ WriterIdle
  /\ UNCHANGED <<pc, answer, holder, durable, named, promise>>

\* An fsync that fails leaves the barrier without a result.
WriterSyncsMutant ==
  /\ writer.at = "fsync"
  /\ \/ /\ durable' = Len(file)
        /\ IF named THEN WriterIdle /\ Resolves(~journal.degraded)
           ELSE writer' = [writer EXCEPT !.at = "chain"] /\ UNCHANGED answer
        /\ UNCHANGED <<journal, faults>>
     \/ /\ Fault /\ WriterIdle
        /\ UNCHANGED <<durable, answer>>
  /\ UNCHANGED <<pc, holder, file, torn, named, promise>>

\* fsync of the file; the first barrier goes on to its directories.
WriterSyncs ==
  /\ writer.at = "fsync"
  /\ \/ /\ durable' = Len(file)
        /\ IF named THEN WriterIdle /\ Resolves(~journal.degraded)
           ELSE writer' = [writer EXCEPT !.at = "chain"] /\ UNCHANGED answer
        /\ UNCHANGED <<journal, faults>>
     \/ /\ Fault /\ WriterIdle /\ Resolves(FALSE)
        /\ UNCHANGED durable
  /\ UNCHANGED <<pc, holder, file, torn, named, promise>>

\* fsync of the directories down to one that existed before.
WriterSyncsDirectories ==
  /\ writer.at = "chain"
  /\ \/ named' = TRUE /\ Resolves(~journal.degraded) /\ UNCHANGED <<journal, faults>>
     \/ Fault /\ Resolves(FALSE) /\ UNCHANGED named
  /\ WriterIdle
  /\ UNCHANGED <<pc, holder, file, torn, durable, promise>>

\* The task ends with an fsync and closes the file.
WriterEnds ==
  /\ writer.at = "finally"
  /\ \/ durable' = Len(file) /\ UNCHANGED <<journal, faults>>
     \/ Fault /\ UNCHANGED durable
  /\ writer' = [at |-> "over", item |-> CloseItem]
  /\ UNCHANGED <<pc, answer, holder, file, torn, named, promise>>

-----------------------------------------------------------------------------
(* The host.                                                               *)

\* open returns, or closes what it has opened.
Opened ==
  /\ pc.host = "awaiting" /\ answer.host # "none"
  /\ pc' = [pc EXCEPT !.host = IF answer.host = "true" THEN "running" ELSE "unopened"]
  /\ promise' = IF answer.host = "true" THEN [promise EXCEPT !.records = 1] ELSE promise
  /\ holder' = Nobody
  /\ answer' = [answer EXCEPT !.host = "none"]
  /\ UNCHANGED <<journal, writer, fileVars, faults>>

\* close: flushes, accepts nothing more, and goes on to put session_end.  The
\* host has unsubscribed the recorder; what was published before reaches it still.
Closes ==
  /\ pc.host \in {"running", "unopened", "closing"}
  /\ IF holder # Nobody
     THEN /\ pc.host = "running"
          /\ pc' = [pc EXCEPT !.host = "closing"]
          /\ UNCHANGED <<journal, holder>>
     ELSE LET j == Flushed(journal)
          IN /\ journal' = [j EXCEPT !.accepting = FALSE]
             /\ pc' = [pc EXCEPT !.host = IF j.degraded THEN "last" ELSE "ending"]
             /\ holder' = "host"
  /\ UNCHANGED <<answer, writer, fileVars, faults, promise>>

PutEnd ==
  /\ pc.host = "ending" /\ HasRoom(journal)
  /\ LET record == [seq |-> journal.next, event |-> Plain("end")]
     IN journal' = [journal EXCEPT !.queue = Append(@, RecordItem(record)), !.next = @ + 1,
                                   !.admitted = Append(@, record)]
  /\ pc' = [pc EXCEPT !.host = "last"]
  /\ UNCHANGED <<answer, holder, writer, fileVars, faults, promise>>

PutClose ==
  /\ pc.host = "last" /\ HasRoom(journal)
  /\ journal' = [journal EXCEPT !.queue = Append(@, CloseItem)]
  /\ pc' = [pc EXCEPT !.host = "joining"]
  /\ UNCHANGED <<answer, holder, writer, fileVars, faults, promise>>

\* The writer task is over, and close returns.
Closed ==
  /\ pc.host = "joining" /\ writer.at = "over"
  /\ journal' = [journal EXCEPT !.closed = TRUE]
  /\ pc' = [pc EXCEPT !.host = "closed"]
  /\ holder' = Nobody
  /\ promise' = IF journal.degraded THEN promise
                ELSE [records |-> Len(journal.admitted), pieces |-> Len(journal.observed)]
  /\ UNCHANGED <<answer, writer, fileVars, faults>>

\* The host is cancelled while it waits in close.  A cancelled wait for the
\* writer task cancels that task: what its thread was appending may be there,
\* or not, or a part of it.
CloseCancelled ==
  /\ pc.host \in {"closing", "ending", "last", "joining"}
  /\ pc' = [pc EXCEPT !.host = "cancelled"]
  /\ holder' = IF holder = "host" THEN Nobody ELSE holder
  /\ IF pc.host = "joining" /\ writer.at # "over"
     THEN /\ writer' = [at |-> "finally", item |-> CloseItem]
          /\ \/ UNCHANGED <<file, torn>>
             \/ writer.at = "append" /\ Appended(writer.item.record)
             \/ writer.at = "append" /\ torn' = TRUE /\ UNCHANGED file
     ELSE UNCHANGED <<writer, file, torn>>
  /\ UNCHANGED <<journal, answer, durable, named, faults, promise>>

WriterStep ==
  \/ WriterTakes \/ WriterAppends \/ WriterSyncs \/ WriterSyncsDirectories \/ WriterEnds

HostStep == Opened \/ Closes \/ PutEnd \/ PutClose \/ Closed

JournalStep ==
  \/ WriterStep \/ HostStep \/ CloseCancelled
  \/ Locks \/ \E t \in Clients : PutBarrier(t)

=============================================================================
