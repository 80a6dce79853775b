------------------------------ MODULE Recovery ------------------------------
(***************************************************************************)
(* What materialize_recovery (axio_repl/_recovery.py) makes of the records *)
(* a journal's file holds, for the turn of the main agent.                 *)
(*                                                                         *)
(* A record is its storage sequence and the event it carries.  Pieces of   *)
(* text are told apart by what they are, not by what they say.             *)
(***************************************************************************)
EXTENDS Naturals, SequencesExt

\* The events a record can carry.
Plain(kind) == [kind |-> kind, role |-> "none", text |-> <<>>, status |-> "none"]
Checkpoint(text) == [Plain("checkpoint") EXCEPT !.text = text]
Committed(role, text) == [kind |-> "message", role |-> role, text |-> text, status |-> "none"]
Finished(status) == [Plain("finished") EXCEPT !.status = status]
Notice == Committed("notice", <<>>)

Holds(records, event) == \E i \in DOMAIN records : records[i].event = event

\* materialize_recovery raises a RecoveryError.
Fails(records) ==
  \/ records = <<>>
  \/ \E i \in DOMAIN records :
       \/ records[i].seq # i
       \/ /\ records[i].event.kind = "started"
          /\ \E j \in 1..(i - 1) : records[j].event.kind = "started"
       \/ /\ records[i].event.kind = "finished"
          /\ \A j \in 1..(i - 1) : records[j].event.kind # "started"

\* Takes a checkpoint for all the text so far.
Fragments(records) ==
  FlattenSeq([i \in DOMAIN records |->
    IF records[i].event.kind = "checkpoint" THEN records[i].event.text ELSE <<>>])

\* The turn has begun, and neither has it run to its end nor has the notice of
\* its interruption been stored.
Unfinished(records) ==
  /\ Holds(records, Plain("started"))
  /\ ~Holds(records, Finished("succeeded")) /\ ~Holds(records, Finished("failed"))
  /\ ~Holds(records, Notice)

\* The committed messages, in order.
Messages(records) ==
  FlattenSeq([i \in DOMAIN records |->
    IF records[i].event.kind = "message" THEN <<records[i].event>> ELSE <<>>])

\* The conversation that the next session begins with.
Recovered(records) ==
  LET text == Fragments(records)
      partial == IF text = <<>> \/ Holds(records, Committed("assistant", text)) THEN <<>>
                 ELSE <<Committed("assistant", text)>>
  IN IF Unfinished(records) THEN Messages(records) \o partial \o <<Notice>> ELSE Messages(records)

\* The text in a conversation.
TextIn(messages) == FlattenSeq([i \in DOMAIN messages |-> messages[i].text])

=============================================================================
