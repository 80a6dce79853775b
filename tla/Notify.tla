------------------------------- MODULE Notify -------------------------------
(***************************************************************************)
(* Notifications for one owner (axio/notify.py) and the detached calls     *)
(* whose completion they announce (axio/background.py).                    *)
(*                                                                         *)
(* While its owner is inside a turn scope a notification waits in the      *)
(* bucket's queue for the owner's next iteration; between turns it goes to *)
(* the bucket's listener, which enqueues it into the owner's inbox.        *)
(* Everything here is synchronous: each operator is one whole call.        *)
(***************************************************************************)
EXTENDS Naturals, Sequences, FiniteSets

CONSTANT Tasks       \* the detached calls the owner may start

VARIABLES
  queue,      \* the bucket's queue
  depth,      \* the turn scopes the owner is inside of
  listening,  \* whether the bucket has a listener
  inbox,      \* what the listener enqueues into
  task,       \* state of each detached call
  collected   \* BackgroundCall.collected

bucket == <<queue, depth, listening>>

Note(t) == [kind |-> "note", id |-> t]

\* What a listener has been called with, in order, for the entries in s.
Heard(s) == [i \in 1..Len(s) |-> Note(s[i])]

\* post: to an idle owner's listener, or to the queue.
Post(t) ==
  IF depth = 0 /\ listening
  THEN /\ inbox' = Append(inbox, Note(t))
       /\ UNCHANGED queue
  ELSE /\ queue' = Append(queue, t)
       /\ UNCHANGED inbox

\* Each definition named ..Mutant is a plausible mistake in the definition
\* that follows it, kept to show that the properties would notice.

RetractMutant(t) == UNCHANGED queue     \* nothing is taken back

\* The entries of s other than x, in their order.
Without(s, x) ==
  LET kept == {i \in 1..Len(s) : s[i] # x}
  IN [k \in 1..Cardinality(kept) |->
        s[CHOOSE i \in kept : Cardinality({j \in kept : j <= i}) = k]]

\* retract: only what is still queued can be taken back.
Retract(t) == queue' = Without(queue, t)

\* turn_scope, entered ...
EnterScope ==
  /\ depth' = depth + 1
  /\ UNCHANGED <<queue, listening, inbox>>

LeaveScopeDropsMutant ==   \* what the turn did not pick up is dropped
  /\ depth' = IF depth > 0 THEN depth - 1 ELSE 0
  /\ queue' = IF depth' = 0 /\ listening THEN << >> ELSE queue
  /\ UNCHANGED <<listening, inbox>>

\* ... and left: the outermost one hands the queue over to the listener.
LeaveScope ==
  /\ depth' = IF depth > 0 THEN depth - 1 ELSE 0
  /\ IF depth' = 0 /\ listening
     THEN /\ inbox' = inbox \o Heard(queue)
          /\ queue' = << >>
     ELSE UNCHANGED <<inbox, queue>>
  /\ UNCHANGED listening

\* discard: the bucket is forgotten.  A later post makes a new one, without
\* a listener.
DiscardBucket == queue' = << >> /\ depth' = 0 /\ listening' = FALSE

\* background.start, from a tool call that is to run detached.
Detach(t) ==
  /\ task[t] = "none"
  /\ task' = [task EXCEPT ![t] = "running"]
  /\ UNCHANGED <<bucket, inbox, collected>>

\* The call ends; its done callback is yet to be called.
TaskEnds(t) ==
  /\ task[t] = "running"
  /\ task' = [task EXCEPT ![t] = "finished"]
  /\ UNCHANGED <<bucket, inbox, collected>>

\* _on_done: a result nobody has collected yet is announced.
TaskSettles(t) ==
  /\ task[t] = "finished"
  /\ task' = [task EXCEPT ![t] = "settled"]
  /\ IF t \in collected THEN UNCHANGED <<queue, inbox>> ELSE Post(t)
  /\ UNCHANGED <<depth, listening, collected>>

\* describe, from whoever monitors the handle of a call that has ended.
Describe(t) ==
  /\ task[t] \in {"finished", "settled"} /\ t \notin collected
  /\ collected' = collected \cup {t}
  /\ Retract(t)
  /\ UNCHANGED <<depth, listening, inbox, task>>

=============================================================================
