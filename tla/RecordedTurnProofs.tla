------------------------- MODULE RecordedTurnProofs -------------------------
(***************************************************************************)
(* What a recorded turn leaves on disk, for a turn of any length, a queue  *)
(* of any size and any number of faults.                                   *)
(*                                                                         *)
(* The pipe: what was accepted is in the file, in the writer's hand or in  *)
(* the queue, in its order, until a fault ends it; nothing is appended     *)
(* after a line that was not finished.  The turn: what recovery refuses is *)
(* never accepted.  A barrier: what it has promised is in the lines that   *)
(* the last fsync covers, and recovery tells it.                           *)
(***************************************************************************)
EXTENDS RecordedTurn, NaturalsLemmas, SequenceTheorems

-----------------------------------------------------------------------------
(* What there is.                                                          *)

Pieces == Nat \X Nat
Kinds == {"none", "start", "started", "checkpoint", "message", "result", "finished", "end", "garbage"}
Roles == {"none", "user", "assistant", "results", "notice"}
Statuses == {"none", "succeeded", "failed", "cancelled"}
Events == [kind : Kinds, role : Roles, text : Seq(Pieces), status : Statuses]
Records == [seq : Nat, event : Events]
Items == [do : {"record", "sync", "close"}, record : Records, for : Clients \cup {Nobody}]
Journals ==
  [queue : Seq(Items), next : Nat, accepting : BOOLEAN, degraded : BOOLEAN, closed : BOOLEAN,
   text : Seq(Pieces), flushed : BOOLEAN, admitted : Seq(Records), observed : Seq(Pieces)]

Writers == [at : {"idle", "append", "fsync", "chain", "finally", "over"}, item : Items]
Places == {"out", "locking", "refused", "putting", "awaiting", "running", "unopened", "closing",
           "ending", "last", "joining", "closed", "cancelled"}

JournalTypes ==
  /\ journal \in Journals
  /\ pc \in [Clients -> Places]
  /\ answer \in [Clients -> {"none", "true", "false"}]
  /\ holder \in Clients \cup {Nobody}
  /\ writer \in Writers
  /\ file \in Seq(Records)
  /\ torn \in BOOLEAN /\ durable \in Nat /\ named \in BOOLEAN
  /\ faults \in Nat
  /\ promise \in [records : Nat, pieces : Nat]

TurnTypes ==
  /\ phase \in {"before", "streaming", "ending", "unwinding", "over"}
  /\ todo \in Seq(Events)
  /\ round \in [n : Nat, text : Seq(Pieces)]
  /\ current \in Seq(Pieces)
  /\ history \in Seq(Events)

-----------------------------------------------------------------------------
(* The pipe.                                                               *)

\* The records in queue q are those of adm that come after the first base.
QueueFits(q, adm, base) ==
  /\ \A i \in 1..Len(q) : q[i].do = "record" =>
       /\ q[i].record.seq \in (base + 1)..Len(adm)
       /\ q[i].record = adm[q[i].record.seq]
  /\ \A i, j \in 1..Len(q) :
       i < j /\ q[i].do = "record" /\ q[j].do = "record" => q[i].record.seq < q[j].record.seq
  /\ \A k \in (base + 1)..Len(adm) :
       \E i \in 1..Len(q) : q[i].do = "record" /\ q[i].record.seq = k

\* The records that the writer w has taken, if file f is what it has written.
Base(w, f) == IF w.at = "append" THEN Len(f) + 1 ELSE Len(f)

\* The numbers are given out without a gap.
Numbered(j) ==
  /\ j.next = Len(j.admitted) + 1
  /\ \A i \in 1..Len(j.admitted) : j.admitted[i].seq = i

\* The file is the beginning of what was accepted.
Written(j, f) ==
  /\ Len(f) <= Len(j.admitted)
  /\ \A i \in 1..Len(f) : f[i] = j.admitted[i]

\* What the writer is about to append is the next line.
InHand(j, w, f, tn) ==
  w.at = "append" => /\ ~tn /\ Len(f) < Len(j.admitted)
                     /\ w.item.record = j.admitted[Len(f) + 1]

Flows(j, w, f, tn) ==
  ~j.degraded /\ w.at \notin {"finally", "over"} =>
    ~tn /\ QueueFits(j.queue, j.admitted, Base(w, f))

Pipe(j, w, f, tn) == Numbered(j) /\ Written(j, f) /\ InHand(j, w, f, tn) /\ Flows(j, w, f, tn)

PipeInv == Pipe(journal, writer, file, torn) /\ durable <= Len(file)

-----------------------------------------------------------------------------
(* The turn.                                                               *)

HasStarted(j) == \E i \in 1..Len(j.admitted) : j.admitted[i].event.kind = "started"

\* The journal takes no record of an event any more.
Deaf(j) == j.degraded \/ ~j.accepting

\* A turn starts once, and ends after it has started.
Begun(j) ==
  /\ \A i, k \in 1..Len(j.admitted) :
       j.admitted[i].event.kind = "started" /\ j.admitted[k].event.kind = "started" => i = k
  /\ \A i \in 1..Len(j.admitted) : j.admitted[i].event.kind = "finished" =>
       \E k \in 1..(i - 1) : j.admitted[k].event.kind = "started"

\* The start of the turn is published first, and recorded if anything is.
StartInv ==
  /\ Begun(journal)
  /\ phase = "before" => todo = <<>> /\ ~HasStarted(journal)
  /\ todo # <<>> /\ Head(todo).kind = "started" => ~HasStarted(journal)
  /\ \A i \in 2..Len(todo) : todo[i].kind # "started"
  /\ phase # "before" =>
       \/ HasStarted(journal) \/ Deaf(journal)
       \/ todo # <<>> /\ Head(todo).kind = "started"

\* While the recorder waits for a barrier, the event that needs it is in hand.
RecorderInv == pc.recorder # "out" => todo # <<>> /\ Durable(Head(todo))

RecordedInv == JournalTypes /\ TurnTypes /\ PipeInv /\ StartInv /\ RecorderInv

-----------------------------------------------------------------------------
(* Events and records.                                                     *)

\* The events that are published are events.
LEMMA EventIs ==
  /\ \A k \in Kinds : Plain(k) \in Events /\ Plain(k).kind = k /\ Plain(k).text = <<>>
  /\ \A t \in Seq(Pieces) : /\ Checkpoint(t) \in Events
                            /\ Checkpoint(t).kind = "checkpoint" /\ Checkpoint(t).text = t
  /\ \A r \in Roles, t \in Seq(Pieces) :
       /\ Committed(r, t) \in Events
       /\ Committed(r, t).kind = "message" /\ Committed(r, t).role = r /\ Committed(r, t).text = t
  /\ \A s \in Statuses : /\ Finished(s) \in Events
                         /\ Finished(s).kind = "finished" /\ Finished(s).status = s
                         /\ Finished(s).text = <<>>
  /\ Notice \in Events /\ Notice.kind = "message" /\ Notice.role = "notice" /\ Notice.text = <<>>
<1>1. <<>> \in Seq(Pieces)
  OBVIOUS
<1>2. ASSUME NEW k \in Kinds
      PROVE  Plain(k) \in Events /\ Plain(k).kind = k /\ Plain(k).text = <<>>
  BY <1>1 DEF Plain, Events, Roles, Statuses
<1>3. ASSUME NEW t \in Seq(Pieces)
      PROVE  Checkpoint(t) \in Events /\ Checkpoint(t).kind = "checkpoint" /\ Checkpoint(t).text = t
  <2>1. Checkpoint(t) = [kind |-> "checkpoint", role |-> "none", text |-> t, status |-> "none"]
    BY DEF Checkpoint, Plain
  <2> QED
    BY <2>1 DEF Events, Kinds, Roles, Statuses
<1>4. ASSUME NEW r \in Roles, NEW t \in Seq(Pieces)
      PROVE  /\ Committed(r, t) \in Events
             /\ Committed(r, t).kind = "message" /\ Committed(r, t).role = r
             /\ Committed(r, t).text = t
  BY DEF Committed, Events, Kinds, Statuses
<1>5. ASSUME NEW s \in Statuses
      PROVE  /\ Finished(s) \in Events
             /\ Finished(s).kind = "finished" /\ Finished(s).status = s
             /\ Finished(s).text = <<>>
  <2>1. Finished(s) = [kind |-> "finished", role |-> "none", text |-> <<>>, status |-> s]
    BY DEF Finished, Plain
  <2> QED
    BY <1>1, <2>1 DEF Events, Kinds, Roles
<1> QED
  BY <1>1, <1>2, <1>3, <1>4, <1>5 DEF Notice, Roles

\* What an item of the queue is made of is an item.
LEMMA ItemIs ==
  /\ \A r \in Records : /\ RecordItem(r) \in Items
                        /\ RecordItem(r).do = "record" /\ RecordItem(r).record = r
                        /\ RecordItem(r).for = Nobody
  /\ \A t \in Clients : /\ BarrierItem(t) \in Items
                        /\ BarrierItem(t).do = "sync" /\ BarrierItem(t).for = t
  /\ CloseItem \in Items /\ CloseItem.do = "close" /\ CloseItem.for = Nobody
  /\ Garbage \in Records
<1>1. NoRecord \in Records /\ Garbage \in Records
  BY EventIs DEF NoRecord, Garbage, Records, Kinds
<1> QED
  BY <1>1 DEF RecordItem, BarrierItem, CloseItem, Items

-----------------------------------------------------------------------------
(* What the operations make of the journal.                                *)

NewRecord(j, e) == [seq |-> j.next, event |-> e]

\* Journal k has no record that j has not, ..
Refuses(j, k) ==
  /\ k.queue = j.queue /\ k.admitted = j.admitted /\ k.next = j.next
  /\ k.accepting = j.accepting /\ (j.degraded => k.degraded)

\* .. or that of event e, which it has accepted.
Accepts(j, k, e) ==
  /\ j.accepting /\ ~j.degraded /\ k.accepting /\ ~k.degraded
  /\ k.queue = Append(j.queue, RecordItem(NewRecord(j, e)))
  /\ k.admitted = Append(j.admitted, NewRecord(j, e))
  /\ k.next = j.next + 1

\* A record is numbered by the journal.
LEMMA NewRecordIs ==
  ASSUME NEW j \in Journals, NEW e \in Events
  PROVE  NewRecord(j, e) \in Records /\ NewRecord(j, e).event = e /\ NewRecord(j, e).seq = j.next
BY DEF NewRecord, Records, Journals

\* An event is accepted, or the journal is deaf.
LEMMA EnqueuedIs ==
  ASSUME NEW j \in Journals, NEW e \in Events, NEW k, k = Enqueued(j, e)
  PROVE  /\ k \in Journals
         /\ k.text = j.text /\ k.flushed = j.flushed
         /\ k.observed = j.observed /\ k.closed = j.closed
         /\ (Refuses(j, k) /\ Deaf(k)) \/ Accepts(j, k, e)
<1>1. CASE ~j.accepting \/ j.degraded
  BY <1>1 DEF Enqueued, Refuses, Deaf, Journals
<1>2. CASE j.accepting /\ ~j.degraded /\ ~HasRoom(j)
  <2>1. k = [j EXCEPT !.degraded = TRUE]
    BY <1>2 DEF Enqueued
  <2> QED
    BY <2>1 DEF Refuses, Deaf, Journals
<1>3. CASE j.accepting /\ ~j.degraded /\ HasRoom(j)
  <2> DEFINE r == NewRecord(j, e)
             q == Append(j.queue, RecordItem(r))
             a == Append(j.admitted, r)
  <2>1. k = [j EXCEPT !.queue = q, !.next = j.next + 1, !.admitted = a]
    BY <1>3 DEF Enqueued, NewRecord
  <2>2. r \in Records /\ RecordItem(r) \in Items
    BY NewRecordIs, ItemIs
  <2>3. q \in Seq(Items) /\ a \in Seq(Records) /\ j.next + 1 \in Nat
    BY <2>2 DEF Journals
  <2>4. /\ q = Append(j.queue, RecordItem(NewRecord(j, e)))
        /\ a = Append(j.admitted, NewRecord(j, e))
    OBVIOUS
  <2> HIDE DEF r, q, a
  <2>5. k = [queue |-> q, next |-> j.next + 1, accepting |-> j.accepting, degraded |-> j.degraded,
             closed |-> j.closed, text |-> j.text, flushed |-> j.flushed, admitted |-> a,
             observed |-> j.observed]
    BY <2>1 DEF Journals
  <2>6. k \in Journals
    BY <2>3, <2>5 DEF Journals
  <2> QED
    BY <1>3, <2>4, <2>5, <2>6 DEF Accepts
<1> QED
  BY <1>1, <1>2, <1>3 DEF Journals

\* The text that waits is accepted as a checkpoint, or the journal is deaf.
LEMMA FlushedIs ==
  ASSUME NEW j \in Journals, NEW k, k = Flushed(j)
  PROVE  /\ k \in Journals
         /\ k.observed = j.observed /\ k.closed = j.closed
         /\ \/ j.text = <<>> /\ k = j
            \/ j.text # <<>> /\ Refuses(j, k) /\ Deaf(k) /\ k.text = j.text
            \/ j.text # <<>> /\ Accepts(j, k, Checkpoint(j.text)) /\ k.text = <<>>
<1>1. CASE j.text = <<>>
  BY <1>1 DEF Flushed
<1>2. CASE j.text # <<>>
  <2> DEFINE m == Enqueued(j, Checkpoint(j.text))
  <2>1. j.text \in Seq(Pieces) /\ Checkpoint(j.text) \in Events /\ j.next \in Nat
    BY EventIs DEF Journals
  <2>2. /\ m \in Journals
        /\ m.text = j.text /\ m.observed = j.observed /\ m.closed = j.closed
        /\ (Refuses(j, m) /\ Deaf(m)) \/ Accepts(j, m, Checkpoint(j.text))
    BY <2>1, EnqueuedIs
  <2>3. k = IF m.next = j.next THEN m ELSE [m EXCEPT !.text = <<>>, !.flushed = TRUE]
    BY <1>2 DEF Flushed
  <2> HIDE DEF m
  <2>4. CASE Refuses(j, m) /\ Deaf(m)
    <3>1. k = m
      BY <2>3, <2>4 DEF Refuses
    <3> QED
      BY <1>2, <2>2, <2>4, <3>1
  <2>5. CASE Accepts(j, m, Checkpoint(j.text))
    <3>1. k = [m EXCEPT !.text = <<>>, !.flushed = TRUE]
      BY <2>1, <2>3, <2>5 DEF Accepts
    <3>2. k = [queue |-> m.queue, next |-> m.next, accepting |-> m.accepting,
               degraded |-> m.degraded, closed |-> m.closed, text |-> <<>>, flushed |-> TRUE,
               admitted |-> m.admitted, observed |-> m.observed]
      BY <2>2, <3>1 DEF Journals
    <3>3. <<>> \in Seq(Pieces)
      OBVIOUS
    <3>4. k \in Journals
      BY <2>2, <3>2, <3>3 DEF Journals
    <3> QED
      BY <1>2, <2>2, <2>5, <3>2, <3>4 DEF Accepts
  <2> QED
    BY <2>2, <2>4, <2>5
<1> QED
  BY <1>1, <1>2

\* A piece of text waits with the others, or is accepted with them.
LEMMA ObservedIs ==
  ASSUME NEW j \in Journals, NEW piece \in Pieces, NEW isTime \in BOOLEAN, NEW k,
         k = Observed(j, piece, isTime)
  PROVE  /\ k \in Journals
         /\ k.observed = Append(j.observed, piece) /\ k.closed = j.closed
         /\ \/ Refuses(j, k) /\ k.text = Append(j.text, piece)
            \/ Accepts(j, k, Checkpoint(Append(j.text, piece))) /\ k.text = <<>>
<1> DEFINE t == Append(j.text, piece)
           o == Append(j.observed, piece)
<1>1. t \in Seq(Pieces) /\ o \in Seq(Pieces) /\ t # <<>>
  BY DEF Journals
<1>2. PICK w : w = [j EXCEPT !.text = t, !.observed = o]
  OBVIOUS
<1>3. k = IF ~j.flushed \/ isTime THEN Flushed(w) ELSE w
  BY <1>2 DEF Observed, Journals
<1> HIDE DEF t, o
<1>4. w = [queue |-> j.queue, next |-> j.next, accepting |-> j.accepting, degraded |-> j.degraded,
           closed |-> j.closed, text |-> t, flushed |-> j.flushed, admitted |-> j.admitted,
           observed |-> o]
  BY <1>2 DEF Journals
<1>5. w \in Journals
  BY <1>1, <1>4 DEF Journals
<1>6. /\ w.queue = j.queue /\ w.admitted = j.admitted /\ w.next = j.next
      /\ w.accepting = j.accepting /\ w.degraded = j.degraded
      /\ w.text = t /\ w.observed = o /\ w.closed = j.closed
  BY <1>4
<1>7. CASE k = w
  BY <1>5, <1>6, <1>7 DEF Refuses, t, o
<1>8. CASE k = Flushed(w)
  <2>1. /\ k \in Journals /\ k.observed = o /\ k.closed = j.closed
        /\ \/ Refuses(w, k) /\ k.text = t
           \/ Accepts(w, k, Checkpoint(t)) /\ k.text = <<>>
    BY <1>1, <1>5, <1>6, <1>8, FlushedIs
  <2>2. Refuses(w, k) => Refuses(j, k)
    BY <1>6 DEF Refuses
  <2>3. Accepts(w, k, Checkpoint(t)) => Accepts(j, k, Checkpoint(t))
    BY <1>6 DEF Accepts, NewRecord
  <2> QED
    BY <2>1, <2>2, <2>3 DEF t, o
<1>9. k = w \/ k = Flushed(w)
  BY <1>3
<1> QED
  BY <1>7, <1>8, <1>9

\* The fragments of a turn are forgotten, and nothing else.
LEMMA ForgottenIs ==
  ASSUME NEW j \in Journals, NEW k, k = Forgotten(j)
  PROVE  /\ k \in Journals /\ Refuses(j, k) /\ k.degraded = j.degraded
         /\ k.text = <<>> /\ k.observed = j.observed /\ k.closed = j.closed
<1>1. k = [queue |-> j.queue, next |-> j.next, accepting |-> j.accepting, degraded |-> j.degraded,
           closed |-> j.closed, text |-> <<>>, flushed |-> FALSE, admitted |-> j.admitted,
           observed |-> j.observed]
  BY DEF Forgotten, Journals
<1>2. <<>> \in Seq(Pieces)
  OBVIOUS
<1> QED
  BY <1>1, <1>2 DEF Journals, Refuses

-----------------------------------------------------------------------------
(* The pipe goes on.                                                       *)

\* A journal that takes no record has the same pipe.
LEMMA PipeRefuses ==
  ASSUME NEW j \in Journals, NEW k \in Journals, NEW w, NEW f \in Seq(Records), NEW tn,
         Refuses(j, k), Pipe(j, w, f, tn)
  PROVE  Pipe(k, w, f, tn)
<1>1. Numbered(k)
  BY DEF Pipe, Numbered, Refuses
<1>2. Written(k, f)
  BY DEF Pipe, Written, Refuses
<1>3. InHand(k, w, f, tn)
  BY DEF Pipe, InHand, Refuses
<1>4. Flows(k, w, f, tn)
  BY DEF Pipe, Flows, Refuses
<1> QED
  BY <1>1, <1>2, <1>3, <1>4 DEF Pipe

\* A record that is accepted joins the end of the pipe.
LEMMA QueueAccepts ==
  ASSUME NEW q \in Seq(Items), NEW a \in Seq(Records), NEW r \in Records, NEW b \in Nat,
         r.seq = Len(a) + 1, b <= Len(a), QueueFits(q, a, b)
  PROVE  QueueFits(Append(q, RecordItem(r)), Append(a, r), b)
<1> DEFINE p == Append(q, RecordItem(r))
           c == Append(a, r)
<1>1. RecordItem(r) \in Items /\ RecordItem(r).do = "record" /\ RecordItem(r).record = r
  BY ItemIs
<1>2. /\ Len(p) = Len(q) + 1 /\ p[Len(q) + 1] = RecordItem(r) /\ Len(q) \in Nat
      /\ \A i \in 1..Len(q) : p[i] = q[i]
  BY <1>1
<1>3. /\ Len(c) = Len(a) + 1 /\ c[Len(a) + 1] = r /\ Len(a) \in Nat
      /\ \A i \in 1..Len(a) : c[i] = a[i]
  OBVIOUS
<1> HIDE DEF p, c
<1>4. \A i \in 1..Len(p) : i \in 1..Len(q) \/ i = Len(q) + 1
  BY <1>2
<1>5. \A i \in 1..Len(p) : p[i].do = "record" =>
        p[i].record.seq \in (b + 1)..Len(c) /\ p[i].record = c[p[i].record.seq]
  <2> SUFFICES ASSUME NEW i \in 1..Len(p), p[i].do = "record"
               PROVE  p[i].record.seq \in (b + 1)..Len(c) /\ p[i].record = c[p[i].record.seq]
    OBVIOUS
  <2>1. CASE i = Len(q) + 1
    BY <1>1, <1>2, <1>3, <2>1
  <2>2. CASE i \in 1..Len(q)
    <3>1. q[i].record.seq \in (b + 1)..Len(a) /\ q[i].record = a[q[i].record.seq]
      BY <1>2, <2>2 DEF QueueFits
    <3> QED
      BY <1>2, <1>3, <2>2, <3>1
  <2> QED
    BY <1>4, <2>1, <2>2
<1>6. \A i, k \in 1..Len(p) :
        i < k /\ p[i].do = "record" /\ p[k].do = "record" => p[i].record.seq < p[k].record.seq
  <2> SUFFICES ASSUME NEW i \in 1..Len(p), NEW k \in 1..Len(p), i < k,
                      p[i].do = "record", p[k].do = "record"
               PROVE  p[i].record.seq < p[k].record.seq
    OBVIOUS
  <2>1. i \in 1..Len(q)
    BY <1>2
  <2>2. CASE k = Len(q) + 1
    <3>1. q[i].record.seq \in (b + 1)..Len(a)
      BY <1>2, <2>1 DEF QueueFits
    <3> QED
      BY <1>1, <1>2, <1>3, <2>1, <2>2, <3>1
  <2>3. CASE k \in 1..Len(q)
    BY <1>2, <2>1, <2>3 DEF QueueFits
  <2> QED
    BY <1>4, <2>2, <2>3
<1>7. \A n \in (b + 1)..Len(c) : \E i \in 1..Len(p) : p[i].do = "record" /\ p[i].record.seq = n
  <2> SUFFICES ASSUME NEW n \in (b + 1)..Len(c)
               PROVE  \E i \in 1..Len(p) : p[i].do = "record" /\ p[i].record.seq = n
    OBVIOUS
  <2>1. CASE n = Len(a) + 1
    <3>1. Len(q) + 1 \in 1..Len(p)
      BY <1>2
    <3> QED
      BY <1>1, <1>2, <2>1, <3>1
  <2>2. CASE n \in (b + 1)..Len(a)
    <3>1. PICK i \in 1..Len(q) : q[i].do = "record" /\ q[i].record.seq = n
      BY <2>2 DEF QueueFits
    <3>2. i \in 1..Len(p) /\ p[i] = q[i]
      BY <1>2, <3>1
    <3> QED
      BY <3>1, <3>2
  <2> QED
    BY <1>3, <2>1, <2>2
<1>8. QueueFits(p, c, b)
  BY <1>5, <1>6, <1>7 DEF QueueFits
<1> QED
  BY <1>8 DEF p, c

\* So does the pipe go on with it, if the journal was not degraded before.
LEMMA PipeAppends ==
  ASSUME NEW j \in Journals, NEW k \in Journals, NEW e \in Events, NEW w, NEW f \in Seq(Records),
         NEW tn, Pipe(j, w, f, tn), j.degraded => k.degraded,
         k.queue = Append(j.queue, RecordItem(NewRecord(j, e))),
         k.admitted = Append(j.admitted, NewRecord(j, e)), k.next = j.next + 1
  PROVE  Pipe(k, w, f, tn)
<1> DEFINE r == NewRecord(j, e)
<1>1. r \in Records /\ r.seq = Len(j.admitted) + 1
  BY NewRecordIs DEF Pipe, Numbered
<1>2. /\ j.admitted \in Seq(Records) /\ j.queue \in Seq(Items)
      /\ k.admitted = Append(j.admitted, r) /\ k.queue = Append(j.queue, RecordItem(r))
      /\ k.next = j.next + 1 /\ j.next = Len(j.admitted) + 1
  BY DEF Journals, Pipe, Numbered
<1> HIDE DEF r
<1>3. /\ Len(k.admitted) = Len(j.admitted) + 1 /\ k.admitted[Len(j.admitted) + 1] = r
      /\ \A i \in 1..Len(j.admitted) : k.admitted[i] = j.admitted[i]
      /\ Len(j.admitted) \in Nat /\ Len(f) \in Nat
  BY <1>1, <1>2
<1>4. Numbered(k)
  <2>1. \A i \in 1..Len(k.admitted) : i \in 1..Len(j.admitted) \/ i = Len(j.admitted) + 1
    BY <1>3
  <2>2. \A i \in 1..Len(j.admitted) : j.admitted[i].seq = i
    BY DEF Pipe, Numbered
  <2>3. \A i \in 1..Len(k.admitted) : k.admitted[i].seq = i
    BY <1>1, <1>3, <2>1, <2>2
  <2>4. k.next = Len(k.admitted) + 1
    BY <1>2, <1>3
  <2> QED
    BY <2>3, <2>4 DEF Numbered
<1>5. Written(k, f)
  <2>1. Len(f) <= Len(j.admitted) /\ \A i \in 1..Len(f) : f[i] = j.admitted[i]
    BY DEF Pipe, Written
  <2>2. \A i \in 1..Len(f) : i \in 1..Len(j.admitted)
    BY <1>3, <2>1
  <2>3. Len(f) <= Len(k.admitted)
    BY <1>3, <2>1
  <2>4. \A i \in 1..Len(f) : f[i] = k.admitted[i]
    BY <1>3, <2>1, <2>2
  <2> QED
    BY <2>3, <2>4 DEF Written
<1>6. InHand(k, w, f, tn)
  BY <1>3 DEF Pipe, InHand
<1>7. Flows(k, w, f, tn)
  <2> SUFFICES ASSUME ~k.degraded, w.at \notin {"finally", "over"}
               PROVE  ~tn /\ QueueFits(k.queue, k.admitted, Base(w, f))
    BY DEF Flows
  <2>1. ~tn /\ QueueFits(j.queue, j.admitted, Base(w, f))
    BY DEF Pipe, Flows
  <2>2. Base(w, f) \in Nat /\ Base(w, f) <= Len(j.admitted)
    BY <1>3 DEF Base, Pipe, InHand, Written
  <2> QED
    BY <1>1, <1>2, <2>1, <2>2, QueueAccepts
<1> QED
  BY <1>4, <1>5, <1>6, <1>7 DEF Pipe

\* An event that is accepted joins the end of the pipe.
LEMMA PipeAccepts ==
  ASSUME NEW j \in Journals, NEW k \in Journals, NEW e \in Events, NEW w, NEW f \in Seq(Records),
         NEW tn, Accepts(j, k, e), Pipe(j, w, f, tn)
  PROVE  Pipe(k, w, f, tn)
<1>1. k.queue = Append(j.queue, RecordItem(NewRecord(j, e)))
  BY DEF Accepts
<1>2. k.admitted = Append(j.admitted, NewRecord(j, e))
  BY DEF Accepts
<1>3. k.next = j.next + 1 /\ ~j.degraded
  BY DEF Accepts
<1> QED
  BY <1>1, <1>2, <1>3, PipeAppends

\* Text that is flushed, or is not, leaves the pipe whole.
LEMMA PipeFlushed ==
  ASSUME NEW j \in Journals, NEW w, NEW f \in Seq(Records), NEW tn, Pipe(j, w, f, tn)
  PROVE  Pipe(Flushed(j), w, f, tn)
<1>1. PICK k \in Journals :
        /\ k = Flushed(j)
        /\ k = j \/ Refuses(j, k) \/ Accepts(j, k, Checkpoint(j.text))
  BY FlushedIs
<1>2. Checkpoint(j.text) \in Events
  BY EventIs DEF Journals
<1> QED
  BY <1>1, <1>2, PipeRefuses, PipeAccepts

\* An item that is no record changes nothing.
LEMMA QueueOther ==
  ASSUME NEW q \in Seq(Items), NEW a, NEW item \in Items, NEW b \in Nat,
         item.do # "record", QueueFits(q, a, b)
  PROVE  QueueFits(Append(q, item), a, b)
<1> DEFINE p == Append(q, item)
<1>1. /\ Len(p) = Len(q) + 1 /\ p[Len(q) + 1] = item /\ Len(q) \in Nat
      /\ \A i \in 1..Len(q) : p[i] = q[i]
  OBVIOUS
<1> HIDE DEF p
<1>2. \A i \in 1..Len(p) : p[i].do = "record" => i \in 1..Len(q) /\ p[i] = q[i]
  BY <1>1
<1>3. \A i \in 1..Len(q) : i \in 1..Len(p) /\ p[i] = q[i]
  BY <1>1
<1>4. \A i \in 1..Len(p) : p[i].do = "record" =>
        p[i].record.seq \in (b + 1)..Len(a) /\ p[i].record = a[p[i].record.seq]
  BY <1>2 DEF QueueFits
<1>5. \A i, k \in 1..Len(p) :
        i < k /\ p[i].do = "record" /\ p[k].do = "record" => p[i].record.seq < p[k].record.seq
  BY <1>2 DEF QueueFits
<1>6. \A n \in (b + 1)..Len(a) : \E i \in 1..Len(p) : p[i].do = "record" /\ p[i].record.seq = n
  <2> TAKE n \in (b + 1)..Len(a)
  <2>1. PICK i \in 1..Len(q) : q[i].do = "record" /\ q[i].record.seq = n
    BY DEF QueueFits
  <2> QED
    BY <1>3, <2>1
<1>7. QueueFits(p, a, b)
  BY <1>4, <1>5, <1>6 DEF QueueFits
<1> QED
  BY <1>7 DEF p

\* Nor does who waits for an item.
LEMMA QueueForgets ==
  ASSUME NEW q, NEW p, NEW a, NEW b, Len(p) = Len(q),
         \A i \in 1..Len(q) : p[i].do = q[i].do /\ p[i].record = q[i].record,
         QueueFits(q, a, b)
  PROVE  QueueFits(p, a, b)
<1>1. \A i \in 1..Len(p) : i \in 1..Len(q) /\ p[i].do = q[i].do /\ p[i].record = q[i].record
  OBVIOUS
<1>2. \A i \in 1..Len(p) : p[i].do = "record" =>
        p[i].record.seq \in (b + 1)..Len(a) /\ p[i].record = a[p[i].record.seq]
  BY <1>1 DEF QueueFits
<1>3. \A i, k \in 1..Len(p) :
        i < k /\ p[i].do = "record" /\ p[k].do = "record" => p[i].record.seq < p[k].record.seq
  BY <1>1 DEF QueueFits
<1>4. \A n \in (b + 1)..Len(a) : \E i \in 1..Len(p) : p[i].do = "record" /\ p[i].record.seq = n
  BY DEF QueueFits
<1> QED
  BY <1>2, <1>3, <1>4 DEF QueueFits

\* What the writer takes is next, or is no record.
LEMMA QueueTakes ==
  ASSUME NEW q \in Seq(Items), NEW a, NEW b \in Nat, q # <<>>, QueueFits(q, a, b)
  PROVE  /\ Head(q).do # "record" => QueueFits(Tail(q), a, b)
         /\ Head(q).do = "record" =>
              b < Len(a) /\ Head(q).record = a[b + 1] /\ QueueFits(Tail(q), a, b + 1)
<1> DEFINE p == Tail(q)
           h == Head(q)
<1>1. /\ Len(q) \in Nat \ {0} /\ Len(p) = Len(q) - 1 /\ h = q[1]
      /\ \A i \in 1..Len(p) : p[i] = q[i + 1]
  OBVIOUS
<1> HIDE DEF p, h
<1>2. \A i \in 1..Len(p) : i + 1 \in 1..Len(q) /\ 1 < i + 1 /\ p[i] = q[i + 1]
  BY <1>1
<1>3. \A i, k \in 1..Len(p) :
        i < k /\ p[i].do = "record" /\ p[k].do = "record" => p[i].record.seq < p[k].record.seq
  <2> SUFFICES ASSUME NEW i \in 1..Len(p), NEW k \in 1..Len(p), i < k,
                      p[i].do = "record", p[k].do = "record"
               PROVE  p[i].record.seq < p[k].record.seq
    OBVIOUS
  <2> DEFINE m == i + 1
             n == k + 1
  <2>1. m \in 1..Len(q) /\ n \in 1..Len(q) /\ m < n /\ p[i] = q[m] /\ p[k] = q[n]
    BY <1>2
  <2> HIDE DEF m, n
  <2> QED
    BY <2>1 DEF QueueFits
<1>4. \A i \in 1..Len(p) : p[i].do = "record" =>
        p[i].record.seq \in (b + 1)..Len(a) /\ p[i].record = a[p[i].record.seq]
  BY <1>2 DEF QueueFits
<1>5. ASSUME NEW i \in 1..Len(q), i # 1 PROVE i - 1 \in 1..Len(p) /\ p[i - 1] = q[i]
  <2>1. i - 1 \in 1..Len(p) /\ (i - 1) + 1 = i
    BY <1>1, <1>5
  <2> QED
    BY <1>1, <2>1
<1>6. CASE h.do # "record"
  <2>1. \A n \in (b + 1)..Len(a) : \E i \in 1..Len(p) : p[i].do = "record" /\ p[i].record.seq = n
    <3> TAKE n \in (b + 1)..Len(a)
    <3>1. PICK i \in 1..Len(q) : q[i].do = "record" /\ q[i].record.seq = n
      BY DEF QueueFits
    <3>2. i # 1
      BY <1>1, <1>6, <3>1
    <3> QED
      BY <1>5, <3>1, <3>2
  <2>2. QueueFits(p, a, b)
    BY <1>3, <1>4, <2>1 DEF QueueFits
  <2> QED
    BY <1>6, <2>2 DEF p, h
<1>7. CASE h.do = "record"
  <2>1. 1 \in 1..Len(q) /\ h = q[1]
    BY <1>1
  <2>2. h.record.seq \in (b + 1)..Len(a) /\ h.record = a[h.record.seq]
    BY <1>7, <2>1 DEF QueueFits
  <2>3. b + 1 \in (b + 1)..Len(a)
    BY <2>2
  <2>4. h.record.seq = b + 1
    <3>1. PICK i \in 1..Len(q) : q[i].do = "record" /\ q[i].record.seq = b + 1
      BY <2>3 DEF QueueFits
    <3>2. i # 1 => h.record.seq < b + 1
      BY <1>7, <2>1, <3>1 DEF QueueFits
    <3> QED
      BY <2>1, <2>2, <3>1, <3>2
  <2>5. ASSUME NEW i \in 1..Len(p), p[i].do = "record" PROVE p[i].record.seq \in ((b + 1) + 1)..Len(a)
    <3>1. b + 1 < p[i].record.seq
      BY <1>2, <1>7, <2>1, <2>4, <2>5 DEF QueueFits
    <3>2. p[i].record.seq \in (b + 1)..Len(a)
      BY <1>4, <2>5
    <3> QED
      BY <3>1, <3>2
  <2>6. \A n \in ((b + 1) + 1)..Len(a) :
          \E i \in 1..Len(p) : p[i].do = "record" /\ p[i].record.seq = n
    <3> TAKE n \in ((b + 1) + 1)..Len(a)
    <3>1. PICK i \in 1..Len(q) : q[i].do = "record" /\ q[i].record.seq = n
      BY DEF QueueFits
    <3>2. i # 1
      BY <2>1, <2>4, <3>1
    <3> QED
      BY <1>5, <3>1, <3>2
  <2>7. QueueFits(p, a, b + 1)
    BY <1>3, <1>4, <2>5, <2>6 DEF QueueFits
  <2> QED
    BY <1>7, <2>2, <2>4, <2>7 DEF p, h
<1> QED
  BY <1>6, <1>7

-----------------------------------------------------------------------------
(* The turn goes on.                                                       *)

\* The turn stays in order if its start is accepted once and its end after it.
LEMMA BegunAppends ==
  ASSUME NEW j \in Journals, NEW k \in Journals, NEW e \in Events,
         k.admitted = Append(j.admitted, NewRecord(j, e)), Begun(j),
         e.kind = "started" => ~HasStarted(j),
         e.kind = "finished" => HasStarted(j)
  PROVE  Begun(k) /\ (HasStarted(k) <=> HasStarted(j) \/ e.kind = "started")
<1> DEFINE a == j.admitted
           b == k.admitted
           n == Len(j.admitted) + 1
<1>1. /\ Len(b) = n /\ n - 1 = Len(a) /\ Len(a) \in Nat
      /\ \A i \in 1..Len(a) : i \in 1..Len(b) /\ b[i] = a[i]
      /\ b[n].event = e /\ n \in 1..Len(b)
  BY NewRecordIs DEF Journals
<1>2. \A i \in 1..Len(b) : i \in 1..Len(a) \/ i = n
  BY <1>1
<1>3. /\ \A i, m \in 1..Len(a) : a[i].event.kind = "started" /\ a[m].event.kind = "started" => i = m
      /\ \A i \in 1..Len(a) : a[i].event.kind = "finished" =>
           \E m \in 1..(i - 1) : a[m].event.kind = "started"
  BY DEF Begun
<1>4. HasStarted(j) <=> \E i \in 1..Len(a) : a[i].event.kind = "started"
  BY DEF HasStarted
<1>5. HasStarted(k) <=> \E i \in 1..Len(b) : b[i].event.kind = "started"
  BY DEF HasStarted
<1>6. Begun(k) <=>
        /\ \A i, m \in 1..Len(b) : b[i].event.kind = "started" /\ b[m].event.kind = "started" => i = m
        /\ \A i \in 1..Len(b) : b[i].event.kind = "finished" =>
             \E m \in 1..(i - 1) : b[m].event.kind = "started"
  BY DEF Begun
<1> HIDE DEF a, b, n
<1>7. HasStarted(k) <=> HasStarted(j) \/ e.kind = "started"
  BY <1>1, <1>2, <1>4, <1>5
<1>8. \A i, m \in 1..Len(b) : b[i].event.kind = "started" /\ b[m].event.kind = "started" => i = m
  BY <1>1, <1>2, <1>3, <1>4
<1>9. \A i \in 1..Len(b) : b[i].event.kind = "finished" =>
        \E m \in 1..(i - 1) : b[m].event.kind = "started"
  <2> SUFFICES ASSUME NEW i \in 1..Len(b), b[i].event.kind = "finished"
               PROVE  \E m \in 1..(i - 1) : b[m].event.kind = "started"
    OBVIOUS
  <2>1. CASE i = n
    <3>1. PICK m \in 1..Len(a) : a[m].event.kind = "started"
      BY <1>1, <1>4, <2>1
    <3>2. m \in 1..(i - 1) /\ b[m] = a[m]
      BY <1>1, <2>1, <3>1
    <3> QED
      BY <3>1, <3>2
  <2>2. CASE i \in 1..Len(a)
    <3>1. PICK m \in 1..(i - 1) : a[m].event.kind = "started"
      BY <1>1, <1>3, <2>2
    <3>2. m \in 1..Len(a)
      BY <1>1, <2>2, <3>1
    <3> QED
      BY <1>1, <3>1, <3>2
  <2> QED
    BY <1>2, <2>1, <2>2
<1> QED
  BY <1>6, <1>7, <1>8, <1>9

-----------------------------------------------------------------------------
(* The composite steps.                                                    *)

\* The recorder asks for a barrier: it waits for the lock, is refused, or has
\* flushed and puts the barrier.
LEMMA CallSyncIs ==
  ASSUME NEW j \in Journals, CallSync(j), pc \in [Clients -> Places], holder \in Clients \cup {Nobody}
  PROVE  /\ journal' \in Journals /\ (journal' = j \/ journal' = Flushed(j))
         /\ pc' \in [Clients -> Places] /\ holder' \in Clients \cup {Nobody}
         /\ pc'.host = pc.host
         /\ \/ /\ pc'.recorder \in {"locking", "refused"} /\ journal' = j /\ holder' = holder
            \/ /\ pc'.recorder = "putting" /\ journal' = Flushed(j) /\ j.accepting
               /\ LockIsFree /\ holder' = "recorder"
<1>1. Flushed(j) \in Journals
  BY FlushedIs
<1>2. CASE ~LockIsFree
  BY <1>2 DEF CallSync, Clients, Places
<1>3. CASE LockIsFree /\ ~j.accepting
  BY <1>3 DEF CallSync, Clients, Places
<1>4. CASE LockIsFree /\ j.accepting
  BY <1>1, <1>4 DEF CallSync, Clients, Places
<1> QED
  BY <1>2, <1>3, <1>4 DEF Journals

\* The recorder gives up its barrier, which stays where it is.
LEMMA LeavesIs ==
  ASSUME JournalTypes, Leaves("recorder", "out")
  PROVE  /\ journal' \in Journals /\ writer' \in Writers
         /\ pc' \in [Clients -> Places] /\ holder' \in Clients \cup {Nobody}
         /\ pc'.host = pc.host /\ pc'.recorder = "out"
         /\ holder' = IF holder = "recorder" THEN Nobody ELSE holder
         /\ journal' = [journal EXCEPT !.queue = journal'.queue]
         /\ Len(journal'.queue) = Len(journal.queue)
         /\ \A i \in 1..Len(journal.queue) :
              /\ journal'.queue[i].do = journal.queue[i].do
              /\ journal'.queue[i].record = journal.queue[i].record
              /\ journal'.queue[i].for = IF journal.queue[i].for = "recorder" THEN Nobody
                                         ELSE journal.queue[i].for
         /\ writer'.at = writer.at /\ writer'.item.do = writer.item.do
         /\ writer'.item.record = writer.item.record
         /\ writer'.item.for = IF writer.item.for = "recorder" THEN Nobody ELSE writer.item.for
<1> DEFINE q == journal.queue
<1>1. PICK p : p = [i \in DOMAIN q |-> IF q[i].for = "recorder" THEN [q[i] EXCEPT !.for = Nobody] ELSE q[i]]
  OBVIOUS
<1>2. q \in Seq(Items) /\ Len(q) \in Nat /\ DOMAIN q = 1..Len(q)
  BY DEF JournalTypes, Journals
<1>3. \A i \in 1..Len(q) : /\ p[i] \in Items /\ p[i].do = q[i].do /\ p[i].record = q[i].record
                           /\ p[i].for = IF q[i].for = "recorder" THEN Nobody ELSE q[i].for
  <2> TAKE i \in 1..Len(q)
  <2>1. q[i] \in Items /\ p[i] = IF q[i].for = "recorder" THEN [q[i] EXCEPT !.for = Nobody] ELSE q[i]
    BY <1>1, <1>2
  <2> HIDE DEF q
  <2> QED
    BY <2>1 DEF Items
<1>4. p \in Seq(Items) /\ Len(p) = Len(q)
  <2>1. p \in [1..Len(q) -> Items]
    BY <1>1, <1>2, <1>3
  <2> HIDE DEF q
  <2> QED
    BY <1>2, <2>1
<1>5. journal' = [journal EXCEPT !.queue = p]
  BY <1>1 DEF Leaves
<1>6. journal' \in Journals /\ journal'.queue = p
  BY <1>4, <1>5 DEF JournalTypes, Journals
<1>7. /\ writer' \in Writers
      /\ writer'.at = writer.at /\ writer'.item.do = writer.item.do
      /\ writer'.item.record = writer.item.record
      /\ writer'.item.for = IF writer.item.for = "recorder" THEN Nobody ELSE writer.item.for
  <2>1. writer' = IF writer.item.for = "recorder" THEN [writer EXCEPT !.item.for = Nobody] ELSE writer
    BY DEF Leaves
  <2>2. writer \in Writers
    BY DEF JournalTypes
  <2> QED
    BY <2>1, <2>2 DEF Items, Writers
<1>8. /\ pc' \in [Clients -> Places] /\ pc'.host = pc.host /\ pc'.recorder = "out"
      /\ holder' \in Clients \cup {Nobody}
      /\ holder' = IF holder = "recorder" THEN Nobody ELSE holder
  BY DEF Leaves, JournalTypes, Clients, Places
<1> QED
  BY <1>3, <1>4, <1>5, <1>6, <1>7, <1>8

-----------------------------------------------------------------------------
(* Every variable keeps its kind.                                          *)

\* What the recorder does with an event.
LEMMA RecordIs ==
  ASSUME JournalTypes, TurnTypes, Record
  PROVE  \E b, a \in Journals :
           /\ b = IF Durable(Head(todo)) THEN Flushed(journal) ELSE journal
           /\ a = Enqueued(b, Head(todo))
           /\ todo # <<>> /\ Head(todo) \in Events /\ pc.recorder = "out"
           /\ UNCHANGED <<answer, writer, fileVars, faults, promise, round, history>>
           /\ current' = IF Head(todo).kind = "result" THEN <<>> ELSE current
           /\ \/ /\ Durable(Head(todo)) /\ Accepts(b, a, Head(todo))
                 /\ CallSync(a) /\ UNCHANGED <<todo, phase>>
              \/ /\ (Refuses(b, a) /\ Deaf(a)) \/ (Accepts(b, a, Head(todo)) /\ ~Durable(Head(todo)))
                 /\ journal' = AfterEvent(a, Head(todo))
                 /\ Recorded(Head(todo)) /\ UNCHANGED <<pc, holder>>
<1> DEFINE e == Head(todo)
<1>1. todo # <<>> /\ e \in Events
  BY DEF Record, TurnTypes
<1>2. PICK b : b = IF Durable(e) THEN Flushed(journal) ELSE journal
  OBVIOUS
<1>3. PICK a : a = Enqueued(b, e)
  OBVIOUS
<1>4. journal \in Journals /\ Flushed(journal) \in Journals
  BY FlushedIs DEF JournalTypes
<1>5. b \in Journals
  BY <1>2, <1>4
<1>6. a \in Journals /\ ((Refuses(b, a) /\ Deaf(a)) \/ Accepts(b, a, e))
  BY <1>1, <1>3, <1>5, EnqueuedIs
<1>7. a.next # b.next <=> Accepts(b, a, e)
  <2>1. Refuses(b, a) => a.next = b.next
    BY DEF Refuses
  <2>2. Accepts(b, a, e) => a.next # b.next
    BY <1>5 DEF Accepts, Journals
  <2> QED
    BY <1>6, <2>1, <2>2
<1>8. /\ pc.recorder = "out"
      /\ UNCHANGED <<answer, writer, fileVars, faults, promise, round, history>>
      /\ current' = IF e.kind = "result" THEN <<>> ELSE current
      /\ IF a.next # b.next /\ Durable(e)
         THEN CallSync(a) /\ UNCHANGED <<todo, phase>>
         ELSE journal' = AfterEvent(a, e) /\ Recorded(e) /\ UNCHANGED <<pc, holder>>
  BY <1>2, <1>3 DEF Record
<1>9. CASE Accepts(b, a, e) /\ Durable(e)
  BY <1>1, <1>2, <1>3, <1>5, <1>6, <1>7, <1>8, <1>9
<1>10. CASE ~(Accepts(b, a, e) /\ Durable(e))
  BY <1>1, <1>2, <1>3, <1>5, <1>6, <1>7, <1>8, <1>10
<1> QED
  BY <1>9, <1>10

\* An event that has been recorded leaves the others.
LEMMA RecordedTypes ==
  ASSUME TurnTypes, todo # <<>>, NEW e, Recorded(e)
  PROVE  /\ todo' \in Seq(Events) /\ todo' = Tail(todo)
         /\ phase' \in {"before", "streaming", "ending", "unwinding", "over"}
<1>1. todo' = Tail(todo) /\ phase' = IF Len(todo) = 1 THEN Then(phase) ELSE phase
  BY DEF Recorded
<1>2. todo \in Seq(Events) /\ phase \in {"before", "streaming", "ending", "unwinding", "over"}
  BY DEF TurnTypes
<1>3. Tail(todo) \in Seq(Events)
  BY <1>2
<1>4. Then(phase) \in {"before", "streaming", "ending", "unwinding", "over"}
  BY <1>2 DEF Then
<1> QED
  BY <1>1, <1>2, <1>3, <1>4

\* What is forgotten with the end of a turn.
LEMMA AfterEventIs ==
  ASSUME NEW j \in Journals, NEW e, NEW k, k = AfterEvent(j, e)
  PROVE  /\ k \in Journals /\ Refuses(j, k) /\ k.degraded = j.degraded
         /\ k.observed = j.observed /\ k.closed = j.closed
         /\ k.text = IF e.kind = "finished" THEN <<>> ELSE j.text
<1>1. CASE e.kind = "finished"
  BY <1>1, ForgottenIs DEF AfterEvent
<1>2. CASE e.kind # "finished"
  BY <1>2 DEF AfterEvent, Refuses
<1> QED
  BY <1>1, <1>2

\* What a cancelled turn stores and publishes.
LEMMA UnwindTypes ==
  ASSUME TurnTypes, Unwind
  PROVE  history' \in Seq(Events) /\ todo' \in Seq(Events) /\ phase' = "unwinding"
<1> DEFINE partial == Committed("assistant", current)
<1>1. PICK added : /\ added = <<>> \/ added = <<partial>>
                   /\ history' = history \o added
                   /\ todo' = Append(added, Finished("cancelled"))
                   /\ phase' = "unwinding"
  BY DEF Unwind
<1>2. partial \in Events /\ Finished("cancelled") \in Events
  BY EventIs DEF TurnTypes, Roles, Statuses
<1> HIDE DEF partial
<1>3. added \in Seq(Events)
  <2>1. <<>> \in Seq(Events) /\ <<partial>> \in Seq(Events)
    BY <1>2
  <2>2. added = <<>> \/ added = <<partial>>
    BY <1>1
  <2> QED
    BY <2>1, <2>2
<1>4. history \in Seq(Events)
  BY DEF TurnTypes
<1> QED
  BY <1>1, <1>2, <1>3, <1>4

\* Every step of the turn.
LEMMA TurnStepTypes ==
  ASSUME JournalTypes, TurnTypes, TurnStep \/ Synced, RecorderInv
  PROVE  TurnTypes'
<1>1. /\ \A k \in Kinds : Plain(k) \in Events
      /\ \A r \in Roles, t \in Seq(Pieces) : Committed(r, t) \in Events
      /\ \A s \in Statuses : Finished(s) \in Events
      /\ Notice \in Events /\ <<>> \in Seq(Pieces)
  BY EventIs
<1>2. /\ phase \in {"before", "streaming", "ending", "unwinding", "over"}
      /\ todo \in Seq(Events)
      /\ round \in [n : Nat, text : Seq(Pieces)]
      /\ current \in Seq(Pieces)
      /\ history \in Seq(Events)
  BY DEF TurnTypes
<1>3. Answer \in Events /\ Results \in Events
  <2>1. round.text \in Seq(Pieces) /\ "assistant" \in Roles /\ "results" \in Roles
    BY <1>2 DEF Roles
  <2> QED
    BY <1>1, <2>1 DEF Answer, Results
<1>4. Plain("started") \in Events /\ Plain("result") \in Events /\ Committed("user", <<>>) \in Events
      /\ Finished("succeeded") \in Events /\ Finished("failed") \in Events
  BY <1>1 DEF Kinds, Roles, Statuses
<1>5. CASE Begin
  <2>1. <<Committed("user", <<>>)>> \in Seq(Events)
        /\ <<Plain("started"), Committed("user", <<>>)>> \in Seq(Events)
    BY <1>4
  <2> QED
    BY <1>2, <1>5, <2>1 DEF Begin, TurnTypes
<1>6. CASE Say
  <2>1. PICK piece : /\ piece = <<round.n, Len(round.text) + 1>>
                     /\ round' = [round EXCEPT !.text = Append(@, piece)]
                     /\ current' = Append(current, piece)
                     /\ UNCHANGED <<phase, todo, history>>
    BY <1>6 DEF Say
  <2>2. piece \in Pieces
    <3>1. round.n \in Nat /\ Len(round.text) + 1 \in Nat
      BY <1>2
    <3> QED
      BY <2>1, <3>1 DEF Pieces
  <2>3. round' \in [n : Nat, text : Seq(Pieces)]
    <3>1. Append(round.text, piece) \in Seq(Pieces) /\ round' = [round EXCEPT !.text = Append(round.text, piece)]
      BY <1>2, <2>1, <2>2
    <3> QED
      BY <1>2, <3>1
  <2>4. current' \in Seq(Pieces)
    BY <1>2, <2>1, <2>2
  <2> QED
    BY <1>2, <2>1, <2>3, <2>4 DEF TurnTypes
<1>7. CASE EndWithTools
  <2>1. <<Answer, Results>> \in Seq(Events) /\ <<Answer, Results, Plain("result")>> \in Seq(Events)
    BY <1>3, <1>4
  <2>2. history \o <<Answer, Results>> \in Seq(Events)
    BY <1>2, <2>1
  <2>3. [n |-> round.n + 1, text |-> <<>>] \in [n : Nat, text : Seq(Pieces)]
    BY <1>1, <1>2
  <2> QED
    BY <1>2, <1>7, <2>1, <2>2, <2>3 DEF EndWithTools, TurnTypes
<1>8. CASE EndWithPause
  <2>1. <<Answer>> \in Seq(Events) /\ Append(history, Answer) \in Seq(Events)
    BY <1>2, <1>3
  <2>2. [n |-> round.n + 1, text |-> <<>>] \in [n : Nat, text : Seq(Pieces)]
    BY <1>1, <1>2
  <2> QED
    BY <1>2, <1>8, <2>1, <2>2 DEF EndWithPause, TurnTypes
<1>9. CASE Respond
  <2>1. Append(history, Answer) \in Seq(Events) /\ <<Answer, Finished("succeeded")>> \in Seq(Events)
        /\ <<Answer, Finished("failed")>> \in Seq(Events)
    BY <1>2, <1>3, <1>4
  <2>2. todo' \in Seq(Events) /\ history' \in Seq(Events)
        /\ phase' = "ending" /\ UNCHANGED <<round, current>>
    BY <1>9, <2>1 DEF Respond
  <2> QED
    BY <1>2, <2>2 DEF TurnTypes
<1>10. CASE Fail
  <2>1. <<Finished("failed")>> \in Seq(Events)
    BY <1>4
  <2> QED
    BY <1>2, <1>10, <2>1 DEF Fail, TurnTypes
<1>11. CASE Cancel
  BY <1>2, <1>11, UnwindTypes DEF Cancel, TurnTypes
<1>12. CASE CancelRecorder
  <2>1. UNCHANGED <<round, current>>
    BY <1>12 DEF CancelRecorder
  <2>2. CASE Head(todo).kind = "finished"
    <3>1. todo' = <<>> /\ phase' = "over" /\ history' = history
      BY <1>12, <2>2 DEF CancelRecorder
    <3>2. <<>> \in Seq(Events)
      OBVIOUS
    <3> QED
      BY <1>2, <2>1, <3>1, <3>2 DEF TurnTypes
  <2>3. CASE Head(todo).kind # "finished"
    <3>1. Unwind
      BY <1>12, <2>3 DEF CancelRecorder
    <3> QED
      BY <1>2, <2>1, <3>1, UnwindTypes DEF TurnTypes
  <2> QED
    BY <2>2, <2>3
<1>13. CASE NoteInterruption
  <2>1. <<Notice>> \in Seq(Events) /\ Append(history, Notice) \in Seq(Events)
    BY <1>1, <1>2
  <2> QED
    BY <1>2, <1>13, <2>1 DEF NoteInterruption, TurnTypes
<1>14. CASE Record
  <2>1. /\ UNCHANGED <<round, history>>
        /\ current' = <<>> \/ current' = current
        /\ todo # <<>>
        /\ UNCHANGED <<todo, phase>> \/ Recorded(Head(todo))
    BY <1>14, RecordIs
  <2>2. /\ todo' \in Seq(Events)
        /\ phase' \in {"before", "streaming", "ending", "unwinding", "over"}
    BY <1>2, <2>1, RecordedTypes
  <2> QED
    BY <1>1, <1>2, <2>1, <2>2 DEF TurnTypes
<1>15. CASE Synced
  <2>1. todo # <<>>
    BY <1>15 DEF Synced, RecorderInv
  <2>2. Recorded(Head(todo)) /\ UNCHANGED <<round, current, history>>
    BY <1>15 DEF Synced
  <2> QED
    BY <1>2, <2>1, <2>2, RecordedTypes DEF TurnTypes
<1> QED
  BY <1>5, <1>6, <1>7, <1>8, <1>9, <1>10, <1>11, <1>12, <1>13, <1>14, <1>15 DEF TurnStep

\* The steps of the turn that concern the journal.
LEMMA TurnJournalTypes ==
  ASSUME JournalTypes, TurnTypes, TurnStep \/ Synced, RecorderInv
  PROVE  JournalTypes'
<1>1. CASE UNCHANGED journalVars
  BY <1>1 DEF JournalTypes, journalVars, fileVars
<1>2. CASE Say
  <2> DEFINE piece == <<round.n, Len(round.text) + 1>>
  <2>1. PICK isTime \in BOOLEAN : journal' = Observed(journal, piece, isTime)
    BY <1>2 DEF Say
  <2>2. piece \in Pieces
    <3>1. round.n \in Nat /\ Len(round.text) + 1 \in Nat
      BY DEF TurnTypes
    <3> QED
      BY <3>1 DEF Pieces
  <2> HIDE DEF piece
  <2>3. journal' \in Journals
    BY <2>1, <2>2, ObservedIs DEF JournalTypes
  <2> QED
    BY <1>2, <2>3 DEF Say, JournalTypes, fileVars
<1>3. CASE CancelRecorder
  <2>1. Leaves("recorder", "out") /\ UNCHANGED <<answer, fileVars, faults, promise>>
    BY <1>3 DEF CancelRecorder
  <2>2. journal' \in Journals /\ writer' \in Writers /\ pc' \in [Clients -> Places]
        /\ holder' \in Clients \cup {Nobody}
    BY <2>1, LeavesIs
  <2> QED
    BY <2>1, <2>2 DEF JournalTypes, fileVars
<1>4. CASE Record
  <2>1. PICK b, a \in Journals :
           /\ UNCHANGED <<answer, writer, fileVars, faults, promise>>
           /\ \/ CallSync(a)
              \/ journal' = AfterEvent(a, Head(todo)) /\ UNCHANGED <<pc, holder>>
    BY <1>4, RecordIs
  <2>2. pc \in [Clients -> Places] /\ holder \in Clients \cup {Nobody}
    BY DEF JournalTypes
  <2>3. journal' \in Journals /\ pc' \in [Clients -> Places] /\ holder' \in Clients \cup {Nobody}
    BY <2>1, <2>2, CallSyncIs, AfterEventIs
  <2> QED
    BY <2>1, <2>3 DEF JournalTypes, fileVars
<1>5. CASE Synced
  <2>1. journal' \in Journals
    BY <1>5, AfterEventIs DEF Synced, JournalTypes
  <2>2. promise' \in [records : Nat, pieces : Nat]
    <3>1. Len(journal.admitted) \in Nat /\ Len(journal.observed) \in Nat
      BY DEF JournalTypes, Journals
    <3> QED
      BY <1>5, <3>1 DEF Synced, JournalTypes
  <2>3. /\ pc' \in [Clients -> Places] /\ holder' \in Clients \cup {Nobody}
        /\ answer' \in [Clients -> {"none", "true", "false"}]
    BY <1>5 DEF Synced, JournalTypes, Clients, Places
  <2> QED
    BY <1>5, <2>1, <2>2, <2>3 DEF Synced, JournalTypes, fileVars
<1> QED
  BY <1>1, <1>2, <1>3, <1>4, <1>5 DEF TurnStep, Begin, EndWithTools, EndWithPause, Respond, Fail,
     Cancel, NoteInterruption

\* A result for the barrier in hand is a result.
LEMMA ResolvesTypes ==
  ASSUME JournalTypes, NEW r \in BOOLEAN, Resolves(r)
  PROVE  answer' \in [Clients -> {"none", "true", "false"}]
BY DEF Resolves, JournalTypes, Writers, Items

\* A line more.
LEMMA AppendedTypes ==
  ASSUME writer \in Writers, file \in Seq(Records), Appended(writer.item.record)
  PROVE  file' \in Seq(Records) /\ torn' \in BOOLEAN
<1>1. PICK r : r = IF torn THEN Garbage ELSE writer.item.record
  OBVIOUS
<1>2. r \in Records
  BY <1>1, ItemIs DEF Writers, Items
<1>3. file' = Append(file, r) /\ torn' = FALSE
  BY <1>1 DEF Appended
<1>4. Append(file, r) \in Seq(Records)
  BY <1>2
<1>5. file' \in Seq(Records)
  BY <1>3, <1>4
<1> QED
  BY <1>3, <1>5

\* The steps of the writer.
LEMMA WriterTypes == ASSUME JournalTypes, WriterStep PROVE JournalTypes'
<1>1. /\ journal \in Journals /\ writer \in Writers /\ file \in Seq(Records) /\ faults \in Nat
      /\ Len(file) \in Nat /\ journal.degraded \in BOOLEAN
  BY DEF JournalTypes, Journals
<1>2. \A at \in {"idle", "append", "fsync", "chain", "finally", "over"} :
        [at |-> at, item |-> CloseItem] \in Writers
  BY ItemIs DEF Writers
<1>3. IsDegraded \in Journals
  BY <1>1 DEF IsDegraded, Journals
<1>4. ASSUME Fault PROVE journal' \in Journals /\ faults' \in Nat
  BY <1>1, <1>3, <1>4 DEF Fault
<1>5. CASE WriterTakes
  <2> DEFINE item == Head(journal.queue)
  <2>1. journal.queue \in Seq(Items) /\ journal.queue # <<>>
    BY <1>5 DEF WriterTakes, JournalTypes, Journals
  <2>2. item \in Items /\ Tail(journal.queue) \in Seq(Items)
    BY <2>1
  <2>3. journal' = [journal EXCEPT !.queue = Tail(journal.queue)]
    BY <1>5 DEF WriterTakes
  <2>4. journal' \in Journals
    BY <1>1, <2>2, <2>3 DEF Journals
  <2>5. \/ writer' = [at |-> "fsync", item |-> item] \/ writer' = [at |-> "finally", item |-> item]
        \/ writer' = writer \/ writer' = [at |-> "append", item |-> item]
    BY <1>5 DEF WriterTakes
  <2> HIDE DEF item
  <2>6. writer' \in Writers
    BY <1>1, <2>2, <2>5 DEF Writers
  <2>7. UNCHANGED <<pc, answer, holder, file, torn, durable, named, faults, promise>>
    BY <1>5 DEF WriterTakes, fileVars
  <2> QED
    BY <2>4, <2>6, <2>7 DEF JournalTypes
<1>6. CASE WriterAppends
  <2>1. writer' \in Writers
    BY <1>2, <1>6 DEF WriterAppends, WriterIdle
  <2>2. /\ journal' \in Journals /\ faults' \in Nat /\ file' \in Seq(Records) /\ torn' \in BOOLEAN
    <3>1. CASE Appended(writer.item.record) /\ UNCHANGED <<journal, faults>>
      BY <1>1, <3>1, AppendedTypes
    <3>2. CASE Fault /\ (UNCHANGED torn \/ torn' = TRUE) /\ UNCHANGED file
      BY <1>1, <1>4, <3>2 DEF JournalTypes
    <3> QED
      BY <1>6, <3>1, <3>2 DEF WriterAppends
  <2>3. UNCHANGED <<pc, answer, holder, durable, named, promise>>
    BY <1>6 DEF WriterAppends
  <2> QED
    BY <2>1, <2>2, <2>3 DEF JournalTypes
<1>7. CASE WriterSyncs
  <2>1. writer' \in Writers
    <3>1. [writer EXCEPT !.at = "chain"] \in Writers
      BY <1>1 DEF Writers
    <3> QED
      BY <1>2, <1>7, <3>1 DEF WriterSyncs, WriterIdle
  <2>2. answer' \in [Clients -> {"none", "true", "false"}]
    <3>1. UNCHANGED answer \/ Resolves(~journal.degraded) \/ Resolves(FALSE)
      BY <1>7 DEF WriterSyncs
    <3> QED
      BY <1>1, <3>1, ResolvesTypes DEF JournalTypes
  <2>3. journal' \in Journals /\ faults' \in Nat /\ durable' \in Nat
    BY <1>1, <1>4, <1>7 DEF WriterSyncs, JournalTypes
  <2>4. UNCHANGED <<pc, holder, file, torn, named, promise>>
    BY <1>7 DEF WriterSyncs
  <2> QED
    BY <2>1, <2>2, <2>3, <2>4 DEF JournalTypes
<1>8. CASE WriterSyncsDirectories
  <2>1. writer' \in Writers
    BY <1>2, <1>8 DEF WriterSyncsDirectories, WriterIdle
  <2>2. answer' \in [Clients -> {"none", "true", "false"}]
    <3>1. Resolves(~journal.degraded) \/ Resolves(FALSE)
      BY <1>8 DEF WriterSyncsDirectories
    <3> QED
      BY <1>1, <3>1, ResolvesTypes
  <2>3. journal' \in Journals /\ faults' \in Nat /\ named' \in BOOLEAN
    BY <1>1, <1>4, <1>8 DEF WriterSyncsDirectories, JournalTypes
  <2>4. UNCHANGED <<pc, holder, file, torn, durable, promise>>
    BY <1>8 DEF WriterSyncsDirectories
  <2> QED
    BY <2>1, <2>2, <2>3, <2>4 DEF JournalTypes
<1>9. CASE WriterEnds
  <2>1. writer' \in Writers
    BY <1>2, <1>9 DEF WriterEnds
  <2>2. journal' \in Journals /\ faults' \in Nat /\ durable' \in Nat
    BY <1>1, <1>4, <1>9 DEF WriterEnds, JournalTypes
  <2>3. UNCHANGED <<pc, answer, holder, file, torn, named, promise>>
    BY <1>9 DEF WriterEnds
  <2> QED
    BY <2>1, <2>2, <2>3 DEF JournalTypes
<1> QED
  BY <1>5, <1>6, <1>7, <1>8, <1>9 DEF WriterStep

\* One more item is an item.
LEMMA QueuedIs ==
  ASSUME NEW j \in Journals, NEW item \in Items, NEW k, k = [j EXCEPT !.queue = Append(@, item)]
  PROVE  /\ k \in Journals /\ k.queue = Append(j.queue, item)
         /\ k = [j EXCEPT !.queue = k.queue]
<1>1. Append(j.queue, item) \in Seq(Items)
  BY DEF Journals
<1>2. k = [j EXCEPT !.queue = Append(j.queue, item)]
  OBVIOUS
<1> QED
  BY <1>1, <1>2 DEF Journals

\* The end of the session is accepted whether or not anything else is.
LEMMA EndIs ==
  ASSUME NEW j \in Journals, NEW k,
         k = [j EXCEPT !.queue = Append(@, RecordItem(NewRecord(j, Plain("end")))), !.next = @ + 1,
                       !.admitted = Append(@, NewRecord(j, Plain("end")))]
  PROVE  /\ k \in Journals
         /\ k.queue = Append(j.queue, RecordItem(NewRecord(j, Plain("end"))))
         /\ k.admitted = Append(j.admitted, NewRecord(j, Plain("end")))
         /\ k.next = j.next + 1 /\ k.accepting = j.accepting /\ k.degraded = j.degraded
         /\ k.text = j.text /\ k.observed = j.observed /\ k.closed = j.closed
<1>1. Plain("end") \in Events
  BY EventIs DEF Kinds
<1> DEFINE r == NewRecord(j, Plain("end"))
           q == Append(j.queue, RecordItem(r))
           a == Append(j.admitted, r)
<1>2. r \in Records /\ RecordItem(r) \in Items
  BY <1>1, NewRecordIs, ItemIs
<1>3. q \in Seq(Items) /\ a \in Seq(Records) /\ j.next + 1 \in Nat
  BY <1>2 DEF Journals
<1>4. k = [j EXCEPT !.queue = q, !.next = j.next + 1, !.admitted = a]
  OBVIOUS
<1>5. q = Append(j.queue, RecordItem(NewRecord(j, Plain("end"))))
      /\ a = Append(j.admitted, NewRecord(j, Plain("end")))
  OBVIOUS
<1> HIDE DEF q, a, r
<1>6. k = [queue |-> q, next |-> j.next + 1, accepting |-> j.accepting, degraded |-> j.degraded,
           closed |-> j.closed, text |-> j.text, flushed |-> j.flushed, admitted |-> a,
           observed |-> j.observed]
  BY <1>4 DEF Journals
<1>7. k \in Journals
  BY <1>3, <1>6 DEF Journals
<1> QED
  BY <1>5, <1>6, <1>7

\* The steps of the host, and of whoever gets the lock or a place.
LEMMA HostTypes ==
  ASSUME JournalTypes, HostStep \/ CloseCancelled \/ Locks \/ \E t \in Clients : PutBarrier(t)
  PROVE  JournalTypes'
<1>1. /\ journal \in Journals /\ writer \in Writers /\ file \in Seq(Records)
      /\ pc \in [Clients -> Places] /\ holder \in Clients \cup {Nobody}
      /\ answer \in [Clients -> {"none", "true", "false"}]
      /\ promise \in [records : Nat, pieces : Nat] /\ torn \in BOOLEAN
  BY DEF JournalTypes
<1>2. CASE Opened
  BY <1>1, <1>2 DEF Opened, JournalTypes, fileVars, Clients, Places
<1>3. CASE Closes
  <2>1. pc' \in [Clients -> Places] /\ holder' \in Clients \cup {Nobody}
    BY <1>1, <1>3 DEF Closes, Clients, Places
  <2>2. journal' \in Journals
    <3>1. Flushed(journal) \in Journals
      BY <1>1, FlushedIs
    <3>2. PICK j \in Journals : j = Flushed(journal)
      BY <3>1
    <3>3. [j EXCEPT !.accepting = FALSE] \in Journals
      BY DEF Journals
    <3>4. UNCHANGED journal \/ journal' = [j EXCEPT !.accepting = FALSE]
      BY <1>3, <3>2 DEF Closes
    <3> QED
      BY <1>1, <3>3, <3>4
  <2> QED
    BY <1>3, <2>1, <2>2 DEF Closes, JournalTypes, fileVars
<1>4. CASE PutEnd
  <2>1. journal' \in Journals
    BY <1>1, <1>4, EndIs DEF PutEnd, NewRecord
  <2>2. pc' \in [Clients -> Places]
    BY <1>1, <1>4 DEF PutEnd, Clients, Places
  <2> QED
    BY <1>4, <2>1, <2>2 DEF PutEnd, JournalTypes, fileVars
<1>5. CASE PutClose
  <2>1. journal' \in Journals
    BY <1>1, <1>5, ItemIs, QueuedIs DEF PutClose
  <2>2. pc' \in [Clients -> Places]
    BY <1>1, <1>5 DEF PutClose, Clients, Places
  <2> QED
    BY <1>5, <2>1, <2>2 DEF PutClose, JournalTypes, fileVars
<1>6. CASE Closed
  <2>1. journal' \in Journals
    BY <1>1, <1>6 DEF Closed, Journals
  <2>2. pc' \in [Clients -> Places] /\ holder' \in Clients \cup {Nobody}
    BY <1>1, <1>6 DEF Closed, Clients, Places
  <2>3. promise' \in [records : Nat, pieces : Nat]
    <3>1. Len(journal.admitted) \in Nat /\ Len(journal.observed) \in Nat
      BY <1>1 DEF Journals
    <3> QED
      BY <1>1, <1>6, <3>1 DEF Closed
  <2> QED
    BY <1>6, <2>1, <2>2, <2>3 DEF Closed, JournalTypes, fileVars
<1>7. CASE CloseCancelled
  <2>1. pc' \in [Clients -> Places] /\ holder' \in Clients \cup {Nobody}
    BY <1>1, <1>7 DEF CloseCancelled, Clients, Places
  <2>2. writer' \in Writers
    <3>1. [at |-> "finally", item |-> CloseItem] \in Writers
      BY ItemIs DEF Writers
    <3> QED
      BY <1>1, <1>7, <3>1 DEF CloseCancelled
  <2>3. file' \in Seq(Records) /\ torn' \in BOOLEAN
    <3>1. \/ UNCHANGED <<file, torn>> \/ Appended(writer.item.record) \/ (torn' = TRUE /\ UNCHANGED file)
      BY <1>7 DEF CloseCancelled
    <3>2. CASE Appended(writer.item.record)
      BY <1>1, <3>2, AppendedTypes
    <3> QED
      BY <1>1, <3>1, <3>2
  <2> QED
    BY <1>7, <2>1, <2>2, <2>3 DEF CloseCancelled, JournalTypes
<1>8. CASE Locks
  <2>1. CallSync(journal) /\ UNCHANGED <<answer, writer, fileVars, faults, promise>>
    BY <1>8 DEF Locks
  <2>2. journal' \in Journals /\ pc' \in [Clients -> Places] /\ holder' \in Clients \cup {Nobody}
    BY <1>1, <2>1, CallSyncIs
  <2> QED
    BY <2>1, <2>2 DEF JournalTypes, fileVars
<1>9. ASSUME NEW t \in Clients, PutBarrier(t) PROVE JournalTypes'
  <2>1. journal' \in Journals
    BY <1>1, <1>9, ItemIs, QueuedIs DEF PutBarrier
  <2>2. pc' \in [Clients -> Places] /\ answer' \in [Clients -> {"none", "true", "false"}]
    BY <1>1, <1>9 DEF PutBarrier, Places
  <2> QED
    BY <1>9, <2>1, <2>2 DEF PutBarrier, JournalTypes, fileVars
<1> QED
  BY <1>2, <1>3, <1>4, <1>5, <1>6, <1>7, <1>8, <1>9 DEF HostStep

\* Every step keeps the types.
LEMMA TypesStep ==
  ASSUME JournalTypes, TurnTypes, RecorderInv, [Next]_vars
  PROVE  JournalTypes' /\ TurnTypes'
<1>1. CASE TurnStep \/ Synced
  BY <1>1, TurnStepTypes, TurnJournalTypes
<1>2. CASE JournalStep /\ UNCHANGED turnVars
  <2>1. JournalTypes'
    BY <1>2, WriterTypes, HostTypes DEF JournalStep
  <2>2. TurnTypes'
    BY <1>2 DEF TurnTypes, turnVars
  <2> QED
    BY <2>1, <2>2
<1>3. CASE UNCHANGED vars
  BY <1>3 DEF vars, journalVars, turnVars, fileVars, JournalTypes, TurnTypes
<1> QED
  BY <1>1, <1>2, <1>3 DEF Next

-----------------------------------------------------------------------------
(* The turn's start and its end.                                           *)

\* Journal k tells of the turn what j does.
SameTurn(j, k) ==
  /\ Begun(j) => Begun(k)
  /\ HasStarted(k) <=> HasStarted(j)
  /\ Deaf(j) => Deaf(k)

\* So it is if nothing is accepted, ..
LEMMA SameAdmitted ==
  ASSUME NEW j, NEW k, k.admitted = j.admitted, Deaf(j) => Deaf(k)
  PROVE  SameTurn(j, k)
BY DEF SameTurn, Begun, HasStarted

\* .. as when an event is refused, ..
LEMMA SameRefused == ASSUME NEW j, NEW k, Refuses(j, k) PROVE SameTurn(j, k)
BY SameAdmitted DEF Refuses, Deaf

\* .. or something else than the turn's start and its end.
LEMMA SameAppended ==
  ASSUME NEW j \in Journals, NEW k \in Journals, NEW e \in Events,
         e.kind \notin {"started", "finished"},
         k.admitted = Append(j.admitted, NewRecord(j, e)), Deaf(j) => Deaf(k)
  PROVE  SameTurn(j, k)
<1>1. (\E i \in 1..Len(k.admitted) : k.admitted[i].event.kind = "started")
        <=> \E i \in 1..Len(j.admitted) : j.admitted[i].event.kind = "started"
  <2> DEFINE a == j.admitted
             b == k.admitted
             n == Len(j.admitted) + 1
  <2>1. /\ Len(b) = n /\ n - 1 = Len(a) /\ Len(a) \in Nat
        /\ \A i \in 1..Len(a) : i \in 1..Len(b) /\ b[i] = a[i]
        /\ b[n].event = e /\ n \in 1..Len(b)
    BY NewRecordIs DEF Journals
  <2> HIDE DEF a, b, n
  <2>2. \A i \in 1..Len(b) : i \in 1..Len(a) \/ i = n
    BY <2>1
  <2>3. (\E i \in 1..Len(b) : b[i].event.kind = "started")
          <=> \E i \in 1..Len(a) : a[i].event.kind = "started"
    BY <2>1, <2>2
  <2> QED
    BY <2>3 DEF a, b
<1>2. Begun(j) => Begun(k)
  BY BegunAppends
<1> QED
  BY <1>1, <1>2 DEF SameTurn, HasStarted

\* Text that is flushed tells nothing of the turn.
LEMMA SameFlushed == ASSUME NEW j \in Journals PROVE SameTurn(j, Flushed(j))
<1>1. PICK k \in Journals :
        /\ k = Flushed(j)
        /\ k = j \/ Refuses(j, k) \/ (j.text # <<>> /\ Accepts(j, k, Checkpoint(j.text)))
  BY FlushedIs
<1>2. CASE k = j \/ Refuses(j, k)
  <2>1. Refuses(j, k)
    BY <1>2 DEF Refuses
  <2> QED
    BY <1>1, <2>1, SameRefused
<1>3. CASE Accepts(j, k, Checkpoint(j.text))
  <2>1. Checkpoint(j.text) \in Events /\ Checkpoint(j.text).kind = "checkpoint"
    BY EventIs DEF Journals
  <2>2. k.admitted = Append(j.admitted, NewRecord(j, Checkpoint(j.text))) /\ ~Deaf(j)
    BY <1>3 DEF Accepts, Deaf
  <2> QED
    BY <1>1, <2>1, <2>2, SameAppended
<1> QED
  BY <1>1, <1>2, <1>3

\* A barrier that is asked for tells nothing of the turn.
LEMMA SameSynced ==
  ASSUME JournalTypes, NEW j \in Journals, CallSync(j)
  PROVE  SameTurn(j, journal')
<1>1. journal' = j \/ journal' = Flushed(j)
  BY CallSyncIs DEF JournalTypes
<1>2. Refuses(j, j)
  BY DEF Refuses
<1> QED
  BY <1>1, <1>2, SameRefused, SameFlushed

\* Neither does what the writer and the host do.
LEMMA JournalTurn == ASSUME JournalTypes, JournalStep PROVE SameTurn(journal, journal')
<1>1. journal \in Journals
  BY DEF JournalTypes
<1>2. CASE UNCHANGED journal
  <2>1. Refuses(journal, journal')
    BY <1>2 DEF Refuses
  <2> QED
    BY <2>1, SameRefused
<1>3. CASE journal' = IsDegraded
  <2>1. Refuses(journal, journal')
    BY <1>1, <1>3 DEF Refuses, IsDegraded, Journals
  <2> QED
    BY <2>1, SameRefused
<1>4. CASE WriterTakes
  <2>1. journal'.admitted = journal.admitted /\ (Deaf(journal) => Deaf(journal'))
    BY <1>1, <1>4 DEF WriterTakes, Journals, Deaf
  <2> QED
    BY <2>1, SameAdmitted
<1>5. CASE Closes /\ journal' # journal
  <2>1. PICK j : j = Flushed(journal)
    OBVIOUS
  <2>2. j \in Journals /\ SameTurn(journal, j)
    BY <1>1, <2>1, FlushedIs, SameFlushed
  <2>3. journal' = [j EXCEPT !.accepting = FALSE]
    BY <1>5, <2>1 DEF Closes
  <2>4. journal'.admitted = j.admitted /\ (Deaf(j) => Deaf(journal'))
    BY <2>2, <2>3 DEF Journals, Deaf
  <2>5. SameTurn(j, journal')
    BY <2>4, SameAdmitted
  <2> QED
    BY <2>2, <2>5 DEF SameTurn
<1>6. CASE PutEnd
  <2>1. /\ journal' \in Journals
        /\ journal'.admitted = Append(journal.admitted, NewRecord(journal, Plain("end")))
        /\ journal'.accepting = journal.accepting /\ journal'.degraded = journal.degraded
    BY <1>1, <1>6, EndIs DEF PutEnd, NewRecord
  <2>2. Plain("end") \in Events /\ Plain("end").kind = "end"
    BY EventIs DEF Kinds
  <2> QED
    BY <1>1, <2>1, <2>2, SameAppended DEF Deaf
<1>7. CASE PutClose
  <2>1. journal'.admitted = journal.admitted /\ (Deaf(journal) => Deaf(journal'))
    BY <1>1, <1>7 DEF PutClose, Journals, Deaf
  <2> QED
    BY <2>1, SameAdmitted
<1>8. CASE Closed
  <2>1. journal'.admitted = journal.admitted /\ (Deaf(journal) => Deaf(journal'))
    BY <1>1, <1>8 DEF Closed, Journals, Deaf
  <2> QED
    BY <2>1, SameAdmitted
<1>9. CASE Locks
  BY <1>1, <1>9, SameSynced DEF Locks
<1>10. ASSUME NEW t \in Clients, PutBarrier(t) PROVE SameTurn(journal, journal')
  <2>1. journal'.admitted = journal.admitted /\ (Deaf(journal) => Deaf(journal'))
    BY <1>1, <1>10 DEF PutBarrier, Journals, Deaf
  <2> QED
    BY <2>1, SameAdmitted
<1> QED
  BY <1>2, <1>3, <1>4, <1>5, <1>6, <1>7, <1>8, <1>9, <1>10
     DEF JournalStep, WriterStep, WriterAppends, WriterSyncs, WriterSyncsDirectories, WriterEnds,
         Fault, HostStep, Opened, CloseCancelled

\* The recorder has its event in hand as long as it waits.
LEMMA RecorderStep ==
  ASSUME JournalTypes, TurnTypes, StartInv, RecorderInv, [Next]_vars
  PROVE  RecorderInv'
<1>1. CASE pc'.recorder = "out"
  BY <1>1 DEF RecorderInv
<1>2. CASE pc'.recorder # "out" /\ pc.recorder # "out"
  <2>1. todo # <<>> /\ Durable(Head(todo))
    BY <1>2 DEF RecorderInv
  <2>2. UNCHANGED todo
    <3>1. ~Begin /\ ~Streaming /\ ~NoteInterruption /\ ~Record
      BY <1>2, <2>1 DEF StartInv, Begin, Streaming, NoteInterruption, Record
    <3>2. ~CancelRecorder
      BY <1>2, LeavesIs DEF CancelRecorder
    <3>3. ~Synced
      BY <1>2 DEF Synced, JournalTypes, Clients
    <3> QED
      BY <3>1, <3>2, <3>3 DEF Next, TurnStep, Say, EndWithTools, EndWithPause, Respond, Fail,
         Cancel, turnVars, vars
  <2> QED
    BY <2>1, <2>2 DEF RecorderInv, Durable
<1>3. CASE pc'.recorder # "out" /\ pc.recorder = "out"
  <2>1. CASE Record
    <3>1. /\ todo # <<>>
          /\ (Durable(Head(todo)) /\ UNCHANGED todo) \/ UNCHANGED pc
      BY <2>1, RecordIs
    <3> QED
      BY <1>3, <3>1 DEF RecorderInv, Durable
  <2>2. CASE JournalStep
    <3>1. ~Locks
      BY <1>3 DEF Locks
    <3>2. ASSUME NEW t \in Clients, PutBarrier(t) PROVE FALSE
      BY <1>3, <3>2 DEF PutBarrier, Clients, JournalTypes
    <3> QED
      BY <1>3, <2>2, <3>1, <3>2 DEF JournalStep, WriterStep, WriterTakes, WriterAppends,
         WriterSyncs, WriterSyncsDirectories, WriterEnds, HostStep, Opened, Closes, PutEnd,
         PutClose, Closed, CloseCancelled, JournalTypes, Clients
  <2>3. CASE UNCHANGED pc
    BY <1>3, <2>3
  <2>4. CASE CancelRecorder \/ Synced
    BY <1>3, <2>4, LeavesIs DEF CancelRecorder, Synced, JournalTypes, Clients
  <2> QED
    BY <2>1, <2>2, <2>3, <2>4 DEF Next, TurnStep, Begin, Say, EndWithTools, EndWithPause,
       Respond, Fail, Cancel, NoteInterruption, journalVars, vars
<1> QED
  BY <1>1, <1>2, <1>3

\* A step that publishes no start, after one that is past.
LEMMA StartPast ==
  ASSUME StartInv, SameTurn(journal, journal'), phase # "before", phase' # "before",
         todo = <<>> \/ Head(todo).kind # "started",
         todo' \in Seq(Events), \A i \in 1..Len(todo') : todo'[i].kind # "started"
  PROVE  StartInv'
<1>1. Begun(journal') /\ (HasStarted(journal) \/ Deaf(journal) => HasStarted(journal') \/ Deaf(journal'))
  BY DEF StartInv, SameTurn
<1>2. HasStarted(journal) \/ Deaf(journal)
  BY DEF StartInv
<1>3. todo' # <<>> => Head(todo').kind # "started"
  <2>1. todo' # <<>> => Len(todo') \in Nat /\ 1 <= Len(todo') /\ Head(todo') = todo'[1]
    OBVIOUS
  <2> QED
    BY <2>1
<1>4. \A i \in 2..Len(todo') : todo'[i].kind # "started"
  <2>1. Len(todo') \in Nat
    OBVIOUS
  <2> QED
    BY <2>1
<1> QED
  BY <1>1, <1>2, <1>3, <1>4 DEF StartInv

\* The events of a turn behind its first one are no start.
LEMMA NoStart ==
  /\ Answer.kind # "started" /\ Results.kind # "started" /\ Notice.kind # "started"
  /\ \A t : Committed("assistant", t).kind # "started" /\ Committed("user", t).kind # "started"
  /\ Plain("started").kind = "started" /\ Plain("result").kind # "started"
  /\ \A s \in Statuses : Finished(s).kind # "started"
BY EventIs DEF Answer, Results, Notice, Committed, Plain

\* The end of a cancelled turn is published behind its last message.
LEMMA UnwindStart == ASSUME TurnTypes, Unwind PROVE \A i \in 1..Len(todo') : todo'[i].kind # "started"
<1>1. PICK c, f : c = Committed("assistant", current) /\ f = Finished("cancelled")
  OBVIOUS
<1>2. PICK added : (added = <<>> \/ added = <<c>>) /\ todo' = Append(added, f)
  BY <1>1 DEF Unwind
<1>3. c.kind # "started" /\ f.kind # "started"
  BY <1>1, NoStart DEF Statuses
<1>4. added \in Seq({c}) /\ Len(added) \in Nat /\ \A i \in 1..Len(added) : added[i] = c
  <2>1. <<>> \in Seq({c}) /\ <<c>> \in Seq({c})
    OBVIOUS
  <2>2. added \in Seq({c})
    BY <1>2, <2>1
  <2> QED
    BY <2>2
<1>5. /\ Len(todo') = Len(added) + 1 /\ todo'[Len(added) + 1] = f
      /\ \A i \in 1..Len(added) : todo'[i] = added[i]
  BY <1>2, <1>4
<1>6. \A i \in 1..Len(todo') : i \in 1..Len(added) \/ i = Len(added) + 1
  BY <1>4, <1>5
<1> QED
  BY <1>3, <1>4, <1>5, <1>6

\* The start is recorded before the end, if anything is.
LEMMA StartRecord ==
  ASSUME JournalTypes, TurnTypes, StartInv, Record
  PROVE  StartInv'
<1> DEFINE e == Head(todo)
<1>1. PICK b, a \in Journals :
        /\ b = IF Durable(e) THEN Flushed(journal) ELSE journal
        /\ todo # <<>> /\ e \in Events
        /\ \/ /\ Durable(e) /\ Accepts(b, a, e)
              /\ CallSync(a) /\ UNCHANGED <<todo, phase>>
           \/ /\ (Refuses(b, a) /\ Deaf(a)) \/ (Accepts(b, a, e) /\ ~Durable(e))
              /\ journal' = AfterEvent(a, e)
              /\ Recorded(e) /\ UNCHANGED <<pc, holder>>
  BY RecordIs
<1>2. journal \in Journals
  BY DEF JournalTypes
<1>3. SameTurn(journal, b)
  <2>1. Refuses(journal, journal)
    BY DEF Refuses
  <2> QED
    BY <1>1, <1>2, <2>1, SameFlushed, SameRefused
<1>4. SameTurn(a, journal')
  <2>1. CASE CallSync(a)
    BY <2>1, SameSynced
  <2>2. CASE journal' = AfterEvent(a, e)
    BY <2>2, AfterEventIs, SameRefused
  <2> QED
    BY <1>1, <2>1, <2>2
<1>5. phase # "before" /\ todo \in Seq(Events)
  BY <1>1 DEF StartInv, TurnTypes
<1>6. Begun(b) /\ (Deaf(journal) => Deaf(b)) /\ (HasStarted(b) <=> HasStarted(journal))
  BY <1>3 DEF StartInv, SameTurn
<1>7. Accepts(b, a, e) => ~Deaf(b) /\ a.admitted = Append(b.admitted, NewRecord(b, e)) /\ ~Deaf(a)
  BY DEF Accepts, Deaf
<1>8. \/ todo' = todo /\ phase' = phase
      \/ todo' = Tail(todo) /\ phase' # "before"
  BY <1>1, <1>5 DEF Recorded, Then
<1>9. phase' # "before"
  BY <1>5, <1>8
<1> HIDE DEF e
<1>10. CASE e.kind = "started"
  <2>1. ~Durable(e)
    BY <1>10 DEF Durable
  <2>2. ~HasStarted(b)
    BY <1>1, <1>6, <1>10 DEF StartInv, e
  <2>3. Begun(a) /\ (HasStarted(a) \/ Deaf(a))
    <3>1. CASE Refuses(b, a) /\ Deaf(a)
      <4>1. SameTurn(b, a)
        BY <3>1, SameRefused
      <4> QED
        BY <1>6, <3>1, <4>1 DEF SameTurn
    <3>2. CASE Accepts(b, a, e)
      BY <1>1, <1>6, <1>7, <1>10, <2>2, <3>2, BegunAppends
    <3> QED
      BY <1>1, <2>1, <3>1, <3>2
  <2>4. Begun(journal') /\ (HasStarted(journal') \/ Deaf(journal'))
    BY <1>4, <2>3 DEF SameTurn
  <2>5. todo' = Tail(todo)
    BY <1>1, <2>1 DEF Recorded
  <2>6. /\ todo' # <<>> => Head(todo').kind # "started"
        /\ \A i \in 2..Len(todo') : todo'[i].kind # "started"
    <3>1. \A i \in 2..Len(todo) : todo[i].kind # "started"
      BY DEF StartInv
    <3>2. Len(todo') = Len(todo) - 1 /\ Len(todo) \in Nat /\ \A i \in 1..Len(todo') : todo'[i] = todo[i + 1]
      BY <1>1, <1>5, <2>5
    <3>3. \A i \in 1..Len(todo') : todo'[i].kind # "started"
      BY <3>1, <3>2
    <3>4. todo' # <<>> => 1 \in 1..Len(todo') /\ Head(todo') = todo'[1]
      BY <1>1, <1>5, <2>5
    <3> QED
      BY <3>2, <3>3, <3>4
  <2> QED
    BY <1>9, <2>4, <2>6 DEF StartInv
<1>11. CASE e.kind # "started"
  <2>1. HasStarted(journal) \/ Deaf(journal)
    BY <1>1, <1>5, <1>11 DEF StartInv, e
  <2>2. SameTurn(b, a)
    <3>1. CASE Refuses(b, a) /\ Deaf(a)
      BY <3>1, SameRefused
    <3>2. CASE Accepts(b, a, e)
      <4>1. HasStarted(b)
        BY <1>6, <1>7, <2>1, <3>2
      <4>2. Begun(a) /\ HasStarted(a)
        BY <1>1, <1>6, <1>7, <1>11, <3>2, <4>1, BegunAppends
      <4> QED
        BY <1>7, <3>2, <4>1, <4>2 DEF SameTurn
    <3> QED
      BY <1>1, <3>1, <3>2
  <2>3. SameTurn(journal, journal')
    BY <1>3, <1>4, <2>2 DEF SameTurn
  <2>4. /\ todo' \in Seq(Events)
        /\ \A i \in 1..Len(todo') : todo'[i].kind # "started"
    <3>1. \A i \in 1..Len(todo) : todo[i].kind # "started"
      <4>1. \A i \in 2..Len(todo) : todo[i].kind # "started"
        BY DEF StartInv
      <4>2. e = todo[1] /\ Len(todo) \in Nat
        BY <1>1, <1>5 DEF e
      <4>3. \A i \in 1..Len(todo) : i = 1 \/ i \in 2..Len(todo)
        BY <4>2
      <4> QED
        BY <1>11, <4>1, <4>2, <4>3
    <3>2. CASE todo' = todo
      BY <1>5, <3>1, <3>2
    <3>3. CASE todo' = Tail(todo)
      <4>1. /\ todo' \in Seq(Events) /\ Len(todo') = Len(todo) - 1 /\ Len(todo) \in Nat
            /\ \A i \in 1..Len(todo') : todo'[i] = todo[i + 1]
        BY <1>1, <1>5, <3>3
      <4> QED
        BY <3>1, <4>1
    <3> QED
      BY <1>8, <3>2, <3>3
  <2>5. Head(todo).kind # "started"
    BY <1>11 DEF e
  <2> QED
    BY <1>5, <1>9, <2>3, <2>4, <2>5, StartPast
<1> QED
  BY <1>10, <1>11

\* Every step keeps the order of the turn.
LEMMA StartStep ==
  ASSUME JournalTypes, TurnTypes, StartInv, RecorderInv, [Next]_vars
  PROVE  StartInv'
<1>1. CASE SameTurn(journal, journal') /\ UNCHANGED <<phase, todo>>
  BY <1>1 DEF StartInv, SameTurn
<1>2. CASE Begin
  <2>1. phase = "before" /\ ~HasStarted(journal) /\ Begun(journal) /\ journal' = journal
    BY <1>2 DEF Begin, StartInv, journalVars
  <2>2. todo' = <<Plain("started"), Committed("user", <<>>)>> /\ phase' = "streaming"
    BY <1>2 DEF Begin
  <2>3. /\ todo' # <<>> /\ Head(todo').kind = "started"
        /\ \A i \in 2..Len(todo') : todo'[i].kind # "started"
    BY <2>2, NoStart
  <2> QED
    BY <2>1, <2>2, <2>3 DEF StartInv
<1>3. TurnTypes'
  BY TypesStep
<1>4. todo' \in Seq(Events)
  BY <1>3 DEF TurnTypes
<1>5. UNCHANGED journal => SameTurn(journal, journal')
  BY DEF SameTurn
<1>6. CASE Say
  <2>1. PICK isTime \in BOOLEAN :
          journal' = Observed(journal, <<round.n, Len(round.text) + 1>>, isTime)
    BY <1>6 DEF Say
  <2> DEFINE piece == <<round.n, Len(round.text) + 1>>
  <2>2. piece \in Pieces
    <3>1. round.n \in Nat /\ Len(round.text) + 1 \in Nat
      BY DEF TurnTypes
    <3> QED
      BY <3>1 DEF Pieces
  <2>3. journal' = Observed(journal, piece, isTime) /\ journal \in Journals
    BY <2>1 DEF JournalTypes
  <2> HIDE DEF piece
  <2> DEFINE t == Append(journal.text, piece)
  <2>4. journal' \in Journals
        /\ (Refuses(journal, journal') \/ Accepts(journal, journal', Checkpoint(t)))
    BY <2>2, <2>3, ObservedIs
  <2>5. Checkpoint(t) \in Events /\ Checkpoint(t).kind = "checkpoint"
    <3>1. t \in Seq(Pieces)
      BY <2>2, <2>3 DEF Journals
    <3> QED
      BY <3>1, EventIs
  <2> HIDE DEF t
  <2>6. Accepts(journal, journal', Checkpoint(t)) =>
          /\ journal'.admitted = Append(journal.admitted, NewRecord(journal, Checkpoint(t)))
          /\ ~Deaf(journal)
    BY DEF Accepts, Deaf
  <2>7. SameTurn(journal, journal')
    BY <2>3, <2>4, <2>5, <2>6, SameRefused, SameAppended
  <2> QED
    BY <1>1, <1>6, <2>7 DEF Say
<1>7. CASE EndWithTools \/ EndWithPause \/ Respond \/ Fail \/ Cancel
  <2>1. phase = "streaming" /\ todo = <<>> /\ journal' = journal /\ phase' # "before"
    BY <1>7 DEF EndWithTools, EndWithPause, Respond, Fail, Cancel, Unwind, Streaming, journalVars
  <2>2. \A i \in 1..Len(todo') : todo'[i].kind # "started"
    <3>1. CASE EndWithTools
      <4>1. todo' = <<Answer, Results, Plain("result")>>
        BY <3>1 DEF EndWithTools
      <4> QED
        BY <4>1, NoStart
    <3>2. CASE EndWithPause
      <4>1. todo' = <<Answer>>
        BY <3>2 DEF EndWithPause
      <4> QED
        BY <4>1, NoStart
    <3>3. CASE Respond
      <4>1. PICK s \in Statuses : todo' = <<Answer, Finished(s)>>
        BY <3>3 DEF Respond, Statuses
      <4> QED
        BY <4>1, NoStart
    <3>4. CASE Fail
      <4>1. todo' = <<Finished("failed")>> /\ "failed" \in Statuses
        BY <3>4 DEF Fail, Statuses
      <4> QED
        BY <4>1, NoStart
    <3>5. CASE Cancel
      BY <3>5, UnwindStart DEF Cancel
    <3> QED
      BY <1>7, <3>1, <3>2, <3>3, <3>4, <3>5
  <2> QED
    BY <1>4, <1>5, <2>1, <2>2, StartPast
<1>8. CASE CancelRecorder
  <2>1. pc.recorder # "out" /\ phase # "before" /\ phase' # "before"
    BY <1>8 DEF CancelRecorder, Unwind
  <2>2. Head(todo).kind # "started"
    BY <2>1 DEF RecorderInv, Durable
  <2>3. \A i \in 1..Len(todo') : todo'[i].kind # "started"
    <3>1. CASE Unwind
      BY <3>1, UnwindStart
    <3>2. CASE todo' = <<>>
      BY <3>2
    <3> QED
      BY <1>8, <3>1, <3>2 DEF CancelRecorder
  <2>4. SameTurn(journal, journal')
    <3>1. journal' = [journal EXCEPT !.queue = journal'.queue] /\ journal \in Journals
      BY <1>8, LeavesIs DEF CancelRecorder, JournalTypes
    <3>2. journal'.admitted = journal.admitted /\ journal'.degraded = journal.degraded
          /\ journal'.accepting = journal.accepting
      BY <3>1 DEF Journals
    <3> QED
      BY <3>2, SameAdmitted DEF Deaf
  <2> QED
    BY <1>4, <2>1, <2>2, <2>3, <2>4, StartPast
<1>9. CASE NoteInterruption
  <2>1. phase = "over" /\ phase' = "over" /\ todo = <<>> /\ todo' = <<Notice>> /\ journal' = journal
    BY <1>9 DEF NoteInterruption, journalVars
  <2>2. \A i \in 1..Len(todo') : todo'[i].kind # "started"
    BY <2>1, NoStart
  <2> QED
    BY <1>4, <1>5, <2>1, <2>2, StartPast
<1>10. CASE Record
  BY <1>10, StartRecord
<1>11. CASE Synced
  <2>1. todo # <<>> /\ Durable(Head(todo)) /\ todo \in Seq(Events)
    BY <1>11 DEF Synced, RecorderInv, TurnTypes
  <2>2. phase # "before" /\ Head(todo).kind # "started"
    BY <2>1 DEF StartInv, Durable
  <2>3. todo' = Tail(todo) /\ phase' # "before"
    BY <1>11, <2>2 DEF Synced, Recorded, Then
  <2>4. \A i \in 1..Len(todo') : todo'[i].kind # "started"
    <3>1. Len(todo') = Len(todo) - 1 /\ Len(todo) \in Nat /\ \A i \in 1..Len(todo') : todo'[i] = todo[i + 1]
      BY <2>1, <2>3
    <3>2. \A i \in 2..Len(todo) : todo[i].kind # "started"
      BY DEF StartInv
    <3> QED
      BY <3>1, <3>2
  <2>5. SameTurn(journal, journal')
    BY <1>11, AfterEventIs, SameRefused DEF Synced, JournalTypes
  <2> QED
    BY <1>4, <2>2, <2>3, <2>4, <2>5, StartPast
<1>12. CASE JournalStep /\ UNCHANGED turnVars
  BY <1>1, <1>12, JournalTurn DEF turnVars
<1>13. CASE UNCHANGED vars
  BY <1>1, <1>5, <1>13 DEF vars, journalVars, turnVars
<1> QED
  BY <1>2, <1>6, <1>7, <1>8, <1>9, <1>10, <1>11, <1>12, <1>13 DEF Next, TurnStep

-----------------------------------------------------------------------------
(* Every step keeps the pipe whole.                                        *)

\* An item that is no record leaves it as it is.
LEMMA PipeQueued ==
  ASSUME NEW j \in Journals, NEW item \in Items, item.do # "record",
         NEW w, NEW f \in Seq(Records), NEW tn, Pipe(j, w, f, tn)
  PROVE  Pipe([j EXCEPT !.queue = Append(@, item)], w, f, tn)
<1>0. PICK k : k = [j EXCEPT !.queue = Append(@, item)]
  OBVIOUS
<1>1. k.queue = Append(j.queue, item) /\ k = [j EXCEPT !.queue = k.queue]
  BY <1>0, QueuedIs
<1>2. /\ k.admitted = j.admitted /\ k.next = j.next /\ k.degraded = j.degraded
      /\ j.queue \in Seq(Items) /\ Len(f) \in Nat
  BY <1>1 DEF Journals
<1>3. Numbered(k) /\ Written(k, f)
  BY <1>2 DEF Pipe, Numbered, Written
<1>4. InHand(k, w, f, tn)
  BY <1>2 DEF Pipe, InHand
<1>5. Flows(k, w, f, tn)
  <2> SUFFICES ASSUME ~k.degraded, w.at \notin {"finally", "over"}
               PROVE  ~tn /\ QueueFits(k.queue, k.admitted, Base(w, f))
    BY DEF Flows
  <2>1. ~tn /\ QueueFits(j.queue, j.admitted, Base(w, f)) /\ Base(w, f) \in Nat
    BY <1>2 DEF Pipe, Flows, Base
  <2> QED
    BY <1>1, <1>2, <2>1, QueueOther
<1> QED
  BY <1>0, <1>3, <1>4, <1>5 DEF Pipe

\* The turn and its recorder.
LEMMA PipeTurn ==
  ASSUME JournalTypes, TurnTypes, PipeInv, TurnStep \/ Synced
  PROVE  PipeInv'
<1>1. /\ journal \in Journals /\ file \in Seq(Records) /\ Pipe(journal, writer, file, torn)
      /\ durable <= Len(file)
  BY DEF JournalTypes, PipeInv
<1>2. CASE UNCHANGED journalVars
  BY <1>2 DEF PipeInv, journalVars, fileVars
<1>3. CASE Say
  <2> DEFINE piece == <<round.n, Len(round.text) + 1>>
  <2>1. PICK isTime \in BOOLEAN : journal' = Observed(journal, piece, isTime)
    BY <1>3 DEF Say
  <2>2. piece \in Pieces
    <3>1. round.n \in Nat /\ Len(round.text) + 1 \in Nat
      BY DEF TurnTypes
    <3> QED
      BY <3>1 DEF Pieces
  <2> HIDE DEF piece
  <2>3. /\ journal' \in Journals
        /\ \/ Refuses(journal, journal')
           \/ Accepts(journal, journal', Checkpoint(Append(journal.text, piece)))
    BY <1>1, <2>1, <2>2, ObservedIs
  <2>4. Checkpoint(Append(journal.text, piece)) \in Events
    <3>1. Append(journal.text, piece) \in Seq(Pieces)
      BY <1>1, <2>2 DEF Journals
    <3> QED
      BY <3>1, EventIs
  <2>5. Pipe(journal', writer, file, torn)
    BY <1>1, <2>3, <2>4, PipeRefuses, PipeAccepts
  <2>6. UNCHANGED <<writer, file, torn, durable>>
    BY <1>3 DEF Say, fileVars
  <2> QED
    BY <1>1, <2>5, <2>6 DEF PipeInv
<1>4. CASE CancelRecorder
  <2>1. Leaves("recorder", "out") /\ UNCHANGED <<file, torn, durable>>
    BY <1>4 DEF CancelRecorder, fileVars
  <2>2. /\ journal' \in Journals /\ journal' = [journal EXCEPT !.queue = journal'.queue]
        /\ Len(journal'.queue) = Len(journal.queue)
        /\ \A i \in 1..Len(journal.queue) :
             /\ journal'.queue[i].do = journal.queue[i].do
             /\ journal'.queue[i].record = journal.queue[i].record
        /\ writer'.at = writer.at /\ writer'.item.record = writer.item.record
    BY <2>1, LeavesIs
  <2>3. /\ journal'.admitted = journal.admitted /\ journal'.next = journal.next
        /\ journal'.degraded = journal.degraded
    BY <1>1, <2>2 DEF Journals
  <2>4. Numbered(journal') /\ Written(journal', file')
    BY <1>1, <2>1, <2>3 DEF Pipe, Numbered, Written
  <2>5. InHand(journal', writer', file', torn')
    BY <1>1, <2>1, <2>2, <2>3 DEF Pipe, InHand
  <2>6. Flows(journal', writer', file', torn')
    <3> SUFFICES ASSUME ~journal'.degraded, writer'.at \notin {"finally", "over"}
                 PROVE  ~torn' /\ QueueFits(journal'.queue, journal'.admitted, Base(writer', file'))
      BY DEF Flows
    <3>1. ~torn /\ QueueFits(journal.queue, journal.admitted, Base(writer, file))
      BY <1>1, <2>2, <2>3 DEF Pipe, Flows
    <3>2. QueueFits(journal'.queue, journal.admitted, Base(writer, file))
      BY <2>2, <3>1, QueueForgets
    <3>3. Base(writer', file') = Base(writer, file)
      BY <2>1, <2>2 DEF Base
    <3> QED
      BY <2>1, <2>3, <3>1, <3>2, <3>3
  <2> QED
    BY <1>1, <2>1, <2>4, <2>5, <2>6 DEF PipeInv, Pipe
<1>5. CASE Record
  <2>1. PICK b, a \in Journals :
          /\ b = IF Durable(Head(todo)) THEN Flushed(journal) ELSE journal
          /\ Head(todo) \in Events
          /\ Refuses(b, a) \/ Accepts(b, a, Head(todo))
          /\ CallSync(a) \/ journal' = AfterEvent(a, Head(todo))
          /\ UNCHANGED <<writer, fileVars>>
    BY <1>5, RecordIs
  <2>2. Pipe(b, writer, file, torn)
    BY <1>1, <2>1, PipeFlushed
  <2>3. Pipe(a, writer, file, torn)
    BY <1>1, <2>1, <2>2, PipeRefuses, PipeAccepts
  <2>4. Pipe(journal', writer, file, torn)
    <3>1. CASE CallSync(a)
      <4>1. journal' = a \/ journal' = Flushed(a)
        BY <3>1, CallSyncIs DEF JournalTypes
      <4> QED
        BY <1>1, <2>3, <4>1, PipeFlushed
    <3>2. CASE journal' = AfterEvent(a, Head(todo))
      <4>1. journal' \in Journals /\ Refuses(a, journal')
        BY <3>2, AfterEventIs
      <4> QED
        BY <1>1, <2>3, <4>1, PipeRefuses
    <3> QED
      BY <2>1, <3>1, <3>2
  <2> QED
    BY <1>1, <2>1, <2>4 DEF PipeInv, fileVars
<1>6. CASE Synced
  <2>1. journal' = AfterEvent(journal, Head(todo)) /\ UNCHANGED <<writer, fileVars>>
    BY <1>6 DEF Synced
  <2>2. journal' \in Journals /\ Refuses(journal, journal')
    BY <1>1, <2>1, AfterEventIs
  <2>3. Pipe(journal', writer, file, torn)
    BY <1>1, <2>2, PipeRefuses
  <2> QED
    BY <1>1, <2>1, <2>3 DEF PipeInv, fileVars
<1> QED
  BY <1>2, <1>3, <1>4, <1>5, <1>6 DEF TurnStep, Begin, EndWithTools, EndWithPause, Respond, Fail,
     Cancel, NoteInterruption

\* A line that is appended while nothing is torn is the record in hand.
LEMMA WrittenAppends ==
  ASSUME NEW j \in Journals, NEW f \in Seq(Records), NEW r \in Records,
         Len(f) < Len(j.admitted), r = j.admitted[Len(f) + 1], Written(j, f)
  PROVE  Written(j, Append(f, r)) /\ Len(Append(f, r)) = Len(f) + 1
<1> DEFINE g == Append(f, r)
<1>1. /\ Len(g) = Len(f) + 1 /\ g[Len(f) + 1] = r /\ Len(f) \in Nat /\ Len(j.admitted) \in Nat
      /\ \A i \in 1..Len(f) : g[i] = f[i]
  BY DEF Journals
<1> HIDE DEF g
<1>2. \A i \in 1..Len(g) : i \in 1..Len(f) \/ i = Len(f) + 1
  BY <1>1
<1>3. \A i \in 1..Len(g) : g[i] = j.admitted[i]
  BY <1>1, <1>2 DEF Written
<1>4. Len(g) <= Len(j.admitted)
  BY <1>1
<1>5. Written(j, g) /\ Len(g) = Len(f) + 1
  BY <1>1, <1>3, <1>4 DEF Written
<1> QED
  BY <1>5 DEF g

\* A fault ends the pipe, and what is written is what was.
LEMMA PipeFaults ==
  ASSUME NEW j \in Journals, NEW k \in Journals, k = [j EXCEPT !.degraded = TRUE],
         NEW w, NEW f, NEW tn, NEW v, NEW un, Pipe(j, w, f, tn), v.at # "append"
  PROVE  Pipe(k, v, f, un)
<1>1. /\ k.admitted = j.admitted /\ k.next = j.next /\ k.degraded
  BY DEF Journals
<1>2. Numbered(k)
  BY <1>1 DEF Pipe, Numbered
<1>3. Written(k, f)
  BY <1>1 DEF Pipe, Written
<1> QED
  BY <1>1, <1>2, <1>3 DEF Pipe, InHand, Flows

\* A writer that does not go on ends it as well.
LEMMA PipeEnds ==
  ASSUME NEW j, NEW w, NEW f, NEW tn, NEW v, NEW un, Pipe(j, w, f, tn), v.at \in {"finally", "over"}
  PROVE  Pipe(j, v, f, un)
BY DEF Pipe, InHand, Flows

\* A barrier takes no record.
LEMMA PipePasses ==
  ASSUME NEW j, NEW w, NEW f, NEW tn, NEW v, Pipe(j, w, f, tn),
         w.at \in {"fsync", "chain"}, v.at \in {"idle", "fsync", "chain"}
  PROVE  Pipe(j, v, f, tn)
<1>1. Base(v, f) = Base(w, f)
  BY DEF Base
<1>2. InHand(j, v, f, tn)
  BY DEF InHand
<1>3. Flows(j, v, f, tn)
  BY <1>1 DEF Pipe, Flows
<1> QED
  BY <1>2, <1>3 DEF Pipe

\* The writer takes the next item: a record goes into its hand.
LEMMA PipeTakes == ASSUME JournalTypes, PipeInv, WriterTakes PROVE PipeInv'
<1>1. /\ journal \in Journals /\ file \in Seq(Records) /\ Pipe(journal, writer, file, torn)
      /\ durable <= Len(file)
  BY DEF JournalTypes, PipeInv
<1>2. /\ writer.at = "idle" /\ journal.queue # <<>> /\ UNCHANGED <<file, torn, durable>>
      /\ journal' = [journal EXCEPT !.queue = Tail(journal.queue)]
  BY DEF WriterTakes, fileVars
<1>3. PICK item : item = Head(journal.queue)
  OBVIOUS
<1>4. /\ item \in Items /\ journal.queue \in Seq(Items) /\ Tail(journal.queue) \in Seq(Items)
  BY <1>1, <1>2, <1>3 DEF Journals
<1>5. /\ journal'.queue = Tail(journal.queue) /\ journal'.admitted = journal.admitted
      /\ journal'.next = journal.next /\ journal'.degraded = journal.degraded
  BY <1>1, <1>2 DEF Journals
<1>6. /\ item.do = "sync" => writer' = [at |-> "fsync", item |-> item]
      /\ item.do = "close" => writer' = [at |-> "finally", item |-> item]
      /\ item.do = "record" => writer' = IF journal.degraded THEN writer
                                         ELSE [at |-> "append", item |-> item]
  BY <1>3 DEF WriterTakes
<1>7. Numbered(journal') /\ Written(journal', file)
  BY <1>1, <1>5 DEF Pipe, Numbered, Written
<1>8. Base(writer, file) = Len(file) /\ Len(file) \in Nat
  BY <1>1, <1>2 DEF Base
<1>9. ~journal.degraded =>
        /\ ~torn
        /\ item.do # "record" => QueueFits(journal'.queue, journal'.admitted, Len(file))
        /\ item.do = "record" =>
             /\ Len(file) < Len(journal.admitted)
             /\ item.record = journal.admitted[Len(file) + 1]
             /\ QueueFits(journal'.queue, journal'.admitted, Len(file) + 1)
  <2> SUFFICES ASSUME ~journal.degraded
               PROVE  /\ ~torn
                      /\ item.do # "record" => QueueFits(journal'.queue, journal'.admitted, Len(file))
                      /\ item.do = "record" =>
                           /\ Len(file) < Len(journal.admitted)
                           /\ item.record = journal.admitted[Len(file) + 1]
                           /\ QueueFits(journal'.queue, journal'.admitted, Len(file) + 1)
    OBVIOUS
  <2>1. ~torn /\ QueueFits(journal.queue, journal.admitted, Len(file))
    BY <1>1, <1>2, <1>8 DEF Pipe, Flows
  <2> QED
    BY <1>2, <1>3, <1>4, <1>5, <1>8, <2>1, QueueTakes
<1>10. CASE item.do = "sync"
  <2>1. writer'.at = "fsync"
    BY <1>6, <1>10
  <2>2. Flows(journal', writer', file, torn) /\ InHand(journal', writer', file, torn)
    BY <1>5, <1>9, <1>10, <2>1 DEF Flows, Base, InHand
  <2> QED
    BY <1>1, <1>2, <1>7, <2>2 DEF PipeInv, Pipe
<1>11. CASE item.do = "close"
  <2>1. writer'.at = "finally"
    BY <1>6, <1>11
  <2>2. Flows(journal', writer', file, torn) /\ InHand(journal', writer', file, torn)
    BY <2>1 DEF Flows, InHand
  <2> QED
    BY <1>1, <1>2, <1>7, <2>2 DEF PipeInv, Pipe
<1>12. CASE item.do = "record" /\ journal.degraded
  <2>1. writer'.at = "idle"
    BY <1>2, <1>6, <1>12
  <2>2. Flows(journal', writer', file, torn) /\ InHand(journal', writer', file, torn)
    BY <1>5, <1>12, <2>1 DEF Flows, InHand
  <2> QED
    BY <1>1, <1>2, <1>7, <2>2 DEF PipeInv, Pipe
<1>13. CASE item.do = "record" /\ ~journal.degraded
  <2>1. writer'.at = "append" /\ writer'.item.record = item.record
    BY <1>6, <1>13
  <2>2. InHand(journal', writer', file, torn)
    BY <1>5, <1>9, <1>13, <2>1 DEF InHand
  <2>3. Flows(journal', writer', file, torn)
    BY <1>9, <1>13, <2>1 DEF Flows, Base
  <2> QED
    BY <1>1, <1>2, <1>7, <2>2, <2>3 DEF PipeInv, Pipe
<1> QED
  BY <1>4, <1>10, <1>11, <1>12, <1>13 DEF Items

\* The record in the writer's hand becomes the next line.
LEMMA PipeAppended ==
  ASSUME JournalTypes, PipeInv, writer.at = "append", Appended(writer.item.record)
  PROVE  /\ Written(journal, file') /\ Len(file') = Len(file) + 1 /\ torn' = FALSE
<1>1. /\ journal \in Journals /\ file \in Seq(Records) /\ Pipe(journal, writer, file, torn)
      /\ writer.item.record \in Records
  BY DEF JournalTypes, PipeInv, Writers, Items
<1>2. /\ ~torn /\ Len(file) < Len(journal.admitted)
      /\ writer.item.record = journal.admitted[Len(file) + 1]
  BY <1>1 DEF Pipe, InHand
<1>3. file' = Append(file, writer.item.record) /\ torn' = FALSE
  BY <1>2 DEF Appended
<1>4. Written(journal, file)
  BY <1>1 DEF Pipe
<1>5. /\ Written(journal, Append(file, writer.item.record))
      /\ Len(Append(file, writer.item.record)) = Len(file) + 1
  BY <1>1, <1>2, <1>4, WrittenAppends
<1> QED
  BY <1>3, <1>5

\* The other steps of the writer.
LEMMA PipeWriter == ASSUME JournalTypes, PipeInv, WriterStep PROVE PipeInv'
<1>1. /\ journal \in Journals /\ file \in Seq(Records) /\ Pipe(journal, writer, file, torn)
      /\ durable \in Nat /\ durable <= Len(file) /\ Len(file) \in Nat
  BY DEF JournalTypes, PipeInv
<1>2. ASSUME Fault, file' = file, writer'.at # "append"
      PROVE  Pipe(journal', writer', file', torn')
  <2>1. journal' = [journal EXCEPT !.degraded = TRUE]
    BY <1>2 DEF Fault, IsDegraded
  <2>2. journal' \in Journals
    BY <1>1, <2>1 DEF Journals
  <2> QED
    BY <1>1, <1>2, <2>1, <2>2, PipeFaults
<1>3. CASE WriterTakes
  BY <1>3, PipeTakes
<1>4. CASE WriterAppends
  <2>1. writer.at = "append" /\ writer'.at = "idle" /\ durable' = durable
    BY <1>4 DEF WriterAppends, WriterIdle
  <2>2. CASE Appended(writer.item.record) /\ UNCHANGED <<journal, faults>>
    <3>1. /\ Written(journal, file') /\ Len(file') = Len(file) + 1 /\ torn' = FALSE
      BY <2>1, <2>2, PipeAppended
    <3>2. Base(writer', file') = Base(writer, file)
      BY <2>1, <3>1 DEF Base
    <3>3. Flows(journal, writer', file', torn')
      BY <1>1, <2>1, <3>1, <3>2 DEF Pipe, Flows
    <3>4. InHand(journal, writer', file', torn')
      BY <2>1 DEF InHand
    <3>5. Pipe(journal, writer', file', torn')
      BY <1>1, <3>1, <3>3, <3>4 DEF Pipe
    <3>6. durable' <= Len(file')
      BY <1>1, <2>1, <3>1
    <3> QED
      BY <2>2, <3>5, <3>6 DEF PipeInv
  <2>3. CASE Fault /\ UNCHANGED file
    BY <1>1, <1>2, <2>1, <2>3 DEF PipeInv
  <2> QED
    BY <1>4, <2>2, <2>3 DEF WriterAppends
<1>5. CASE WriterSyncs
  <2>1. writer.at = "fsync" /\ UNCHANGED <<file, torn>>
    BY <1>5 DEF WriterSyncs
  <2>2. CASE durable' = Len(file) /\ UNCHANGED journal /\ writer'.at \in {"idle", "chain"}
    <3>1. Pipe(journal, writer', file, torn)
      BY <1>1, <2>1, <2>2, PipePasses
    <3> QED
      BY <1>1, <2>1, <2>2, <3>1 DEF PipeInv
  <2>3. CASE Fault /\ WriterIdle /\ UNCHANGED durable
    <3>1. writer'.at # "append"
      BY <2>3 DEF WriterIdle
    <3> QED
      BY <1>1, <1>2, <2>1, <2>3, <3>1 DEF PipeInv
  <2>4. [writer EXCEPT !.at = "chain"].at = "chain"
    BY DEF JournalTypes, Writers
  <2>5. WriterIdle => writer'.at = "idle"
    BY DEF WriterIdle
  <2> QED
    BY <1>5, <2>2, <2>3, <2>4, <2>5 DEF WriterSyncs
<1>6. CASE WriterSyncsDirectories
  <2>1. writer.at = "chain" /\ UNCHANGED <<file, torn, durable>> /\ writer'.at = "idle"
    BY <1>6 DEF WriterSyncsDirectories, WriterIdle
  <2>2. CASE UNCHANGED journal
    <3>1. Pipe(journal, writer', file, torn)
      BY <1>1, <2>1, PipePasses
    <3> QED
      BY <1>1, <2>1, <2>2, <3>1 DEF PipeInv
  <2>3. CASE Fault
    BY <1>1, <1>2, <2>1, <2>3 DEF PipeInv
  <2> QED
    BY <1>6, <2>2, <2>3 DEF WriterSyncsDirectories
<1>7. CASE WriterEnds
  <2>1. UNCHANGED <<file, torn>> /\ writer'.at = "over"
    BY <1>7 DEF WriterEnds
  <2>2. CASE durable' = Len(file) /\ UNCHANGED journal
    <3>1. Pipe(journal, writer', file, torn)
      BY <1>1, <2>1, PipeEnds
    <3> QED
      BY <1>1, <2>1, <2>2, <3>1 DEF PipeInv
  <2>3. CASE Fault /\ UNCHANGED durable
    BY <1>1, <1>2, <2>1, <2>3 DEF PipeInv
  <2> QED
    BY <1>7, <2>2, <2>3 DEF WriterEnds
<1> QED
  BY <1>3, <1>4, <1>5, <1>6, <1>7 DEF WriterStep

\* The host, and whoever gets the lock or a place.
LEMMA PipeHost ==
  ASSUME JournalTypes, PipeInv,
         HostStep \/ CloseCancelled \/ Locks \/ \E t \in Clients : PutBarrier(t)
  PROVE  PipeInv'
<1>1. /\ journal \in Journals /\ file \in Seq(Records) /\ Pipe(journal, writer, file, torn)
      /\ durable \in Nat /\ durable <= Len(file) /\ Len(file) \in Nat
  BY DEF JournalTypes, PipeInv
<1>2. ASSUME UNCHANGED <<writer, fileVars>>, Pipe(journal', writer, file, torn) PROVE PipeInv'
  BY <1>1, <1>2 DEF PipeInv, fileVars
<1>3. CASE Opened
  BY <1>1, <1>2, <1>3 DEF Opened
<1>4. CASE Closes
  <2>1. PICK j : j = Flushed(journal)
    OBVIOUS
  <2>2. j \in Journals /\ Pipe(j, writer, file, torn)
    BY <1>1, <2>1, FlushedIs, PipeFlushed
  <2>3. CASE journal' = [j EXCEPT !.accepting = FALSE]
    <3>1. /\ journal'.queue = j.queue /\ journal'.admitted = j.admitted /\ journal'.next = j.next
          /\ journal'.degraded = j.degraded
      BY <2>2, <2>3 DEF Journals
    <3>2. Numbered(journal') /\ Written(journal', file)
      BY <2>2, <3>1 DEF Pipe, Numbered, Written
    <3>3. InHand(journal', writer, file, torn) /\ Flows(journal', writer, file, torn)
      BY <2>2, <3>1 DEF Pipe, InHand, Flows
    <3> QED
      BY <1>2, <1>4, <3>2, <3>3 DEF Closes, Pipe
  <2> QED
    BY <1>1, <1>2, <1>4, <2>1, <2>3 DEF Closes
<1>5. CASE PutEnd
  <2>0. journal' = [journal EXCEPT
                       !.queue = Append(@, RecordItem(NewRecord(journal, Plain("end")))),
                       !.next = @ + 1, !.admitted = Append(@, NewRecord(journal, Plain("end")))]
    BY <1>5 DEF PutEnd, NewRecord
  <2>1. /\ journal' \in Journals /\ Plain("end") \in Events
        /\ journal'.queue = Append(journal.queue, RecordItem(NewRecord(journal, Plain("end"))))
        /\ journal'.admitted = Append(journal.admitted, NewRecord(journal, Plain("end")))
        /\ journal'.next = journal.next + 1 /\ journal'.degraded = journal.degraded
    <3>1. Plain("end") \in Events
      BY EventIs DEF Kinds
    <3>2. PICK k : k = journal'
      OBVIOUS
    <3>3. k = [journal EXCEPT
                 !.queue = Append(@, RecordItem(NewRecord(journal, Plain("end")))),
                 !.next = @ + 1, !.admitted = Append(@, NewRecord(journal, Plain("end")))]
      BY <2>0, <3>2
    <3>4. /\ k \in Journals
          /\ k.queue = Append(journal.queue, RecordItem(NewRecord(journal, Plain("end"))))
          /\ k.admitted = Append(journal.admitted, NewRecord(journal, Plain("end")))
          /\ k.next = journal.next + 1 /\ k.degraded = journal.degraded
      BY <1>1, <3>3, EndIs
    <3> QED
      BY <3>1, <3>2, <3>4
  <2>2. Pipe(journal', writer, file, torn)
    BY <1>1, <2>1, PipeAppends
  <2> QED
    BY <1>2, <1>5, <2>2 DEF PutEnd
<1>6. CASE PutClose
  <2>1. CloseItem \in Items /\ CloseItem.do # "record"
    BY ItemIs
  <2>2. journal' = [journal EXCEPT !.queue = Append(@, CloseItem)]
    BY <1>6 DEF PutClose
  <2>3. Pipe(journal', writer, file, torn)
    BY <1>1, <2>1, <2>2, PipeQueued
  <2> QED
    BY <1>2, <1>6, <2>3 DEF PutClose
<1>7. CASE Closed
  <2>1. journal' \in Journals /\ Refuses(journal, journal')
    BY <1>1, <1>7 DEF Closed, Refuses, Journals
  <2> QED
    BY <1>1, <1>2, <1>7, <2>1, PipeRefuses DEF Closed
<1>8. CASE CloseCancelled
  <2>1. UNCHANGED <<journal, durable>>
    BY <1>8 DEF CloseCancelled
  <2>2. CASE UNCHANGED <<writer, file, torn>>
    BY <1>1, <2>1, <2>2 DEF PipeInv
  <2>3. CASE writer'.at = "finally" /\ UNCHANGED file
    <3>1. Pipe(journal, writer', file, torn')
      BY <1>1, <2>3, PipeEnds
    <3> QED
      BY <1>1, <2>1, <2>3, <3>1 DEF PipeInv
  <2>4. CASE writer'.at = "finally" /\ writer.at = "append" /\ Appended(writer.item.record)
    <3>1. Written(journal, file') /\ Len(file') = Len(file) + 1
      BY <2>4, PipeAppended
    <3>2. Pipe(journal, writer', file', torn')
      BY <1>1, <2>4, <3>1 DEF Pipe, InHand, Flows
    <3> QED
      BY <1>1, <2>1, <3>1, <3>2 DEF PipeInv
  <2> QED
    BY <1>8, <2>2, <2>3, <2>4 DEF CloseCancelled
<1>9. CASE Locks
  <2>1. journal' = journal \/ journal' = Flushed(journal)
    BY <1>1, <1>9, CallSyncIs DEF Locks, JournalTypes
  <2>2. Pipe(journal', writer, file, torn)
    BY <1>1, <2>1, PipeFlushed
  <2> QED
    BY <1>2, <1>9, <2>2 DEF Locks
<1>10. ASSUME NEW t \in Clients, PutBarrier(t) PROVE PipeInv'
  <2>1. BarrierItem(t) \in Items /\ BarrierItem(t).do # "record"
    BY ItemIs
  <2>2. journal' = [journal EXCEPT !.queue = Append(@, BarrierItem(t))]
    BY <1>10 DEF PutBarrier
  <2>3. Pipe(journal', writer, file, torn)
    BY <1>1, <2>1, <2>2, PipeQueued
  <2> QED
    BY <1>2, <1>10, <2>3 DEF PutBarrier
<1> QED
  BY <1>3, <1>4, <1>5, <1>6, <1>7, <1>8, <1>9, <1>10 DEF HostStep

\* Every step.
LEMMA PipeStep == ASSUME JournalTypes, TurnTypes, PipeInv, [Next]_vars PROVE PipeInv'
<1>1. CASE TurnStep \/ Synced
  BY <1>1, PipeTurn
<1>2. CASE JournalStep
  BY <1>2, PipeWriter, PipeHost DEF JournalStep
<1>3. CASE UNCHANGED vars
  BY <1>3 DEF vars, journalVars, fileVars, PipeInv
<1> QED
  BY <1>1, <1>2, <1>3 DEF Next

-----------------------------------------------------------------------------
(* The invariant.                                                          *)

\* The first record of a session is that of its start, ..
LEMMA InitIs ==
  ASSUME Init
  PROVE  \E r \in Records :
           /\ r.seq = 1 /\ r.event = Plain("start")
           /\ journal = [queue |-> <<RecordItem(r)>>, next |-> 2, accepting |-> TRUE,
                         degraded |-> FALSE, closed |-> FALSE, text |-> <<>>, flushed |-> FALSE,
                         admitted |-> <<r>>, observed |-> <<>>]
<1> DEFINE new == [queue |-> <<>>, next |-> 1, accepting |-> TRUE, degraded |-> FALSE,
                   closed |-> FALSE, text |-> <<>>, flushed |-> FALSE,
                   admitted |-> <<>>, observed |-> <<>>]
           r == [seq |-> 1, event |-> Plain("start")]
<1>1. r \in Records /\ RecordItem(r) \in Items /\ r.seq = 1 /\ r.event = Plain("start")
  <2>1. r \in Records
    BY EventIs DEF Kinds, Records
  <2> QED
    BY <2>1, ItemIs
<1>2. journal = Enqueued(new, Plain("start"))
  BY DEF Init, JournalInit
<1>3. HasRoom(new)
  <2>1. new.queue = <<>>
    OBVIOUS
  <2> HIDE DEF new
  <2> QED
    BY <2>1, JournalAssumptions DEF HasRoom
<1>4. journal = [new EXCEPT !.queue = Append(@, RecordItem(r)), !.next = @ + 1,
                            !.admitted = Append(@, r)]
  BY <1>2, <1>3 DEF Enqueued
<1>5. journal = [queue |-> <<RecordItem(r)>>, next |-> 2, accepting |-> TRUE, degraded |-> FALSE,
                 closed |-> FALSE, text |-> <<>>, flushed |-> FALSE, admitted |-> <<r>>,
                 observed |-> <<>>]
  <2>1. Append(<<>>, RecordItem(r)) = <<RecordItem(r)>> /\ Append(<<>>, r) = <<r>> /\ 1 + 1 = 2
    BY <1>1
  <2> HIDE DEF r
  <2> QED
    BY <1>4, <2>1
<1> HIDE DEF r
<1> QED
  BY <1>1, <1>5

\* .. and it is accepted.
LEMMA RecordedInit == Init => RecordedInv
<1> SUFFICES ASSUME Init PROVE RecordedInv
  OBVIOUS
<1>1. PICK r \in Records :
        /\ r.seq = 1 /\ r.event = Plain("start")
        /\ journal = [queue |-> <<RecordItem(r)>>, next |-> 2, accepting |-> TRUE,
                      degraded |-> FALSE, closed |-> FALSE, text |-> <<>>, flushed |-> FALSE,
                      admitted |-> <<r>>, observed |-> <<>>]
  BY InitIs
<1>2. RecordItem(r) \in Items /\ RecordItem(r).do = "record" /\ RecordItem(r).record = r
  BY ItemIs
<1>3. /\ <<RecordItem(r)>> \in Seq(Items) /\ <<r>> \in Seq(Records)
      /\ <<>> \in Seq(Pieces) /\ <<>> \in Seq(Records) /\ <<>> \in Seq(Events)
  BY <1>2
<1>4. r.event.kind = "start"
  BY <1>1, EventIs DEF Kinds
<1>5. journal \in Journals
  BY <1>3, <1>1 DEF Journals
<1>6. JournalTypes
  <2>1. writer \in Writers
    BY ItemIs DEF Init, JournalInit, Writers
  <2>2. pc \in [Clients -> Places] /\ answer \in [Clients -> {"none", "true", "false"}]
        /\ holder \in Clients
    BY DEF Init, JournalInit, Clients, Places
  <2>3. /\ file \in Seq(Records) /\ torn \in BOOLEAN /\ durable \in Nat /\ named \in BOOLEAN
        /\ faults \in Nat /\ promise \in [records : Nat, pieces : Nat]
    BY <1>3 DEF Init, JournalInit
  <2> QED
    BY <1>5, <2>1, <2>2, <2>3 DEF JournalTypes
<1>7. TurnTypes
  BY <1>3 DEF Init, TurnTypes
<1>8. /\ journal.queue = <<RecordItem(r)>> /\ journal.admitted = <<r>> /\ journal.next = 2
       /\ Len(journal.queue) = 1 /\ Len(journal.admitted) = 1
       /\ journal.queue[1] = RecordItem(r) /\ journal.admitted[1] = r
  BY <1>1
<1>9. /\ file = <<>> /\ Len(file) = 0 /\ torn = FALSE /\ durable = 0
       /\ writer = [at |-> "idle", item |-> CloseItem]
  BY DEF Init, JournalInit
<1>10. PipeInv
  <2>1. Numbered(journal) /\ Written(journal, file)
    BY <1>1, <1>8, <1>9 DEF Numbered, Written
  <2>2. writer.at = "idle" /\ Base(writer, file) = 0
    BY <1>9 DEF Base
  <2>3. QueueFits(journal.queue, journal.admitted, 0)
    BY <1>1, <1>2, <1>8 DEF QueueFits
  <2>4. InHand(journal, writer, file, torn) /\ Flows(journal, writer, file, torn)
    BY <1>9, <2>2, <2>3 DEF InHand, Flows
  <2> QED
    BY <1>9, <2>1, <2>4 DEF PipeInv, Pipe
<1>11. StartInv
  <2>1. ~HasStarted(journal) /\ Begun(journal)
    BY <1>4, <1>8 DEF HasStarted, Begun
  <2>2. phase = "before" /\ todo = <<>> /\ Len(todo) = 0
    BY DEF Init
  <2> QED
    BY <2>1, <2>2 DEF StartInv
<1>12. RecorderInv
  BY DEF Init, JournalInit, RecorderInv
<1> QED
  BY <1>6, <1>7, <1>10, <1>11, <1>12 DEF RecordedInv

\* What was accepted goes through the pipe in its order, and starts a turn once.
THEOREM RecordedInvariant == Spec => []RecordedInv
<1>1. RecordedInv /\ [Next]_vars => RecordedInv'
  <2> SUFFICES ASSUME RecordedInv, [Next]_vars PROVE RecordedInv'
    OBVIOUS
  <2>1. JournalTypes /\ TurnTypes /\ PipeInv /\ StartInv /\ RecorderInv
    BY DEF RecordedInv
  <2> QED
    BY <2>1, TypesStep, PipeStep, StartStep, RecorderStep DEF RecordedInv
<1> QED
  BY <1>1, RecordedInit, PTL DEF Spec

-----------------------------------------------------------------------------
(* What is left of the file.                                               *)

\* The beginning of a file.
LEMMA RemainsIs ==
  ASSUME JournalTypes, NEW lines \in Remains
  PROVE  /\ lines \in Seq(Records) /\ Len(lines) \in Nat /\ Len(lines) <= Len(file)
         /\ durable <= Len(lines)
         /\ \A i \in 1..Len(lines) : lines[i] = file[i]
<1>1. file \in Seq(Records) /\ Len(file) \in Nat /\ durable \in Nat
  BY DEF JournalTypes
<1>2. PICK n \in durable..Len(file) : lines = SubSeq(file, 1, n)
  BY DEF Remains
<1>3. /\ lines \in Seq(Records) /\ Len(lines) = n
      /\ \A i \in 1..n : lines[i] = file[i]
  BY <1>1, <1>2
<1> QED
  BY <1>1, <1>2, <1>3

\* Recovery reads what any end of the process leaves of what was accepted.
LEMMA RecordedReads == RecordedInv => RecoveryReadsIt
<1> SUFFICES ASSUME RecordedInv, NEW lines \in Remains
             PROVE  IsPrefix(lines, journal.admitted) /\ (lines # <<>> => ~Fails(lines))
  BY DEF RecoveryReadsIt
<1>1. JournalTypes /\ Numbered(journal) /\ Written(journal, file) /\ Begun(journal)
  BY DEF RecordedInv, PipeInv, Pipe, StartInv
<1>2. PICK adm : adm = journal.admitted
  OBVIOUS
<1>3. adm \in Seq(Records) /\ Len(adm) \in Nat
  BY <1>1, <1>2 DEF JournalTypes, Journals
<1>4. /\ lines \in Seq(Records) /\ Len(lines) \in Nat /\ Len(lines) <= Len(adm)
      /\ \A i \in 1..Len(lines) : lines[i] = adm[i]
  <2>1. /\ lines \in Seq(Records) /\ Len(lines) \in Nat /\ Len(lines) <= Len(file)
        /\ \A i \in 1..Len(lines) : lines[i] = file[i]
    BY <1>1, RemainsIs
  <2>2. Len(file) <= Len(adm) /\ \A i \in 1..Len(file) : file[i] = adm[i]
    BY <1>1, <1>2 DEF Written
  <2>3. Len(file) \in Nat
    BY <1>1 DEF JournalTypes
  <2> QED
    BY <1>3, <2>1, <2>2, <2>3
<1>5. IsPrefix(lines, adm)
  <2>1. /\ SubSeq(adm, 1, Len(lines)) \in Seq(Records)
        /\ Len(SubSeq(adm, 1, Len(lines))) = Len(lines)
        /\ \A i \in 1..Len(lines) : SubSeq(adm, 1, Len(lines))[i] = adm[i]
    BY <1>3, <1>4
  <2>2. lines = SubSeq(adm, 1, Len(lines))
    BY <1>4, <2>1, SeqEqual
  <2> QED
    BY <1>4, <2>2 DEF IsPrefix
<1>6. \A i \in DOMAIN lines : i \in 1..Len(lines)
  BY <1>4
<1>7. ASSUME NEW i \in 1..Len(lines) PROVE lines[i].seq = i
  BY <1>1, <1>2, <1>3, <1>4 DEF Numbered
<1>8. ASSUME NEW i \in 1..Len(lines), NEW k \in 1..(i - 1),
             lines[i].event.kind = "started", lines[k].event.kind = "started"
      PROVE  FALSE
  <2>1. k \in 1..Len(lines) /\ k # i /\ i \in 1..Len(adm) /\ k \in 1..Len(adm)
    BY <1>3, <1>4
  <2> QED
    BY <1>1, <1>2, <1>4, <1>8, <2>1 DEF Begun
<1>9. ASSUME NEW i \in 1..Len(lines), lines[i].event.kind = "finished"
      PROVE  \E k \in 1..(i - 1) : lines[k].event.kind = "started"
  <2>1. i \in 1..Len(adm) /\ adm[i].event.kind = "finished"
    BY <1>3, <1>4, <1>9
  <2>2. PICK k \in 1..(i - 1) : adm[k].event.kind = "started"
    BY <1>1, <1>2, <2>1 DEF Begun
  <2>3. k \in 1..Len(lines)
    BY <1>4
  <2> QED
    BY <1>4, <2>2, <2>3
<1> QED
  BY <1>2, <1>5, <1>6, <1>7, <1>8, <1>9 DEF Fails

\* Whatever ends the process, what the machine keeps of the file is the beginning
\* of what was accepted, and materialize_recovery does not refuse it.
THEOREM RecoveryReads == Spec => []RecoveryReadsIt
BY RecordedInvariant, RecordedReads, PTL

-----------------------------------------------------------------------------
(* Sequences that are flattened.                                           *)

Has(text, p) == \E i \in 1..Len(text) : text[i] = p

\* f gives the flattened beginnings of ss.
Flattens(f, ss) ==
  f = [i \in 1..Len(ss) |-> IF i = 1 THEN ss[i] ELSE f[i - 1] \o ss[i]]

\* What is in one of two sequences is in both together.
LEMMA JoinedHas ==
  ASSUME NEW S, NEW s \in Seq(S), NEW t \in Seq(S)
  PROVE  s \o t \in Seq(S) /\ \A p : Has(s, p) \/ Has(t, p) => Has(s \o t, p)
<1>1. /\ s \o t \in Seq(S) /\ Len(s \o t) = Len(s) + Len(t) /\ Len(s) \in Nat /\ Len(t) \in Nat
      /\ \A i \in 1..Len(s) : i \in 1..Len(s \o t) /\ (s \o t)[i] = s[i]
  OBVIOUS
<1>2. ASSUME NEW i \in 1..Len(t)
      PROVE  Len(s) + i \in 1..Len(s \o t) /\ (s \o t)[Len(s) + i] = t[i]
  BY <1>1
<1>3. ASSUME NEW p, Has(s, p) PROVE Has(s \o t, p)
  BY <1>1, <1>3 DEF Has
<1>4. ASSUME NEW p, Has(t, p) PROVE Has(s \o t, p)
  <2>1. PICK i \in 1..Len(t) : t[i] = p
    BY <1>4 DEF Has
  <2>2. \E k \in 1..Len(s \o t) : (s \o t)[k] = p
    BY <1>2, <2>1
  <2> QED
    BY <2>2 DEF Has
<1> QED
  BY <1>1, <1>3, <1>4

\* The flattened beginnings exist, ..
LEMMA FlattenExists ==
  ASSUME NEW S, NEW ss \in Seq(Seq(S))
  PROVE  \E f : Flattens(f, ss)
<1> DEFINE L == Len(ss)
           Good(n, h) == /\ h \in [1..n -> Seq(S)]
                         /\ \A i \in 1..n : h[i] = IF i = 1 THEN ss[i] ELSE h[i - 1] \o ss[i]
           T == {n \in Nat : n <= L => \E h : Good(n, h)}
<1>1. L \in Nat /\ \A i \in 1..L : ss[i] \in Seq(S)
  OBVIOUS
<1> HIDE DEF L, Good
<1>2. 0 \in T
  <2>1. Good(0, [i \in 1..0 |-> <<>>])
    BY DEF Good
  <2> QED
    BY <2>1
<1>3. ASSUME NEW n \in Nat, n \in T PROVE n + 1 \in T
  <2> SUFFICES ASSUME n + 1 <= L PROVE \E h : Good(n + 1, h)
    OBVIOUS
  <2>1. PICK h : Good(n, h)
    BY <1>1, <1>3
  <2> DEFINE next == IF n = 0 THEN ss[1] ELSE h[n] \o ss[n + 1]
             g == [i \in 1..(n + 1) |-> IF i = n + 1 THEN next ELSE h[i]]
  <2>2. next \in Seq(S)
    <3>1. CASE n = 0
      BY <1>1, <3>1
    <3>2. CASE n # 0
      <4>1. h[n] \in Seq(S) /\ ss[n + 1] \in Seq(S)
        BY <1>1, <2>1, <3>2 DEF Good
      <4> QED
        BY <3>2, <4>1
    <3> QED
      BY <3>1, <3>2
  <2> HIDE DEF next
  <2>3. g \in [1..(n + 1) -> Seq(S)]
    BY <2>1, <2>2 DEF Good
  <2>4. ASSUME NEW i \in 1..(n + 1)
        PROVE  g[i] = IF i = 1 THEN ss[i] ELSE g[i - 1] \o ss[i]
    <3>1. CASE i = n + 1
      <4>1. g[i] = next /\ (n # 0 => g[i - 1] = h[n])
        BY <3>1
      <4> QED
        BY <3>1, <4>1 DEF next
    <3>2. CASE i # n + 1
      <4>1. i \in 1..n /\ g[i] = h[i] /\ (i # 1 => i - 1 \in 1..n /\ g[i - 1] = h[i - 1])
        BY <3>2
      <4> QED
        BY <2>1, <4>1 DEF Good
    <3> QED
      BY <3>1, <3>2
  <2> HIDE DEF g
  <2>5. Good(n + 1, g)
    BY <2>3, <2>4 DEF Good
  <2> QED
    BY <2>5
<1>4. \A n \in Nat : n \in T
  <2> HIDE DEF T
  <2> QED
    BY <1>2, <1>3, Induction
<1>5. PICK h : Good(L, h)
  <2>1. L \in T
    <3> HIDE DEF T
    <3> QED
      BY <1>1, <1>4
  <2> QED
    BY <1>1, <2>1
<1>6. h = [i \in 1..L |-> IF i = 1 THEN ss[i] ELSE h[i - 1] \o ss[i]]
  BY <1>5 DEF Good
<1> QED
  BY <1>6 DEF L, Flattens

\* .. and have what is in the sequences.
LEMMA FlattenHas ==
  ASSUME NEW S, NEW ss \in Seq(Seq(S))
  PROVE  /\ FlattenSeq(ss) \in Seq(S)
         /\ \A i \in 1..Len(ss) : \A p : Has(ss[i], p) => Has(FlattenSeq(ss), p)
<1>1. PICK f : Flattens(f, ss)
  BY FlattenExists
<1> DEFINE c == CHOOSE h : h = [i \in 1..Len(ss) |->
                                  IF i = 1 THEN ss[i] ELSE h[i - 1] \o ss[i]]
<1>2. c = [i \in 1..Len(ss) |-> IF i = 1 THEN ss[i] ELSE c[i - 1] \o ss[i]]
  BY <1>1, Zenon DEF Flattens
<1>3. FlattenSeq(ss) = IF Len(ss) = 0 THEN ss ELSE c[Len(ss)]
  BY Zenon DEF FlattenSeq
<1> HIDE DEF c
<1>4. PICK g : /\ Flattens(g, ss)
               /\ FlattenSeq(ss) = IF Len(ss) = 0 THEN ss ELSE g[Len(ss)]
  BY <1>2, <1>3 DEF Flattens
<1> DEFINE L == Len(ss)
           T == {n \in Nat : n \in 1..L => /\ g[n] \in Seq(S)
                                           /\ \A i \in 1..n : \A p : Has(ss[i], p) => Has(g[n], p)}
<1>5. L \in Nat /\ \A i \in 1..L : ss[i] \in Seq(S)
  OBVIOUS
<1>6. \A i \in 1..L : g[i] = IF i = 1 THEN ss[i] ELSE g[i - 1] \o ss[i]
  BY <1>4 DEF Flattens
<1> HIDE DEF L
<1>7. 0 \in T
  OBVIOUS
<1>8. ASSUME NEW n \in Nat, n \in T PROVE n + 1 \in T
  <2> SUFFICES ASSUME n + 1 \in 1..L
               PROVE  /\ g[n + 1] \in Seq(S)
                      /\ \A i \in 1..(n + 1) : \A p : Has(ss[i], p) => Has(g[n + 1], p)
    OBVIOUS
  <2>1. CASE n = 0
    <3>1. g[n + 1] = ss[n + 1] /\ ss[n + 1] \in Seq(S)
      BY <1>5, <1>6, <2>1
    <3>2. \A i \in 1..(n + 1) : i = n + 1
      BY <2>1
    <3> QED
      BY <3>1, <3>2
  <2>2. CASE n # 0
    <3>0. n \in 1..L /\ n + 1 # 1 /\ (n + 1) - 1 = n
      BY <1>5, <2>2
    <3>1. g[n + 1] = g[n] \o ss[n + 1] /\ ss[n + 1] \in Seq(S)
      BY <1>5, <1>6, <3>0
    <3>2. g[n] \in Seq(S) /\ \A i \in 1..n : \A p : Has(ss[i], p) => Has(g[n], p)
      BY <1>8, <3>0
    <3>3. /\ g[n + 1] \in Seq(S)
          /\ \A p : Has(g[n], p) \/ Has(ss[n + 1], p) => Has(g[n + 1], p)
      BY <3>1, <3>2, JoinedHas
    <3>4. \A i \in 1..(n + 1) : i \in 1..n \/ i = n + 1
      OBVIOUS
    <3> QED
      BY <3>2, <3>3, <3>4
  <2> QED
    BY <2>1, <2>2
<1>9. \A n \in Nat : n \in T
  <2> HIDE DEF T
  <2> QED
    BY <1>7, <1>8, Induction
<1>10. CASE L = 0
  <2>1. FlattenSeq(ss) = <<>> /\ Len(ss) = 0
    BY <1>4, <1>10 DEF L
  <2> QED
    BY <2>1
<1>11. CASE L # 0
  <2>1. L \in 1..L /\ FlattenSeq(ss) = g[L]
    BY <1>4, <1>5, <1>11 DEF L
  <2>2. g[L] \in Seq(S) /\ \A i \in 1..L : \A p : Has(ss[i], p) => Has(g[L], p)
    BY <1>5, <1>9, <2>1
  <2> QED
    BY <2>1, <2>2 DEF L
<1> QED
  BY <1>10, <1>11

-----------------------------------------------------------------------------
(* The journal moves on.                                                   *)

\* Sequence t begins with s.
Prefixed(s, t) == Len(s) <= Len(t) /\ \A i \in 1..Len(s) : t[i] = s[i]

\* Journal k has what j had, and what j refused for good it refuses.
Moves(j, k) ==
  /\ Prefixed(j.admitted, k.admitted) /\ Prefixed(j.observed, k.observed)
  /\ j.degraded => k.degraded
  /\ Deaf(j) => Deaf(k)

\* A sequence begins with itself.
LEMMA PrefixedSame == ASSUME NEW S, NEW s \in Seq(S) PROVE Prefixed(s, s)
<1>1. Len(s) \in Nat
  OBVIOUS
<1> QED
  BY <1>1 DEF Prefixed

\* So does what it becomes with one element more.
LEMMA PrefixedAppend == ASSUME NEW S, NEW s \in Seq(S), NEW e \in S PROVE Prefixed(s, Append(s, e))
<1>1. /\ Len(Append(s, e)) = Len(s) + 1 /\ Len(s) \in Nat
      /\ \A i \in 1..Len(s) : Append(s, e)[i] = s[i]
  OBVIOUS
<1> QED
  BY <1>1 DEF Prefixed

\* And what that begins.
LEMMA PrefixedTrans ==
  ASSUME NEW S, NEW r \in Seq(S), NEW s \in Seq(S), NEW t \in Seq(S), Prefixed(r, s), Prefixed(s, t)
  PROVE  Prefixed(r, t)
<1>1. Len(r) \in Nat /\ Len(s) \in Nat /\ Len(t) \in Nat
  OBVIOUS
<1>2. Len(r) <= Len(s) /\ Len(s) <= Len(t)
  BY DEF Prefixed
<1>3. \A i \in 1..Len(r) : i \in 1..Len(s)
  BY <1>1, <1>2
<1>4. \A i \in 1..Len(r) : t[i] = r[i]
  BY <1>3 DEF Prefixed
<1>5. Len(r) <= Len(t)
  BY <1>1, <1>2
<1> QED
  BY <1>4, <1>5 DEF Prefixed

\* A journal that refuses moves on, ..
LEMMA MovesRefuses ==
  ASSUME NEW j \in Journals, NEW k \in Journals, k.observed = j.observed, k.admitted = j.admitted,
         j.degraded => k.degraded, Deaf(j) => Deaf(k)
  PROVE  Moves(j, k)
<1>1. Prefixed(j.admitted, k.admitted) /\ Prefixed(j.observed, k.observed)
  BY PrefixedSame DEF Journals
<1> QED
  BY <1>1 DEF Moves

\* .. as does one that accepts, ..
LEMMA MovesAccepts ==
  ASSUME NEW j \in Journals, NEW k \in Journals, NEW e \in Events, k.observed = j.observed,
         k.admitted = Append(j.admitted, NewRecord(j, e)),
         j.degraded => k.degraded, Deaf(j) => Deaf(k)
  PROVE  Moves(j, k)
<1>1. NewRecord(j, e) \in Records /\ j.admitted \in Seq(Records)
  BY NewRecordIs DEF Journals
<1>2. Prefixed(j.admitted, k.admitted)
  BY <1>1, PrefixedAppend
<1>3. Prefixed(j.observed, k.observed)
  BY PrefixedSame DEF Journals
<1> QED
  BY <1>2, <1>3 DEF Moves

\* .. one after the other.
LEMMA MovesTrans ==
  ASSUME NEW j \in Journals, NEW k \in Journals, NEW l \in Journals, Moves(j, k), Moves(k, l)
  PROVE  Moves(j, l)
<1>1. /\ j.admitted \in Seq(Records) /\ k.admitted \in Seq(Records) /\ l.admitted \in Seq(Records)
      /\ j.observed \in Seq(Pieces) /\ k.observed \in Seq(Pieces) /\ l.observed \in Seq(Pieces)
  BY DEF Journals
<1>2. Prefixed(j.admitted, l.admitted)
  BY <1>1, PrefixedTrans DEF Moves
<1>3. Prefixed(j.observed, l.observed)
  BY <1>1, PrefixedTrans DEF Moves
<1> QED
  BY <1>2, <1>3 DEF Moves

\* Text that is flushed moves it on.
LEMMA MovesFlushed == ASSUME NEW j \in Journals PROVE Moves(j, Flushed(j))
<1>1. PICK k \in Journals :
        /\ k = Flushed(j) /\ k.observed = j.observed
        /\ k = j \/ Refuses(j, k) \/ Accepts(j, k, Checkpoint(j.text))
  BY FlushedIs
<1>2. CASE k = j \/ Refuses(j, k)
  BY <1>1, <1>2, MovesRefuses DEF Refuses, Deaf
<1>3. CASE Accepts(j, k, Checkpoint(j.text))
  <2>1. Checkpoint(j.text) \in Events
    BY EventIs DEF Journals
  <2>2. /\ k.admitted = Append(j.admitted, NewRecord(j, Checkpoint(j.text)))
        /\ ~j.degraded /\ ~Deaf(j)
    BY <1>3 DEF Accepts, Deaf
  <2> QED
    BY <1>1, <2>1, <2>2, MovesAccepts
<1> QED
  BY <1>1, <1>2, <1>3

\* An event that is recorded does.
LEMMA MovesEnqueued ==
  ASSUME NEW j \in Journals, NEW k \in Journals, NEW e \in Events, k.observed = j.observed,
         Refuses(j, k) \/ Accepts(j, k, e)
  PROVE  Moves(j, k)
<1>1. CASE Refuses(j, k)
  BY <1>1, MovesRefuses DEF Refuses, Deaf
<1>2. CASE Accepts(j, k, e)
  <2>1. k.admitted = Append(j.admitted, NewRecord(j, e)) /\ ~j.degraded /\ ~Deaf(j)
    BY <1>2 DEF Accepts, Deaf
  <2> QED
    BY <2>1, MovesAccepts
<1> QED
  BY <1>1, <1>2

-----------------------------------------------------------------------------
(* Barriers.                                                               *)

Opening == {"putting", "awaiting"}
Closing == {"ending", "last", "joining"}

\* Who has the lock, and when the journal is closed to events.
LockInv ==
  /\ holder = "recorder" <=> pc.recorder \in {"putting", "awaiting"}
  /\ holder = "host" <=> pc.host \in Opening \cup Closing
  /\ pc.host \in Opening \cup {"unopened"} => phase = "before"
  /\ pc.host \in Opening \cup {"running", "unopened", "closing"} => journal.accepting
  /\ pc.host \in Closing \cup {"closed"} => ~journal.accepting
  /\ pc.host \notin Opening => named \/ journal.degraded

\* No record is behind position i of queue q.
LastRecordBefore(q, i) == \A k \in (i + 1)..Len(q) : q[k].do # "record"

WaitsFor(t) == t # Nobody => pc[t] = "awaiting" /\ answer[t] = "none"

\* Nothing is accepted while somebody waits for a barrier.
BarrierInv ==
  /\ \A i \in 1..Len(journal.queue) :
       /\ journal.queue[i].do # "sync" => journal.queue[i].for = Nobody
       /\ WaitsFor(journal.queue[i].for)
       /\ journal.queue[i].for # Nobody => LastRecordBefore(journal.queue, i)
  /\ \A i, k \in 1..Len(journal.queue) :
       i # k /\ journal.queue[i].for # Nobody => journal.queue[i].for # journal.queue[k].for
  /\ WaitsFor(writer.item.for)
  /\ writer.item.for # Nobody =>
       /\ writer.at \in {"fsync", "chain"}
       /\ LastRecordBefore(journal.queue, 0)
       /\ \A i \in 1..Len(journal.queue) : journal.queue[i].for # writer.item.for

\* What a barrier's answer says.
AnswerInv ==
  /\ writer.at = "chain" => durable = Len(file)
  /\ \A t \in Clients : pc[t] = "awaiting" =>
       /\ answer[t] = "true" => durable = Len(journal.admitted) /\ named
       /\ answer[t] = "false" => journal.degraded

\* The close item is the last but for barriers, and the file is whole when the writer is there.
CloseInv ==
  /\ \A i \in 1..Len(journal.queue) : journal.queue[i].do = "close" =>
       /\ pc.host \in {"joining", "closed", "cancelled"} /\ ~journal.accepting
       /\ LastRecordBefore(journal.queue, i)
  /\ writer.at \in {"finally", "over"} /\ ~journal.degraded /\ pc.host # "cancelled" =>
       /\ pc.host \in {"joining", "closed"}
       /\ Len(file) = Len(journal.admitted)
       /\ writer.at = "over" => durable = Len(file)

-----------------------------------------------------------------------------
(* Text.                                                                   *)

\* p is in a checkpoint among the first n records of a.
Checked(a, n, p) == \E m \in 1..n : a[m].event.kind = "checkpoint" /\ Has(a[m].event.text, p)

\* Event e gives the text p, or gives up the turn's.
Tells(e, p) == e = Finished("failed") \/ (e.kind = "message" /\ Has(e.text, p))
Told(a, n, p) == \E m \in 1..n : Tells(a[m].event, p)

\* After these recovery gives no partial answer.
Ends == {Finished("succeeded"), Notice}

TextInv(j) ==
  /\ ~j.degraded => \A i \in 1..Len(j.observed) :
       Has(j.text, j.observed[i]) \/ Checked(j.admitted, Len(j.admitted), j.observed[i])
  /\ ~j.degraded /\ ~j.accepting => j.text = <<>>
  /\ j.text # <<>> => HasStarted(j) \/ Deaf(j)
OrderInv(j) ==
  /\ \A m \in 1..Len(j.admitted) : j.admitted[m].event.kind = "checkpoint" =>
       \E k \in 1..(m - 1) : j.admitted[k].event.kind = "started"
  /\ \A m \in 1..Len(j.admitted) : j.admitted[m].event.kind = "started" =>
       j.admitted[m].event = Plain("started")
  /\ \A m \in 1..Len(j.admitted) : j.admitted[m].event \in Ends =>
       \A i \in 1..Len(j.observed) : Told(j.admitted, m - 1, j.observed[i])

\* e has been accepted, or cannot be.
Kept(j, e) == Deaf(j) \/ \E m \in 1..Len(j.admitted) : j.admitted[m].event = e

NoEnds(j) == \A m \in 1..Len(j.admitted) : j.admitted[m].event \notin Ends

\* The events t that are to be published in phase p.
Hand(t, p) ==
  /\ \A i \in 1..Len(t) : t[i] = Plain("started") \/ t[i].kind \in {"message", "result", "finished"}
  /\ \A i \in 2..Len(t) : t[i].text = <<>>
  /\ \A i \in 1..Len(t) : t[i].kind = "finished" \/ t[i] = Notice => p \notin {"before", "streaming"}

HandInv ==
  /\ pc.recorder # "out" => journal.degraded \/ journal.text = <<>>
  /\ pc.recorder # "out" => \E m \in 1..Len(journal.admitted) : journal.admitted[m].event = Head(todo)
  /\ Hand(todo, phase)
  /\ phase \in {"before", "streaming"} => NoEnds(journal)

RoundInv ==
  /\ phase = "before" \/ (phase = "streaming" /\ todo # <<>>) => round.text = <<>>
  /\ phase = "streaming" => \A i \in 1..Len(round.text) : Has(current, round.text[i])

HistoryInv ==
  /\ \A i \in 1..Len(history) : history[i].text # <<>> =>
       Kept(journal, history[i]) \/ (todo # <<>> /\ Head(todo) = history[i])

SaidInv ==
  \A i \in 1..Len(journal.observed) :
    \/ Deaf(journal) \/ Told(journal.admitted, Len(journal.admitted), journal.observed[i])
    \/ todo # <<>> /\ Tells(Head(todo), journal.observed[i])
    \/ phase = "streaming" /\ Has(round.text, journal.observed[i])

\* All the text is in checkpoints.
Covers(j) == \A i \in 1..Len(j.observed) : Checked(j.admitted, Len(j.admitted), j.observed[i])

PromiseInv ==
  /\ Len(journal.admitted) > 0
  /\ pc.host \in Opening => promise.pieces = 0
  /\ pc.recorder = "awaiting" /\ answer.recorder = "true" => Covers(journal)
  /\ promise.records <= durable /\ (promise.records > 0 => named)
  /\ promise.pieces <= Len(journal.observed)
  /\ \A i \in 1..promise.pieces : Checked(journal.admitted, promise.records, journal.observed[i])

-----------------------------------------------------------------------------
(* Nothing that was accepted is taken back.                                *)

\* The recorder's steps move the journal on.
LEMMA RecordMoves ==
  ASSUME JournalTypes, TurnTypes, Record
  PROVE  Moves(journal, journal')
<1>1. PICK b, a \in Journals :
        /\ b = IF Durable(Head(todo)) THEN Flushed(journal) ELSE journal
        /\ a = Enqueued(b, Head(todo)) /\ Head(todo) \in Events
        /\ CallSync(a) \/ journal' = AfterEvent(a, Head(todo))
  BY RecordIs
<1>2. journal \in Journals /\ Moves(journal, journal)
  BY MovesRefuses DEF JournalTypes
<1>3. Moves(journal, b)
  BY <1>1, <1>2, MovesFlushed
<1>4. a.observed = b.observed /\ (Refuses(b, a) \/ Accepts(b, a, Head(todo)))
  BY <1>1, EnqueuedIs
<1>5. Moves(b, a)
  BY <1>1, <1>4, MovesEnqueued
<1>6. journal' \in Journals /\ Moves(a, journal')
  <2>1. CASE CallSync(a)
    <3>1. journal' \in Journals /\ (journal' = a \/ journal' = Flushed(a))
      BY <2>1, CallSyncIs DEF JournalTypes
    <3>2. Moves(a, a)
      BY MovesRefuses
    <3> QED
      BY <3>1, <3>2, MovesFlushed
  <2>2. CASE journal' = AfterEvent(a, Head(todo))
    <3>1. journal' \in Journals /\ Refuses(a, journal') /\ journal'.observed = a.observed
      BY <2>2, AfterEventIs
    <3> QED
      BY <3>1, MovesRefuses DEF Refuses, Deaf
  <2> QED
    BY <1>1, <2>1, <2>2
<1> QED
  BY <1>2, <1>3, <1>5, <1>6, MovesTrans

\* Every step does.
LEMMA MovesStep ==
  ASSUME JournalTypes, TurnTypes, RecorderInv, [Next]_vars
  PROVE  Moves(journal, journal')
<1>1. journal \in Journals /\ journal' \in Journals
  <2>1. JournalTypes'
    BY TypesStep
  <2> QED
    BY <2>1 DEF JournalTypes
<1>2. ASSUME journal'.admitted = journal.admitted, journal'.observed = journal.observed,
             journal.degraded => journal'.degraded, Deaf(journal) => Deaf(journal')
      PROVE  Moves(journal, journal')
  BY <1>1, <1>2, MovesRefuses
<1>3. CASE UNCHANGED journal
  BY <1>2, <1>3
<1>4. CASE Say
  <2> DEFINE piece == <<round.n, Len(round.text) + 1>>
  <2>1. PICK isTime \in BOOLEAN : journal' = Observed(journal, piece, isTime)
    BY <1>4 DEF Say
  <2>2. piece \in Pieces
    <3>1. round.n \in Nat /\ Len(round.text) + 1 \in Nat
      BY DEF TurnTypes
    <3> QED
      BY <3>1 DEF Pieces
  <2> HIDE DEF piece
  <2>3. /\ journal'.observed = Append(journal.observed, piece)
        /\ \/ Refuses(journal, journal')
           \/ Accepts(journal, journal', Checkpoint(Append(journal.text, piece)))
    BY <1>1, <2>1, <2>2, ObservedIs
  <2>4. Prefixed(journal.observed, journal'.observed)
    BY <1>1, <2>2, <2>3, PrefixedAppend DEF Journals
  <2>5. CASE Refuses(journal, journal')
    <3>1. Prefixed(journal.admitted, journal'.admitted)
      BY <1>1, <2>5, PrefixedSame DEF Journals, Refuses
    <3> QED
      BY <2>4, <2>5, <3>1 DEF Moves, Refuses, Deaf
  <2>6. CASE Accepts(journal, journal', Checkpoint(Append(journal.text, piece)))
    <3> DEFINE c == Checkpoint(Append(journal.text, piece))
    <3>1. c \in Events
      <4>1. Append(journal.text, piece) \in Seq(Pieces)
        BY <1>1, <2>2 DEF Journals
      <4> QED
        BY <4>1, EventIs
    <3> HIDE DEF c
    <3>2. /\ journal'.admitted = Append(journal.admitted, NewRecord(journal, c))
          /\ ~journal.degraded /\ ~Deaf(journal)
      BY <2>6 DEF Accepts, Deaf, c
    <3>3. NewRecord(journal, c) \in Records /\ journal.admitted \in Seq(Records)
      BY <1>1, <3>1, NewRecordIs DEF Journals
    <3>4. Prefixed(journal.admitted, journal'.admitted)
      BY <3>2, <3>3, PrefixedAppend
    <3> QED
      BY <2>4, <3>2, <3>4 DEF Moves
  <2> QED
    BY <2>3, <2>5, <2>6
<1>5. CASE CancelRecorder
  <2>1. journal' = [journal EXCEPT !.queue = journal'.queue]
    BY <1>5, LeavesIs DEF CancelRecorder
  <2> QED
    BY <1>1, <1>2, <2>1 DEF Journals, Deaf
<1>6. CASE Synced
  <2>1. journal' = AfterEvent(journal, Head(todo))
    BY <1>6 DEF Synced
  <2>2. Refuses(journal, journal') /\ journal'.observed = journal.observed
    BY <1>1, <2>1, AfterEventIs
  <2> QED
    BY <1>2, <2>2 DEF Refuses, Deaf
<1>7. CASE WriterTakes
  BY <1>1, <1>2, <1>7 DEF WriterTakes, Journals, Deaf
<1>8. CASE journal' = IsDegraded
  BY <1>1, <1>2, <1>8 DEF IsDegraded, Journals, Deaf
<1>9. CASE Closes /\ journal' # journal
  <2>1. PICK j : j = Flushed(journal)
    OBVIOUS
  <2>2. j \in Journals /\ Moves(journal, j)
    BY <1>1, <2>1, FlushedIs, MovesFlushed
  <2>3. journal' = [j EXCEPT !.accepting = FALSE]
    BY <1>9, <2>1 DEF Closes
  <2>4. /\ journal'.admitted = j.admitted /\ journal'.observed = j.observed
        /\ (j.degraded => journal'.degraded) /\ (Deaf(j) => Deaf(journal'))
    BY <2>2, <2>3 DEF Journals, Deaf
  <2>5. Moves(j, journal')
    BY <1>1, <2>2, <2>4, MovesRefuses
  <2> QED
    BY <1>1, <2>2, <2>5, MovesTrans
<1>10. CASE PutEnd
  <2>1. Plain("end") \in Events
    BY EventIs DEF Kinds
  <2>2. journal' = [journal EXCEPT
                      !.queue = Append(@, RecordItem(NewRecord(journal, Plain("end")))),
                      !.next = @ + 1, !.admitted = Append(@, NewRecord(journal, Plain("end")))]
    BY <1>10 DEF PutEnd, NewRecord
  <2>3. /\ journal'.admitted = Append(journal.admitted, NewRecord(journal, Plain("end")))
        /\ journal'.accepting = journal.accepting /\ journal'.degraded = journal.degraded
        /\ journal'.observed = journal.observed
    BY <1>1, <2>2, EndIs
  <2> QED
    BY <1>1, <2>1, <2>3, MovesAccepts DEF Deaf
<1>11. CASE PutClose \/ Closed \/ \E t \in Clients : PutBarrier(t)
  BY <1>1, <1>2, <1>11 DEF PutClose, Closed, PutBarrier, Journals, Deaf
<1>12. CASE Locks
  <2>1. journal' = journal \/ journal' = Flushed(journal)
    BY <1>1, <1>12, CallSyncIs DEF Locks, JournalTypes
  <2> QED
    BY <1>1, <1>3, <2>1, MovesFlushed
<1>13. CASE TurnStep
  BY <1>3, <1>4, <1>5, <1>13, RecordMoves DEF TurnStep, Begin, EndWithTools, EndWithPause, Respond,
     Fail, Cancel, NoteInterruption, journalVars
<1>14. CASE JournalStep
  BY <1>3, <1>7, <1>8, <1>9, <1>10, <1>11, <1>12, <1>14
     DEF JournalStep, WriterStep, WriterAppends, WriterSyncs, WriterSyncsDirectories, WriterEnds,
         Fault, HostStep, Opened, CloseCancelled
<1>15. CASE UNCHANGED vars
  BY <1>3, <1>15 DEF vars, journalVars
<1> QED
  BY <1>6, <1>13, <1>14, <1>15 DEF Next

\* What is durable stays so.
LEMMA DurableStep ==
  ASSUME JournalTypes, PipeInv, [Next]_vars
  PROVE  durable <= durable' /\ (named => named')
<1>1. durable \in Nat /\ Len(file) \in Nat /\ durable <= Len(file) /\ durable <= durable
  BY DEF JournalTypes, PipeInv
<1>2. CASE UNCHANGED <<durable, named>>
  BY <1>1, <1>2
<1>3. CASE durable' = Len(file) /\ UNCHANGED named
  BY <1>1, <1>3
<1>4. CASE UNCHANGED durable /\ named' = TRUE
  BY <1>1, <1>4
<1>5. CASE TurnStep \/ Synced
  <2>1. UNCHANGED <<durable, named>>
    <3>1. CASE Record
      BY <3>1 DEF Record, fileVars
    <3> QED
      BY <1>5, <3>1 DEF TurnStep, Begin, Say, EndWithTools, EndWithPause, Respond,
     Fail, Cancel, CancelRecorder, NoteInterruption, Synced, journalVars, fileVars
  <2> QED
    BY <1>2, <2>1
<1>6. CASE JournalStep
  BY <1>2, <1>3, <1>4, <1>6 DEF JournalStep, WriterStep, WriterTakes, WriterAppends, WriterSyncs,
     WriterSyncsDirectories, WriterEnds, HostStep, Opened, Closes, PutEnd, PutClose, Closed,
     CloseCancelled, Locks, PutBarrier, fileVars
<1>7. CASE UNCHANGED vars
  BY <1>2, <1>7 DEF vars, journalVars, fileVars
<1> QED
  BY <1>5, <1>6, <1>7 DEF Next

-----------------------------------------------------------------------------
(* The lock.                                                               *)

\* What a piece of text makes of the journal and of the round.
LEMMA SayIs ==
  ASSUME JournalTypes, TurnTypes, Say
  PROVE  \E p \in Pieces :
           /\ journal' \in Journals /\ journal'.observed = Append(journal.observed, p)
           /\ \/ Refuses(journal, journal') /\ journal'.text = Append(journal.text, p)
              \/ /\ Accepts(journal, journal', Checkpoint(Append(journal.text, p)))
                 /\ journal'.text = <<>>
           /\ round'.text = Append(round.text, p) /\ current' = Append(current, p)
           /\ Append(journal.text, p) \in Seq(Pieces)
           /\ UNCHANGED <<pc, answer, holder, writer, fileVars, promise, phase, todo, history>>
<1>1. PICK p : /\ p = <<round.n, Len(round.text) + 1>>
               /\ round' = [round EXCEPT !.text = Append(@, p)]
               /\ current' = Append(current, p)
               /\ \E isTime \in BOOLEAN : journal' = Observed(journal, p, isTime)
               /\ UNCHANGED <<pc, answer, holder, writer, fileVars, promise, phase, todo, history>>
  BY DEF Say
<1>2. p \in Pieces
  <2>1. round.n \in Nat /\ Len(round.text) + 1 \in Nat
    BY DEF TurnTypes
  <2> QED
    BY <1>1, <2>1 DEF Pieces
<1>3. journal \in Journals /\ journal.text \in Seq(Pieces)
  BY DEF JournalTypes, Journals
<1>4. /\ journal' \in Journals /\ journal'.observed = Append(journal.observed, p)
      /\ \/ Refuses(journal, journal') /\ journal'.text = Append(journal.text, p)
         \/ /\ Accepts(journal, journal', Checkpoint(Append(journal.text, p)))
            /\ journal'.text = <<>>
  <2>1. PICK isTime \in BOOLEAN : journal' = Observed(journal, p, isTime)
    BY <1>1
  <2> QED
    BY <1>2, <1>3, <2>1, ObservedIs
<1>5. round'.text = Append(round.text, p)
  BY <1>1 DEF TurnTypes
<1>6. Append(journal.text, p) \in Seq(Pieces)
  BY <1>2, <1>3
<1>7. UNCHANGED <<pc, answer, holder, writer, fileVars, promise, phase, todo, history>>
  BY <1>1
<1>8. current' = Append(current, p)
  BY <1>1
<1> QED
  BY <1>2, <1>4, <1>5, <1>6, <1>7, <1>8, Zenon

\* Nobody waits for what is in queue q, and it is not the end.
Idle(q) == \A i \in 1..Len(q) : q[i].for = Nobody /\ q[i].do # "close"

\* Journal k has accepted more than j, or has the same queue.
Adds(j, k) ==
  /\ k.accepting = j.accepting
  /\ \/ k.queue = j.queue /\ k.admitted = j.admitted
     \/ j.accepting /\ (Idle(j.queue) => Idle(k.queue))

\* An item for nobody keeps it so.
LEMMA IdleAppends ==
  ASSUME NEW q \in Seq(Items), NEW item \in Items, item.for = Nobody, item.do # "close", Idle(q)
  PROVE  Idle(Append(q, item))
<1> DEFINE p == Append(q, item)
<1>1. /\ Len(p) = Len(q) + 1 /\ Len(q) \in Nat /\ p[Len(q) + 1] = item
      /\ \A i \in 1..Len(q) : p[i] = q[i]
  OBVIOUS
<1> HIDE DEF p
<1>2. \A i \in 1..Len(p) : i \in 1..Len(q) \/ i = Len(q) + 1
  BY <1>1
<1>3. Idle(p)
  BY <1>1, <1>2 DEF Idle
<1> QED
  BY <1>3 DEF p

\* An event that is enqueued is for nobody.
LEMMA AddsEnqueued ==
  ASSUME NEW j \in Journals, NEW k \in Journals, NEW e \in Events, Refuses(j, k) \/ Accepts(j, k, e)
  PROVE  Adds(j, k)
<1>1. CASE Refuses(j, k)
  BY <1>1 DEF Refuses, Adds
<1>2. CASE Accepts(j, k, e)
  <2>1. /\ k.queue = Append(j.queue, RecordItem(NewRecord(j, e))) /\ j.queue \in Seq(Items)
        /\ k.accepting = j.accepting /\ j.accepting
    BY <1>2 DEF Accepts, Journals
  <2>2. PICK item : item = RecordItem(NewRecord(j, e))
    OBVIOUS
  <2>3. item \in Items /\ item.for = Nobody /\ item.do # "close"
    BY <2>2, NewRecordIs, ItemIs
  <2>4. Idle(j.queue) => Idle(k.queue)
    BY <2>1, <2>2, <2>3, IdleAppends
  <2> QED
    BY <2>1, <2>4 DEF Adds
<1> QED
  BY <1>1, <1>2

\* So is text that is flushed.
LEMMA AddsFlushed == ASSUME NEW j \in Journals PROVE Adds(j, Flushed(j))
<1>1. PICK k \in Journals :
        k = Flushed(j) /\ (k = j \/ Refuses(j, k) \/ Accepts(j, k, Checkpoint(j.text)))
  BY FlushedIs
<1>2. Checkpoint(j.text) \in Events /\ Refuses(j, j)
  BY EventIs DEF Journals, Refuses
<1> QED
  BY <1>1, <1>2, AddsEnqueued

\* One after the other.
LEMMA AddsTrans == ASSUME NEW j, NEW k, NEW l, Adds(j, k), Adds(k, l) PROVE Adds(j, l)
BY DEF Adds

\* What the recorder's step does to the queue and to the lock.
LEMMA RecordAdds ==
  ASSUME JournalTypes, TurnTypes, Record
  PROVE  /\ Adds(journal, journal') /\ pc.recorder = "out" /\ todo # <<>>
         /\ journal' \in Journals /\ journal'.observed = journal.observed
         /\ pc'.host = pc.host /\ pc'.recorder # "awaiting"
         /\ UNCHANGED <<answer, writer, fileVars, promise>>
         /\ \/ UNCHANGED <<pc, holder>>
            \/ pc'.recorder \in {"locking", "refused"} /\ UNCHANGED holder
            \/ pc'.recorder = "putting" /\ LockIsFree /\ holder' = "recorder"
<1>1. PICK b, a \in Journals :
        /\ b = IF Durable(Head(todo)) THEN Flushed(journal) ELSE journal
        /\ a = Enqueued(b, Head(todo))
        /\ Head(todo) \in Events /\ pc.recorder = "out" /\ todo # <<>>
        /\ CallSync(a) \/ (journal' = AfterEvent(a, Head(todo)) /\ UNCHANGED <<pc, holder>>)
        /\ UNCHANGED <<answer, writer, fileVars, promise>>
  BY RecordIs
<1>2. /\ journal \in Journals /\ pc \in [Clients -> Places] /\ holder \in Clients \cup {Nobody}
      /\ Adds(journal, journal) /\ Adds(a, a)
  BY DEF JournalTypes, Adds
<1>3. Adds(journal, b) /\ b.observed = journal.observed
  BY <1>1, <1>2, AddsFlushed, FlushedIs
<1>4. Adds(b, a) /\ a.observed = b.observed
  <2>1. (Refuses(b, a) \/ Accepts(b, a, Head(todo))) /\ a.observed = b.observed
    BY <1>1, EnqueuedIs
  <2> QED
    BY <1>1, <2>1, AddsEnqueued
<1>5. CASE CallSync(a)
  <2>1. /\ journal' \in Journals /\ (journal' = a \/ journal' = Flushed(a))
        /\ pc'.host = pc.host
        /\ \/ pc'.recorder \in {"locking", "refused"} /\ UNCHANGED holder
           \/ pc'.recorder = "putting" /\ LockIsFree /\ holder' = "recorder"
    BY <1>2, <1>5, CallSyncIs
  <2>2. Adds(a, journal') /\ journal'.observed = a.observed
    BY <1>2, <2>1, AddsFlushed, FlushedIs
  <2>3. Adds(journal, journal')
    BY <1>3, <1>4, <2>2, AddsTrans
  <2>4. pc'.recorder # "awaiting"
    BY <2>1
  <2> QED
    BY <1>1, <1>3, <1>4, <2>1, <2>2, <2>3, <2>4
<1>6. CASE journal' = AfterEvent(a, Head(todo)) /\ UNCHANGED <<pc, holder>>
  <2>1. journal' \in Journals /\ Refuses(a, journal') /\ journal'.observed = a.observed
    BY <1>6, AfterEventIs
  <2>2. Adds(a, journal')
    BY <1>1, <2>1, AddsEnqueued
  <2>3. Adds(journal, journal')
    BY <1>3, <1>4, <2>2, AddsTrans
  <2> QED
    BY <1>1, <1>3, <1>4, <1>6, <2>1, <2>3
<1> QED
  BY <1>1, <1>5, <1>6

\* Only close makes the journal deaf to what comes.
LEMMA AcceptingStep ==
  ASSUME JournalTypes, TurnTypes, RecorderInv, [Next]_vars
  PROVE  journal'.accepting = journal.accepting \/ (Closes /\ journal' # journal)
<1>1. journal \in Journals
  BY DEF JournalTypes
<1>2. ASSUME NEW j \in Journals PROVE Flushed(j).accepting = j.accepting
  BY <1>2, AddsFlushed DEF Adds
<1>3. CASE UNCHANGED journal
  BY <1>3
<1>4. CASE Say
  BY <1>4, SayIs DEF Refuses, Accepts, JournalTypes, Journals
<1>5. CASE CancelRecorder
  <2>1. journal' = [journal EXCEPT !.queue = journal'.queue]
    BY <1>5, LeavesIs DEF CancelRecorder
  <2> QED
    BY <1>1, <2>1 DEF Journals
<1>6. CASE Record
  BY <1>6, RecordAdds DEF Adds
<1>7. CASE Synced
  BY <1>1, <1>7, AfterEventIs DEF Synced, Refuses
<1>8. CASE WriterTakes \/ PutClose \/ Closed \/ \E t \in Clients : PutBarrier(t)
  BY <1>1, <1>8 DEF WriterTakes, PutClose, Closed, PutBarrier, Journals
<1>9. CASE journal' = IsDegraded
  BY <1>1, <1>9 DEF IsDegraded, Journals
<1>10. CASE PutEnd
  BY <1>1, <1>10, EndIs DEF PutEnd, NewRecord
<1>11. CASE Locks
  <2>1. journal' = journal \/ journal' = Flushed(journal)
    BY <1>1, <1>11, CallSyncIs DEF Locks, JournalTypes
  <2> QED
    BY <1>1, <1>2, <2>1
<1>12. CASE TurnStep
  BY <1>3, <1>4, <1>5, <1>6, <1>12 DEF TurnStep, Begin, EndWithTools, EndWithPause, Respond,
     Fail, Cancel, NoteInterruption, journalVars
<1>13. CASE JournalStep
  BY <1>3, <1>8, <1>9, <1>10, <1>11, <1>13
     DEF JournalStep, WriterStep, WriterAppends, WriterSyncs, WriterSyncsDirectories, WriterEnds,
         Fault, HostStep, Opened, CloseCancelled
<1>14. CASE UNCHANGED vars
  BY <1>3, <1>14 DEF vars, journalVars
<1> QED
  BY <1>7, <1>12, <1>13, <1>14 DEF Next

\* The lock has one owner at most, and the journal is open until the host closes it.
LEMMA LockStep ==
  ASSUME JournalTypes, TurnTypes, PipeInv, StartInv, RecorderInv, AnswerInv, LockInv, [Next]_vars
  PROVE  LockInv'
<1>1. /\ journal \in Journals /\ pc \in [Clients -> Places]
      /\ holder \in Clients \cup {Nobody}
  BY DEF JournalTypes
<1>2. journal.degraded => journal'.degraded
  BY MovesStep DEF Moves
<1>3. named => named'
  BY DurableStep
<1>4. pc.host \notin Opening => named' \/ journal'.degraded
  BY <1>2, <1>3 DEF LockInv
<1>5. phase # "before" => pc.host \notin Opening \cup {"unopened"}
  BY DEF LockInv
<1>6. todo # <<>> => phase # "before"
  BY DEF StartInv
<1>7. journal'.accepting = journal.accepting \/ (Closes /\ journal' # journal)
  BY AcceptingStep
<1>8. ASSUME pc'.host = pc.host, journal'.accepting = journal.accepting,
             holder' = "recorder" <=> pc'.recorder \in {"putting", "awaiting"},
             holder' = "host" <=> holder = "host",
             UNCHANGED phase \/ pc.host \notin Opening \cup {"unopened"}
      PROVE  LockInv'
  BY <1>4, <1>8 DEF LockInv
<1>9. ASSUME UNCHANGED <<pc, holder>>, ~Closes,
             UNCHANGED phase \/ pc.host \notin Opening \cup {"unopened"}
      PROVE  LockInv'
  <2>1. holder' = "recorder" <=> pc'.recorder \in {"putting", "awaiting"}
    BY <1>9 DEF LockInv
  <2>2. pc'.host = pc.host /\ (holder' = "host" <=> holder = "host")
    BY <1>9
  <2> QED
    BY <1>7, <1>8, <1>9, <2>1, <2>2
<1>10. Closes => ~UNCHANGED pc
  BY <1>1 DEF Closes, Clients
<1>11. CASE UNCHANGED journalVars /\ Recording
  BY <1>9, <1>10, <1>11 DEF journalVars, Recording, Opening
<1>12. CASE Say
  BY <1>9, <1>10, <1>12, SayIs
<1>13. CASE CancelRecorder
  <2>1. /\ pc'.host = pc.host /\ pc'.recorder = "out" /\ phase # "before"
        /\ holder' = IF holder = "recorder" THEN Nobody ELSE holder
        /\ journal' = [journal EXCEPT !.queue = journal'.queue]
    BY <1>13, LeavesIs DEF CancelRecorder
  <2>2. journal'.accepting = journal.accepting
    BY <1>1, <2>1 DEF Journals
  <2> QED
    BY <1>5, <1>8, <2>1, <2>2 DEF Nobody
<1>14. CASE Record
  <2>1. /\ Adds(journal, journal') /\ pc.recorder = "out" /\ todo # <<>> /\ pc'.host = pc.host
        /\ \/ UNCHANGED <<pc, holder>>
           \/ pc'.recorder \in {"locking", "refused"} /\ UNCHANGED holder
           \/ pc'.recorder = "putting" /\ LockIsFree /\ holder' = "recorder"
    BY <1>14, RecordAdds
  <2>2. holder # "recorder"
    BY <2>1 DEF LockInv
  <2>3. /\ holder' = "recorder" <=> pc'.recorder \in {"putting", "awaiting"}
        /\ holder' = "host" <=> holder = "host"
    BY <2>1, <2>2 DEF LockIsFree, Nobody
  <2> QED
    BY <1>5, <1>6, <1>8, <2>1, <2>3 DEF Adds
<1>15. CASE Synced
  <2>1. /\ pc' = [pc EXCEPT !.recorder = "out"]
        /\ holder' = IF holder = "recorder" THEN Nobody ELSE holder
    BY <1>15 DEF Synced
  <2>2. pc'.host = pc.host /\ pc'.recorder = "out"
    BY <1>1, <2>1 DEF Clients
  <2>3. journal'.accepting = journal.accepting
    <3>1. journal' = AfterEvent(journal, Head(todo))
      BY <1>15 DEF Synced
    <3> QED
      BY <1>1, <3>1, AfterEventIs DEF Refuses
  <2>4. todo # <<>>
    BY <1>15 DEF Synced, RecorderInv
  <2> QED
    BY <1>5, <1>6, <1>8, <2>1, <2>2, <2>3, <2>4 DEF Nobody
<1>16. CASE WriterStep /\ UNCHANGED turnVars
  <2>1. UNCHANGED <<pc, holder>>
    BY <1>16 DEF WriterStep, WriterTakes, WriterAppends, WriterSyncs, WriterSyncsDirectories, WriterEnds
  <2> QED
    BY <1>9, <1>10, <1>16, <2>1 DEF turnVars
<1>17. CASE Opened /\ UNCHANGED turnVars
  <2>1. /\ pc.host = "awaiting" /\ answer.host \in {"true", "false"}
        /\ pc' = [pc EXCEPT !.host = IF answer.host = "true" THEN "running" ELSE "unopened"]
        /\ holder' = Nobody /\ UNCHANGED <<journal, phase, named>>
    <3>1. answer.host \in {"none", "true", "false"}
      BY DEF JournalTypes, Clients
    <3> QED
      BY <1>17, <3>1 DEF Opened, turnVars, fileVars
  <2>2. pc'.recorder = pc.recorder /\ pc'.host \in {"running", "unopened"}
    BY <1>1, <2>1 DEF Clients
  <2>3. named \/ journal.degraded
    BY <2>1 DEF AnswerInv, Clients
  <2>4. holder = "host" /\ journal.accepting /\ phase = "before"
    BY <2>1 DEF LockInv, Opening
  <2>5. pc.recorder \notin {"putting", "awaiting"}
    BY <2>4 DEF LockInv
  <2>6. /\ holder' = "recorder" <=> pc'.recorder \in {"putting", "awaiting"}
        /\ holder' = "host" <=> pc'.host \in Opening \cup Closing
    BY <2>1, <2>2, <2>5 DEF Nobody, Opening, Closing
  <2> QED
    BY <2>1, <2>2, <2>3, <2>4, <2>6 DEF LockInv, Opening, Closing
<1>18. CASE Closes /\ UNCHANGED turnVars
  <2>1. pc.host \in {"running", "unopened", "closing"} /\ UNCHANGED phase
    BY <1>18 DEF Closes, turnVars
  <2>2. CASE holder # Nobody
    <3>1. /\ pc' = [pc EXCEPT !.host = "closing"] /\ UNCHANGED <<journal, holder>>
      BY <1>18, <2>2 DEF Closes
    <3>2. pc'.host = "closing" /\ pc'.recorder = pc.recorder
      BY <1>1, <3>1 DEF Clients
    <3>3. journal.accepting /\ (named' \/ journal'.degraded)
      BY <1>4, <2>1 DEF LockInv, Opening
    <3>4. /\ holder' = "recorder" <=> pc'.recorder \in {"putting", "awaiting"}
          /\ holder' # "host"
      BY <2>1, <3>1, <3>2 DEF LockInv, Opening, Closing
    <3> QED
      BY <3>1, <3>2, <3>3, <3>4 DEF LockInv, Opening, Closing
  <2>3. CASE holder = Nobody
    <3>1. PICK j \in Journals : j = Flushed(journal)
      BY <1>1, FlushedIs
    <3>2. /\ journal' = [j EXCEPT !.accepting = FALSE]
          /\ pc' = [pc EXCEPT !.host = IF j.degraded THEN "last" ELSE "ending"]
          /\ holder' = "host"
      BY <1>18, <2>3, <3>1 DEF Closes
    <3>3. /\ journal'.accepting = FALSE
          /\ pc'.host \in {"last", "ending"} /\ pc'.recorder = pc.recorder
      BY <1>1, <3>2 DEF Clients, Journals
    <3>4. pc.recorder \notin {"putting", "awaiting"} /\ (named' \/ journal'.degraded)
      BY <1>4, <2>1, <2>3 DEF LockInv, Nobody, Opening
    <3> QED
      BY <3>2, <3>3, <3>4 DEF LockInv, Opening, Closing
  <2> QED
    BY <2>2, <2>3
<1>19. CASE (PutEnd \/ PutClose) /\ UNCHANGED turnVars
  <2>1. /\ pc.host \in {"ending", "last"} /\ UNCHANGED <<phase, holder>>
        /\ pc' = [pc EXCEPT !.host = "last"] \/ pc' = [pc EXCEPT !.host = "joining"]
    BY <1>19 DEF PutEnd, PutClose, turnVars
  <2>2. pc'.host \in {"last", "joining"} /\ pc'.recorder = pc.recorder
    BY <1>1, <2>1 DEF Clients
  <2>3. ~Closes
    BY <1>1, <2>1 DEF Closes
  <2>4. /\ ~journal'.accepting /\ holder' = "host" /\ (named' \/ journal'.degraded)
        /\ pc'.recorder \notin {"putting", "awaiting"}
    BY <1>4, <1>7, <2>1, <2>2, <2>3 DEF LockInv, Opening, Closing
  <2> QED
    BY <2>2, <2>4 DEF LockInv, Opening, Closing
<1>20. CASE (Closed \/ CloseCancelled) /\ UNCHANGED turnVars
  <2>1. /\ pc.host \in {"closing", "ending", "last", "joining"} /\ UNCHANGED phase
        /\ \/ pc.host = "joining" /\ pc' = [pc EXCEPT !.host = "closed"] /\ holder' = Nobody
           \/ /\ pc' = [pc EXCEPT !.host = "cancelled"]
              /\ holder' = IF holder = "host" THEN Nobody ELSE holder
    BY <1>20 DEF Closed, CloseCancelled, turnVars
  <2>2. /\ pc'.recorder = pc.recorder
        /\ \/ pc.host = "joining" /\ pc'.host = "closed" /\ holder' = Nobody
           \/ pc'.host = "cancelled" /\ holder' = IF holder = "host" THEN Nobody ELSE holder
    BY <1>1, <2>1 DEF Clients
  <2>3. pc.host = "joining" => ~Closes
    BY DEF Closes
  <2>4. /\ pc'.host = "closed" => ~journal'.accepting
        /\ named' \/ journal'.degraded
    BY <1>4, <1>7, <2>1, <2>2, <2>3 DEF LockInv, Opening, Closing
  <2>5. holder' = "recorder" <=> pc'.recorder \in {"putting", "awaiting"}
    BY <2>1, <2>2 DEF LockInv, Nobody, Closing
  <2>6. holder' # "host"
    BY <2>1, <2>2 DEF Nobody
  <2> QED
    BY <2>2, <2>4, <2>5, <2>6 DEF LockInv, Opening, Closing
<1>21. CASE Locks /\ UNCHANGED turnVars
  <2>1. /\ pc.recorder = "locking" /\ LockIsFree /\ UNCHANGED phase /\ CallSync(journal)
    BY <1>21 DEF Locks, turnVars
  <2>2. /\ pc'.host = pc.host
        /\ \/ pc'.recorder \in {"locking", "refused"} /\ holder' = holder
           \/ pc'.recorder = "putting" /\ LockIsFree /\ holder' = "recorder"
        /\ journal' = journal \/ journal' = Flushed(journal)
    BY <1>1, <2>1, CallSyncIs
  <2>3. journal'.accepting = journal.accepting
    BY <1>1, <2>2, AddsFlushed DEF Adds
  <2>4. /\ holder' = "recorder" <=> pc'.recorder \in {"putting", "awaiting"}
        /\ holder' = "host" <=> holder = "host"
    BY <2>1, <2>2 DEF LockIsFree, Nobody
  <2> QED
    BY <1>8, <2>1, <2>2, <2>3, <2>4
<1>22. ASSUME NEW t \in Clients, PutBarrier(t), UNCHANGED turnVars PROVE LockInv'
  <2>1. pc[t] = "putting" /\ pc' = [pc EXCEPT ![t] = "awaiting"] /\ UNCHANGED <<phase, holder>>
    BY <1>22 DEF PutBarrier, turnVars
  <2>2. ~Closes
    <3>1. t = "host" => ~Closes
      BY <2>1 DEF Closes
    <3>2. t = "recorder" => pc'.host = pc.host
      BY <1>1, <2>1 DEF Clients
    <3>3. Closes => pc'.host # pc.host
      BY <1>1 DEF Closes, Clients
    <3> QED
      BY <3>1, <3>2, <3>3 DEF Clients
  <2>3. \/ t = "host" /\ pc.host = "putting" /\ pc'.host = "awaiting" /\ pc'.recorder = pc.recorder
        \/ t = "recorder" /\ pc.recorder = "putting" /\ pc'.recorder = "awaiting" /\ pc'.host = pc.host
    BY <1>1, <2>1 DEF Clients
  <2> QED
    BY <1>2, <1>3, <1>7, <2>1, <2>2, <2>3 DEF LockInv, Opening, Closing
<1>23. CASE TurnStep
  BY <1>11, <1>12, <1>13, <1>14, <1>23 DEF TurnStep, Begin, EndWithTools, EndWithPause, Respond,
     Fail, Cancel, NoteInterruption, Streaming
<1>24. CASE UNCHANGED vars
  <2>1. UNCHANGED <<pc, holder, phase>>
    BY <1>24 DEF vars, journalVars, turnVars
  <2> QED
    BY <1>9, <1>10, <2>1
<1> QED
  BY <1>15, <1>16, <1>17, <1>18, <1>19, <1>20, <1>21, <1>22, <1>23, <1>24
     DEF Next, JournalStep, HostStep

-----------------------------------------------------------------------------
(* Who waits for a barrier.                                                *)

\* When nobody awaits, nothing in the queue is for anybody.
LEMMA NobodyWaits ==
  ASSUME JournalTypes, BarrierInv, CloseInv, \A t \in Clients : pc[t] # "awaiting",
         journal.accepting \/ pc.host = "ending"
  PROVE  Idle(journal.queue) /\ writer.item.for = Nobody
<1>1. /\ journal.queue \in Seq(Items) /\ writer.item.for \in Clients \cup {Nobody}
      /\ \A i \in 1..Len(journal.queue) : journal.queue[i] \in Items
  <2>1. journal.queue \in Seq(Items)
    BY DEF JournalTypes, Journals
  <2>2. writer.item.for \in Clients \cup {Nobody}
    BY DEF JournalTypes, Writers, Items
  <2> QED
    BY <2>1, <2>2
<1>2. \A i \in 1..Len(journal.queue) : journal.queue[i].do # "close"
  BY DEF CloseInv
<1>3. \A i \in 1..Len(journal.queue) : journal.queue[i].for = Nobody
  <2> TAKE i \in 1..Len(journal.queue)
  <2>1. journal.queue[i].for \in Clients \cup {Nobody}
    BY <1>1 DEF Items
  <2>2. WaitsFor(journal.queue[i].for)
    BY DEF BarrierInv
  <2> QED
    BY <2>1, <2>2 DEF WaitsFor
<1>4. writer.item.for = Nobody
  BY <1>1 DEF BarrierInv, WaitsFor
<1> QED
  BY <1>2, <1>3, <1>4 DEF Idle

\* A step that accepts something leaves nobody waiting for what is in the queue.
Free ==
  /\ \A t \in Clients : pc'[t] # "awaiting"
  /\ Idle(journal'.queue) /\ writer.item.for = Nobody
  /\ UNCHANGED <<answer, writer, fileVars>>
  /\ writer.at \in {"finally", "over"} =>
       journal.degraded \/ (pc.host = "cancelled" /\ pc'.host = pc.host)

Quiet ==
  /\ journal'.admitted = journal.admitted /\ journal'.observed = journal.observed
  /\ \/ journal'.queue = journal.queue
     \/ CancelRecorder \/ WriterTakes \/ PutClose \/ \E t \in Clients : PutBarrier(t)

\* Every step is one that accepts and leaves nobody waiting, or accepts nothing.
LEMMA QuietOrFree ==
  ASSUME JournalTypes, TurnTypes, StartInv, RecorderInv, LockInv, BarrierInv, CloseInv, [Next]_vars
  PROVE  Free \/ Quiet
<1>1. /\ journal \in Journals /\ pc \in [Clients -> Places] /\ holder \in Clients \cup {Nobody}
      /\ journal.queue \in Seq(Items)
  BY DEF JournalTypes, Journals
<1>2. ASSUME \A t \in Clients : pc[t] # "awaiting" /\ pc'[t] # "awaiting",
             journal.accepting, pc'.host = pc.host \/ pc.host # "cancelled",
             Idle(journal.queue) => Idle(journal'.queue),
             UNCHANGED <<answer, writer, fileVars>>
      PROVE  Free
  <2>1. Idle(journal'.queue) /\ writer.item.for = Nobody
    BY <1>2, NobodyWaits
  <2>2. writer.at \in {"finally", "over"} => journal.degraded \/ pc.host = "cancelled"
    BY <1>2 DEF CloseInv, LockInv, Closing
  <2> QED
    BY <1>2, <2>1, <2>2 DEF Free
<1>3. todo # <<>> => pc.host \notin Opening
  BY DEF StartInv, LockInv
<1>4. todo = <<>> => pc.recorder = "out"
  BY DEF RecorderInv
<1>5. CASE Say
  <2>1. pc.host = "running" /\ pc.recorder = "out" /\ UNCHANGED <<pc, answer, writer, fileVars>>
    BY <1>4, <1>5, SayIs DEF Say, Streaming, Recording
  <2>2. journal.accepting
    BY <2>1 DEF LockInv
  <2>3. Idle(journal.queue) => Idle(journal'.queue)
    <3>1. PICK c \in Events : journal' \in Journals /\ (Refuses(journal, journal') \/ Accepts(journal, journal', c))
      BY <1>5, SayIs, EventIs
    <3> QED
      BY <1>1, <3>1, AddsEnqueued DEF Adds
  <2> QED
    BY <1>2, <2>1, <2>2, <2>3 DEF Clients
<1>6. CASE Record
  <2>1. /\ Adds(journal, journal') /\ pc.recorder = "out" /\ todo # <<>>
        /\ journal'.observed = journal.observed
        /\ pc'.host = pc.host /\ pc'.recorder # "awaiting" /\ UNCHANGED <<answer, writer, fileVars>>
    BY <1>6, RecordAdds
  <2>2. \A t \in Clients : pc[t] # "awaiting" /\ pc'[t] # "awaiting"
    BY <1>3, <2>1 DEF Clients, Opening
  <2> QED
    BY <1>2, <2>1, <2>2 DEF Adds, Quiet
<1>7. CASE Closes
  <2>1. pc.host \in {"running", "unopened", "closing"} /\ UNCHANGED <<answer, writer, fileVars>>
    BY <1>7 DEF Closes
  <2>2. CASE UNCHANGED journal
    BY <2>2 DEF Quiet
  <2>3. CASE ~UNCHANGED journal
    <3>1. PICK j \in Journals : j = Flushed(journal) /\ Adds(journal, j)
      BY <1>1, FlushedIs, AddsFlushed
    <3>2. /\ holder = Nobody /\ journal' = [j EXCEPT !.accepting = FALSE]
          /\ pc' = [pc EXCEPT !.host = IF j.degraded THEN "last" ELSE "ending"]
      BY <1>7, <2>3, <3>1 DEF Closes
    <3>3. pc.recorder \notin {"putting", "awaiting"} /\ journal.accepting
      BY <2>1, <3>2 DEF LockInv, Nobody
    <3>4. pc'.host \in {"last", "ending"} /\ pc'.recorder = pc.recorder
      BY <1>1, <3>2 DEF Clients
    <3>5. journal'.queue = j.queue
      BY <3>2 DEF Journals
    <3>6. Idle(journal.queue) => Idle(journal'.queue)
      BY <3>1, <3>5 DEF Adds
    <3>7. \A t \in Clients : pc[t] # "awaiting" /\ pc'[t] # "awaiting"
      BY <2>1, <3>3, <3>4 DEF Clients
    <3> QED
      BY <1>2, <2>1, <3>3, <3>6, <3>7
  <2> QED
    BY <2>2, <2>3
<1>8. CASE PutEnd
  <2>1. /\ pc.host = "ending" /\ UNCHANGED <<answer, writer, fileVars>>
        /\ pc' = [pc EXCEPT !.host = "last"]
    BY <1>8 DEF PutEnd
  <2>2. holder = "host"
    BY <2>1 DEF LockInv, Closing
  <2>3. pc.recorder # "awaiting" /\ pc'.recorder = pc.recorder /\ pc'.host = "last"
    BY <1>1, <2>1, <2>2 DEF LockInv, Clients
  <2>4. Idle(journal.queue) /\ writer.item.for = Nobody
    BY <2>1, <2>3, NobodyWaits DEF Clients
  <2>5. journal'.queue = Append(journal.queue, RecordItem(NewRecord(journal, Plain("end"))))
    BY <1>1, <1>8, EndIs DEF PutEnd, NewRecord
  <2>6. PICK item : item = RecordItem(NewRecord(journal, Plain("end")))
    OBVIOUS
  <2>7. item \in Items /\ item.for = Nobody /\ item.do # "close"
    <3>1. Plain("end") \in Events
      BY EventIs DEF Kinds
    <3> QED
      BY <1>1, <2>6, <3>1, NewRecordIs, ItemIs
  <2>8. Idle(journal'.queue)
    BY <1>1, <2>4, <2>5, <2>6, <2>7, IdleAppends
  <2>9. writer.at \in {"finally", "over"} => journal.degraded
    BY <2>1 DEF CloseInv
  <2> QED
    BY <2>1, <2>3, <2>4, <2>8, <2>9 DEF Free, Clients
<1>9. CASE Locks
  <2>1. /\ pc.recorder = "locking" /\ LockIsFree /\ CallSync(journal)
        /\ UNCHANGED <<answer, writer, fileVars>>
    BY <1>9 DEF Locks
  <2>2. /\ journal' = journal \/ (journal' = Flushed(journal) /\ journal.accepting)
        /\ pc'.host = pc.host /\ pc'.recorder \in {"locking", "refused", "putting"}
    BY <1>1, <2>1, CallSyncIs
  <2>3. pc.host \notin Opening
    BY <2>1 DEF LockInv, LockIsFree, Nobody
  <2>4. \A t \in Clients : pc[t] # "awaiting" /\ pc'[t] # "awaiting"
    BY <2>1, <2>2, <2>3 DEF Clients, Opening
  <2>5. CASE journal' = journal
    BY <2>5 DEF Quiet
  <2>6. CASE journal' = Flushed(journal) /\ journal.accepting
    <3>1. Idle(journal.queue) => Idle(journal'.queue)
      BY <1>1, <2>6, AddsFlushed DEF Adds
    <3> QED
      BY <1>2, <2>1, <2>2, <2>4, <2>6, <3>1
  <2> QED
    BY <2>2, <2>5, <2>6
<1>10. CASE UNCHANGED journal
  BY <1>10 DEF Quiet
<1>11. CASE CancelRecorder
  <2>1. journal' = [journal EXCEPT !.queue = journal'.queue]
    BY <1>11, LeavesIs DEF CancelRecorder
  <2>2. journal'.admitted = journal.admitted /\ journal'.observed = journal.observed
    BY <1>1, <2>1 DEF Journals
  <2> QED
    BY <1>11, <2>2 DEF Quiet
<1>12. CASE Synced
  <2>1. journal' = AfterEvent(journal, Head(todo))
    BY <1>12 DEF Synced
  <2>2. Refuses(journal, journal') /\ journal'.observed = journal.observed
    BY <1>1, <2>1, AfterEventIs
  <2> QED
    BY <2>2 DEF Quiet, Refuses
<1>13. CASE WriterTakes \/ PutClose \/ Closed \/ \E t \in Clients : PutBarrier(t)
  <2>1. journal'.admitted = journal.admitted /\ journal'.observed = journal.observed
    BY <1>1, <1>13 DEF WriterTakes, PutClose, Closed, PutBarrier, Journals
  <2>2. Closed => journal'.queue = journal.queue
    BY <1>1 DEF Closed, Journals
  <2> QED
    BY <1>13, <2>1, <2>2 DEF Quiet
<1>14. CASE journal' = IsDegraded
  BY <1>1, <1>14 DEF IsDegraded, Quiet, Journals
<1>15. CASE TurnStep
  BY <1>5, <1>6, <1>10, <1>11, <1>15 DEF TurnStep, Begin, EndWithTools, EndWithPause, Respond,
     Fail, Cancel, NoteInterruption, journalVars
<1>16. CASE JournalStep
  BY <1>7, <1>8, <1>9, <1>10, <1>13, <1>14, <1>16
     DEF JournalStep, WriterStep, WriterAppends, WriterSyncs, WriterSyncsDirectories, WriterEnds,
         Fault, HostStep, Opened, CloseCancelled
<1>17. CASE UNCHANGED vars
  BY <1>10, <1>17 DEF vars, journalVars
<1> QED
  BY <1>12, <1>15, <1>16, <1>17 DEF Next

\* A step that accepts keeps who waits: nobody.
LEMMA BarrierFree == ASSUME Free PROVE BarrierInv'
<1>1. \A i \in 1..Len(journal'.queue) : journal'.queue[i].for = Nobody
  BY DEF Free, Idle
<1>2. writer'.item.for = Nobody
  BY DEF Free
<1> QED
  BY <1>1, <1>2 DEF BarrierInv, WaitsFor

\* So does one that leaves the queue and who waits for it.
LEMMA BarrierSame ==
  ASSUME BarrierInv, journal'.queue = journal.queue,
         \A i \in 1..Len(journal.queue) : LET t == journal.queue[i].for IN
           t # Nobody /\ pc[t] = "awaiting" /\ answer[t] = "none" =>
             pc'[t] = "awaiting" /\ answer'[t] = "none",
         \/ writer'.item.for = Nobody
         \/ /\ writer'.item.for = writer.item.for /\ writer'.at \in {writer.at, "chain"}
            /\ LET t == writer.item.for IN
                 t # Nobody /\ pc[t] = "awaiting" /\ answer[t] = "none" =>
                   pc'[t] = "awaiting" /\ answer'[t] = "none"
  PROVE  BarrierInv'
<1>1. \A i \in 1..Len(journal'.queue) :
        LET t == journal'.queue[i].for IN
          /\ journal'.queue[i].do # "sync" => t = Nobody
          /\ t # Nobody => pc'[t] = "awaiting" /\ answer'[t] = "none"
          /\ t # Nobody => LastRecordBefore(journal'.queue, i)
  BY DEF BarrierInv, WaitsFor
<1>2. \A i, k \in 1..Len(journal'.queue) :
        i # k /\ journal'.queue[i].for # Nobody => journal'.queue[i].for # journal'.queue[k].for
  BY DEF BarrierInv
<1>3. /\ writer'.item.for # Nobody => pc'[writer'.item.for] = "awaiting" /\ answer'[writer'.item.for] = "none"
      /\ writer'.item.for # Nobody =>
           /\ writer'.at \in {"fsync", "chain"}
           /\ LastRecordBefore(journal'.queue, 0)
           /\ \A i \in 1..Len(journal'.queue) : journal'.queue[i].for # writer'.item.for
  BY DEF BarrierInv, WaitsFor
<1> QED
  BY <1>1, <1>2, <1>3 DEF BarrierInv, WaitsFor

\* So does an item that is no record, and is for nobody or for one who waits for no other.
LEMMA BarrierQueued ==
  ASSUME JournalTypes, BarrierInv, NEW item \in Items, item.do # "record",
         item.do # "sync" => item.for = Nobody,
         journal'.queue = Append(journal.queue, item), UNCHANGED writer,
         item.for # Nobody => pc[item.for] # "awaiting",
         item.for # Nobody => pc'[item.for] = "awaiting" /\ answer'[item.for] = "none",
         \A t \in Clients : pc[t] = "awaiting" /\ answer[t] = "none" =>
           pc'[t] = "awaiting" /\ answer'[t] = "none"
  PROVE  BarrierInv'
<1> DEFINE q == journal.queue
           p == journal'.queue
           L == Len(journal.queue)
<1>1. q \in Seq(Items) /\ L \in Nat /\ writer.item.for \in Clients \cup {Nobody}
  <2>1. q \in Seq(Items)
    BY DEF JournalTypes, Journals
  <2>2. writer.item.for \in Clients \cup {Nobody}
    BY DEF JournalTypes, Writers, Items
  <2> QED
    BY <2>1, <2>2
<1>2. /\ Len(p) = L + 1 /\ p[L + 1] = item
      /\ \A i \in 1..L : p[i] = q[i] /\ q[i] \in Items
  BY <1>1
<1>3. \A i \in 1..L : q[i].for \in Clients \cup {Nobody}
  BY <1>2 DEF Items
<1>4. /\ \A i \in 1..L :
           /\ q[i].do # "sync" => q[i].for = Nobody
           /\ q[i].for # Nobody => pc[q[i].for] = "awaiting" /\ answer[q[i].for] = "none"
           /\ q[i].for # Nobody => LastRecordBefore(q, i)
      /\ \A i, k \in 1..L : i # k /\ q[i].for # Nobody => q[i].for # q[k].for
      /\ writer.item.for # Nobody =>
           /\ pc[writer.item.for] = "awaiting" /\ answer[writer.item.for] = "none"
           /\ writer.at \in {"fsync", "chain"}
           /\ LastRecordBefore(q, 0)
           /\ \A i \in 1..L : q[i].for # writer.item.for
  BY DEF BarrierInv, WaitsFor
<1> HIDE DEF q, L
<1>5. BarrierInv' <=>
      /\ \A i \in 1..Len(p) :
           /\ p[i].do # "sync" => p[i].for = Nobody
           /\ p[i].for # Nobody => pc'[p[i].for] = "awaiting" /\ answer'[p[i].for] = "none"
           /\ p[i].for # Nobody => LastRecordBefore(p, i)
      /\ \A i, k \in 1..Len(p) : i # k /\ p[i].for # Nobody => p[i].for # p[k].for
      /\ writer.item.for # Nobody =>
           pc'[writer.item.for] = "awaiting" /\ answer'[writer.item.for] = "none"
      /\ writer.item.for # Nobody =>
           /\ writer.at \in {"fsync", "chain"}
           /\ LastRecordBefore(p, 0)
           /\ \A i \in 1..Len(p) : p[i].for # writer.item.for
  BY DEF BarrierInv, WaitsFor
<1> HIDE DEF p
<1>6. \A i \in 1..Len(p) : i \in 1..L \/ i = L + 1
  BY <1>1, <1>2
<1>7. \A i \in 0..L : LastRecordBefore(q, i) => LastRecordBefore(p, i)
  <2> TAKE i \in 0..L
  <2>1. \A k \in (i + 1)..Len(p) : k \in (i + 1)..L \/ k = L + 1
    BY <1>1, <1>2
  <2>2. \A k \in (i + 1)..L : k \in 1..L
    BY <1>1
  <2>3. LastRecordBefore(q, i) => \A k \in (i + 1)..L : q[k].do # "record"
    BY DEF LastRecordBefore, L, q
  <2> QED
    BY <1>2, <2>1, <2>2, <2>3 DEF LastRecordBefore
<1>8. LastRecordBefore(p, L + 1)
  BY <1>1, <1>2 DEF LastRecordBefore
<1>9. \A i \in 1..Len(p) :
        /\ p[i].do # "sync" => p[i].for = Nobody
        /\ p[i].for # Nobody => pc'[p[i].for] = "awaiting" /\ answer'[p[i].for] = "none"
        /\ p[i].for # Nobody => LastRecordBefore(p, i)
  <2> TAKE i \in 1..Len(p)
  <2>1. CASE i = L + 1
    BY <1>2, <1>8, <2>1
  <2>2. CASE i \in 1..L
    <3>1. p[i] = q[i] /\ q[i].for \in Clients \cup {Nobody} /\ i \in 0..L
      BY <1>2, <1>3, <2>2
    <3> QED
      BY <1>4, <1>7, <2>2, <3>1
  <2> QED
    BY <1>6, <2>1, <2>2
<1>10. \A i \in 1..L : item.for # Nobody => q[i].for # item.for
  BY <1>4
<1>11. \A i, k \in 1..Len(p) : i # k /\ p[i].for # Nobody => p[i].for # p[k].for
  <2> TAKE i, k \in 1..Len(p)
  <2>1. CASE i \in 1..L /\ k \in 1..L
    BY <1>2, <1>4, <2>1
  <2>2. CASE i = L + 1 /\ k \in 1..L
    BY <1>2, <1>10, <2>2
  <2>3. CASE i \in 1..L /\ k = L + 1
    BY <1>2, <1>10, <2>3
  <2> QED
    BY <1>6, <2>1, <2>2, <2>3
<1>12. writer.item.for # Nobody =>
         /\ pc'[writer.item.for] = "awaiting" /\ answer'[writer.item.for] = "none"
         /\ writer.at \in {"fsync", "chain"}
         /\ LastRecordBefore(p, 0)
         /\ \A i \in 1..Len(p) : p[i].for # writer.item.for
  <2> SUFFICES ASSUME writer.item.for # Nobody
               PROVE  /\ pc'[writer.item.for] = "awaiting" /\ answer'[writer.item.for] = "none"
                      /\ writer.at \in {"fsync", "chain"}
                      /\ LastRecordBefore(p, 0)
                      /\ \A i \in 1..Len(p) : p[i].for # writer.item.for
    OBVIOUS
  <2>1. /\ pc[writer.item.for] = "awaiting" /\ answer[writer.item.for] = "none"
        /\ writer.at \in {"fsync", "chain"} /\ writer.item.for \in Clients
    BY <1>1, <1>4
  <2>2. LastRecordBefore(p, 0)
    BY <1>1, <1>4, <1>7
  <2>3. item.for # writer.item.for
    BY <2>1
  <2>4. \A i \in 1..Len(p) : p[i].for # writer.item.for
    BY <1>2, <1>4, <1>6, <2>3
  <2> QED
    BY <2>1, <2>2, <2>4
<1> QED
  BY <1>5, <1>9, <1>11, <1>12

\* So does the writer that takes the next item.
LEMMA BarrierTakes == ASSUME JournalTypes, BarrierInv, WriterTakes PROVE BarrierInv'
<1> DEFINE q == journal.queue
           p == journal'.queue
           item == Head(journal.queue)
<1>1. q \in Seq(Items) /\ q # <<>> /\ p = Tail(q) /\ writer.at = "idle" /\ UNCHANGED <<pc, answer>>
  BY DEF JournalTypes, Journals, WriterTakes
<1>2. /\ Len(q) \in Nat \ {0} /\ Len(p) = Len(q) - 1 /\ item = q[1] /\ item \in Items
      /\ \A i \in 1..Len(p) : p[i] = q[i + 1]
  BY <1>1
<1>3. /\ item.do = "sync" => writer' = [at |-> "fsync", item |-> item]
      /\ item.do # "sync" => writer'.item = item \/ writer' = writer
  BY DEF WriterTakes
<1>4. /\ \A i \in 1..Len(q) :
           /\ q[i].do # "sync" => q[i].for = Nobody
           /\ q[i].for # Nobody => pc[q[i].for] = "awaiting" /\ answer[q[i].for] = "none"
           /\ q[i].for # Nobody => LastRecordBefore(q, i)
      /\ \A i, k \in 1..Len(q) : i # k /\ q[i].for # Nobody => q[i].for # q[k].for
      /\ writer.item.for = Nobody
  BY <1>1 DEF BarrierInv, WaitsFor
<1>5. BarrierInv' <=>
      /\ \A i \in 1..Len(p) :
           /\ p[i].do # "sync" => p[i].for = Nobody
           /\ p[i].for # Nobody => pc'[p[i].for] = "awaiting" /\ answer'[p[i].for] = "none"
           /\ p[i].for # Nobody => LastRecordBefore(p, i)
      /\ \A i, k \in 1..Len(p) : i # k /\ p[i].for # Nobody => p[i].for # p[k].for
      /\ writer'.item.for # Nobody =>
           pc'[writer'.item.for] = "awaiting" /\ answer'[writer'.item.for] = "none"
      /\ writer'.item.for # Nobody =>
           /\ writer'.at \in {"fsync", "chain"}
           /\ LastRecordBefore(p, 0)
           /\ \A i \in 1..Len(p) : p[i].for # writer'.item.for
  BY DEF BarrierInv, WaitsFor
<1> HIDE DEF q, p, item
<1>6. \A i \in 1..Len(p) : i + 1 \in 1..Len(q) /\ i + 1 # 1 /\ p[i] = q[i + 1]
  BY <1>2
<1>7. \A i \in 0..Len(p) : LastRecordBefore(q, i + 1) => LastRecordBefore(p, i)
  <2> SUFFICES ASSUME NEW i \in 0..Len(p), LastRecordBefore(q, i + 1),
                      NEW k \in (i + 1)..Len(p)
               PROVE  p[k].do # "record"
    BY DEF LastRecordBefore
  <2>1. k + 1 \in ((i + 1) + 1)..Len(q) /\ p[k] = q[k + 1]
    BY <1>2
  <2> QED
    BY <2>1 DEF LastRecordBefore
<1>8. \A i \in 1..Len(p) :
        /\ p[i].do # "sync" => p[i].for = Nobody
        /\ p[i].for # Nobody => pc'[p[i].for] = "awaiting" /\ answer'[p[i].for] = "none"
        /\ p[i].for # Nobody => LastRecordBefore(p, i)
  <2> TAKE i \in 1..Len(p)
  <2>1. i + 1 \in 1..Len(q) /\ p[i] = q[i + 1] /\ i \in 0..Len(p)
    BY <1>6
  <2> QED
    BY <1>1, <1>4, <1>7, <2>1
<1>9. \A i, k \in 1..Len(p) : i # k /\ p[i].for # Nobody => p[i].for # p[k].for
  <2> TAKE i, k \in 1..Len(p)
  <2>1. /\ i + 1 \in 1..Len(q) /\ p[i] = q[i + 1] /\ k + 1 \in 1..Len(q) /\ p[k] = q[k + 1]
        /\ i # k => i + 1 # k + 1
    BY <1>6
  <2> QED
    BY <1>4, <2>1
<1>10. ASSUME writer'.item.for # Nobody
       PROVE  /\ pc'[writer'.item.for] = "awaiting" /\ answer'[writer'.item.for] = "none"
              /\ writer'.at \in {"fsync", "chain"}
              /\ LastRecordBefore(p, 0)
              /\ \A i \in 1..Len(p) : p[i].for # writer'.item.for
  <2>1. item = q[1] /\ 1 \in 1..Len(q) /\ 0 \in 0..Len(p) /\ 0 + 1 = 1
    BY <1>2
  <2>2. item.do = "sync"
    BY <1>3, <1>4, <1>10, <2>1
  <2>3. writer'.at = "fsync" /\ writer'.item = item
    BY <1>3, <2>2
  <2>4. LastRecordBefore(p, 0)
    BY <1>4, <1>7, <1>10, <2>1, <2>3
  <2>5. \A i \in 1..Len(p) : p[i].for # writer'.item.for
    BY <1>4, <1>6, <1>10, <2>1, <2>3
  <2> QED
    BY <1>1, <1>4, <1>10, <2>1, <2>3, <2>4, <2>5
<1> QED
  BY <1>5, <1>8, <1>9, <1>10

\* A barrier that gets its result is in the writer's hand, and in the queue no more.
LEMMA BarrierResolves ==
  ASSUME JournalTypes, BarrierInv, NEW r \in BOOLEAN, Resolves(r), UNCHANGED pc, WriterIdle,
         journal'.queue = journal.queue
  PROVE  BarrierInv'
<1>1. writer'.item.for = Nobody
  BY DEF WriterIdle, CloseItem
<1>2. ASSUME NEW i \in 1..Len(journal.queue), NEW t, t = journal.queue[i].for,
             t # Nobody, pc[t] = "awaiting", answer[t] = "none"
      PROVE  pc'[t] = "awaiting" /\ answer'[t] = "none"
  <2>1. t # writer.item.for
    BY <1>2 DEF BarrierInv
  <2>2. answer \in [Clients -> {"none", "true", "false"}]
    BY DEF JournalTypes
  <2>3. t \in Clients
    <3>1. journal.queue \in Seq(Items)
      BY DEF JournalTypes, Journals
    <3>2. journal.queue[i] \in Items
      BY <3>1
    <3> QED
      BY <1>2, <3>2 DEF Items
  <2>4. answer'[t] = answer[t]
    BY <2>1, <2>2, <2>3 DEF Resolves
  <2> QED
    BY <1>2, <2>4
<1> QED
  BY <1>1, <1>2, BarrierSame

\* The recorder that leaves takes its name off its barrier.
LEMMA BarrierLeaves == ASSUME JournalTypes, BarrierInv, CancelRecorder PROVE BarrierInv'
<1> DEFINE q == journal.queue
           p == journal'.queue
<1>1. /\ Leaves("recorder", "out") /\ UNCHANGED answer /\ q \in Seq(Items)
      /\ writer.item.for \in Clients \cup {Nobody}
  <2>1. q \in Seq(Items)
    BY DEF JournalTypes, Journals
  <2>2. writer.item.for \in Clients \cup {Nobody}
    BY DEF JournalTypes, Writers, Items
  <2> QED
    BY <2>1, <2>2 DEF CancelRecorder
<1>2. /\ pc'.host = pc.host /\ Len(p) = Len(q)
      /\ \A i \in 1..Len(q) :
           /\ p[i].do = q[i].do
           /\ p[i].for = IF q[i].for = "recorder" THEN Nobody ELSE q[i].for
      /\ writer'.at = writer.at
      /\ writer'.item.for = IF writer.item.for = "recorder" THEN Nobody ELSE writer.item.for
  BY <1>1, LeavesIs
<1>3. \A i \in 1..Len(q) : q[i].for \in Clients \cup {Nobody}
  <2>1. \A i \in 1..Len(q) : q[i] \in Items
    BY <1>1
  <2> QED
    BY <2>1 DEF Items
<1>4. /\ \A i \in 1..Len(q) :
           /\ q[i].do # "sync" => q[i].for = Nobody
           /\ q[i].for # Nobody => pc[q[i].for] = "awaiting" /\ answer[q[i].for] = "none"
           /\ q[i].for # Nobody => LastRecordBefore(q, i)
      /\ \A i, k \in 1..Len(q) : i # k /\ q[i].for # Nobody => q[i].for # q[k].for
      /\ writer.item.for # Nobody =>
           /\ pc[writer.item.for] = "awaiting" /\ answer[writer.item.for] = "none"
           /\ writer.at \in {"fsync", "chain"}
           /\ LastRecordBefore(q, 0)
           /\ \A i \in 1..Len(q) : q[i].for # writer.item.for
  BY DEF BarrierInv, WaitsFor
<1>5. BarrierInv' <=>
      /\ \A i \in 1..Len(p) :
           /\ p[i].do # "sync" => p[i].for = Nobody
           /\ p[i].for # Nobody => pc'[p[i].for] = "awaiting" /\ answer'[p[i].for] = "none"
           /\ p[i].for # Nobody => LastRecordBefore(p, i)
      /\ \A i, k \in 1..Len(p) : i # k /\ p[i].for # Nobody => p[i].for # p[k].for
      /\ writer'.item.for # Nobody =>
           pc'[writer'.item.for] = "awaiting" /\ answer'[writer'.item.for] = "none"
      /\ writer'.item.for # Nobody =>
           /\ writer'.at \in {"fsync", "chain"}
           /\ LastRecordBefore(p, 0)
           /\ \A i \in 1..Len(p) : p[i].for # writer'.item.for
  BY DEF BarrierInv, WaitsFor
<1>6. Len(q) \in Nat
  BY <1>1
<1> HIDE DEF q, p
<1>7. \A i \in 1..Len(p) : i \in 1..Len(q) /\ (p[i].for # Nobody => p[i].for = "host" /\ q[i].for = "host")
  BY <1>2, <1>3 DEF Clients, Nobody
<1>8. \A i \in 0..Len(q) : LastRecordBefore(q, i) => LastRecordBefore(p, i)
  <2> SUFFICES ASSUME NEW i \in 0..Len(q), LastRecordBefore(q, i), NEW k \in (i + 1)..Len(p)
               PROVE  p[k].do # "record"
    BY DEF LastRecordBefore
  <2>1. k \in 1..Len(q) /\ k \in (i + 1)..Len(q)
    BY <1>2, <1>6
  <2>2. q[k].do # "record"
    BY <2>1 DEF LastRecordBefore
  <2> QED
    BY <1>2, <2>1, <2>2
<1>9. \A i \in 1..Len(p) :
        /\ p[i].do # "sync" => p[i].for = Nobody
        /\ p[i].for # Nobody => pc'[p[i].for] = "awaiting" /\ answer'[p[i].for] = "none"
        /\ p[i].for # Nobody => LastRecordBefore(p, i)
  <2> TAKE i \in 1..Len(p)
  <2>1. i \in 1..Len(q) /\ i \in 0..Len(q) /\ (p[i].for # Nobody => p[i].for = "host" /\ q[i].for = "host")
    BY <1>6, <1>7
  <2>2. p[i].do # "sync" => p[i].for = Nobody
    BY <1>2, <1>4, <2>1
  <2>3. p[i].for # Nobody => LastRecordBefore(p, i)
    BY <1>4, <1>8, <2>1
  <2> QED
    BY <1>1, <1>2, <1>4, <2>1, <2>2, <2>3
<1>10. \A i, k \in 1..Len(p) : i # k /\ p[i].for # Nobody => p[i].for # p[k].for
  BY <1>4, <1>7 DEF Nobody
<1>11. ASSUME writer'.item.for # Nobody
       PROVE  /\ pc'[writer'.item.for] = "awaiting" /\ answer'[writer'.item.for] = "none"
              /\ writer'.at \in {"fsync", "chain"}
              /\ LastRecordBefore(p, 0)
              /\ \A i \in 1..Len(p) : p[i].for # writer'.item.for
  <2>1. writer.item.for = "host" /\ writer'.item.for = "host" /\ 0 \in 0..Len(q)
    BY <1>1, <1>2, <1>6, <1>11 DEF Clients, Nobody
  <2>2. \A i \in 1..Len(p) : p[i].for # "host"
    BY <1>4, <1>7, <2>1 DEF Nobody
  <2> QED
    BY <1>1, <1>2, <1>4, <1>8, <1>11, <2>1, <2>2
<1> QED
  BY <1>5, <1>9, <1>10, <1>11

\* Every step keeps who waits for a barrier.
LEMMA BarrierStep ==
  ASSUME JournalTypes, TurnTypes, StartInv, RecorderInv, LockInv, BarrierInv, CloseInv, [Next]_vars
  PROVE  BarrierInv'
<1>1. /\ pc \in [Clients -> Places] /\ answer \in [Clients -> {"none", "true", "false"}]
      /\ writer.item.for \in Clients \cup {Nobody}
      /\ \A i \in 1..Len(journal.queue) : journal.queue[i].for \in Clients \cup {Nobody}
  <2>1. journal.queue \in Seq(Items)
    BY DEF JournalTypes, Journals
  <2>2. \A i \in 1..Len(journal.queue) : journal.queue[i] \in Items
    BY <2>1
  <2>3. writer.item \in Items
    BY DEF JournalTypes, Writers
  <2> QED
    BY <2>2, <2>3 DEF JournalTypes, Items
<1>2. Free \/ Quiet
  BY QuietOrFree
<1>3. ASSUME journal'.queue = journal.queue,
             \A t \in Clients : pc[t] = "awaiting" /\ answer[t] = "none" =>
               pc'[t] = "awaiting" /\ answer'[t] = "none",
             \/ writer'.item.for = Nobody
             \/ writer'.item.for = writer.item.for /\ writer'.at \in {writer.at, "chain"}
      PROVE  BarrierInv'
  <2>1. \A i \in 1..Len(journal.queue) : LET t == journal.queue[i].for IN
          t # Nobody /\ pc[t] = "awaiting" /\ answer[t] = "none" =>
            pc'[t] = "awaiting" /\ answer'[t] = "none"
    BY <1>1, <1>3
  <2>2. LET t == writer.item.for IN
          t # Nobody /\ pc[t] = "awaiting" /\ answer[t] = "none" =>
            pc'[t] = "awaiting" /\ answer'[t] = "none"
    BY <1>1, <1>3
  <2> QED
    BY <1>3, <2>1, <2>2, BarrierSame
<1>4. CASE CancelRecorder
  BY <1>4, BarrierLeaves
<1>5. CASE WriterTakes
  BY <1>5, BarrierTakes
<1>6. CASE PutClose
  <2>1. CloseItem \in Items /\ CloseItem.do = "close" /\ CloseItem.for = Nobody
    BY ItemIs
  <2>2. /\ journal'.queue = Append(journal.queue, CloseItem)
        /\ pc.host = "last" /\ pc' = [pc EXCEPT !.host = "joining"] /\ UNCHANGED <<answer, writer>>
    BY <1>6, <2>1, QueuedIs DEF PutClose, JournalTypes
  <2>3. \A t \in Clients : pc[t] = "awaiting" => pc'[t] = "awaiting"
    BY <1>1, <2>2 DEF Clients
  <2> QED
    BY <2>1, <2>2, <2>3, BarrierQueued
<1>7. ASSUME NEW t \in Clients, PutBarrier(t) PROVE BarrierInv'
  <2>1. BarrierItem(t) \in Items /\ BarrierItem(t).do = "sync" /\ BarrierItem(t).for = t
    BY ItemIs
  <2>2. /\ journal'.queue = Append(journal.queue, BarrierItem(t))
        /\ pc[t] = "putting" /\ pc' = [pc EXCEPT ![t] = "awaiting"]
        /\ answer' = [answer EXCEPT ![t] = "none"] /\ UNCHANGED writer
    BY <1>7, <2>1, QueuedIs DEF PutBarrier, JournalTypes
  <2>3. /\ pc'[t] = "awaiting" /\ answer'[t] = "none"
        /\ \A u \in Clients : pc[u] = "awaiting" /\ answer[u] = "none" =>
             pc'[u] = "awaiting" /\ answer'[u] = "none"
    BY <1>1, <2>2
  <2> QED
    BY <2>1, <2>2, <2>3, BarrierQueued
<1>8. CASE Free
  BY <1>8, BarrierFree
<1>9. CASE journal'.queue = journal.queue
  <2>1. CASE UNCHANGED <<pc, answer, writer>>
    BY <1>3, <1>9, <2>1
  <2>2. CASE Record
    <3>1. /\ pc.recorder = "out" /\ pc'.host = pc.host /\ UNCHANGED <<answer, writer>>
      BY <2>2, RecordAdds
    <3> QED
      BY <1>3, <1>9, <3>1 DEF Clients
  <2>3. CASE Synced
    <3>1. /\ pc.recorder = "refused" \/ answer.recorder # "none"
          /\ pc' = [pc EXCEPT !.recorder = "out"] /\ answer' = [answer EXCEPT !.recorder = "none"]
          /\ UNCHANGED writer
      BY <2>3 DEF Synced
    <3>2. pc'.host = pc.host /\ answer'.host = answer.host
      BY <1>1, <3>1 DEF Clients
    <3> QED
      BY <1>3, <1>9, <3>1, <3>2 DEF Clients
  <2>4. CASE WriterAppends \/ WriterEnds
    <3>1. UNCHANGED <<pc, answer>> /\ writer'.item = CloseItem
      BY <2>4 DEF WriterAppends, WriterEnds, WriterIdle
    <3> QED
      BY <1>3, <1>9, <3>1, ItemIs
  <2>5. CASE WriterSyncs \/ WriterSyncsDirectories
    <3>1. UNCHANGED pc
      BY <2>5 DEF WriterSyncs, WriterSyncsDirectories
    <3>2. \/ writer' = [writer EXCEPT !.at = "chain"] /\ UNCHANGED answer
          \/ WriterIdle /\ (Resolves(~journal.degraded) \/ Resolves(FALSE))
      BY <2>5 DEF WriterSyncs, WriterSyncsDirectories
    <3>3. CASE writer' = [writer EXCEPT !.at = "chain"] /\ UNCHANGED answer
      <4>1. writer'.item = writer.item /\ writer'.at = "chain"
        BY <3>3 DEF JournalTypes, Writers
      <4> QED
        BY <1>3, <1>9, <3>1, <3>3, <4>1
    <3>4. CASE WriterIdle /\ (Resolves(~journal.degraded) \/ Resolves(FALSE))
      <4>1. PICK r \in BOOLEAN : Resolves(r)
        BY <3>4
      <4> QED
        BY <1>9, <3>1, <3>4, <4>1, BarrierResolves
    <3> QED
      BY <3>2, <3>3, <3>4
  <2>6. CASE Opened
    <3>1. /\ answer.host # "none" /\ UNCHANGED writer
          /\ pc' = [pc EXCEPT !.host = IF answer.host = "true" THEN "running" ELSE "unopened"]
          /\ answer' = [answer EXCEPT !.host = "none"]
      BY <2>6 DEF Opened
    <3>2. pc'.recorder = pc.recorder /\ answer'.recorder = answer.recorder
      BY <1>1, <3>1 DEF Clients
    <3> QED
      BY <1>3, <1>9, <3>1, <3>2 DEF Clients
  <2>7. CASE Closes \/ PutEnd \/ Closed \/ CloseCancelled
    <3>1. /\ pc.host # "awaiting" /\ UNCHANGED answer
          /\ \E place : pc' = [pc EXCEPT !.host = place]
          /\ UNCHANGED writer \/ writer'.item = CloseItem
      BY <2>7 DEF Closes, PutEnd, Closed, CloseCancelled
    <3>2. pc'.recorder = pc.recorder
      BY <1>1, <3>1 DEF Clients
    <3>3. writer'.item.for = Nobody \/ UNCHANGED writer
      BY <3>1, ItemIs
    <3> QED
      BY <1>3, <1>9, <3>1, <3>2, <3>3 DEF Clients
  <2>8. CASE Locks
    <3>1. pc.recorder = "locking" /\ CallSync(journal) /\ UNCHANGED <<answer, writer>>
      BY <2>8 DEF Locks
    <3>2. pc'.host = pc.host
      BY <1>1, <3>1, CallSyncIs DEF JournalTypes
    <3> QED
      BY <1>3, <1>9, <3>1, <3>2 DEF Clients
  <2>9. CASE TurnStep
    BY <1>4, <2>1, <2>2, <2>9 DEF TurnStep, Begin, Say, EndWithTools, EndWithPause, Respond,
       Fail, Cancel, NoteInterruption, journalVars
  <2>10. CASE JournalStep
    BY <1>5, <1>6, <1>7, <2>4, <2>5, <2>6, <2>7, <2>8, <2>10 DEF JournalStep, WriterStep, HostStep
  <2>11. CASE UNCHANGED vars
    BY <2>1, <2>11 DEF vars, journalVars
  <2> QED
    BY <2>3, <2>9, <2>10, <2>11 DEF Next
<1> QED
  BY <1>2, <1>4, <1>5, <1>6, <1>7, <1>8, <1>9 DEF Quiet

-----------------------------------------------------------------------------
(* What a barrier's answer says, and the end of the journal.               *)

\* Only its own steps move the writer and the file, but for the host that is cancelled.
LEMMA WriterKeeps ==
  ASSUME JournalTypes, TurnTypes, [Next]_vars
  PROVE  \/ writer'.at = writer.at /\ UNCHANGED <<file, durable>>
         \/ WriterStep
         \/ CloseCancelled /\ pc'.host = "cancelled" /\ writer'.at = "finally" /\ UNCHANGED durable
<1>1. CASE UNCHANGED <<writer, file, durable>>
  BY <1>1
<1>2. CASE CancelRecorder
  BY <1>2, LeavesIs DEF CancelRecorder, fileVars
<1>3. CASE CloseCancelled
  <2>1. pc'.host = "cancelled"
    BY <1>3 DEF CloseCancelled, JournalTypes, Clients
  <2> QED
    BY <1>1, <1>3, <2>1 DEF CloseCancelled
<1>4. CASE Record
  BY <1>1, <1>4, RecordAdds DEF fileVars
<1>5. CASE Say
  BY <1>1, <1>5, SayIs DEF fileVars
<1>6. CASE TurnStep
  BY <1>1, <1>2, <1>4, <1>5, <1>6 DEF TurnStep, Begin, EndWithTools, EndWithPause, Respond,
     Fail, Cancel, NoteInterruption, journalVars, fileVars
<1>7. CASE JournalStep
  BY <1>1, <1>3, <1>7 DEF JournalStep, HostStep, Opened, Closes, PutEnd, PutClose, Closed,
     Locks, PutBarrier, fileVars
<1>8. CASE Synced
  BY <1>1, <1>8 DEF Synced, fileVars
<1>9. CASE UNCHANGED vars
  BY <1>1, <1>9 DEF vars, journalVars, fileVars
<1> QED
  BY <1>6, <1>7, <1>8, <1>9 DEF Next

\* When no record is in the queue or in hand, all that was accepted is written.
LEMMA FlowsOut ==
  ASSUME JournalTypes, PipeInv, ~journal.degraded, writer.at \in {"idle", "fsync", "chain"},
         LastRecordBefore(journal.queue, 0)
  PROVE  Len(file) = Len(journal.admitted)
<1>1. QueueFits(journal.queue, journal.admitted, Len(file)) /\ Len(file) <= Len(journal.admitted)
  BY DEF PipeInv, Pipe, Flows, Written, Base
<1>2. Len(file) \in Nat /\ Len(journal.admitted) \in Nat
  BY DEF JournalTypes, Journals
<1>3. ASSUME NEW k \in (Len(file) + 1)..Len(journal.admitted) PROVE FALSE
  <2>1. PICK i \in 1..Len(journal.queue) : journal.queue[i].do = "record"
    BY <1>1 DEF QueueFits
  <2> QED
    BY <2>1 DEF LastRecordBefore
<1>4. ~(Len(file) < Len(journal.admitted))
  <2>1. Len(file) < Len(journal.admitted) => Len(file) + 1 \in (Len(file) + 1)..Len(journal.admitted)
    BY <1>2
  <2> QED
    BY <1>3, <2>1
<1> QED
  BY <1>1, <1>2, <1>4

\* The file is fsynced to its end before the directories are.
LEMMA ChainStep ==
  ASSUME JournalTypes, TurnTypes, AnswerInv, [Next]_vars
  PROVE  writer'.at = "chain" => durable' = Len(file')
<1>1. CASE writer'.at = writer.at /\ UNCHANGED <<file, durable>>
  BY <1>1 DEF AnswerInv
<1>2. CASE WriterStep /\ writer'.at = "chain"
  <2>1. /\ writer \in Writers
        /\ WriterIdle => writer'.at = "idle"
    BY DEF JournalTypes, WriterIdle
  <2>2. CASE WriterSyncs
    <3>1. durable' = Len(file) /\ UNCHANGED file
      BY <1>2, <2>1, <2>2 DEF WriterSyncs
    <3> QED
      BY <3>1
  <2>3. CASE WriterTakes
    <3>1. writer'.at \in {"fsync", "finally", "append", "idle"}
      BY <2>3 DEF WriterTakes
    <3> QED
      BY <1>2, <3>1
  <2>4. CASE WriterAppends
    BY <1>2, <2>1, <2>4 DEF WriterAppends
  <2>5. CASE WriterSyncsDirectories
    BY <1>2, <2>1, <2>5 DEF WriterSyncsDirectories
  <2>6. CASE WriterEnds
    BY <1>2, <2>6 DEF WriterEnds
  <2> QED
    BY <1>2, <2>2, <2>3, <2>4, <2>5, <2>6 DEF WriterStep
<1> QED
  BY <1>1, <1>2, WriterKeeps

\* A barrier that is resolved finds the file whole, or the journal degraded.
LEMMA AnswerResolves ==
  ASSUME JournalTypes, PipeInv, BarrierInv, AnswerInv, WriterSyncs \/ WriterSyncsDirectories,
         NEW t \in Clients, pc[t] = "awaiting"
  PROVE  \/ answer'[t] = answer[t]
         \/ answer'[t] = "true" /\ durable' = Len(journal.admitted) /\ named' /\ ~journal.degraded
         \/ answer'[t] = "false" /\ journal'.degraded
<1>1. /\ answer \in [Clients -> {"none", "true", "false"}] /\ journal \in Journals
      /\ writer.at \in {"fsync", "chain"} /\ UNCHANGED file
  BY DEF JournalTypes, WriterSyncs, WriterSyncsDirectories
<1>2. CASE writer.item.for # t
  <2>1. \/ UNCHANGED answer \/ Resolves(~journal.degraded) \/ Resolves(FALSE)
    BY DEF WriterSyncs, WriterSyncsDirectories
  <2> QED
    BY <1>1, <1>2, <2>1 DEF Resolves
<1>3. CASE writer.item.for = t
  <2>1. t # Nobody
    BY DEF Clients, Nobody
  <2>2. ~journal.degraded => Len(file) = Len(journal.admitted)
    BY <1>1, <1>3, <2>1, FlowsOut DEF BarrierInv
  <2>3. ASSUME NEW r \in BOOLEAN, Resolves(r)
        PROVE  answer'[t] = IF r THEN "true" ELSE "false"
    BY <1>1, <1>3, <2>1, <2>3 DEF Resolves
  <2>4. CASE Fault /\ Resolves(FALSE)
    <3>1. journal'.degraded
      BY <1>1, <2>4 DEF Fault, IsDegraded, Journals
    <3> QED
      BY <2>3, <2>4, <3>1
  <2>5. CASE Resolves(~journal.degraded) /\ UNCHANGED journal /\ durable' = Len(file) /\ named'
    <3>1. answer'[t] = IF ~journal.degraded THEN "true" ELSE "false"
      BY <1>1, <2>3, <2>5 DEF Journals
    <3> QED
      BY <2>2, <2>5, <3>1
  <2>6. CASE UNCHANGED answer
    BY <2>6
  <2>7. CASE WriterSyncs
    BY <2>4, <2>5, <2>6, <2>7 DEF WriterSyncs
  <2>8. CASE WriterSyncsDirectories
    BY <2>4, <2>5, <2>8 DEF WriterSyncsDirectories, AnswerInv
  <2> QED
    BY <2>7, <2>8
<1> QED
  BY <1>2, <1>3

\* Who awaits after a step had awaited, with the same answer, or has another.
LEMMA AnswerIs ==
  ASSUME JournalTypes, TurnTypes, [Next]_vars, ~WriterSyncs, ~WriterSyncsDirectories,
         NEW t \in Clients, pc'[t] = "awaiting"
  PROVE  answer'[t] = "none" \/ (pc[t] = "awaiting" /\ answer'[t] = answer[t])
<1>1. pc \in [Clients -> Places] /\ answer \in [Clients -> {"none", "true", "false"}]
  BY DEF JournalTypes
<1>2. CASE UNCHANGED <<pc, answer>>
  BY <1>2
<1>3. CASE CancelRecorder
  <2>1. pc'.host = pc.host /\ pc'.recorder = "out" /\ UNCHANGED answer
    BY <1>3, LeavesIs DEF CancelRecorder
  <2> QED
    BY <2>1 DEF Clients
<1>4. CASE Record
  BY <1>4, RecordAdds DEF Clients
<1>5. CASE Synced
  BY <1>1, <1>5 DEF Synced, Clients
<1>6. CASE Opened
  BY <1>1, <1>6 DEF Opened, Clients
<1>7. CASE Closes \/ PutEnd \/ PutClose \/ Closed \/ CloseCancelled
  <2>1. /\ UNCHANGED answer
        /\ \E place : pc' = [pc EXCEPT !.host = place] /\ place # "awaiting"
    BY <1>7 DEF Closes, PutEnd, PutClose, Closed, CloseCancelled
  <2> QED
    BY <1>1, <2>1 DEF Clients
<1>8. CASE Locks
  <2>1. UNCHANGED answer /\ CallSync(journal)
    BY <1>8 DEF Locks
  <2>2. pc'.host = pc.host /\ pc'.recorder \in {"locking", "refused", "putting"}
    BY <1>1, <2>1, CallSyncIs DEF JournalTypes
  <2> QED
    BY <2>1, <2>2 DEF Clients
<1>9. ASSUME NEW u \in Clients, PutBarrier(u)
      PROVE  answer'[t] = "none" \/ (pc[t] = "awaiting" /\ answer'[t] = answer[t])
  BY <1>1, <1>9 DEF PutBarrier
<1>10. CASE TurnStep
  BY <1>2, <1>3, <1>4, <1>10 DEF TurnStep, Begin, Say, EndWithTools, EndWithPause, Respond,
     Fail, Cancel, NoteInterruption, journalVars
<1>11. CASE JournalStep
  BY <1>2, <1>6, <1>7, <1>8, <1>9, <1>11 DEF JournalStep, HostStep, WriterStep, WriterTakes,
     WriterAppends, WriterEnds
<1>12. CASE UNCHANGED vars
  BY <1>2, <1>12 DEF vars, journalVars
<1> QED
  BY <1>5, <1>10, <1>11, <1>12 DEF Next

\* Every step keeps what an answer says.
LEMMA AnswerStep ==
  ASSUME JournalTypes, TurnTypes, PipeInv, StartInv, RecorderInv, LockInv, BarrierInv, AnswerInv,
         CloseInv, [Next]_vars
  PROVE  AnswerInv'
<1>1. writer'.at = "chain" => durable' = Len(file')
  BY ChainStep
<1>2. /\ journal.degraded => journal'.degraded
      /\ named => named'
      /\ durable <= durable' /\ durable' <= Len(file') /\ Len(file') <= Len(journal'.admitted)
  BY MovesStep, DurableStep, PipeStep DEF Moves, PipeInv, Pipe, Written
<1>3. /\ durable \in Nat /\ durable' \in Nat /\ Len(file') \in Nat
      /\ Len(journal'.admitted) \in Nat
  <2>1. JournalTypes'
    BY TypesStep
  <2>2. durable' \in Nat /\ file' \in Seq(Records) /\ journal' \in Journals
    BY <2>1 DEF JournalTypes
  <2>3. Len(file') \in Nat /\ journal'.admitted \in Seq(Records)
    BY <2>2 DEF Journals
  <2> QED
    BY <2>2, <2>3 DEF JournalTypes
<1>4. ASSUME NEW t \in Clients, pc'[t] = "awaiting"
      PROVE  /\ answer'[t] = "true" => durable' = Len(journal'.admitted) /\ named'
             /\ answer'[t] = "false" => journal'.degraded
  <2>1. journal'.admitted = journal.admitted
    BY <1>4, QuietOrFree DEF Free, Quiet
  <2>2. CASE answer'[t] = "none"
    BY <2>2
  <2>3. CASE pc[t] = "awaiting" /\ answer'[t] = answer[t]
    <3>1. answer[t] = "true" => durable = Len(journal.admitted) /\ named
      BY <2>3 DEF AnswerInv
    <3>2. answer[t] = "false" => journal.degraded
      BY <2>3 DEF AnswerInv
    <3>3. durable = Len(journal.admitted) => durable' = Len(journal'.admitted)
      BY <1>2, <1>3, <2>1
    <3> QED
      BY <1>2, <2>3, <3>1, <3>2, <3>3
  <2>4. CASE WriterSyncs \/ WriterSyncsDirectories
    <3>1. pc[t] = "awaiting"
      BY <1>4, <2>4 DEF WriterSyncs, WriterSyncsDirectories
    <3> QED
      BY <2>1, <2>3, <2>4, <3>1, AnswerResolves
  <2> QED
    BY <1>4, <2>2, <2>3, <2>4, AnswerIs
<1> QED
  BY <1>1, <1>4 DEF AnswerInv

\* A host that is done with the journal stays so.
LEMMA HostPasses ==
  ASSUME JournalTypes, TurnTypes, [Next]_vars
  PROVE  /\ pc.host = "cancelled" => pc'.host = "cancelled"
         /\ pc.host = "closed" => pc'.host = "closed"
         /\ pc.host = "joining" => pc'.host \in {"joining", "closed", "cancelled"}
<1>1. pc \in [Clients -> Places]
  BY DEF JournalTypes
<1>2. CASE pc'.host = pc.host
  BY <1>2
<1>3. CASE Record
  BY <1>2, <1>3, RecordAdds
<1>4. CASE CancelRecorder
  BY <1>2, <1>4, LeavesIs DEF CancelRecorder
<1>5. CASE Synced
  BY <1>1, <1>2, <1>5 DEF Synced, Clients
<1>6. CASE Locks
  BY <1>1, <1>2, <1>6, CallSyncIs DEF Locks, JournalTypes
<1>7. CASE Opened \/ Closes \/ PutEnd \/ PutClose
  BY <1>7 DEF Opened, Closes, PutEnd, PutClose
<1>8. CASE Closed \/ CloseCancelled
  BY <1>1, <1>8 DEF Closed, CloseCancelled, Clients
<1>9. ASSUME NEW t \in Clients, PutBarrier(t) PROVE pc'.host = pc.host \/ pc.host = "putting"
  BY <1>1, <1>9 DEF PutBarrier, Clients
<1>10. CASE TurnStep
  BY <1>2, <1>3, <1>4, <1>10 DEF TurnStep, Begin, Say, EndWithTools, EndWithPause, Respond,
     Fail, Cancel, NoteInterruption, journalVars
<1>11. CASE WriterStep
  BY <1>2, <1>11 DEF WriterStep, WriterTakes, WriterAppends, WriterSyncs, WriterSyncsDirectories,
     WriterEnds
<1>12. CASE JournalStep
  BY <1>2, <1>6, <1>7, <1>8, <1>9, <1>11, <1>12 DEF JournalStep, HostStep
<1>13. CASE UNCHANGED vars
  BY <1>2, <1>13 DEF vars, journalVars
<1> QED
  BY <1>5, <1>10, <1>12, <1>13 DEF Next

\* What follows position i still does when an item that is not a record is appended.
LEMMA LastAppends ==
  ASSUME NEW q \in Seq(Items), NEW item \in Items, item.do # "record", NEW i \in Nat,
         LastRecordBefore(q, i)
  PROVE  LastRecordBefore(Append(q, item), i)
<1> DEFINE p == Append(q, item)
<1>1. /\ Len(p) = Len(q) + 1 /\ Len(q) \in Nat /\ p[Len(q) + 1] = item
      /\ \A k \in 1..Len(q) : p[k] = q[k]
  OBVIOUS
<1> HIDE DEF p
<1>2. ASSUME NEW k \in (i + 1)..Len(p) PROVE p[k].do # "record"
  <2>1. CASE k = Len(q) + 1
    BY <1>1, <2>1
  <2>2. CASE k # Len(q) + 1
    <3>1. k \in (i + 1)..Len(q) /\ k \in 1..Len(q)
      BY <1>1, <2>2
    <3> QED
      BY <1>1, <3>1 DEF LastRecordBefore
  <2> QED
    BY <2>1, <2>2
<1> QED
  BY <1>2 DEF LastRecordBefore, p

\* Every step keeps the close item behind the records, ..
LEMMA CloseQueue ==
  ASSUME JournalTypes, TurnTypes, StartInv, RecorderInv, LockInv, BarrierInv, CloseInv,
         [Next]_vars, NEW i \in 1..Len(journal'.queue), journal'.queue[i].do = "close"
  PROVE  /\ pc'.host \in {"joining", "closed", "cancelled"} /\ ~journal'.accepting
         /\ LastRecordBefore(journal'.queue, i)
<1>1. journal \in Journals /\ journal.queue \in Seq(Items) /\ Len(journal.queue) \in Nat
  BY DEF JournalTypes, Journals
<1>2. ASSUME pc.host \in {"joining", "closed", "cancelled"} /\ ~journal.accepting
      PROVE  pc'.host \in {"joining", "closed", "cancelled"} /\ ~journal'.accepting
  BY <1>2, HostPasses, AcceptingStep DEF Closes
<1>3. ASSUME NEW k \in 1..Len(journal.queue), journal.queue[k].do = "close"
      PROVE  /\ pc'.host \in {"joining", "closed", "cancelled"} /\ ~journal'.accepting
             /\ LastRecordBefore(journal.queue, k)
  BY <1>2, <1>3 DEF CloseInv
<1>4. CASE Free
  BY <1>4 DEF Free, Idle
<1>5. CASE journal'.queue = journal.queue
  BY <1>3, <1>5
<1>6. CASE CancelRecorder
  <2>1. /\ Len(journal'.queue) = Len(journal.queue)
        /\ \A k \in 1..Len(journal.queue) : journal'.queue[k].do = journal.queue[k].do
    BY <1>6, LeavesIs DEF CancelRecorder
  <2>2. LastRecordBefore(journal.queue, i)
    BY <1>3, <2>1
  <2>3. ASSUME NEW k \in (i + 1)..Len(journal'.queue) PROVE journal'.queue[k].do # "record"
    <3>1. k \in (i + 1)..Len(journal.queue) /\ k \in 1..Len(journal.queue)
      BY <1>1, <2>1
    <3> QED
      BY <2>1, <2>2, <3>1 DEF LastRecordBefore
  <2> QED
    BY <1>3, <2>1, <2>3 DEF LastRecordBefore
<1>7. CASE WriterTakes
  <2>1. journal.queue # <<>> /\ journal'.queue = Tail(journal.queue)
    BY <1>1, <1>7 DEF WriterTakes, Journals
  <2>2. /\ Len(journal'.queue) = Len(journal.queue) - 1
        /\ \A k \in 1..Len(journal'.queue) : journal'.queue[k] = journal.queue[k + 1]
    BY <1>1, <2>1
  <2>3. i + 1 \in 1..Len(journal.queue) /\ journal.queue[i + 1].do = "close"
    BY <1>1, <2>2
  <2>4. ASSUME NEW k \in (i + 1)..Len(journal'.queue) PROVE journal'.queue[k].do # "record"
    <3>1. k + 1 \in ((i + 1) + 1)..Len(journal.queue) /\ journal'.queue[k] = journal.queue[k + 1]
      BY <1>1, <2>2
    <3> QED
      BY <1>3, <2>3, <3>1 DEF LastRecordBefore
  <2> QED
    BY <1>3, <2>3, <2>4 DEF LastRecordBefore
<1>8. ASSUME NEW item \in Items, item.do # "record",
             journal'.queue = Append(journal.queue, item), i # Len(journal.queue) + 1
      PROVE  /\ pc'.host \in {"joining", "closed", "cancelled"} /\ ~journal'.accepting
             /\ LastRecordBefore(journal'.queue, i)
  <2>1. i \in 1..Len(journal.queue) /\ journal.queue[i].do = "close"
    BY <1>1, <1>8
  <2>2. LastRecordBefore(journal.queue, i) /\ i \in Nat
    BY <1>3, <2>1
  <2>3. LastRecordBefore(journal'.queue, i)
    BY <1>1, <1>8, <2>2, LastAppends
  <2> QED
    BY <1>3, <2>1, <2>3
<1>9. CASE PutClose
  <2>1. CloseItem \in Items /\ CloseItem.do # "record"
    BY ItemIs
  <2>2. /\ journal'.queue = Append(journal.queue, CloseItem)
        /\ pc.host = "last" /\ pc' = [pc EXCEPT !.host = "joining"]
        /\ journal'.accepting = journal.accepting
    BY <1>1, <1>9, <2>1, QueuedIs DEF PutClose, Journals
  <2>3. pc'.host = "joining" /\ ~journal'.accepting
    BY <2>2 DEF LockInv, Closing, JournalTypes, Clients
  <2>4. CASE i = Len(journal.queue) + 1
    <3>1. Len(journal'.queue) = Len(journal.queue) + 1
      BY <1>1, <2>1, <2>2
    <3>2. LastRecordBefore(journal'.queue, i)
      BY <1>1, <2>4, <3>1 DEF LastRecordBefore
    <3> QED
      BY <2>3, <3>2
  <2> QED
    BY <1>8, <2>1, <2>2, <2>4
<1>10. ASSUME NEW t \in Clients, PutBarrier(t)
       PROVE  /\ pc'.host \in {"joining", "closed", "cancelled"} /\ ~journal'.accepting
              /\ LastRecordBefore(journal'.queue, i)
  <2>1. BarrierItem(t) \in Items /\ BarrierItem(t).do = "sync"
    BY ItemIs
  <2>2. journal'.queue = Append(journal.queue, BarrierItem(t))
    BY <1>1, <1>10, <2>1, QueuedIs DEF PutBarrier
  <2>3. i # Len(journal.queue) + 1
    BY <1>1, <2>1, <2>2
  <2> QED
    BY <1>8, <2>1, <2>2, <2>3
<1> QED
  BY <1>4, <1>5, <1>6, <1>7, <1>9, <1>10, QuietOrFree DEF Quiet

\* .. and the file whole when the writer has come to it.
LEMMA CloseWriter ==
  ASSUME JournalTypes, TurnTypes, PipeInv, StartInv, RecorderInv, LockInv, BarrierInv, CloseInv,
         [Next]_vars, writer'.at \in {"finally", "over"}, ~journal'.degraded,
         pc'.host # "cancelled"
  PROVE  /\ pc'.host \in {"joining", "closed"}
         /\ Len(file') = Len(journal'.admitted)
         /\ writer'.at = "over" => durable' = Len(file')
<1>1. ~journal.degraded /\ pc.host # "cancelled"
  BY HostPasses, MovesStep DEF Moves
<1>2. CASE writer.at \in {"finally", "over"}
  <2>1. /\ pc.host \in {"joining", "closed"}
        /\ Len(file) = Len(journal.admitted)
        /\ writer.at = "over" => durable = Len(file)
    BY <1>1, <1>2 DEF CloseInv
  <2>2. journal'.admitted = journal.admitted
    BY <1>1, <1>2, QuietOrFree DEF Free, Quiet
  <2>3. pc'.host \in {"joining", "closed"}
    BY <2>1, HostPasses
  <2>4. CASE WriterStep
    <3>1. writer.at # "append" /\ writer.at # "fsync" /\ writer.at # "chain" /\ writer.at # "idle"
      BY <1>2
    <3>2. WriterEnds
      BY <2>4, <3>1 DEF WriterStep, WriterTakes, WriterAppends, WriterSyncs, WriterSyncsDirectories
    <3>3. journal' = IsDegraded => journal'.degraded
      BY DEF IsDegraded, JournalTypes, Journals
    <3>4. durable' = Len(file) /\ UNCHANGED file
      BY <3>2, <3>3 DEF WriterEnds, Fault
    <3> QED
      BY <2>1, <2>2, <2>3, <3>4
  <2> QED
    BY <2>1, <2>2, <2>3, <2>4, WriterKeeps
<1>3. CASE writer.at \notin {"finally", "over"}
  <2>1. WriterStep
    BY <1>3, WriterKeeps
  <2>2. WriterIdle => writer'.at = "idle"
    BY DEF WriterIdle
  <2>3. writer' = [writer EXCEPT !.at = "chain"] => writer'.at = "chain"
    BY DEF JournalTypes, Writers
  <2>4. WriterTakes
    BY <1>3, <2>1, <2>2, <2>3 DEF WriterStep, WriterAppends, WriterSyncs, WriterSyncsDirectories,
       WriterEnds
  <2>5. PICK item : item = Head(journal.queue)
    OBVIOUS
  <2>6. /\ journal.queue \in Seq(Items) /\ journal.queue # <<>> /\ writer.at = "idle"
        /\ journal'.admitted = journal.admitted /\ UNCHANGED <<pc, file, durable>>
    BY <2>4 DEF WriterTakes, JournalTypes, Journals, fileVars
  <2>7. /\ item.do = "close" /\ writer'.at = "finally"
    BY <1>3, <2>4, <2>5 DEF WriterTakes
  <2>8. 1 \in 1..Len(journal.queue) /\ item = journal.queue[1]
    BY <2>5, <2>6
  <2>9. pc.host \in {"joining", "closed", "cancelled"} /\ LastRecordBefore(journal.queue, 1)
    BY <2>7, <2>8 DEF CloseInv
  <2>10. ASSUME NEW k \in (0 + 1)..Len(journal.queue) PROVE journal.queue[k].do # "record"
    <3>1. k = 1 \/ k \in (1 + 1)..Len(journal.queue)
      BY <2>6
    <3> QED
      BY <2>7, <2>8, <2>9, <3>1 DEF LastRecordBefore
  <2>11. LastRecordBefore(journal.queue, 0)
    BY <2>10 DEF LastRecordBefore
  <2>12. Len(file) = Len(journal.admitted)
    BY <1>1, <2>6, <2>11, FlowsOut
  <2> QED
    BY <1>1, <2>6, <2>7, <2>9, <2>12
<1> QED
  BY <1>2, <1>3

\* Every step keeps the close of the journal behind what was accepted.
LEMMA CloseStep ==
  ASSUME JournalTypes, TurnTypes, PipeInv, StartInv, RecorderInv, LockInv, BarrierInv, CloseInv,
         [Next]_vars
  PROVE  CloseInv'
BY CloseQueue, CloseWriter DEF CloseInv

-----------------------------------------------------------------------------
(* The journal keeps text in order.                                        *)

\* What has been told or checked in a sequence is, further on and in a longer one.
LEMMA TextPast ==
  ASSUME NEW a \in Seq(Records), NEW b \in Seq(Records), Prefixed(a, b),
         NEW n \in 0..Len(a), NEW m \in n..Len(b), NEW p
  PROVE  (Checked(a, n, p) => Checked(b, m, p)) /\ (Told(a, n, p) => Told(b, m, p))
<1>1. \A i \in 1..n : i \in 1..Len(a) /\ i \in 1..m
  OBVIOUS
<1>2. \A i \in 1..n : b[i] = a[i] /\ i \in 1..m
  BY <1>1 DEF Prefixed
<1> QED
  BY <1>2 DEF Checked, Told

\* A journal that moves on has the start of the turn.
LEMMA StartedPast ==
  ASSUME NEW j \in Journals, NEW k \in Journals, Prefixed(j.admitted, k.admitted)
  PROVE  HasStarted(j) => HasStarted(k)
<1>1. Len(j.admitted) \in Nat /\ Len(k.admitted) \in Nat /\ Len(j.admitted) <= Len(k.admitted)
  BY DEF Journals, Prefixed
<1>2. \A i \in 1..Len(j.admitted) : k.admitted[i] = j.admitted[i] /\ i \in 1..Len(k.admitted)
  BY <1>1 DEF Prefixed
<1> QED
  BY <1>2 DEF HasStarted

\* Event e may be accepted.
Fits(j, e) ==
  /\ e.kind = "checkpoint" => HasStarted(j)
  /\ e.kind = "started" => e = Plain("started")
  /\ e \in Ends => \A i \in 1..Len(j.observed) : Told(j.admitted, Len(j.admitted), j.observed[i])

\* Records stay in order when one that fits is accepted, ..
LEMMA OrderAppends ==
  ASSUME NEW j \in Journals, NEW k \in Journals, NEW e \in Events, OrderInv(j), Fits(j, e),
         k.admitted = Append(j.admitted, NewRecord(j, e)),
         k.observed = j.observed \/ (NoEnds(j) /\ e \notin Ends)
  PROVE  OrderInv(k)
<1> DEFINE a == j.admitted
           b == k.admitted
           n == Len(j.admitted) + 1
<1>1. /\ a \in Seq(Records) /\ b \in Seq(Records)
      /\ Len(b) = n /\ n - 1 = Len(a) /\ Len(a) \in Nat
      /\ \A i \in 1..Len(a) : i \in 1..Len(b) /\ b[i] = a[i]
      /\ b[n].event = e /\ n \in 1..Len(b)
  BY NewRecordIs DEF Journals
<1>2. Prefixed(a, b)
  BY <1>1 DEF Prefixed
<1> HIDE DEF a, b, n
<1>3. \A i \in 1..Len(b) : i \in 1..Len(a) \/ i = n
  BY <1>1
<1>4. ASSUME NEW m \in 1..Len(b), b[m].event.kind = "checkpoint"
      PROVE  \E i \in 1..(m - 1) : b[i].event.kind = "started"
  <2>1. CASE m = n
    <3>1. HasStarted(j)
      BY <1>1, <1>4, <2>1 DEF Fits
    <3>2. PICK i \in 1..Len(a) : a[i].event.kind = "started"
      BY <3>1 DEF HasStarted, a
    <3> QED
      BY <1>1, <2>1, <3>2
  <2>2. CASE m \in 1..Len(a)
    <3>1. a[m].event.kind = "checkpoint"
      BY <1>1, <1>4, <2>2
    <3>2. PICK i \in 1..(m - 1) : a[i].event.kind = "started"
      BY <2>2, <3>1 DEF OrderInv, a
    <3>3. i \in 1..Len(a)
      BY <1>1, <2>2
    <3> QED
      BY <1>1, <3>2, <3>3
  <2> QED
    BY <1>3, <2>1, <2>2
<1>5. ASSUME NEW m \in 1..Len(b), b[m].event.kind = "started"
      PROVE  b[m].event = Plain("started")
  BY <1>1, <1>3, <1>5 DEF OrderInv, Fits, a
<1>6. ASSUME NEW m \in 1..Len(b), b[m].event \in Ends, NEW i \in 1..Len(k.observed)
      PROVE  Told(b, m - 1, k.observed[i])
  <2>1. k.observed = j.observed
    BY <1>1, <1>3, <1>6 DEF NoEnds, a
  <2>2. CASE m = n
    <3>1. Told(a, Len(a), k.observed[i])
      BY <1>1, <1>6, <2>1, <2>2 DEF Fits, a
    <3>2. Len(a) \in 0..Len(a) /\ m - 1 \in Len(a)..Len(b)
      BY <1>1, <2>2
    <3> QED
      BY <1>1, <1>2, <3>1, <3>2, TextPast
  <2>3. CASE m \in 1..Len(a)
    <3>1. a[m].event \in Ends
      BY <1>1, <1>6, <2>3
    <3>2. Told(a, m - 1, k.observed[i])
      BY <1>6, <2>1, <2>3, <3>1 DEF OrderInv, a
    <3>3. m - 1 \in 0..Len(a) /\ m - 1 \in (m - 1)..Len(b)
      BY <1>1, <2>3
    <3> QED
      BY <1>1, <1>2, <3>2, <3>3, TextPast
  <2> QED
    BY <1>3, <2>2, <2>3
<1> QED
  BY <1>4, <1>5, <1>6 DEF OrderInv, b

\* .. and text is not lost.
LEMMA TextAppends ==
  ASSUME NEW j \in Journals, NEW k \in Journals, TextInv(j), Prefixed(j.admitted, k.admitted),
         k.observed = j.observed, k.text = j.text, j.degraded => k.degraded,
         k.accepting = j.accepting \/ k.degraded
  PROVE  TextInv(k)
<1>1. /\ j.admitted \in Seq(Records) /\ k.admitted \in Seq(Records)
      /\ Len(j.admitted) \in Nat /\ Len(k.admitted) \in Nat /\ Len(j.admitted) <= Len(k.admitted)
  BY DEF Journals, Prefixed
<1>2. Len(j.admitted) \in 0..Len(j.admitted) /\ Len(k.admitted) \in Len(j.admitted)..Len(k.admitted)
  BY <1>1
<1>3. \A p : Checked(j.admitted, Len(j.admitted), p) => Checked(k.admitted, Len(k.admitted), p)
  BY <1>1, <1>2, TextPast
<1>4. HasStarted(j) => HasStarted(k)
  BY StartedPast
<1> QED
  BY <1>3, <1>4 DEF TextInv, Deaf

\* So it is when an event is recorded, ..
LEMMA TextEnqueued ==
  ASSUME NEW j \in Journals, NEW k \in Journals, NEW e \in Events, TextInv(j), OrderInv(j),
         k.text = j.text, k.observed = j.observed,
         Refuses(j, k) \/ (Accepts(j, k, e) /\ Fits(j, e))
  PROVE  TextInv(k) /\ OrderInv(k)
<1>1. Moves(j, k)
  BY MovesEnqueued
<1>2. (j.degraded => k.degraded) /\ (k.accepting = j.accepting \/ k.degraded)
  BY DEF Refuses, Accepts, Journals
<1>3. TextInv(k)
  BY <1>1, <1>2, TextAppends DEF Moves
<1>4. CASE Refuses(j, k)
  BY <1>3, <1>4 DEF OrderInv, Refuses
<1>5. CASE Accepts(j, k, e) /\ Fits(j, e)
  <2>1. k.admitted = Append(j.admitted, NewRecord(j, e))
    BY <1>5 DEF Accepts
  <2> QED
    BY <1>3, <1>5, <2>1, OrderAppends
<1> QED
  BY <1>4, <1>5

\* A checkpoint fits when the turn has started.
LEMMA CheckpointFits ==
  ASSUME NEW j, NEW t \in Seq(Pieces)
  PROVE  (HasStarted(j) => Fits(j, Checkpoint(t))) /\ Checkpoint(t) \notin Ends
<1>1. /\ Checkpoint(t).kind = "checkpoint" /\ Finished("succeeded").kind = "finished"
      /\ Notice.kind = "message"
  BY EventIs DEF Statuses, Notice, Committed
<1>2. Checkpoint(t) \notin Ends
  BY <1>1 DEF Ends
<1> QED
  BY <1>1, <1>2 DEF Fits

\* The last piece of a text and the others.
LEMMA AppendHas ==
  ASSUME NEW S, NEW s \in Seq(S), NEW e \in S
  PROVE  Has(Append(s, e), e) /\ \A p : Has(s, p) => Has(Append(s, e), p)
<1>1. /\ Len(Append(s, e)) = Len(s) + 1 /\ Len(s) \in Nat /\ Append(s, e)[Len(s) + 1] = e
      /\ \A i \in 1..Len(s) : i \in 1..Len(Append(s, e)) /\ Append(s, e)[i] = s[i]
  OBVIOUS
<1>2. Len(s) + 1 \in 1..Len(Append(s, e))
  BY <1>1
<1> QED
  BY <1>1, <1>2 DEF Has

\* What a checkpoint has is checked when it is accepted.
LEMMA CheckedAppends ==
  ASSUME NEW j \in Journals, NEW k \in Journals, NEW t \in Seq(Pieces),
         k.admitted = Append(j.admitted, NewRecord(j, Checkpoint(t)))
  PROVE  \A p : Has(t, p) \/ Checked(j.admitted, Len(j.admitted), p) =>
           Checked(k.admitted, Len(k.admitted), p)
<1>1. PICK c \in Events : c = Checkpoint(t) /\ c.kind = "checkpoint" /\ c.text = t
  BY EventIs
<1>2. NewRecord(j, c) \in Records /\ NewRecord(j, c).event = c /\ j.admitted \in Seq(Records)
  BY NewRecordIs DEF Journals
<1>3. /\ Len(k.admitted) = Len(j.admitted) + 1 /\ Len(j.admitted) \in Nat
      /\ k.admitted[Len(k.admitted)].event = c
      /\ \A i \in 1..Len(j.admitted) : i \in 1..Len(k.admitted) /\ k.admitted[i] = j.admitted[i]
  BY <1>1, <1>2
<1>4. Len(k.admitted) \in 1..Len(k.admitted)
  BY <1>3
<1> QED
  BY <1>1, <1>3, <1>4 DEF Checked

\* .. when the text is flushed, ..
LEMMA TextFlushed ==
  ASSUME NEW j \in Journals, TextInv(j), OrderInv(j), NEW k, k = Flushed(j)
  PROVE  /\ TextInv(k) /\ OrderInv(k)
         /\ k.text = <<>> \/ k.degraded
<1>1. /\ k \in Journals /\ k.observed = j.observed
      /\ \/ j.text = <<>> /\ k = j
         \/ j.text # <<>> /\ Refuses(j, k) /\ Deaf(k) /\ k.text = j.text
         \/ j.text # <<>> /\ Accepts(j, k, Checkpoint(j.text)) /\ k.text = <<>>
  BY FlushedIs
<1>2. j.text \in Seq(Pieces) /\ Checkpoint(j.text) \in Events
  BY EventIs DEF Journals
<1>3. CASE j.text = <<>> /\ k = j
  BY <1>3
<1>4. CASE j.text # <<>> /\ Refuses(j, k) /\ Deaf(k) /\ k.text = j.text
  <2>1. TextInv(k) /\ OrderInv(k)
    BY <1>1, <1>2, <1>4, TextEnqueued
  <2>2. k.degraded
    BY <1>1, <1>4, <2>1 DEF TextInv, Deaf
  <2> QED
    BY <2>1, <2>2
<1>5. CASE j.text # <<>> /\ Accepts(j, k, Checkpoint(j.text)) /\ k.text = <<>>
  <2>1. /\ k.admitted = Append(j.admitted, NewRecord(j, Checkpoint(j.text)))
        /\ ~j.degraded /\ ~Deaf(j) /\ k.accepting
    BY <1>5 DEF Accepts, Deaf
  <2>2. HasStarted(j)
    BY <1>5, <2>1 DEF TextInv
  <2>3. OrderInv(k)
    BY <1>1, <1>2, <2>1, <2>2, CheckpointFits, OrderAppends
  <2>4. \A p : Has(j.text, p) \/ Checked(j.admitted, Len(j.admitted), p) =>
          Checked(k.admitted, Len(k.admitted), p)
    BY <1>1, <1>2, <2>1, CheckedAppends
  <2>5. TextInv(k)
    BY <1>1, <1>5, <2>1, <2>4 DEF TextInv
  <2> QED
    BY <1>5, <2>3, <2>5
<1> QED
  BY <1>1, <1>3, <1>4, <1>5

\* .. and when a piece of text is observed.
LEMMA TextSaid ==
  ASSUME NEW j \in Journals, NEW k \in Journals, TextInv(j), OrderInv(j), NoEnds(j),
         HasStarted(j) \/ Deaf(j), NEW p \in Pieces, k.observed = Append(j.observed, p),
         \/ Refuses(j, k) /\ k.text = Append(j.text, p)
         \/ Accepts(j, k, Checkpoint(Append(j.text, p))) /\ k.text = <<>>,
         j.accepting
  PROVE  TextInv(k) /\ OrderInv(k)
<1>1. /\ j.text \in Seq(Pieces) /\ j.observed \in Seq(Pieces) /\ j.admitted \in Seq(Records)
      /\ Append(j.text, p) \in Seq(Pieces)
  BY DEF Journals
<1>2. Has(Append(j.text, p), p) /\ \A r : Has(j.text, r) => Has(Append(j.text, p), r)
  BY <1>1, AppendHas
<1>3. \A i \in 1..Len(k.observed) :
        k.observed[i] = p \/ (i \in 1..Len(j.observed) /\ k.observed[i] = j.observed[i])
  BY <1>1
<1>4. CASE Refuses(j, k) /\ k.text = Append(j.text, p)
  <2>1. k.admitted = j.admitted /\ k.accepting /\ (j.degraded => k.degraded)
    BY <1>4 DEF Refuses
  <2>2. OrderInv(k)
    BY <2>1 DEF OrderInv, NoEnds
  <2>3. HasStarted(k) \/ Deaf(k)
    BY <2>1 DEF HasStarted, Deaf
  <2>4. ~k.degraded => \A i \in 1..Len(k.observed) :
          Has(k.text, k.observed[i]) \/ Checked(k.admitted, Len(k.admitted), k.observed[i])
    BY <1>2, <1>3, <1>4, <2>1 DEF TextInv
  <2> QED
    BY <2>1, <2>2, <2>3, <2>4 DEF TextInv
<1>5. CASE Accepts(j, k, Checkpoint(Append(j.text, p))) /\ k.text = <<>>
  <2>1. /\ k.admitted = Append(j.admitted, NewRecord(j, Checkpoint(Append(j.text, p))))
        /\ ~j.degraded /\ ~Deaf(j) /\ k.accepting
    BY <1>5 DEF Accepts, Deaf
  <2>2. PICK t \in Seq(Pieces) : t = Append(j.text, p)
    BY <1>1
  <2>3. OrderInv(k)
    <3>1. HasStarted(j)
      BY <2>1
    <3>2. Fits(j, Checkpoint(t)) /\ Checkpoint(t) \notin Ends /\ Checkpoint(t) \in Events
      BY <3>1, CheckpointFits, EventIs
    <3>3. k.admitted = Append(j.admitted, NewRecord(j, Checkpoint(t)))
      BY <2>1, <2>2
    <3> QED
      BY <3>2, <3>3, OrderAppends
  <2>4. \A r : Has(t, r) \/ Checked(j.admitted, Len(j.admitted), r) =>
          Checked(k.admitted, Len(k.admitted), r)
    BY <2>1, <2>2, CheckedAppends
  <2>5. \A i \in 1..Len(k.observed) : Checked(k.admitted, Len(k.admitted), k.observed[i])
    <3> TAKE i \in 1..Len(k.observed)
    <3>1. Has(t, k.observed[i]) \/ Checked(j.admitted, Len(j.admitted), k.observed[i])
      BY <1>2, <1>3, <2>1, <2>2 DEF TextInv
    <3> QED
      BY <2>4, <3>1
  <2> QED
    BY <1>5, <2>1, <2>3, <2>5 DEF TextInv
<1> QED
  BY <1>4, <1>5

\* Text is not lost where only the queue and the marks of the journal change, ..
LEMMA TextSame ==
  ASSUME NEW j \in Journals, NEW k \in Journals, TextInv(j), OrderInv(j),
         k.admitted = j.admitted, k.observed = j.observed, k.text = j.text,
         k.accepting = j.accepting, j.degraded => k.degraded
  PROVE  TextInv(k) /\ OrderInv(k)
<1>1. Prefixed(j.admitted, k.admitted)
  BY PrefixedSame DEF Journals
<1>2. TextInv(k)
  BY <1>1, TextAppends
<1> QED
  BY <1>2 DEF OrderInv

\* .. nor where it is forgotten after it was flushed, ..
LEMMA TextForgets ==
  ASSUME NEW j \in Journals, NEW e, NEW k, k = AfterEvent(j, e), TextInv(j), OrderInv(j),
         e.kind = "finished" => j.text = <<>> \/ j.degraded
  PROVE  k \in Journals /\ TextInv(k) /\ OrderInv(k)
<1>1. /\ k \in Journals /\ Refuses(j, k) /\ k.degraded = j.degraded
      /\ k.observed = j.observed
      /\ k.text = IF e.kind = "finished" THEN <<>> ELSE j.text
  BY AfterEventIs
<1>2. k.admitted = j.admitted /\ k.accepting = j.accepting
  BY <1>1 DEF Refuses
<1>3. CASE k.text = j.text
  BY <1>1, <1>2, <1>3, TextSame
<1>4. CASE k.text = <<>> /\ j.degraded
  <2>1. OrderInv(k)
    BY <1>1, <1>2 DEF OrderInv
  <2> QED
    BY <1>1, <1>4, <2>1 DEF TextInv
<1> QED
  BY <1>1, <1>3, <1>4

\* .. nor where the journal is closed.
LEMMA TextCloses ==
  ASSUME NEW j \in Journals, TextInv(j), OrderInv(j), j.accepting,
         NEW k, k = [Flushed(j) EXCEPT !.accepting = FALSE]
  PROVE  TextInv(k) /\ OrderInv(k)
<1>1. PICK m \in Journals : m = Flushed(j)
  BY FlushedIs
<1>2. TextInv(m) /\ OrderInv(m) /\ (m.text = <<>> \/ m.degraded)
  BY <1>1, TextFlushed
<1>3. /\ k.admitted = m.admitted /\ k.observed = m.observed /\ k.text = m.text
      /\ k.degraded = m.degraded /\ k.accepting = FALSE
  BY <1>1 DEF Journals
<1>4. OrderInv(k)
  BY <1>2, <1>3 DEF OrderInv
<1>5. /\ ~k.degraded => \A i \in 1..Len(k.observed) :
           Has(k.text, k.observed[i]) \/ Checked(k.admitted, Len(k.admitted), k.observed[i])
      /\ ~k.degraded /\ ~k.accepting => k.text = <<>>
      /\ k.text # <<>> => HasStarted(k) \/ Deaf(k)
  BY <1>2, <1>3 DEF TextInv, Deaf
<1> QED
  BY <1>4, <1>5 DEF TextInv

\* An event that is published fits.
LEMMA PublishedFits ==
  ASSUME JournalTypes, TurnTypes, HandInv, SaidInv, todo # <<>>, ~Deaf(journal),
         NEW j \in Journals, Moves(journal, j), j.observed = journal.observed
  PROVE  Fits(j, Head(todo))
<1>1. PICK e : e = Head(todo)
  OBVIOUS
<1>2. e \in Events /\ e = todo[1] /\ 1 \in 1..Len(todo)
  BY <1>1 DEF TurnTypes
<1>3. e = Plain("started") \/ e.kind \in {"message", "result", "finished"}
  BY <1>2 DEF HandInv, Hand
<1>4. e.kind # "checkpoint" /\ (e.kind = "started" => e = Plain("started"))
  BY <1>3, EventIs DEF Kinds
<1>5. ASSUME e \in Ends, NEW i \in 1..Len(j.observed)
      PROVE  Told(j.admitted, Len(j.admitted), j.observed[i])
  <2>1. /\ Finished("succeeded").kind = "finished" /\ Finished("succeeded") # Finished("failed")
        /\ Notice.kind = "message" /\ Finished("failed").kind = "finished" /\ Len(Notice.text) = 0
    <3>1. Finished("succeeded").status # Finished("failed").status
      BY EventIs DEF Statuses
    <3> QED
      BY <3>1, EventIs DEF Statuses, Notice, Committed
  <2>2. phase \notin {"before", "streaming"}
    BY <1>2, <1>5, <2>1 DEF HandInv, Hand, Ends
  <2>3. ~Tells(e, j.observed[i])
    BY <1>5, <2>1 DEF Ends, Tells, Has
  <2>4. Told(journal.admitted, Len(journal.admitted), j.observed[i])
    BY <1>1, <1>5, <2>2, <2>3 DEF SaidInv
  <2>5. /\ journal.admitted \in Seq(Records) /\ j.admitted \in Seq(Records)
        /\ Prefixed(journal.admitted, j.admitted)
    BY DEF JournalTypes, Journals, Moves
  <2>6. /\ Len(journal.admitted) \in 0..Len(journal.admitted)
        /\ Len(j.admitted) \in Len(journal.admitted)..Len(j.admitted)
    BY <2>5 DEF Prefixed
  <2> QED
    BY <2>4, <2>5, <2>6, TextPast
<1> QED
  BY <1>1, <1>4, <1>5 DEF Fits

\* What the recorder does keeps text in order, and flushes it before a barrier.
LEMMA TextRecord ==
  ASSUME JournalTypes, TurnTypes, TextInv(journal), OrderInv(journal), HandInv, SaidInv, Record
  PROVE  /\ TextInv(journal') /\ OrderInv(journal')
         /\ pc'.recorder # "out" => journal'.degraded \/ journal'.text = <<>>
<1>1. PICK b, a \in Journals :
        /\ b = IF Durable(Head(todo)) THEN Flushed(journal) ELSE journal
        /\ a = Enqueued(b, Head(todo)) /\ Head(todo) \in Events
        /\ todo # <<>> /\ pc.recorder = "out"
        /\ \/ Durable(Head(todo)) /\ Accepts(b, a, Head(todo)) /\ CallSync(a)
           \/ journal' = AfterEvent(a, Head(todo)) /\ UNCHANGED pc
  BY RecordIs
<1>2. journal \in Journals /\ Moves(journal, journal)
  BY MovesRefuses DEF JournalTypes
<1>3. /\ TextInv(b) /\ OrderInv(b) /\ Moves(journal, b) /\ b.observed = journal.observed
      /\ Durable(Head(todo)) => b.text = <<>> \/ b.degraded
  BY <1>1, <1>2, FlushedIs, MovesFlushed, TextFlushed
<1>4. Accepts(b, a, Head(todo)) => Fits(b, Head(todo))
  <2>1. Accepts(b, a, Head(todo)) => ~Deaf(journal)
    BY <1>3 DEF Accepts, Moves, Deaf
  <2> QED
    BY <1>1, <1>3, <2>1, PublishedFits
<1>5. /\ a.text = b.text /\ a.observed = b.observed
      /\ Refuses(b, a) \/ Accepts(b, a, Head(todo))
  BY <1>1, EnqueuedIs
<1>6. TextInv(a) /\ OrderInv(a)
  BY <1>1, <1>3, <1>4, <1>5, TextEnqueued
<1>7. Durable(Head(todo)) => a.text = <<>> \/ a.degraded
  <2>1. b.degraded => a.degraded
    BY <1>5 DEF Refuses, Accepts
  <2> QED
    BY <1>3, <1>5, <2>1
<1>8. CASE Durable(Head(todo)) /\ CallSync(a)
  <2>1. journal' = a \/ journal' = Flushed(a)
    BY <1>8, CallSyncIs DEF JournalTypes
  <2> QED
    BY <1>6, <1>7, <1>8, <2>1, TextFlushed
<1>9. CASE journal' = AfterEvent(a, Head(todo)) /\ UNCHANGED pc
  <2>1. TextInv(journal') /\ OrderInv(journal')
    BY <1>6, <1>7, <1>9, TextForgets DEF Durable
  <2> QED
    BY <1>1, <1>9, <2>1
<1> QED
  BY <1>1, <1>8, <1>9

\* Journal k differs from j in its queue and its marks.
Marks(j, k) ==
  /\ k.admitted = j.admitted /\ k.observed = j.observed /\ k.text = j.text
  /\ k.accepting = j.accepting /\ (j.degraded => k.degraded)

\* What a step does to the journal.
LEMMA JournalIs ==
  ASSUME JournalTypes, [Next]_vars
  PROVE  \/ Say \/ Record \/ Synced \/ PutEnd
         \/ Marks(journal, journal')
         \/ Locks /\ journal' = Flushed(journal)
         \/ Closes /\ journal' = [Flushed(journal) EXCEPT !.accepting = FALSE]
<1>1. journal \in Journals
  BY DEF JournalTypes
<1>2. CASE UNCHANGED journal
  BY <1>2 DEF Marks
<1>3. CASE CancelRecorder
  <2>1. journal' = [journal EXCEPT !.queue = journal'.queue]
    BY <1>3, LeavesIs DEF CancelRecorder
  <2> QED
    BY <1>1, <2>1 DEF Journals, Marks
<1>4. CASE WriterTakes \/ PutClose \/ Closed \/ \E t \in Clients : PutBarrier(t)
  BY <1>1, <1>4 DEF WriterTakes, PutClose, Closed, PutBarrier, Journals, Marks
<1>5. CASE journal' = IsDegraded
  BY <1>1, <1>5 DEF IsDegraded, Journals, Marks
<1>6. CASE Closes
  BY <1>2, <1>6 DEF Closes
<1>7. CASE Locks
  BY <1>1, <1>2, <1>7, CallSyncIs DEF Locks, JournalTypes
<1>8. CASE TurnStep
  BY <1>2, <1>3, <1>8 DEF TurnStep, Begin, EndWithTools, EndWithPause, Respond, Fail, Cancel,
     NoteInterruption, journalVars
<1>9. CASE JournalStep
  BY <1>2, <1>4, <1>5, <1>6, <1>7, <1>9
     DEF JournalStep, WriterStep, WriterAppends, WriterSyncs, WriterSyncsDirectories, WriterEnds,
         Fault, HostStep, Opened, CloseCancelled
<1>10. CASE UNCHANGED vars
  BY <1>2, <1>10 DEF vars, journalVars
<1> QED
  BY <1>8, <1>9, <1>10 DEF Next

\* The last record of the session.
LEMMA EndsAppends ==
  ASSUME JournalTypes, PutEnd
  PROVE  \E e \in Events :
           /\ e.kind = "end" /\ e \notin Ends
           /\ journal'.admitted = Append(journal.admitted, NewRecord(journal, e))
           /\ journal'.accepting = journal.accepting /\ journal'.degraded = journal.degraded
           /\ journal'.text = journal.text /\ journal'.observed = journal.observed
<1>1. PICK e \in Events : e = Plain("end") /\ e.kind = "end"
  BY EventIs DEF Kinds
<1>2. journal' = [journal EXCEPT
                    !.queue = Append(@, RecordItem(NewRecord(journal, Plain("end")))),
                    !.next = @ + 1, !.admitted = Append(@, NewRecord(journal, Plain("end")))]
  BY DEF PutEnd, NewRecord
<1>3. /\ journal'.admitted = Append(journal.admitted, NewRecord(journal, Plain("end")))
      /\ journal'.accepting = journal.accepting /\ journal'.degraded = journal.degraded
      /\ journal'.text = journal.text /\ journal'.observed = journal.observed
  BY <1>2, EndIs DEF JournalTypes
<1>4. e \notin Ends
  <2>1. Finished("succeeded").kind = "finished" /\ Notice.kind = "message"
    BY EventIs DEF Statuses, Notice, Committed
  <2> QED
    BY <1>1, <2>1 DEF Ends
<1> QED
  BY <1>1, <1>3, <1>4

\* Every step keeps the text of the journal in order.
LEMMA TextStep ==
  ASSUME JournalTypes, TurnTypes, StartInv, RecorderInv, LockInv, TextInv(journal), OrderInv(journal),
         HandInv, SaidInv, [Next]_vars
  PROVE  TextInv(journal') /\ OrderInv(journal')
<1>1. journal \in Journals /\ journal' \in Journals
  <2>1. JournalTypes'
    BY TypesStep
  <2> QED
    BY <2>1 DEF JournalTypes
<1>2. CASE Marks(journal, journal')
  BY <1>1, <1>2, TextSame DEF Marks
<1>3. CASE Say
  <2>1. PICK p \in Pieces :
          /\ journal'.observed = Append(journal.observed, p)
          /\ \/ Refuses(journal, journal') /\ journal'.text = Append(journal.text, p)
             \/ /\ Accepts(journal, journal', Checkpoint(Append(journal.text, p)))
                /\ journal'.text = <<>>
    BY <1>3, SayIs
  <2>2. phase = "streaming" /\ todo = <<>> /\ pc.host = "running"
    BY <1>3 DEF Say, Streaming, Recording
  <2>3. journal.accepting
    BY <2>2 DEF LockInv
  <2>4. NoEnds(journal)
    BY <2>2 DEF HandInv
  <2>5. HasStarted(journal) \/ Deaf(journal)
    BY <2>2 DEF StartInv
  <2> QED
    BY <1>1, <2>1, <2>3, <2>4, <2>5, TextSaid
<1>4. CASE Synced
  <2>1. journal' = AfterEvent(journal, Head(todo))
    BY <1>4 DEF Synced
  <2>2. journal.degraded \/ journal.text = <<>>
    BY <1>4 DEF Synced, HandInv
  <2> QED
    BY <1>1, <2>1, <2>2, TextForgets
<1>5. CASE Closes /\ journal' = [Flushed(journal) EXCEPT !.accepting = FALSE]
  <2>1. journal.accepting
    BY <1>5 DEF Closes, LockInv
  <2> QED
    BY <1>1, <1>5, <2>1, TextCloses
<1>6. CASE PutEnd
  <2>1. PICK e \in Events :
          /\ e.kind = "end" /\ e \notin Ends
          /\ journal'.admitted = Append(journal.admitted, NewRecord(journal, e))
          /\ journal'.accepting = journal.accepting /\ journal'.degraded = journal.degraded
          /\ journal'.text = journal.text /\ journal'.observed = journal.observed
    BY <1>6, EndsAppends
  <2>2. Fits(journal, e)
    BY <2>1 DEF Fits
  <2>3. Prefixed(journal.admitted, journal'.admitted)
    <3>1. NewRecord(journal, e) \in Records /\ journal.admitted \in Seq(Records)
      BY <1>1, NewRecordIs DEF Journals
    <3> QED
      BY <2>1, <3>1, PrefixedAppend
  <2>4. OrderInv(journal')
    BY <1>1, <2>1, <2>2, OrderAppends
  <2>5. TextInv(journal')
    BY <1>1, <2>1, <2>3, TextAppends
  <2> QED
    BY <2>4, <2>5
<1> QED
  BY <1>1, <1>2, <1>3, <1>4, <1>5, <1>6, JournalIs, TextRecord, TextFlushed

-----------------------------------------------------------------------------
(* The events in hand.                                                     *)

\* While the recorder waits, the turn does.
LEMMA RecorderWaits ==
  ASSUME JournalTypes, StartInv, RecorderInv, [Next]_vars, pc'.recorder # "out"
  PROVE  \/ Record
         \/ pc.recorder # "out" /\ UNCHANGED turnVars /\ (JournalStep \/ UNCHANGED vars)
<1>1. pc \in [Clients -> Places]
  BY DEF JournalTypes
<1>2. todo = <<>> \/ phase = "before" => pc.recorder = "out"
  BY DEF RecorderInv, StartInv
<1>3. CASE CancelRecorder
  BY <1>3, LeavesIs DEF CancelRecorder
<1>4. CASE Synced
  BY <1>1, <1>4 DEF Synced, Clients
<1>5. CASE TurnStep
  BY <1>2, <1>3, <1>5 DEF TurnStep, Begin, Say, EndWithTools, EndWithPause, Respond, Fail,
     Cancel, NoteInterruption, Streaming, journalVars
<1>6. CASE UNCHANGED vars
  BY <1>6 DEF vars, journalVars
<1>7. CASE JournalStep /\ UNCHANGED turnVars
  <2>1. CASE UNCHANGED pc
    BY <1>7, <2>1
  <2>2. CASE HostStep \/ CloseCancelled
    <3>1. UNCHANGED pc \/ \E place : pc' = [pc EXCEPT !.host = place]
      BY <2>2 DEF HostStep, Opened, Closes, PutEnd, PutClose, Closed, CloseCancelled
    <3>2. pc'.recorder = pc.recorder
      BY <1>1, <3>1 DEF Clients
    <3> QED
      BY <1>7, <3>2
  <2>3. CASE Locks
    BY <1>7, <2>3 DEF Locks
  <2>4. ASSUME NEW t \in Clients, PutBarrier(t) PROVE pc.recorder # "out"
    BY <1>1, <2>4 DEF PutBarrier, Clients
  <2>5. CASE WriterStep
    BY <2>1, <2>5 DEF WriterStep, WriterTakes, WriterAppends, WriterSyncs, WriterSyncsDirectories,
       WriterEnds
  <2> QED
    BY <1>7, <2>2, <2>3, <2>4, <2>5 DEF JournalStep
<1> QED
  BY <1>4, <1>5, <1>6, <1>7 DEF Next

\* It waits for a barrier behind all the text, ..
LEMMA HandText ==
  ASSUME JournalTypes, TurnTypes, StartInv, RecorderInv, TextInv(journal), OrderInv(journal), HandInv, SaidInv,
         [Next]_vars, pc'.recorder # "out"
  PROVE  journal'.degraded \/ journal'.text = <<>>
<1>1. CASE Record
  BY <1>1, TextRecord
<1>2. CASE pc.recorder # "out" /\ UNCHANGED turnVars
  <2>1. journal.degraded \/ journal.text = <<>>
    BY <1>2 DEF HandInv
  <2>2. PICK k \in Journals : k = Flushed(journal) /\ (k.text = <<>> \/ k.degraded)
    BY FlushedIs, TextFlushed DEF JournalTypes
  <2>3. CASE Marks(journal, journal')
    BY <2>1, <2>3 DEF Marks
  <2>4. CASE journal' = Flushed(journal)
    BY <2>2, <2>4
  <2>5. CASE journal' = [Flushed(journal) EXCEPT !.accepting = FALSE]
    BY <2>2, <2>5 DEF Journals
  <2>6. CASE PutEnd
    BY <2>1, <2>6, EndsAppends
  <2>7. CASE Say
    BY <1>2, <2>7 DEF Say, Streaming, RecorderInv
  <2>8. CASE Synced
    BY <2>8 DEF Synced, JournalTypes, Clients
  <2> QED
    BY <1>1, <2>3, <2>4, <2>5, <2>6, <2>7, <2>8, JournalIs
<1> QED
  BY <1>1, <1>2, RecorderWaits

\* .. and behind the event in hand.
LEMMA HandAdmitted ==
  ASSUME JournalTypes, TurnTypes, StartInv, RecorderInv, HandInv, [Next]_vars, pc'.recorder # "out"
  PROVE  \E m \in 1..Len(journal'.admitted) : journal'.admitted[m].event = Head(todo')
<1>1. journal \in Journals /\ journal' \in Journals
  <2>1. JournalTypes'
    BY TypesStep
  <2> QED
    BY <2>1 DEF JournalTypes
<1>2. ASSUME NEW j \in Journals, Moves(j, journal'), NEW e,
             NEW m \in 1..Len(j.admitted), j.admitted[m].event = e
      PROVE  \E i \in 1..Len(journal'.admitted) : journal'.admitted[i].event = e
  <2>1. j.admitted \in Seq(Records) /\ journal'.admitted \in Seq(Records)
    BY <1>1, <1>2 DEF Journals
  <2>2. Len(j.admitted) \in Nat /\ Len(journal'.admitted) \in Nat
    BY <2>1
  <2>3. Prefixed(j.admitted, journal'.admitted)
    BY <1>2 DEF Moves
  <2>4. m \in 1..Len(journal'.admitted) /\ journal'.admitted[m] = j.admitted[m]
    BY <2>2, <2>3 DEF Prefixed
  <2> QED
    BY <1>2, <2>4
<1>3. CASE Record
  <2>1. PICK b, a \in Journals :
          /\ Head(todo) \in Events /\ pc.recorder = "out"
          /\ \/ Accepts(b, a, Head(todo)) /\ CallSync(a) /\ UNCHANGED todo
             \/ UNCHANGED pc
    BY <1>3, RecordIs
  <2>2. Accepts(b, a, Head(todo)) /\ CallSync(a) /\ UNCHANGED todo
    BY <2>1
  <2>3. Moves(a, journal')
    <3>1. journal' = a \/ journal' = Flushed(a)
      BY <2>2, CallSyncIs DEF JournalTypes
    <3>2. Moves(a, a)
      BY MovesRefuses
    <3> QED
      BY <3>1, <3>2, MovesFlushed
  <2>4. PICK e \in Events : e = Head(todo)
    BY <2>1
  <2>5. a.admitted = Append(b.admitted, NewRecord(b, e))
    BY <2>2, <2>4 DEF Accepts
  <2>6. /\ b.admitted \in Seq(Records) /\ NewRecord(b, e) \in Records
        /\ NewRecord(b, e).event = e
    BY NewRecordIs DEF Journals
  <2>7. Len(a.admitted) \in 1..Len(a.admitted) /\ a.admitted[Len(a.admitted)].event = e
    BY <2>5, <2>6
  <2>8. \E i \in 1..Len(journal'.admitted) : journal'.admitted[i].event = e
    BY <1>2, <2>3, <2>7
  <2> QED
    BY <2>2, <2>4, <2>8
<1>4. CASE pc.recorder # "out" /\ UNCHANGED turnVars
  <2>1. UNCHANGED todo
    BY <1>4 DEF turnVars
  <2>2. PICK m \in 1..Len(journal.admitted) : journal.admitted[m].event = Head(todo)
    BY <1>4 DEF HandInv
  <2> QED
    BY <1>1, <1>2, <2>1, <2>2, MovesStep
<1> QED
  BY <1>3, <1>4, RecorderWaits

\* What the events of a turn are.
LEMMA EventsAre ==
  /\ Plain("started").kind = "started" /\ Plain("result").kind = "result"
  /\ Plain("result").text = <<>> /\ Plain("result") # Notice
  /\ Finished("failed").kind = "finished" /\ Finished("cancelled").kind = "finished"
  /\ Finished("succeeded").kind = "finished"
  /\ \A s \in Statuses : Finished(s).text = <<>>
  /\ Notice.kind = "message" /\ Notice.text = <<>> /\ Plain("started") # Notice
  /\ Committed("user", <<>>).kind = "message" /\ Committed("user", <<>>).text = <<>>
  /\ Committed("user", <<>>) # Notice
  /\ Results.kind = "message" /\ Results.text = <<>> /\ Results # Notice
  /\ \A t : Committed("assistant", t).kind = "message" /\ Committed("assistant", t) # Notice
  /\ \A t : Committed("assistant", t).text = t
  /\ Answer = Committed("assistant", round.text)
<1>1. Committed("user", <<>>).role = "user" /\ Notice.role = "notice" /\ Results.role = "results"
  BY DEF Committed, Notice, Results
<1>2. \A t : Committed("assistant", t).role = "assistant"
  BY DEF Committed
<1>3. Notice.kind = "message" /\ Plain("started").kind = "started" /\ Plain("result").kind = "result"
  BY DEF Committed, Notice, Plain
<1>4. \A s \in Statuses : Finished(s).text = <<>>
  BY DEF Finished, Plain
<1>5. /\ Finished("failed").kind = "finished" /\ Finished("cancelled").kind = "finished"
      /\ Finished("succeeded").kind = "finished"
  BY EventIs DEF Statuses
<1> QED
  BY <1>1, <1>2, <1>3, <1>4, <1>5 DEF Committed, Plain, Notice, Results, Answer

\* The first of the events has been published.
LEMMA HandTail ==
  ASSUME NEW t \in Seq(Events), t # <<>>, NEW p, Hand(t, p)
  PROVE  Hand(Tail(t), IF Len(t) = 1 THEN Then(p) ELSE p)
<1>1. /\ Len(Tail(t)) = Len(t) - 1 /\ Len(t) \in Nat \ {0}
      /\ \A i \in 1..Len(Tail(t)) : Tail(t)[i] = t[i + 1]
  OBVIOUS
<1>2. \A i \in 1..Len(Tail(t)) : i + 1 \in 1..Len(t) /\ i + 1 \in 2..Len(t) /\ Len(t) # 1
  BY <1>1
<1>3. \A i \in 2..Len(Tail(t)) : i \in 1..Len(Tail(t))
  BY <1>1
<1>4. PICK u : u = Tail(t)
  OBVIOUS
<1>5. PICK q : q = IF Len(t) = 1 THEN Then(p) ELSE p
  OBVIOUS
<1>6. \A i \in 1..Len(u) : q = p /\ i + 1 \in 1..Len(t) /\ i + 1 \in 2..Len(t) /\ u[i] = t[i + 1]
  BY <1>1, <1>2, <1>4, <1>5
<1>7. /\ \A i \in 1..Len(u) : u[i] = Plain("started") \/ u[i].kind \in {"message", "result", "finished"}
      /\ \A i \in 1..Len(u) : u[i].text = <<>>
      /\ \A i \in 1..Len(u) :
           u[i].kind = "finished" \/ u[i] = Notice => q \notin {"before", "streaming"}
  BY <1>6 DEF Hand
<1>8. Hand(u, q)
  BY <1>3, <1>4, <1>7 DEF Hand
<1> QED
  BY <1>4, <1>5, <1>8

\* What a cancelled turn publishes.
LEMMA UnwindHand == ASSUME TurnTypes, Unwind PROVE Hand(todo', phase') /\ phase' = "unwinding"
<1>1. PICK c, f : c = Committed("assistant", current) /\ f = Finished("cancelled")
  OBVIOUS
<1>2. PICK added : (added = <<>> \/ added = <<c>>) /\ todo' = Append(added, f)
  BY <1>1 DEF Unwind
<1>3. /\ c.kind = "message" /\ f.kind = "finished" /\ f.text = <<>>
  BY <1>1, EventsAre DEF Statuses
<1>4. added \in Seq({c}) /\ Len(added) \in 0..1 /\ \A i \in 1..Len(added) : added[i] = c
  <2>1. <<>> \in Seq({c}) /\ <<c>> \in Seq({c})
    OBVIOUS
  <2>2. added \in Seq({c})
    BY <1>2, <2>1
  <2>3. Len(added) \in 0..1
    BY <1>2
  <2> QED
    BY <2>2, <2>3
<1>5. phase' = "unwinding"
  BY DEF Unwind
<1>6. /\ \A i \in 1..Len(todo') : todo'[i].kind \in {"message", "result", "finished"}
      /\ \A i \in 2..Len(todo') : todo'[i].text = <<>>
  <2>1. /\ Len(todo') = Len(added) + 1 /\ todo'[Len(added) + 1] = f
        /\ \A i \in 1..Len(added) : todo'[i] = added[i]
    BY <1>2, <1>4
  <2>2. \A i \in 1..Len(todo') : i \in 1..Len(added) \/ i = Len(added) + 1
    BY <1>4, <2>1
  <2>3. \A i \in 2..Len(todo') : i = Len(added) + 1
    BY <1>4, <2>1
  <2> QED
    BY <1>3, <1>4, <2>1, <2>2, <2>3
<1> QED
  BY <1>5, <1>6 DEF Hand

\* The events that every step leaves in hand.
LEMMA HandNext ==
  ASSUME JournalTypes, TurnTypes, RecorderInv, Hand(todo, phase), [Next]_vars
  PROVE  Hand(todo', phase') /\ (phase' \in {"before", "streaming"} => phase \in {"before", "streaming"})
<1>1. CASE UNCHANGED <<todo, phase>>
  BY <1>1
<1>2. CASE Begin
  <2>1. todo' = <<Plain("started"), Committed("user", <<>>)>> /\ phase = "before"
    BY <1>2 DEF Begin
  <2> QED
    BY <2>1, EventsAre DEF Hand
<1>3. CASE EndWithTools
  <2>1. todo' = <<Answer, Results, Plain("result")>> /\ UNCHANGED phase
    BY <1>3 DEF EndWithTools
  <2> QED
    BY <2>1, EventsAre DEF Hand
<1>4. CASE EndWithPause
  <2>1. todo' = <<Answer>> /\ UNCHANGED phase
    BY <1>4 DEF EndWithPause
  <2> QED
    BY <2>1, EventsAre DEF Hand
<1>5. CASE Respond
  <2>1. PICK s \in {"succeeded", "failed"} : todo' = <<Answer, Finished(s)>> /\ phase' = "ending"
    BY <1>5 DEF Respond
  <2>2. Finished(s).kind = "finished" /\ Finished(s).text = <<>>
    BY EventsAre DEF Statuses
  <2> QED
    BY <2>1, <2>2, EventsAre DEF Hand
<1>6. CASE Fail
  <2>1. todo' = <<Finished("failed")>> /\ phase' = "ending"
    BY <1>6 DEF Fail
  <2> QED
    BY <2>1, EventsAre DEF Hand
<1>7. CASE Unwind
  BY <1>7, UnwindHand
<1>8. CASE CancelRecorder /\ ~Unwind
  <2>1. todo' = <<>> /\ phase' = "over"
    BY <1>8 DEF CancelRecorder
  <2> QED
    BY <2>1 DEF Hand
<1>9. CASE NoteInterruption
  <2>1. todo' = <<Notice>> /\ phase' = "over"
    BY <1>9 DEF NoteInterruption
  <2> QED
    BY <2>1, EventsAre DEF Hand
<1>10. ASSUME todo # <<>>, todo' = Tail(todo), phase' = IF Len(todo) = 1 THEN Then(phase) ELSE phase
       PROVE  Hand(todo', phase') /\ (phase' \in {"before", "streaming"} => phase \in {"before", "streaming"})
  <2>1. Hand(todo', phase')
    BY <1>10, HandTail DEF TurnTypes
  <2>2. phase' \in {"before", "streaming"} => phase \in {"before", "streaming"}
    BY <1>10 DEF Then
  <2> QED
    BY <2>1, <2>2
<1>11. CASE Record
  <2>1. todo # <<>> /\ (UNCHANGED <<todo, phase>> \/ Recorded(Head(todo)))
    BY <1>11 DEF Record
  <2> QED
    BY <1>1, <1>10, <2>1 DEF Recorded
<1>12. CASE Synced
  <2>1. Recorded(Head(todo)) /\ pc.recorder # "out"
    BY <1>12 DEF Synced
  <2> QED
    BY <1>10, <2>1 DEF Recorded, RecorderInv
<1>13. CASE TurnStep
  BY <1>1, <1>2, <1>3, <1>4, <1>5, <1>6, <1>7, <1>8, <1>9, <1>11, <1>13 DEF TurnStep, Say, Cancel
<1>14. CASE UNCHANGED turnVars
  BY <1>1, <1>14 DEF turnVars
<1> QED
  BY <1>12, <1>13, <1>14 DEF Next, vars

\* No end of the turn is accepted with another event.
LEMMA NoEndsAccepts ==
  ASSUME NEW j \in Journals, NEW k \in Journals, NEW e \in Events, e \notin Ends, NoEnds(j),
         k.admitted = j.admitted \/ k.admitted = Append(j.admitted, NewRecord(j, e))
  PROVE  NoEnds(k)
<1>1. CASE k.admitted = j.admitted
  BY <1>1 DEF NoEnds
<1>2. CASE k.admitted = Append(j.admitted, NewRecord(j, e))
  <2>1. /\ NewRecord(j, e) \in Records /\ NewRecord(j, e).event = e /\ j.admitted \in Seq(Records)
    BY NewRecordIs DEF Journals
  <2>2. \A i \in 1..Len(k.admitted) :
          k.admitted[i].event = e \/ (i \in 1..Len(j.admitted) /\ k.admitted[i] = j.admitted[i])
    BY <1>2, <2>1
  <2> QED
    BY <2>2 DEF NoEnds
<1> QED
  BY <1>1, <1>2

\* .. nor with text.
LEMMA NoEndsFlushed == ASSUME NEW j \in Journals, NoEnds(j) PROVE NoEnds(Flushed(j))
<1>1. PICK k \in Journals :
        /\ k = Flushed(j)
        /\ k = j \/ Refuses(j, k) \/ Accepts(j, k, Checkpoint(j.text))
  BY FlushedIs
<1>2. PICK c \in Events : c = Checkpoint(j.text) /\ c \notin Ends
  BY EventIs, CheckpointFits DEF Journals
<1>3. k.admitted = j.admitted \/ k.admitted = Append(j.admitted, NewRecord(j, c))
  BY <1>1, <1>2 DEF Refuses, Accepts
<1> QED
  BY <1>1, <1>2, <1>3, NoEndsAccepts

\* A turn that goes on has no end.
LEMMA NoEndsStep ==
  ASSUME JournalTypes, TurnTypes, RecorderInv, HandInv, phase \in {"before", "streaming"}, [Next]_vars
  PROVE  NoEnds(journal')
<1>1. /\ journal \in Journals /\ journal' \in Journals /\ NoEnds(journal)
  <2>1. JournalTypes'
    BY TypesStep
  <2> QED
    BY <2>1 DEF JournalTypes, HandInv
<1>2. CASE Marks(journal, journal')
  BY <1>1, <1>2 DEF Marks, NoEnds
<1>3. CASE Say
  <2>1. PICK t \in Seq(Pieces) : Refuses(journal, journal') \/ Accepts(journal, journal', Checkpoint(t))
    BY <1>3, SayIs
  <2>2. PICK c \in Events : c = Checkpoint(t) /\ c \notin Ends
    BY EventIs, CheckpointFits
  <2>3. \/ journal'.admitted = journal.admitted
        \/ journal'.admitted = Append(journal.admitted, NewRecord(journal, c))
    BY <2>1, <2>2 DEF Refuses, Accepts
  <2> QED
    BY <1>1, <2>2, <2>3, NoEndsAccepts
<1>4. CASE Synced
  <2>1. journal' = AfterEvent(journal, Head(todo))
    BY <1>4 DEF Synced
  <2>2. Refuses(journal, journal')
    BY <1>1, <2>1, AfterEventIs
  <2> QED
    BY <1>1, <2>2 DEF NoEnds, Refuses
<1>5. CASE PutEnd
  BY <1>1, <1>5, EndsAppends, NoEndsAccepts
<1>6. CASE journal' = Flushed(journal)
  BY <1>1, <1>6, NoEndsFlushed
<1>7. CASE journal' = [Flushed(journal) EXCEPT !.accepting = FALSE]
  <2>1. PICK k \in Journals : k = Flushed(journal) /\ NoEnds(k)
    BY <1>1, FlushedIs, NoEndsFlushed
  <2>2. journal'.admitted = k.admitted
    BY <1>7, <2>1 DEF Journals
  <2> QED
    BY <2>1, <2>2 DEF NoEnds
<1>8. CASE Record
  <2>1. PICK b, a \in Journals :
          /\ b = IF Durable(Head(todo)) THEN Flushed(journal) ELSE journal
          /\ a = Enqueued(b, Head(todo)) /\ Head(todo) \in Events /\ todo # <<>>
          /\ CallSync(a) \/ journal' = AfterEvent(a, Head(todo))
    BY <1>8, RecordIs
  <2>2. PICK e \in Events : e = Head(todo)
    BY <2>1
  <2>3. e \notin Ends
    <3>1. e = todo[1] /\ 1 \in 1..Len(todo)
      BY <2>1, <2>2 DEF TurnTypes
    <3>2. e.kind # "finished" /\ e # Notice
      BY <3>1 DEF HandInv, Hand
    <3> QED
      BY <3>2, EventsAre DEF Ends
  <2>4. NoEnds(b)
    BY <1>1, <2>1, NoEndsFlushed
  <2>5. Refuses(b, a) \/ Accepts(b, a, e)
    BY <2>1, <2>2, EnqueuedIs
  <2>6. NoEnds(a)
    BY <2>3, <2>4, <2>5, NoEndsAccepts DEF Refuses, Accepts
  <2>7. CASE CallSync(a)
    <3>1. journal' = a \/ journal' = Flushed(a)
      BY <2>7, CallSyncIs DEF JournalTypes
    <3> QED
      BY <2>6, <3>1, NoEndsFlushed
  <2>8. CASE journal' = AfterEvent(a, Head(todo))
    <3>1. Refuses(a, journal')
      BY <2>8, AfterEventIs
    <3>2. journal'.admitted = a.admitted
      BY <3>1 DEF Refuses
    <3> QED
      BY <2>6, <3>2 DEF NoEnds
  <2> QED
    BY <2>1, <2>7, <2>8
<1> QED
  BY <1>2, <1>3, <1>4, <1>5, <1>6, <1>7, <1>8, JournalIs

\* Every step keeps the events in hand in order.
LEMMA HandStep ==
  ASSUME JournalTypes, TurnTypes, StartInv, RecorderInv, TextInv(journal), OrderInv(journal),
         HandInv, SaidInv, [Next]_vars
  PROVE  HandInv'
<1>1. Hand(todo', phase') /\ (phase' \in {"before", "streaming"} => NoEnds(journal'))
  BY HandNext, NoEndsStep DEF HandInv
<1>2. pc'.recorder # "out" =>
        /\ journal'.degraded \/ journal'.text = <<>>
        /\ \E m \in 1..Len(journal'.admitted) : journal'.admitted[m].event = Head(todo')
  BY HandText, HandAdmitted
<1> QED
  BY <1>1, <1>2 DEF HandInv

-----------------------------------------------------------------------------
(* What was said.                                                          *)

\* Every step keeps the text of the round in the text that a cancelled turn stores.
LEMMA RoundStep ==
  ASSUME JournalTypes, TurnTypes, RecorderInv, RoundInv, [Next]_vars
  PROVE  RoundInv'
<1>1. round \in [n : Nat, text : Seq(Pieces)] /\ round.text \in Seq(Pieces) /\ current \in Seq(Pieces)
  BY DEF TurnTypes
<1>2. ASSUME round'.text = <<>> PROVE RoundInv'
  <2>1. Len(round'.text) = 0
    BY <1>2
  <2> QED
    BY <1>2, <2>1 DEF RoundInv
<1>3. ASSUME phase' \notin {"before", "streaming"} PROVE RoundInv'
  BY <1>3 DEF RoundInv
<1>4. CASE UNCHANGED <<phase, todo, round, current>>
  BY <1>4 DEF RoundInv
<1>5. CASE Begin
  <2>1. phase = "before" /\ UNCHANGED round
    BY <1>5 DEF Begin
  <2> QED
    BY <1>2, <2>1 DEF RoundInv
<1>6. CASE EndWithTools \/ EndWithPause
  BY <1>2, <1>6 DEF EndWithTools, EndWithPause
<1>7. CASE Respond \/ Fail \/ Unwind
  BY <1>3, <1>7 DEF Respond, Fail, Unwind
<1>8. CASE CancelRecorder
  BY <1>3, <1>8 DEF CancelRecorder, Unwind
<1>9. CASE NoteInterruption
  BY <1>3, <1>9 DEF NoteInterruption
<1>10. CASE Say
  <2>1. PICK p \in Pieces : round'.text = Append(round.text, p) /\ current' = Append(current, p)
    BY <1>10, SayIs
  <2>2. phase = "streaming" /\ todo = <<>> /\ UNCHANGED <<phase, todo>>
    BY <1>10 DEF Say, Streaming
  <2>3. \A r : Has(current, r) \/ r = p => Has(current', r)
    BY <1>1, <2>1, AppendHas
  <2>4. \A i \in 1..Len(round'.text) :
          round'.text[i] = p \/ (i \in 1..Len(round.text) /\ round'.text[i] = round.text[i])
    BY <1>1, <2>1
  <2>5. \A i \in 1..Len(round'.text) : Has(current', round'.text[i])
    BY <2>2, <2>3, <2>4 DEF RoundInv
  <2> QED
    BY <2>2, <2>5 DEF RoundInv
<1>11. ASSUME todo # <<>>, UNCHANGED round, phase' = phase \/ phase' = Then(phase)
       PROVE  RoundInv'
  <2>1. CASE phase = "streaming" \/ phase = "before"
    BY <1>2, <1>11, <2>1 DEF RoundInv
  <2>2. CASE phase # "streaming" /\ phase # "before"
    <3>1. phase' \notin {"before", "streaming"}
      BY <1>11, <2>2 DEF TurnTypes, Then
    <3> QED
      BY <1>3, <3>1
  <2> QED
    BY <2>1, <2>2
<1>12. CASE Record
  BY <1>11, <1>12 DEF Record, Recorded
<1>13. CASE Synced
  <2>1. Recorded(Head(todo)) /\ UNCHANGED <<round, current>> /\ todo # <<>>
    BY <1>13 DEF Synced, RecorderInv
  <2> QED
    BY <1>11, <2>1 DEF Recorded
<1>14. CASE TurnStep
  BY <1>5, <1>6, <1>7, <1>8, <1>9, <1>10, <1>12, <1>14 DEF TurnStep, Cancel
<1>15. CASE UNCHANGED turnVars
  BY <1>4, <1>15 DEF turnVars
<1> QED
  BY <1>13, <1>14, <1>15 DEF Next, vars

\* What is kept stays so.
LEMMA KeptMoves ==
  ASSUME NEW j \in Journals, NEW k \in Journals, Moves(j, k), NEW e, Kept(j, e)
  PROVE  Kept(k, e)
<1>1. CASE Deaf(j)
  BY <1>1 DEF Moves, Kept
<1>2. CASE ~Deaf(j)
  <2>1. PICK m \in 1..Len(j.admitted) : j.admitted[m].event = e
    BY <1>2 DEF Kept
  <2>2. Len(j.admitted) \in Nat /\ Len(k.admitted) \in Nat
    BY DEF Journals
  <2>3. m \in 1..Len(k.admitted) /\ k.admitted[m] = j.admitted[m]
    BY <2>2 DEF Moves, Prefixed
  <2> QED
    BY <2>1, <2>3 DEF Kept
<1> QED
  BY <1>1, <1>2

\* An event that is accepted is kept.
LEMMA KeptAccepts ==
  ASSUME NEW j \in Journals, NEW k \in Journals, NEW e \in Events, Accepts(j, k, e)
  PROVE  Kept(k, e)
<1>1. k.admitted = Append(j.admitted, NewRecord(j, e))
  BY DEF Accepts
<1>2. /\ j.admitted \in Seq(Records) /\ NewRecord(j, e) \in Records /\ NewRecord(j, e).event = e
  BY NewRecordIs DEF Journals
<1>3. Len(k.admitted) \in 1..Len(k.admitted) /\ k.admitted[Len(k.admitted)].event = e
  BY <1>1, <1>2
<1> QED
  BY <1>3 DEF Kept

\* What has been published is kept.
LEMMA HeadKept ==
  ASSUME JournalTypes, TurnTypes, RecorderInv, HandInv, [Next]_vars, Record \/ Synced \/ CancelRecorder
  PROVE  Kept(journal', Head(todo))
<1>1. journal \in Journals /\ journal' \in Journals /\ Moves(journal, journal')
  <2>1. JournalTypes'
    BY TypesStep
  <2> QED
    BY <2>1, MovesStep DEF JournalTypes
<1>2. CASE Synced \/ CancelRecorder
  <2>1. pc.recorder # "out"
    BY <1>2 DEF Synced, CancelRecorder
  <2>2. Kept(journal, Head(todo))
    BY <2>1 DEF HandInv, Kept
  <2> QED
    BY <1>1, <2>2, KeptMoves
<1>3. CASE Record
  <2>1. PICK b, a \in Journals :
          /\ Head(todo) \in Events
          /\ (Refuses(b, a) /\ Deaf(a)) \/ Accepts(b, a, Head(todo))
          /\ CallSync(a) \/ journal' = AfterEvent(a, Head(todo))
    BY <1>3, RecordIs
  <2>2. Kept(a, Head(todo))
    <3>1. CASE Deaf(a)
      BY <3>1 DEF Kept
    <3>2. CASE Accepts(b, a, Head(todo))
      BY <2>1, <3>2, KeptAccepts
    <3> QED
      BY <2>1, <3>1, <3>2
  <2>3. Moves(a, journal')
    <3>1. CASE CallSync(a)
      <4>1. journal' = a \/ journal' = Flushed(a)
        BY <3>1, CallSyncIs DEF JournalTypes
      <4>2. Moves(a, a)
        BY MovesRefuses
      <4> QED
        BY <4>1, <4>2, MovesFlushed
    <3>2. CASE journal' = AfterEvent(a, Head(todo))
      <4>1. Refuses(a, journal') /\ journal'.observed = a.observed
        BY <3>2, AfterEventIs
      <4> QED
        BY <1>1, <4>1, MovesRefuses DEF Refuses, Deaf
    <3> QED
      BY <2>1, <3>1, <3>2
  <2> QED
    BY <1>1, <2>2, <2>3, KeptMoves
<1> QED
  BY <1>2, <1>3

\* The event in hand stays there until then.
LEMMA HeadStays ==
  ASSUME StartInv, todo # <<>>, [Next]_vars
  PROVE  UNCHANGED todo \/ Record \/ Synced \/ CancelRecorder
BY DEF StartInv, Next, TurnStep, Begin, Say, EndWithTools, EndWithPause, Respond, Fail, Cancel,
   NoteInterruption, Streaming, turnVars, vars

\* A message is added to the store when it is about to be published.
LEMMA HistoryIs ==
  ASSUME TurnTypes, [Next]_vars, NEW i \in 1..Len(history')
  PROVE  \/ history'[i].text = <<>>
         \/ todo' # <<>> /\ Head(todo') = history'[i]
         \/ i \in 1..Len(history) /\ history'[i] = history[i]
<1>1. history \in Seq(Events) /\ Len(history) \in Nat
  BY DEF TurnTypes
<1>2. CASE UNCHANGED history
  BY <1>2
<1>3. CASE Begin
  <2>1. history' = <<Committed("user", <<>>)>>
    BY <1>3 DEF Begin
  <2> QED
    BY <2>1, EventsAre
<1>4. ASSUME NEW e \in Events, history' = Append(history, e), e.text = <<>> \/ (todo' # <<>> /\ Head(todo') = e)
      PROVE  \/ history'[i].text = <<>>
             \/ todo' # <<>> /\ Head(todo') = history'[i]
             \/ i \in 1..Len(history) /\ history'[i] = history[i]
  <2>1. history'[i] = e \/ (i \in 1..Len(history) /\ history'[i] = history[i])
    BY <1>1, <1>4
  <2> QED
    BY <1>4, <2>1
<1>5. Answer \in Events /\ Results \in Events /\ Notice \in Events
  <2>1. round.text \in Seq(Pieces) /\ <<>> \in Seq(Pieces)
    BY DEF TurnTypes
  <2> QED
    BY <2>1, EventIs DEF Answer, Results, Notice, Roles
<1>6. CASE EndWithTools
  <2>1. PICK x, y \in Events : x = Answer /\ y = Results /\ y.text = <<>>
    BY <1>5, EventsAre
  <2>2. history' = history \o <<x, y>> /\ todo' = <<x, y, Plain("result")>>
    BY <1>6, <2>1 DEF EndWithTools
  <2>3. <<x, y>> \in Seq(Events) /\ Len(<<x, y>>) = 2 /\ <<x, y>>[1] = x /\ <<x, y>>[2] = y
    OBVIOUS
  <2>4. Len(history') = Len(history) + 2
    BY <1>1, <2>2, <2>3
  <2>5. \/ i \in 1..Len(history) /\ history'[i] = history[i]
        \/ i = Len(history) + 1 \/ i = Len(history) + 2
    BY <1>1, <2>2, <2>3, <2>4
  <2>6. /\ history'[Len(history) + 1] = <<x, y>>[1]
        /\ history'[Len(history) + 2] = <<x, y>>[2]
    BY <1>1, <2>2, <2>3
  <2>7. todo' # <<>> /\ Head(todo') = x
    BY <2>2
  <2> QED
    BY <2>1, <2>3, <2>5, <2>6, <2>7
<1>7. CASE EndWithPause \/ Respond
  <2>1. history' = Append(history, Answer)
    BY <1>7 DEF EndWithPause, Respond
  <2>2. PICK x \in Events : x = Answer
    BY <1>5
  <2>3. PICK f \in Events : todo' = <<x>> \/ todo' = <<x, f>>
    <3>1. \A s \in {"succeeded", "failed"} : Finished(s) \in Events
      BY EventIs DEF Statuses
    <3> QED
      BY <1>7, <2>2, <3>1 DEF EndWithPause, Respond
  <2>4. todo' # <<>> /\ Head(todo') = Answer
    BY <2>2, <2>3
  <2> QED
    BY <1>4, <1>5, <2>1, <2>4
<1>8. CASE NoteInterruption
  BY <1>4, <1>5, <1>8, EventsAre DEF NoteInterruption
<1>9. CASE Unwind
  <2>1. PICK c \in Events : c = Committed("assistant", current)
    BY EventIs DEF TurnTypes, Roles
  <2>2. PICK added : /\ added = <<>> \/ added = <<c>>
                     /\ history' = history \o added
                     /\ todo' = Append(added, Finished("cancelled"))
    BY <1>9, <2>1 DEF Unwind
  <2>3. CASE added = <<>>
    <3>1. history' = history
      BY <1>1, <2>2, <2>3
    <3> QED
      BY <1>2, <3>1
  <2>4. CASE added = <<c>>
    <3>1. history' = Append(history, c)
      BY <1>1, <2>2, <2>4
    <3>2. PICK f \in Events : f = Finished("cancelled")
      BY EventIs DEF Statuses
    <3>3. <<c>> \in Seq(Events) /\ Len(<<c>>) = 1 /\ <<c>>[1] = c
      OBVIOUS
    <3>4. Len(todo') = 2 /\ todo'[1] = c /\ todo' \in Seq(Events)
      <4>1. todo' = Append(<<c>>, f)
        BY <2>2, <2>4, <3>2
      <4> QED
        BY <3>3, <4>1
    <3>5. todo' # <<>> /\ Head(todo') = c
      BY <3>4
    <3> QED
      BY <1>4, <3>1, <3>5
  <2> QED
    BY <2>2, <2>3, <2>4
<1>10. CASE TurnStep
  BY <1>2, <1>3, <1>6, <1>7, <1>8, <1>9, <1>10 DEF TurnStep, Say, Fail, Cancel, CancelRecorder, Record
<1>11. CASE Synced
  BY <1>2, <1>11 DEF Synced
<1>12. CASE UNCHANGED turnVars
  BY <1>2, <1>12 DEF turnVars
<1> QED
  BY <1>10, <1>11, <1>12 DEF Next, vars

\* What the store has was accepted, or is about to be published.
LEMMA HistoryStep ==
  ASSUME JournalTypes, TurnTypes, StartInv, RecorderInv, HandInv, HistoryInv, [Next]_vars
  PROVE  HistoryInv'
<1> SUFFICES ASSUME NEW i \in 1..Len(history'), history'[i].text # <<>>,
                    ~(todo' # <<>> /\ Head(todo') = history'[i])
             PROVE  Kept(journal', history'[i])
  BY DEF HistoryInv
<1>1. journal \in Journals /\ journal' \in Journals /\ Moves(journal, journal')
  <2>1. JournalTypes'
    BY TypesStep
  <2> QED
    BY <2>1, MovesStep DEF JournalTypes
<1>2. i \in 1..Len(history) /\ history'[i] = history[i]
  BY HistoryIs
<1>3. Kept(journal, history[i]) \/ (todo # <<>> /\ Head(todo) = history[i])
  BY <1>2 DEF HistoryInv
<1>4. CASE Kept(journal, history[i])
  BY <1>1, <1>2, <1>4, KeptMoves
<1>5. CASE todo # <<>> /\ Head(todo) = history[i]
  BY <1>2, <1>5, HeadStays, HeadKept
<1> QED
  BY <1>3, <1>4, <1>5

\* Text is observed when it is said.
LEMMA ObservedStays ==
  ASSUME JournalTypes, TurnTypes, [Next]_vars, ~Say
  PROVE  journal'.observed = journal.observed
<1>1. journal \in Journals
  BY DEF JournalTypes
<1>2. PICK k \in Journals : k = Flushed(journal) /\ k.observed = journal.observed
  BY <1>1, FlushedIs
<1>3. CASE Marks(journal, journal')
  BY <1>3 DEF Marks
<1>4. CASE journal' = Flushed(journal)
  BY <1>2, <1>4
<1>5. CASE journal' = [Flushed(journal) EXCEPT !.accepting = FALSE]
  BY <1>2, <1>5 DEF Journals
<1>6. CASE PutEnd
  BY <1>6, EndsAppends
<1>7. CASE Record
  BY <1>7, RecordAdds
<1>8. CASE Synced
  <2>1. journal' = AfterEvent(journal, Head(todo))
    BY <1>8 DEF Synced
  <2> QED
    BY <1>1, <2>1, AfterEventIs
<1> QED
  BY <1>3, <1>4, <1>5, <1>6, <1>7, <1>8, JournalIs

\* Text that a kept event tells is told.
LEMMA KeptTells ==
  ASSUME NEW j, NEW e, NEW p, Kept(j, e), Tells(e, p)
  PROVE  Deaf(j) \/ Told(j.admitted, Len(j.admitted), p)
BY DEF Kept, Told

\* Where p is, which has been said.
Said(p) ==
  \/ Deaf(journal) \/ Told(journal.admitted, Len(journal.admitted), p)
  \/ todo # <<>> /\ Tells(Head(todo), p)
  \/ phase = "streaming" /\ Has(round.text, p)

\* The text of a round that is cancelled is stored.
LEMMA UnwindTells ==
  ASSUME JournalTypes, TurnTypes, RoundInv, HistoryInv, Cancel, NEW p, Has(round.text, p)
  PROVE  \/ Deaf(journal) \/ Told(journal.admitted, Len(journal.admitted), p)
         \/ todo' # <<>> /\ Tells(Head(todo'), p)
<1>1. phase = "streaming" /\ todo = <<>> /\ Unwind
  BY DEF Cancel, Streaming
<1>2. Has(current, p)
  BY <1>1 DEF RoundInv, Has
<1>3. PICK c \in Events : /\ c = Committed("assistant", current)
                          /\ c.kind = "message" /\ c.text = current
  BY EventIs DEF TurnTypes, Roles
<1>4. Tells(c, p) /\ current # <<>>
  <2>1. Len(<<>>) = 0
    OBVIOUS
  <2>2. current # <<>>
    BY <1>2, <2>1 DEF Has
  <2> QED
    BY <1>2, <1>3, <2>2 DEF Tells
<1>5. CASE \E i \in DOMAIN history : history[i] = c
  <2>1. PICK i \in 1..Len(history) : history[i] = c
    BY <1>5 DEF TurnTypes
  <2>2. Kept(journal, c)
    BY <1>1, <1>3, <1>4, <2>1 DEF HistoryInv
  <2> QED
    BY <1>4, <2>2, KeptTells
<1>6. CASE ~\E i \in DOMAIN history : history[i] = c
  <2>1. todo' = Append(<<c>>, Finished("cancelled"))
    BY <1>1, <1>3, <1>4, <1>6 DEF Unwind
  <2>2. PICK f \in Events : f = Finished("cancelled")
    BY EventIs DEF Statuses
  <2>3. <<c>> \in Seq(Events) /\ Len(<<c>>) = 1 /\ <<c>>[1] = c
    OBVIOUS
  <2>4. Len(todo') = 2 /\ todo'[1] = c /\ todo' \in Seq(Events)
    <3>1. todo' = Append(<<c>>, f)
      BY <2>1, <2>2
    <3> QED
      BY <2>3, <3>1
  <2>5. todo' # <<>> /\ Head(todo') = c
    <3>1. PICK t \in Seq(Events) : t = todo' /\ Len(t) = 2 /\ t[1] = c
      BY <2>4
    <3>2. Head(t) = t[1]
      OBVIOUS
    <3>3. Len(<<>>) = 0
      OBVIOUS
    <3>4. t # <<>>
      <4>1. Len(t) # 0
        BY <3>1
      <4> QED
        BY <3>3, <4>1
    <3> QED
      BY <3>1, <3>2, <3>4
  <2> QED
    BY <1>4, <2>5
<1> QED
  BY <1>5, <1>6

\* What was said is told, or will be, ..
LEMMA SaidStays ==
  ASSUME JournalTypes, TurnTypes, StartInv, RecorderInv, HandInv, RoundInv, HistoryInv, [Next]_vars,
         NEW p, Said(p)
  PROVE  \/ Deaf(journal') \/ Told(journal'.admitted, Len(journal'.admitted), p)
         \/ todo' # <<>> /\ Tells(Head(todo'), p)
         \/ phase' = "streaming" /\ Has(round'.text, p)
<1>1. journal \in Journals /\ journal' \in Journals /\ Moves(journal, journal')
  <2>1. JournalTypes'
    BY TypesStep
  <2> QED
    BY <2>1, MovesStep DEF JournalTypes
<1>2. CASE Deaf(journal) \/ Told(journal.admitted, Len(journal.admitted), p)
  <2>1. /\ journal.admitted \in Seq(Records) /\ journal'.admitted \in Seq(Records)
        /\ Prefixed(journal.admitted, journal'.admitted)
    BY <1>1 DEF Journals, Moves
  <2>2. /\ Len(journal.admitted) \in 0..Len(journal.admitted)
        /\ Len(journal'.admitted) \in Len(journal.admitted)..Len(journal'.admitted)
    BY <2>1 DEF Prefixed
  <2>3. Told(journal.admitted, Len(journal.admitted), p) =>
          Told(journal'.admitted, Len(journal'.admitted), p)
    BY <2>1, <2>2, TextPast
  <2> QED
    BY <1>1, <1>2, <2>3 DEF Moves
<1>3. CASE todo # <<>> /\ Tells(Head(todo), p)
  <2>1. CASE UNCHANGED todo
    BY <1>3, <2>1
  <2>2. CASE Record \/ Synced \/ CancelRecorder
    BY <1>3, <2>2, HeadKept, KeptTells
  <2> QED
    BY <1>3, <2>1, <2>2, HeadStays
<1>4. CASE phase = "streaming" /\ Has(round.text, p)
  <2>1. todo = <<>>
    <3>1. Len(<<>>) = 0
      OBVIOUS
    <3>2. round.text # <<>>
      BY <1>4, <3>1 DEF Has
    <3> QED
      BY <1>4, <3>2 DEF RoundInv
  <2>2. CASE UNCHANGED <<phase, round>>
    BY <1>4, <2>2
  <2>3. CASE Say
    <3>1. PICK q \in Pieces : round'.text = Append(round.text, q) /\ UNCHANGED phase
      BY <2>3, SayIs
    <3>2. Has(round'.text, p)
      <4>1. round.text \in Seq(Pieces)
        BY DEF TurnTypes
      <4> QED
        BY <1>4, <3>1, <4>1, AppendHas
    <3> QED
      BY <1>4, <3>1, <3>2
  <2>4. CASE EndWithTools \/ EndWithPause \/ Respond
    <3>1. PICK x, y, z \in Events : /\ x = Answer
                                    /\ todo' = <<x>> \/ todo' = <<x, y>> \/ todo' = <<x, y, z>>
      <4>1. /\ Answer \in Events /\ Results \in Events /\ Plain("result") \in Events
            /\ \A s \in {"succeeded", "failed"} : Finished(s) \in Events
        <5>1. round.text \in Seq(Pieces) /\ <<>> \in Seq(Pieces)
          BY DEF TurnTypes
        <5> QED
          BY <5>1, EventIs DEF Answer, Results, Roles, Statuses, Kinds
      <4> QED
        BY <2>4, <4>1 DEF EndWithTools, EndWithPause, Respond
    <3>2. todo' # <<>> /\ Head(todo') = Answer
      BY <3>1
    <3>3. Tells(Answer, p)
      BY <1>4, EventsAre DEF Tells
    <3> QED
      BY <3>2, <3>3
  <2>5. CASE Fail
    <3>1. todo' = <<Finished("failed")>>
      BY <2>5 DEF Fail
    <3>2. todo' # <<>> /\ Head(todo') = Finished("failed")
      BY <3>1
    <3> QED
      BY <3>2 DEF Tells
  <2>6. CASE Cancel
    <3>1. UNCHANGED journal
      BY <2>6 DEF Cancel, journalVars
    <3> QED
      BY <1>4, <2>6, <3>1, UnwindTells
  <2>7. CASE CancelRecorder \/ Synced
    BY <2>1, <2>7 DEF CancelRecorder, Synced, RecorderInv
  <2>8. CASE Record
    BY <2>1, <2>8 DEF Record
  <2>9. CASE Begin \/ NoteInterruption
    BY <1>4, <2>9 DEF Begin, NoteInterruption
  <2>10. CASE TurnStep
    BY <2>3, <2>4, <2>5, <2>6, <2>7, <2>8, <2>9, <2>10 DEF TurnStep
  <2>11. CASE UNCHANGED turnVars
    BY <2>2, <2>11 DEF turnVars
  <2> QED
    BY <2>7, <2>10, <2>11 DEF Next, vars
<1> QED
  BY <1>2, <1>3, <1>4 DEF Said

\* .. whatever comes next.
LEMMA SaidStep ==
  ASSUME JournalTypes, TurnTypes, StartInv, RecorderInv, HandInv, RoundInv, HistoryInv, SaidInv,
         [Next]_vars
  PROVE  SaidInv'
<1> SUFFICES ASSUME NEW i \in 1..Len(journal'.observed)
             PROVE  \/ Deaf(journal')
                    \/ Told(journal'.admitted, Len(journal'.admitted), journal'.observed[i])
                    \/ todo' # <<>> /\ Tells(Head(todo'), journal'.observed[i])
                    \/ phase' = "streaming" /\ Has(round'.text, journal'.observed[i])
  BY DEF SaidInv
<1>1. PICK p : p = journal'.observed[i]
  OBVIOUS
<1>2. journal.observed \in Seq(Pieces) /\ round.text \in Seq(Pieces)
  BY DEF JournalTypes, Journals, TurnTypes
<1>3. CASE i \in 1..Len(journal.observed) /\ journal'.observed[i] = journal.observed[i]
  <2>1. Said(p)
    BY <1>1, <1>3 DEF SaidInv, Said
  <2> QED
    BY <1>1, <2>1, SaidStays
<1>4. CASE Say
  <2>1. PICK q \in Pieces : /\ journal'.observed = Append(journal.observed, q)
                            /\ round'.text = Append(round.text, q) /\ UNCHANGED phase
    BY <1>4, SayIs
  <2>2. phase' = "streaming"
    BY <1>4, <2>1 DEF Say, Streaming
  <2>3. p = q \/ (i \in 1..Len(journal.observed) /\ journal'.observed[i] = journal.observed[i])
    BY <1>1, <1>2, <2>1
  <2>4. Has(round'.text, q)
    BY <1>2, <2>1, AppendHas
  <2> QED
    BY <1>1, <1>3, <2>2, <2>3, <2>4
<1> QED
  BY <1>3, <1>4, ObservedStays

-----------------------------------------------------------------------------
(* What a barrier promises.                                                *)

\* Who opens the journal has opened it since the start.
LEMMA OpeningPast ==
  ASSUME JournalTypes, TurnTypes, [Next]_vars, pc'.host \in Opening
  PROVE  pc.host \in Opening
<1>1. pc \in [Clients -> Places]
  BY DEF JournalTypes
<1>2. CASE pc'.host = pc.host
  BY <1>2
<1>3. CASE Record
  BY <1>2, <1>3, RecordAdds
<1>4. CASE CancelRecorder
  BY <1>2, <1>4, LeavesIs DEF CancelRecorder
<1>5. CASE Synced
  BY <1>1, <1>2, <1>5 DEF Synced, Clients
<1>6. CASE Locks
  BY <1>1, <1>2, <1>6, CallSyncIs DEF Locks, JournalTypes
<1>7. CASE HostStep \/ CloseCancelled
  <2>1. UNCHANGED pc \/ \E place \in Places \ Opening : pc' = [pc EXCEPT !.host = place]
    BY <1>7 DEF HostStep, Opened, Closes, PutEnd, PutClose, Closed, CloseCancelled, Places, Opening
  <2> QED
    BY <1>1, <1>2, <2>1 DEF Clients
<1>8. ASSUME NEW t \in Clients, PutBarrier(t) PROVE pc'.host = pc.host \/ pc.host = "putting"
  BY <1>1, <1>8 DEF PutBarrier, Clients
<1>9. CASE TurnStep
  BY <1>2, <1>3, <1>4, <1>9 DEF TurnStep, Begin, Say, EndWithTools, EndWithPause, Respond,
     Fail, Cancel, NoteInterruption, journalVars
<1>10. CASE WriterStep
  BY <1>2, <1>10 DEF WriterStep, WriterTakes, WriterAppends, WriterSyncs, WriterSyncsDirectories,
     WriterEnds
<1>11. CASE JournalStep
  BY <1>2, <1>6, <1>7, <1>8, <1>10, <1>11 DEF JournalStep, Opening
<1>12. CASE UNCHANGED vars
  BY <1>2, <1>12 DEF vars, journalVars
<1> QED
  BY <1>5, <1>9, <1>11, <1>12 DEF Next

\* When something is promised.
LEMMA PromiseIs ==
  ASSUME JournalTypes, TurnTypes, [Next]_vars
  PROVE  \/ UNCHANGED promise
         \/ /\ Opened /\ answer.host = "true" /\ promise' = [promise EXCEPT !.records = 1]
         \/ /\ \/ Synced /\ pc.recorder = "awaiting" /\ answer.recorder = "true"
               \/ Closed /\ ~journal.degraded
            /\ promise' = [records |-> Len(journal.admitted), pieces |-> Len(journal.observed)]
<1>1. CASE Record
  BY <1>1, RecordAdds
<1>2. CASE TurnStep
  BY <1>1, <1>2 DEF TurnStep, Begin, Say, EndWithTools, EndWithPause, Respond,
     Fail, Cancel, CancelRecorder, NoteInterruption, journalVars
<1>3. CASE JournalStep
  BY <1>3 DEF JournalStep, WriterStep, WriterTakes, WriterAppends, WriterSyncs,
     WriterSyncsDirectories, WriterEnds, HostStep, Opened, Closes, PutEnd, PutClose, Closed,
     CloseCancelled, Locks, PutBarrier
<1>4. CASE Synced
  BY <1>4 DEF Synced
<1>5. CASE UNCHANGED vars
  BY <1>5 DEF vars, journalVars
<1> QED
  BY <1>2, <1>3, <1>4, <1>5 DEF Next

\* A barrier that has returned True has all the text before it.
LEMMA CoversStep ==
  ASSUME JournalTypes, TurnTypes, PipeInv, StartInv, RecorderInv, LockInv, BarrierInv, AnswerInv,
         CloseInv, TextInv(journal), HandInv, PromiseInv, [Next]_vars,
         pc'.recorder = "awaiting", answer'.recorder = "true"
  PROVE  Covers(journal')
<1>1. journal'.admitted = journal.admitted /\ journal'.observed = journal.observed
  BY QuietOrFree DEF Free, Quiet, Clients
<1>2. Covers(journal) => Covers(journal')
  BY <1>1 DEF Covers
<1>3. CASE pc.recorder = "awaiting" /\ answer.recorder = "true"
  BY <1>2, <1>3 DEF PromiseInv
<1>4. CASE WriterSyncs \/ WriterSyncsDirectories
  <2>1. pc.recorder = "awaiting" /\ "recorder" \in Clients
    BY <1>4 DEF WriterSyncs, WriterSyncsDirectories, Clients
  <2>2. answer'.recorder = answer.recorder \/ ~journal.degraded
    BY <1>4, <2>1, AnswerResolves
  <2>3. CASE ~journal.degraded
    <3>1. journal.text = <<>>
      BY <2>1, <2>3 DEF HandInv
    <3>2. \A p : ~Has(journal.text, p)
      BY <3>1 DEF Has
    <3>3. Covers(journal)
      BY <2>3, <3>2 DEF TextInv, Covers
    <3> QED
      BY <1>2, <3>3
  <2> QED
    BY <1>3, <2>1, <2>2, <2>3
<1>5. "recorder" \in Clients
  BY DEF Clients
<1> QED
  BY <1>3, <1>4, <1>5, AnswerIs

\* Every step keeps what was promised.
LEMMA PromiseStep ==
  ASSUME JournalTypes, TurnTypes, PipeInv, StartInv, RecorderInv, LockInv, BarrierInv, AnswerInv,
         CloseInv, TextInv(journal), HandInv, PromiseInv, [Next]_vars
  PROVE  PromiseInv'
<1>1. /\ journal \in Journals /\ journal' \in Journals /\ Moves(journal, journal')
      /\ promise \in [records : Nat, pieces : Nat] /\ promise' \in [records : Nat, pieces : Nat]
      /\ durable \in Nat /\ durable' \in Nat
  <2>1. JournalTypes'
    BY TypesStep
  <2> QED
    BY <2>1, MovesStep DEF JournalTypes
<1>2. /\ journal.admitted \in Seq(Records) /\ journal'.admitted \in Seq(Records)
      /\ Prefixed(journal.admitted, journal'.admitted)
      /\ Len(journal.observed) \in Nat /\ Len(journal'.observed) \in Nat
      /\ Prefixed(journal.observed, journal'.observed)
  <2>1. /\ journal.admitted \in Seq(Records) /\ journal'.admitted \in Seq(Records)
        /\ journal.observed \in Seq(Pieces) /\ journal'.observed \in Seq(Pieces)
    BY <1>1 DEF Journals
  <2>2. /\ Prefixed(journal.admitted, journal'.admitted)
        /\ Prefixed(journal.observed, journal'.observed)
    BY <1>1 DEF Moves
  <2> QED
    BY <2>1, <2>2
<1>3. /\ Len(journal.admitted) \in Nat /\ Len(journal'.admitted) \in Nat
      /\ Len(journal.admitted) <= Len(journal'.admitted) /\ Len(journal.observed) <= Len(journal'.observed)
      /\ Len(journal.admitted) > 0 /\ Len(journal'.admitted) > 0
  <2>1. Len(journal.admitted) \in Nat /\ Len(journal'.admitted) \in Nat
    BY <1>2
  <2> QED
    BY <1>2, <2>1 DEF Prefixed, PromiseInv
<1>4. durable <= durable' /\ (named => named')
  BY DurableStep
<1>5. /\ promise'.records <= durable' /\ (promise'.records > 0 => named')
      /\ promise'.pieces <= Len(journal'.observed)
      /\ \A i \in 1..promise'.pieces :
           Checked(journal'.admitted, promise'.records, journal'.observed[i])
      /\ pc'.host \in Opening => promise'.pieces = 0
  <2>1. CASE UNCHANGED promise
    <3>1. /\ promise.records <= durable /\ (promise.records > 0 => named)
          /\ promise.pieces <= Len(journal.observed)
          /\ \A i \in 1..promise.pieces :
               Checked(journal.admitted, promise.records, journal.observed[i])
          /\ pc.host \in Opening => promise.pieces = 0
      BY DEF PromiseInv
    <3>2. durable <= Len(journal.admitted)
      <4>1. durable <= Len(file) /\ Len(file) <= Len(journal.admitted) /\ Len(file) \in Nat
        BY DEF PipeInv, Pipe, Written, JournalTypes
      <4> QED
        BY <1>1, <1>3, <4>1
    <3>3. /\ promise.records \in Nat /\ promise.records \in 0..Len(journal.admitted)
          /\ promise.records \in promise.records..Len(journal'.admitted)
      BY <1>1, <1>3, <3>1, <3>2
    <3>4. ASSUME NEW i \in 1..promise.pieces
          PROVE  Checked(journal'.admitted, promise.records, journal'.observed[i])
      <4>1. i \in 1..Len(journal.observed)
        BY <1>1, <1>2, <3>1
      <4>2. journal'.observed[i] = journal.observed[i]
        BY <1>2, <4>1 DEF Prefixed
      <4> QED
        BY <1>2, <3>1, <3>3, <4>2, TextPast
    <3>5. pc'.host \in Opening => promise.pieces = 0
      BY <3>1, OpeningPast
    <3>6. promise.records <= durable' /\ promise.pieces <= Len(journal'.observed)
      BY <1>1, <1>2, <1>3, <1>4, <3>1
    <3> QED
      BY <1>4, <2>1, <3>1, <3>4, <3>5, <3>6
  <2>2. CASE Opened /\ answer.host = "true" /\ promise' = [promise EXCEPT !.records = 1]
    <3>1. pc.host = "awaiting" /\ "host" \in Clients
      BY <2>2 DEF Opened, Clients
    <3>2. durable = Len(journal.admitted) /\ named
      BY <2>2, <3>1 DEF AnswerInv
    <3>3. promise'.records = 1 /\ promise'.pieces = 0
      BY <1>1, <2>2, <3>1 DEF PromiseInv, Opening
    <3> QED
      BY <1>1, <1>2, <1>3, <1>4, <3>2, <3>3
  <2>3. ASSUME promise' = [records |-> Len(journal.admitted), pieces |-> Len(journal.observed)],
               durable = Len(journal.admitted), named, Covers(journal), pc'.host \notin Opening
        PROVE  /\ promise'.records <= durable' /\ (promise'.records > 0 => named')
               /\ promise'.pieces <= Len(journal'.observed)
               /\ \A i \in 1..promise'.pieces :
                    Checked(journal'.admitted, promise'.records, journal'.observed[i])
               /\ pc'.host \in Opening => promise'.pieces = 0
    <3>1. promise'.records = Len(journal.admitted) /\ promise'.pieces = Len(journal.observed)
      BY <2>3
    <3>2. /\ Len(journal.admitted) \in 0..Len(journal.admitted)
          /\ Len(journal.admitted) \in Len(journal.admitted)..Len(journal'.admitted)
      BY <1>3
    <3>3. ASSUME NEW i \in 1..Len(journal.observed)
          PROVE  Checked(journal'.admitted, Len(journal.admitted), journal'.observed[i])
      <4>1. journal'.observed[i] = journal.observed[i]
        BY <1>2 DEF Prefixed
      <4>2. Checked(journal.admitted, Len(journal.admitted), journal.observed[i])
        BY <2>3 DEF Covers
      <4> QED
        BY <1>2, <3>2, <4>1, <4>2, TextPast
    <3> QED
      BY <1>3, <1>4, <2>3, <3>1, <3>3
  <2>4. CASE /\ Synced /\ pc.recorder = "awaiting" /\ answer.recorder = "true"
             /\ promise' = [records |-> Len(journal.admitted), pieces |-> Len(journal.observed)]
    <3>1. durable = Len(journal.admitted) /\ named
      BY <2>4 DEF AnswerInv, Clients
    <3>2. Covers(journal)
      BY <2>4 DEF PromiseInv
    <3>3. pc.host \notin Opening
      BY <2>4 DEF RecorderInv, StartInv, LockInv
    <3>4. pc'.host \notin Opening
      BY <3>3, OpeningPast
    <3> QED
      BY <2>3, <2>4, <3>1, <3>2, <3>4
  <2>5. CASE /\ Closed /\ ~journal.degraded
             /\ promise' = [records |-> Len(journal.admitted), pieces |-> Len(journal.observed)]
    <3>1. pc.host = "joining" /\ writer.at = "over"
      BY <2>5 DEF Closed
    <3>2. durable = Len(journal.admitted)
      BY <2>5, <3>1 DEF CloseInv
    <3>3. named /\ ~journal.accepting
      BY <2>5, <3>1 DEF LockInv, Opening, Closing
    <3>4. Covers(journal)
      <4>1. journal.text = <<>>
        BY <2>5, <3>3 DEF TextInv
      <4>2. \A p : ~Has(journal.text, p)
        BY <4>1 DEF Has
      <4> QED
        BY <2>5, <4>2 DEF TextInv, Covers
    <3>5. pc'.host \notin Opening
      BY <3>1, OpeningPast DEF Opening
    <3> QED
      BY <2>3, <2>5, <3>2, <3>3, <3>4, <3>5
  <2> QED
    BY <2>1, <2>2, <2>4, <2>5, PromiseIs
<1>6. pc'.recorder = "awaiting" /\ answer'.recorder = "true" => Covers(journal')
  BY CoversStep
<1> QED
  BY <1>3, <1>5, <1>6 DEF PromiseInv

-----------------------------------------------------------------------------
(* What recovery tells.                                                    *)

DurableInv ==
  /\ LockInv /\ BarrierInv /\ AnswerInv /\ CloseInv
  /\ TextInv(journal) /\ OrderInv(journal)
  /\ HandInv /\ RoundInv /\ HistoryInv /\ SaidInv
  /\ PromiseInv

\* Nothing is promised before the journal is open.
LEMMA DurableInit == Init => DurableInv
<1> SUFFICES ASSUME Init PROVE DurableInv
  OBVIOUS
<1>1. PICK r \in Records :
        /\ r.seq = 1 /\ r.event = Plain("start")
        /\ journal = [queue |-> <<RecordItem(r)>>, next |-> 2, accepting |-> TRUE,
                      degraded |-> FALSE, closed |-> FALSE, text |-> <<>>, flushed |-> FALSE,
                      admitted |-> <<r>>, observed |-> <<>>]
  BY InitIs
<1>2. /\ RecordItem(r).do = "record" /\ RecordItem(r).for = Nobody
  BY DEF RecordItem
<1>3. /\ journal.accepting = TRUE /\ journal.degraded = FALSE
      /\ journal.text = <<>> /\ Len(journal.observed) = 0
      /\ Len(journal.queue) = 1 /\ journal.queue[1] = RecordItem(r)
      /\ Len(journal.admitted) = 1 /\ journal.admitted[1] = r
  BY <1>1
<1>4. r.event = Plain("start") /\ r.event.kind = "start" /\ r.event \notin Ends
  <2>1. r.event.kind = "start"
    BY <1>1 DEF Plain
  <2>2. Finished("succeeded").kind = "finished" /\ Notice.kind = "message"
    BY DEF Finished, Notice, Committed, Plain
  <2> QED
    BY <1>1, <2>1, <2>2 DEF Ends
<1>5. /\ pc.recorder = "out" /\ pc.host = "putting" /\ holder = "host"
      /\ \A t \in Clients : pc[t] # "awaiting" /\ answer[t] = "none"
      /\ writer.at = "idle" /\ writer.item = CloseItem /\ writer.item.for = Nobody
      /\ durable = 0 /\ promise = [records |-> 0, pieces |-> 0]
  BY DEF Init, JournalInit, Clients, CloseItem
<1>6. /\ phase = "before" /\ todo = <<>> /\ Len(todo) = 0
      /\ round.text = <<>> /\ Len(round.text) = 0 /\ Len(history) = 0
  BY DEF Init
<1>7. LockInv
  BY <1>3, <1>5, <1>6 DEF LockInv, Opening, Closing
<1>8. BarrierInv
  BY <1>2, <1>3, <1>5 DEF BarrierInv, WaitsFor
<1>9. AnswerInv /\ CloseInv
  BY <1>2, <1>3, <1>5 DEF AnswerInv, CloseInv
<1>10. TextInv(journal) /\ OrderInv(journal)
  BY <1>3, <1>4 DEF TextInv, OrderInv
<1>11. HandInv
  BY <1>3, <1>4, <1>5, <1>6 DEF HandInv, Hand, NoEnds
<1>12. RoundInv /\ HistoryInv /\ SaidInv
  BY <1>3, <1>6 DEF RoundInv, HistoryInv, SaidInv
<1>13. PromiseInv
  BY <1>3, <1>5 DEF PromiseInv, Opening
<1> QED
  BY <1>7, <1>8, <1>9, <1>10, <1>11, <1>12, <1>13 DEF DurableInv

\* A barrier that returns True has put every piece of text in a checkpoint that
\* is durable; a piece of a turn that has ended is told in a message besides.
THEOREM DurableInvariant == Spec => [](RecordedInv /\ DurableInv)
<1>1. RecordedInv /\ DurableInv /\ RecordedInv' /\ [Next]_vars => DurableInv'
  <2> SUFFICES ASSUME RecordedInv, DurableInv, [Next]_vars PROVE DurableInv'
    OBVIOUS
  <2>1. JournalTypes /\ TurnTypes /\ PipeInv /\ StartInv /\ RecorderInv
    BY DEF RecordedInv
  <2>2. /\ LockInv /\ BarrierInv /\ AnswerInv /\ CloseInv
        /\ TextInv(journal) /\ OrderInv(journal)
        /\ HandInv /\ RoundInv /\ HistoryInv /\ SaidInv /\ PromiseInv
    BY DEF DurableInv
  <2>3. LockInv' /\ BarrierInv' /\ AnswerInv' /\ CloseInv'
    BY <2>1, <2>2, LockStep, BarrierStep, AnswerStep, CloseStep
  <2>4. TextInv(journal') /\ OrderInv(journal')
    BY <2>1, <2>2, TextStep
  <2>5. HandInv' /\ RoundInv' /\ HistoryInv' /\ SaidInv'
    BY <2>1, <2>2, HandStep, RoundStep, HistoryStep, SaidStep
  <2>6. PromiseInv'
    BY <2>1, <2>2, PromiseStep
  <2> QED
    BY <2>3, <2>4, <2>5, <2>6 DEF DurableInv
<1> QED
  BY <1>1, DurableInit, RecordedInvariant, PTL DEF Spec

\* What is in a record is in what recovery makes of it.
LEMMA MessagesHave ==
  ASSUME NEW lines \in Seq(Records)
  PROVE  /\ Fragments(lines) \in Seq(Pieces) /\ Messages(lines) \in Seq(Events)
         /\ \A i \in 1..Len(lines) : lines[i].event.kind = "checkpoint" =>
              \A p : Has(lines[i].event.text, p) => Has(Fragments(lines), p)
         /\ \A i \in 1..Len(lines) : lines[i].event.kind = "message" =>
              Has(Messages(lines), lines[i].event)
<1> DEFINE f == [i \in DOMAIN lines |->
                   IF lines[i].event.kind = "checkpoint" THEN lines[i].event.text ELSE <<>>]
           g == [i \in DOMAIN lines |->
                   IF lines[i].event.kind = "message" THEN <<lines[i].event>> ELSE <<>>]
<1>1. Len(lines) \in Nat /\ DOMAIN lines = 1..Len(lines)
  OBVIOUS
<1>2. ASSUME NEW i \in 1..Len(lines)
      PROVE  lines[i].event \in Events /\ lines[i].event.text \in Seq(Pieces)
  <2>1. lines[i] \in Records
    OBVIOUS
  <2> QED
    BY <2>1 DEF Records, Events
<1>3. f \in Seq(Seq(Pieces)) /\ Len(f) = Len(lines)
  <2>1. <<>> \in Seq(Pieces)
    OBVIOUS
  <2>2. f \in [1..Len(lines) -> Seq(Pieces)]
    BY <1>1, <1>2, <2>1
  <2> HIDE DEF f
  <2> QED
    BY <1>1, <2>2
<1>4. g \in Seq(Seq(Events)) /\ Len(g) = Len(lines)
  <2>1. ASSUME NEW i \in 1..Len(lines) PROVE <<lines[i].event>> \in Seq(Events)
    BY <1>2
  <2>2. <<>> \in Seq(Events)
    OBVIOUS
  <2>3. g \in [1..Len(lines) -> Seq(Events)]
    BY <1>1, <2>1, <2>2
  <2> HIDE DEF g
  <2> QED
    BY <1>1, <2>3
<1>5. ASSUME NEW i \in 1..Len(lines)
      PROVE  /\ lines[i].event.kind = "checkpoint" => f[i] = lines[i].event.text
             /\ lines[i].event.kind = "message" => g[i] = <<lines[i].event>>
  BY <1>1
<1>6. Fragments(lines) = FlattenSeq(f) /\ Messages(lines) = FlattenSeq(g)
  BY DEF Fragments, Messages
<1> HIDE DEF f, g
<1>7. /\ Fragments(lines) \in Seq(Pieces)
      /\ \A i \in 1..Len(f) : \A p : Has(f[i], p) => Has(Fragments(lines), p)
  BY <1>3, <1>6, FlattenHas
<1>8. /\ Messages(lines) \in Seq(Events)
      /\ \A i \in 1..Len(g) : \A p : Has(g[i], p) => Has(Messages(lines), p)
  BY <1>4, <1>6, FlattenHas
<1>9. ASSUME NEW i \in 1..Len(lines), lines[i].event.kind = "message"
      PROVE  Has(Messages(lines), lines[i].event)
  <2>1. g[i] = <<lines[i].event>>
    BY <1>5, <1>9
  <2>2. Has(g[i], lines[i].event)
    BY <2>1 DEF Has
  <2> QED
    BY <1>4, <1>8, <2>2
<1>10. ASSUME NEW i \in 1..Len(lines), lines[i].event.kind = "checkpoint", NEW p,
              Has(lines[i].event.text, p)
       PROVE  Has(Fragments(lines), p)
  <2>1. f[i] = lines[i].event.text
    BY <1>5, <1>10
  <2> QED
    BY <1>3, <1>7, <1>10, <2>1
<1> QED
  BY <1>7, <1>8, <1>9, <1>10

\* The text of a message is in the text of the conversation.
LEMMA TextInHas ==
  ASSUME NEW messages \in Seq(Events), NEW e \in Events, Has(messages, e),
         NEW p, Has(e.text, p)
  PROVE  p \in ToSet(TextIn(messages))
<1> DEFINE f == [i \in DOMAIN messages |-> messages[i].text]
<1>1. DOMAIN messages = 1..Len(messages) /\ Len(messages) \in Nat
  OBVIOUS
<1>2. f \in Seq(Seq(Pieces)) /\ Len(f) = Len(messages)
  <2>1. ASSUME NEW i \in 1..Len(messages) PROVE messages[i].text \in Seq(Pieces)
    <3>1. messages[i] \in Events
      OBVIOUS
    <3> QED
      BY <3>1 DEF Events
  <2>2. f \in [1..Len(messages) -> Seq(Pieces)]
    BY <1>1, <2>1
  <2> HIDE DEF f
  <2> QED
    BY <1>1, <2>2
<1>3. PICK i \in 1..Len(messages) : messages[i] = e
  BY DEF Has
<1>4. Has(f[i], p)
  BY <1>1, <1>3
<1>5. TextIn(messages) = FlattenSeq(f)
  BY DEF TextIn
<1> HIDE DEF f
<1>6. TextIn(messages) \in Seq(Pieces) /\ Has(TextIn(messages), p)
  BY <1>2, <1>4, <1>5, FlattenHas
<1>7. PICK k \in 1..Len(TextIn(messages)) : TextIn(messages)[k] = p
  BY <1>6 DEF Has
<1>8. k \in DOMAIN TextIn(messages)
  BY <1>6
<1> QED
  BY <1>7, <1>8 DEF ToSet

\* A turn that has not ended is told to the last checkpoint.
LEMMA PartialTells ==
  ASSUME NEW lines \in Seq(Records), NEW p, Has(Fragments(lines), p), Unfinished(lines)
  PROVE  p \in ToSet(TextIn(Recovered(lines)))
<1> DEFINE text == Fragments(lines)
           said == Committed("assistant", text)
<1>1. /\ text \in Seq(Pieces) /\ Messages(lines) \in Seq(Events)
      /\ \A i \in 1..Len(lines) : lines[i].event.kind = "message" =>
           Has(Messages(lines), lines[i].event)
  BY MessagesHave
<1>2. text # <<>>
  <2>1. Len(text) # 0
    BY <1>1 DEF Has
  <2> QED
    BY <2>1
<1>3. said \in Events /\ said.text = text /\ said.kind = "message" /\ Notice \in Events
  BY <1>1, EventIs DEF Roles
<1>4. <<said>> \in Seq(Events) /\ <<Notice>> \in Seq(Events) /\ <<>> \in Seq(Events)
  BY <1>3
<1> HIDE DEF said
<1>5. PICK told :
        /\ Recovered(lines) = told \o <<Notice>>
        /\ told = IF Holds(lines, said) THEN Messages(lines) \o <<>> ELSE Messages(lines) \o <<said>>
  BY <1>2 DEF Recovered, said
<1>6. told \in Seq(Events) /\ Has(told, said)
  <2>1. CASE Holds(lines, said)
    <3>1. PICK i \in DOMAIN lines : lines[i].event = said
      BY <2>1 DEF Holds
    <3>2. i \in 1..Len(lines)
      OBVIOUS
    <3>3. Has(Messages(lines), said)
      BY <1>1, <1>3, <3>1, <3>2
    <3>4. told = Messages(lines) \o <<>>
      BY <1>5, <2>1
    <3> QED
      BY <1>1, <1>4, <3>3, <3>4, JoinedHas
  <2>2. CASE ~Holds(lines, said)
    <3>1. Has(<<said>>, said)
      BY DEF Has
    <3>2. told = Messages(lines) \o <<said>>
      BY <1>5, <2>2
    <3> QED
      BY <1>1, <1>4, <3>1, <3>2, JoinedHas
  <2> QED
    BY <2>1, <2>2
<1>7. told \o <<Notice>> \in Seq(Events) /\ Has(told \o <<Notice>>, said)
  BY <1>4, <1>6, JoinedHas
<1> QED
  BY <1>3, <1>5, <1>7, TextInHas

\* A turn that has ended is told by its messages.
LEMMA MessageTells ==
  ASSUME NEW lines \in Seq(Records), NEW p, NEW i \in 1..Len(lines),
         Tells(lines[i].event, p), ~Unfinished(lines)
  PROVE  p \in ToSet(TextIn(Recovered(lines))) \/ Holds(lines, Finished("failed"))
<1>1. i \in DOMAIN lines /\ lines[i].event \in Events
  <2>1. lines[i] \in Records
    OBVIOUS
  <2> QED
    BY <2>1 DEF Records
<1>2. CASE lines[i].event = Finished("failed")
  BY <1>1, <1>2 DEF Holds
<1>3. CASE lines[i].event.kind = "message" /\ Has(lines[i].event.text, p)
  <2>1. Recovered(lines) = Messages(lines)
    BY DEF Recovered
  <2>2. Messages(lines) \in Seq(Events) /\ Has(Messages(lines), lines[i].event)
    BY <1>3, MessagesHave
  <2> QED
    BY <1>1, <1>3, <2>1, <2>2, TextInHas
<1> QED
  BY <1>2, <1>3 DEF Tells

\* What a barrier covers, recovery tells, whatever is left of the lines behind it.
LEMMA PromiseTold ==
  ASSUME RecordedInv, DurableInv, NEW lines \in Remains, NEW i \in 1..promise.pieces
  PROVE  \/ journal.observed[i] \in ToSet(TextIn(Recovered(lines)))
         \/ Holds(lines, Finished("failed"))
<1>1. /\ JournalTypes /\ Written(journal, file)
      /\ OrderInv(journal) /\ PromiseInv
  BY DEF RecordedInv, PipeInv, Pipe, DurableInv
<1>2. PICK adm : adm = journal.admitted
  OBVIOUS
<1>3. PICK p : p = journal.observed[i]
  OBVIOUS
<1>4. adm \in Seq(Records) /\ Len(adm) \in Nat /\ durable \in Nat
      /\ promise.records \in Nat /\ promise.pieces \in Nat /\ Len(journal.observed) \in Nat
  BY <1>1, <1>2 DEF JournalTypes, Journals
<1>5. /\ lines \in Seq(Records) /\ Len(lines) \in Nat /\ Len(lines) <= Len(adm)
      /\ durable <= Len(lines)
      /\ \A k \in 1..Len(lines) : lines[k] = adm[k]
  <2>1. /\ lines \in Seq(Records) /\ Len(lines) \in Nat /\ Len(lines) <= Len(file)
        /\ durable <= Len(lines)
        /\ \A k \in 1..Len(lines) : lines[k] = file[k]
    BY <1>1, RemainsIs
  <2>2. Len(file) <= Len(adm) /\ \A k \in 1..Len(file) : file[k] = adm[k]
    BY <1>1, <1>2 DEF Written
  <2>3. Len(file) \in Nat
    BY <1>1 DEF JournalTypes
  <2> QED
    BY <1>4, <2>1, <2>2, <2>3
<1>6. /\ promise.records <= durable /\ promise.pieces <= Len(journal.observed)
      /\ Checked(adm, promise.records, p)
  BY <1>1, <1>2, <1>3 DEF PromiseInv
<1>7. PICK m \in 1..promise.records : adm[m].event.kind = "checkpoint" /\ Has(adm[m].event.text, p)
  BY <1>6 DEF Checked
<1>8. m \in 1..Len(lines) /\ lines[m] = adm[m]
  BY <1>4, <1>5, <1>6
<1>9. Has(Fragments(lines), p)
  BY <1>5, <1>7, <1>8, MessagesHave
<1>10. Holds(lines, Plain("started"))
  <2>1. m \in 1..Len(adm)
    BY <1>4, <1>5, <1>8
  <2>2. PICK k \in 1..(m - 1) : adm[k].event.kind = "started"
    BY <1>1, <1>2, <1>7, <2>1 DEF OrderInv
  <2>3. k \in 1..Len(lines) /\ k \in 1..Len(adm)
    BY <1>4, <1>5, <1>8
  <2>4. adm[k].event = Plain("started")
    BY <1>1, <1>2, <2>2, <2>3 DEF OrderInv
  <2>5. k \in DOMAIN lines /\ lines[k].event = Plain("started")
    BY <1>5, <2>3, <2>4
  <2> QED
    BY <2>5 DEF Holds
<1>11. CASE Unfinished(lines)
  BY <1>3, <1>5, <1>9, <1>11, PartialTells
<1>12. CASE ~Unfinished(lines)
  <2>1. Holds(lines, Finished("failed")) \/ \E e \in Ends : Holds(lines, e)
    BY <1>10, <1>12 DEF Unfinished, Ends
  <2>2. ASSUME NEW e \in Ends, Holds(lines, e)
        PROVE  \E k \in 1..Len(lines) : Tells(lines[k].event, p)
    <3>1. PICK n \in DOMAIN lines : lines[n].event = e
      BY <2>2 DEF Holds
    <3>2. n \in 1..Len(lines) /\ n \in 1..Len(adm) /\ adm[n].event \in Ends
      BY <1>4, <1>5, <2>2, <3>1
    <3>3. i \in 1..Len(journal.observed)
      BY <1>4, <1>6
    <3>4. Told(adm, n - 1, p)
      BY <1>1, <1>2, <1>3, <3>2, <3>3 DEF OrderInv
    <3>5. PICK k \in 1..(n - 1) : Tells(adm[k].event, p)
      BY <3>4 DEF Told
    <3>6. k \in 1..Len(lines) /\ lines[k] = adm[k]
      BY <1>5, <3>2
    <3> QED
      BY <3>5, <3>6
  <2> QED
    BY <1>3, <1>5, <1>12, <2>1, <2>2, MessageTells
<1> QED
  BY <1>11, <1>12

\* A barrier that has returned True, and a close without an error, have made
\* durable what was accepted and observed before (_journal.py): wherever the
\* process ends, and whichever operation on the file has failed, the next
\* session is told it.
THEOREM SyncedStaysDurable == Spec => []SyncedIsDurable
<1>1. RecordedInv /\ DurableInv => SyncedIsDurable
  <2> SUFFICES ASSUME RecordedInv, DurableInv PROVE SyncedIsDurable
    OBVIOUS
  <2>1. promise.records <= durable /\ (promise.records > 0 => named)
    BY DEF DurableInv, PromiseInv
  <2>2. ObservedIsDurable
    BY PromiseTold DEF ObservedIsDurable
  <2> QED
    BY <2>1, <2>2 DEF SyncedIsDurable
<1> QED
  BY <1>1, DurableInvariant, PTL

=============================================================================
