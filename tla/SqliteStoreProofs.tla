-------------------------- MODULE SqliteStoreProofs --------------------------
(***************************************************************************)
(* What holds of any number of tasks on one SQLite connection: the lock is *)
(* never lost, every call takes effect as a whole or not at all, and a     *)
(* session stands for what it was told, compacted or not.                  *)
(*                                                                         *)
(* The lock's part of the invariant is about _locked, _waiters and who     *)
(* waits where.  The transaction's part is about the connection's queue:   *)
(* whatever an interrupted call has left in it is followed by a rollback,  *)
(* so the statements of the next call find the sessions as committed, and  *)
(* a commit finds one call's statements and all of them.                   *)
(*                                                                         *)
(* The compaction's part, added to these, says that what it has read, has  *)
(* written and has left to write is of the history its snapshot has, that  *)
(* its writes are stored in their order, and what the account of each      *)
(* session means for its rows.                                             *)
(***************************************************************************)
EXTENDS SqliteStoreProperties, NaturalsLemmas, SequenceTheorems

-----------------------------------------------------------------------------
(* The lock.                                                               *)

Places == {"idle", "waiting", "granted", "executing", "committing", "undoing", "reading"}

Stages == {"none", "fork", "snapshot", "ask", "tokens", "clear", "write"}

TypesOK ==
  /\ pc \in [Tasks -> Places]
  /\ reply \in [Tasks -> {"none", "ok", "error"}]
  /\ cancelled \in [Tasks -> BOOLEAN]

\* A compaction waits for its summary outside of any call.
PlanAllows(t, p, place) ==
  /\ p = [stage |-> p.stage, session |-> p.session, fork |-> p.fork, list |-> p.list,
          tokens |-> p.tokens]
  /\ p.stage \in Stages
  /\ p.stage # "none" => p.session \in Bound[t]
  /\ p.stage = "ask" => place = "idle"
  /\ place = "reading" => p.stage \in {"snapshot", "tokens"}

PlanOK ==
  /\ DOMAIN plan = Tasks
  /\ \A t \in Tasks : PlanAllows(t, plan[t], pc[t])

Waiter == [task : Tasks, live : BOOLEAN]

\* Who waits is in _waiters once, and somebody owns what they wait for.
WaitersOK ==
  /\ \A t \in Tasks : pc[t] = "waiting" =>
       \E i \in 1..Len(lock.waiters) : lock.waiters[i].task = t /\ lock.waiters[i].live
  /\ \A i \in 1..Len(lock.waiters) : lock.waiters[i].live =>
       /\ pc[lock.waiters[i].task] = "waiting"
       /\ lock.held
  /\ \A i, j \in 1..Len(lock.waiters) :
       /\ lock.waiters[i].live /\ lock.waiters[j].live
       /\ lock.waiters[i].task = lock.waiters[j].task
       => i = j

LockOK ==
  /\ lock \in [held : BOOLEAN, waiters : Seq(Waiter)]
  /\ lock.held <=> Owners # {}
  /\ \A t, u \in Owners : t = u
  /\ WaitersOK

-----------------------------------------------------------------------------
(* The queue.                                                              *)

JobSet == [task : Tasks, do : {"statement", "commit", "rollback", "history", "tokens"},
           call : Nat, step : Nat, live : BOOLEAN]

Changes(job) == job.do \in {"statement", "commit"}
Writes(job) == job.do \in {"statement", "commit", "rollback"}

NoWrites(js) == \A i \in 1..Len(js) : ~Writes(js[i])

\* No job of the queue before place i writes.
FirstWrite(js, i) == \A k \in 1..(i - 1) : ~Writes(js[k])

\* What follows a change that was posted is the rollback of it; a call goes on
\* to its next statement and its commit when nothing is in the queue.
QueueOK(js) ==
  /\ js \in Seq(JobSet)
  /\ \A i, j \in 1..Len(js) : i < j /\ Changes(js[i]) /\ Writes(js[j]) =>
       \E k \in (i + 1)..j : js[k].do = "rollback"
  /\ \A j \in 1..Len(js) :
       js[j].do = "commit" \/ (js[j].do = "statement" /\ js[j].step > 1) => FirstWrite(js, j)
  /\ \A i \in 1..Len(js) : Changes(js[i]) /\ ~js[i].live =>
       \E k \in (i + 1)..Len(js) : js[k].do = "rollback"
  /\ \A i, j \in 1..Len(js) : Changes(js[i]) /\ Changes(js[j]) /\ js[i].call = js[j].call
       => i = j
  /\ \A i, j \in 1..Len(js) : js[i].live /\ js[j].live /\ js[i].task = js[j].task => i = j

\* A live job is the one its task waits for.
LiveOK ==
  \A i \in 1..Len(jobs) : jobs[i].live =>
    LET t == jobs[i].task
    IN /\ reply[t] = "none"
       /\ jobs[i].do = "statement" => pc[t] = "executing" /\ jobs[i].call = mine[t]
                                      /\ jobs[i].step = at[t]
       /\ jobs[i].do = "commit" => pc[t] = "committing" /\ jobs[i].call = mine[t]
       /\ jobs[i].do = "rollback" => pc[t] = "undoing"
       /\ jobs[i].do \in {"history", "tokens"} => pc[t] = "reading"

\* What a task waits for is in the queue, behind everything else that writes.
WaitsFor(t, do) ==
  \E i \in 1..Len(jobs) :
    /\ jobs[i].task = t /\ jobs[i].live /\ jobs[i].do = do
    /\ \A k \in (i + 1)..Len(jobs) : ~Writes(jobs[k])

TransactionOf(p) ==
  CASE p = "executing" -> "statement" [] p = "committing" -> "commit" [] OTHER -> "rollback"

-----------------------------------------------------------------------------
(* The calls.                                                              *)

Used == UNION {Bound[t] : t \in Tasks}

IsCall(c) ==
  /\ c = [op |-> c.op, session |-> c.session, to |-> c.to, messages |-> c.messages,
          tokens |-> c.tokens, by |-> c.by, rest |-> c.rest]
  /\ c.op \in {"append", "clear", "fork", "set", "add"}
  /\ c.session \in Used
  /\ c.to \in Sessions
  /\ c.op = "fork" => c.to \notin Used
  /\ c.messages \in Seq(ToSet(c.messages))

CallsOK ==
  /\ called \in Seq(ToSet(called))
  /\ \A n \in 1..Len(called) : IsCall(called[n])
  /\ \A m, n \in 1..Len(called) :
       called[m].op = "fork" /\ called[n].op = "fork" /\ called[m].to = called[n].to => m = n
  /\ story \in Seq(1..Len(called))
  /\ failed \subseteq 1..Len(called)
  /\ failed \cap ToSet(story) = {}
  /\ returned \subseteq ToSet(story)

\* The calls that may yet take effect are different ones, have not taken
\* effect, and have not failed.
Open == {t \in Tasks : \/ pc[t] \in {"waiting", "granted", "executing"}
                       \/ pc[t] = "committing" /\ reply[t] # "ok"}

OpenOK ==
  /\ mine \in [Tasks -> Nat] /\ at \in [Tasks -> Nat]
  /\ \A t \in Open : /\ mine[t] \in 1..Len(called)
                     /\ mine[t] \notin ToSet(story)
                     /\ mine[t] \notin failed
                     /\ at[t] \in 1..StatementsOf(called[mine[t]])
  /\ \A t \in Tasks : pc[t] \in {"waiting", "granted"} =>
       /\ at[t] = 1
       /\ \A i \in 1..Len(jobs) : Changes(jobs[i]) => jobs[i].call # mine[t]
  /\ \A t, u \in Open : mine[t] = mine[u] => t = u
  /\ \A i \in 1..Len(jobs) : Changes(jobs[i]) =>
       /\ jobs[i].call \in 1..Len(called)
       /\ jobs[i].call \notin ToSet(story)
       /\ jobs[i].call \notin failed
       /\ jobs[i].do = "statement" => jobs[i].step \in 1..StatementsOf(called[jobs[i].call])

WaitOK ==
  \A t \in Tasks :
    /\ pc[t] \in {"idle", "waiting", "granted"} => reply[t] = "none"
    /\ pc[t] \in {"executing", "committing", "undoing"} =>
         IF reply[t] = "none" THEN WaitsFor(t, TransactionOf(pc[t])) ELSE NoWrites(jobs)

-----------------------------------------------------------------------------
(* The sessions.                                                           *)

\* The sessions after the first k statements of call c.
Progress(c, k, s) ==
  IF k = 0 THEN s
  ELSE IF k = 1 THEN AfterStatement(c, 1, s)
  ELSE AfterStatement(c, 2, AfterStatement(c, 1, s))

Clean == inside = <<>> /\ working = store

Begun(n, k) ==
  /\ inside = IF k = 0 THEN <<>> ELSE <<n>>
  /\ working = Progress(called[n], k, store)

SessionsOK ==
  /\ DOMAIN store = Sessions
  /\ \A s \in Sessions : IsSession(store[s])
  /\ \A s \in Sessions \ Used :
       \/ store[s].messages = <<>>
       \/ \E n \in ToSet(story) : called[n].op = "fork" /\ called[n].to = s

\* What each job, and each task, finds.
FoundOK ==
  /\ \A i \in 1..Len(jobs) : FirstWrite(jobs, i) =>
       /\ jobs[i].do = "statement" => Begun(jobs[i].call, jobs[i].step - 1)
       /\ jobs[i].do = "commit" =>
            Begun(jobs[i].call, StatementsOf(called[jobs[i].call]))
  /\ NoWrites(jobs) /\ (\A t \in Tasks : pc[t] \notin {"executing", "committing"}) => Clean
  /\ \A t \in Tasks : reply[t] = "ok" =>
       /\ pc[t] = "executing" => Begun(mine[t], at[t])
       /\ pc[t] = "committing" => Clean /\ mine[t] \in ToSet(story)

\* All of it but what concerns the compactions' plans.
CoreInv ==
  /\ TypesOK /\ LockOK
  /\ QueueOK(jobs) /\ LiveOK /\ WaitOK
  /\ CallsOK /\ OpenOK /\ SessionsOK /\ FoundOK

StoreInv == CoreInv /\ PlanOK

-----------------------------------------------------------------------------
(* The queue's operations keep its shape.                                  *)

\* What a queue is after one more job.
LEMMA Appended ==
  ASSUME NEW js \in Seq(JobSet), NEW job \in JobSet
  PROVE  /\ Append(js, job) \in Seq(JobSet)
         /\ Len(Append(js, job)) = Len(js) + 1
         /\ \A i \in 1..Len(js) : Append(js, job)[i] = js[i]
         /\ Append(js, job)[Len(js) + 1] = job
         /\ Len(js) \in Nat
  OBVIOUS

\* A task posts the job it is going to wait for: a change finds only changes
\* that nobody waits for any more, which are rolled back before it.
LEMMA QueueAppends ==
  ASSUME NEW js, QueueOK(js), NEW job \in JobSet, job.live,
         Changes(job) => \A i \in 1..Len(js) : Changes(js[i]) =>
                           ~js[i].live /\ js[i].call # job.call,
         job.do = "commit" \/ (job.do = "statement" /\ job.step > 1) => NoWrites(js),
         \A i \in 1..Len(js) : js[i].live => js[i].task # job.task
  PROVE  QueueOK(Append(js, job))
<1> DEFINE new == Append(js, job)
<1>0. js \in Seq(JobSet)
  BY DEF QueueOK
<1>1. /\ new \in Seq(JobSet)
      /\ Len(new) = Len(js) + 1
      /\ \A i \in 1..Len(js) : new[i] = js[i]
      /\ new[Len(js) + 1] = job
      /\ Len(js) \in Nat
  BY <1>0, Appended
<1>2. \A i \in 1..Len(new) : i \in 1..Len(js) \/ i = Len(js) + 1
  BY <1>1
<1>3. ASSUME NEW i \in 1..Len(new), NEW j \in 1..Len(new),
             i < j, Changes(new[i]), Writes(new[j])
      PROVE  \E k \in (i + 1)..j : new[k].do = "rollback"
  <2>1. i \in 1..Len(js) /\ new[i] = js[i]
    BY <1>1, <1>2, <1>3
  <2>2. CASE j \in 1..Len(js)
    <3>1. PICK k \in (i + 1)..j : js[k].do = "rollback"
      BY <1>1, <1>3, <2>1, <2>2 DEF QueueOK
    <3>2. new[k] = js[k]
      BY <1>1, <2>1, <2>2
    <3> QED
      BY <3>1, <3>2
  <2>3. CASE j = Len(js) + 1 /\ job.do = "rollback"
    BY <1>1, <1>3, <2>3
  <2>4. CASE j = Len(js) + 1 /\ job.do # "rollback"
    <3>1. Changes(job)
      BY <1>1, <1>3, <2>4 DEF Changes, Writes
    <3>2. PICK k \in (i + 1)..Len(js) : js[k].do = "rollback"
      BY <1>3, <2>1, <3>1 DEF QueueOK
    <3>3. k \in (i + 1)..j /\ new[k] = js[k]
      BY <1>1, <2>1, <2>4
    <3> QED
      BY <3>2, <3>3
  <2> QED
    BY <1>2, <2>2, <2>3, <2>4
<1>4. ASSUME NEW j \in 1..Len(new),
             new[j].do = "commit" \/ (new[j].do = "statement" /\ new[j].step > 1)
      PROVE  FirstWrite(new, j)
  BY <1>1, <1>2, <1>4 DEF QueueOK, FirstWrite, NoWrites
<1>5. ASSUME NEW i \in 1..Len(new), Changes(new[i]), ~new[i].live
      PROVE  \E k \in (i + 1)..Len(new) : new[k].do = "rollback"
  <2>1. i \in 1..Len(js) /\ new[i] = js[i]
    BY <1>1, <1>2, <1>5
  <2>2. PICK k \in (i + 1)..Len(js) : js[k].do = "rollback"
    BY <1>5, <2>1 DEF QueueOK
  <2>3. k \in (i + 1)..Len(new) /\ new[k] = js[k]
    BY <1>1, <2>1
  <2> QED
    BY <2>2, <2>3
<1>6. ASSUME NEW i \in 1..Len(new), NEW j \in 1..Len(new),
             Changes(new[i]), Changes(new[j]), new[i].call = new[j].call
      PROVE  i = j
  BY <1>1, <1>2, <1>6 DEF QueueOK
<1>7. ASSUME NEW i \in 1..Len(new), NEW j \in 1..Len(new),
             new[i].live, new[j].live, new[i].task = new[j].task
      PROVE  i = j
  BY <1>1, <1>2, <1>7 DEF QueueOK
<1> HIDE DEF new
<1>8. QueueOK(new)
  BY <1>1, <1>3, <1>4, <1>5, <1>6, <1>7 DEF QueueOK
<1> QED
  BY <1>8 DEF new

\* What a queue is without its first job.
LEMMA Shifted ==
  ASSUME NEW js \in Seq(JobSet), js # <<>>
  PROVE  /\ Tail(js) \in Seq(JobSet)
         /\ Len(js) \in Nat \ {0}
         /\ Len(Tail(js)) = Len(js) - 1
         /\ \A i \in 1..Len(Tail(js)) : Tail(js)[i] = js[i + 1] /\ i + 1 \in 1..Len(js)
         /\ Head(js) = js[1]
         /\ Head(js) \in JobSet
  OBVIOUS

\* The thread takes a job.
LEMMA QueueShifts ==
  ASSUME NEW js, QueueOK(js), js # <<>>
  PROVE  QueueOK(Tail(js))
<1> DEFINE new == Tail(js)
<1>0. js \in Seq(JobSet)
  BY DEF QueueOK
<1>1. /\ new \in Seq(JobSet)
      /\ Len(js) \in Nat \ {0}
      /\ Len(new) = Len(js) - 1
      /\ \A i \in 1..Len(new) : new[i] = js[i + 1] /\ i + 1 \in 1..Len(js)
  BY <1>0, Shifted
<1> HIDE DEF new
<1>3. ASSUME NEW i \in 1..Len(new), NEW j \in 1..Len(new),
             i < j, Changes(new[i]), Writes(new[j])
      PROVE  \E k \in (i + 1)..j : new[k].do = "rollback"
  <2>1. PICK k \in (i + 2)..(j + 1) : js[k].do = "rollback"
    <3>1. i + 1 < j + 1 /\ Changes(js[i + 1]) /\ Writes(js[j + 1])
      BY <1>1, <1>3
    <3>2. (i + 1) + 1 = i + 2
      BY <1>1
    <3> QED
      BY <1>1, <3>1, <3>2, SMTT(30) DEF QueueOK
  <2>2. k - 1 \in (i + 1)..j /\ new[k - 1] = js[k]
    BY <1>1, <2>1
  <2> QED
    BY <2>1, <2>2
<1>4. ASSUME NEW j \in 1..Len(new),
             new[j].do = "commit" \/ (new[j].do = "statement" /\ new[j].step > 1)
      PROVE  FirstWrite(new, j)
  <2>1. FirstWrite(js, j + 1)
    BY <1>1, <1>4 DEF QueueOK
  <2>2. ASSUME NEW k \in 1..(j - 1)
        PROVE  ~Writes(new[k])
    <3>1. k + 1 \in 1..((j + 1) - 1) /\ new[k] = js[k + 1]
      BY <1>1
    <3> QED
      BY <2>1, <3>1 DEF FirstWrite
  <2> QED
    BY <2>2 DEF FirstWrite
<1>5. ASSUME NEW i \in 1..Len(new), Changes(new[i]), ~new[i].live
      PROVE  \E k \in (i + 1)..Len(new) : new[k].do = "rollback"
  <2>1. PICK k \in ((i + 1) + 1)..Len(js) : js[k].do = "rollback"
    BY <1>1, <1>5 DEF QueueOK
  <2>2. k - 1 \in (i + 1)..Len(new) /\ new[k - 1] = js[k]
    BY <1>1, <2>1
  <2> QED
    BY <2>1, <2>2
<1>6. ASSUME NEW i \in 1..Len(new), NEW j \in 1..Len(new),
             Changes(new[i]), Changes(new[j]), new[i].call = new[j].call
      PROVE  i = j
  <2>1. i + 1 = j + 1
    BY <1>1, <1>6 DEF QueueOK
  <2> QED
    BY <2>1, <1>1
<1>7. ASSUME NEW i \in 1..Len(new), NEW j \in 1..Len(new),
             new[i].live, new[j].live, new[i].task = new[j].task
      PROVE  i = j
  <2>1. i + 1 = j + 1
    BY <1>1, <1>7, SMTT(30) DEF QueueOK
  <2> QED
    BY <2>1, <1>1
<1>8. QueueOK(new)
  BY <1>1, <1>3, <1>4, <1>5, <1>6, <1>7 DEF QueueOK
<1> QED
  BY <1>8 DEF new

\* What is left of a queue when nobody waits for the jobs of task t.
Forsakes(new, js, t) ==
  /\ new \in Seq(JobSet) /\ Len(new) = Len(js)
  /\ \A i \in 1..Len(js) :
       /\ new[i].task = js[i].task /\ new[i].do = js[i].do
       /\ new[i].call = js[i].call /\ new[i].step = js[i].step
       /\ new[i].live <=> js[i].live /\ js[i].task # t

\* Abandoning the jobs of a task leaves every other job as it was, and its own dead.
LEMMA AbandonedForsakes ==
  ASSUME jobs \in Seq(JobSet), NEW t
  PROVE  Forsakes(Abandoned(t), jobs, t)
<1> DEFINE Gone(job) == [job EXCEPT !.live = @ /\ job.task # t]
<1>1. \A job \in JobSet :
        /\ Gone(job) \in JobSet
        /\ Gone(job).task = job.task /\ Gone(job).do = job.do
        /\ Gone(job).call = job.call /\ Gone(job).step = job.step
        /\ Gone(job).live <=> job.live /\ job.task # t
  BY DEF JobSet
<1>2. /\ DOMAIN jobs = 1..Len(jobs) /\ Len(jobs) \in Nat
      /\ \A i \in 1..Len(jobs) : jobs[i] \in JobSet
  OBVIOUS
<1>3. /\ DOMAIN Abandoned(t) = 1..Len(jobs)
      /\ \A i \in 1..Len(jobs) :
           Abandoned(t)[i] = Gone(jobs[i])
  BY <1>2 DEF Abandoned
<1> HIDE DEF Gone
<1>4. \A i \in 1..Len(jobs) :
        /\ Abandoned(t)[i] \in JobSet
        /\ Abandoned(t)[i].task = jobs[i].task /\ Abandoned(t)[i].do = jobs[i].do
        /\ Abandoned(t)[i].call = jobs[i].call /\ Abandoned(t)[i].step = jobs[i].step
        /\ Abandoned(t)[i].live <=> jobs[i].live /\ jobs[i].task # t
  BY <1>1, <1>2, <1>3
<1>5. Abandoned(t) \in [1..Len(jobs) -> JobSet]
  BY <1>2, <1>4 DEF Abandoned
<1>6. Abandoned(t) \in Seq(JobSet) /\ Len(Abandoned(t)) = Len(jobs)
  BY <1>2, <1>5, SeqDef
<1> QED
  BY <1>4, <1>6, Zenon DEF Forsakes

\* What a job does is not changed when its task leaves it.
LEMMA ForsakenWrites ==
  ASSUME NEW js, NEW new, NEW t, Forsakes(new, js, t), js \in Seq(JobSet)
  PROVE  /\ NoWrites(new) <=> NoWrites(js)
         /\ \A i \in 1..Len(js) : /\ Changes(new[i]) <=> Changes(js[i])
                                  /\ Writes(new[i]) <=> Writes(js[i])
                                  /\ FirstWrite(new, i) <=> FirstWrite(js, i)
<1>1. \A i \in 1..Len(js) : /\ Changes(new[i]) <=> Changes(js[i])
                            /\ Writes(new[i]) <=> Writes(js[i])
  BY DEF Forsakes, Changes, Writes
<1>2. NoWrites(new) <=> NoWrites(js)
  BY <1>1 DEF NoWrites, Forsakes
<1>3. \A i \in 1..Len(js) : \A k \in 1..(i - 1) : k \in 1..Len(js)
  OBVIOUS
<1>4. \A i \in 1..Len(js) : FirstWrite(new, i) <=> FirstWrite(js, i)
  BY <1>1, <1>3 DEF FirstWrite
<1> QED
  BY <1>1, <1>2, <1>4

\* A task that has no change in the queue leaves what it waits for.
LEMMA QueueForsaken ==
  ASSUME NEW js, NEW new, NEW t, QueueOK(js), Forsakes(new, js, t),
         \A i \in 1..Len(js) : Changes(js[i]) /\ js[i].live => js[i].task # t
  PROVE  QueueOK(new)
<1>0. js \in Seq(JobSet) /\ Len(js) \in Nat /\ Len(new) = Len(js)
  BY DEF QueueOK, Forsakes
<1>1. \A i \in 1..Len(js) : /\ Changes(new[i]) <=> Changes(js[i])
                            /\ Writes(new[i]) <=> Writes(js[i])
                            /\ FirstWrite(new, i) <=> FirstWrite(js, i)
  BY <1>0, ForsakenWrites
<1>2. \A i \in 1..Len(js) :
        /\ new[i].task = js[i].task /\ new[i].do = js[i].do
        /\ new[i].call = js[i].call /\ new[i].step = js[i].step
        /\ new[i].live <=> js[i].live /\ js[i].task # t
  BY DEF Forsakes
<1>3. new \in Seq(JobSet)
  BY DEF Forsakes
<1>4. ASSUME NEW i \in 1..Len(new), NEW j \in 1..Len(new),
             i < j, Changes(new[i]), Writes(new[j])
      PROVE  \E k \in (i + 1)..j : new[k].do = "rollback"
  <2>1. PICK k \in (i + 1)..j : js[k].do = "rollback"
    BY <1>0, <1>1, <1>4 DEF QueueOK
  <2> QED
    BY <1>0, <1>2, <2>1
<1>5. \A j \in 1..Len(new) :
        new[j].do = "commit" \/ (new[j].do = "statement" /\ new[j].step > 1) => FirstWrite(new, j)
  BY <1>0, <1>1, <1>2 DEF QueueOK
<1>6. ASSUME NEW i \in 1..Len(new), Changes(new[i]), ~new[i].live
      PROVE  \E k \in (i + 1)..Len(new) : new[k].do = "rollback"
  <2>1. Changes(js[i]) /\ ~js[i].live
    BY <1>0, <1>1, <1>2, <1>6
  <2>2. PICK k \in (i + 1)..Len(js) : js[k].do = "rollback"
    BY <1>0, <2>1 DEF QueueOK
  <2> QED
    BY <1>0, <1>2, <2>2
<1>7. \A i, j \in 1..Len(new) :
        Changes(new[i]) /\ Changes(new[j]) /\ new[i].call = new[j].call => i = j
  BY <1>0, <1>1, <1>2 DEF QueueOK
<1>8. \A i, j \in 1..Len(new) : new[i].live /\ new[j].live /\ new[i].task = new[j].task => i = j
  BY <1>0, <1>2 DEF QueueOK
<1> QED
  BY <1>3, <1>4, <1>5, <1>6, <1>7, <1>8 DEF QueueOK

\* A task leaves what it waits for and posts a rollback instead.
LEMMA QueueUndone ==
  ASSUME NEW js, NEW left1, NEW t, QueueOK(js), Forsakes(left1, js, t),
         NEW job \in JobSet, job.do = "rollback", job.live, job.task = t
  PROVE  QueueOK(Append(left1, job))
<1> DEFINE new == Append(left1, job)
<1>0. js \in Seq(JobSet) /\ Len(js) \in Nat /\ Len(left1) = Len(js) /\ left1 \in Seq(JobSet)
  BY DEF QueueOK, Forsakes
<1>a. /\ new \in Seq(JobSet)
      /\ Len(new) = Len(js) + 1
      /\ \A i \in 1..Len(js) : new[i] = left1[i]
      /\ new[Len(js) + 1] = job
  BY <1>0, Appended
<1> HIDE DEF new
<1>b. \A i \in 1..Len(new) : i \in 1..Len(js) \/ i = Len(js) + 1
  BY <1>0, <1>a
<1>1. \A i \in 1..Len(js) : /\ Changes(new[i]) <=> Changes(js[i])
                            /\ Writes(new[i]) <=> Writes(js[i])
                            /\ FirstWrite(left1, i) <=> FirstWrite(js, i)
  BY <1>0, <1>a, ForsakenWrites
<1>c. \A i \in 1..Len(js) : FirstWrite(new, i) <=> FirstWrite(js, i)
  <2>1. \A i \in 1..Len(js) : \A k \in 1..(i - 1) : k \in 1..Len(js)
    BY <1>0
  <2> QED
    BY <1>1, <2>1 DEF FirstWrite
<1>2. \A i \in 1..Len(js) :
        /\ new[i].task = js[i].task /\ new[i].do = js[i].do
        /\ new[i].call = js[i].call /\ new[i].step = js[i].step
        /\ new[i].live <=> js[i].live /\ js[i].task # t
  BY <1>a DEF Forsakes
<1>3. ~Changes(job)
  BY DEF Changes
<1>4. ASSUME NEW i \in 1..Len(new), NEW j \in 1..Len(new),
             i < j, Changes(new[i]), Writes(new[j])
      PROVE  \E k \in (i + 1)..j : new[k].do = "rollback"
  <2>1. i \in 1..Len(js) /\ Changes(js[i])
    BY <1>0, <1>a, <1>b, <1>1, <1>4
  <2>2. CASE j \in 1..Len(js)
    <3>1. PICK k \in (i + 1)..j : js[k].do = "rollback"
      BY <1>0, <1>1, <1>4, <2>1, <2>2 DEF QueueOK
    <3> QED
      BY <1>0, <1>2, <2>1, <2>2, <3>1
  <2>3. CASE j = Len(js) + 1
    <3>1. new[j].do = "rollback" /\ j \in (i + 1)..j
      BY <1>0, <1>a, <1>4, <2>3
    <3> QED
      BY <3>1
  <2> QED
    BY <1>b, <2>2, <2>3
<1>5. \A j \in 1..Len(new) :
        new[j].do = "commit" \/ (new[j].do = "statement" /\ new[j].step > 1) => FirstWrite(new, j)
  BY <1>a, <1>b, <1>c, <1>2 DEF QueueOK
<1>6. ASSUME NEW i \in 1..Len(new), Changes(new[i]), ~new[i].live
      PROVE  \E k \in (i + 1)..Len(new) : new[k].do = "rollback"
  <2>1. i \in 1..Len(js)
    BY <1>a, <1>b, <1>3, <1>6
  <2>2. Len(js) + 1 \in (i + 1)..Len(new)
    BY <1>0, <1>a, <2>1
  <2> QED
    BY <1>a, <2>2
<1>7. ASSUME NEW i \in 1..Len(new), NEW j \in 1..Len(new),
             Changes(new[i]), Changes(new[j]), new[i].call = new[j].call
      PROVE  i = j
  <2>1. i \in 1..Len(js) /\ j \in 1..Len(js)
    BY <1>a, <1>b, <1>3, <1>7
  <2> QED
    BY <1>1, <1>2, <1>7, <2>1 DEF QueueOK
<1>8. \A i, j \in 1..Len(new) : new[i].live /\ new[j].live /\ new[i].task = new[j].task => i = j
  BY <1>a, <1>b, <1>2 DEF QueueOK
<1>9. QueueOK(new)
  BY <1>a, <1>4, <1>5, <1>6, <1>7, <1>8 DEF QueueOK
<1> QED
  BY <1>9 DEF new

-----------------------------------------------------------------------------
(* The lock's operations.                                                  *)

\* release passes the lock to the first waiter that is not cancelled, and drops
\* those before it, and it frees the lock when there is none.
LEMMA ReleasedIs ==
  ASSUME NEW l \in [held : BOOLEAN, waiters : Seq(Waiter)]
  PROVE  \/ /\ \A i \in 1..Len(l.waiters) : ~l.waiters[i].live
            /\ Released(l) = [held |-> FALSE, waiters |-> <<>>, next |-> {}]
         \/ \E n \in 1..Len(l.waiters) :
              /\ l.waiters[n].live
              /\ \A i \in 1..(n - 1) : ~l.waiters[i].live
              /\ Released(l) = [held |-> TRUE,
                                waiters |-> SubSeq(l.waiters, n + 1, Len(l.waiters)),
                                next |-> {l.waiters[n].task}]
<1> DEFINE Living == {i \in 1..Len(l.waiters) : l.waiters[i].live}
           n == SelectInSeq(l.waiters, LAMBDA w : w.live)
<1>0. l.waiters \in Seq(Waiter) /\ Len(l.waiters) \in Nat
  OBVIOUS
<1>1. n = IF Living # {} THEN Min(Living) ELSE 0
  BY DEF SelectInSeq
<1>2. CASE Living = {}
  <2>1. n = 0
    BY <1>1, <1>2
  <2> QED
    BY <1>2, <2>1 DEF Released
<1>3. CASE Living # {}
  <2>1. \E m \in Living : \A i \in Living : m <= i
    <3>1. Living \subseteq Nat
      BY <1>0
    <3> HIDE DEF Living
    <3> QED
      BY <3>1, <1>3, LeastElement
  <2>2. n \in Living /\ \A i \in Living : n <= i
    BY <1>1, <1>3, <2>1 DEF Min
  <2>3. n # 0 /\ n \in 1..Len(l.waiters)
    BY <2>2, <1>0
  <2>4. \A i \in 1..(n - 1) : ~l.waiters[i].live
    BY <2>2, <2>3, <1>0
  <2>5. Released(l) = [held |-> TRUE,
                       waiters |-> SubSeq(l.waiters, n + 1, Len(l.waiters)),
                       next |-> {l.waiters[n].task}]
    BY <2>3 DEF Released
  <2> HIDE DEF n
  <2> QED
    BY <2>2, <2>3, <2>4, <2>5
<1> QED
  BY <1>2, <1>3

\* What _waiters is.
LEMMA LockTyped ==
  ASSUME LockOK
  PROVE  /\ lock \in [held : BOOLEAN, waiters : Seq(Waiter)]
         /\ lock.held \in BOOLEAN
         /\ lock.waiters \in Seq(Waiter)
         /\ Len(lock.waiters) \in Nat /\ DOMAIN lock.waiters = 1..Len(lock.waiters)
         /\ \A i \in 1..Len(lock.waiters) :
              lock.waiters[i] \in Waiter /\ lock.waiters[i].task \in Tasks
<1>1. lock \in [held : BOOLEAN, waiters : Seq(Waiter)]
  BY DEF LockOK
<1>2. lock.waiters \in Seq(Waiter) /\ lock.held \in BOOLEAN
  BY <1>1
<1>3. /\ Len(lock.waiters) \in Nat /\ DOMAIN lock.waiters = 1..Len(lock.waiters)
      /\ \A i \in 1..Len(lock.waiters) : lock.waiters[i] \in Waiter
  BY <1>2
<1>4. \A w \in Waiter : w.task \in Tasks
  BY DEF Waiter
<1> QED
  BY <1>1, <1>2, <1>3, <1>4

\* The lock does not notice what its owner does.
LEMMA StillLocked ==
  ASSUME TypesOK, LockOK, UNCHANGED lock, pc' \in [Tasks -> Places],
         \A u \in Tasks : /\ pc'[u] = "waiting" <=> pc[u] = "waiting"
                          /\ u \in Owners' <=> u \in Owners
  PROVE  LockOK'
<1>1. Owners' = Owners
  BY DEF Owners
<1>2. WaitersOK'
  <2>1. \A i \in 1..Len(lock.waiters) : lock.waiters[i].task \in Tasks
    BY LockTyped
  <2> QED
    BY <2>1 DEF LockOK, WaitersOK
<1> QED
  BY <1>1, <1>2 DEF LockOK

\* The lock is passed on, or it is free.
LEMMA Releases ==
  ASSUME TypesOK, LockOK, NEW t \in Owners, ReleaseAnd(t, "idle")
  PROVE  /\ LockOK'
         /\ pc' \in [Tasks -> Places]
         /\ pc'[t] = "idle"
         /\ \A u \in Tasks \ {t} :
              pc'[u] = pc[u] \/ (pc[u] = "waiting" /\ pc'[u] = "granted")
<1> DEFINE ws == lock.waiters
<1>0. /\ lock \in [held : BOOLEAN, waiters : Seq(Waiter)]
      /\ ws \in Seq(Waiter) /\ Len(ws) \in Nat
      /\ \A i \in 1..Len(ws) : ws[i] \in Waiter /\ ws[i].task \in Tasks
      /\ t \in Tasks /\ pc[t] # "waiting"
      /\ \A u \in Tasks : u \in Owners => u = t
  <2>1. t \in Tasks /\ pc[t] # "waiting"
    BY DEF Owners
  <2>2. \A u \in Tasks : u \in Owners => u = t
    BY DEF LockOK
  <2> QED
    BY <2>1, <2>2, LockTyped
<1>1. CASE /\ \A i \in 1..Len(ws) : ~ws[i].live
           /\ Released(lock) = [held |-> FALSE, waiters |-> <<>>, next |-> {}]
  <2>1. /\ lock' = [held |-> FALSE, waiters |-> <<>>]
        /\ pc' = [u \in Tasks |-> IF u = t THEN "idle" ELSE pc[u]]
    BY <1>1 DEF ReleaseAnd
  <2>2. pc' \in [Tasks -> Places] /\ pc'[t] = "idle" /\ \A u \in Tasks \ {t} : pc'[u] = pc[u]
    BY <1>0, <2>1 DEF TypesOK, Places
  <2>3. \A u \in Tasks : pc[u] # "waiting"
    BY <1>1, <1>0 DEF LockOK, WaitersOK
  <2>4. Owners' = {}
    BY <1>0, <2>2 DEF Owners
  <2>5. LockOK'
    <3>1. lock' \in [held : BOOLEAN, waiters : Seq(Waiter)] /\ lock'.held = FALSE
      BY <2>1
    <3>2. WaitersOK'
      BY <2>1, <2>2, <2>3 DEF WaitersOK
    <3> QED
      BY <3>1, <3>2, <2>4 DEF LockOK
  <2> QED
    BY <2>2, <2>5
<1>2. ASSUME NEW n \in 1..Len(ws), ws[n].live, \A i \in 1..(n - 1) : ~ws[i].live,
             Released(lock) = [held |-> TRUE, waiters |-> SubSeq(ws, n + 1, Len(ws)),
                               next |-> {ws[n].task}]
      PROVE  /\ LockOK'
             /\ pc' \in [Tasks -> Places]
             /\ pc'[t] = "idle"
             /\ \A u \in Tasks \ {t} :
                  pc'[u] = pc[u] \/ (pc[u] = "waiting" /\ pc'[u] = "granted")
  <2> DEFINE heir == ws[n].task
             rest == SubSeq(ws, n + 1, Len(ws))
  <2>1. /\ lock' = [held |-> TRUE, waiters |-> rest]
        /\ pc' = [u \in Tasks |-> IF u \in {heir} THEN "granted"
                                  ELSE IF u = t THEN "idle" ELSE pc[u]]
    BY <1>2 DEF ReleaseAnd
  <2>2. heir \in Tasks /\ pc[heir] = "waiting" /\ heir # t
    BY <1>0, <1>2 DEF LockOK, WaitersOK
  <2>3. /\ pc' \in [Tasks -> Places] /\ pc'[t] = "idle" /\ pc'[heir] = "granted"
        /\ \A u \in Tasks \ {t, heir} : pc'[u] = pc[u]
    BY <1>0, <2>1, <2>2 DEF TypesOK, Places
  <2>4. Owners' = {heir}
    BY <1>0, <2>2, <2>3 DEF Owners
  <2>5. /\ rest \in Seq(Waiter) /\ Len(rest) = Len(ws) - n
        /\ \A i \in 1..Len(rest) : rest[i] = ws[n + i] /\ n + i \in 1..Len(ws)
    <3>1. \A i \in (n + 1)..Len(ws) : ws[i] \in Waiter
      BY <1>0
    <3>2. /\ rest \in Seq(Waiter)
          /\ Len(rest) = IF n + 1 <= Len(ws) THEN Len(ws) - (n + 1) + 1 ELSE 0
          /\ \A i \in 1..(Len(ws) - (n + 1) + 1) : rest[i] = ws[(n + 1) + i - 1]
      BY <1>0, <3>1, SubSeqProperties
    <3>3. Len(rest) = Len(ws) - n
      BY <1>0, <3>2
    <3>4. ASSUME NEW i \in 1..Len(rest)
          PROVE  rest[i] = ws[n + i] /\ n + i \in 1..Len(ws)
      <4>1. (n + 1) + i - 1 = n + i /\ i \in 1..(Len(ws) - (n + 1) + 1) /\ n + i \in 1..Len(ws)
        BY <1>0, <3>3
      <4> QED
        BY <3>2, <4>1
    <3> QED
      BY <3>2, <3>3, <3>4
  <2> HIDE DEF rest
  <2>6. WaitersOK'
    <3>1. ASSUME NEW u \in Tasks, pc'[u] = "waiting"
          PROVE  \E i \in 1..Len(rest) : rest[i].task = u /\ rest[i].live
      <4>1. u # t /\ u # heir /\ pc[u] = "waiting"
        BY <2>3, <3>1
      <4>2. PICK i \in 1..Len(ws) : ws[i].task = u /\ ws[i].live
        BY <4>1 DEF LockOK, WaitersOK
      <4>3. i > n
        BY <1>0, <1>2, <4>1, <4>2
      <4>4. i - n \in 1..Len(rest) /\ n + (i - n) = i
        BY <1>0, <2>5, <4>3
      <4> QED
        BY <2>5, <4>2, <4>4
    <3>2. ASSUME NEW i \in 1..Len(rest), rest[i].live
          PROVE  pc'[rest[i].task] = "waiting"
      <4>1. ws[n + i].live /\ n + i \in 1..Len(ws) /\ rest[i] = ws[n + i] /\ n + i # n
        BY <1>0, <2>5, <3>2
      <4>2. ws[n + i].task # heir /\ pc[ws[n + i].task] = "waiting"
        BY <1>2, <4>1 DEF LockOK, WaitersOK
      <4>3. ws[n + i].task # t
        BY <1>0, <4>2
      <4> QED
        BY <1>0, <2>3, <4>1, <4>2, <4>3
    <3>3. ASSUME NEW i \in 1..Len(rest), NEW j \in 1..Len(rest),
                 rest[i].live, rest[j].live, rest[i].task = rest[j].task
          PROVE  i = j
      <4>1. n + i = n + j
        BY <2>5, <3>3 DEF LockOK, WaitersOK
      <4> QED
        BY <1>0, <2>5, <4>1
    <3>4. lock'.waiters = rest /\ lock'.held = TRUE
      BY <2>1
    <3> QED
      BY <3>1, <3>2, <3>3, <3>4 DEF WaitersOK
  <2>7. LockOK'
    <3>1. lock' \in [held : BOOLEAN, waiters : Seq(Waiter)] /\ lock'.held = TRUE
      BY <2>1, <2>5
    <3> QED
      BY <3>1, <2>4, <2>6 DEF LockOK
  <2> QED
    BY <2>2, <2>3, <2>7
<1> QED
  BY <1>0, <1>1, <1>2, ReleasedIs

\* A waiter gives up.
LEMMA GivesUp ==
  ASSUME TypesOK, LockOK, NEW t \in Tasks, CancelledWaiting(t)
  PROVE  LockOK'
<1> DEFINE ws == lock.waiters
<1>0. /\ lock \in [held : BOOLEAN, waiters : Seq(Waiter)]
      /\ ws \in Seq(Waiter) /\ Len(ws) \in Nat /\ DOMAIN ws = 1..Len(ws)
      /\ \A i \in 1..Len(ws) : ws[i] \in Waiter /\ ws[i].task \in Tasks
  BY LockTyped
<1>1. /\ pc' = [pc EXCEPT ![t] = "idle"] /\ pc[t] = "waiting"
      /\ lock'.held = lock.held
      /\ lock'.waiters = [i \in DOMAIN ws |-> [ws[i] EXCEPT !.live = @ /\ ws[i].task # t]]
  <2>1. lock' = [lock EXCEPT !.waiters = [i \in DOMAIN ws |-> [ws[i] EXCEPT !.live = @ /\ ws[i].task # t]]]
    BY DEF CancelledWaiting
  <2>2. /\ lock'.held = lock.held
        /\ lock'.waiters = [i \in DOMAIN ws |-> [ws[i] EXCEPT !.live = @ /\ ws[i].task # t]]
        /\ DOMAIN lock' = DOMAIN lock
    BY <1>0, <2>1
  <2> QED
    BY <2>2 DEF CancelledWaiting
<1>2. \A w \in Waiter : LET gone == [w EXCEPT !.live = @ /\ w.task # t]
                        IN gone \in Waiter /\ gone.task = w.task /\ (gone.live <=> w.live /\ w.task # t)
  BY DEF Waiter
<1>3. /\ lock'.waiters \in Seq(Waiter) /\ Len(lock'.waiters) = Len(ws)
      /\ \A i \in 1..Len(ws) : /\ lock'.waiters[i].task = ws[i].task
                               /\ lock'.waiters[i].live <=> ws[i].live /\ ws[i].task # t
  <2>1. lock'.waiters \in [1..Len(ws) -> Waiter]
    BY <1>0, <1>1, <1>2
  <2>2. lock'.waiters \in Seq(Waiter) /\ Len(lock'.waiters) = Len(ws)
    BY <1>0, <2>1, SeqDef
  <2> QED
    BY <1>0, <1>1, <1>2, <2>2
<1>4. Owners' = Owners
  BY <1>1 DEF Owners, TypesOK
<1>5. WaitersOK'
  <2>1. \A u \in Tasks : pc'[u] = "waiting" <=> pc[u] = "waiting" /\ u # t
    BY <1>1 DEF TypesOK
  <2>2. ASSUME NEW u \in Tasks, pc'[u] = "waiting"
        PROVE  \E i \in 1..Len(lock'.waiters) : lock'.waiters[i].task = u /\ lock'.waiters[i].live
    BY <1>3, <2>1, <2>2 DEF WaitersOK, LockOK
  <2>3. \A i \in 1..Len(lock'.waiters) : lock'.waiters[i].live =>
          pc'[lock'.waiters[i].task] = "waiting" /\ lock'.held
    BY <1>0, <1>1, <1>3, <2>1 DEF WaitersOK, LockOK
  <2>4. \A i, j \in 1..Len(lock'.waiters) :
          /\ lock'.waiters[i].live /\ lock'.waiters[j].live
          /\ lock'.waiters[i].task = lock'.waiters[j].task
          => i = j
    BY <1>3 DEF WaitersOK, LockOK
  <2> QED
    BY <2>2, <2>3, <2>4, Zenon DEF WaitersOK
<1>6. lock' \in [held : BOOLEAN, waiters : Seq(Waiter)]
  <2> DEFINE W == [i \in DOMAIN ws |-> [ws[i] EXCEPT !.live = @ /\ ws[i].task # t]]
  <2>1. lock' = [lock EXCEPT !.waiters = W]
    BY DEF CancelledWaiting
  <2>2. W \in Seq(Waiter)
    BY <1>1, <1>3
  <2> HIDE DEF W
  <2> QED
    BY <1>0, <2>1, <2>2
<1> QED
  BY <1>1, <1>4, <1>5, <1>6 DEF LockOK

\* A task takes the lock, or waits for it.
LEMMA Queues ==
  ASSUME TypesOK, LockOK, NEW t \in Tasks, NEW c, Enter(t, c)
  PROVE  LockOK'
<1> DEFINE ws == lock.waiters
<1>0. /\ lock \in [held : BOOLEAN, waiters : Seq(Waiter)]
      /\ ws \in Seq(Waiter) /\ Len(ws) \in Nat
      /\ \A i \in 1..Len(ws) : ws[i] \in Waiter /\ ws[i].task \in Tasks
      /\ pc[t] = "idle"
  BY LockTyped DEF Enter
<1>1. CASE lock.held
  <2> DEFINE w == [task |-> t, live |-> TRUE]
  <2>1. /\ pc' = [pc EXCEPT ![t] = "waiting"]
        /\ lock' = [lock EXCEPT !.waiters = Append(ws, w)]
    BY <1>1 DEF Enter
  <2>2. /\ lock' \in [held : BOOLEAN, waiters : Seq(Waiter)]
        /\ lock'.held /\ lock'.waiters = Append(ws, w)
    <3>1. Append(ws, w) \in Seq(Waiter)
      BY <1>0 DEF Waiter
    <3> QED
      BY <1>0, <1>1, <2>1, <3>1
  <2>3. /\ Len(lock'.waiters) = Len(ws) + 1
        /\ \A i \in 1..Len(ws) : lock'.waiters[i] = ws[i]
        /\ lock'.waiters[Len(ws) + 1] = w
    BY <1>0, <2>2
  <2>4. \A i \in 1..Len(lock'.waiters) : i \in 1..Len(ws) \/ i = Len(ws) + 1
    BY <1>0, <2>3
  <2>5. Owners' = Owners
    BY <1>0, <2>1 DEF Owners, TypesOK
  <2>6. \A i \in 1..Len(ws) : ws[i].live => ws[i].task # t
    BY <1>0 DEF LockOK, WaitersOK
  <2>7. WaitersOK'
    <3>1. ASSUME NEW u \in Tasks, pc'[u] = "waiting"
          PROVE  \E i \in 1..Len(lock'.waiters) : lock'.waiters[i].task = u /\ lock'.waiters[i].live
      <4>1. CASE u = t
        BY <1>0, <2>3, <4>1
      <4>2. CASE u # t
        BY <1>0, <2>1, <2>3, <3>1, <4>2 DEF LockOK, WaitersOK, TypesOK
      <4> QED
        BY <4>1, <4>2
    <3>2. ASSUME NEW i \in 1..Len(lock'.waiters), lock'.waiters[i].live
          PROVE  pc'[lock'.waiters[i].task] = "waiting"
      BY <1>0, <2>1, <2>3, <2>4, <2>6, <3>2 DEF LockOK, WaitersOK, TypesOK
    <3>3. ASSUME NEW i \in 1..Len(lock'.waiters), NEW j \in 1..Len(lock'.waiters),
                 lock'.waiters[i].live, lock'.waiters[j].live,
                 lock'.waiters[i].task = lock'.waiters[j].task
          PROVE  i = j
      BY <2>3, <2>4, <2>6, <3>3 DEF LockOK, WaitersOK
    <3> QED
      BY <2>2, <3>1, <3>2, <3>3 DEF WaitersOK
  <2> QED
    BY <1>1, <2>2, <2>5, <2>7 DEF LockOK
<1>2. CASE ~lock.held
  <2>1. /\ pc' = [pc EXCEPT ![t] = "executing"]
        /\ lock' = [lock EXCEPT !.held = TRUE]
    BY <1>2 DEF Enter
  <2>2. /\ lock' \in [held : BOOLEAN, waiters : Seq(Waiter)]
        /\ lock'.held /\ lock'.waiters = ws
    BY <1>0, <2>1
  <2>3. Owners' = {t}
    BY <1>2, <2>1 DEF Owners, LockOK, TypesOK
  <2>4. WaitersOK'
    BY <1>0, <1>2, <2>1, <2>2 DEF LockOK, WaitersOK, TypesOK
  <2> QED
    BY <2>2, <2>3, <2>4 DEF LockOK
<1> QED
  BY <1>1, <1>2

-----------------------------------------------------------------------------
(* Small facts.                                                            *)

\* A sequence is one of its own elements.
LEMMA IsASequence ==
  ASSUME NEW S, NEW s \in Seq(S)
  PROVE  s \in Seq(ToSet(s))
<1>1. DOMAIN s = 1..Len(s) /\ Len(s) \in Nat /\ s \in [1..Len(s) -> S]
  BY LenProperties
<1>2. s \in [1..Len(s) -> ToSet(s)]
  BY <1>1 DEF ToSet
<1> QED
  BY <1>1, <1>2, SeqDef

\* One more call.
LEMMA OneMore ==
  ASSUME NEW s, s \in Seq(ToSet(s)), NEW e
  PROVE  /\ Append(s, e) \in Seq(ToSet(Append(s, e)))
         /\ Len(Append(s, e)) = Len(s) + 1 /\ Len(s) \in Nat
         /\ \A n \in 1..Len(s) : Append(s, e)[n] = s[n]
         /\ Append(s, e)[Len(s) + 1] = e
<1> DEFINE S == ToSet(s) \cup {e}
<1>1. s \in Seq(S)
  BY SeqMonotonic
<1>2. /\ Append(s, e) \in Seq(S)
      /\ Len(Append(s, e)) = Len(s) + 1 /\ Len(s) \in Nat
      /\ \A n \in 1..Len(s) : Append(s, e)[n] = s[n]
      /\ Append(s, e)[Len(s) + 1] = e
  <2> e \in S
    OBVIOUS
  <2> HIDE DEF S
  <2> QED
    BY <1>1
<1>3. Append(s, e) \in Seq(ToSet(Append(s, e)))
  BY <1>2, IsASequence
<1> QED
  BY <1>2, <1>3

\* A call has one statement or two.
LEMMA OneOrTwo == \A c : StatementsOf(c) \in {1, 2}
  BY DEF StatementsOf

\* What the queue of the connection's thread holds.
LEMMA JobsTyped ==
  ASSUME QueueOK(jobs)
  PROVE  /\ jobs \in Seq(JobSet) /\ Len(jobs) \in Nat
         /\ \A i \in 1..Len(jobs) :
              /\ jobs[i].task \in Tasks /\ jobs[i].call \in Nat /\ jobs[i].step \in Nat
              /\ jobs[i].live \in BOOLEAN
              /\ jobs[i].do \in {"statement", "commit", "rollback", "history", "tokens"}
              /\ Changes(jobs[i]) => Writes(jobs[i])
<1>1. jobs \in Seq(JobSet) /\ Len(jobs) \in Nat /\ \A i \in 1..Len(jobs) : jobs[i] \in JobSet
  BY DEF QueueOK
<1> QED
  BY <1>1 DEF JobSet, Changes, Writes

\* Only who owns the lock writes, and who waits for the thread is not idle.
LEMMA LiveJobs ==
  ASSUME QueueOK(jobs), LiveOK, TypesOK, NEW i \in 1..Len(jobs), jobs[i].live
  PROVE  /\ pc[jobs[i].task] \in {"executing", "committing", "undoing", "reading"}
         /\ Changes(jobs[i]) => pc[jobs[i].task] \in {"executing", "committing"}
         /\ Writes(jobs[i]) => jobs[i].task \in Owners
  BY JobsTyped DEF LiveOK, Changes, Writes, Owners

-----------------------------------------------------------------------------
(* The steps.                                                              *)

\* A task makes a call.
LEMMA Enters ==
  ASSUME CoreInv, NEW t \in Tasks, NEW c, IsCall(c),
         c.op = "fork" => \A n \in 1..Len(called) : called[n].to # c.to,
         Enter(t, c)
  PROVE  CoreInv'
<1>0. /\ TypesOK /\ LockOK /\ QueueOK(jobs) /\ LiveOK /\ WaitOK
      /\ CallsOK /\ OpenOK /\ SessionsOK /\ FoundOK
  BY DEF CoreInv
<1> DEFINE N == Len(called) + 1
<1>1. /\ called' = Append(called, c)
      /\ called' \in Seq(ToSet(called'))
      /\ Len(called') = N /\ Len(called) \in Nat
      /\ \A n \in 1..Len(called) : called'[n] = called[n]
      /\ called'[N] = c
      /\ \A n \in 1..N : n \in 1..Len(called) \/ n = N
  <2>1. called' = Append(called, c) /\ called \in Seq(ToSet(called))
    BY <1>0 DEF Enter, CallsOK
  <2> QED
    BY <2>1, OneMore
<1>2. /\ pc[t] = "idle"
      /\ mine' = [mine EXCEPT ![t] = N]
      /\ at' = [at EXCEPT ![t] = 1]
      /\ reply' = [reply EXCEPT ![t] = "none"]
      /\ UNCHANGED <<store, story, working, inside, returned, failed, cancelled>>
  BY <1>1 DEF Enter, databaseVars, answerVars
<1> HIDE DEF N
<1>3. TypesOK' /\ \A u \in Tasks \ {t} : pc'[u] = pc[u] /\ reply'[u] = reply[u]
  BY <1>0, <1>2 DEF TypesOK, Places, Enter
<1>4. LockOK'
  BY <1>0, Queues
<1>5. CallsOK'
  <2>1. \A n \in 1..Len(called') : IsCall(called'[n])
    BY <1>0, <1>1 DEF CallsOK
  <2>2. \A m, n \in 1..Len(called') :
          called'[m].op = "fork" /\ called'[n].op = "fork" /\ called'[m].to = called'[n].to => m = n
    BY <1>0, <1>1 DEF CallsOK
  <2>3. story' \in Seq(1..Len(called'))
    <3>1. 1..Len(called) \subseteq 1..Len(called')
      BY <1>1 DEF N
    <3> QED
      BY <1>0, <1>2, <3>1, SeqMonotonic DEF CallsOK
  <2>4. failed' \subseteq 1..Len(called')
    BY <1>0, <1>1, <1>2 DEF CallsOK, N
  <2> QED
    BY <1>0, <1>1, <1>2, <2>1, <2>2, <2>3, <2>4 DEF CallsOK
<1>6. ToSet(story) \subseteq 1..Len(called)
  BY <1>0 DEF CallsOK, ToSet
<1>7. SessionsOK'
  BY <1>0, <1>1, <1>2, <1>6 DEF SessionsOK
<1>8. \A n \in 1..Len(called), k \in Nat : Begun(n, k)' <=> Begun(n, k)
  BY <1>1, <1>2 DEF Begun
<1>9. N \notin 1..Len(called) /\ N \in Nat
  BY <1>1 DEF N
<1>a. /\ mine' \in [Tasks -> Nat] /\ at' \in [Tasks -> Nat]
      /\ mine'[t] = N /\ at'[t] = 1 /\ reply'[t] = "none"
      /\ \A u \in Tasks \ {t} : mine'[u] = mine[u] /\ at'[u] = at[u]
  BY <1>0, <1>2, <1>9 DEF OpenOK, TypesOK
<1>b. \A i \in 1..Len(jobs) : jobs[i].live => jobs[i].task # t
  BY <1>0, <1>2, LiveJobs
<1>c. /\ \A u \in Open' : u = t \/ u \in Open
      /\ \A u \in Tasks : u \in Open => u # t
  BY <1>2, <1>3 DEF Open
<1>d. /\ \A u \in Open' : /\ mine'[u] \in 1..Len(called')
                          /\ mine'[u] \notin ToSet(story')
                          /\ mine'[u] \notin failed'
                          /\ at'[u] \in 1..StatementsOf(called'[mine'[u]])
      /\ \A u, v \in Open' : mine'[u] = mine'[v] => u = v
  <2>1. ASSUME NEW u \in Open', u # t
        PROVE  /\ mine'[u] \in 1..Len(called) /\ mine'[u] \in 1..Len(called')
               /\ mine'[u] \notin ToSet(story')
               /\ mine'[u] \notin failed'
               /\ at'[u] \in 1..StatementsOf(called'[mine'[u]])
               /\ mine'[u] = mine[u] /\ u \in Open
    <3>1. u \in Open /\ u \in Tasks /\ mine'[u] = mine[u] /\ at'[u] = at[u]
      BY <1>a, <1>c, <2>1 DEF Open
    <3>2. /\ mine[u] \in 1..Len(called) /\ mine[u] \notin ToSet(story) /\ mine[u] \notin failed
          /\ at[u] \in 1..StatementsOf(called[mine[u]])
      BY <1>0, <3>1 DEF OpenOK
    <3>3. called'[mine[u]] = called[mine[u]] /\ mine[u] \in 1..Len(called')
      BY <1>1, <3>2 DEF N
    <3> QED
      BY <1>2, <3>1, <3>2, <3>3
  <2>2. /\ mine'[t] \in 1..Len(called') /\ mine'[t] \notin ToSet(story') /\ mine'[t] \notin failed'
        /\ at'[t] \in 1..StatementsOf(called'[mine'[t]])
    <3>1. 1 \in 1..StatementsOf(c)
      BY OneOrTwo
    <3>2. failed \subseteq 1..Len(called)
      BY <1>0 DEF CallsOK
    <3> QED
      BY <1>1, <1>2, <1>6, <1>9, <1>a, <3>1, <3>2 DEF N
  <2>3. ASSUME NEW u \in Open', NEW v \in Open', mine'[u] = mine'[v]
        PROVE  u = v
    <3>1. CASE u # t /\ v # t
      BY <1>0, <2>1, <2>3, <3>1 DEF OpenOK
    <3>2. CASE u = t \/ v = t
      BY <1>9, <1>a, <2>1, <2>3, <3>2
    <3> QED
      BY <3>1, <3>2
  <2> QED
    BY <2>1, <2>2, <2>3
<1>e. ASSUME NEW i \in 1..Len(jobs), Changes(jobs[i])
      PROVE  /\ jobs[i].call \in 1..Len(called) /\ jobs[i].call \in 1..Len(called')
             /\ jobs[i].call \notin ToSet(story')
             /\ jobs[i].call \notin failed'
             /\ jobs[i].call # N
             /\ jobs[i].do = "statement" => jobs[i].step \in 1..StatementsOf(called'[jobs[i].call])
  <2>1. /\ jobs[i].call \in 1..Len(called)
        /\ jobs[i].call \notin ToSet(story)
        /\ jobs[i].call \notin failed
        /\ jobs[i].do = "statement" => jobs[i].step \in 1..StatementsOf(called[jobs[i].call])
    BY <1>0, <1>e DEF OpenOK
  <2>2. called'[jobs[i].call] = called[jobs[i].call] /\ jobs[i].call \in 1..Len(called')
    BY <1>1, <2>1 DEF N
  <2> QED
    BY <1>2, <1>9, <2>1, <2>2
<1>f. ASSUME NEW i \in 1..Len(jobs), jobs[i].live
      PROVE  LET u == jobs[i].task
             IN /\ u \in Tasks \ {t} /\ reply'[u] = reply[u] /\ pc'[u] = pc[u]
                /\ mine'[u] = mine[u] /\ at'[u] = at[u]
  BY <1>0, <1>3, <1>a, <1>b, <1>f, JobsTyped
<1>g. CASE lock.held
  <2>1. pc'[t] = "waiting" /\ jobs' = jobs
    BY <1>0, <1>g DEF Enter, TypesOK
  <2>2. QueueOK(jobs)'
    BY <1>0, <2>1
  <2>3. LiveOK'
    BY <1>0, <1>f, <2>1 DEF LiveOK
  <2>4. WaitOK'
    <3>1. ASSUME NEW u \in Tasks, NEW do PROVE WaitsFor(u, do)' <=> WaitsFor(u, do)
      BY <2>1 DEF WaitsFor
    <3>2. NoWrites(jobs') <=> NoWrites(jobs)
      BY <2>1
    <3> QED
      BY <1>0, <1>3, <1>a, <2>1, <3>1, <3>2, Zenon DEF WaitOK
  <2>5. OpenOK'
    <3>1. \A u \in Tasks : pc'[u] \in {"waiting", "granted"} =>
            /\ at'[u] = 1
            /\ \A i \in 1..Len(jobs') : Changes(jobs'[i]) => jobs'[i].call # mine'[u]
      BY <1>0, <1>3, <1>a, <1>e, <2>1, SMTT(30) DEF OpenOK
    <3> QED
      BY <1>a, <1>d, <1>e, <2>1, <3>1 DEF OpenOK
  <2>6. FoundOK'
    <3>1. \A i \in 1..Len(jobs') : FirstWrite(jobs', i) =>
            /\ jobs'[i].do = "statement" => Begun(jobs[i].call, jobs[i].step - 1)'
            /\ jobs'[i].do = "commit" => Begun(jobs[i].call, StatementsOf(called[jobs[i].call]))'
      <4> SUFFICES ASSUME NEW i \in 1..Len(jobs), FirstWrite(jobs, i), Changes(jobs[i])
                   PROVE  /\ jobs[i].do = "statement" => Begun(jobs[i].call, jobs[i].step - 1)'
                          /\ jobs[i].do = "commit" =>
                               Begun(jobs[i].call, StatementsOf(called[jobs[i].call]))'
        BY <2>1 DEF Changes
      <4>1. /\ jobs[i].call \in 1..Len(called)
            /\ jobs[i].do = "statement" => jobs[i].step \in 1..StatementsOf(called[jobs[i].call])
            /\ called'[jobs[i].call] = called[jobs[i].call]
        BY <1>0, <1>1, <1>e DEF OpenOK
      <4>2. /\ jobs[i].do = "statement" => jobs[i].step - 1 \in Nat
            /\ StatementsOf(called[jobs[i].call]) \in Nat
        BY <4>1, OneOrTwo
      <4>3. /\ jobs[i].do = "statement" => Begun(jobs[i].call, jobs[i].step - 1)
            /\ jobs[i].do = "commit" => Begun(jobs[i].call, StatementsOf(called[jobs[i].call]))
        BY <1>0 DEF FoundOK
      <4> QED
        BY <1>2, <2>1, <4>1, <4>3 DEF Begun
    <3>2. NoWrites(jobs') /\ (\A u \in Tasks : pc'[u] \notin {"executing", "committing"}) => Clean'
      <4> SUFFICES ASSUME NoWrites(jobs), \A u \in Tasks : pc'[u] \notin {"executing", "committing"}
                   PROVE  Clean'
        BY <2>1
      <4>1. \A u \in Tasks : pc[u] \notin {"executing", "committing"}
        BY <1>2, <1>3
      <4> QED
        BY <1>0, <1>2, <4>1 DEF FoundOK, Clean
    <3>3. ASSUME NEW u \in Tasks, reply'[u] = "ok"
          PROVE  /\ pc'[u] = "executing" => Begun(mine[u], at[u])'
                 /\ pc'[u] = "committing" => Clean' /\ mine'[u] \in ToSet(story')
      <4>1. u # t /\ reply[u] = "ok" /\ pc'[u] = pc[u] /\ mine'[u] = mine[u] /\ at'[u] = at[u]
        BY <1>3, <1>a, <3>3
      <4>2. pc[u] = "executing" => Begun(mine[u], at[u]) /\ mine[u] \in 1..Len(called) /\ at[u] \in Nat
        BY <1>0, <4>1 DEF FoundOK, OpenOK, Open
      <4>3. pc[u] = "committing" => Clean /\ mine[u] \in ToSet(story)
        BY <1>0, <4>1 DEF FoundOK
      <4> QED
        BY <1>2, <1>8, <4>1, <4>2, <4>3 DEF Clean
    <3> QED
      BY <3>1, <3>2, <3>3 DEF FoundOK
  <2> QED
    BY <1>3, <1>4, <1>5, <1>7, <2>2, <2>3, <2>4, <2>5, <2>6 DEF CoreInv
<1>h. CASE ~lock.held
  <2> DEFINE job == JobFor(t, "statement", N, 1)
  <2>1. pc'[t] = "executing" /\ jobs' = Append(jobs, job)
    BY <1>0, <1>1, <1>h DEF Enter, TypesOK
  <2>2. /\ job \in JobSet /\ job.task = t /\ job.do = "statement" /\ job.call = N
        /\ job.step = 1 /\ job.live /\ Changes(job) /\ Writes(job)
    BY <1>9 DEF JobFor, JobSet, Changes, Writes
  <2> HIDE DEF job
  <2>3. Owners = {}
    BY <1>0, <1>h DEF LockOK
  <2>4. /\ \A u \in Tasks : pc[u] \notin {"granted", "executing", "committing", "undoing"}
        /\ \A i \in 1..Len(jobs) : jobs[i].live => ~Writes(jobs[i])
    BY <1>0, <2>3, LiveJobs DEF Owners
  <2>5. QueueOK(jobs')
    <3>1. \A i \in 1..Len(jobs) : Changes(jobs[i]) => ~jobs[i].live /\ jobs[i].call # job.call
      BY <1>0, <1>e, <2>2, <2>4, JobsTyped
    <3>2. \A i \in 1..Len(jobs) : jobs[i].live => jobs[i].task # job.task
      BY <1>b, <2>2
    <3>3. ~(job.do = "commit" \/ (job.do = "statement" /\ job.step > 1))
      BY <2>2
    <3> QED
      BY <1>0, <2>1, <2>2, <3>1, <3>2, <3>3, QueueAppends
  <2>6. /\ Len(jobs) \in Nat /\ Len(jobs') = Len(jobs) + 1
        /\ \A i \in 1..Len(jobs) : jobs'[i] = jobs[i]
        /\ jobs'[Len(jobs) + 1] = job
        /\ \A i \in 1..Len(jobs') : i \in 1..Len(jobs) \/ i = Len(jobs) + 1
    BY <1>0, <2>1, <2>2, JobsTyped, Appended
  <2>7. LiveOK'
    BY <1>0, <1>a, <1>f, <2>1, <2>2, <2>6, SMTT(30) DEF LiveOK
  <2>8. WaitOK'
    <3>1. WaitsFor(t, "statement")'
      BY <2>2, <2>6 DEF WaitsFor
    <3>2. TransactionOf("executing") = "statement"
      BY DEF TransactionOf
    <3>3. \A u \in Tasks \ {t} : /\ pc'[u] \in {"idle", "waiting", "reading"}
                                 /\ pc'[u] # "reading" => reply'[u] = "none"
      BY <1>0, <1>3, <2>4 DEF WaitOK, TypesOK, Places
    <3>4. \A u \in Tasks : pc'[u] \in {"executing", "committing", "undoing"} => u = t
      BY <3>3
    <3>5. WaitsFor(t, TransactionOf(pc[t]))'
      BY <2>1, <3>1, <3>2
    <3> QED
      BY <1>a, <2>1, <3>3, <3>4, <3>5 DEF WaitOK
  <2>9. OpenOK'
    <3>1. \A u \in Tasks : pc'[u] \in {"waiting", "granted"} =>
            /\ at'[u] = 1 /\ mine'[u] \in 1..Len(called)
            /\ \A i \in 1..Len(jobs) : Changes(jobs[i]) => jobs[i].call # mine'[u]
      <4> SUFFICES ASSUME NEW u \in Tasks, pc'[u] \in {"waiting", "granted"}
                   PROVE  /\ at'[u] = 1 /\ mine'[u] \in 1..Len(called)
                          /\ \A i \in 1..Len(jobs) : Changes(jobs[i]) => jobs[i].call # mine'[u]
        OBVIOUS
      <4>1. u # t /\ pc[u] \in {"waiting", "granted"} /\ mine'[u] = mine[u] /\ at'[u] = at[u]
        BY <1>3, <1>a, <2>1
      <4>2. u \in Open
        BY <4>1 DEF Open
      <4> QED
        BY <1>0, <4>1, <4>2 DEF OpenOK
    <3>2. \A u \in Tasks : pc'[u] \in {"waiting", "granted"} =>
            /\ at'[u] = 1
            /\ \A i \in 1..Len(jobs') : Changes(jobs'[i]) => jobs'[i].call # mine'[u]
      BY <1>9, <2>2, <2>6, <3>1
    <3>3. \A i \in 1..Len(jobs') : Changes(jobs'[i]) =>
            /\ jobs'[i].call \in 1..Len(called')
            /\ jobs'[i].call \notin ToSet(story')
            /\ jobs'[i].call \notin failed'
            /\ jobs'[i].do = "statement" => jobs'[i].step \in 1..StatementsOf(called'[jobs'[i].call])
      <4>1. t \in Open'
        BY <2>1 DEF Open
      <4> QED
        BY <1>a, <1>d, <1>e, <2>2, <2>6, <4>1
    <3> QED
      BY <1>a, <1>d, <3>2, <3>3 DEF OpenOK
  <2>a. FoundOK'
    <3>1. ASSUME NEW i \in 1..Len(jobs'), FirstWrite(jobs', i)
          PROVE  /\ jobs'[i].do = "statement" => Begun(jobs[i].call, jobs[i].step - 1)'
                 /\ jobs'[i].do = "commit" => Begun(jobs[i].call, StatementsOf(called[jobs[i].call]))'
      <4>1. CASE i \in 1..Len(jobs)
        <5>1. jobs'[i] = jobs[i] /\ FirstWrite(jobs, i)
          <6>1. \A k \in 1..(i - 1) : jobs'[k] = jobs[k]
            BY <2>6, <4>1
          <6> QED
            BY <2>6, <3>1, <4>1, <6>1 DEF FirstWrite
        <5>2. CASE Changes(jobs[i])
          <6>1. /\ jobs[i].call \in 1..Len(called)
                /\ jobs[i].do = "statement" => jobs[i].step \in 1..StatementsOf(called[jobs[i].call])
                /\ called'[jobs[i].call] = called[jobs[i].call]
            BY <1>0, <1>1, <1>e, <4>1, <5>2 DEF OpenOK
          <6>2. /\ jobs[i].do = "statement" => jobs[i].step - 1 \in Nat
                /\ StatementsOf(called[jobs[i].call]) \in Nat
            BY <6>1, OneOrTwo
          <6>3. /\ jobs[i].do = "statement" => Begun(jobs[i].call, jobs[i].step - 1)
                /\ jobs[i].do = "commit" => Begun(jobs[i].call, StatementsOf(called[jobs[i].call]))
            BY <1>0, <4>1, <5>1 DEF FoundOK
          <6> QED
            BY <1>2, <5>1, <6>1, <6>3 DEF Begun
        <5> QED
          BY <5>1, <5>2 DEF Changes
      <4>2. CASE i = Len(jobs) + 1
        <5>1. NoWrites(jobs)
          <6>1. \A k \in 1..Len(jobs) : k \in 1..(i - 1) /\ jobs'[k] = jobs[k]
            BY <2>6, <4>2
          <6> QED
            BY <3>1, <6>1 DEF FirstWrite, NoWrites
        <5>2. Clean
          BY <1>0, <2>4, <5>1 DEF FoundOK
        <5>3. inside' = <<>> /\ working' = store'
          BY <1>2, <5>2 DEF Clean
        <5> QED
          BY <2>2, <2>6, <4>2, <5>3 DEF Begun, Progress
      <4> QED
        BY <2>6, <4>1, <4>2
    <3>2. \E u \in Tasks : pc'[u] \in {"executing", "committing"}
      BY <2>1
    <3>3. \A u \in Tasks : reply'[u] = "ok" => pc'[u] \notin {"executing", "committing"}
      BY <1>3, <1>a, <2>4
    <3> QED
      BY <3>1, <3>2, <3>3 DEF FoundOK
  <2> QED
    BY <1>3, <1>4, <1>5, <1>7, <2>5, <2>7, <2>8, <2>9, <2>a DEF CoreInv
<1> QED
  BY <1>g, <1>h

\* A task is through with a call or with a read, gives it up, or was not in one.
LEMMA StepsAside ==
  ASSUME CoreInv, NEW t \in Tasks, TypesOK', LockOK',
         UNCHANGED <<store, story, working, inside, called, mine, at, failed>>,
         Forsakes(jobs', jobs, t),
         \A i \in 1..Len(jobs) : Changes(jobs[i]) /\ jobs[i].live => jobs[i].task # t,
         pc[t] \in {"executing", "committing"} => Clean,
         pc'[t] = "idle", reply'[t] = "none", returned' \subseteq ToSet(story),
         \A u \in Tasks \ {t} : /\ pc'[u] = pc[u] \/ (pc[u] = "waiting" /\ pc'[u] = "granted")
                                /\ reply'[u] = reply[u]
  PROVE  CoreInv'
<1>0. /\ TypesOK /\ LockOK /\ QueueOK(jobs) /\ LiveOK /\ WaitOK
      /\ CallsOK /\ OpenOK /\ SessionsOK /\ FoundOK
  BY DEF CoreInv
<1>1. /\ Len(jobs) \in Nat /\ Len(jobs') = Len(jobs)
      /\ \A i \in 1..Len(jobs) :
           /\ jobs'[i].task = jobs[i].task /\ jobs'[i].do = jobs[i].do
           /\ jobs'[i].call = jobs[i].call /\ jobs'[i].step = jobs[i].step
           /\ jobs'[i].live <=> jobs[i].live /\ jobs[i].task # t
  BY <1>0, JobsTyped DEF Forsakes
<1>2. /\ NoWrites(jobs') <=> NoWrites(jobs)
      /\ \A i \in 1..Len(jobs) : /\ Changes(jobs'[i]) <=> Changes(jobs[i])
                                 /\ Writes(jobs'[i]) <=> Writes(jobs[i])
                                 /\ FirstWrite(jobs', i) <=> FirstWrite(jobs, i)
  BY <1>0, ForsakenWrites, JobsTyped
<1>3. QueueOK(jobs')
  BY <1>0, QueueForsaken
<1>4. LiveOK'
  <2> SUFFICES ASSUME NEW i \in 1..Len(jobs), jobs[i].live, jobs[i].task # t
               PROVE  LET u == jobs[i].task
                      IN /\ u \in Tasks /\ reply'[u] = reply[u] /\ pc'[u] = pc[u]
    BY <1>0, <1>1 DEF LiveOK
  <2>1. /\ jobs[i].task \in Tasks \ {t}
        /\ pc[jobs[i].task] \in {"executing", "committing", "undoing", "reading"}
    BY <1>0, JobsTyped, LiveJobs
  <2> QED
    BY <2>1
<1>5. WaitOK'
  <2>1. ASSUME NEW u \in Tasks \ {t}, NEW do, WaitsFor(u, do)
        PROVE  WaitsFor(u, do)'
    <3>1. PICK i \in 1..Len(jobs) : /\ jobs[i].task = u /\ jobs[i].live /\ jobs[i].do = do
                                    /\ \A k \in (i + 1)..Len(jobs) : ~Writes(jobs[k])
      BY <2>1 DEF WaitsFor
    <3>2. \A k \in (i + 1)..Len(jobs') : ~Writes(jobs'[k])
      BY <1>1, <1>2, <3>1
    <3>3. jobs'[i].task = u /\ jobs'[i].live /\ jobs'[i].do = do /\ i \in 1..Len(jobs')
      BY <1>1, <3>1
    <3> QED
      BY <3>2, <3>3 DEF WaitsFor
  <2>2. ASSUME NEW u \in Tasks \ {t}
        PROVE  /\ pc'[u] \in {"idle", "waiting", "granted"} => reply'[u] = "none"
               /\ pc'[u] \in {"executing", "committing", "undoing"} =>
                    IF reply'[u] = "none" THEN WaitsFor(u, TransactionOf(pc[u]))' ELSE NoWrites(jobs')
    <3>1. CASE pc'[u] = pc[u]
      <4>1. WaitsFor(u, TransactionOf(pc[u])) => WaitsFor(u, TransactionOf(pc[u]))'
        BY <2>1, <3>1
      <4> QED
        BY <1>0, <1>2, <3>1, <4>1 DEF WaitOK
    <3>2. CASE pc[u] = "waiting" /\ pc'[u] = "granted"
      BY <1>0, <3>2 DEF WaitOK
    <3> QED
      BY <3>1, <3>2
  <2> QED
    BY <2>2 DEF WaitOK
<1>6. CallsOK' /\ SessionsOK'
  BY <1>0 DEF CallsOK, SessionsOK
<1>7. OpenOK'
  <2>1. \A u \in Open' : u \in Open
    BY DEF Open
  <2>2. \A u \in Tasks : pc'[u] \in {"waiting", "granted"} => pc[u] \in {"waiting", "granted"}
    OBVIOUS
  <2>3. \A i \in 1..Len(jobs) : Changes(jobs'[i]) <=> Changes(jobs[i])
    BY <1>1, <1>2
  <2>4. \A i \in 1..Len(jobs') : Changes(jobs'[i]) =>
          /\ i \in 1..Len(jobs) /\ Changes(jobs[i])
          /\ jobs'[i].call = jobs[i].call /\ jobs'[i].do = jobs[i].do
          /\ jobs'[i].step = jobs[i].step
    BY <1>1, <2>3
  <2>5. \A i \in 1..Len(jobs') : Changes(jobs'[i]) =>
          /\ jobs'[i].call \in 1..Len(called')
          /\ jobs'[i].call \notin ToSet(story')
          /\ jobs'[i].call \notin failed'
          /\ jobs'[i].do = "statement" =>
               jobs'[i].step \in 1..StatementsOf(called'[jobs'[i].call])
    BY <1>0, <2>4 DEF OpenOK
  <2>6. \A u \in Tasks : pc'[u] \in {"waiting", "granted"} =>
          /\ at'[u] = 1
          /\ \A i \in 1..Len(jobs') : Changes(jobs'[i]) => jobs'[i].call # mine'[u]
    <3> SUFFICES ASSUME NEW u \in Tasks, pc'[u] \in {"waiting", "granted"}
                 PROVE  /\ at'[u] = 1
                        /\ \A i \in 1..Len(jobs') : Changes(jobs'[i]) => jobs'[i].call # mine'[u]
      OBVIOUS
    <3>1. at[u] = 1 /\ \A i \in 1..Len(jobs) : Changes(jobs[i]) => jobs[i].call # mine[u]
      BY <1>0, <2>2 DEF OpenOK
    <3> QED
      BY <1>0, <2>4, <3>1
  <2>7. \A u \in Open' : /\ mine'[u] \in 1..Len(called')
                         /\ mine'[u] \notin ToSet(story')
                         /\ mine'[u] \notin failed'
                         /\ at'[u] \in 1..StatementsOf(called'[mine'[u]])
                         /\ \A v \in Open' : mine'[u] = mine'[v] => u = v
    BY <1>0, <2>1 DEF OpenOK
  <2> QED
    BY <1>0, <2>5, <2>6, <2>7 DEF OpenOK
<1>8. FoundOK'
  <2>1. \A i \in 1..Len(jobs') : FirstWrite(jobs', i) =>
          /\ jobs'[i].do = "statement" => Begun(jobs[i].call, jobs[i].step - 1)'
          /\ jobs'[i].do = "commit" => Begun(jobs[i].call, StatementsOf(called[jobs[i].call]))'
    BY <1>0, <1>1, <1>2 DEF FoundOK, Begun
  <2>2. NoWrites(jobs') /\ (\A u \in Tasks : pc'[u] \notin {"executing", "committing"}) => Clean'
    BY <1>0, <1>2 DEF FoundOK, Clean
  <2>3. ASSUME NEW u \in Tasks, reply'[u] = "ok"
        PROVE  /\ pc'[u] = "executing" => Begun(mine[u], at[u])'
               /\ pc'[u] = "committing" => Clean' /\ mine'[u] \in ToSet(story')
    BY <1>0, <2>3 DEF FoundOK, Begun, Clean
  <2> QED
    BY <2>1, <2>2, <2>3 DEF FoundOK
<1> QED
  BY <1>3, <1>4, <1>5, <1>6, <1>7, <1>8 DEF CoreInv

\* A step of something else.
LEMMA StillCore ==
  ASSUME CoreInv, TypesOK',
         UNCHANGED <<store, story, working, inside, called, mine, at, failed, returned,
                     jobs, lock, pc, reply>>
  PROVE  CoreInv'
<1>1. LockOK'
  BY DEF CoreInv, LockOK, WaitersOK, Owners
<1>2. QueueOK(jobs') /\ LiveOK' /\ CallsOK' /\ SessionsOK'
  BY DEF CoreInv, LiveOK, CallsOK, SessionsOK
<1>3. WaitOK'
  BY DEF CoreInv, WaitOK, WaitsFor
<1>4. OpenOK'
  BY DEF CoreInv, OpenOK, Open
<1>5. FoundOK'
  BY DEF CoreInv, FoundOK, Begun, Clean
<1> QED
  BY <1>1, <1>2, <1>3, <1>4, <1>5 DEF CoreInv

\* The process ends.
LEMMA Crashes ==
  ASSUME CoreInv, Crash
  PROVE  CoreInv'
<1>0. /\ TypesOK /\ CallsOK /\ OpenOK /\ SessionsOK
  BY DEF CoreInv
<1>1. /\ working' = store /\ inside' = <<>> /\ jobs' = <<>>
      /\ lock' = [held |-> FALSE, waiters |-> <<>>]
      /\ pc' = [t \in Tasks |-> "idle"]
      /\ reply' = [t \in Tasks |-> "none"]
      /\ cancelled' = [t \in Tasks |-> FALSE]
      /\ UNCHANGED <<store, story, called, mine, at, returned, failed>>
  BY DEF Crash, answerVars
<1>2. /\ TypesOK' /\ \A t \in Tasks : pc'[t] = "idle" /\ reply'[t] = "none"
  BY <1>1 DEF TypesOK, Places
<1>3. Len(jobs') = 0 /\ jobs' \in Seq(JobSet)
  BY <1>1
<1>4. LockOK'
  <2>1. Owners' = {}
    BY <1>2 DEF Owners
  <2>2. lock' \in [held : BOOLEAN, waiters : Seq(Waiter)] /\ lock'.held = FALSE /\ lock'.waiters = <<>>
    BY <1>1
  <2>3. WaitersOK'
    BY <1>2, <2>2 DEF WaitersOK
  <2> QED
    BY <2>1, <2>2, <2>3 DEF LockOK
<1>5. QueueOK(jobs') /\ LiveOK'
  BY <1>3 DEF QueueOK, LiveOK
<1>6. WaitOK'
  BY <1>2 DEF WaitOK
<1>7. CallsOK' /\ SessionsOK'
  BY <1>0, <1>1 DEF CallsOK, SessionsOK
<1>8. OpenOK'
  <2>1. Open' = {}
    BY <1>2 DEF Open
  <2> QED
    BY <1>0, <1>1, <1>2, <1>3, <2>1 DEF OpenOK
<1>9. FoundOK'
  BY <1>1, <1>2, <1>3 DEF FoundOK, Clean
<1> QED
  BY <1>2, <1>4, <1>5, <1>6, <1>7, <1>8, <1>9 DEF CoreInv

\* A task that waits for nothing in the queue posts a job for the thread: a read,
\* or, when it owns the lock, the next job of its call.
LEMMA Posts ==
  ASSUME CoreInv, NEW t \in Tasks, NEW job \in JobSet, TypesOK', LockOK',
         UNCHANGED <<store, story, working, inside, called, mine, failed, returned>>,
         jobs' = Append(jobs, job), job.live, job.task = t,
         at' \in [Tasks -> Nat], reply'[t] = "none",
         \A u \in Tasks \ {t} : at'[u] = at[u] /\ reply'[u] = reply[u] /\ pc'[u] = pc[u],
         \A i \in 1..Len(jobs) : jobs[i].live => jobs[i].task # t,
         \/ /\ job.do \in {"history", "tokens"}
            /\ pc'[t] = "reading" /\ pc[t] \notin {"executing", "committing"}
         \/ /\ Changes(job) /\ t \in Owners
            /\ job.call = mine[t] /\ job.step = at'[t]
            /\ job.do = "statement" => pc'[t] = "executing"
            /\ job.do = "commit" => pc'[t] = "committing" /\ NoWrites(jobs)
            /\ job.step > 1 => NoWrites(jobs)
            /\ mine[t] \in 1..Len(called)
            /\ mine[t] \notin ToSet(story) /\ mine[t] \notin failed
            /\ \A u \in Open \ {t} : mine[u] # mine[t]
            /\ at'[t] \in 1..StatementsOf(called[mine[t]])
            /\ \A i \in 1..Len(jobs) : Changes(jobs[i]) => jobs[i].call # mine[t]
            /\ NoWrites(jobs) =>
                 /\ job.do = "statement" => Begun(mine[t], at'[t] - 1)
                 /\ job.do = "commit" => Begun(mine[t], StatementsOf(called[mine[t]]))
  PROVE  CoreInv'
<1> DEFINE IsRead == /\ job.do \in {"history", "tokens"}
                     /\ pc'[t] = "reading" /\ pc[t] \notin {"executing", "committing"}
<1>0. /\ TypesOK /\ LockOK /\ QueueOK(jobs) /\ LiveOK /\ WaitOK
      /\ CallsOK /\ OpenOK /\ SessionsOK /\ FoundOK
  BY DEF CoreInv
<1>1. /\ Len(jobs) \in Nat /\ Len(jobs') = Len(jobs) + 1
      /\ \A i \in 1..Len(jobs) : jobs'[i] = jobs[i]
      /\ jobs'[Len(jobs) + 1] = job
      /\ \A i \in 1..Len(jobs') : i \in 1..Len(jobs) \/ i = Len(jobs) + 1
  BY <1>0, JobsTyped, Appended
<1>2. /\ Changes(job) \/ IsRead
      /\ IsRead => ~Changes(job) /\ ~Writes(job)
      /\ Changes(job) => Writes(job)
  BY DEF Changes, Writes
<1>3. Changes(job) => /\ t \in Owners /\ \A u \in Owners : u = t
                      /\ \A i \in 1..Len(jobs) : Writes(jobs[i]) => ~jobs[i].live
  <2>1. Changes(job) => t \in Owners
    BY DEF Changes
  <2>2. Changes(job) => \A u \in Owners : u = t
    BY <1>0, <2>1 DEF LockOK
  <2> QED
    BY <1>0, <2>1, <2>2, LiveJobs
<1>4. QueueOK(jobs')
  <2>1. Changes(job) => \A i \in 1..Len(jobs) : Changes(jobs[i]) =>
                          ~jobs[i].live /\ jobs[i].call # job.call
    BY <1>0, <1>3, JobsTyped DEF Changes
  <2>2. job.do = "commit" \/ (job.do = "statement" /\ job.step > 1) => NoWrites(jobs)
    BY DEF Changes
  <2>3. \A i \in 1..Len(jobs) : jobs[i].live => jobs[i].task # job.task
    OBVIOUS
  <2> QED
    BY <1>0, <2>1, <2>2, <2>3, QueueAppends
<1>5. LiveOK'
  <2>1. ASSUME NEW i \in 1..Len(jobs), jobs[i].live
        PROVE  /\ jobs[i].task \in Tasks \ {t}
               /\ jobs'[i] = jobs[i]
    BY <1>0, <1>1, <2>1, JobsTyped
  <2>2. ASSUME NEW i \in 1..Len(jobs), jobs'[i].live
        PROVE  LET u == jobs'[i].task
               IN /\ reply'[u] = "none"
                  /\ jobs'[i].do = "statement" => pc'[u] = "executing" /\ jobs'[i].call = mine'[u]
                                                 /\ jobs'[i].step = at'[u]
                  /\ jobs'[i].do = "commit" => pc'[u] = "committing" /\ jobs'[i].call = mine'[u]
                  /\ jobs'[i].do = "rollback" => pc'[u] = "undoing"
                  /\ jobs'[i].do \in {"history", "tokens"} => pc'[u] = "reading"
    BY <1>0, <1>1, <2>1, <2>2 DEF LiveOK
  <2>3. /\ job.do = "statement" => pc'[t] = "executing" /\ job.call = mine'[t] /\ job.step = at'[t]
        /\ job.do = "commit" => pc'[t] = "committing" /\ job.call = mine'[t]
        /\ job.do # "rollback"
        /\ job.do \in {"history", "tokens"} => pc'[t] = "reading"
    BY DEF Changes
  <2> QED
    BY <1>1, <2>2, <2>3 DEF LiveOK
<1>6. WaitOK'
  <2>1. CASE IsRead
    <3>1. NoWrites(jobs) => NoWrites(jobs')
      BY <1>1, <1>2, <2>1 DEF NoWrites
    <3>2. ASSUME NEW u \in Tasks \ {t}, NEW do, WaitsFor(u, do)
          PROVE  WaitsFor(u, do)'
      <4>1. PICK i \in 1..Len(jobs) : /\ jobs[i].task = u /\ jobs[i].live /\ jobs[i].do = do
                                      /\ \A k \in (i + 1)..Len(jobs) : ~Writes(jobs[k])
        BY <3>2 DEF WaitsFor
      <4>2. \A k \in (i + 1)..Len(jobs') : k \in (i + 1)..Len(jobs) \/ k = Len(jobs) + 1
        BY <1>1
      <4>3. \A k \in (i + 1)..Len(jobs) : k \in 1..Len(jobs)
        BY <1>1, <4>1
      <4>4. \A k \in (i + 1)..Len(jobs') : ~Writes(jobs'[k])
        BY <1>1, <1>2, <2>1, <4>1, <4>2, <4>3
      <4> QED
        BY <1>1, <4>1, <4>4 DEF WaitsFor
    <3>3. ASSUME NEW u \in Tasks \ {t}
          PROVE  WaitsFor(u, TransactionOf(pc[u])) => WaitsFor(u, TransactionOf(pc[u]))'
      <4>1. pc'[u] = pc[u]
        OBVIOUS
      <4> QED
        BY <3>2, <4>1
    <3> QED
      BY <1>0, <2>1, <3>1, <3>3 DEF WaitOK
  <2>2. CASE Changes(job)
    <3>1. \A u \in Tasks \ {t} : /\ pc'[u] \notin {"executing", "committing", "undoing"}
                                 /\ pc'[u] \in {"idle", "waiting", "granted"} => reply'[u] = "none"
      BY <1>0, <1>3, <2>2 DEF Owners, WaitOK
    <3>2. WaitsFor(t, job.do)'
      BY <1>1 DEF WaitsFor
    <3>3. pc'[t] \in {"executing", "committing"} /\ TransactionOf(pc'[t]) = job.do
      BY <2>2 DEF Changes, TransactionOf
    <3>4. WaitsFor(t, TransactionOf(pc[t]))'
      BY <3>2, <3>3
    <3> QED
      BY <3>1, <3>3, <3>4 DEF WaitOK
  <2> QED
    BY <1>2, <2>1, <2>2
<1>7. CallsOK' /\ SessionsOK'
  BY <1>0 DEF CallsOK, SessionsOK
<1>8. OpenOK'
  <2>1. \A u \in Open' : (u \in Open /\ u # t) \/ (u = t /\ Changes(job))
    BY <1>2 DEF Open
  <2>2. \A u \in Open' : /\ mine'[u] \in 1..Len(called')
                         /\ mine'[u] \notin ToSet(story')
                         /\ mine'[u] \notin failed'
                         /\ at'[u] \in 1..StatementsOf(called'[mine'[u]])
    <3> SUFFICES ASSUME NEW u \in Open'
                 PROVE  /\ mine[u] \in 1..Len(called)
                        /\ mine[u] \notin ToSet(story)
                        /\ mine[u] \notin failed
                        /\ at'[u] \in 1..StatementsOf(called[mine[u]])
      OBVIOUS
    <3>1. CASE u \in Open /\ u # t
      BY <1>0, <3>1 DEF OpenOK, Open
    <3>2. CASE u = t /\ Changes(job)
      BY <1>2, <3>2 DEF Changes
    <3> QED
      BY <2>1, <3>1, <3>2
  <2>3. \A u \in Tasks : pc'[u] \in {"waiting", "granted"} =>
          /\ at'[u] = 1
          /\ \A i \in 1..Len(jobs') : Changes(jobs'[i]) => jobs'[i].call # mine'[u]
    <3> SUFFICES ASSUME NEW u \in Tasks, pc'[u] \in {"waiting", "granted"}
                 PROVE  /\ at'[u] = 1
                        /\ \A i \in 1..Len(jobs') : Changes(jobs'[i]) => jobs'[i].call # mine[u]
      OBVIOUS
    <3>1. u # t /\ pc[u] \in {"waiting", "granted"} /\ u \in Open
      BY DEF Changes, Open
    <3>2. Changes(job) => job.call # mine[u]
      BY <3>1 DEF Changes
    <3> QED
      BY <1>0, <1>1, <3>1, <3>2 DEF OpenOK
  <2>4. \A u, v \in Open' : mine'[u] = mine'[v] => u = v
    <3> SUFFICES ASSUME NEW u \in Open', NEW v \in Open', mine[u] = mine[v]
                 PROVE  u = v
      OBVIOUS
    <3>1. CASE u \in Open /\ v \in Open
      BY <1>0, <3>1 DEF OpenOK
    <3>2. CASE Changes(job) /\ (u = t \/ v = t)
      BY <2>1, <3>2 DEF Changes
    <3> QED
      BY <2>1, <3>1, <3>2
  <2>5. \A i \in 1..Len(jobs') : Changes(jobs'[i]) =>
          /\ jobs'[i].call \in 1..Len(called')
          /\ jobs'[i].call \notin ToSet(story')
          /\ jobs'[i].call \notin failed'
          /\ jobs'[i].do = "statement" => jobs'[i].step \in 1..StatementsOf(called'[jobs'[i].call])
    <3>1. Changes(job) => /\ job.call \in 1..Len(called)
                          /\ job.call \notin ToSet(story)
                          /\ job.call \notin failed
                          /\ job.step \in 1..StatementsOf(called[job.call])
      BY DEF Changes
    <3> QED
      BY <1>0, <1>1, <3>1 DEF OpenOK
  <2> QED
    BY <1>0, <2>2, <2>3, <2>4, <2>5 DEF OpenOK
<1>9. FoundOK'
  <2>1. ASSUME NEW i \in 1..Len(jobs'), FirstWrite(jobs', i)
        PROVE  /\ jobs'[i].do = "statement" => Begun(jobs[i].call, jobs[i].step - 1)'
               /\ jobs'[i].do = "commit" => Begun(jobs[i].call, StatementsOf(called[jobs[i].call]))'
    <3>1. CASE i \in 1..Len(jobs)
      <4>1. jobs'[i] = jobs[i] /\ FirstWrite(jobs, i)
        <5>1. \A k \in 1..(i - 1) : jobs'[k] = jobs[k]
          BY <1>1, <3>1
        <5> QED
          BY <1>1, <2>1, <3>1, <5>1 DEF FirstWrite
      <4> QED
        BY <1>0, <3>1, <4>1 DEF FoundOK, Begun
    <3>2. CASE i = Len(jobs) + 1 /\ Changes(job)
      <4>1. NoWrites(jobs)
        <5>1. \A k \in 1..Len(jobs) : k \in 1..(i - 1) /\ jobs'[k] = jobs[k]
          BY <1>1, <3>2
        <5> QED
          BY <2>1, <5>1 DEF FirstWrite, NoWrites
      <4>2. /\ job.do = "statement" => Begun(job.call, job.step - 1)
            /\ job.do = "commit" => Begun(job.call, StatementsOf(called[job.call]))
        BY <3>2, <4>1 DEF Changes
      <4> QED
        BY <1>1, <3>2, <4>2 DEF Begun
    <3>3. CASE i = Len(jobs) + 1 /\ IsRead
      BY <1>1, <1>2, <3>3
    <3> QED
      BY <1>1, <1>2, <3>1, <3>2, <3>3
  <2>2. NoWrites(jobs') /\ (\A u \in Tasks : pc'[u] \notin {"executing", "committing"}) => Clean'
    <3> SUFFICES ASSUME NoWrites(jobs'), \A u \in Tasks : pc'[u] \notin {"executing", "committing"}
                 PROVE  Clean'
      OBVIOUS
    <3>1. NoWrites(jobs) /\ ~Changes(job)
      BY <1>1, <1>2 DEF NoWrites
    <3>2. \A u \in Tasks : pc[u] \notin {"executing", "committing"}
      BY <1>2, <3>1
    <3> QED
      BY <1>0, <3>1, <3>2 DEF FoundOK, Clean
  <2>3. ASSUME NEW u \in Tasks, reply'[u] = "ok"
        PROVE  /\ pc'[u] = "executing" => Begun(mine[u], at[u])'
               /\ pc'[u] = "committing" => Clean' /\ mine'[u] \in ToSet(story')
    <3>1. u # t /\ reply[u] = "ok" /\ pc'[u] = pc[u] /\ at'[u] = at[u]
      BY <2>3
    <3> QED
      BY <1>0, <3>1 DEF FoundOK, Begun, Clean
  <2> QED
    BY <2>1, <2>2, <2>3 DEF FoundOK
<1> QED
  BY <1>4, <1>5, <1>6, <1>7, <1>8, <1>9 DEF CoreInv

\* A call is interrupted, or has failed.
LEMMA Undoes ==
  ASSUME CoreInv, NEW t \in Tasks, Undo(t)
  PROVE  CoreInv'
<1> DEFINE job == Job(t, "rollback")
           old == Abandoned(t)
<1>0. /\ TypesOK /\ LockOK /\ QueueOK(jobs) /\ LiveOK /\ WaitOK
      /\ CallsOK /\ OpenOK /\ SessionsOK /\ FoundOK
  BY DEF CoreInv
<1>1. /\ pc[t] \in {"executing", "committing"} /\ (cancelled[t] \/ reply[t] = "error")
      /\ failed' = IF cancelled[t] THEN failed ELSE failed \cup {mine[t]}
      /\ cancelled' = [cancelled EXCEPT ![t] = FALSE]
      /\ reply' = [reply EXCEPT ![t] = "none"]
      /\ pc' = [pc EXCEPT ![t] = "undoing"]
      /\ jobs' = Append(old, job)
      /\ UNCHANGED <<store, story, working, inside, returned, called, lock, mine, at>>
  BY DEF Undo, InTransaction, databaseVars
<1>2. /\ job \in JobSet /\ job.task = t /\ job.do = "rollback" /\ job.live
      /\ ~Changes(job) /\ Writes(job)
  BY <1>0 DEF Job, JobFor, JobSet, Changes, Writes, OpenOK
<1>3. Forsakes(old, jobs, t)
  BY <1>0, AbandonedForsakes, JobsTyped
<1> HIDE DEF job, old
<1>4. /\ Len(jobs) \in Nat /\ Len(jobs') = Len(jobs) + 1
      /\ \A i \in 1..Len(jobs) :
           /\ jobs'[i].task = jobs[i].task /\ jobs'[i].do = jobs[i].do
           /\ jobs'[i].call = jobs[i].call /\ jobs'[i].step = jobs[i].step
           /\ jobs'[i].live <=> jobs[i].live /\ jobs[i].task # t
           /\ Changes(jobs'[i]) <=> Changes(jobs[i])
           /\ Writes(jobs'[i]) <=> Writes(jobs[i])
      /\ jobs'[Len(jobs) + 1] = job
      /\ \A i \in 1..Len(jobs') : i \in 1..Len(jobs) \/ i = Len(jobs) + 1
  <2>1. old \in Seq(JobSet) /\ Len(old) = Len(jobs)
    BY <1>3 DEF Forsakes
  <2>2. /\ Len(jobs') = Len(old) + 1 /\ Len(old) \in Nat
        /\ \A i \in 1..Len(old) : jobs'[i] = old[i]
        /\ jobs'[Len(old) + 1] = job
    BY <1>1, <1>2, <2>1, Appended
  <2>3. \A i \in 1..Len(jobs) : /\ Changes(old[i]) <=> Changes(jobs[i])
                                /\ Writes(old[i]) <=> Writes(jobs[i])
    BY <1>0, <1>3, ForsakenWrites, JobsTyped
  <2> QED
    BY <1>3, <2>1, <2>2, <2>3 DEF Forsakes
<1>5. QueueOK(jobs')
  BY <1>0, <1>1, <1>2, <1>3, QueueUndone
<1>6. /\ TypesOK' /\ pc'[t] = "undoing" /\ reply'[t] = "none"
      /\ \A u \in Tasks \ {t} : pc'[u] = pc[u] /\ reply'[u] = reply[u]
  BY <1>0, <1>1 DEF TypesOK, Places
<1>7. LockOK'
  <2>1. \A u \in Tasks : /\ pc'[u] = "waiting" <=> pc[u] = "waiting"
                         /\ u \in Owners' <=> u \in Owners
    BY <1>1, <1>6 DEF Owners
  <2>2. pc' \in [Tasks -> Places]
    BY <1>6 DEF TypesOK
  <2> QED
    BY <1>0, <1>1, <2>1, <2>2, StillLocked
<1>8. \A u \in Tasks \ {t} : pc[u] \notin {"granted", "executing", "committing", "undoing"}
  BY <1>0, <1>1 DEF LockOK, Owners
<1>9. LiveOK'
  BY <1>0, <1>1, <1>2, <1>4, <1>6, JobsTyped DEF LiveOK
<1>a. WaitOK'
  <2>1. WaitsFor(t, "rollback")'
    BY <1>2, <1>4 DEF WaitsFor
  <2>2. WaitsFor(t, TransactionOf(pc[t]))'
    BY <1>6, <2>1 DEF TransactionOf
  <2>3. \A u \in Tasks \ {t} : /\ pc'[u] \notin {"executing", "committing", "undoing"}
                               /\ pc'[u] \in {"idle", "waiting", "granted"} => reply'[u] = "none"
    BY <1>0, <1>6, <1>8 DEF WaitOK
  <2> QED
    BY <1>6, <2>2, <2>3 DEF WaitOK
<1>b. ~cancelled[t] => reply[t] = "error" /\ t \in Open /\ NoWrites(jobs)
  BY <1>0, <1>1 DEF Open, WaitOK
<1>c. CallsOK' /\ SessionsOK'
  <2>1. failed' \subseteq 1..Len(called) /\ failed' \cap ToSet(story) = {}
    BY <1>0, <1>1, <1>b DEF CallsOK, OpenOK
  <2> QED
    BY <1>0, <1>1, <2>1 DEF CallsOK, SessionsOK
<1>d. OpenOK'
  <2>1. \A u \in Open' : u \in Open /\ u # t
    BY <1>6 DEF Open
  <2>2. \A u \in Open' : mine[u] \notin failed'
    BY <1>0, <1>1, <1>b, <2>1 DEF OpenOK
  <2>3. \A u \in Tasks : pc'[u] \in {"waiting", "granted"} =>
          \A i \in 1..Len(jobs') : Changes(jobs'[i]) => jobs'[i].call # mine[u]
    BY <1>0, <1>2, <1>4, <1>6 DEF OpenOK
  <2>4. \A u \in Tasks : pc'[u] \in {"waiting", "granted"} => at[u] = 1
    BY <1>0, <1>6 DEF OpenOK
  <2>5. \A i \in 1..Len(jobs') : Changes(jobs'[i]) =>
          /\ jobs'[i].call \in 1..Len(called)
          /\ jobs'[i].call \notin ToSet(story)
          /\ jobs'[i].call \notin failed'
          /\ jobs'[i].do = "statement" => jobs'[i].step \in 1..StatementsOf(called[jobs'[i].call])
    <3> SUFFICES ASSUME NEW i \in 1..Len(jobs), Changes(jobs[i])
                 PROVE  /\ jobs[i].call \in 1..Len(called)
                        /\ jobs[i].call \notin ToSet(story)
                        /\ jobs[i].call \notin failed'
                        /\ jobs[i].do = "statement" => jobs[i].step \in 1..StatementsOf(called[jobs[i].call])
      BY <1>2, <1>4
    <3>1. cancelled[t]
      BY <1>0, <1>b, JobsTyped DEF NoWrites
    <3> QED
      BY <1>0, <1>1, <3>1 DEF OpenOK
  <2> QED
    BY <1>0, <1>1, <2>1, <2>2, <2>3, <2>4, <2>5 DEF OpenOK
<1>e. FoundOK'
  <2>1. ASSUME NEW i \in 1..Len(jobs'), FirstWrite(jobs', i)
        PROVE  /\ jobs'[i].do = "statement" => Begun(jobs[i].call, jobs[i].step - 1)'
               /\ jobs'[i].do = "commit" => Begun(jobs[i].call, StatementsOf(called[jobs[i].call]))'
    <3>1. CASE i \in 1..Len(jobs)
      <4>1. FirstWrite(jobs, i)
        <5>1. \A k \in 1..(i - 1) : k \in 1..Len(jobs)
          BY <1>4, <3>1
        <5> QED
          BY <1>4, <2>1, <5>1 DEF FirstWrite
      <4> QED
        BY <1>0, <1>1, <1>4, <3>1, <4>1 DEF FoundOK, Begun
    <3>2. CASE i = Len(jobs) + 1
      BY <1>2, <1>4, <3>2
    <3> QED
      BY <1>4, <3>1, <3>2
  <2>2. ~NoWrites(jobs')
    <3>1. Len(jobs) + 1 \in 1..Len(jobs')
      BY <1>4
    <3> QED
      BY <1>2, <1>4, <3>1 DEF NoWrites
  <2>3. \A u \in Tasks : reply'[u] = "ok" => pc'[u] \notin {"executing", "committing"}
    BY <1>6, <1>8
  <2> QED
    BY <2>1, <2>2, <2>3 DEF FoundOK
<1> QED
  BY <1>5, <1>6, <1>7, <1>9, <1>a, <1>c, <1>d, <1>e DEF CoreInv

-----------------------------------------------------------------------------
(* The thread's steps.                                                     *)

\* All the statements of a call together have the effect the call promises.
LEMMA WholeCall ==
  ASSUME NEW c, IsCall(c), NEW s, DOMAIN s = Sessions,
         \A x \in Sessions : IsSession(s[x]),
         c.op = "fork" => s[c.to].messages = <<>>
  PROVE  Progress(c, StatementsOf(c), s) = Ledger!Effect(c, s)
<1>0. c.session \in Sessions /\ c.to \in Sessions
  BY StoreAssumptions DEF IsCall, Used
<1>1. CASE c.op = "append"
  BY <1>1 DEF StatementsOf, Progress, AfterStatement, Ledger!Effect
<1>2. CASE c.op = "set"
  BY <1>2 DEF StatementsOf, Progress, AfterStatement, Ledger!Effect
<1>3. CASE c.op = "add"
  BY <1>3 DEF StatementsOf, Progress, AfterStatement, Ledger!Effect
<1>4. CASE c.op = "clear"
  <2> DEFINE x == c.session
             s1 == [s EXCEPT ![x].messages = <<>>]
             s2 == [s1 EXCEPT ![x].tokens = 0]
             whole == [s EXCEPT ![x] = [messages |-> <<>>, tokens |-> 0]]
  <2>1. Progress(c, StatementsOf(c), s) = s2
    BY <1>4 DEF StatementsOf, Progress, AfterStatement
  <2>2. Ledger!Effect(c, s) = whole
    BY <1>4 DEF Ledger!Effect
  <2>3. s[x] = [messages |-> s[x].messages, tokens |-> s[x].tokens]
    BY <1>0 DEF IsSession
  <2>4. s2[x] = [messages |-> <<>>, tokens |-> 0]
    BY <1>0, <2>3
  <2>5. \A y \in Sessions \ {x} : s2[y] = s[y]
    OBVIOUS
  <2>6. s2 = whole
    BY <1>0, <2>4, <2>5
  <2> QED
    BY <2>1, <2>2, <2>6
<1>5. CASE c.op = "fork"
  <2> DEFINE x == c.session
             f == c.to
             s1 == [s EXCEPT ![f].messages = @ \o s[x].messages]
             s2 == [s1 EXCEPT ![f].tokens = s1[x].tokens]
             whole == [s EXCEPT ![f] = s[x]]
  <2>0. x # f
    BY <1>5 DEF IsCall
  <2>1. Progress(c, StatementsOf(c), s) = s2
    BY <1>5 DEF StatementsOf, Progress, AfterStatement
  <2>2. Ledger!Effect(c, s) = whole
    BY <1>5 DEF Ledger!Effect
  <2>3. /\ s[f] = [messages |-> s[f].messages, tokens |-> s[f].tokens]
        /\ s[x] = [messages |-> s[x].messages, tokens |-> s[x].tokens]
        /\ s[x].messages \in Seq(ToSet(s[x].messages))
        /\ s[f].messages = <<>>
    BY <1>0, <1>5 DEF IsSession
  <2>4. s[f].messages \o s[x].messages = s[x].messages
    BY <2>3, ConcatEmptySeq
  <2>5. s1[f] = [messages |-> s[x].messages, tokens |-> s[f].tokens] /\ s1[x] = s[x]
    BY <1>0, <2>0, <2>3, <2>4
  <2>6. s2[f] = [messages |-> s[x].messages, tokens |-> s[x].tokens]
    BY <1>0, <2>5
  <2>7. s2[f] = s[x]
    BY <2>3, <2>6
  <2>8. \A y \in Sessions \ {f} : s2[y] = s[y]
    OBVIOUS
  <2>9. s2 = whole
    BY <1>0, <2>7, <2>8
  <2> QED
    BY <2>1, <2>2, <2>9
<1> QED
  BY <1>1, <1>2, <1>3, <1>4, <1>5 DEF IsCall

\* The sessions are sessions after a call, and only a fork reaches one that is
\* not in use.
LEMMA EffectTyped ==
  ASSUME NEW c, IsCall(c), NEW s, DOMAIN s = Sessions, \A x \in Sessions : IsSession(s[x])
  PROVE  LET e == Ledger!Effect(c, s)
         IN /\ DOMAIN e = Sessions
            /\ \A x \in Sessions : IsSession(e[x])
            /\ \A x \in Sessions \ Used : e[x] = s[x] \/ (c.op = "fork" /\ c.to = x)
<1>0. c.session \in Sessions /\ c.to \in Sessions /\ c.session \in Used
  BY StoreAssumptions DEF IsCall, Used
<1> DEFINE e == Ledger!Effect(c, s)
<1>1. \A x \in Sessions : /\ s[x] = [messages |-> s[x].messages, tokens |-> s[x].tokens]
                          /\ s[x].messages \in Seq(ToSet(s[x].messages))
  BY DEF IsSession
<1>2. CASE c.op = "append"
  <2> DEFINE m == s[c.session].messages \o c.messages
  <2>1. m \in Seq(ToSet(m))
    <3>1. /\ s[c.session].messages \in Seq(ToSet(s[c.session].messages) \cup ToSet(c.messages))
          /\ c.messages \in Seq(ToSet(s[c.session].messages) \cup ToSet(c.messages))
      BY <1>0, <1>1, SeqMonotonic DEF IsCall
    <3>2. m \in Seq(ToSet(s[c.session].messages) \cup ToSet(c.messages))
      BY <3>1, ConcatProperties
    <3> HIDE DEF m
    <3> QED
      BY <3>2, IsASequence
  <2>2. e = [s EXCEPT ![c.session].messages = m]
    BY <1>2 DEF Ledger!Effect
  <2> HIDE DEF m, e
  <2>3. e[c.session] = [messages |-> m, tokens |-> s[c.session].tokens]
    <3>1. e[c.session] = [s[c.session] EXCEPT !.messages = m]
      BY <1>0, <2>2
    <3>2. s[c.session] = [messages |-> s[c.session].messages, tokens |-> s[c.session].tokens]
      BY <1>0, <1>1
    <3> QED
      BY <3>1, <3>2
  <2>4. DOMAIN e = Sessions /\ \A y \in Sessions \ {c.session} : e[y] = s[y]
    BY <2>2
  <2>5. IsSession(e[c.session])
    BY <2>1, <2>3 DEF IsSession
  <2> QED
    BY <1>0, <2>4, <2>5 DEF e
<1>3. CASE c.op = "clear"
  <2>1. e = [s EXCEPT ![c.session] = [messages |-> <<>>, tokens |-> 0]]
    BY <1>3 DEF Ledger!Effect
  <2> HIDE DEF e
  <2>2. e[c.session] = [messages |-> <<>>, tokens |-> 0] /\ <<>> \in Seq(ToSet(<<>>))
    BY <1>0, <2>1
  <2>3. DOMAIN e = Sessions /\ \A y \in Sessions \ {c.session} : e[y] = s[y]
    BY <2>1
  <2>4. IsSession(e[c.session])
    BY <2>2 DEF IsSession
  <2> QED
    BY <1>0, <2>3, <2>4 DEF e
<1>4. CASE c.op = "fork"
  <2>1. e = [s EXCEPT ![c.to] = s[c.session]]
    BY <1>4 DEF Ledger!Effect
  <2> HIDE DEF e
  <2>2. /\ DOMAIN e = Sessions /\ \A y \in Sessions \ {c.to} : e[y] = s[y]
        /\ e[c.to] = s[c.session]
    BY <1>0, <2>1
  <2> QED
    BY <1>0, <1>4, <2>2 DEF e
<1>5. CASE c.op \in {"set", "add"}
  <2>1. PICK k : e = [s EXCEPT ![c.session].tokens = k]
    <3>1. CASE c.op = "set"
      BY <3>1 DEF Ledger!Effect
    <3>2. CASE c.op = "add"
      BY <3>2 DEF Ledger!Effect
    <3> QED
      BY <1>5, <3>1, <3>2
  <2> HIDE DEF e
  <2>2. e[c.session] = [messages |-> s[c.session].messages, tokens |-> k]
    BY <1>0, <1>1, <2>1
  <2>3. DOMAIN e = Sessions /\ \A y \in Sessions \ {c.session} : e[y] = s[y]
    BY <2>1
  <2>4. IsSession(e[c.session])
    BY <1>0, <1>1, <2>2 DEF IsSession
  <2> QED
    BY <1>0, <2>3, <2>4 DEF e
<1> QED
  BY <1>2, <1>3, <1>4, <1>5 DEF IsCall

\* The thread has taken a job and answered it: what a task may have seen.
ThreadTook(r) ==
  /\ jobs # <<>> /\ jobs' = Tail(jobs)
  /\ Answer(Head(jobs), r)
  /\ UNCHANGED <<returned, failed, called, lock, pc, mine, at, cancelled>>

\* The queue after the thread has taken a job.
LEMMA AfterHead ==
  ASSUME QueueOK(jobs), jobs # <<>>, jobs' = Tail(jobs)
  PROVE  /\ Len(jobs) \in Nat \ {0} /\ Len(jobs') = Len(jobs) - 1 /\ Len(jobs') \in Nat
         /\ 1 \in 1..Len(jobs) /\ Head(jobs) = jobs[1]
         /\ \A i \in 1..Len(jobs') : jobs'[i] = jobs[i + 1] /\ i + 1 \in 1..Len(jobs) /\ i + 1 # 1
         /\ \A k \in 1..Len(jobs) : k # 1 => k - 1 \in 1..Len(jobs') /\ jobs'[k - 1] = jobs[k]
         /\ ~Writes(Head(jobs)) => /\ NoWrites(jobs') <=> NoWrites(jobs)
                                   /\ \A i \in 1..Len(jobs') :
                                        FirstWrite(jobs', i) => FirstWrite(jobs, i + 1)
         /\ NoWrites(jobs) => NoWrites(jobs')
         /\ Changes(Head(jobs)) /\ ~Head(jobs).live => ~NoWrites(jobs')
         /\ Changes(Head(jobs)) => \A i \in 1..Len(jobs') : FirstWrite(jobs', i) => ~Changes(jobs'[i])
         /\ Writes(Head(jobs)) => \A i \in 1..Len(jobs') :
                jobs'[i].do # "commit" /\ (jobs'[i].do = "statement" => ~(jobs'[i].step > 1))
<1>1. /\ Len(jobs) \in Nat \ {0} /\ Len(jobs') = Len(jobs) - 1 /\ Len(jobs') \in Nat
      /\ 1 \in 1..Len(jobs) /\ Head(jobs) = jobs[1]
      /\ \A i \in 1..Len(jobs') : jobs'[i] = jobs[i + 1] /\ i + 1 \in 1..Len(jobs) /\ i + 1 # 1
      /\ \A k \in 1..Len(jobs) : k # 1 => k - 1 \in 1..Len(jobs') /\ jobs'[k - 1] = jobs[k]
  <2>1. jobs \in Seq(JobSet)
    BY DEF QueueOK
  <2>2. /\ Len(jobs) \in Nat \ {0} /\ Len(jobs') = Len(jobs) - 1
        /\ \A i \in 1..Len(jobs') : jobs'[i] = jobs[i + 1] /\ i + 1 \in 1..Len(jobs)
        /\ Head(jobs) = jobs[1]
    BY <2>1, Shifted
  <2>3. \A k \in 1..Len(jobs) : k # 1 => k - 1 \in 1..Len(jobs') /\ (k - 1) + 1 = k
    BY <2>2
  <2> QED
    BY <2>2, <2>3
<1>2. NoWrites(jobs) => NoWrites(jobs')
  BY <1>1 DEF NoWrites
<1>3. ASSUME ~Writes(jobs[1])
      PROVE  /\ NoWrites(jobs') => NoWrites(jobs)
             /\ \A i \in 1..Len(jobs') : FirstWrite(jobs', i) => FirstWrite(jobs, i + 1)
  <2>1. NoWrites(jobs') => NoWrites(jobs)
    BY <1>1, <1>3 DEF NoWrites
  <2>2. ASSUME NEW i \in 1..Len(jobs'), FirstWrite(jobs', i), NEW k \in 1..((i + 1) - 1)
        PROVE  ~Writes(jobs[k])
    <3>1. CASE k = 1
      BY <1>3, <3>1
    <3>2. CASE k # 1
      <4>1. k - 1 \in 1..(i - 1) /\ k \in 1..Len(jobs)
        BY <1>1, <3>2
      <4> QED
        BY <1>1, <2>2, <3>2, <4>1 DEF FirstWrite
    <3> QED
      BY <3>1, <3>2
  <2> QED
    BY <2>1, <2>2 DEF FirstWrite
<1>4. ASSUME Changes(jobs[1]), ~jobs[1].live
      PROVE  ~NoWrites(jobs')
  <2>1. PICK k \in (1 + 1)..Len(jobs) : jobs[k].do = "rollback"
    BY <1>1, <1>4 DEF QueueOK
  <2>2. k \in 1..Len(jobs) /\ k # 1
    BY <1>1, <2>1
  <2> QED
    BY <1>1, <2>1, <2>2 DEF NoWrites, Writes
<1>5. ASSUME Changes(jobs[1]), NEW i \in 1..Len(jobs'), FirstWrite(jobs', i), Changes(jobs'[i])
      PROVE  FALSE
  <2>1. /\ 1 < i + 1 /\ i + 1 \in 1..Len(jobs) /\ Changes(jobs[i + 1]) /\ Writes(jobs[i + 1])
    BY <1>1, <1>5 DEF Changes, Writes
  <2>2. PICK k \in (1 + 1)..(i + 1) : jobs[k].do = "rollback"
    BY <1>1, <1>5, <2>1 DEF QueueOK
  <2>3. k # i + 1
    BY <2>1, <2>2 DEF Changes
  <2>4. k - 1 \in 1..(i - 1) /\ k \in 1..Len(jobs) /\ k # 1
    BY <1>1, <2>1, <2>2, <2>3
  <2>5. Writes(jobs'[k - 1])
    BY <1>1, <2>2, <2>4 DEF Writes
  <2> QED
    BY <1>5, <2>4, <2>5 DEF FirstWrite
<1>6. ASSUME Writes(jobs[1]), NEW i \in 1..Len(jobs'),
             jobs'[i].do = "commit" \/ (jobs'[i].do = "statement" /\ jobs'[i].step > 1)
      PROVE  FALSE
  <2>1. FirstWrite(jobs, i + 1)
    BY <1>1, <1>6 DEF QueueOK
  <2>2. 1 \in 1..((i + 1) - 1)
    BY <1>1
  <2> QED
    BY <1>6, <2>1, <2>2 DEF FirstWrite
<1> QED
  BY <1>1, <1>2, <1>3, <1>4, <1>5, <1>6

\* What the thread does, except to the sessions.
LEMMA Takes ==
  ASSUME CoreInv, NEW r \in {"ok", "error"}, ThreadTook(r)
  PROVE  /\ TypesOK' /\ LockOK' /\ QueueOK(jobs') /\ LiveOK' /\ WaitOK'
         /\ \A u \in Tasks : IF jobs[1].live /\ jobs[1].task = u THEN reply'[u] = r
                                                                 ELSE reply'[u] = reply[u]
<1>0. /\ TypesOK /\ LockOK /\ QueueOK(jobs) /\ LiveOK /\ WaitOK
      /\ jobs # <<>> /\ jobs' = Tail(jobs)
      /\ UNCHANGED <<returned, failed, called, lock, pc, mine, at, cancelled>>
  BY DEF CoreInv, ThreadTook
<1>1. /\ Len(jobs) \in Nat \ {0} /\ Len(jobs') = Len(jobs) - 1 /\ Len(jobs') \in Nat
      /\ 1 \in 1..Len(jobs) /\ Head(jobs) = jobs[1]
      /\ \A i \in 1..Len(jobs') : jobs'[i] = jobs[i + 1] /\ i + 1 \in 1..Len(jobs) /\ i + 1 # 1
      /\ \A k \in 1..Len(jobs) : k # 1 => k - 1 \in 1..Len(jobs') /\ jobs'[k - 1] = jobs[k]
      /\ NoWrites(jobs) => NoWrites(jobs')
  BY <1>0, AfterHead
<1>2. \A u \in Tasks : IF jobs[1].live /\ jobs[1].task = u THEN reply'[u] = r
                                                           ELSE reply'[u] = reply[u]
  BY <1>0, <1>1 DEF ThreadTook, Answer, TypesOK
<1>3. TypesOK'
  <2>1. reply' \in [Tasks -> {"none", "ok", "error"}]
    BY <1>0 DEF ThreadTook, Answer, TypesOK
  <2> QED
    BY <1>0, <2>1 DEF TypesOK
<1>4. LockOK'
  BY <1>0 DEF LockOK, WaitersOK, Owners
<1>5. QueueOK(jobs')
  BY <1>0, QueueShifts
<1>6. LiveOK'
  <2> SUFFICES ASSUME NEW i \in 1..Len(jobs'), jobs'[i].live
               PROVE  reply'[jobs'[i].task] = "none"
    BY <1>0, <1>1 DEF LiveOK
  <2>1. jobs[i + 1].live /\ i + 1 \in 1..Len(jobs) /\ jobs'[i] = jobs[i + 1] /\ i + 1 # 1
    BY <1>1
  <2>2. jobs[i + 1].task \in Tasks /\ reply[jobs[i + 1].task] = "none"
    BY <1>0, <2>1, JobsTyped DEF LiveOK
  <2>3. ~(jobs[1].live /\ jobs[1].task = jobs[i + 1].task)
    BY <1>0, <1>1, <2>1 DEF QueueOK
  <2> QED
    BY <1>2, <2>1, <2>2, <2>3
<1>7. WaitOK'
  <2>1. ASSUME NEW u \in Tasks, ~(jobs[1].live /\ jobs[1].task = u), NEW do, WaitsFor(u, do)
        PROVE  WaitsFor(u, do)'
    <3>1. PICK i \in 1..Len(jobs) : /\ jobs[i].task = u /\ jobs[i].live /\ jobs[i].do = do
                                    /\ \A k \in (i + 1)..Len(jobs) : ~Writes(jobs[k])
      BY <2>1 DEF WaitsFor
    <3>2. i # 1 /\ i - 1 \in 1..Len(jobs') /\ jobs'[i - 1] = jobs[i]
      BY <1>1, <2>1, <3>1
    <3>3. ASSUME NEW k \in ((i - 1) + 1)..Len(jobs')
          PROVE  ~Writes(jobs'[k])
      <4>1. k \in 1..Len(jobs') /\ k + 1 \in (i + 1)..Len(jobs)
        BY <1>1, <3>1, <3>2
      <4> QED
        BY <1>1, <3>1, <4>1
    <3> QED
      BY <3>1, <3>2, <3>3 DEF WaitsFor
  <2>2. ASSUME jobs[1].live, NEW do, WaitsFor(jobs[1].task, do)
        PROVE  NoWrites(jobs')
    <3>1. PICK i \in 1..Len(jobs) : /\ jobs[i].task = jobs[1].task /\ jobs[i].live
                                    /\ \A k \in (i + 1)..Len(jobs) : ~Writes(jobs[k])
      BY <2>2 DEF WaitsFor
    <3>2. i = 1
      BY <1>0, <1>1, <2>2, <3>1 DEF QueueOK
    <3>3. \A k \in 1..Len(jobs') : k + 1 \in (i + 1)..Len(jobs)
      BY <1>1, <3>2
    <3> QED
      BY <1>1, <3>1, <3>3 DEF NoWrites
  <2> SUFFICES ASSUME NEW u \in Tasks
               PROVE  /\ pc[u] \in {"idle", "waiting", "granted"} => reply'[u] = "none"
                      /\ pc[u] \in {"executing", "committing", "undoing"} =>
                           IF reply'[u] = "none" THEN WaitsFor(u, TransactionOf(pc[u]))'
                           ELSE NoWrites(jobs')
    BY <1>0 DEF WaitOK
  <2>3. CASE jobs[1].live /\ jobs[1].task = u
    <3>1. pc[u] \in {"executing", "committing", "undoing", "reading"} /\ reply[u] = "none"
      BY <1>0, <1>1, <2>3, LiveJobs DEF LiveOK
    <3>2. pc[u] # "reading" => WaitsFor(u, TransactionOf(pc[u]))
      BY <1>0, <3>1 DEF WaitOK
    <3>3. pc[u] # "reading" => NoWrites(jobs')
      BY <2>2, <2>3, <3>2
    <3> QED
      BY <1>2, <2>3, <3>1, <3>3
  <2>4. CASE ~(jobs[1].live /\ jobs[1].task = u)
    <3>1. reply'[u] = reply[u]
      BY <1>2, <2>4
    <3>2. WaitsFor(u, TransactionOf(pc[u])) => WaitsFor(u, TransactionOf(pc[u]))'
      <4>1. pc'[u] = pc[u]
        BY <1>0
      <4> QED
        BY <2>1, <2>4, <4>1
    <3> QED
      BY <1>0, <1>1, <3>1, <3>2 DEF WaitOK
  <2> QED
    BY <2>3, <2>4
<1> QED
  BY <1>2, <1>3, <1>4, <1>5, <1>6, <1>7

\* A task that has its answer finds nothing of a transaction in the queue; so
\* the thread works on a transaction only when nobody has.
LEMMA Unanswered ==
  ASSUME WaitOK, TypesOK, QueueOK(jobs), jobs # <<>>, Writes(jobs[1])
  PROVE  \A u \in Tasks : pc[u] \in {"executing", "committing", "undoing"} => reply[u] = "none"
<1>1. 1 \in 1..Len(jobs)
  <2>1. jobs \in Seq(JobSet)
    BY DEF QueueOK
  <2> QED
    BY <2>1, Shifted
<1>2. ~NoWrites(jobs)
  BY <1>1 DEF NoWrites
<1> QED
  BY <1>2 DEF WaitOK

\* A step of the thread that commits nothing keeps the books of the calls.
LEMMA TakesNoCommit ==
  ASSUME CoreInv, NEW r \in {"ok", "error"}, ThreadTook(r), UNCHANGED <<store, story>>
  PROVE  CallsOK' /\ SessionsOK' /\ OpenOK'
<1>0. /\ TypesOK /\ LockOK /\ QueueOK(jobs) /\ LiveOK /\ WaitOK
      /\ CallsOK /\ OpenOK /\ SessionsOK /\ jobs # <<>> /\ jobs' = Tail(jobs)
      /\ UNCHANGED <<returned, failed, called, lock, pc, mine, at, cancelled>>
  BY DEF CoreInv, ThreadTook
<1>1. /\ \A i \in 1..Len(jobs') : jobs'[i] = jobs[i + 1] /\ i + 1 \in 1..Len(jobs)
      /\ 1 \in 1..Len(jobs)
  BY <1>0, AfterHead
<1>2. CallsOK' /\ SessionsOK'
  BY <1>0 DEF CallsOK, SessionsOK
<1>3. \A u \in Open' : u \in Open
  <2> SUFFICES ASSUME NEW u \in Tasks, pc[u] = "committing", reply'[u] # "ok"
               PROVE  reply[u] # "ok"
    BY <1>0 DEF Open
  <2>1. jobs[1].live /\ jobs[1].task = u => reply[u] = "none"
    BY <1>0, <1>1 DEF LiveOK
  <2> QED
    BY <2>1, Takes
<1>4. OpenOK'
  BY <1>0, <1>1, <1>3 DEF OpenOK
<1> QED
  BY <1>2, <1>4

\* get_history and get_context_tokens.
LEMMA Reads ==
  ASSUME CoreInv, ThreadTook("ok"), ~Writes(jobs[1]),
         UNCHANGED <<store, story, working, inside>>
  PROVE  CoreInv'
<1>0. /\ TypesOK /\ LockOK /\ QueueOK(jobs) /\ LiveOK /\ FoundOK
      /\ jobs # <<>> /\ jobs' = Tail(jobs)
      /\ UNCHANGED <<called, pc, mine, at>>
  BY DEF CoreInv, ThreadTook
<1>1. /\ \A i \in 1..Len(jobs') : jobs'[i] = jobs[i + 1] /\ i + 1 \in 1..Len(jobs)
      /\ 1 \in 1..Len(jobs)
      /\ NoWrites(jobs') <=> NoWrites(jobs)
      /\ \A i \in 1..Len(jobs') : FirstWrite(jobs', i) => FirstWrite(jobs, i + 1)
  BY <1>0, AfterHead
<1>2. FoundOK'
  <2>1. ASSUME NEW i \in 1..Len(jobs'), FirstWrite(jobs', i)
        PROVE  /\ jobs'[i].do = "statement" => Begun(jobs[i].call, jobs[i].step - 1)'
               /\ jobs'[i].do = "commit" => Begun(jobs[i].call, StatementsOf(called[jobs[i].call]))'
    <3>1. jobs'[i] = jobs[i + 1] /\ FirstWrite(jobs, i + 1) /\ i + 1 \in 1..Len(jobs)
      BY <1>1, <2>1
    <3>2. /\ jobs[i + 1].do = "statement" => Begun(jobs[i + 1].call, jobs[i + 1].step - 1)
          /\ jobs[i + 1].do = "commit" =>
               Begun(jobs[i + 1].call, StatementsOf(called[jobs[i + 1].call]))
      BY <1>0, <3>1 DEF FoundOK
    <3> QED
      BY <1>0, <3>1, <3>2 DEF Begun
  <2>2. NoWrites(jobs') /\ (\A u \in Tasks : pc'[u] \notin {"executing", "committing"}) => Clean'
    BY <1>0, <1>1 DEF FoundOK, Clean
  <2>3. ASSUME NEW u \in Tasks, reply'[u] = "ok", pc[u] \in {"executing", "committing"}
        PROVE  reply[u] = "ok"
    <3>1. jobs[1].live => pc[jobs[1].task] = "reading"
      BY <1>0, <1>1, JobsTyped DEF LiveOK, Writes
    <3>2. ~(jobs[1].live /\ jobs[1].task = u)
      BY <2>3, <3>1
    <3> QED
      BY <2>3, <3>2, Takes
  <2>4. \A u \in Tasks : reply'[u] = "ok" =>
          /\ pc'[u] = "executing" => Begun(mine[u], at[u])'
          /\ pc'[u] = "committing" => Clean' /\ mine'[u] \in ToSet(story')
    BY <1>0, <2>3 DEF FoundOK, Begun, Clean
  <2> QED
    BY <2>1, <2>2, <2>4 DEF FoundOK
<1> QED
  BY <1>2, Takes, TakesNoCommit DEF CoreInv

\* A statement is executed, or fails, or a commit fails.
LEMMA Works ==
  ASSUME CoreInv, NEW r \in {"ok", "error"}, ThreadTook(r), Changes(jobs[1]),
         UNCHANGED <<store, story>>,
         r = "ok" => /\ jobs[1].do = "statement"
                     /\ inside' = IF jobs[1].step = 0 THEN <<>> ELSE <<jobs[1].call>>
                     /\ working' = Progress(called[jobs[1].call], jobs[1].step, store)
  PROVE  CoreInv'
<1>0. /\ TypesOK /\ LockOK /\ QueueOK(jobs) /\ LiveOK /\ FoundOK /\ WaitOK
      /\ jobs # <<>> /\ jobs' = Tail(jobs)
      /\ UNCHANGED <<called, pc, mine, at>>
  BY DEF CoreInv, ThreadTook
<1>1. /\ 1 \in 1..Len(jobs) /\ Head(jobs) = jobs[1]
      /\ ~jobs[1].live => ~NoWrites(jobs')
      /\ \A i \in 1..Len(jobs') : FirstWrite(jobs', i) => ~Changes(jobs'[i])
  BY <1>0, AfterHead
<1>2. \A i \in 1..Len(jobs') : FirstWrite(jobs', i) =>
        /\ jobs'[i].do = "statement" => Begun(jobs[i].call, jobs[i].step - 1)'
        /\ jobs'[i].do = "commit" => Begun(jobs[i].call, StatementsOf(called[jobs[i].call]))'
  BY <1>1 DEF Changes
<1>3. NoWrites(jobs') => \E u \in Tasks : pc'[u] \in {"executing", "committing"}
  <2> SUFFICES ASSUME NoWrites(jobs')
               PROVE  \E u \in Tasks : pc'[u] \in {"executing", "committing"}
    OBVIOUS
  <2>1. jobs[1].live /\ jobs[1].task \in Tasks
    BY <1>0, <1>1, JobsTyped
  <2>2. pc[jobs[1].task] \in {"executing", "committing"}
    BY <1>0, <1>1, <2>1, LiveJobs
  <2> QED
    BY <1>0, <2>1, <2>2
<1>4. ASSUME NEW u \in Tasks, reply'[u] = "ok", pc'[u] \in {"executing", "committing"}
      PROVE  /\ pc'[u] = "executing" => Begun(mine[u], at[u])'
             /\ pc'[u] = "committing" => Clean' /\ mine'[u] \in ToSet(story')
  <2>1. reply[u] = "none"
    BY <1>0, <1>4, Unanswered DEF Changes, Writes
  <2>2. jobs[1].live /\ jobs[1].task = u /\ r = "ok"
    BY <1>4, <2>1, Takes
  <2>3. /\ pc'[u] = "executing" /\ jobs[1].call = mine'[u] /\ jobs[1].step = at'[u]
    BY <1>0, <1>1, <2>2 DEF LiveOK
  <2>4. /\ inside' = IF jobs[1].step = 0 THEN <<>> ELSE <<jobs[1].call>>
        /\ working' = Progress(called'[jobs[1].call], jobs[1].step, store')
    BY <1>0, <2>2
  <2> QED
    BY <2>3, <2>4 DEF Begun
<1>5. FoundOK'
  BY <1>2, <1>3, <1>4 DEF FoundOK
<1> QED
  BY <1>5, Takes, TakesNoCommit DEF CoreInv

\* The open transaction is rolled back.
LEMMA RollsBack ==
  ASSUME CoreInv, ThreadTook("ok"), jobs[1].do = "rollback",
         UNCHANGED <<store, story>>, working' = store, inside' = <<>>
  PROVE  CoreInv'
<1>0. /\ TypesOK /\ LockOK /\ QueueOK(jobs) /\ LiveOK /\ FoundOK /\ WaitOK /\ OpenOK
      /\ jobs # <<>> /\ jobs' = Tail(jobs)
      /\ UNCHANGED <<called, pc, mine, at>>
  BY DEF CoreInv, ThreadTook
<1>1. /\ 1 \in 1..Len(jobs) /\ Head(jobs) = jobs[1] /\ Writes(jobs[1])
      /\ \A i \in 1..Len(jobs') : jobs'[i] = jobs[i + 1] /\ i + 1 \in 1..Len(jobs)
      /\ \A i \in 1..Len(jobs') : jobs'[i].do # "commit" /\ (jobs'[i].do = "statement" => ~(jobs'[i].step > 1))
  <2>1. Writes(jobs[1])
    BY DEF Writes
  <2> QED
    BY <1>0, <2>1, AfterHead
<1>2. ASSUME NEW i \in 1..Len(jobs')
      PROVE  /\ jobs'[i].do = "statement" => Begun(jobs[i].call, jobs[i].step - 1)'
             /\ jobs'[i].do = "commit" => Begun(jobs[i].call, StatementsOf(called[jobs[i].call]))'
  <2>1. jobs'[i].do = "statement" => jobs'[i].step = 1
    <3> SUFFICES ASSUME jobs'[i].do = "statement" PROVE jobs'[i].step = 1
      OBVIOUS
    <3>1. /\ jobs[i + 1].do = "statement" /\ i + 1 \in 1..Len(jobs) /\ Changes(jobs[i + 1])
          /\ jobs'[i] = jobs[i + 1]
      BY <1>1 DEF Changes
    <3>2. jobs[i + 1].step \in 1..StatementsOf(called[jobs[i + 1].call])
      BY <1>0, <3>1 DEF OpenOK
    <3> QED
      BY <1>1, <3>1, <3>2, OneOrTwo
  <2>2. jobs'[i].do # "commit"
    BY <1>1
  <2> QED
    BY <2>1, <2>2 DEF Begun, Progress
<1>3. Clean'
  BY DEF Clean
<1>4. ASSUME NEW u \in Tasks, reply'[u] = "ok", pc'[u] \in {"executing", "committing"}
      PROVE  FALSE
  <2>1. reply[u] = "none"
    BY <1>0, <1>1, <1>4, Unanswered
  <2>2. jobs[1].live /\ jobs[1].task = u
    BY <1>4, <2>1, Takes
  <2> QED
    BY <1>0, <1>1, <1>4, <2>2 DEF LiveOK
<1>5. FoundOK'
  BY <1>2, <1>3, <1>4 DEF FoundOK
<1> QED
  BY <1>5, Takes, TakesNoCommit DEF CoreInv

\* A call is committed: it takes effect as a whole, and for the first time.
LEMMA Commits ==
  ASSUME CoreInv, ThreadTook("ok"), jobs[1].do = "commit",
         store' = working, story' = story \o inside, inside' = <<>>, UNCHANGED working
  PROVE  /\ CoreInv'
         /\ jobs[1].call \in DOMAIN called \ ToSet(story)
         /\ store' = Ledger!Effect(called[jobs[1].call], store)
         /\ story' = Append(story, jobs[1].call)
<1> DEFINE n == jobs[1].call
           c == called[n]
<1>0. /\ TypesOK /\ LockOK /\ QueueOK(jobs) /\ LiveOK /\ FoundOK /\ WaitOK
      /\ CallsOK /\ OpenOK /\ SessionsOK
      /\ jobs # <<>> /\ jobs' = Tail(jobs)
      /\ UNCHANGED <<called, pc, mine, at, returned, failed>>
  BY DEF CoreInv, ThreadTook
<1>1. /\ 1 \in 1..Len(jobs) /\ Head(jobs) = jobs[1] /\ Writes(jobs[1]) /\ Changes(jobs[1])
      /\ \A i \in 1..Len(jobs') : jobs'[i] = jobs[i + 1] /\ i + 1 \in 1..Len(jobs) /\ i + 1 # 1
      /\ \A i \in 1..Len(jobs') : FirstWrite(jobs', i) => ~Changes(jobs'[i])
  <2>1. Writes(jobs[1]) /\ Changes(jobs[1])
    BY DEF Writes, Changes
  <2> QED
    BY <1>0, <2>1, AfterHead
<1>2. /\ n \in 1..Len(called) /\ n \notin ToSet(story) /\ n \notin failed
      /\ IsCall(c) /\ DOMAIN called = 1..Len(called)
  <2>1. n \in 1..Len(called) /\ n \notin ToSet(story) /\ n \notin failed
    BY <1>0, <1>1 DEF OpenOK
  <2>2. IsCall(c) /\ DOMAIN called = 1..Len(called)
    BY <1>0, <2>1 DEF CallsOK
  <2> QED
    BY <2>1, <2>2
<1>3. Begun(n, StatementsOf(c))
  <2>1. FirstWrite(jobs, 1)
    BY DEF FirstWrite
  <2> QED
    BY <1>0, <1>1, <2>1 DEF FoundOK
<1>4. inside = <<n>> /\ working = Progress(c, StatementsOf(c), store)
  BY <1>3, OneOrTwo DEF Begun
<1>5. c.op = "fork" => store[c.to].messages = <<>>
  <2> SUFFICES ASSUME c.op = "fork", store[c.to].messages # <<>> PROVE FALSE
    OBVIOUS
  <2>1. c.to \in Sessions \ Used
    BY <1>2 DEF IsCall
  <2>2. PICK m \in ToSet(story) : called[m].op = "fork" /\ called[m].to = c.to
    BY <1>0, <2>1 DEF SessionsOK
  <2>3. m \in 1..Len(called)
    BY <1>0, <2>2 DEF CallsOK, ToSet
  <2>4. m = n
    BY <1>0, <1>2, <2>2, <2>3 DEF CallsOK
  <2> QED
    BY <1>2, <2>2, <2>4
<1>6. store' = Ledger!Effect(c, store)
  BY <1>0, <1>2, <1>4, <1>5, WholeCall DEF SessionsOK
<1>7. /\ story' = Append(story, n) /\ story' \in Seq(1..Len(called))
      /\ ToSet(story') = ToSet(story) \cup {n}
  <2>1. story \in Seq(1..Len(called)) /\ inside = <<n>>
    BY <1>0, <1>4 DEF CallsOK
  <2>2. story' = Append(story, n) /\ story' \in Seq(1..Len(called))
    BY <1>2, <2>1
  <2>3. /\ Len(story) \in Nat /\ DOMAIN story = 1..Len(story)
        /\ DOMAIN story' = 1..(Len(story) + 1)
        /\ \A i \in 1..Len(story) : story'[i] = story[i]
        /\ story'[Len(story) + 1] = n
    BY <1>2, <2>1, <2>2
  <2>4. ToSet(story') = ToSet(story) \cup {n}
    BY <2>3, SMTT(30) DEF ToSet
  <2> QED
    BY <2>2, <2>4
<1> HIDE DEF n, c
<1>8. CallsOK'
  <2>1. failed' \cap ToSet(story') = {} /\ returned' \subseteq ToSet(story')
    BY <1>0, <1>2, <1>7 DEF CallsOK
  <2> QED
    BY <1>0, <1>7, <2>1 DEF CallsOK
<1>9. SessionsOK'
  <2>1. /\ DOMAIN store' = Sessions
        /\ \A x \in Sessions : IsSession(store'[x])
        /\ \A x \in Sessions \ Used : store'[x] = store[x] \/ (c.op = "fork" /\ c.to = x)
    BY <1>0, <1>2, <1>6, EffectTyped DEF SessionsOK
  <2>2. ASSUME NEW x \in Sessions \ Used
        PROVE  \/ store'[x].messages = <<>>
               \/ \E m \in ToSet(story') : called'[m].op = "fork" /\ called'[m].to = x
    BY <1>0, <1>7, <2>1 DEF SessionsOK, c
  <2> QED
    BY <2>1, <2>2 DEF SessionsOK
<1>a. \A i \in 1..Len(jobs) : i # 1 /\ Changes(jobs[i]) => jobs[i].call # n
  BY <1>0, <1>1 DEF QueueOK, n
<1>b. \A u \in Open' : u \in Open /\ mine[u] # n
  <2> SUFFICES ASSUME NEW u \in Open' PROVE u \in Open /\ mine[u] # n
    OBVIOUS
  <2>1. CASE pc[u] \in {"waiting", "granted"}
    BY <1>0, <1>1, <2>1 DEF Open, OpenOK, n
  <2>2. CASE pc[u] \in {"executing", "committing"}
    <3>1. u \in Tasks /\ reply[u] = "none" /\ u \in Open
      BY <1>0, <1>1, <2>2, Unanswered DEF Open
    <3>2. ~(jobs[1].live /\ jobs[1].task = u)
      <4>1. SUFFICES ASSUME jobs[1].live, jobs[1].task = u PROVE FALSE
        OBVIOUS
      <4>2. reply'[u] = "ok" /\ pc[u] = "committing"
        BY <1>0, <1>1, <3>1, <4>1, Takes DEF LiveOK
      <4> QED
        BY <1>0, <4>2 DEF Open
    <3>3. WaitsFor(u, TransactionOf(pc[u]))
      BY <1>0, <2>2, <3>1 DEF WaitOK
    <3>4. PICK i \in 1..Len(jobs) : jobs[i].task = u /\ jobs[i].live
                                    /\ jobs[i].do = TransactionOf(pc[u])
      BY <3>3 DEF WaitsFor
    <3>5. i # 1 /\ jobs[i].do \in {"statement", "commit"}
      BY <2>2, <3>2, <3>4 DEF TransactionOf
    <3>6. jobs[i].call = mine[u]
      BY <1>0, <3>4, <3>5 DEF LiveOK
    <3> QED
      BY <1>a, <3>1, <3>5, <3>6 DEF Changes
  <2> QED
    BY <1>0, <2>1, <2>2 DEF Open
<1>c. OpenOK'
  BY <1>0, <1>1, <1>7, <1>a, <1>b DEF OpenOK
<1>d. FoundOK'
  <2>1. \A i \in 1..Len(jobs') : FirstWrite(jobs', i) =>
          /\ jobs'[i].do = "statement" => Begun(jobs[i].call, jobs[i].step - 1)'
          /\ jobs'[i].do = "commit" => Begun(jobs[i].call, StatementsOf(called[jobs[i].call]))'
    BY <1>1 DEF Changes
  <2>2. Clean'
    BY DEF Clean
  <2>3. ASSUME NEW u \in Tasks, reply'[u] = "ok", pc'[u] \in {"executing", "committing"}
        PROVE  pc'[u] = "committing" /\ mine'[u] \in ToSet(story')
    <3>1. reply[u] = "none"
      BY <1>0, <1>1, <2>3, Unanswered
    <3>2. jobs[1].live /\ jobs[1].task = u
      BY <2>3, <3>1, Takes
    <3>3. pc[u] = "committing" /\ n = mine[u]
      BY <1>0, <1>1, <3>2 DEF LiveOK, n
    <3> QED
      BY <1>0, <1>7, <3>3
  <2> QED
    BY <2>1, <2>2, <2>3 DEF FoundOK
<1>e. CoreInv'
  BY <1>8, <1>9, <1>c, <1>d, Takes DEF CoreInv
<1> QED
  BY <1>2, <1>6, <1>7, <1>e DEF n, c

-----------------------------------------------------------------------------
(* The actions.                                                            *)

\* The plans after a step of task t.
LEMMA PlanMoves ==
  ASSUME PlanOK, NEW t \in Tasks, DOMAIN plan' = Tasks,
         PlanAllows(t, plan'[t], pc'[t]),
         \A u \in Tasks \ {t} :
           /\ plan'[u] = plan[u]
           /\ pc'[u] = pc[u] \/ (pc[u] = "waiting" /\ pc'[u] = "granted")
  PROVE  PlanOK'
<1>1. ASSUME NEW u \in Tasks \ {t}
      PROVE  PlanAllows(u, plan'[u], pc'[u])
  BY <1>1 DEF PlanOK, PlanAllows
<1> QED
  BY <1>1 DEF PlanOK

\* A task without a plan may be anywhere but in a compaction's read.
LEMMA NoPlanAllows == \A t \in Tasks : \A place : place # "reading" => PlanAllows(t, NoPlan, place)
  BY DEF PlanAllows, NoPlan, Stages

\* Every call that the code makes is a call.
LEMMA NewCall ==
  ASSUME NEW op \in {"append", "clear", "fork", "set", "add"}, NEW s \in Used,
         NEW to \in Sessions, op = "fork" => to \notin Used,
         NEW messages, messages \in Seq(ToSet(messages)), NEW tokens, NEW by, NEW rest
  PROVE  IsCall([op |-> op, session |-> s, to |-> to, messages |-> messages,
                 tokens |-> tokens, by |-> by, rest |-> rest])
  BY DEF IsCall

\* Short sequences are sequences of their own elements.
LEMMA ShortList ==
  /\ <<>> \in Seq(ToSet(<<>>))
  /\ \A e : <<e>> \in Seq(ToSet(<<e>>))
  /\ \A e, f : <<e, f>> \in Seq(ToSet(<<e, f>>))
<1>1. ASSUME NEW e PROVE <<e>> \in Seq(ToSet(<<e>>))
  <2>1. <<e>> \in Seq({e})
    OBVIOUS
  <2> QED
    BY <2>1, IsASequence
<1>2. ASSUME NEW e, NEW f PROVE <<e, f>> \in Seq(ToSet(<<e, f>>))
  <2>1. <<e, f>> \in Seq({e, f})
    OBVIOUS
  <2> QED
    BY <2>1, IsASequence
<1> QED
  BY <1>1, <1>2

\* A session some task is bound to is in use from the start.
LEMMA BoundIsUsed ==
  \A t \in Tasks : \A s \in Bound[t] : s \in Sessions /\ s \in Used
  BY StoreAssumptions DEF Used

\* uuid4: nobody has used a fresh session.
LEMMA FreshIsUnused ==
  ASSUME CallsOK, NEW f \in Fresh
  PROVE  f \in Sessions /\ f \notin Used /\ \A n \in 1..Len(called) : called[n].to # f
<1>1. DOMAIN called = 1..Len(called)
  BY DEF CallsOK
<1> QED
  BY <1>1 DEF Fresh, Used

\* A task makes a call.
LEMMA UserSteps ==
  ASSUME StoreInv, NEW t \in Tasks, UserStep(t)
  PROVE  StoreInv'
<1>0. CoreInv /\ PlanOK /\ TypesOK /\ CallsOK
  BY DEF StoreInv, CoreInv
<1>1. PICK c : Enter(t, c) /\ IsCall(c)
               /\ (c.op = "fork" => \A n \in 1..Len(called) : called[n].to # c.to)
  <2>1. CASE AppendOne(t)
    <3>1. PICK s \in Bound[t] : Enter(t, [CallOf("append", s) EXCEPT !.messages = <<Says("text")>>])
      BY <2>1 DEF AppendOne, Makes
    <3> DEFINE c == [CallOf("append", s) EXCEPT !.messages = <<Says("text")>>]
    <3>2. c = [op |-> "append", session |-> s, to |-> s, messages |-> <<Says("text")>>,
               tokens |-> 0, by |-> "caller", rest |-> 0]
      BY DEF CallOf
    <3>e. Enter(t, c)
      BY <3>1
    <3> HIDE DEF c
    <3>3. IsCall(c) /\ c.op = "append"
      BY <3>2, NewCall, ShortList, BoundIsUsed
    <3> QED
      BY <3>e, <3>3
  <2>2. CASE AppendMany(t)
    <3>1. PICK s \in Bound[t] :
            Enter(t, [CallOf("append", s) EXCEPT !.messages = <<Says("call"), Says("result")>>])
      BY <2>2 DEF AppendMany, Makes
    <3> DEFINE c == [CallOf("append", s) EXCEPT !.messages = <<Says("call"), Says("result")>>]
    <3>2. c = [op |-> "append", session |-> s, to |-> s,
               messages |-> <<Says("call"), Says("result")>>,
               tokens |-> 0, by |-> "caller", rest |-> 0]
      BY DEF CallOf
    <3>e. Enter(t, c)
      BY <3>1
    <3> HIDE DEF c
    <3>3. IsCall(c) /\ c.op = "append"
      BY <3>2, NewCall, ShortList, BoundIsUsed
    <3> QED
      BY <3>e, <3>3
  <2>3. CASE Clear(t)
    <3>1. PICK s \in Bound[t] : Enter(t, CallOf("clear", s))
      BY <2>3 DEF Clear, Makes
    <3>2. IsCall(CallOf("clear", s)) /\ CallOf("clear", s).op = "clear"
      BY NewCall, ShortList, BoundIsUsed DEF CallOf
    <3> QED
      BY <3>1, <3>2
  <2>4. CASE Fork(t)
    <3>1. PICK s \in Bound[t], f \in Fresh : Enter(t, [CallOf("fork", s) EXCEPT !.to = f])
      BY <2>4 DEF Fork, Makes
    <3> DEFINE c == [CallOf("fork", s) EXCEPT !.to = f]
    <3>2. c = [op |-> "fork", session |-> s, to |-> f, messages |-> <<>>,
               tokens |-> 0, by |-> "caller", rest |-> 0]
      BY DEF CallOf
    <3>e. Enter(t, c)
      BY <3>1
    <3> HIDE DEF c
    <3>3. f \in Sessions /\ f \notin Used /\ \A n \in 1..Len(called) : called[n].to # f
      BY <1>0, FreshIsUnused
    <3>4. IsCall(c) /\ c.to = f
      BY <3>2, <3>3, NewCall, ShortList, BoundIsUsed
    <3> QED
      BY <3>e, <3>3, <3>4
  <2>5. CASE SetContextTokens(t)
    <3>1. PICK s \in Bound[t] : Enter(t, [CallOf("set", s) EXCEPT !.tokens = 1])
      BY <2>5 DEF SetContextTokens, Makes
    <3> DEFINE c == [CallOf("set", s) EXCEPT !.tokens = 1]
    <3>2. c = [op |-> "set", session |-> s, to |-> s, messages |-> <<>>,
               tokens |-> 1, by |-> "caller", rest |-> 0]
      BY DEF CallOf
    <3>e. Enter(t, c)
      BY <3>1
    <3> HIDE DEF c
    <3>3. IsCall(c) /\ c.op = "set"
      BY <3>2, NewCall, ShortList, BoundIsUsed
    <3> QED
      BY <3>e, <3>3
  <2>6. CASE AddContextTokens(t)
    <3>1. PICK s \in Bound[t] : Enter(t, [CallOf("add", s) EXCEPT !.tokens = 1])
      BY <2>6 DEF AddContextTokens, Makes
    <3> DEFINE c == [CallOf("add", s) EXCEPT !.tokens = 1]
    <3>2. c = [op |-> "add", session |-> s, to |-> s, messages |-> <<>>,
               tokens |-> 1, by |-> "caller", rest |-> 0]
      BY DEF CallOf
    <3>e. Enter(t, c)
      BY <3>1
    <3> HIDE DEF c
    <3>3. IsCall(c) /\ c.op = "add"
      BY <3>2, NewCall, ShortList, BoundIsUsed
    <3> QED
      BY <3>e, <3>3
  <2> QED
    BY <2>1, <2>2, <2>3, <2>4, <2>5, <2>6 DEF UserStep
<1>2. CoreInv'
  BY <1>0, <1>1, Enters
<1>3. /\ pc'[t] \in {"waiting", "executing"}
      /\ \A u \in Tasks \ {t} : pc'[u] = pc[u]
  BY <1>0, <1>1 DEF Enter, TypesOK
<1>4. plan[t].stage = "none"
  BY DEF UserStep, AppendOne, AppendMany, Clear, Fork, SetContextTokens, AddContextTokens, Makes
<1>5. CASE UNCHANGED plan
  <2>1. PlanAllows(t, plan'[t], pc'[t])
    BY <1>0, <1>3, <1>4, <1>5 DEF PlanOK, PlanAllows
  <2> QED
    BY <1>0, <1>2, <1>3, <1>5, <2>1, PlanMoves DEF StoreInv, PlanOK
<1>6. CASE \E s \in Bound[t] :
             plan' = [plan EXCEPT ![t] = [NoPlan EXCEPT !.stage = "fork", !.session = s]]
  <2>1. PICK s \in Bound[t] :
          plan' = [plan EXCEPT ![t] = [NoPlan EXCEPT !.stage = "fork", !.session = s]]
    BY <1>6
  <2> DEFINE p == [NoPlan EXCEPT !.stage = "fork", !.session = s]
  <2>2. p = [stage |-> "fork", session |-> s, fork |-> NoPlan.fork, list |-> NoPlan.list,
             tokens |-> NoPlan.tokens]
    <3>1. NoPlan = [stage |-> NoPlan.stage, session |-> NoPlan.session, fork |-> NoPlan.fork,
                    list |-> NoPlan.list, tokens |-> NoPlan.tokens]
      BY DEF NoPlan
    <3> DEFINE q == [NoPlan EXCEPT !.stage = "fork"]
    <3>2. q = [stage |-> "fork", session |-> NoPlan.session, fork |-> NoPlan.fork,
               list |-> NoPlan.list, tokens |-> NoPlan.tokens]
      BY <3>1
    <3>3. p = [q EXCEPT !.session = s]
      OBVIOUS
    <3> HIDE DEF p, q
    <3> QED
      BY <3>2, <3>3
  <2> HIDE DEF p
  <2>3. PlanAllows(t, p, pc'[t])
    BY <1>3, <2>2 DEF PlanAllows, Stages
  <2>4. plan'[t] = p /\ DOMAIN plan' = Tasks /\ \A u \in Tasks \ {t} : plan'[u] = plan[u]
    BY <1>0, <2>1 DEF PlanOK, p
  <2>5. PlanOK'
    BY <1>0, <1>3, <2>3, <2>4, PlanMoves
  <2> QED
    BY <1>2, <2>5 DEF StoreInv
<1> QED
  BY <1>5, <1>6
     DEF UserStep, AppendOne, AppendMany, Clear, Fork, SetContextTokens, AddContextTokens

\* A call of a compaction, with its fields named.
LEMMA OwnCallIs ==
  \A op, rest : \A t \in Tasks :
    OwnCall(op, t, rest) =
      [op |-> op, session |-> plan[t].session, to |-> plan[t].session, messages |-> <<>>,
       tokens |-> 0, by |-> "compaction", rest |-> rest]
<1> SUFFICES ASSUME NEW op, NEW rest, NEW t \in Tasks
             PROVE  OwnCall(op, t, rest) =
                      [op |-> op, session |-> plan[t].session, to |-> plan[t].session,
                       messages |-> <<>>, tokens |-> 0, by |-> "compaction", rest |-> rest]
  OBVIOUS
<1> DEFINE s == plan[t].session
           c == [CallOf(op, s) EXCEPT !.by = "compaction"]
<1>1. c = [op |-> op, session |-> s, to |-> s, messages |-> <<>>, tokens |-> 0,
           by |-> "compaction", rest |-> 0]
  BY DEF CallOf
<1>2. OwnCall(op, t, rest) = [c EXCEPT !.rest = rest]
  BY DEF OwnCall
<1> HIDE DEF c
<1> QED
  BY <1>1, <1>2

\* The compaction makes one.
LEMMA CompactionCalls ==
  ASSUME StoreInv, NEW t \in Tasks,
         TakeSnapshot(t) \/ ClearForRewrite(t) \/ WriteNext(t) \/ RestoreTokens(t)
  PROVE  StoreInv'
<1>0. CoreInv /\ PlanOK /\ TypesOK /\ CallsOK
  BY DEF StoreInv, CoreInv
<1>s. plan[t].session \in Bound[t] /\ plan[t].session \in Sessions /\ plan[t].session \in Used
  BY <1>0, BoundIsUsed
     DEF PlanOK, PlanAllows, TakeSnapshot, ClearForRewrite, WriteNext, RestoreTokens
<1>1. PICK c : Enter(t, c) /\ IsCall(c)
               /\ (c.op = "fork" => \A n \in 1..Len(called) : called[n].to # c.to)
  <2>1. CASE TakeSnapshot(t)
    <3>1. PICK f \in Fresh : Enter(t, [OwnCall("fork", t, 0) EXCEPT !.to = f])
      BY <2>1 DEF TakeSnapshot
    <3> DEFINE c == [OwnCall("fork", t, 0) EXCEPT !.to = f]
    <3>2. c = [op |-> "fork", session |-> plan[t].session, to |-> f, messages |-> <<>>,
               tokens |-> 0, by |-> "compaction", rest |-> 0]
      BY OwnCallIs
    <3>e. Enter(t, c)
      BY <3>1
    <3> HIDE DEF c
    <3>3. f \in Sessions /\ f \notin Used /\ \A n \in 1..Len(called) : called[n].to # f
      BY <1>0, FreshIsUnused
    <3>4. IsCall(c) /\ c.to = f
      BY <1>s, <3>2, <3>3, NewCall, ShortList
    <3> QED
      BY <3>e, <3>3, <3>4
  <2>2. CASE ClearForRewrite(t)
    <3> DEFINE c == OwnCall("clear", t, Len(plan[t].list))
    <3>2. c = [op |-> "clear", session |-> plan[t].session, to |-> plan[t].session,
               messages |-> <<>>, tokens |-> 0, by |-> "compaction",
               rest |-> Len(plan[t].list)]
      BY OwnCallIs
    <3>e. Enter(t, c)
      BY <2>2 DEF ClearForRewrite
    <3> HIDE DEF c
    <3>3. IsCall(c) /\ c.op = "clear"
      BY <1>s, <3>2, NewCall, ShortList
    <3> QED
      BY <3>e, <3>3
  <2>3. CASE WriteNext(t)
    <3> DEFINE c == [OwnCall("append", t, Len(plan[t].list) - 1)
                       EXCEPT !.messages = <<Head(plan[t].list)>>]
    <3>2. c = [op |-> "append", session |-> plan[t].session, to |-> plan[t].session,
               messages |-> <<Head(plan[t].list)>>, tokens |-> 0, by |-> "compaction",
               rest |-> Len(plan[t].list) - 1]
      BY OwnCallIs
    <3>e. Enter(t, c)
      BY <2>3 DEF WriteNext
    <3> HIDE DEF c
    <3>3. IsCall(c) /\ c.op = "append"
      BY <1>s, <3>2, NewCall, ShortList
    <3> QED
      BY <3>e, <3>3
  <2>4. CASE RestoreTokens(t)
    <3> DEFINE c == [OwnCall("set", t, 0) EXCEPT !.tokens = plan[t].tokens]
    <3>2. c = [op |-> "set", session |-> plan[t].session, to |-> plan[t].session,
               messages |-> <<>>, tokens |-> plan[t].tokens, by |-> "compaction", rest |-> 0]
      BY OwnCallIs
    <3>e. Enter(t, c)
      BY <2>4 DEF RestoreTokens
    <3> HIDE DEF c
    <3>3. IsCall(c) /\ c.op = "set"
      BY <1>s, <3>2, NewCall, ShortList
    <3> QED
      BY <3>e, <3>3
  <2> QED
    BY <2>1, <2>2, <2>3, <2>4
<1>2. CoreInv'
  BY <1>0, <1>1, Enters
<1>3. /\ pc'[t] \in {"waiting", "executing"}
      /\ \A u \in Tasks \ {t} : pc'[u] = pc[u]
  BY <1>0, <1>1 DEF Enter, TypesOK
<1>4. PICK stage, fork, list :
        /\ plan' = [plan EXCEPT ![t] = [plan[t] EXCEPT !.stage = stage, !.fork = fork,
                                                       !.list = list]]
           \/ plan' = [plan EXCEPT ![t] = NoPlan]
        /\ stage \in {"snapshot", "write"}
  <2> DEFINE Goal(stage, fork, list) ==
        plan' = [plan EXCEPT ![t] = [plan[t] EXCEPT !.stage = stage, !.fork = fork,
                                                    !.list = list]]
  <2>0. plan[t] = [stage |-> plan[t].stage, session |-> plan[t].session,
                   fork |-> plan[t].fork, list |-> plan[t].list, tokens |-> plan[t].tokens]
    BY <1>0 DEF PlanOK, PlanAllows
  <2>1. CASE TakeSnapshot(t)
    <3>1. PICK f : plan' = [plan EXCEPT ![t].stage = "snapshot", ![t].fork = f]
      BY <2>1 DEF TakeSnapshot
    <3>2. Goal("snapshot", f, plan[t].list)
      BY <1>0, <2>0, <3>1 DEF PlanOK
    <3> QED
      BY <3>2
  <2>2. CASE ClearForRewrite(t)
    <3>1. Goal("write", plan[t].fork, plan[t].list)
      BY <1>0, <2>0, <2>2 DEF PlanOK, ClearForRewrite
    <3> QED
      BY <3>1
  <2>3. CASE WriteNext(t)
    <3>1. Goal("write", plan[t].fork, Tail(plan[t].list))
      BY <1>0, <2>0, <2>3 DEF PlanOK, WriteNext
    <3> QED
      BY <3>1
  <2>4. CASE RestoreTokens(t)
    BY <2>4 DEF RestoreTokens
  <2> QED
    BY <2>1, <2>2, <2>3, <2>4
<1>5. DOMAIN plan' = Tasks /\ \A u \in Tasks \ {t} : plan'[u] = plan[u]
  BY <1>0, <1>4 DEF PlanOK
<1>6. PlanAllows(t, plan'[t], pc'[t])
  <2>1. CASE plan' = [plan EXCEPT ![t] = NoPlan]
    <3>1. plan'[t] = NoPlan
      BY <1>0, <2>1 DEF PlanOK
    <3> QED
      BY <1>3, <3>1, NoPlanAllows
  <2>2. CASE plan' = [plan EXCEPT ![t] = [plan[t] EXCEPT !.stage = stage, !.fork = fork,
                                                         !.list = list]]
    <3>1. plan'[t] = [plan[t] EXCEPT !.stage = stage, !.fork = fork, !.list = list]
      BY <1>0, <2>2 DEF PlanOK
    <3>2. plan[t] = [stage |-> plan[t].stage, session |-> plan[t].session,
                     fork |-> plan[t].fork, list |-> plan[t].list, tokens |-> plan[t].tokens]
      BY <1>0 DEF PlanOK, PlanAllows
    <3>3. plan'[t] = [stage |-> stage, session |-> plan[t].session,
                      fork |-> fork, list |-> list, tokens |-> plan[t].tokens]
      BY <3>1, <3>2
    <3> QED
      BY <1>s, <1>3, <1>4, <3>3 DEF PlanAllows, Stages
  <2> QED
    BY <1>4, <2>1, <2>2
<1>7. PlanOK'
  BY <1>0, <1>3, <1>5, <1>6, PlanMoves
<1> QED
  BY <1>2, <1>7 DEF StoreInv

\* The lock's owner posts its first statement.
LEMMA AcquiredSteps ==
  ASSUME StoreInv, NEW t \in Tasks, Acquired(t)
  PROVE  StoreInv'
<1>0. /\ CoreInv /\ PlanOK /\ TypesOK /\ LockOK /\ QueueOK(jobs) /\ LiveOK
      /\ WaitOK /\ OpenOK /\ FoundOK
  BY DEF StoreInv, CoreInv
<1>1. /\ pc[t] = "granted"
      /\ pc' = [pc EXCEPT ![t] = "executing"]
      /\ jobs' = Append(jobs, Job(t, "statement"))
      /\ UNCHANGED <<store, story, working, inside, called, mine, at, failed, returned,
                     lock, reply, cancelled, plan>>
  BY DEF Acquired, databaseVars, answerVars
<1>2. /\ pc'[t] = "executing" /\ \A u \in Tasks \ {t} : pc'[u] = pc[u]
      /\ pc' \in [Tasks -> Places]
  BY <1>0, <1>1 DEF TypesOK, Places
<1>3. TypesOK'
  BY <1>0, <1>1, <1>2 DEF TypesOK
<1>4. LockOK'
  <2>1. \A u \in Tasks : /\ pc'[u] = "waiting" <=> pc[u] = "waiting"
                         /\ u \in Owners' <=> u \in Owners
    BY <1>1, <1>2 DEF Owners
  <2> QED
    BY <1>0, <1>1, <1>2, <2>1, StillLocked
<1>5. /\ t \in Open /\ t \in Owners
      /\ mine[t] \in Nat /\ at[t] = 1 /\ at \in [Tasks -> Nat]
      /\ mine[t] \in 1..Len(called) /\ mine[t] \notin ToSet(story) /\ mine[t] \notin failed
      /\ \A u \in Open \ {t} : mine[u] # mine[t]
      /\ \A i \in 1..Len(jobs) : Changes(jobs[i]) => jobs[i].call # mine[t]
      /\ reply[t] = "none"
  BY <1>0, <1>1 DEF Open, Owners, OpenOK, WaitOK
<1> DEFINE job == Job(t, "statement")
<1>6. /\ job \in JobSet /\ job.live /\ job.task = t /\ job.do = "statement"
      /\ job.call = mine[t] /\ job.step = 1
  BY <1>5 DEF Job, JobFor, JobSet
<1> HIDE DEF job
<1>7. \A i \in 1..Len(jobs) : jobs[i].live => jobs[i].task # t
  BY <1>0, <1>1, LiveJobs
<1>8. NoWrites(jobs) => Begun(mine[t], 0)
  <2>1. \A u \in Tasks : pc[u] \notin {"executing", "committing"}
    BY <1>0, <1>1, <1>5 DEF LockOK, Owners
  <2> QED
    BY <1>0, <2>1 DEF FoundOK, Clean, Begun, Progress
<1>9. CoreInv'
  <2>1. Changes(job)
    BY <1>6 DEF Changes
  <2>2. at'[t] = 1 /\ at'[t] - 1 = 0 /\ 1 \in 1..StatementsOf(called[mine[t]])
    BY <1>1, <1>5, OneOrTwo
  <2>3. jobs' = Append(jobs, job)
    BY <1>1 DEF job
  <2> QED
    BY <1>0, <1>1, <1>2, <1>3, <1>4, <1>5, <1>6, <1>7, <1>8, <2>1, <2>2, <2>3, Posts
<1>a. PlanOK'
  <2>1. PlanAllows(t, plan'[t], pc'[t])
    BY <1>0, <1>1, <1>2 DEF PlanOK, PlanAllows
  <2> QED
    BY <1>0, <1>1, <1>2, <2>1, PlanMoves DEF PlanOK
<1> QED
  BY <1>9, <1>a DEF StoreInv

\* A call goes on to its next statement, or to its commit.
LEMMA StatementDoneSteps ==
  ASSUME StoreInv, NEW t \in Tasks, StatementDone(t)
  PROVE  StoreInv'
<1>0. /\ CoreInv /\ PlanOK /\ TypesOK /\ LockOK /\ QueueOK(jobs) /\ LiveOK
      /\ WaitOK /\ OpenOK /\ FoundOK
  BY DEF StoreInv, CoreInv
<1>1. /\ pc[t] = "executing" /\ reply[t] = "ok"
      /\ reply' = [reply EXCEPT ![t] = "none"]
      /\ UNCHANGED <<store, story, working, inside, called, mine, failed, returned,
                     lock, cancelled, plan>>
  BY DEF StatementDone, databaseVars, answerVars
<1> DEFINE c == called[mine[t]]
<1>2. \/ /\ at[t] < StatementsOf(c)
         /\ at' = [at EXCEPT ![t] = at[t] + 1]
         /\ jobs' = Append(jobs, JobFor(t, "statement", mine[t], at[t] + 1))
         /\ UNCHANGED pc
      \/ /\ ~(at[t] < StatementsOf(c))
         /\ pc' = [pc EXCEPT ![t] = "committing"]
         /\ jobs' = Append(jobs, Job(t, "commit"))
         /\ UNCHANGED at
  BY DEF StatementDone
<1>3. /\ pc'[t] \in {"executing", "committing"} /\ \A u \in Tasks \ {t} : pc'[u] = pc[u]
      /\ pc' \in [Tasks -> Places]
      /\ reply'[t] = "none" /\ \A u \in Tasks \ {t} : reply'[u] = reply[u]
      /\ reply' \in [Tasks -> {"none", "ok", "error"}]
  <2>1. pc' = pc \/ pc' = [pc EXCEPT ![t] = "committing"]
    BY <1>2
  <2> QED
    BY <1>0, <1>1, <2>1 DEF TypesOK, Places
<1>4. TypesOK'
  BY <1>0, <1>1, <1>3 DEF TypesOK
<1>5. LockOK'
  <2>1. \A u \in Tasks : /\ pc'[u] = "waiting" <=> pc[u] = "waiting"
                         /\ u \in Owners' <=> u \in Owners
    BY <1>1, <1>3 DEF Owners
  <2> QED
    BY <1>0, <1>1, <1>3, <2>1, StillLocked
<1>6. /\ t \in Open /\ t \in Owners
      /\ mine[t] \in Nat /\ at \in [Tasks -> Nat]
      /\ mine[t] \in 1..Len(called) /\ mine[t] \notin ToSet(story) /\ mine[t] \notin failed
      /\ \A u \in Open \ {t} : mine[u] # mine[t]
      /\ at[t] \in 1..StatementsOf(c)
  BY <1>0, <1>1 DEF Open, Owners, OpenOK
<1>7. NoWrites(jobs) /\ Begun(mine[t], at[t])
  BY <1>0, <1>1 DEF WaitOK, FoundOK
<1>8. /\ \A i \in 1..Len(jobs) : jobs[i].live => jobs[i].task # t
      /\ \A i \in 1..Len(jobs) : ~Changes(jobs[i])
  BY <1>0, <1>1, <1>7, JobsTyped DEF LiveOK, NoWrites
<1> HIDE DEF c
<1>9. ASSUME at[t] < StatementsOf(c) PROVE CoreInv'
  <2> DEFINE job == JobFor(t, "statement", mine[t], at[t] + 1)
  <2>1. /\ at' = [at EXCEPT ![t] = at[t] + 1]
        /\ jobs' = Append(jobs, job) /\ pc' = pc
    BY <1>2, <1>9
  <2>2. /\ at' \in [Tasks -> Nat] /\ at'[t] = at[t] + 1 /\ at'[t] - 1 = at[t]
        /\ \A u \in Tasks \ {t} : at'[u] = at[u]
        /\ at'[t] \in 1..StatementsOf(c)
    BY <1>6, <1>9, <2>1, OneOrTwo
  <2>3. /\ job \in JobSet /\ job.live /\ job.task = t /\ job.do = "statement"
        /\ job.call = mine[t] /\ job.step = at'[t]
    BY <1>6, <2>2 DEF JobFor, JobSet
  <2> HIDE DEF job
  <2>4. Changes(job)
    BY <2>3 DEF Changes
  <2> QED
    BY <1>0, <1>1, <1>3, <1>4, <1>5, <1>6, <1>7, <1>8, <2>1, <2>2, <2>3, <2>4, Posts DEF c
<1>a. ASSUME ~(at[t] < StatementsOf(c)) PROVE CoreInv'
  <2> DEFINE job == Job(t, "commit")
  <2>1. /\ at' = at /\ jobs' = Append(jobs, job) /\ pc'[t] = "committing"
    BY <1>0, <1>2, <1>a DEF TypesOK
  <2>2. at'[t] = StatementsOf(c) /\ at' \in [Tasks -> Nat]
    BY <1>6, <1>a, <2>1, OneOrTwo
  <2>3. /\ job \in JobSet /\ job.live /\ job.task = t /\ job.do = "commit"
        /\ job.call = mine[t] /\ job.step = at'[t]
    BY <1>6, <2>1 DEF Job, JobFor, JobSet
  <2> HIDE DEF job
  <2>4. Changes(job)
    BY <2>3 DEF Changes
  <2>5. at'[t] \in 1..StatementsOf(c) /\ Begun(mine[t], StatementsOf(c))
    BY <1>6, <1>7, <2>1, <2>2
  <2> QED
    BY <1>0, <1>1, <1>3, <1>4, <1>5, <1>6, <1>7, <1>8, <2>1, <2>3, <2>4, <2>5, Posts DEF c
<1>b. PlanOK'
  <2>1. PlanAllows(t, plan'[t], pc'[t])
    BY <1>0, <1>1, <1>3 DEF PlanOK, PlanAllows
  <2> QED
    BY <1>0, <1>1, <1>3, <2>1, PlanMoves DEF PlanOK
<1> QED
  BY <1>9, <1>a, <1>b DEF StoreInv

\* A compaction starts to read.
LEMMA StartReadSteps ==
  ASSUME StoreInv, NEW t \in Tasks, StartRead(t)
  PROVE  StoreInv'
<1>0. /\ CoreInv /\ PlanOK /\ TypesOK /\ LockOK /\ QueueOK(jobs) /\ LiveOK
      /\ WaitOK /\ OpenOK /\ FoundOK
  BY DEF StoreInv, CoreInv
<1> DEFINE job == Job(t, IF plan[t].stage = "tokens" THEN "tokens" ELSE "history")
<1>1. /\ pc[t] = "idle" /\ plan[t].stage \in {"snapshot", "tokens"}
      /\ pc' = [pc EXCEPT ![t] = "reading"]
      /\ jobs' = Append(jobs, job)
      /\ UNCHANGED <<store, story, working, inside, called, mine, at, failed, returned,
                     lock, reply, cancelled, plan>>
  BY DEF StartRead, databaseVars, answerVars
<1>2. /\ pc'[t] = "reading" /\ \A u \in Tasks \ {t} : pc'[u] = pc[u]
      /\ pc' \in [Tasks -> Places]
  BY <1>0, <1>1 DEF TypesOK, Places
<1>3. TypesOK'
  BY <1>0, <1>1, <1>2 DEF TypesOK
<1>4. LockOK'
  <2>1. \A u \in Tasks : /\ pc'[u] = "waiting" <=> pc[u] = "waiting"
                         /\ u \in Owners' <=> u \in Owners
    BY <1>1, <1>2 DEF Owners
  <2> QED
    BY <1>0, <1>1, <1>2, <2>1, StillLocked
<1>5. mine[t] \in Nat /\ at[t] \in Nat /\ at \in [Tasks -> Nat] /\ reply[t] = "none"
  BY <1>0, <1>1 DEF OpenOK, WaitOK
<1>6. /\ job \in JobSet /\ job.live /\ job.task = t /\ job.do \in {"history", "tokens"}
  BY <1>5 DEF Job, JobFor, JobSet
<1> HIDE DEF job
<1>7. \A i \in 1..Len(jobs) : jobs[i].live => jobs[i].task # t
  BY <1>0, <1>1, LiveJobs
<1>8. CoreInv'
  BY <1>0, <1>1, <1>2, <1>3, <1>4, <1>5, <1>6, <1>7, Posts
<1>9. PlanOK'
  <2>1. PlanAllows(t, plan'[t], pc'[t])
    BY <1>0, <1>1, <1>2 DEF PlanOK, PlanAllows
  <2> QED
    BY <1>0, <1>1, <1>2, <2>1, PlanMoves DEF PlanOK
<1> QED
  BY <1>8, <1>9 DEF StoreInv

\* A task without a live job has nothing to abandon.
LEMMA NothingToForsake ==
  ASSUME QueueOK(jobs), NEW t, \A i \in 1..Len(jobs) : jobs[i].live => jobs[i].task # t
  PROVE  Forsakes(jobs, jobs, t)
  BY JobsTyped DEF Forsakes

\* A waiter gives up, or a call ends, or a read does: the task is outside.
LEMMA StepsAsideInv ==
  ASSUME StoreInv, NEW t \in Tasks,
         \/ CancelledWaiting(t) \/ CancelledGranted(t) \/ Returns(t)
         \/ Raises(t) \/ EndRead(t) \/ Interrupted(t)
  PROVE  CoreInv' /\ pc'[t] = "idle"
         /\ \A u \in Tasks \ {t} : pc'[u] = pc[u] \/ (pc[u] = "waiting" /\ pc'[u] = "granted")
<1>0. /\ CoreInv /\ PlanOK /\ TypesOK /\ LockOK /\ QueueOK(jobs) /\ LiveOK
      /\ WaitOK /\ CallsOK /\ OpenOK /\ FoundOK
      /\ jobs \in Seq(JobSet)
  BY DEF StoreInv, CoreInv, QueueOK
<1>1. UNCHANGED <<store, story, working, inside, called, mine, at, failed>>
  BY DEF CancelledWaiting, CancelledGranted, Returns, Raises, EndRead, Interrupted,
         databaseVars, answerVars
<1>p. /\ pc'[t] = "idle" /\ pc' \in [Tasks -> Places] /\ LockOK'
      /\ \A u \in Tasks \ {t} : pc'[u] = pc[u] \/ (pc[u] = "waiting" /\ pc'[u] = "granted")
  <2>1. CASE CancelledWaiting(t)
    <3>1. pc' = [pc EXCEPT ![t] = "idle"]
      BY <2>1 DEF CancelledWaiting
    <3>2. LockOK'
      BY <1>0, <2>1, GivesUp
    <3> QED
      BY <1>0, <3>1, <3>2 DEF TypesOK, Places
  <2>2. CASE CancelledGranted(t) \/ Returns(t) \/ Raises(t)
    <3>1. t \in Owners /\ ReleaseAnd(t, "idle")
      BY <2>2 DEF CancelledGranted, Returns, Raises, Owners
    <3> QED
      BY <1>0, <3>1, Releases
  <2>3. CASE EndRead(t) \/ Interrupted(t)
    <3>1. pc[t] \in {"idle", "reading"} /\ pc' = [pc EXCEPT ![t] = "idle"] /\ UNCHANGED lock
      BY <1>0, <2>3 DEF EndRead, Interrupted, PlanOK, PlanAllows
    <3>2. /\ pc' \in [Tasks -> Places] /\ pc'[t] = "idle"
          /\ \A u \in Tasks \ {t} : pc'[u] = pc[u]
      BY <1>0, <3>1 DEF TypesOK, Places
    <3>3. \A u \in Tasks : /\ pc'[u] = "waiting" <=> pc[u] = "waiting"
                           /\ u \in Owners' <=> u \in Owners
      BY <3>1, <3>2 DEF Owners
    <3>4. LockOK'
      BY <1>0, <3>1, <3>2, <3>3, StillLocked
    <3> QED
      BY <3>2, <3>4
  <2> QED
    BY <2>1, <2>2, <2>3
<1>r. /\ reply' \in [Tasks -> {"none", "ok", "error"}]
      /\ reply'[t] = "none"
      /\ \A u \in Tasks \ {t} : reply'[u] = reply[u]
  <2>1. CASE CancelledWaiting(t) \/ CancelledGranted(t)
    <3>1. pc[t] \in {"waiting", "granted"} /\ reply' = reply
      BY <2>1 DEF CancelledWaiting, CancelledGranted
    <3>2. reply[t] = "none"
      BY <1>0, <3>1 DEF WaitOK
    <3> QED
      BY <1>0, <3>1, <3>2 DEF TypesOK
  <2>2. CASE Returns(t) \/ Raises(t) \/ EndRead(t) \/ Interrupted(t)
    <3>1. reply' = [reply EXCEPT ![t] = "none"]
      BY <2>2 DEF Returns, Raises, EndRead, Interrupted
    <3> QED
      BY <1>0, <3>1 DEF TypesOK
  <2> QED
    BY <2>1, <2>2
<1>c. cancelled' \in [Tasks -> BOOLEAN]
  <2>1. cancelled' = cancelled \/ cancelled' = [cancelled EXCEPT ![t] = FALSE]
    BY DEF CancelledWaiting, CancelledGranted, Returns, Raises, EndRead, Interrupted
  <2> QED
    BY <1>0, <2>1 DEF TypesOK
<1>2. TypesOK'
  BY <1>p, <1>r, <1>c DEF TypesOK
<1>3. Forsakes(jobs', jobs, t)
  <2>1. CASE Raises(t) \/ Interrupted(t)
    <3>1. jobs' = Abandoned(t)
      BY <2>1 DEF Raises, Interrupted
    <3> QED
      BY <1>0, <3>1, AbandonedForsakes
  <2>2. CASE CancelledWaiting(t) \/ CancelledGranted(t) \/ Returns(t) \/ EndRead(t)
    <3>1. jobs' = jobs /\ (pc[t] \in {"waiting", "granted"} \/ reply[t] = "ok")
      BY <2>2 DEF CancelledWaiting, CancelledGranted, Returns, EndRead
    <3>2. \A i \in 1..Len(jobs) : jobs[i].live => jobs[i].task # t
      BY <1>0, <3>1, LiveJobs DEF LiveOK
    <3> QED
      BY <1>0, <3>1, <3>2, NothingToForsake
  <2> QED
    BY <2>1, <2>2
<1>4. \A i \in 1..Len(jobs) : Changes(jobs[i]) /\ jobs[i].live => jobs[i].task # t
  <2>1. pc[t] \in {"executing", "committing"} => reply[t] = "ok"
    BY <1>0 DEF CancelledWaiting, CancelledGranted, Returns, Raises, EndRead, Interrupted,
                PlanOK, PlanAllows
  <2> QED
    BY <1>0, <2>1, LiveJobs DEF LiveOK
<1>5. /\ pc[t] \in {"executing", "committing"} => Clean
      /\ returned' \subseteq ToSet(story)
  <2>1. CASE Returns(t)
    <3>1. pc[t] = "committing" /\ reply[t] = "ok" /\ returned' = returned \cup {mine[t]}
      BY <2>1 DEF Returns
    <3>2. Clean /\ mine[t] \in ToSet(story)
      BY <1>0, <3>1 DEF FoundOK
    <3> QED
      BY <1>0, <3>1, <3>2 DEF CallsOK
  <2>2. CASE \/ CancelledWaiting(t) \/ CancelledGranted(t)
             \/ Raises(t) \/ EndRead(t) \/ Interrupted(t)
    <3>1. pc[t] \notin {"executing", "committing"} /\ returned' = returned
      BY <1>0, <2>2 DEF CancelledWaiting, CancelledGranted, Raises, EndRead, Interrupted,
                        PlanOK, PlanAllows, answerVars
    <3> QED
      BY <1>0, <3>1 DEF CallsOK
  <2> QED
    BY <2>1, <2>2
<1>6. CoreInv'
  BY <1>0, <1>1, <1>2, <1>p, <1>r, <1>3, <1>4, <1>5, StepsAside
<1> QED
  BY <1>6, <1>p

\* Each of the steps that put a task outside, or end it, is one of those.
LEMMA StepsAsideSteps ==
  ASSUME StoreInv, NEW t \in Tasks,
         \/ CancelledWaiting(t) \/ CancelledGranted(t) \/ Returns(t)
         \/ Raises(t) \/ EndRead(t) \/ Interrupted(t)
  PROVE  StoreInv'
<1>0. CoreInv' /\ PlanOK /\ pc'[t] = "idle"
      /\ \A u \in Tasks \ {t} : pc'[u] = pc[u] \/ (pc[u] = "waiting" /\ pc'[u] = "granted")
  BY StepsAsideInv DEF StoreInv
<1>1. CASE Returns(t) \/ Raises(t)
  <2>1. plan' = plan
    BY <1>1 DEF Returns, Raises
  <2>2. PlanAllows(t, plan'[t], pc'[t])
    BY <1>0, <2>1 DEF PlanOK, PlanAllows
  <2>3. PlanOK'
    BY <1>0, <2>1, <2>2, PlanMoves DEF PlanOK
  <2> QED
    BY <1>0, <2>3 DEF StoreInv
<1>2. CASE CancelledWaiting(t) \/ CancelledGranted(t) \/ Interrupted(t)
  <2>1. plan' = [plan EXCEPT ![t] = NoPlan]
    BY <1>2 DEF CancelledWaiting, CancelledGranted, Interrupted
  <2>2. plan'[t] = NoPlan /\ DOMAIN plan' = Tasks /\ \A u \in Tasks \ {t} : plan'[u] = plan[u]
    BY <1>0, <2>1 DEF PlanOK
  <2>3. PlanAllows(t, plan'[t], pc'[t])
    BY <1>0, <2>2, NoPlanAllows
  <2>4. PlanOK'
    BY <1>0, <2>2, <2>3, PlanMoves
  <2> QED
    BY <1>0, <2>4 DEF StoreInv
<1>3. CASE EndRead(t)
  <2> DEFINE p == plan[t]
  <2>0. /\ p = [stage |-> p.stage, session |-> p.session, fork |-> p.fork, list |-> p.list,
                tokens |-> p.tokens]
        /\ p.stage \in {"snapshot", "tokens"} /\ p.session \in Bound[t]
    BY <1>0, <1>3 DEF PlanOK, PlanAllows, EndRead
  <2>1. plan' = [plan EXCEPT ![t] =
                IF p.stage = "tokens" THEN [p EXCEPT !.stage = "clear"]
                ELSE IF TooShort(p.list, KeepRecent) THEN NoPlan
                ELSE [p EXCEPT !.stage = "ask"]]
    BY <1>3 DEF EndRead
  <2>2. /\ \/ plan'[t] = NoPlan
           \/ \E stage \in {"clear", "ask"} : plan'[t] = [p EXCEPT !.stage = stage]
        /\ DOMAIN plan' = Tasks /\ \A u \in Tasks \ {t} : plan'[u] = plan[u]
    BY <1>0, <2>1 DEF PlanOK
  <2> HIDE DEF p
  <2>3. PlanAllows(t, plan'[t], pc'[t])
    <3>1. CASE plan'[t] = NoPlan
      BY <1>0, <3>1, NoPlanAllows
    <3>2. ASSUME NEW stage \in {"clear", "ask"}, plan'[t] = [p EXCEPT !.stage = stage]
          PROVE  PlanAllows(t, plan'[t], pc'[t])
      <4>1. plan'[t] = [stage |-> stage, session |-> p.session, fork |-> p.fork,
                        list |-> p.list, tokens |-> p.tokens]
        BY <2>0, <3>2
      <4> QED
        BY <1>0, <2>0, <4>1 DEF PlanAllows, Stages
    <3> QED
      BY <2>2, <3>1, <3>2
  <2>4. PlanOK'
    BY <1>0, <2>2, <2>3, PlanMoves
  <2> QED
    BY <1>0, <2>4 DEF StoreInv
<1> QED
  BY <1>1, <1>2, <1>3

\* A transaction is undone.
LEMMA UndoSteps ==
  ASSUME StoreInv, NEW t \in Tasks, Undo(t)
  PROVE  StoreInv'
<1>0. CoreInv /\ PlanOK /\ TypesOK
  BY DEF StoreInv, CoreInv
<1>1. CoreInv'
  BY <1>0, Undoes
<1>2. /\ pc'[t] = "undoing" /\ \A u \in Tasks \ {t} : pc'[u] = pc[u]
      /\ plan'[t] = NoPlan /\ DOMAIN plan' = Tasks /\ \A u \in Tasks \ {t} : plan'[u] = plan[u]
  BY <1>0 DEF Undo, TypesOK, PlanOK
<1>3. PlanAllows(t, plan'[t], pc'[t])
  BY <1>2, NoPlanAllows
<1>4. PlanOK'
  BY <1>0, <1>2, <1>3, PlanMoves
<1> QED
  BY <1>1, <1>4 DEF StoreInv

\* A task is cancelled, or the summarising agent answers or fails.
LEMMA PlanSteps ==
  ASSUME StoreInv, NEW t \in Tasks, Cancel(t) \/ Summarised(t) \/ NotSummarised(t)
  PROVE  StoreInv'
<1>0. CoreInv /\ PlanOK /\ TypesOK
  BY DEF StoreInv, CoreInv
<1>1. UNCHANGED <<store, story, working, inside, called, mine, at, failed, returned,
                  jobs, lock, pc, reply>>
  BY DEF Cancel, Summarised, NotSummarised, databaseVars, answerVars, callVars
<1>2. TypesOK'
  <2>1. cancelled' = cancelled \/ cancelled' = [cancelled EXCEPT ![t] = TRUE]
    BY DEF Cancel, Summarised, NotSummarised, callVars
  <2> QED
    BY <1>0, <1>1, <2>1 DEF TypesOK
<1>3. CoreInv'
  BY <1>0, <1>1, <1>2, StillCore
<1> DEFINE p == plan[t]
<1>4. /\ p = [stage |-> p.stage, session |-> p.session, fork |-> p.fork, list |-> p.list,
              tokens |-> p.tokens]
      /\ p.stage # "none" => p.session \in Bound[t]
      /\ DOMAIN plan = Tasks
      /\ PlanAllows(t, p, pc[t])
  BY <1>0 DEF PlanOK, PlanAllows
<1>5. /\ DOMAIN plan' = Tasks /\ \A u \in Tasks \ {t} : plan'[u] = plan[u]
      /\ PlanAllows(t, plan'[t], pc'[t])
  <2>1. CASE Cancel(t)
    <3>1. plan' = plan
      BY <2>1 DEF Cancel
    <3> QED
      BY <1>1, <1>4, <3>1
  <2>2. CASE Summarised(t)
    <3>1. /\ p.stage = "ask"
          /\ plan' = [plan EXCEPT ![t].stage = "tokens",
                                  ![t].list = Compacted(@, KeepRecent)]
      BY <2>2 DEF Summarised
    <3>2. /\ DOMAIN plan' = Tasks /\ \A u \in Tasks \ {t} : plan'[u] = plan[u]
          /\ plan'[t] = [p EXCEPT !.stage = "tokens", !.list = Compacted(p.list, KeepRecent)]
      BY <1>4, <3>1
    <3> HIDE DEF p
    <3>3. plan'[t] = [stage |-> "tokens", session |-> p.session, fork |-> p.fork,
                      list |-> Compacted(p.list, KeepRecent), tokens |-> p.tokens]
      BY <1>4, <3>2
    <3>4. p.session \in Bound[t]
      BY <1>4, <3>1
    <3>5. pc'[t] = "idle"
      BY <1>1, <1>4, <3>1 DEF PlanAllows
    <3>6. PlanAllows(t, plan'[t], pc'[t])
      BY <3>3, <3>4, <3>5 DEF PlanAllows, Stages
    <3> QED
      BY <3>2, <3>6
  <2>3. CASE NotSummarised(t)
    <3>1. plan' = [plan EXCEPT ![t] = NoPlan] /\ p.stage = "ask"
      BY <2>3 DEF NotSummarised
    <3>2. pc'[t] # "reading"
      BY <1>1, <1>4, <3>1 DEF PlanAllows
    <3>3. plan'[t] = NoPlan /\ DOMAIN plan' = Tasks /\ \A u \in Tasks \ {t} : plan'[u] = plan[u]
      BY <1>4, <3>1
    <3> QED
      BY <3>2, <3>3, NoPlanAllows
  <2> QED
    BY <2>1, <2>2, <2>3
<1>6. PlanOK'
  BY <1>0, <1>1, <1>5, PlanMoves
<1> QED
  BY <1>3, <1>6 DEF StoreInv

\* The process ends.
LEMMA CrashSteps ==
  ASSUME StoreInv, Crash
  PROVE  StoreInv'
<1>1. CoreInv'
  BY Crashes DEF StoreInv
<1>2. \A t \in Tasks : plan'[t] = NoPlan /\ pc'[t] = "idle"
  BY DEF Crash
<1>3. DOMAIN plan' = Tasks
  BY DEF Crash
<1>4. PlanOK'
  BY <1>2, <1>3, NoPlanAllows DEF PlanOK
<1> QED
  BY <1>1, <1>4 DEF StoreInv

\* A statement that is executed goes one step further with its call.
LEMMA Executes ==
  ASSUME CoreInv, jobs # <<>>, jobs[1].do = "statement",
         working' = AfterStatement(called[jobs[1].call], jobs[1].step, working),
         inside' = Entered(jobs[1].call)
  PROVE  /\ inside' = IF jobs[1].step = 0 THEN <<>> ELSE <<jobs[1].call>>
         /\ working' = Progress(called[jobs[1].call], jobs[1].step, store)
<1> DEFINE n == jobs[1].call
           k == jobs[1].step
<1>1. 1 \in 1..Len(jobs)
  <2>1. QueueOK(jobs)
    BY DEF CoreInv
  <2>2. jobs \in Seq(JobSet)
    BY <2>1 DEF QueueOK
  <2> QED
    BY <2>2
<1>2. Begun(n, k - 1)
  <2>1. FirstWrite(jobs, 1)
    BY DEF FirstWrite
  <2> QED
    BY <1>1, <2>1 DEF CoreInv, FoundOK
<1>3. k \in {1, 2}
  <2>1. k \in 1..StatementsOf(called[n])
    BY <1>1 DEF CoreInv, OpenOK, Changes
  <2> QED
    BY <2>1, OneOrTwo
<1> HIDE DEF n, k
<1>4. inside = (IF k = 1 THEN <<>> ELSE <<n>>)
      /\ working = Progress(called[n], k - 1, store)
  BY <1>2, <1>3 DEF Begun
<1>5. inside' = <<n>>
  <2>1. inside' = IF n \in ToSet(inside) THEN inside ELSE Append(inside, n)
    BY DEF Entered, n
  <2>2. n \notin ToSet(<<>>) /\ n \in ToSet(<<n>>)
    BY DEF ToSet
  <2>3. Append(<<>>, n) = <<n>>
    OBVIOUS
  <2> QED
    BY <1>3, <1>4, <2>1, <2>2, <2>3
<1>6. working' = Progress(called[n], k, store)
  <2>1. working' = AfterStatement(called[n], k, working)
    BY DEF n, k
  <2>2. CASE k = 1
    <3>1. working = store
      BY <1>4, <2>2 DEF Progress
    <3> QED
      BY <2>1, <2>2, <3>1 DEF Progress
  <2>3. CASE k = 2
    <3>1. working = AfterStatement(called[n], 1, store)
      BY <1>4, <2>3 DEF Progress
    <3> QED
      BY <2>1, <2>3, <3>1 DEF Progress
  <2> QED
    BY <1>3, <2>2, <2>3
<1> QED
  BY <1>3, <1>5, <1>6 DEF n, k

\* The thread takes a job.
LEMMA ThreadSteps ==
  ASSUME StoreInv, Thread
  PROVE  StoreInv'
<1>0. /\ CoreInv /\ PlanOK /\ TypesOK /\ QueueOK(jobs)
      /\ jobs # <<>> /\ jobs' = Tail(jobs)
      /\ UNCHANGED <<returned, failed, called, lock, pc, mine, at, cancelled>>
  BY DEF StoreInv, CoreInv, Thread, answerVars
<1>1. /\ 1 \in 1..Len(jobs) /\ Head(jobs) = jobs[1]
      /\ jobs[1].task \in Tasks
      /\ jobs[1].do \in {"statement", "commit", "rollback", "history", "tokens"}
  BY <1>0, AfterHead, JobsTyped
<1>t. \A r : Answer(jobs[1], r) => ThreadTook(r)
  BY <1>0, <1>1 DEF ThreadTook
<1>2. \/ Execute(jobs[1]) \/ Commit(jobs[1]) \/ Rollback(jobs[1]) \/ Read(jobs[1])
  BY <1>1 DEF Thread
<1>3. ASSUME Execute(jobs[1])
      PROVE  CoreInv' /\ UNCHANGED plan
  <2>0. jobs[1].do = "statement" /\ UNCHANGED <<store, story, plan>> /\ Changes(jobs[1])
    BY <1>3 DEF Execute, Changes
  <2>1. CASE /\ working' = AfterStatement(called[jobs[1].call], jobs[1].step, working)
             /\ inside' = Entered(jobs[1].call)
             /\ Answer(jobs[1], "ok")
    <3>1. /\ inside' = IF jobs[1].step = 0 THEN <<>> ELSE <<jobs[1].call>>
          /\ working' = Progress(called[jobs[1].call], jobs[1].step, store)
      BY <1>0, <2>0, <2>1, Executes
    <3>2. ThreadTook("ok")
      BY <1>t, <2>1
    <3> QED
      BY <1>0, <2>0, <3>1, <3>2, Works
  <2>2. CASE Answer(jobs[1], "error")
    <3>1. ThreadTook("error")
      BY <1>t, <2>2
    <3> QED
      BY <1>0, <2>0, <3>1, Works
  <2> QED
    BY <1>3, <2>1, <2>2 DEF Execute
<1>4. ASSUME Commit(jobs[1])
      PROVE  CoreInv' /\ UNCHANGED plan
  <2>0. jobs[1].do = "commit" /\ UNCHANGED <<working, plan>> /\ Changes(jobs[1])
    BY <1>4 DEF Commit, Changes
  <2>1. CASE /\ store' = working /\ story' = story \o inside /\ inside' = <<>>
             /\ Answer(jobs[1], "ok")
    <3>1. ThreadTook("ok")
      BY <1>t, <2>1
    <3> QED
      BY <1>0, <2>0, <2>1, <3>1, Commits
  <2>2. CASE Answer(jobs[1], "error") /\ UNCHANGED <<store, story>>
    <3>1. ThreadTook("error")
      BY <1>t, <2>2
    <3> QED
      BY <1>0, <2>0, <2>2, <3>1, Works
  <2> QED
    BY <1>4, <2>1, <2>2 DEF Commit
<1>5. ASSUME Rollback(jobs[1])
      PROVE  CoreInv' /\ UNCHANGED plan
  <2>1. /\ jobs[1].do = "rollback" /\ UNCHANGED <<store, story, plan>>
        /\ working' = store /\ inside' = <<>> /\ Answer(jobs[1], "ok")
    BY <1>5 DEF Rollback
  <2>2. ThreadTook("ok")
    BY <1>t, <2>1
  <2> QED
    BY <1>0, <2>1, <2>2, RollsBack
<1>6. ASSUME Read(jobs[1])
      PROVE  /\ CoreInv' /\ DOMAIN plan' = Tasks
             /\ PlanAllows(jobs[1].task, plan'[jobs[1].task], pc'[jobs[1].task])
             /\ \A u \in Tasks \ {jobs[1].task} : plan'[u] = plan[u]
  <2> DEFINE t == jobs[1].task
             p == plan[t]
  <2>1. /\ jobs[1].do \in {"history", "tokens"} /\ Answer(jobs[1], "ok")
        /\ UNCHANGED <<store, story, working, inside>>
        /\ \/ plan' = plan
           \/ plan' = [plan EXCEPT ![t].list = working[p.fork].messages]
           \/ plan' = [plan EXCEPT ![t].tokens = working[p.session].tokens]
    BY <1>6 DEF Read, databaseVars
  <2>2. ThreadTook("ok") /\ ~Writes(jobs[1])
    BY <1>t, <2>1 DEF Writes
  <2>3. CoreInv'
    BY <1>0, <2>1, <2>2, Reads
  <2>4. /\ t \in Tasks /\ PlanAllows(t, p, pc'[t]) /\ DOMAIN plan = Tasks
        /\ p = [stage |-> p.stage, session |-> p.session, fork |-> p.fork, list |-> p.list,
                tokens |-> p.tokens]
    BY <1>0, <1>1 DEF PlanOK, PlanAllows
  <2>5. /\ DOMAIN plan' = Tasks /\ \A u \in Tasks \ {t} : plan'[u] = plan[u]
        /\ \/ plan'[t] = p
           \/ \E list : plan'[t] = [p EXCEPT !.list = list]
           \/ \E tokens : plan'[t] = [p EXCEPT !.tokens = tokens]
    BY <2>1, <2>4
  <2> HIDE DEF t, p
  <2>6. PlanAllows(t, plan'[t], pc'[t])
    <3>1. PICK list, tokens :
            plan'[t] = [stage |-> p.stage, session |-> p.session, fork |-> p.fork,
                        list |-> list, tokens |-> tokens]
      BY <2>4, <2>5
    <3> QED
      BY <2>4, <3>1 DEF PlanAllows
  <2> QED
    BY <2>3, <2>5, <2>6 DEF t
<1>7. CASE UNCHANGED plan /\ CoreInv'
  <2>1. PlanOK'
    BY <1>0, <1>7 DEF PlanOK
  <2> QED
    BY <1>7, <2>1 DEF StoreInv
<1>8. CASE Read(jobs[1])
  <2>1. PlanOK'
    BY <1>0, <1>1, <1>6, <1>8, PlanMoves
  <2> QED
    BY <1>6, <1>8, <2>1 DEF StoreInv
<1> QED
  BY <1>2, <1>3, <1>4, <1>5, <1>7, <1>8

-----------------------------------------------------------------------------
(* The theorems.                                                           *)

\* A process that starts has no calls, and the sessions of the database.
LEMMA Starts ==
  ASSUME Init
  PROVE  StoreInv
<1> USE DEF Init
<1>1. TypesOK
  BY DEF TypesOK, Places
<1>2. LockOK
  BY DEF LockOK, WaitersOK, Owners, Waiter
<1>3. QueueOK(jobs) /\ LiveOK
  <2>1. jobs = <<>> /\ jobs \in Seq(JobSet) /\ Len(jobs) = 0 /\ 1..Len(jobs) = {}
    OBVIOUS
  <2> QED
    BY <2>1 DEF QueueOK, LiveOK
<1>4. WaitOK
  BY DEF WaitOK
<1>5. ToSet(story) = {} /\ Len(called) = 0 /\ 1..Len(called) = {} /\ Len(jobs) = 0
  BY DEF ToSet
<1>6. CallsOK
  <2>1. called \in Seq(ToSet(called)) /\ story \in Seq(1..Len(called))
    BY ShortList
  <2> QED
    BY <1>5, <2>1 DEF CallsOK
<1>7. OpenOK
  BY <1>5 DEF OpenOK, Open
<1>8. SessionsOK
  <2>1. \A s \in Sessions \ Used : store[s].messages = <<>>
    BY BeforeAssumption DEF Used
  <2> QED
    BY <2>1, BeforeAssumption DEF SessionsOK
<1>9. FoundOK
  BY <1>5 DEF FoundOK, Clean
<1>a. PlanOK
  <2>1. \A t \in Tasks : plan[t] = NoPlan /\ pc[t] # "reading"
    OBVIOUS
  <2> QED
    BY <2>1, NoPlanAllows DEF PlanOK
<1> QED
  BY <1>1, <1>2, <1>3, <1>4, <1>6, <1>7, <1>8, <1>9, <1>a DEF StoreInv, CoreInv

\* Whatever happens next.
LEMMA Keeps ==
  ASSUME StoreInv, [Next]_vars
  PROVE  StoreInv'
<1>1. ASSUME NEW t \in Tasks, UserStep(t)
      PROVE  StoreInv'
  BY <1>1, UserSteps
<1>2. ASSUME NEW t \in Tasks, CallStep(t)
      PROVE  StoreInv'
  BY <1>2, AcquiredSteps, StatementDoneSteps, StepsAsideSteps, UndoSteps DEF CallStep
<1>3. ASSUME NEW t \in Tasks, CompactionStep(t)
      PROVE  StoreInv'
  BY <1>3, CompactionCalls, StartReadSteps, StepsAsideSteps, PlanSteps DEF CompactionStep
<1>4. ASSUME NEW t \in Tasks, Cancel(t)
      PROVE  StoreInv'
  BY <1>4, PlanSteps
<1>5. CASE UNCHANGED vars
  <2>0. CoreInv /\ PlanOK /\ TypesOK
    BY DEF StoreInv, CoreInv
  <2>1. TypesOK'
    BY <1>5, <2>0 DEF vars, TypesOK
  <2>2. CoreInv'
    BY <1>5, <2>0, <2>1, StillCore DEF vars
  <2>3. PlanOK'
    BY <1>5, <2>0 DEF vars, PlanOK
  <2> QED
    BY <2>2, <2>3 DEF StoreInv
<1> QED
  BY <1>1, <1>2, <1>3, <1>4, <1>5, ThreadSteps, CrashSteps DEF Next

\* The invariant: at every moment the connection's transaction holds what one
\* call has done so far, its commit finds the whole call, and what a call that
\* was cut short has left behind is rolled back before anybody else's statement
\* is executed (store.py:177-185, aiosqlite's queue).
THEOREM SqliteStoreInvariant == Spec => []StoreInv
<1>1. Init => StoreInv
  BY Starts
<1>2. StoreInv /\ [Next]_vars => StoreInv'
  BY Keeps
<1> QED
  BY <1>1, <1>2, PTL DEF Spec

\* The lock has one owner exactly while it is held, and every waiter waits for
\* that owner, however many tasks share the connection (store.py:44-49).
THEOREM LockHasAnOwner == Spec => []LockIsNeverLost
<1>1. StoreInv => LockIsNeverLost
  <2>1. SUFFICES ASSUME LockOK PROVE LockIsNeverLost
    BY DEF StoreInv, CoreInv
  <2>2. DOMAIN lock.waiters = 1..Len(lock.waiters)
    BY <2>1, LockTyped
  <2> QED
    BY <2>1, <2>2 DEF LockOK, WaitersOK, LockIsNeverLost
<1> QED
  BY <1>1, SqliteStoreInvariant, PTL

\* A call that has returned took effect, and one that raised an error of the
\* database did not (store.py:177-185).
THEOREM AnswersAreKept == Spec => []AnswersAreTrue
<1>1. StoreInv => AnswersAreTrue
  BY DEF StoreInv, CoreInv, CallsOK, AnswersAreTrue
<1> QED
  BY <1>1, SqliteStoreInvariant, PTL

\* A task that enters the store has made one call more.
LEMMA EntersAsks ==
  ASSUME CallsOK, NEW t \in Tasks, NEW c, Enter(t, c)
  PROVE  Ledger!Ask
<1>1. called' = Append(called, c) /\ UNCHANGED <<store, story>>
  BY DEF Enter, databaseVars
<1>2. called \in Seq(ToSet(called))
  BY DEF CallsOK
<1>3. /\ Len(called') = Len(called) + 1 /\ Len(called) \in Nat
      /\ \A n \in 1..Len(called) : called'[n] = called[n]
      /\ called' \in Seq(ToSet(called'))
  BY <1>1, <1>2, OneMore
<1>4. SubSeq(called', 1, Len(called)) = SubSeq(called, 1, Len(called))
  <2>1. /\ SubSeq(called, 1, Len(called)) = [i \in 1..Len(called) |-> called[i]]
        /\ SubSeq(called', 1, Len(called)) = [i \in 1..Len(called) |-> called'[i]]
    BY <1>2, <1>3
  <2> QED
    BY <1>3, <2>1
<1>5. Ledger!IsPrefix(called, called')
  BY <1>3, <1>4 DEF Ledger!IsPrefix
<1> QED
  BY <1>1, <1>3, <1>5 DEF Ledger!Ask

\* A commit lets one call take effect, as a whole and for the first time.
LEMMA CommitTakesEffect ==
  ASSUME CoreInv, Thread
  PROVE  UNCHANGED <<store, called, story>> \/ Ledger!TakeEffect
<1>0. /\ QueueOK(jobs)
      /\ jobs # <<>> /\ jobs' = Tail(jobs)
      /\ UNCHANGED <<returned, failed, called, lock, pc, mine, at, cancelled>>
  BY DEF CoreInv, Thread, answerVars
<1>1. Head(jobs) = jobs[1]
  BY <1>0, AfterHead
<1>2. CASE Execute(jobs[1]) \/ Rollback(jobs[1]) \/ Read(jobs[1])
  BY <1>0, <1>2 DEF Execute, Rollback, Read, databaseVars
<1>3. CASE Commit(jobs[1])
  <2>1. jobs[1].do = "commit" /\ UNCHANGED working
    BY <1>3 DEF Commit
  <2>2. CASE /\ store' = working /\ story' = story \o inside /\ inside' = <<>>
             /\ Answer(jobs[1], "ok")
    <3>1. ThreadTook("ok")
      BY <1>0, <1>1, <2>2 DEF ThreadTook
    <3>2. /\ jobs[1].call \in DOMAIN called \ ToSet(story)
          /\ store' = Ledger!Effect(called[jobs[1].call], store)
          /\ story' = Append(story, jobs[1].call)
      BY <2>1, <2>2, <3>1, Commits
    <3>3. Ledger!ToSet(story) = ToSet(story)
      BY DEF ToSet, Ledger!ToSet
    <3> QED
      BY <1>0, <3>2, <3>3 DEF Ledger!TakeEffect
  <2>3. CASE UNCHANGED <<store, story>>
    BY <1>0, <2>3
  <2> QED
    BY <1>3, <2>2, <2>3 DEF Commit
<1> QED
  BY <1>1, <1>2, <1>3 DEF Thread

\* Of the ledger, a step changes nothing, makes a call, or lets one take effect.
LEMMA LedgerStep ==
  ASSUME StoreInv, [Next]_vars
  PROVE  UNCHANGED <<store, called, story>> \/ Ledger!Ask \/ Ledger!TakeEffect
<1>0. CoreInv /\ CallsOK
  BY DEF StoreInv, CoreInv
<1>1. ASSUME NEW t \in Tasks, UserStep(t)
      PROVE  Ledger!Ask
  BY <1>0, <1>1, EntersAsks
     DEF UserStep, AppendOne, AppendMany, Clear, Fork, SetContextTokens, AddContextTokens, Makes
<1>2. ASSUME NEW t \in Tasks, CallStep(t) \/ Cancel(t)
      PROVE  UNCHANGED <<store, called, story>>
  BY <1>2 DEF CallStep, Acquired, CancelledWaiting, CancelledGranted, StatementDone, Returns,
              Undo, Raises, Cancel, databaseVars
<1>3. ASSUME NEW t \in Tasks, CompactionStep(t)
      PROVE  UNCHANGED <<store, called, story>> \/ Ledger!Ask
  <2>1. CASE TakeSnapshot(t) \/ ClearForRewrite(t) \/ WriteNext(t) \/ RestoreTokens(t)
    BY <1>0, <2>1, EntersAsks DEF TakeSnapshot, ClearForRewrite, WriteNext, RestoreTokens
  <2>2. CASE \/ StartRead(t) \/ EndRead(t) \/ Summarised(t) \/ NotSummarised(t)
             \/ Interrupted(t)
    BY <2>2 DEF StartRead, EndRead, Summarised, NotSummarised, Interrupted, databaseVars
  <2> QED
    BY <1>3, <2>1, <2>2 DEF CompactionStep
<1>4. ASSUME Crash
      PROVE  UNCHANGED <<store, called, story>>
  BY <1>4 DEF Crash
<1>5. CASE UNCHANGED vars
  BY <1>5 DEF vars
<1> QED
  BY <1>0, <1>1, <1>2, <1>3, <1>4, <1>5, CommitTakesEffect DEF Next

\* The store keeps the ledger: whatever is cancelled, fails or crashes, and
\* however the tasks interleave, what is committed is changed by one whole call
\* at a time, and by none twice (store.py:177-185).
THEOREM StoreKeepsLedger == Spec => KeepsLedger
<1>1. Init => Ledger!Init
  BY DEF Init, Ledger!Init
<1>2. StoreInv /\ [Next]_vars => [Ledger!Next]_<<store, called, story>>
  BY LedgerStep DEF Ledger!Next
<1> QED
  BY <1>1, <1>2, SqliteStoreInvariant, PTL DEF Spec, KeepsLedger, Ledger!Spec

-----------------------------------------------------------------------------
(* What rows stand for.                                                    *)

\* f has the flattened beginnings of a sequence of sequences.
Flattened(f, ss) ==
  f = [i \in 1..Len(ss) |-> IF i = 1 THEN ss[i] ELSE f[i - 1] \o ss[i]]

\* The flattened beginnings of a sequence of sequences exist, ..
LEMMA FlattenedExists ==
  ASSUME NEW S, NEW ss \in Seq(S)
  PROVE  \E f : Flattened(f, ss)
<1> DEFINE Good(n, h) ==
             h = [i \in 1..n |-> IF i = 1 THEN ss[i] ELSE h[i - 1] \o ss[i]]
           T == {n \in Nat : \E h : Good(n, h)}
<1>1. 0 \in T
  <2>1. Good(0, [i \in 1..0 |-> <<>>])
    OBVIOUS
  <2> HIDE DEF Good
  <2> QED
    BY <2>1
<1>2. ASSUME NEW n \in Nat, n \in T PROVE n + 1 \in T
  <2>1. PICK h : Good(n, h)
    BY <1>2
  <2> DEFINE next == IF n = 0 THEN ss[1] ELSE h[n] \o ss[n + 1]
             g == [i \in 1..(n + 1) |-> IF i = n + 1 THEN next ELSE h[i]]
  <2>2. ASSUME NEW i \in 1..(n + 1)
        PROVE  g[i] = IF i = 1 THEN ss[i] ELSE g[i - 1] \o ss[i]
    <3>1. CASE i = n + 1
      <4>1. g[i] = next /\ (i # 1 => g[i - 1] = h[n])
        BY <3>1
      <4> QED
        BY <3>1, <4>1
    <3>2. CASE i # n + 1
      <4>1. i \in 1..n /\ g[i] = h[i] /\ (i # 1 => i - 1 \in 1..n /\ g[i - 1] = h[i - 1])
        BY <3>2
      <4>2. h[i] = IF i = 1 THEN ss[i] ELSE h[i - 1] \o ss[i]
        BY <2>1, <4>1
      <4> QED
        BY <4>1, <4>2
    <3> QED
      BY <3>1, <3>2
  <2>3. g = [i \in 1..(n + 1) |-> g[i]]
    OBVIOUS
  <2> HIDE DEF g
  <2>4. Good(n + 1, g)
    BY <2>2, <2>3
  <2> HIDE DEF Good
  <2> QED
    BY <2>4
<1> HIDE DEF T
<1>3. \A n \in Nat : n \in T
  BY <1>1, <1>2, Induction
<1>4. Len(ss) \in T
  BY <1>3
<1> QED
  BY <1>4 DEF T, Flattened

\* .. and the last of them is the flattened sequence.
LEMMA FlattenedIs ==
  ASSUME NEW S, NEW ss \in Seq(S)
  PROVE  \E f : Flattened(f, ss) /\ FlattenSeq(ss) = IF Len(ss) = 0 THEN ss ELSE f[Len(ss)]
<1> DEFINE c == CHOOSE h : h = [i \in 1..Len(ss) |->
                                  IF i = 1 THEN ss[i] ELSE h[i - 1] \o ss[i]]
<1>1. c = [i \in 1..Len(ss) |-> IF i = 1 THEN ss[i] ELSE c[i - 1] \o ss[i]]
  BY FlattenedExists, Zenon DEF Flattened
<1>2. FlattenSeq(ss) = IF Len(ss) = 0 THEN ss ELSE c[Len(ss)]
  BY Zenon DEF FlattenSeq
<1> HIDE DEF c
<1> QED
  BY <1>1, <1>2 DEF Flattened

\* A sequence of sequences is flattened one by one.
LEMMA FlattenUnfold ==
  ASSUME NEW S, NEW ss \in Seq(Seq(S)), NEW s \in Seq(S)
  PROVE  /\ FlattenSeq(Append(ss, s)) = FlattenSeq(ss) \o s
         /\ FlattenSeq(ss) \in Seq(S)
<1> DEFINE more == Append(ss, s)
<1>0. /\ more \in Seq(Seq(S)) /\ Len(more) = Len(ss) + 1 /\ Len(ss) \in Nat
      /\ \A i \in 1..Len(ss) : more[i] = ss[i] /\ ss[i] \in Seq(S)
      /\ more[Len(ss) + 1] = s
  OBVIOUS
<1> HIDE DEF more
<1>1. PICK f : /\ Flattened(f, ss)
               /\ FlattenSeq(ss) = IF Len(ss) = 0 THEN ss ELSE f[Len(ss)]
  BY FlattenedIs
<1>2. PICK g : /\ Flattened(g, more)
               /\ FlattenSeq(more) = IF Len(more) = 0 THEN more ELSE g[Len(more)]
  BY <1>0, FlattenedIs
<1> DEFINE T == {n \in Nat : n + 1 <= Len(ss) => f[n + 1] = g[n + 1] /\ f[n + 1] \in Seq(S)}
<1>3. 0 \in T
  <2> SUFFICES ASSUME 1 <= Len(ss) PROVE f[1] = g[1] /\ f[1] \in Seq(S)
    OBVIOUS
  <2>1. 1 \in 1..Len(ss) /\ 1 \in 1..Len(more)
    BY <1>0
  <2>2. f[1] = ss[1] /\ g[1] = more[1]
    BY <1>1, <1>2, <2>1 DEF Flattened
  <2> QED
    BY <1>0, <2>1, <2>2
<1>4. ASSUME NEW n \in Nat, n \in T PROVE n + 1 \in T
  <2> DEFINE k == (n + 1) + 1
  <2> SUFFICES ASSUME k <= Len(ss) PROVE f[k] = g[k] /\ f[k] \in Seq(S)
    OBVIOUS
  <2>0. k \in 1..Len(ss) /\ k \in 1..Len(more) /\ k # 1 /\ k - 1 = n + 1
    BY <1>0
  <2>1. f[n + 1] = g[n + 1] /\ f[n + 1] \in Seq(S) /\ more[k] = ss[k] /\ ss[k] \in Seq(S)
    BY <1>0, <1>4, <2>0
  <2> HIDE DEF k
  <2>2. f[k] = f[n + 1] \o ss[k] /\ g[k] = g[n + 1] \o more[k]
    BY <1>1, <1>2, <2>0 DEF Flattened
  <2> QED
    BY <2>1, <2>2
<1> HIDE DEF T
<1>5. \A n \in Nat : n \in T
  BY <1>3, <1>4, Induction
<1>6. CASE Len(ss) = 0
  <2>1. 1 \in 1..Len(more) /\ Len(more) = 1 /\ ss = <<>> /\ more[1] = s
    BY <1>0, <1>6
  <2>2. g[1] = more[1]
    BY <1>2, <2>1 DEF Flattened
  <2>3. FlattenSeq(ss) = <<>> /\ FlattenSeq(more) = s
    BY <1>1, <1>2, <1>6, <2>1, <2>2
  <2> QED
    BY <2>3 DEF more
<1>7. CASE Len(ss) # 0
  <2>1. Len(ss) - 1 \in Nat /\ (Len(ss) - 1) + 1 = Len(ss)
    BY <1>0, <1>7
  <2>2. f[Len(ss)] = g[Len(ss)] /\ f[Len(ss)] \in Seq(S)
    <3>1. Len(ss) - 1 \in T
      BY <1>5, <2>1
    <3>2. (Len(ss) - 1) + 1 <= Len(ss)
      BY <1>0
    <3> QED
      BY <2>1, <3>1, <3>2 DEF T
  <2>3. Len(more) \in 1..Len(more) /\ Len(more) # 1 /\ Len(more) - 1 = Len(ss)
    BY <1>0, <1>7
  <2>4. g[Len(more)] = g[Len(ss)] \o s
    BY <1>0, <1>2, <2>3 DEF Flattened
  <2> QED
    BY <1>0, <1>1, <1>2, <1>7, <2>2, <2>4 DEF more
<1> QED
  BY <1>6, <1>7

\* What a row more stands for, when every row stands for a sequence of messages.
LEMMA StandsUnfold ==
  ASSUME NEW M, NEW S, \A m \in M : Original(m) \in Seq(S),
         NEW rows \in Seq(M), NEW m \in M
  PROVE  /\ StandsFor(Append(rows, m)) = StandsFor(rows) \o Original(m)
         /\ StandsFor(rows) \in Seq(S)
<1> DEFINE more == Append(rows, m)
           old == [i \in DOMAIN rows |-> Original(rows[i])]
           new == [i \in DOMAIN more |-> Original(more[i])]
<1>1. /\ more \in Seq(M) /\ Len(more) = Len(rows) + 1 /\ Len(rows) \in Nat
      /\ DOMAIN rows = 1..Len(rows) /\ DOMAIN more = 1..(Len(rows) + 1)
      /\ \A i \in 1..Len(rows) : more[i] = rows[i] /\ rows[i] \in M
      /\ more[Len(rows) + 1] = m
  OBVIOUS
<1> HIDE DEF more
<1>2. old \in Seq(Seq(S)) /\ Len(old) = Len(rows)
  BY <1>1
<1>3. /\ Append(old, Original(m)) \in Seq(Seq(S))
      /\ Len(Append(old, Original(m))) = Len(rows) + 1
      /\ \A i \in 1..Len(rows) : Append(old, Original(m))[i] = old[i]
      /\ Append(old, Original(m))[Len(rows) + 1] = Original(m)
  <2> HIDE DEF old
  <2> QED
    BY <1>1, <1>2
<1>4. new \in Seq(Seq(S)) /\ Len(new) = Len(rows) + 1
  BY <1>1
<1>5. ASSUME NEW i \in 1..(Len(rows) + 1) PROVE new[i] = Append(old, Original(m))[i]
  <2>1. CASE i \in 1..Len(rows)
    BY <1>1, <1>3, <2>1
  <2>2. CASE i = Len(rows) + 1
    BY <1>1, <1>3, <2>2
  <2> QED
    BY <1>1, <2>1, <2>2
<1> HIDE DEF old, new
<1>6. new = Append(old, Original(m))
  <2> DEFINE a == Append(old, Original(m))
  <2>1. a \in Seq(Seq(S)) /\ Len(a) = Len(new)
    BY <1>3, <1>4
  <2>2. \A i \in 1..Len(new) : new[i] = a[i]
    BY <1>4, <1>5
  <2> HIDE DEF a
  <2>3. new = a
    BY <1>4, <2>1, <2>2, SeqEqual
  <2> QED
    BY <2>3 DEF a
<1>7. FlattenSeq(new) = FlattenSeq(old) \o Original(m) /\ FlattenSeq(old) \in Seq(S)
  BY <1>2, <1>6, FlattenUnfold
<1> QED
  BY <1>7 DEF StandsFor, more, old, new

\* No rows stand for no messages.
LEMMA NothingStandsForNothing == StandsFor(<<>>) = <<>>
<1>1. [i \in DOMAIN <<>> |-> Original(<<>>[i])] = <<>>
  OBVIOUS
<1>2. FlattenSeq(<<>>) = <<>>
  BY DEF FlattenSeq
<1> QED
  BY <1>1, <1>2, Zenon DEF StandsFor

\* A message more behind the second of two sequences.
Joins(s, t, m) == Append(s \o t, m) = s \o Append(t, m)

\* It goes behind both.
LEMMA JoinsOne ==
  \A S : \A s, t \in Seq(S) : \A m \in S : Joins(s, t, m)
  BY DEF Joins

\* Plain messages stand for themselves.
LEMMA PlainStands ==
  ASSUME NEW M, NEW S, M \subseteq S, \A m \in M : Original(m) \in Seq(S),
         NEW rows \in Seq(M), NEW more \in Seq(M), Plain(more)
  PROVE  StandsFor(rows \o more) = StandsFor(rows) \o more
<1> DEFINE part(n) == SubSeq(more, 1, n)
           T == {n \in Nat : n <= Len(more) =>
                   StandsFor(rows \o part(n)) = StandsFor(rows) \o part(n)}
<1>0. /\ Len(more) \in Nat /\ DOMAIN more = 1..Len(more)
      /\ \A i \in 1..Len(more) : more[i] \in M /\ Original(more[i]) = <<more[i]>>
  BY DEF Plain, Original
<1>s. StandsFor(rows) \in Seq(S)
  <2>1. CASE M = {}
    <3>1. rows = <<>> /\ <<>> \in Seq(S)
      BY <2>1
    <3> QED
      BY <3>1, NothingStandsForNothing, Zenon
  <2>2. CASE M # {}
    BY <2>2, StandsUnfold
  <2> QED
    BY <2>1, <2>2
<1>1. 0 \in T
  <2>1. part(0) = <<>> /\ rows \o <<>> = rows
    BY ConcatEmptySeq
  <2>2. StandsFor(rows) \o <<>> = StandsFor(rows)
    BY <1>s, ConcatEmptySeq
  <2> QED
    BY <2>1, <2>2
<1>2. ASSUME NEW n \in Nat, n \in T PROVE n + 1 \in T
  <2> SUFFICES ASSUME n + 1 <= Len(more)
               PROVE  StandsFor(rows \o part(n + 1)) = StandsFor(rows) \o part(n + 1)
    OBVIOUS
  <2> DEFINE m == more[n + 1]
             p == part(n)
             q == part(n + 1)
  <2>1. m \in M /\ m \in S /\ Original(m) = <<m>>
    BY <1>0
  <2>2. p \in Seq(M) /\ p \in Seq(S) /\ q = Append(p, m)
    <3>1. p \in Seq(M) /\ q \in Seq(M) /\ Len(p) = n /\ Len(q) = n + 1
          /\ (\A i \in 1..n : p[i] = more[i]) /\ (\A i \in 1..(n + 1) : q[i] = more[i])
      BY <1>0
    <3> HIDE DEF p, q
    <3>2. Append(p, m) \in Seq(M) /\ Len(Append(p, m)) = n + 1
          /\ (\A i \in 1..n : Append(p, m)[i] = p[i]) /\ Append(p, m)[n + 1] = m
      BY <2>1, <3>1
    <3>3. \A i \in 1..(n + 1) : q[i] = Append(p, m)[i]
      <4>1. \A i \in 1..(n + 1) : i \in 1..n \/ i = n + 1
        OBVIOUS
      <4> HIDE DEF m
      <4> QED
        BY <3>1, <3>2, <4>1 DEF m
    <3>4. q = Append(p, m)
      <4> DEFINE a == Append(p, m)
      <4>1. a \in Seq(M) /\ Len(a) = Len(q) /\ \A i \in 1..Len(q) : q[i] = a[i]
        BY <3>1, <3>2, <3>3
      <4> HIDE DEF a
      <4>2. q = a
        BY <3>1, <4>1, SeqEqual
      <4> QED
        BY <4>2 DEF a
    <3> QED
      BY <3>1, <3>4, SeqMonotonic
  <2>3. StandsFor(rows \o p) = StandsFor(rows) \o p
    BY <1>2
  <2> HIDE DEF m, p, q
  <2>4. rows \o q = Append(rows \o p, m) /\ rows \o p \in Seq(M)
    <3>1. Joins(rows, p, m)
      BY <2>1, <2>2, JoinsOne, Zenon
    <3>2. rows \o p \in Seq(M)
      BY <2>2, ConcatProperties, Zenon
    <3> QED
      BY <2>2, <3>1, <3>2, Zenon DEF Joins
  <2>5. StandsFor(rows \o q) = StandsFor(rows \o p) \o Original(m)
    BY <2>1, <2>4, StandsUnfold
  <2>6. StandsFor(rows) \o q = Append(StandsFor(rows) \o p, m)
    <3>1. Joins(StandsFor(rows), p, m)
      BY <1>s, <2>1, <2>2, JoinsOne, Zenon
    <3> QED
      BY <2>2, <3>1, Zenon DEF Joins
  <2>7. StandsFor(rows \o q) = StandsFor(rows) \o q
    <3>1. \A x \in Seq(S) : x \o <<m>> = Append(x, m)
      BY <2>1
    <3>2. StandsFor(rows) \o p \in Seq(S)
      BY <1>s, <2>2
    <3> QED
      BY <2>1, <2>3, <2>5, <2>6, <3>1, <3>2
  <2> QED
    BY <2>7 DEF q
<1> HIDE DEF T
<1>3. \A n \in Nat : n \in T
  BY <1>1, <1>2, Induction
<1>4. StandsFor(rows \o part(Len(more))) = StandsFor(rows) \o part(Len(more))
  BY <1>0, <1>3 DEF T
<1>5. part(Len(more)) = more
  OBVIOUS
<1> QED
  BY <1>4, <1>5

-----------------------------------------------------------------------------
(* The accounts.                                                           *)

\* f has the accounts after each beginning of the calls.
Recounts(f, calls) ==
  f = [n \in 0..Len(calls) |-> IF n = 0 THEN AtStart ELSE Tell(f[n - 1], calls[n])]

\* The accounts after each beginning of a sequence of calls exist, ..
LEMMA RecountExists ==
  ASSUME NEW S, NEW calls \in Seq(S)
  PROVE  \E f : Recounts(f, calls)
<1> DEFINE Good(n, h) ==
             h = [i \in 0..n |-> IF i = 0 THEN AtStart ELSE Tell(h[i - 1], calls[i])]
           T == {n \in Nat : \E h : Good(n, h)}
<1>1. 0 \in T
  <2>1. Good(0, [i \in 0..0 |-> AtStart])
    OBVIOUS
  <2> HIDE DEF Good
  <2> QED
    BY <2>1
<1>2. ASSUME NEW n \in Nat, n \in T PROVE n + 1 \in T
  <2>1. PICK h : Good(n, h)
    BY <1>2
  <2> DEFINE g == [i \in 0..(n + 1) |-> IF i = n + 1 THEN Tell(h[n], calls[n + 1]) ELSE h[i]]
  <2>2. ASSUME NEW i \in 0..(n + 1)
        PROVE  g[i] = IF i = 0 THEN AtStart ELSE Tell(g[i - 1], calls[i])
    <3>1. CASE i = n + 1
      <4>1. g[i] = Tell(h[n], calls[n + 1]) /\ g[i - 1] = h[n] /\ i # 0
        BY <3>1
      <4> QED
        BY <3>1, <4>1
    <3>2. CASE i # n + 1
      <4>1. i \in 0..n /\ g[i] = h[i] /\ (i # 0 => i - 1 \in 0..n /\ g[i - 1] = h[i - 1])
        BY <3>2
      <4>2. h[i] = IF i = 0 THEN AtStart ELSE Tell(h[i - 1], calls[i])
        BY <2>1, <4>1
      <4> QED
        BY <4>1, <4>2
    <3> QED
      BY <3>1, <3>2
  <2>3. DOMAIN g = 0..(n + 1) /\ g = [i \in 0..(n + 1) |-> g[i]]
    OBVIOUS
  <2> HIDE DEF g
  <2>4. Good(n + 1, g)
    BY <2>2, <2>3
  <2> HIDE DEF Good
  <2> QED
    BY <2>4
<1> HIDE DEF T
<1>3. \A n \in Nat : n \in T
  BY <1>1, <1>2, Induction
<1>4. Len(calls) \in T
  BY <1>3
<1> QED
  BY <1>4 DEF T, Recounts

\* .. and the last of them are the accounts.
LEMMA AccountsAre ==
  ASSUME NEW S, NEW calls \in Seq(S)
  PROVE  \E f : Recounts(f, calls) /\ AccountsOf(calls) = f[Len(calls)]
<1> DEFINE c == CHOOSE h : h = [n \in 0..Len(calls) |->
                                  IF n = 0 THEN AtStart ELSE Tell(h[n - 1], calls[n])]
<1>1. c = [n \in 0..Len(calls) |-> IF n = 0 THEN AtStart ELSE Tell(c[n - 1], calls[n])]
  BY RecountExists, Zenon DEF Recounts
<1>2. AccountsOf(calls) = c[Len(calls)]
  BY Zenon DEF AccountsOf
<1> HIDE DEF c
<1> QED
  BY <1>1, <1>2 DEF Recounts

\* One more call is told to the accounts there were.
LEMMA AccountsUnfold ==
  ASSUME NEW S, NEW calls \in Seq(S), NEW c \in S
  PROVE  AccountsOf(Append(calls, c)) = Tell(AccountsOf(calls), c)
<1> DEFINE more == Append(calls, c)
<1>0. /\ more \in Seq(S) /\ Len(more) = Len(calls) + 1 /\ Len(calls) \in Nat
      /\ \A i \in 1..Len(calls) : more[i] = calls[i]
      /\ more[Len(calls) + 1] = c
  OBVIOUS
<1> HIDE DEF more
<1>1. PICK f : Recounts(f, calls) /\ AccountsOf(calls) = f[Len(calls)]
  BY AccountsAre
<1>2. PICK g : Recounts(g, more) /\ AccountsOf(more) = g[Len(more)]
  BY <1>0, AccountsAre
<1> DEFINE T == {n \in Nat : n <= Len(calls) => f[n] = g[n]}
<1>3. 0 \in T
  BY <1>0, <1>1, <1>2 DEF Recounts
<1>4. ASSUME NEW n \in Nat, n \in T PROVE n + 1 \in T
  <2> SUFFICES ASSUME n + 1 <= Len(calls) PROVE f[n + 1] = g[n + 1]
    OBVIOUS
  <2>1. f[n] = g[n] /\ more[n + 1] = calls[n + 1]
    BY <1>0, <1>4
  <2>2. f[n + 1] = Tell(f[n], calls[n + 1]) /\ g[n + 1] = Tell(g[n], more[n + 1])
    <3>1. n + 1 \in 0..Len(calls) /\ n + 1 \in 0..Len(more) /\ n + 1 # 0 /\ (n + 1) - 1 = n
      BY <1>0
    <3> QED
      BY <1>1, <1>2, <3>1 DEF Recounts
  <2> QED
    BY <2>1, <2>2
<1> HIDE DEF T
<1>5. \A n \in Nat : n \in T
  BY <1>3, <1>4, Induction
<1>6. f[Len(calls)] = g[Len(calls)]
  BY <1>0, <1>5 DEF T
<1>7. g[Len(more)] = Tell(g[Len(calls)], c)
  <2>1. Len(more) \in 0..Len(more) /\ Len(more) # 0 /\ Len(more) - 1 = Len(calls)
    BY <1>0
  <2> QED
    BY <1>0, <1>2, <2>1 DEF Recounts
<1> QED
  BY <1>1, <1>2, <1>6, <1>7 DEF more

\* Before the first call.
LEMMA AccountsStart == AccountsOf(<<>>) = AtStart
<1>1. <<>> \in Seq({}) /\ Len(<<>>) = 0
  OBVIOUS
<1>2. PICK f : Recounts(f, <<>>) /\ AccountsOf(<<>>) = f[Len(<<>>)]
  BY <1>1, AccountsAre
<1> QED
  BY <1>1, <1>2 DEF Recounts

-----------------------------------------------------------------------------
(* What a compaction makes of a history.                                   *)

\* f has the boundary that each split of a history leads to.
Walks(f, history) ==
  f = [split \in 0..Len(history) |->
         IF split > 0 /\ history[split + 1].kind = "result" THEN f[split - 1] ELSE split]

\* The walk to the boundary exists.
LEMMA WalkExists ==
  ASSUME NEW S, NEW history \in Seq(S)
  PROVE  \E f : Walks(f, history)
<1> DEFINE Good(n, h) ==
             h = [split \in 0..n |->
                    IF split > 0 /\ history[split + 1].kind = "result"
                    THEN h[split - 1] ELSE split]
           T == {n \in Nat : \E h : Good(n, h)}
<1>1. 0 \in T
  <2>1. Good(0, [split \in 0..0 |-> 0])
    OBVIOUS
  <2> HIDE DEF Good
  <2> QED
    BY <2>1
<1>2. ASSUME NEW n \in Nat, n \in T PROVE n + 1 \in T
  <2>1. PICK h : Good(n, h)
    BY <1>2
  <2> DEFINE next == IF history[(n + 1) + 1].kind = "result" THEN h[n] ELSE n + 1
             g == [i \in 0..(n + 1) |-> IF i = n + 1 THEN next ELSE h[i]]
  <2>2. ASSUME NEW i \in 0..(n + 1)
        PROVE  g[i] = IF i > 0 /\ history[i + 1].kind = "result" THEN g[i - 1] ELSE i
    <3>1. CASE i = n + 1
      <4>1. g[i] = next /\ g[i - 1] = h[n] /\ i > 0
        BY <3>1
      <4> QED
        BY <3>1, <4>1
    <3>2. CASE i # n + 1
      <4>1. i \in 0..n /\ g[i] = h[i] /\ (i > 0 => i - 1 \in 0..n /\ g[i - 1] = h[i - 1])
        BY <3>2
      <4>2. h[i] = IF i > 0 /\ history[i + 1].kind = "result" THEN h[i - 1] ELSE i
        BY <2>1, <4>1
      <4> QED
        BY <4>1, <4>2
    <3> QED
      BY <3>1, <3>2
  <2>3. g = [i \in 0..(n + 1) |-> g[i]]
    OBVIOUS
  <2> HIDE DEF g
  <2>4. Good(n + 1, g)
    BY <2>2, <2>3
  <2> HIDE DEF Good
  <2> QED
    BY <2>4
<1> HIDE DEF T
<1>3. \A n \in Nat : n \in T
  BY <1>1, <1>2, Induction
<1>4. Len(history) \in T
  BY <1>3
<1> QED
  BY <1>4 DEF T, Walks

\* A boundary inside the history has no result right behind it.
LEMMA BoundaryIsSafe ==
  ASSUME NEW S, NEW history \in Seq(S), ~TooShort(history, KeepRecent)
  PROVE  /\ SafeBoundary(history, KeepRecent) \in 1..(Len(history) - 1)
         /\ history[SafeBoundary(history, KeepRecent) + 1].kind # "result"
<1> DEFINE wanted == Len(history) - KeepRecent
           c == CHOOSE h : h = [split \in 0..Len(history) |->
                  IF split > 0 /\ history[split + 1].kind = "result" THEN h[split - 1] ELSE split]
           boundary == SafeBoundary(history, KeepRecent)
<1>1. c = [split \in 0..Len(history) |->
             IF split > 0 /\ history[split + 1].kind = "result" THEN c[split - 1] ELSE split]
  BY WalkExists, Zenon DEF Walks
<1>2. boundary = IF wanted > 0 THEN c[wanted] ELSE wanted
  BY Zenon DEF SafeBoundary
<1>0. Len(history) \in Nat /\ wanted \in Int /\ wanted < Len(history)
  BY StoreAssumptions
<1>3. ~(boundary <= 0)
  BY DEF TooShort
<1> HIDE DEF c, wanted, boundary
<1> DEFINE Fine(b) == b \in 0..(Len(history) - 1) /\ (b > 0 => history[b + 1].kind # "result")
           T == {n \in Nat : n < Len(history) => Fine(c[n])}
<1>4. 0 \in T
  <2>1. c[0] = 0
    BY <1>0, <1>1
  <2> QED
    BY <1>0, <2>1
<1>5. ASSUME NEW n \in Nat, n \in T PROVE n + 1 \in T
  <2> SUFFICES ASSUME n + 1 < Len(history) PROVE Fine(c[n + 1])
    OBVIOUS
  <2>1. Fine(c[n])
    BY <1>0, <1>5
  <2> HIDE DEF Fine
  <2>2. c[n + 1] = IF history[(n + 1) + 1].kind = "result" THEN c[n] ELSE n + 1
    <3>1. n + 1 \in 0..Len(history) /\ n + 1 > 0 /\ (n + 1) - 1 = n
      BY <1>0
    <3> QED
      BY <1>1, <3>1
  <2>3. CASE history[(n + 1) + 1].kind = "result"
    BY <2>1, <2>2, <2>3
  <2>4. CASE history[(n + 1) + 1].kind # "result"
    <3>1. c[n + 1] = n + 1
      BY <2>2, <2>4
    <3>2. Fine(n + 1)
      BY <1>0, <2>4 DEF Fine
    <3> QED
      BY <3>1, <3>2
  <2> QED
    BY <2>3, <2>4
<1> HIDE DEF T
<1>6. \A n \in Nat : n \in T
  BY <1>4, <1>5, Induction
<1>7. wanted > 0
  BY <1>0, <1>2, <1>3
<1>8. Fine(boundary)
  BY <1>0, <1>2, <1>6, <1>7 DEF T
<1> QED
  BY <1>0, <1>3, <1>8 DEF boundary

\* What two sequences are, one behind the other.
JoinIs(s, t) ==
  /\ Len(s \o t) = Len(s) + Len(t)
  /\ \A i \in 1..Len(s) : (s \o t)[i] = s[i]
  /\ \A i \in 1..Len(t) : (s \o t)[Len(s) + i] = t[i]

\* So they are, and a sequence again.
LEMMA Joined ==
  \A S : \A s, t \in Seq(S) : s \o t \in Seq(S) /\ JoinIs(s, t)
  BY DEF JoinIs

\* The compacted list of a history without summaries stands for it, keeps its
\* results behind their calls, and is not empty.
LEMMA CompactedStands ==
  ASSUME NEW S, NEW history \in Seq(S), Plain(history), Paired(history),
         ~TooShort(history, KeepRecent)
  PROVE  LET list == Compacted(history, KeepRecent)
         IN /\ list \in Seq(ToSet(list)) /\ Len(list) > 0
            /\ StandsFor(list) = history
            /\ Paired(list)
            /\ \A i \in 1..Len(list) : Original(list[i]) \in Seq(S)
<1> DEFINE list == Compacted(history, KeepRecent)
           b == SafeBoundary(history, KeepRecent)
           L == Len(history)
           old == SubSeq(history, 1, b)
           recent == SubSeq(history, b + 1, L)
           front == <<Summary(old), Acknowledgement>>
           M == S \cup {Summary(old), Acknowledgement}
           P == {m \in M : Original(m) \in Seq(S)}
<1>1. b \in 1..(L - 1) /\ history[b + 1].kind # "result" /\ L \in Nat
  BY BoundaryIsSafe
<1>2. list = front \o recent
  BY DEF Compacted
<1> HIDE DEF b, L, list
<1>3. /\ old \in Seq(S) /\ Len(old) = b /\ \A i \in 1..b : old[i] = history[i]
      /\ recent \in Seq(S) /\ Len(recent) = L - b
      /\ \A i \in 1..(L - b) : recent[i] = history[b + i]
  BY <1>1 DEF L
<1>4. old \o recent = history
  <2>1. old \o recent \in Seq(S) /\ Len(old \o recent) = L
    <3>1. old \in Seq(S) /\ recent \in Seq(S) /\ Len(old) = b /\ Len(recent) = L - b
      BY <1>3
    <3> HIDE DEF old, recent
    <3>2. old \o recent \in Seq(S) /\ Len(old \o recent) = b + (L - b)
      BY <3>1
    <3> QED
      BY <1>1, <3>2
  <2>2. ASSUME NEW i \in 1..L PROVE (old \o recent)[i] = history[i]
    <3>1. CASE i <= b
      BY <1>1, <1>3, <3>1
    <3>2. CASE i > b
      <4>1. i - b \in 1..(L - b) /\ b + (i - b) = i
        BY <1>1, <3>2
      <4> HIDE DEF old, recent
      <4>2. (old \o recent)[i] = recent[i - b]
        BY <1>1, <1>3, <3>2
      <4> QED
        BY <1>3, <4>1, <4>2
    <3> QED
      BY <1>1, <3>1, <3>2
  <2> DEFINE j == old \o recent
  <2>3. j \in Seq(S) /\ Len(j) = L /\ \A i \in 1..L : j[i] = history[i]
    BY <2>1, <2>2
  <2> HIDE DEF j
  <2>4. j = history
    BY <2>3, SeqEqual DEF L
  <2> QED
    BY <2>4 DEF j
<1>5. /\ Summary(old).kind = "summary" /\ Acknowledgement.kind = "ack"
      /\ Original(Summary(old)) = old /\ Original(Acknowledgement) = <<>>
  BY DEF Summary, Acknowledgement, Original
<1> HIDE DEF old, recent
<1>6. \A i \in 1..(L - b) : recent[i] \in S /\ Original(recent[i]) = <<recent[i]>>
                            /\ recent[i].kind \notin {"summary", "ack"}
  <2> SUFFICES ASSUME NEW i \in 1..(L - b)
               PROVE  recent[i] \in S /\ Original(recent[i]) = <<recent[i]>>
                      /\ recent[i].kind \notin {"summary", "ack"}
    OBVIOUS
  <2>1. b + i \in DOMAIN history /\ recent[i] = history[b + i]
    BY <1>1, <1>3 DEF L
  <2> QED
    BY <2>1 DEF Plain, Original
<1>7. \A m \in P : Original(m) \in Seq(S)
  OBVIOUS
<1>8. Summary(old) \in P /\ Acknowledgement \in P
  BY <1>3, <1>5
<1>9. recent \in Seq(P)
  <2>1. ASSUME NEW i \in 1..Len(recent) PROVE recent[i] \in P
    <3>1. recent[i] \in S /\ Original(recent[i]) = <<recent[i]>>
      BY <1>1, <1>3, <1>6
    <3>2. \A x \in S : <<x>> \in Seq(S)
      OBVIOUS
    <3>3. Original(recent[i]) \in Seq(S)
      BY <3>1, <3>2, Zenon
    <3> QED
      BY <3>1, <3>3
  <2> HIDE DEF P
  <2> QED
    BY <1>3, <2>1
<1> HIDE DEF P, M
<1>a. StandsFor(front) = old
  <2>1. <<>> \in Seq(P) /\ <<Summary(old)>> \in Seq(P)
        /\ <<Summary(old)>> = Append(<<>>, Summary(old))
        /\ front = Append(<<Summary(old)>>, Acknowledgement)
    BY <1>8
  <2>2. StandsFor(<<Summary(old)>>) = <<>> \o old
    BY <1>5, <1>7, <1>8, <2>1, StandsUnfold, NothingStandsForNothing
  <2>3. StandsFor(front) = StandsFor(<<Summary(old)>>) \o <<>>
    BY <1>5, <1>7, <1>8, <2>1, StandsUnfold
  <2> QED
    BY <1>3, <2>2, <2>3, ConcatEmptySeq
<1>b. Plain(recent)
  BY <1>1, <1>3, <1>6 DEF Plain
<1>c. StandsFor(list) = history
  <2>1. front \in Seq(P)
    BY <1>8
  <2>2. StandsFor(front \o recent) = StandsFor(front) \o recent
    <3> DEFINE Q == P \cup S
    <3>1. P \subseteq Q /\ \A m \in P : Original(m) \in Seq(Q)
      <4>1. S \subseteq Q
        OBVIOUS
      <4> HIDE DEF Q
      <4>2. Seq(S) \subseteq Seq(Q)
        BY <4>1, SeqMonotonic
      <4> QED
        BY <1>7, <4>2 DEF Q
    <3> HIDE DEF Q
    <3> QED
      BY <1>9, <1>b, <2>1, <3>1, PlainStands
  <2> QED
    BY <1>2, <1>4, <1>a, <2>2
<1>d. /\ list \in Seq(P) /\ Len(list) = (L - b) + 2
      /\ list[1] = Summary(old) /\ list[2] = Acknowledgement
      /\ \A i \in 1..(L - b) : list[i + 2] = recent[i]
  <2>1. /\ front \in Seq(P) /\ Len(front) = 2
        /\ front[1] = Summary(old) /\ front[2] = Acknowledgement
    BY <1>8
  <2> HIDE DEF front
  <2>2. /\ front \o recent \in Seq(P) /\ Len(front \o recent) = 2 + (L - b)
        /\ (front \o recent)[1] = front[1] /\ (front \o recent)[2] = front[2]
        /\ \A i \in 1..(L - b) : (front \o recent)[i + 2] = recent[i]
    <3>1. front \o recent \in Seq(P) /\ JoinIs(front, recent)
      BY <1>9, <2>1, Joined, Zenon
    <3>2. /\ Len(front \o recent) = Len(front) + Len(recent)
          /\ \A i \in 1..Len(front) : (front \o recent)[i] = front[i]
          /\ \A i \in 1..Len(recent) : (front \o recent)[Len(front) + i] = recent[i]
      BY <3>1, Zenon DEF JoinIs
    <3> DEFINE j == front \o recent
    <3> HIDE DEF j
    <3>3. /\ Len(j) = Len(front) + Len(recent)
          /\ \A i \in 1..Len(front) : j[i] = front[i]
          /\ \A i \in 1..Len(recent) : j[Len(front) + i] = recent[i]
      BY <3>2, Zenon DEF j
    <3>4. /\ Len(j) = 2 + (L - b)
          /\ j[1] = front[1] /\ j[2] = front[2]
          /\ \A i \in 1..(L - b) : j[i + 2] = recent[i]
      BY <1>1, <1>3, <2>1, <3>3
    <3> QED
      BY <3>1, <3>4, Zenon DEF j
  <2> QED
    BY <1>1, <1>2, <2>1, <2>2
<1>e. ASSUME NEW i \in DOMAIN list, list[i].kind = "result"
      PROVE  i > 1 /\ list[i - 1].kind = "call" /\ list[i - 1].id = list[i].id
  <2>1. i \in 1..((L - b) + 2) /\ i # 1 /\ i # 2
    BY <1>5, <1>d, <1>e
  <2> DEFINE k == b + (i - 2)
  <2>2. i - 2 \in 1..(L - b) /\ list[i] = history[k] /\ k \in 1..L
    <3>1. i - 2 \in 1..(L - b) /\ (i - 2) + 2 = i /\ k \in 1..L
      BY <1>1, <2>1
    <3> QED
      BY <1>3, <1>d, <3>1
  <2>3. i - 2 # 1
    BY <1>1, <1>e, <2>2
  <2>4. i - 3 \in 1..(L - b) /\ list[i - 1] = history[k - 1]
    <3>1. i - 3 \in 1..(L - b) /\ (i - 3) + 2 = i - 1 /\ b + (i - 3) = k - 1
      <4>1. i \in Int /\ b \in Int /\ L \in Int
        BY <1>1, <2>1
      <4> QED
        BY <2>2, <2>3, <4>1
    <3>2. recent[i - 3] = history[k - 1]
      BY <1>3, <3>1
    <3>3. list[i - 1] = recent[i - 3]
      BY <1>d, <3>1
    <3> QED
      BY <3>1, <3>2, <3>3
  <2>5. k \in DOMAIN history /\ history[k].kind = "result"
    BY <1>e, <2>2 DEF L
  <2> QED
    BY <2>1, <2>2, <2>4, <2>5 DEF Paired
<1>f. list \in Seq(ToSet(list))
  BY <1>d, IsASequence
<1> QED
  BY <1>1, <1>7, <1>c, <1>d, <1>e, <1>f DEF Paired, list

-----------------------------------------------------------------------------
(* The compaction's calls and its plan.                                    *)

\* The calls that compactions make.
Own == {n \in 1..Len(called) : called[n].by = "compaction"}

\* Their snapshots.
Snapshots == {f \in Own : called[f].op = "fork"}

\* The writes of a compaction: the clear, and one message after another.
Rewrites == {n \in Own : called[n].op \in {"clear", "append"}}

\* The calls that are committed.
Stored == ToSet(story)

\* The history a compaction has copied, and the list it writes instead.
Kept(f) == store[called[f].to].messages
Text(f) == Compacted(Kept(f), KeepRecent)

\* What is known of the messages of calls.
SaidOK ==
  \A n \in 1..Len(called) :
    LET c == called[n]
    IN /\ c.by \in {"caller", "compaction"}
       /\ c.op = "append" /\ c.by = "caller" => Plain(c.messages) /\ Paired(c.messages)

\* A compaction's writes follow its snapshot, one after the other: it clears the
\* session when all of its list is to come, and what it writes when rest messages
\* are to come after it has its place in the list.  Each was called when
\* everything before it was stored.
RewriteOf(n, f) ==
  LET r == called[n].rest
  IN /\ called[n].op = "clear" => r = Len(Text(f))
     /\ called[n].op = "append" =>
          /\ r \in 0..(Len(Text(f)) - 1)
          /\ called[n].messages = <<Text(f)[Len(Text(f)) - r]>>
     /\ \A q \in (r + 1)..Len(Text(f)) : \E m \in Rewrites \cap Stored : called[m].rest = q

\* There is one snapshot, and every other call is of the compaction that has it.
OwnOK ==
  /\ \A f, g \in Snapshots : f = g
  /\ \A m, n \in Rewrites : called[m].rest = called[n].rest => m = n
  /\ \A n \in Own \ Snapshots : \E f \in Snapshots \cap Stored :
       /\ called[n].session = called[f].session
       /\ called[n].op \in {"clear", "append", "set"}
       /\ ~TooShort(Kept(f), KeepRecent)
       /\ RewriteOf(n, f)

\* The messages in list are left of what a compaction writes.
LeftOf(list, f) ==
  LET L == Len(Text(f))
  IN \E k \in 0..L :
       /\ list = SubSeq(Text(f), k + 1, L)
       /\ \A n \in Rewrites : called[n].rest >= L - k
       /\ \A q \in (L - k)..L : \E n \in Rewrites : called[n].rest = q

\* What task t has read, or has left of its list, is of the snapshot f.
ListOf(t, f) ==
  LET p == plan[t]
  IN /\ p.stage \in {"snapshot", "ask", "tokens", "clear"} => Rewrites = {}
     /\ p.stage = "snapshot" /\ pc[t] = "reading" /\ reply[t] = "ok" => p.list = Kept(f)
     /\ p.stage = "ask" => p.list = Kept(f)
     /\ p.stage \in {"ask", "tokens", "clear", "write"} =>
          f \in Stored /\ ~TooShort(Kept(f), KeepRecent)
     /\ p.stage \in {"tokens", "clear"} => p.list = Text(f)
     /\ p.stage = "write" => LeftOf(p.list, f)

\* There is one compaction, and while it has a plan all of its calls but the one
\* its task is in are stored.
StagesOK ==
  \A t \in Tasks : plan[t].stage # "none" =>
    /\ \A u \in Tasks : plan[u].stage # "none" => u = t
    /\ \A n \in Own : n \in Stored \/ (t \in Open /\ n = mine[t])
    /\ plan[t].stage = "fork" => Own = {}
    /\ plan[t].stage # "fork" => \E f \in Snapshots :
         /\ called[f].to = plan[t].fork /\ called[f].session = plan[t].session
         /\ ListOf(t, f)

\* The stage at which a compaction reads the history, or the tokens.
ReadStage(do) == IF do = "history" THEN "snapshot" ELSE "tokens"

\* The reads that a compaction waits for.
ReadsOK ==
  \A i \in 1..Len(jobs) : jobs[i].live /\ jobs[i].do \in {"history", "tokens"} =>
    plan[jobs[i].task].stage = ReadStage(jobs[i].do)

\* No open transaction touches a fork that is stored.
WorkingOK ==
  /\ DOMAIN working = Sessions
  /\ \A s \in Sessions \ Used :
       (\A n \in 1..Len(called) : called[n].op = "fork" /\ called[n].to = s => n \in Stored)
       => working[s] = store[s]

\* What a compaction has read, written and left to write is of its snapshot.
TextInv == SaidOK /\ OwnOK /\ StagesOK /\ ReadsOK /\ WorkingOK

\* The live reads of the queue new are in js.
Fewer(js, new) ==
  \A i \in 1..Len(new) : new[i].live /\ new[i].do \in {"history", "tokens"} =>
    \E k \in 1..Len(js) :
      js[k].live /\ js[k].do = new[i].do /\ js[k].task = new[i].task

\* A step that makes no call, stores nothing and moves no compaction on.
LEMMA Quiet ==
  ASSUME StoreInv, TextInv, StoreInv', UNCHANGED <<called, store, story>>,
         WorkingOK', Fewer(jobs, jobs'),
         \A t \in Tasks : pc'[t] = "reading" =>
           pc[t] = "reading" /\ plan'[t].stage = plan[t].stage
           /\ (reply'[t] = "ok" => reply[t] = "ok"),
         \A t \in Tasks : plan'[t].stage # "none" =>
           /\ plan'[t] = plan[t] /\ mine'[t] = mine[t]
           /\ t \in Open => t \in Open' \/ mine[t] \in Stored
  PROVE  TextInv'
<1>1. /\ LiveOK' /\ QueueOK(jobs') /\ LiveOK /\ QueueOK(jobs)
  BY DEF StoreInv, CoreInv
<1>2. /\ Own' = Own /\ Snapshots' = Snapshots /\ Rewrites' = Rewrites /\ Stored' = Stored
      /\ \A f \in Own : Kept(f)' = Kept(f) /\ Text(f)' = Text(f)
  BY DEF Own, Snapshots, Rewrites, Stored, Kept, Text
<1>3. SaidOK'
  BY DEF TextInv, SaidOK
<1>4. OwnOK'
  BY <1>2 DEF TextInv, OwnOK, RewriteOf, Snapshots
<1>5. ReadsOK'
  <2> SUFFICES ASSUME NEW i \in 1..Len(jobs'), jobs'[i].live,
                      jobs'[i].do \in {"history", "tokens"}
               PROVE  plan'[jobs'[i].task].stage = ReadStage(jobs'[i].do)
    BY DEF ReadsOK
  <2>1. PICK k \in 1..Len(jobs) :
          jobs[k].live /\ jobs[k].do = jobs'[i].do /\ jobs[k].task = jobs'[i].task
    BY DEF Fewer
  <2>2. pc'[jobs'[i].task] = "reading"
    BY <1>1 DEF LiveOK
  <2>3. jobs'[i].task \in Tasks
    BY <1>1, <2>1, JobsTyped
  <2> QED
    BY <2>1, <2>2, <2>3 DEF TextInv, ReadsOK
<1>6. StagesOK'
  <2> SUFFICES ASSUME NEW t \in Tasks, plan'[t].stage # "none"
               PROVE  /\ \A u \in Tasks : plan'[u].stage # "none" => u = t
                      /\ \A n \in Own : n \in Stored \/ (t \in Open' /\ n = mine'[t])
                      /\ plan'[t].stage = "fork" => Own = {}
                      /\ plan'[t].stage # "fork" => \E f \in Snapshots :
                           /\ called[f].to = plan'[t].fork
                           /\ called[f].session = plan'[t].session
                           /\ ListOf(t, f)'
    BY <1>2 DEF StagesOK
  <2>1. /\ plan'[t] = plan[t] /\ mine'[t] = mine[t]
        /\ t \in Open => t \in Open' \/ mine[t] \in Stored
        /\ \A u \in Tasks : plan'[u].stage # "none" => plan[u].stage # "none"
    OBVIOUS
  <2>2. \A f \in Snapshots : ListOf(t, f) => ListOf(t, f)'
    BY <1>2, <2>1 DEF ListOf, LeftOf, Snapshots
  <2> QED
    BY <2>1, <2>2 DEF TextInv, StagesOK
<1> QED
  BY <1>3, <1>4, <1>5, <1>6 DEF TextInv

\* A queue with a job more that reads nothing.
LEMMA FewerAppended ==
  ASSUME NEW S, NEW js \in Seq(S), NEW job, job.do \notin {"history", "tokens"}
  PROVE  Fewer(js, Append(js, job))
<1>1. js \in Seq(ToSet(js))
  BY IsASequence
<1>2. /\ Len(Append(js, job)) = Len(js) + 1 /\ Len(js) \in Nat
      /\ \A n \in 1..Len(js) : Append(js, job)[n] = js[n]
      /\ Append(js, job)[Len(js) + 1] = job
  BY <1>1, OneMore
<1>3. \A i \in 1..(Len(js) + 1) : i \in 1..Len(js) \/ i = Len(js) + 1
  BY <1>2
<1> QED
  BY <1>2, <1>3, Zenon DEF Fewer

\* Without a task's jobs, or its first job, a queue has no live read more.
LEMMA FewerLeft ==
  ASSUME QueueOK(jobs)
  PROVE  /\ \A t \in Tasks : /\ Fewer(jobs, Abandoned(t))
                             /\ \A i \in 1..Len(Abandoned(t)) :
                                  Abandoned(t)[i].live => Abandoned(t)[i].task # t
                             /\ Abandoned(t) \in Seq(JobSet)
         /\ jobs # <<>> => Fewer(jobs, Tail(jobs))
         /\ Fewer(jobs, jobs) /\ Fewer(jobs, <<>>)
<1>0. jobs \in Seq(JobSet) /\ Len(jobs) \in Nat
  BY JobsTyped
<1>1. ASSUME NEW t \in Tasks
      PROVE  /\ Fewer(jobs, Abandoned(t))
             /\ \A i \in 1..Len(Abandoned(t)) :
                  Abandoned(t)[i].live => Abandoned(t)[i].task # t
             /\ Abandoned(t) \in Seq(JobSet)
  <2> DEFINE new == Abandoned(t)
  <2>1. DOMAIN jobs = 1..Len(jobs) /\ \A i \in 1..Len(jobs) : jobs[i] \in JobSet
    BY <1>0
  <2>2. new = [i \in 1..Len(jobs) |-> [jobs[i] EXCEPT !.live = @ /\ jobs[i].task # t]]
    BY <2>1 DEF Abandoned
  <2>3. \A i \in 1..Len(jobs) :
          /\ new[i] \in JobSet /\ new[i].do = jobs[i].do /\ new[i].task = jobs[i].task
          /\ new[i].live <=> jobs[i].live /\ jobs[i].task # t
    <3> SUFFICES ASSUME NEW i \in 1..Len(jobs)
                 PROVE  /\ new[i] \in JobSet /\ new[i].do = jobs[i].do
                        /\ new[i].task = jobs[i].task
                        /\ new[i].live <=> jobs[i].live /\ jobs[i].task # t
      OBVIOUS
    <3> DEFINE j == jobs[i]
    <3>1. /\ new[i] = [j EXCEPT !.live = j.live /\ j.task # t]
          /\ j \in JobSet
      BY <2>1, <2>2
    <3> HIDE DEF new, j
    <3>2. new[i] = [task |-> j.task, do |-> j.do, call |-> j.call, step |-> j.step,
                    live |-> j.live /\ j.task # t]
      BY <3>1 DEF JobSet
    <3>3. new[i] \in JobSet
      BY <3>1, <3>2 DEF JobSet
    <3>4. /\ new[i].do = j.do /\ new[i].task = j.task
          /\ new[i].live = (j.live /\ j.task # t)
      BY <3>2
    <3> QED
      BY <3>3, <3>4, Zenon DEF j
  <2>4. new \in Seq(JobSet) /\ Len(new) = Len(jobs)
    BY <1>0, <2>2, <2>3
  <2> HIDE DEF new
  <2>5. Fewer(jobs, new)
    BY <2>3, <2>4 DEF Fewer
  <2>6. \A i \in 1..Len(new) : new[i].live => new[i].task # t
    BY <2>3, <2>4
  <2> QED
    BY <2>4, <2>5, <2>6 DEF new
<1>2. ASSUME jobs # <<>> PROVE Fewer(jobs, Tail(jobs))
  <2>1. /\ Len(Tail(jobs)) = Len(jobs) - 1
        /\ \A i \in 1..Len(Tail(jobs)) : Tail(jobs)[i] = jobs[i + 1] /\ i + 1 \in 1..Len(jobs)
    BY <1>0, <1>2, Shifted
  <2> QED
    BY <2>1, Zenon DEF Fewer
<1>3. Fewer(jobs, jobs) /\ Fewer(jobs, <<>>)
  BY DEF Fewer
<1> QED
  BY <1>1, <1>2, <1>3

\* When the lock is passed on, a waiter that waits no longer owns it.
LEMMA PassedOn ==
  ASSUME TypesOK, NEW t \in Tasks, ReleaseAnd(t, "idle")
  PROVE  /\ \A u \in Tasks : pc'[u] = "reading" => u # t /\ pc[u] = "reading"
         /\ \A u \in Tasks \ {t} : pc'[u] = pc[u] \/ pc'[u] = "granted"
<1>1. \A u \in Tasks : pc'[u] = IF u \in Released(lock).next THEN "granted"
                                ELSE IF u = t THEN "idle" ELSE pc[u]
  BY DEF ReleaseAnd
<1> QED
  BY <1>1

\* A call goes on, ends or is given up.
LEMMA CallText ==
  ASSUME StoreInv, TextInv, StoreInv', NEW t \in Tasks, CallStep(t)
  PROVE  TextInv'
<1>0. /\ TypesOK /\ TypesOK' /\ QueueOK(jobs) /\ PlanOK /\ OpenOK /\ LiveOK
      /\ UNCHANGED <<called, store, story, working>>
  BY DEF StoreInv, CoreInv, CallStep, Acquired, CancelledWaiting, CancelledGranted,
         StatementDone, Returns, Undo, Raises, databaseVars
<1>w. WorkingOK'
  BY <1>0 DEF TextInv, WorkingOK, Stored
<1>j. jobs \in Seq(JobSet)
  BY <1>0, JobsTyped
<1>n. NoPlan.stage = "none" /\ DOMAIN plan = Tasks
  BY <1>0 DEF NoPlan, PlanOK
<1>1. CASE Acquired(t)
  <2>1. Fewer(jobs, jobs')
    BY <1>1, <1>j, FewerAppended DEF Acquired, Job, JobFor
  <2>2. /\ UNCHANGED <<mine, plan, reply>> /\ pc[t] = "granted"
        /\ pc' = [pc EXCEPT ![t] = "executing"]
    BY <1>1 DEF Acquired
  <2>3. \A u \in Tasks : /\ pc'[u] = "reading" => pc[u] = "reading"
                         /\ u \in Open => u \in Open'
    BY <1>0, <2>2 DEF TypesOK, Open
  <2> QED
    BY <1>0, <1>w, <2>1, <2>2, <2>3, Quiet
<1>2. CASE CancelledWaiting(t)
  <2>1. Fewer(jobs, jobs')
    BY <1>0, <1>2, FewerLeft DEF CancelledWaiting
  <2>2. /\ UNCHANGED <<mine, reply>> /\ pc' = [pc EXCEPT ![t] = "idle"]
        /\ plan' = [plan EXCEPT ![t] = NoPlan]
    BY <1>2 DEF CancelledWaiting
  <2>3. \A u \in Tasks : /\ pc'[u] = "reading" => u # t /\ pc[u] = "reading"
                         /\ u \in Open => u \in Open' \/ u = t
    BY <1>0, <2>2 DEF TypesOK, Open
  <2>4. \A u \in Tasks : plan'[u] = IF u = t THEN NoPlan ELSE plan[u]
    BY <1>n, <2>2
  <2> QED
    BY <1>0, <1>n, <1>w, <2>1, <2>2, <2>3, <2>4, Quiet
<1>3. CASE CancelledGranted(t)
  <2>1. Fewer(jobs, jobs')
    BY <1>0, <1>3, FewerLeft DEF CancelledGranted
  <2>2. /\ UNCHANGED <<mine, reply>> /\ ReleaseAnd(t, "idle")
        /\ plan' = [plan EXCEPT ![t] = NoPlan]
    BY <1>3 DEF CancelledGranted
  <2>3. \A u \in Tasks : /\ pc'[u] = "reading" => u # t /\ pc[u] = "reading"
                         /\ u \in Open => u \in Open' \/ u = t
    BY <1>0, <2>2, PassedOn DEF Open
  <2>4. \A u \in Tasks : plan'[u] = IF u = t THEN NoPlan ELSE plan[u]
    BY <1>n, <2>2
  <2> QED
    BY <1>0, <1>n, <1>w, <2>1, <2>2, <2>3, <2>4, Quiet
<1>4. CASE StatementDone(t)
  <2>1. Fewer(jobs, jobs')
    <3>1. PICK job : jobs' = Append(jobs, job) /\ job.do \in {"statement", "commit"}
      BY <1>4 DEF StatementDone, Job, JobFor
    <3> QED
      BY <1>j, <3>1, FewerAppended
  <2>2. /\ UNCHANGED <<mine, plan>> /\ pc[t] = "executing"
        /\ pc' = pc \/ pc' = [pc EXCEPT ![t] = "committing"]
        /\ reply' = [reply EXCEPT ![t] = "none"]
    BY <1>4 DEF StatementDone
  <2>3. \A u \in Tasks : /\ pc'[u] = "reading" => u # t /\ pc[u] = "reading" /\ reply'[u] = reply[u]
                         /\ u \in Open => u \in Open'
    BY <1>0, <2>2 DEF TypesOK, Open
  <2> QED
    BY <1>0, <1>w, <2>1, <2>2, <2>3, Quiet
<1>5. CASE Returns(t)
  <2>1. Fewer(jobs, jobs')
    BY <1>0, <1>5, FewerLeft DEF Returns
  <2>2. /\ UNCHANGED <<mine, plan>> /\ pc[t] = "committing" /\ reply[t] = "ok"
        /\ ReleaseAnd(t, "idle")
        /\ reply' = [reply EXCEPT ![t] = "none"]
    BY <1>5 DEF Returns
  <2>3. \A u \in Tasks : /\ pc'[u] = "reading" => u # t /\ pc[u] = "reading" /\ reply'[u] = reply[u]
                         /\ u \in Open => u \in Open'
    BY <1>0, <2>2, PassedOn DEF TypesOK, Open
  <2> QED
    BY <1>0, <1>w, <2>1, <2>2, <2>3, Quiet
<1>6. CASE Undo(t)
  <2>1. Fewer(jobs, jobs')
    <3>1. PICK job : jobs' = Append(Abandoned(t), job) /\ job.do = "rollback"
      BY <1>6 DEF Undo, Job, JobFor
    <3>2. Fewer(jobs, Abandoned(t)) /\ Abandoned(t) \in Seq(JobSet)
      BY <1>0, FewerLeft
    <3>3. Fewer(Abandoned(t), jobs')
      BY <3>1, <3>2, FewerAppended
    <3> DEFINE a == Abandoned(t)
    <3>4. Fewer(jobs, a) /\ Fewer(a, jobs')
      BY <3>2, <3>3
    <3> HIDE DEF a
    <3> QED
      BY <3>4 DEF Fewer
  <2>2. /\ UNCHANGED mine /\ plan' = [plan EXCEPT ![t] = NoPlan]
        /\ pc' = [pc EXCEPT ![t] = "undoing"] /\ reply' = [reply EXCEPT ![t] = "none"]
    BY <1>6 DEF Undo
  <2>3. \A u \in Tasks : /\ pc'[u] = "reading" => u # t /\ pc[u] = "reading" /\ reply'[u] = reply[u]
                         /\ u \in Open => u \in Open' \/ u = t
    BY <1>0, <2>2 DEF TypesOK, Open
  <2>4. \A u \in Tasks : plan'[u] = IF u = t THEN NoPlan ELSE plan[u]
    BY <1>n, <2>2
  <2> QED
    BY <1>0, <1>n, <1>w, <2>1, <2>2, <2>3, <2>4, Quiet
<1>7. CASE Raises(t)
  <2>1. Fewer(jobs, jobs')
    BY <1>0, <1>7, FewerLeft DEF Raises
  <2>2. /\ UNCHANGED <<mine, plan>> /\ pc[t] = "undoing"
        /\ ReleaseAnd(t, "idle")
        /\ reply' = [reply EXCEPT ![t] = "none"]
    BY <1>7 DEF Raises
  <2>3. \A u \in Tasks : /\ pc'[u] = "reading" => u # t /\ pc[u] = "reading" /\ reply'[u] = reply[u]
                         /\ u \in Open => u \in Open'
    BY <1>0, <2>2, PassedOn DEF TypesOK, Open
  <2> QED
    BY <1>0, <1>w, <2>1, <2>2, <2>3, Quiet
<1> QED
  BY <1>1, <1>2, <1>3, <1>4, <1>5, <1>6, <1>7 DEF CallStep

\* A task is cancelled, or a compaction is given up.
LEMMA GivenUpText ==
  ASSUME StoreInv, TextInv, StoreInv', NEW t \in Tasks,
         Cancel(t) \/ NotSummarised(t) \/ Interrupted(t)
  PROVE  TextInv'
<1>0. /\ TypesOK /\ TypesOK' /\ QueueOK(jobs) /\ PlanOK /\ OpenOK /\ LiveOK
      /\ UNCHANGED <<called, store, story, working, mine>>
  BY DEF StoreInv, CoreInv, Cancel, NotSummarised, Interrupted, databaseVars, callVars
<1>w. WorkingOK'
  BY <1>0 DEF TextInv, WorkingOK, Stored
<1>n. NoPlan.stage = "none" /\ DOMAIN plan = Tasks
  BY <1>0 DEF NoPlan, PlanOK
<1>1. CASE Cancel(t)
  <2>1. UNCHANGED <<jobs, pc, reply, plan>>
    BY <1>1 DEF Cancel
  <2>2. Fewer(jobs, jobs') /\ Open' = Open
    BY <1>0, <2>1, FewerLeft DEF Open
  <2> QED
    BY <1>0, <1>w, <2>1, <2>2, Quiet
<1>2. CASE NotSummarised(t)
  <2>1. UNCHANGED <<jobs, pc, reply>> /\ plan' = [plan EXCEPT ![t] = NoPlan]
        /\ plan[t].stage = "ask"
    BY <1>2 DEF NotSummarised, callVars
  <2>2. Fewer(jobs, jobs') /\ Open' = Open
    BY <1>0, <2>1, FewerLeft DEF Open
  <2>3. pc[t] = "idle"
    BY <1>0, <2>1 DEF PlanOK, PlanAllows
  <2>4. \A u \in Tasks : plan'[u] = IF u = t THEN NoPlan ELSE plan[u]
    BY <1>n, <2>1
  <2> QED
    BY <1>0, <1>n, <1>w, <2>1, <2>2, <2>3, <2>4, Quiet
<1>3. CASE Interrupted(t)
  <2>1. /\ pc' = [pc EXCEPT ![t] = "idle"] /\ plan' = [plan EXCEPT ![t] = NoPlan]
        /\ reply' = [reply EXCEPT ![t] = "none"] /\ jobs' = Abandoned(t)
    BY <1>3 DEF Interrupted
  <2>2. Fewer(jobs, jobs')
    BY <1>0, <2>1, FewerLeft
  <2>3. \A u \in Tasks : /\ pc'[u] = "reading" => u # t /\ pc[u] = "reading" /\ reply'[u] = reply[u]
                         /\ u \in Open => u \in Open' \/ u = t
    BY <1>0, <2>1 DEF TypesOK, Open
  <2>4. \A u \in Tasks : plan'[u] = IF u = t THEN NoPlan ELSE plan[u]
    BY <1>n, <2>1
  <2> QED
    BY <1>0, <1>n, <1>w, <2>1, <2>2, <2>3, <2>4, Quiet
<1> QED
  BY <1>1, <1>2, <1>3

\* The process ends.
LEMMA CrashText ==
  ASSUME StoreInv, TextInv, StoreInv', Crash
  PROVE  TextInv'
<1>1. /\ UNCHANGED <<store, story, called>> /\ working' = store /\ jobs' = <<>>
      /\ \A t \in Tasks : pc'[t] = "idle" /\ plan'[t].stage = "none"
  BY DEF Crash, NoPlan
<1>2. WorkingOK'
  BY <1>1 DEF WorkingOK, StoreInv, CoreInv, SessionsOK
<1>3. Fewer(jobs, jobs')
  BY <1>1, FewerLeft DEF StoreInv, CoreInv
<1> QED
  BY <1>1, <1>2, <1>3, Quiet

\* Nothing happens.
LEMMA StutterText ==
  ASSUME StoreInv, TextInv, StoreInv', UNCHANGED vars
  PROVE  TextInv'
<1>1. UNCHANGED <<store, story, called, working, jobs, pc, plan, reply, mine>>
  BY DEF vars
<1>2. WorkingOK' /\ Fewer(jobs, jobs') /\ Open' = Open
  BY <1>1, FewerLeft DEF TextInv, WorkingOK, Stored, StoreInv, CoreInv, Open
<1> QED
  BY <1>1, <1>2, Quiet

\* Of the sessions that are not in use, a statement reaches only a fork's own.
LEMMA StatementReaches ==
  ASSUME NEW c, c.op \in {"append", "clear", "fork", "set", "add"}, c.session \in Used,
         NEW k, NEW w, DOMAIN w = Sessions
  PROVE  /\ DOMAIN AfterStatement(c, k, w) = Sessions
         /\ \A s \in Sessions \ Used :
              AfterStatement(c, k, w)[s] = w[s] \/ (c.op = "fork" /\ c.to = s)
<1>1. CASE c.op = "append"
  BY <1>1 DEF AfterStatement
<1>2. CASE c.op = "clear"
  BY <1>2 DEF AfterStatement
<1>3. CASE c.op = "fork"
  BY <1>3 DEF AfterStatement
<1>4. CASE c.op = "set"
  BY <1>4 DEF AfterStatement
<1>5. CASE c.op = "add"
  BY <1>5 DEF AfterStatement
<1> QED
  BY <1>1, <1>2, <1>3, <1>4, <1>5

\* The rows a failing append_many has inserted are of the same call.
LEMMA PartIs ==
  ASSUME NEW c, IsCall(c), NEW k
  PROVE  /\ PartOf(c, k).op = c.op /\ PartOf(c, k).session = c.session
         /\ PartOf(c, k).to = c.to
<1>1. c = [op |-> c.op, session |-> c.session, to |-> c.to, messages |-> c.messages,
           tokens |-> c.tokens, by |-> c.by, rest |-> c.rest]
  BY DEF IsCall
<1>2. {"op", "session", "to"} \subseteq DOMAIN c
  BY <1>1
<1> QED
  BY <1>2 DEF PartOf

\* A statement is executed, or a part of it.
LEMMA ExecuteWorking ==
  ASSUME StoreInv, WorkingOK, jobs # <<>>, Execute(jobs[1]), UNCHANGED called
  PROVE  WorkingOK'
<1> DEFINE n == jobs[1].call
           c == called[n]
<1>1. 1 \in 1..Len(jobs) /\ jobs[1].do = "statement" /\ UNCHANGED <<store, story>>
  BY AfterHead, Shifted DEF Execute, StoreInv, CoreInv, QueueOK
<1>2. n \in 1..Len(called) /\ n \notin Stored /\ IsCall(c)
  BY <1>1 DEF Changes, StoreInv, CoreInv, OpenOK, CallsOK, Stored
<1> HIDE DEF n
<1>3. \/ working' = working
      \/ working' = AfterStatement(c, jobs[1].step, working)
      \/ \E k : working' = AfterStatement(PartOf(c, k), 1, working)
  BY DEF Execute, n
<1>4. /\ DOMAIN working' = Sessions
      /\ \A s \in Sessions \ Used : working'[s] = working[s] \/ (c.op = "fork" /\ c.to = s)
  <2>1. CASE working' = working
    BY <2>1 DEF WorkingOK
  <2>2. CASE working' = AfterStatement(c, jobs[1].step, working)
    BY <1>2, <2>2, StatementReaches DEF IsCall, WorkingOK
  <2>3. CASE \E k : working' = AfterStatement(PartOf(c, k), 1, working)
    <3>1. PICK k : working' = AfterStatement(PartOf(c, k), 1, working)
      BY <2>3
    <3> DEFINE d == PartOf(c, k)
    <3> HIDE DEF c
    <3>3. d.op = c.op /\ d.session = c.session /\ d.to = c.to
      BY <1>2, PartIs
    <3> HIDE DEF d
    <3>4. d.op \in {"append", "clear", "fork", "set", "add"} /\ d.session \in Used
      BY <1>2, <3>3 DEF IsCall
    <3>5. working' = AfterStatement(d, 1, working) /\ DOMAIN working = Sessions
      BY <3>1 DEF d, WorkingOK
    <3> QED
      BY <3>3, <3>4, <3>5, StatementReaches
  <2> QED
    BY <1>3, <2>1, <2>2, <2>3
<1>5. ASSUME NEW s \in Sessions \ Used,
             \A m \in 1..Len(called) : called[m].op = "fork" /\ called[m].to = s => m \in Stored
      PROVE  working'[s] = store[s]
  <2>1. ~(c.op = "fork" /\ c.to = s)
    BY <1>2, <1>5
  <2> QED
    BY <1>4, <1>5, <2>1 DEF WorkingOK
<1> QED
  BY <1>1, <1>4, <1>5 DEF WorkingOK, Stored

\* The thread executes a statement, undoes a transaction, or fails.
LEMMA WorkText ==
  ASSUME StoreInv, TextInv, StoreInv', Thread,
         NEW r \in {"ok", "error"}, ThreadTook(r), Writes(jobs[1]),
         UNCHANGED <<store, story, plan>>,
         r = "ok" => jobs[1].do # "commit",
         WorkingOK'
  PROVE  TextInv'
<1>0. /\ TypesOK /\ QueueOK(jobs) /\ LiveOK /\ jobs # <<>> /\ jobs' = Tail(jobs)
      /\ UNCHANGED <<called, mine, pc>>
      /\ reply' = IF Head(jobs).live THEN [reply EXCEPT ![Head(jobs).task] = r] ELSE reply
  BY DEF StoreInv, CoreInv, ThreadTook, Answer
<1>1. 1 \in 1..Len(jobs) /\ Head(jobs) = jobs[1]
  BY <1>0, AfterHead
<1>2. Fewer(jobs, jobs')
  BY <1>0, FewerLeft
<1>3. \A t \in Tasks : \/ reply'[t] = reply[t]
                       \/ reply'[t] = r /\ jobs[1].live /\ jobs[1].task = t
  BY <1>0, <1>1 DEF TypesOK
<1>4. ASSUME NEW t \in Tasks, jobs[1].live, jobs[1].task = t
      PROVE  pc[t] # "reading" /\ (pc[t] = "committing" => r # "ok")
  BY <1>0, <1>1, <1>4, JobsTyped DEF LiveOK, Writes
<1>5. \A t \in Tasks : /\ pc'[t] = "reading" => reply'[t] = reply[t]
                       /\ t \in Open => t \in Open'
  BY <1>0, <1>3, <1>4 DEF Open
<1> QED
  BY <1>0, <1>2, <1>5, Quiet

\* The calls that are committed, when the story goes on.
LEMMA OneMoreStored ==
  ASSUME CallsOK, NEW n, story' = Append(story, n)
  PROVE  Stored' = Stored \cup {n}
<1>1. story \in Seq(ToSet(story)) /\ DOMAIN story = 1..Len(story)
  BY IsASequence DEF CallsOK
<1>2. /\ DOMAIN story' = 1..(Len(story) + 1) /\ Len(story) \in Nat
      /\ \A i \in 1..Len(story) : story'[i] = story[i]
      /\ story'[Len(story) + 1] = n
  BY <1>1
<1> QED
  BY <1>1, <1>2, SMTT(30) DEF Stored, ToSet

\* A history that was copied stays as it is.
LEMMA KeptStays ==
  ASSUME StoreInv, NEW n \in 1..Len(called), n \notin Stored,
         store' = Ledger!Effect(called[n], store), UNCHANGED called
  PROVE  \A f \in Snapshots \cap Stored : Kept(f)' = Kept(f) /\ Text(f)' = Text(f)
<1> SUFFICES ASSUME NEW f \in Snapshots \cap Stored
             PROVE  Kept(f)' = Kept(f)
  BY DEF Text
<1>1. f \in 1..Len(called) /\ called[f].op = "fork" /\ f # n
  BY DEF Snapshots, Own
<1>2. IsCall(called[f]) /\ IsCall(called[n]) /\ DOMAIN store = Sessions
      /\ \A x \in Sessions : IsSession(store[x])
  BY <1>1 DEF StoreInv, CoreInv, CallsOK, SessionsOK
<1>3. called[f].to \in Sessions \ Used
  BY <1>1, <1>2 DEF IsCall
<1>4. ~(called[n].op = "fork" /\ called[n].to = called[f].to)
  BY <1>1 DEF StoreInv, CoreInv, CallsOK
<1>5. store'[called[f].to] = store[called[f].to]
  BY <1>2, <1>3, <1>4, EffectTyped
<1> QED
  BY <1>5 DEF Kept

\* A call is committed.
LEMMA CommitText ==
  ASSUME StoreInv, TextInv, StoreInv', ThreadTook("ok"), jobs[1].do = "commit",
         store' = working, story' = story \o inside, inside' = <<>>,
         UNCHANGED <<working, plan>>
  PROVE  TextInv'
<1> DEFINE n == jobs[1].call
<1>0. /\ TypesOK /\ QueueOK(jobs) /\ LiveOK /\ jobs # <<>> /\ jobs' = Tail(jobs)
      /\ UNCHANGED <<called, mine, pc>> /\ CoreInv /\ CallsOK
      /\ reply' = IF Head(jobs).live THEN [reply EXCEPT ![Head(jobs).task] = "ok"] ELSE reply
  BY DEF StoreInv, CoreInv, ThreadTook, Answer
<1>1. 1 \in 1..Len(jobs) /\ Head(jobs) = jobs[1]
  BY <1>0, AfterHead
<1>2. /\ n \in 1..Len(called) /\ n \notin Stored
      /\ store' = Ledger!Effect(called[n], store)
      /\ story' = Append(story, n)
  <2>1. DOMAIN called = 1..Len(called)
    BY <1>0 DEF CallsOK
  <2> QED
    BY <1>0, <2>1, Commits DEF Stored
<1>3. Stored' = Stored \cup {n}
  BY <1>0, <1>2, OneMoreStored
<1>4. \A f \in Snapshots \cap Stored : Kept(f)' = Kept(f) /\ Text(f)' = Text(f)
  BY <1>0, <1>2, KeptStays
<1>5. Own' = Own /\ Snapshots' = Snapshots /\ Rewrites' = Rewrites
  BY <1>0 DEF Own, Snapshots, Rewrites
<1>6. ASSUME NEW t \in Tasks, t \in Open
      PROVE  t \in Open' \/ mine[t] \in Stored'
  <2>1. CASE reply'[t] = reply[t]
    BY <1>0, <1>6, <2>1 DEF Open
  <2>2. CASE reply'[t] # reply[t]
    <3>1. jobs[1].live /\ jobs[1].task = t
      BY <1>0, <1>1, <2>2 DEF TypesOK
    <3>2. n = mine[t]
      BY <1>0, <1>1, <3>1 DEF LiveOK
    <3> QED
      BY <1>3, <3>2
  <2> QED
    BY <2>1, <2>2
<1>7. \A t \in Tasks : pc[t] = "reading" => reply'[t] = reply[t] /\ t \notin Open
  BY <1>0, <1>1 DEF TypesOK, LiveOK, Open
<1> HIDE DEF n
<1>8. OwnOK'
  <2> SUFFICES ASSUME NEW k \in Own \ Snapshots
               PROVE  \E f \in Snapshots \cap Stored' :
                        /\ called[k].session = called[f].session
                        /\ called[k].op \in {"clear", "append", "set"}
                        /\ ~TooShort(Kept(f)', KeepRecent)
                        /\ RewriteOf(k, f)'
    BY <1>0, <1>5 DEF TextInv, OwnOK
  <2>1. PICK f \in Snapshots \cap Stored :
          /\ called[k].session = called[f].session
          /\ called[k].op \in {"clear", "append", "set"}
          /\ ~TooShort(Kept(f), KeepRecent)
          /\ RewriteOf(k, f)
    BY DEF TextInv, OwnOK
  <2>2. RewriteOf(k, f)'
    BY <1>0, <1>3, <1>4, <1>5, <2>1 DEF RewriteOf
  <2> QED
    BY <1>3, <1>4, <2>1, <2>2
<1>9. StagesOK'
  <2> SUFFICES ASSUME NEW t \in Tasks, plan[t].stage # "none"
               PROVE  /\ \A u \in Tasks : plan[u].stage # "none" => u = t
                      /\ \A m \in Own : m \in Stored' \/ (t \in Open' /\ m = mine[t])
                      /\ plan[t].stage = "fork" => Own = {}
                      /\ plan[t].stage # "fork" => \E f \in Snapshots :
                           /\ called[f].to = plan[t].fork
                           /\ called[f].session = plan[t].session
                           /\ ListOf(t, f)'
    BY <1>0, <1>5 DEF StagesOK
  <2>1. /\ \A u \in Tasks : plan[u].stage # "none" => u = t
        /\ \A m \in Own : m \in Stored \/ (t \in Open /\ m = mine[t])
        /\ plan[t].stage = "fork" => Own = {}
        /\ plan[t].stage # "fork" => \E f \in Snapshots :
             /\ called[f].to = plan[t].fork
             /\ called[f].session = plan[t].session
             /\ ListOf(t, f)
    BY DEF TextInv, StagesOK
  <2>2. ASSUME NEW f \in Snapshots, ListOf(t, f)
        PROVE  ListOf(t, f)'
    <3>1. CASE f \in Stored
      <4>1. Kept(f)' = Kept(f) /\ Text(f)' = Text(f) /\ f \in Stored'
        BY <1>3, <1>4, <3>1
      <4> QED
        BY <1>0, <1>5, <1>7, <2>2, <4>1 DEF ListOf, LeftOf
    <3>2. CASE f \notin Stored
      <4>1. pc[t] # "reading"
        BY <1>7, <2>1, <3>2 DEF Snapshots
      <4> QED
        BY <1>0, <1>5, <2>2, <3>2, <4>1 DEF ListOf, LeftOf
    <3> QED
      BY <3>1, <3>2
  <2> QED
    BY <1>3, <1>6, <2>1, <2>2
<1>a. SaidOK'
  BY <1>0 DEF TextInv, SaidOK
<1>b. ReadsOK'
  <2>1. Fewer(jobs, jobs')
    BY <1>0, FewerLeft
  <2> QED
    BY <1>0, <2>1 DEF Fewer, TextInv, ReadsOK
<1>c. WorkingOK'
  BY DEF TextInv, WorkingOK
<1> QED
  BY <1>8, <1>9, <1>a, <1>b, <1>c DEF TextInv

\* A compaction reads the history it has copied, or the tokens.
LEMMA ReadText ==
  ASSUME StoreInv, TextInv, StoreInv', Thread, Read(jobs[1])
  PROVE  TextInv'
<1>t. PICK t \in Tasks : t = jobs[1].task
  BY AfterHead, JobsTyped DEF StoreInv, CoreInv, Thread
<1> DEFINE p == plan[t]
<1>0. /\ TypesOK /\ QueueOK(jobs) /\ LiveOK /\ jobs # <<>> /\ jobs' = Tail(jobs)
      /\ UNCHANGED <<called, mine, pc, store, story, working>> /\ CallsOK /\ PlanOK
      /\ reply' = IF jobs[1].live THEN [reply EXCEPT ![t] = "ok"] ELSE reply
      /\ jobs[1].do \in {"history", "tokens"}
  BY <1>t DEF StoreInv, CoreInv, Thread, Read, Answer, databaseVars
<1>1. 1 \in 1..Len(jobs) /\ t \in Tasks
  BY <1>0, AfterHead, JobsTyped
<1>2. Fewer(jobs, jobs') /\ WorkingOK'
  BY <1>0, FewerLeft DEF TextInv, WorkingOK, Stored
<1>3. CASE ~jobs[1].live
  <2>1. UNCHANGED <<plan, reply>> /\ Open' = Open
    BY <1>0, <1>3 DEF Read, Open
  <2> QED
    BY <1>0, <1>2, <2>1, Quiet
<1>4. CASE jobs[1].live
  <2>1. /\ pc[t] = "reading" /\ p.stage = ReadStage(jobs[1].do)
        /\ reply' = [reply EXCEPT ![t] = "ok"]
    BY <1>t, <1>0, <1>1, <1>4 DEF LiveOK, TextInv, ReadsOK
  <2>2. Open' = Open /\ t \notin Open
    BY <1>0, <2>1 DEF Open, TypesOK
  <2>3. /\ Own' = Own /\ Snapshots' = Snapshots /\ Rewrites' = Rewrites /\ Stored' = Stored
        /\ \A f \in Own : Kept(f)' = Kept(f) /\ Text(f)' = Text(f)
    BY <1>0 DEF Own, Snapshots, Rewrites, Stored, Kept, Text
  <2>4. PICK f \in Snapshots : called[f].to = p.fork /\ called[f].session = p.session
                               /\ ListOf(t, f)
    BY <1>1, <2>1 DEF TextInv, StagesOK, ReadStage
  <2>5. working[p.fork] = store[p.fork] /\ f \in Stored /\ p.fork \in Sessions
    <3>1. f \in Own /\ f \in 1..Len(called) /\ called[f].op = "fork" /\ IsCall(called[f])
      BY <1>0 DEF Snapshots, Own, CallsOK
    <3>2. f \in Stored
      BY <1>1, <2>1, <2>2, <3>1 DEF TextInv, StagesOK, ReadStage
    <3>3. p.fork \in Sessions \ Used
      BY <2>4, <3>1 DEF IsCall
    <3>4. \A m \in 1..Len(called) : called[m].op = "fork" /\ called[m].to = p.fork => m \in Stored
      BY <1>0, <2>4, <3>1, <3>2 DEF CallsOK
    <3> QED
      BY <3>2, <3>3, <3>4 DEF TextInv, WorkingOK
  <2>6. /\ \A u \in Tasks \ {t} : plan'[u] = plan[u]
        /\ plan'[t].stage = p.stage /\ plan'[t].fork = p.fork /\ plan'[t].session = p.session
        /\ jobs[1].do = "history" => plan'[t].list = Kept(f)
        /\ jobs[1].do = "tokens" => plan'[t].list = p.list
    <3>1. p = [stage |-> p.stage, session |-> p.session, fork |-> p.fork, list |-> p.list,
               tokens |-> p.tokens] /\ DOMAIN plan = Tasks
      BY <1>0, <1>1 DEF PlanOK, PlanAllows
    <3>2. CASE jobs[1].do = "history"
      <4>1. plan' = [plan EXCEPT ![t].list = working[p.fork].messages]
        BY <1>t, <1>4, <3>2 DEF Read
      <4>2. /\ \A u \in Tasks \ {t} : plan'[u] = plan[u]
            /\ plan'[t] = [p EXCEPT !.list = working[p.fork].messages]
        BY <1>1, <3>1, <4>1
      <4> HIDE DEF p
      <4>3. plan'[t] = [stage |-> p.stage, session |-> p.session, fork |-> p.fork,
                        list |-> working[p.fork].messages, tokens |-> p.tokens]
        BY <3>1, <4>2
      <4> QED
        BY <2>4, <2>5, <3>2, <4>2, <4>3 DEF Kept
    <3>3. CASE jobs[1].do = "tokens"
      <4>1. plan' = [plan EXCEPT ![t].tokens = working[p.session].tokens]
        BY <1>t, <1>4, <3>3 DEF Read
      <4>2. /\ \A u \in Tasks \ {t} : plan'[u] = plan[u]
            /\ plan'[t] = [p EXCEPT !.tokens = working[p.session].tokens]
        BY <1>1, <3>1, <4>1
      <4> HIDE DEF p
      <4>3. plan'[t] = [stage |-> p.stage, session |-> p.session, fork |-> p.fork,
                        list |-> p.list, tokens |-> working[p.session].tokens]
        BY <3>1, <4>2
      <4> QED
        BY <3>3, <4>2, <4>3
    <3> QED
      BY <1>0, <3>2, <3>3
  <2> HIDE DEF p
  <2>7. ListOf(t, f)'
    <3>1. /\ Kept(f)' = Kept(f) /\ Text(f)' = Text(f) /\ Rewrites' = Rewrites
          /\ Stored' = Stored /\ plan'[t].stage = plan[t].stage
      BY <2>3, <2>6 DEF Snapshots, p
    <3>2. CASE jobs[1].do = "history"
      <4>1. plan[t].stage = "snapshot" /\ plan'[t].list = Kept(f)
        BY <2>1, <2>6, <3>2 DEF ReadStage, p
      <4> QED
        BY <2>4, <3>1, <4>1 DEF ListOf, LeftOf
    <3>3. CASE jobs[1].do = "tokens"
      <4>1. plan[t].stage = "tokens" /\ plan'[t].list = plan[t].list
        BY <2>1, <2>6, <3>3 DEF ReadStage, p
      <4> QED
        BY <2>4, <3>1, <4>1 DEF ListOf, LeftOf
    <3> QED
      BY <1>0, <3>2, <3>3
  <2>8. StagesOK'
    <3> SUFFICES ASSUME NEW u \in Tasks, plan'[u].stage # "none"
                 PROVE  /\ \A v \in Tasks : plan'[v].stage # "none" => v = u
                        /\ \A m \in Own : m \in Stored \/ (u \in Open /\ m = mine[u])
                        /\ plan'[u].stage = "fork" => Own = {}
                        /\ plan'[u].stage # "fork" => \E g \in Snapshots :
                             /\ called[g].to = plan'[u].fork
                             /\ called[g].session = plan'[u].session
                             /\ ListOf(u, g)'
      BY <1>0, <2>2, <2>3 DEF StagesOK
    <3>1. plan[t].stage # "none" /\ plan[t].stage # "fork"
      BY <2>1 DEF ReadStage, p
    <3>2. \A v \in Tasks : plan'[v].stage = plan[v].stage
      BY <2>6 DEF p
    <3>3. u = t
      BY <1>1, <3>1, <3>2 DEF TextInv, StagesOK
    <3>4. /\ \A v \in Tasks : plan[v].stage # "none" => v = t
          /\ \A m \in Own : m \in Stored \/ (t \in Open /\ m = mine[t])
      BY <1>1, <3>1 DEF TextInv, StagesOK
    <3>5. /\ called[f].to = plan'[t].fork /\ called[f].session = plan'[t].session
          /\ f \in Snapshots
      BY <2>4, <2>6 DEF p
    <3>6. plan'[t].stage # "fork" /\ \A v \in Tasks : plan'[v].stage # "none" => v = t
      BY <1>1, <3>1, <3>2, <3>4
    <3> QED
      BY <2>7, <3>3, <3>4, <3>5, <3>6
  <2>9. SaidOK' /\ OwnOK'
    BY <1>0, <2>3 DEF TextInv, SaidOK, OwnOK, RewriteOf, Snapshots
  <2>a. ReadsOK'
    <3>1. \A v \in Tasks : plan'[v].stage = plan[v].stage
      BY <2>6 DEF p
    <3> SUFFICES ASSUME NEW i \in 1..Len(jobs'), jobs'[i].live,
                        jobs'[i].do \in {"history", "tokens"}
                 PROVE  plan'[jobs'[i].task].stage = ReadStage(jobs'[i].do)
      BY DEF ReadsOK
    <3>2. PICK k \in 1..Len(jobs) :
            jobs[k].live /\ jobs[k].do = jobs'[i].do /\ jobs[k].task = jobs'[i].task
      BY <1>2 DEF Fewer
    <3>3. jobs[k].task \in Tasks
      BY <1>0, JobsTyped
    <3> QED
      BY <3>1, <3>2, <3>3 DEF TextInv, ReadsOK
  <2> QED
    BY <1>2, <2>8, <2>9, <2>a DEF TextInv
<1> QED
  BY <1>3, <1>4

\* The thread takes a job.
LEMMA ThreadText ==
  ASSUME StoreInv, TextInv, StoreInv', Thread
  PROVE  TextInv'
<1>0. /\ QueueOK(jobs) /\ jobs # <<>> /\ jobs' = Tail(jobs)
      /\ UNCHANGED <<returned, failed, called, lock, pc, mine, at, cancelled>>
  BY DEF StoreInv, CoreInv, Thread, answerVars
<1>1. Head(jobs) = jobs[1]
  BY <1>0, AfterHead
<1>t. \A r : Answer(jobs[1], r) => ThreadTook(r)
  BY <1>0, <1>1 DEF ThreadTook
<1>2. CASE Execute(jobs[1])
  <2>1. UNCHANGED <<store, story, plan>> /\ Writes(jobs[1]) /\ jobs[1].do # "commit"
        /\ (Answer(jobs[1], "ok") \/ Answer(jobs[1], "error"))
    BY <1>2 DEF Execute, Writes
  <2>2. WorkingOK'
    BY <1>0, <1>2, ExecuteWorking DEF TextInv
  <2> QED
    BY <1>t, <2>1, <2>2, WorkText
<1>3. CASE Commit(jobs[1])
  <2>1. jobs[1].do = "commit" /\ Writes(jobs[1]) /\ UNCHANGED <<working, plan>>
    BY <1>3 DEF Commit, Writes
  <2>2. CASE /\ store' = working /\ story' = story \o inside /\ inside' = <<>>
             /\ Answer(jobs[1], "ok")
    BY <1>t, <2>1, <2>2, CommitText
  <2>3. CASE Answer(jobs[1], "error") /\ UNCHANGED <<store, story>>
    <3>1. WorkingOK'
      BY <1>0, <2>1, <2>3 DEF TextInv, WorkingOK, Stored
    <3> QED
      BY <1>t, <2>1, <2>3, <3>1, WorkText
  <2> QED
    BY <1>3, <2>2, <2>3 DEF Commit
<1>4. CASE Rollback(jobs[1])
  <2>1. /\ UNCHANGED <<store, story, plan>> /\ Writes(jobs[1]) /\ jobs[1].do # "commit"
        /\ Answer(jobs[1], "ok") /\ working' = store
    BY <1>4 DEF Rollback, Writes
  <2>2. WorkingOK'
    BY <2>1 DEF WorkingOK, StoreInv, CoreInv, SessionsOK
  <2> QED
    BY <1>t, <2>1, <2>2, WorkText
<1>5. CASE Read(jobs[1])
  BY <1>5, ReadText
<1> QED
  BY <1>1, <1>2, <1>3, <1>4, <1>5 DEF Thread

\* What a caller says is plain and complete.
LEMMA SayingsAre ==
  /\ \A n : LET m == <<[kind |-> "text", id |-> n]>> IN Plain(m) /\ Paired(m)
  /\ \A n : LET m == <<[kind |-> "call", id |-> n], [kind |-> "result", id |-> n]>>
            IN Plain(m) /\ Paired(m)
<1>1. ASSUME NEW n
      PROVE  LET m == <<[kind |-> "text", id |-> n]>> IN Plain(m) /\ Paired(m)
  BY DEF Plain, Paired
<1>2. ASSUME NEW n
      PROVE  LET m == <<[kind |-> "call", id |-> n], [kind |-> "result", id |-> n]>>
             IN Plain(m) /\ Paired(m)
  <2> DEFINE m == <<[kind |-> "call", id |-> n], [kind |-> "result", id |-> n]>>
  <2>1. /\ DOMAIN m = 1..2
        /\ m[1].kind = "call" /\ m[1].id = n /\ m[2].kind = "result" /\ m[2].id = n
    OBVIOUS
  <2> HIDE DEF m
  <2>2. \A i \in 1..2 : i = 1 \/ i = 2
    OBVIOUS
  <2>3. Plain(m)
    BY <2>1, <2>2 DEF Plain
  <2>4. Paired(m)
    <3> SUFFICES ASSUME NEW i \in 1..2, m[i].kind = "result"
                 PROVE  i > 1 /\ m[i - 1].kind = "call" /\ m[i - 1].id = m[i].id
      BY <2>1 DEF Paired
    <3>1. i = 2 /\ i - 1 = 1
      BY <2>1, <2>2
    <3> QED
      BY <2>1, <3>1
  <2> QED
    BY <2>3, <2>4 DEF m
<1> QED
  BY <1>1, <1>2

\* What a caller says is a caller's: its call, and a plain and complete list.
LEMMA CallersSay ==
  ASSUME NEW t \in Tasks, UserStep(t)
  PROVE  \E c : /\ Enter(t, c) /\ c.by = "caller"
                /\ c.op = "append" => Plain(c.messages) /\ Paired(c.messages)
<1>1. CASE AppendOne(t)
  <2>1. PICK s \in Bound[t] : Enter(t, [CallOf("append", s) EXCEPT !.messages = <<Says("text")>>])
    BY <1>1 DEF AppendOne, Makes
  <2> DEFINE c == [CallOf("append", s) EXCEPT !.messages = <<Says("text")>>]
  <2>2. c = [op |-> "append", session |-> s, to |-> s, messages |-> <<Says("text")>>,
             tokens |-> 0, by |-> "caller", rest |-> 0]
    BY DEF CallOf
  <2>3. Enter(t, c)
    BY <2>1
  <2> HIDE DEF c
  <2>4. c.by = "caller" /\ c.messages = <<Says("text")>>
    BY <2>2
  <2> QED
    BY <2>3, <2>4, SayingsAre DEF Says
<1>2. CASE AppendMany(t)
  <2>1. PICK s \in Bound[t] :
          Enter(t, [CallOf("append", s) EXCEPT !.messages = <<Says("call"), Says("result")>>])
    BY <1>2 DEF AppendMany, Makes
  <2> DEFINE c == [CallOf("append", s) EXCEPT !.messages = <<Says("call"), Says("result")>>]
  <2>2. c = [op |-> "append", session |-> s, to |-> s,
             messages |-> <<Says("call"), Says("result")>>,
             tokens |-> 0, by |-> "caller", rest |-> 0]
    BY DEF CallOf
  <2>3. Enter(t, c)
    BY <2>1
  <2> HIDE DEF c
  <2>4. c.by = "caller" /\ c.messages = <<Says("call"), Says("result")>>
    BY <2>2
  <2> QED
    BY <2>3, <2>4, SayingsAre DEF Says
<1>3. CASE Clear(t)
  <2>1. PICK s \in Bound[t] : Enter(t, CallOf("clear", s))
    BY <1>3 DEF Clear, Makes
  <2> QED
    BY <2>1 DEF CallOf
<1>4. CASE Fork(t)
  <2>1. PICK s \in Bound[t], f \in Fresh : Enter(t, [CallOf("fork", s) EXCEPT !.to = f])
    BY <1>4 DEF Fork, Makes
  <2> DEFINE c == [CallOf("fork", s) EXCEPT !.to = f]
  <2>2. c.op = "fork" /\ c.by = "caller"
    BY DEF CallOf
  <2> QED
    BY <2>1, <2>2
<1>5. CASE SetContextTokens(t)
  <2>1. PICK s \in Bound[t] : Enter(t, [CallOf("set", s) EXCEPT !.tokens = 1])
    BY <1>5 DEF SetContextTokens, Makes
  <2> DEFINE c == [CallOf("set", s) EXCEPT !.tokens = 1]
  <2>2. c.op = "set" /\ c.by = "caller"
    BY DEF CallOf
  <2> QED
    BY <2>1, <2>2
<1>6. CASE AddContextTokens(t)
  <2>1. PICK s \in Bound[t] : Enter(t, [CallOf("add", s) EXCEPT !.tokens = 1])
    BY <1>6 DEF AddContextTokens, Makes
  <2> DEFINE c == [CallOf("add", s) EXCEPT !.tokens = 1]
  <2>2. c.op = "add" /\ c.by = "caller"
    BY DEF CallOf
  <2> QED
    BY <2>1, <2>2
<1> QED
  BY <1>1, <1>2, <1>3, <1>4, <1>5, <1>6 DEF UserStep

\* A call that is made is the next one, is open, and changes nothing yet.
LEMMA EnterText ==
  ASSUME StoreInv, TextInv, NEW t \in Tasks, NEW c, Enter(t, c)
  PROVE  LET N == Len(called) + 1
         IN /\ Len(called') = N /\ Len(called) \in Nat /\ N \in 1..N
            /\ \A n \in 1..Len(called) : called'[n] = called[n] /\ n # N /\ n \in 1..N
            /\ called'[N] = c
            /\ Stored' = Stored /\ Stored \subseteq 1..Len(called)
            /\ UNCHANGED <<store, story, working>>
            /\ t \in Open' /\ mine'[t] = N /\ t \notin Open
            /\ \A u \in Tasks \ {t} : /\ mine'[u] = mine[u] /\ pc'[u] = pc[u]
                                      /\ reply'[u] = reply[u] /\ (u \in Open => u \in Open')
            /\ pc'[t] # "reading"
            /\ \A f \in 1..Len(called) : Kept(f)' = Kept(f) /\ Text(f)' = Text(f)
            /\ Own' = (IF c.by = "compaction" THEN Own \cup {N} ELSE Own)
            /\ WorkingOK'
            /\ Fewer(jobs, jobs')
<1> DEFINE N == Len(called) + 1
<1>0. /\ TypesOK /\ QueueOK(jobs) /\ LiveOK /\ CallsOK /\ OpenOK /\ jobs \in Seq(JobSet)
      /\ UNCHANGED <<store, story, working>> /\ called' = Append(called, c)
      /\ pc[t] = "idle"
  BY JobsTyped DEF StoreInv, CoreInv, Enter, databaseVars
<1>1. /\ Len(called') = N /\ Len(called) \in Nat
      /\ \A n \in 1..Len(called) : called'[n] = called[n]
      /\ called'[N] = c
  <2>1. called \in Seq(ToSet(called))
    BY <1>0 DEF CallsOK
  <2> QED
    BY <1>0, <2>1, OneMore
<1>2. Stored' = Stored /\ Stored \subseteq 1..Len(called)
  BY <1>0 DEF Stored, CallsOK, ToSet
<1>3. /\ pc'[t] \in {"waiting", "executing"}
      /\ \A u \in Tasks \ {t} : pc'[u] = pc[u] /\ mine'[u] = mine[u] /\ reply'[u] = reply[u]
      /\ mine'[t] = N
  BY <1>0, <1>1 DEF Enter, TypesOK, OpenOK
<1>4. t \in Open' /\ t \notin Open /\ pc'[t] # "reading"
      /\ \A u \in Tasks \ {t} : u \in Open => u \in Open'
  BY <1>0, <1>3 DEF Open
<1>5. \A f \in 1..Len(called) : Kept(f)' = Kept(f) /\ Text(f)' = Text(f)
  BY <1>0, <1>1 DEF Kept, Text
<1>6. N \in 1..N /\ \A n \in 1..Len(called) : n # N /\ n \in 1..N
  BY <1>1
<1>i. \A n \in 1..N : n \in 1..Len(called) \/ n = N
  BY <1>1
<1> HIDE DEF N
<1>7. Own' = (IF c.by = "compaction" THEN Own \cup {N} ELSE Own)
  BY <1>1, <1>6, <1>i DEF Own
<1>8. WorkingOK'
  <2>1. ASSUME NEW s \in Sessions \ Used,
               \A n \in 1..N : called'[n].op = "fork" /\ called'[n].to = s => n \in Stored
        PROVE  working[s] = store[s]
    <3>1. \A n \in 1..Len(called) : called[n].op = "fork" /\ called[n].to = s => n \in Stored
      BY <1>1, <1>6, <2>1
    <3> QED
      BY <3>1 DEF TextInv, WorkingOK
  <2> QED
    BY <1>0, <1>1, <1>2, <2>1 DEF TextInv, WorkingOK
<1>9. Fewer(jobs, jobs')
  <2>1. CASE jobs' = jobs
    BY <1>0, <2>1, FewerLeft
  <2>2. CASE jobs' # jobs
    <3>1. jobs' = Append(jobs, JobFor(t, "statement", Len(called'), 1))
      BY <2>2 DEF Enter
    <3> QED
      BY <1>0, <3>1, FewerAppended DEF JobFor
  <2> QED
    BY <2>1, <2>2
<1> QED
  BY <1>0, <1>1, <1>2, <1>3, <1>4, <1>5, <1>6, <1>7, <1>8, <1>9 DEF N

\* Reads are of tasks whose compaction waits for them.
LEMMA ReadsStay ==
  ASSUME StoreInv, TextInv, Fewer(jobs, jobs'), NEW t \in Tasks,
         pc[t] # "reading" \/ plan'[t].stage = plan[t].stage,
         \A u \in Tasks \ {t} : plan'[u] = plan[u]
  PROVE  ReadsOK'
<1>0. QueueOK(jobs) /\ LiveOK
  BY DEF StoreInv, CoreInv
<1> SUFFICES ASSUME NEW i \in 1..Len(jobs'), jobs'[i].live,
                    jobs'[i].do \in {"history", "tokens"}
             PROVE  plan'[jobs'[i].task].stage = ReadStage(jobs'[i].do)
  BY DEF ReadsOK
<1>1. PICK k \in 1..Len(jobs) :
        jobs[k].live /\ jobs[k].do = jobs'[i].do /\ jobs[k].task = jobs'[i].task
  BY DEF Fewer
<1>2. jobs[k].task \in Tasks /\ pc[jobs[k].task] = "reading"
  BY <1>0, <1>1, JobsTyped DEF LiveOK
<1>3. plan'[jobs[k].task].stage = plan[jobs[k].task].stage
  BY <1>2
<1> QED
  BY <1>1, <1>3 DEF TextInv, ReadsOK

\* A compaction's calls keep their places in its list.
LEMMA RewriteStays ==
  ASSUME NEW n, NEW f, RewriteOf(n, f), called'[n] = called[n], Text(f)' = Text(f),
         Rewrites \subseteq Rewrites', Stored \subseteq Stored',
         \A m \in Rewrites : called'[m] = called[m]
  PROVE  RewriteOf(n, f)'
<1>1. \A m \in Rewrites \cap Stored : m \in Rewrites' \cap Stored'
                                    /\ called'[m].rest = called[m].rest
  OBVIOUS
<1> QED
  BY <1>1 DEF RewriteOf

\* So does what a compaction has left to write.
LEMMA ListStays ==
  ASSUME NEW u, NEW f, ListOf(u, f), plan'[u] = plan[u],
         pc'[u] = "reading" => pc[u] = "reading" /\ reply'[u] = reply[u],
         Kept(f)' = Kept(f), Text(f)' = Text(f),
         Rewrites' = Rewrites, Stored \subseteq Stored',
         \A m \in Rewrites : called'[m] = called[m]
  PROVE  ListOf(u, f)'
<1>1. plan[u].stage = "write" => LeftOf(plan[u].list, f)
  BY DEF ListOf
<1>2. ASSUME plan[u].stage = "write"
      PROVE  LeftOf(plan[u].list, f)'
  <2> PICK L, text, list : L = Len(Text(f)) /\ text = Text(f) /\ list = plan[u].list
    OBVIOUS
  <2>1. PICK k \in 0..L :
          /\ list = SubSeq(text, k + 1, L)
          /\ \A n \in Rewrites : called[n].rest >= L - k
          /\ \A q \in (L - k)..L : \E n \in Rewrites : called[n].rest = q
    BY <1>1, <1>2 DEF LeftOf
  <2>2. \A m \in Rewrites : called'[m].rest = called[m].rest
    OBVIOUS
  <2>3. /\ \A n \in Rewrites' : called'[n].rest >= L - k
        /\ \A q \in (L - k)..L : \E n \in Rewrites' : called'[n].rest = q
    BY <2>1, <2>2
  <2>4. Text(f)' = text /\ L = Len(text) /\ plan'[u].list = list
    OBVIOUS
  <2>5. \E j \in 0..Len(Text(f)') :
          /\ plan'[u].list = SubSeq(Text(f)', j + 1, Len(Text(f)'))
          /\ \A n \in Rewrites' : called'[n].rest >= Len(Text(f)') - j
          /\ \A q \in (Len(Text(f)') - j)..Len(Text(f)') :
               \E n \in Rewrites' : called'[n].rest = q
    <3> HIDE DEF Text
    <3> WITNESS k \in 0..Len(Text(f)')
    <3> QED
      BY <2>1, <2>3, <2>4, Zenon
  <2> QED
    BY <2>5 DEF LeftOf
<1> QED
  BY <1>2 DEF ListOf

\* A caller makes a call; one that adds tokens may find that its session has to
\* be compacted.
LEMMA CallerText ==
  ASSUME StoreInv, TextInv, StoreInv', NEW t \in Tasks, UserStep(t)
  PROVE  TextInv'
<1> DEFINE N == Len(called) + 1
<1>1. PICK c : /\ Enter(t, c) /\ c.by = "caller"
               /\ c.op = "append" => Plain(c.messages) /\ Paired(c.messages)
  BY CallersSay
<1>2. /\ Len(called') = N /\ Len(called) \in Nat /\ N \in 1..N
      /\ \A n \in 1..Len(called) : called'[n] = called[n] /\ n # N /\ n \in 1..N
      /\ called'[N] = c
      /\ Stored' = Stored /\ Stored \subseteq 1..Len(called)
      /\ UNCHANGED <<store, story, working>>
      /\ \A u \in Tasks \ {t} : /\ mine'[u] = mine[u] /\ pc'[u] = pc[u]
                                /\ reply'[u] = reply[u] /\ (u \in Open => u \in Open')
      /\ pc'[t] # "reading"
      /\ \A f \in 1..Len(called) : Kept(f)' = Kept(f) /\ Text(f)' = Text(f)
      /\ WorkingOK' /\ Fewer(jobs, jobs')
  BY <1>1, EnterText
<1>3. Own' = Own
  BY <1>1, EnterText
<1>4. Own \subseteq 1..Len(called) /\ Snapshots \subseteq Own /\ Rewrites \subseteq Own
      /\ Snapshots' = Snapshots /\ Rewrites' = Rewrites
  BY <1>2, <1>3 DEF Own, Snapshots, Rewrites
<1>5. /\ plan[t].stage = "none" /\ pc[t] = "idle"
      /\ \/ UNCHANGED plan
         \/ /\ Uncompacted
            /\ \E s \in Bound[t] :
                 plan' = [plan EXCEPT ![t] = [NoPlan EXCEPT !.stage = "fork", !.session = s]]
  BY DEF UserStep, AppendOne, AppendMany, Clear, Fork, SetContextTokens, AddContextTokens,
         Makes, Enter
<1>i. \A n \in 1..N : n \in 1..Len(called) \/ n = N
  BY <1>2
<1> HIDE DEF N
<1>6. SaidOK'
  BY <1>1, <1>2, <1>i DEF TextInv, SaidOK
<1>o. \A n \in Own : called'[n] = called[n] /\ Kept(n)' = Kept(n) /\ Text(n)' = Text(n)
  BY <1>2, <1>4
<1>r. \A n \in Rewrites : called'[n] = called[n]
  BY <1>o, <1>4
<1>7. OwnOK'
  <2>1. ASSUME NEW n \in Own \ Snapshots
        PROVE  \E f \in Snapshots \cap Stored :
                 /\ called'[n].session = called'[f].session
                 /\ called'[n].op \in {"clear", "append", "set"}
                 /\ ~TooShort(Kept(f)', KeepRecent)
                 /\ RewriteOf(n, f)'
    <3>1. PICK f \in Snapshots \cap Stored :
            /\ called[n].session = called[f].session
            /\ called[n].op \in {"clear", "append", "set"}
            /\ ~TooShort(Kept(f), KeepRecent)
            /\ RewriteOf(n, f)
      BY DEF TextInv, OwnOK
    <3>2. /\ called'[n] = called[n] /\ called'[f] = called[f]
          /\ Kept(f)' = Kept(f) /\ Text(f)' = Text(f)
      BY <1>4, <1>o
    <3>3. RewriteOf(n, f)'
      BY <1>2, <1>4, <1>r, <3>1, <3>2, RewriteStays
    <3> QED
      BY <3>1, <3>2, <3>3
  <2> QED
    BY <1>2, <1>3, <1>4, <1>r, <2>1 DEF TextInv, OwnOK
<1>8. CASE UNCHANGED plan
  <2>1. ReadsOK'
    BY <1>2, <1>5, <1>8, ReadsStay
  <2>2. StagesOK'
    <3> SUFFICES ASSUME NEW u \in Tasks, plan[u].stage # "none"
                 PROVE  /\ \A v \in Tasks : plan[v].stage # "none" => v = u
                        /\ \A n \in Own : n \in Stored \/ (u \in Open' /\ n = mine'[u])
                        /\ plan[u].stage = "fork" => Own = {}
                        /\ plan[u].stage # "fork" => \E f \in Snapshots :
                             /\ called'[f].to = plan[u].fork
                             /\ called'[f].session = plan[u].session
                             /\ ListOf(u, f)'
      BY <1>2, <1>3, <1>4, <1>8 DEF StagesOK
    <3>1. /\ u # t /\ mine'[u] = mine[u] /\ pc'[u] = pc[u]
          /\ reply'[u] = reply[u] /\ (u \in Open => u \in Open')
      BY <1>2, <1>5
    <3>2. ASSUME NEW f \in Snapshots, ListOf(u, f)
          PROVE  ListOf(u, f)'
      <4>1. Kept(f)' = Kept(f) /\ Text(f)' = Text(f) /\ plan'[u] = plan[u]
        BY <1>4, <1>8, <1>o
      <4> QED
        BY <1>2, <1>4, <1>r, <3>1, <3>2, <4>1, ListStays
    <3>3. \A f \in Snapshots : called'[f] = called[f]
      BY <1>4, <1>o
    <3> QED
      BY <3>1, <3>2, <3>3 DEF TextInv, StagesOK
  <2> QED
    BY <1>2, <1>6, <1>7, <2>1, <2>2 DEF TextInv
<1>9. CASE ~UNCHANGED plan
  <2>1. PICK s \in Bound[t] :
          plan' = [plan EXCEPT ![t] = [NoPlan EXCEPT !.stage = "fork", !.session = s]]
    BY <1>5, <1>9
  <2>2. DOMAIN plan = Tasks
    BY DEF StoreInv, PlanOK
  <2>3. plan'[t].stage = "fork" /\ \A u \in Tasks \ {t} : plan'[u] = plan[u]
    BY <2>1, <2>2 DEF NoPlan
  <2>4. Own = {} /\ \A u \in Tasks : plan[u].stage = "none"
    <3>1. DOMAIN called = 1..Len(called)
      BY DEF StoreInv, CoreInv, CallsOK
    <3> QED
      BY <1>5, <1>9, <3>1 DEF Uncompacted, Own
  <2>5. ReadsOK'
    BY <1>2, <1>5, <2>3, ReadsStay
  <2>6. StagesOK'
    BY <1>3, <2>3, <2>4 DEF StagesOK
  <2> QED
    BY <1>2, <1>6, <1>7, <2>5, <2>6 DEF TextInv
<1> QED
  BY <1>8, <1>9

\* The compaction's task is outside of any call: all of them are stored.
LEMMA AllStored ==
  ASSUME StoreInv, TextInv, NEW t \in Tasks, plan[t].stage # "none", t \notin Open
  PROVE  /\ Own \subseteq Stored
         /\ \A u \in Tasks \ {t} : plan[u].stage = "none"
         /\ plan[t].stage = "fork" => Own = {}
         /\ plan[t].stage # "fork" => \E f \in Snapshots :
              /\ called[f].to = plan[t].fork /\ called[f].session = plan[t].session
              /\ ListOf(t, f)
  BY DEF TextInv, StagesOK

\* The compaction makes its snapshot.
LEMMA SnapshotText ==
  ASSUME StoreInv, TextInv, StoreInv', NEW t \in Tasks, TakeSnapshot(t)
  PROVE  TextInv'
<1>n. PICK N : N = Len(called) + 1
  OBVIOUS
<1>1. PICK f \in Fresh :
        /\ Enter(t, [OwnCall("fork", t, 0) EXCEPT !.to = f])
        /\ plan' = [plan EXCEPT ![t].stage = "snapshot", ![t].fork = f]
  BY DEF TakeSnapshot
<1> DEFINE c == [OwnCall("fork", t, 0) EXCEPT !.to = f]
<1>2. c = [op |-> "fork", session |-> plan[t].session, to |-> f, messages |-> <<>>,
           tokens |-> 0, by |-> "compaction", rest |-> 0]
  BY OwnCallIs
<1>e. Enter(t, c)
  BY <1>1
<1> HIDE DEF c
<1>3. c.op = "fork" /\ c.session = plan[t].session /\ c.to = f /\ c.by = "compaction"
  BY <1>2
<1>4. /\ Len(called') = N /\ Len(called) \in Nat /\ N \in 1..N
      /\ \A n \in 1..Len(called) : called'[n] = called[n] /\ n # N /\ n \in 1..N
      /\ called'[N] = c
      /\ Stored' = Stored /\ Stored \subseteq 1..Len(called)
      /\ t \in Open' /\ mine'[t] = N /\ t \notin Open
      /\ pc'[t] # "reading"
      /\ WorkingOK' /\ Fewer(jobs, jobs')
  BY <1>n, <1>e, EnterText
<1>5. Own' = Own \cup {N}
  BY <1>n, <1>e, <1>3, EnterText
<1>6. plan[t].stage = "fork" /\ pc[t] = "idle"
  BY <1>e DEF TakeSnapshot, Enter
<1>7. Own = {} /\ \A u \in Tasks \ {t} : plan[u].stage = "none"
  BY <1>4, <1>6, AllStored
<1>i. \A n \in 1..N : n \in 1..Len(called) \/ n = N
  BY <1>n, <1>4
<1>8. Own' = {N} /\ Snapshots' = {N} /\ Rewrites' = {}
  BY <1>3, <1>4, <1>5, <1>7 DEF Snapshots, Rewrites
<1>9. /\ plan'[t].stage = "snapshot" /\ plan'[t].fork = f
      /\ plan'[t].session = plan[t].session
      /\ \A u \in Tasks \ {t} : plan'[u] = plan[u]
  <2>1. DOMAIN plan = Tasks /\ PlanAllows(t, plan[t], pc[t])
    BY DEF StoreInv, PlanOK
  <2>2. {"stage", "session", "fork"} \subseteq DOMAIN plan[t]
    BY <2>1 DEF PlanAllows
  <2> QED
    BY <1>1, <2>1, <2>2
<1>a. SaidOK'
  BY <1>3, <1>4, <1>i DEF TextInv, SaidOK
<1>b. OwnOK'
  BY <1>8 DEF OwnOK
<1>c. ReadsOK'
  BY <1>4, <1>6, <1>9, ReadsStay
<1>d. StagesOK'
  <2>1. ListOf(t, N)'
    BY <1>4, <1>8, <1>9 DEF ListOf, LeftOf
  <2>2. ASSUME NEW u \in Tasks, plan'[u].stage # "none"
        PROVE  u = t
    BY <1>7, <1>9, <2>2
  <2>3. \A n \in Own' : t \in Open' /\ n = mine'[t]
    BY <1>4, <1>8
  <2>4. \E g \in Snapshots' :
          /\ called'[g].to = plan'[t].fork /\ called'[g].session = plan'[t].session
          /\ ListOf(t, g)'
    BY <1>3, <1>4, <1>8, <1>9, <2>1
  <2> QED
    BY <1>9, <2>2, <2>3, <2>4 DEF StagesOK
<1> QED
  BY <1>4, <1>a, <1>b, <1>c, <1>d DEF TextInv

\* What a compaction writes is a list.
LEMMA TextIs ==
  ASSUME StoreInv, NEW f \in Snapshots, ~TooShort(Kept(f), KeepRecent)
  PROVE  Text(f) \in Seq(ToSet(Text(f))) /\ Len(Text(f)) \in Nat \ {0}
<1> DEFINE h == Kept(f)
           S == ToSet(h)
           b == SafeBoundary(h, KeepRecent)
           front == <<Summary(SubSeq(h, 1, b)), Acknowledgement>>
           back == SubSeq(h, b + 1, Len(h))
<1>1. h \in Seq(S)
  <2>1. f \in 1..Len(called) /\ IsCall(called[f])
    BY DEF Snapshots, Own, StoreInv, CoreInv, CallsOK
  <2>2. IsSession(store[called[f].to])
    BY <2>1 DEF IsCall, StoreInv, CoreInv, SessionsOK
  <2> QED
    BY <2>2 DEF Kept, IsSession
<1> HIDE DEF h, S
<1>2. b \in 1..(Len(h) - 1) /\ Len(h) \in Nat
  BY <1>1, BoundaryIsSafe DEF h
<1> HIDE DEF b
<1>3. back \in Seq(S)
  BY <1>1, <1>2
<1> DEFINE T == S \cup {Summary(SubSeq(h, 1, b)), Acknowledgement}
<1>4. back \in Seq(T)
  BY <1>3, SeqMonotonic DEF T
<1>5. front \in Seq(T) /\ Len(front) = 2
  BY DEF T
<1>6. Text(f) = front \o back
  BY DEF Text, Compacted, h, b
<1> HIDE DEF front, back, T
<1>7. Text(f) \in Seq(T) /\ Len(Text(f)) = 2 + Len(back) /\ Len(back) \in Nat
  <2>1. front \o back \in Seq(T) /\ Len(front \o back) = Len(front) + Len(back)
    BY <1>4, <1>5, ConcatProperties, Zenon
  <2>2. Len(back) \in Nat
    BY <1>4, LenProperties, Zenon
  <2> QED
    BY <1>5, <1>6, <2>1, <2>2
<1> QED
  BY <1>7, IsASequence

\* What is left of a list.
LEMMA RestOf ==
  ASSUME NEW S, NEW s \in Seq(S), NEW k \in 0..Len(s)
  PROVE  /\ Len(SubSeq(s, k + 1, Len(s))) = Len(s) - k
         /\ SubSeq(s, 1, Len(s)) = s
         /\ k < Len(s) =>
              /\ Head(SubSeq(s, k + 1, Len(s))) = s[k + 1]
              /\ Tail(SubSeq(s, k + 1, Len(s))) = SubSeq(s, (k + 1) + 1, Len(s))
<1>1. Len(s) \in Nat
  OBVIOUS
<1>2. Len(SubSeq(s, k + 1, Len(s))) = Len(s) - k
  BY <1>1
<1>3. SubSeq(s, 1, Len(s)) = s
  OBVIOUS
<1>4. ASSUME k < Len(s)
      PROVE  /\ Head(SubSeq(s, k + 1, Len(s))) = s[k + 1]
             /\ Tail(SubSeq(s, k + 1, Len(s))) = SubSeq(s, (k + 1) + 1, Len(s))
  BY <1>1, <1>4
<1> QED
  BY <1>2, <1>3, <1>4

\* What a compaction's call that is not its snapshot changes.
LEMMA OwnCallAdds ==
  ASSUME StoreInv, TextInv, NEW t \in Tasks, NEW c, Enter(t, c),
         c.by = "compaction", c.op # "fork", NEW N, N = Len(called) + 1
  PROVE  /\ Own' = Own \cup {N} /\ Snapshots' = Snapshots
         /\ Rewrites' = (IF c.op \in {"clear", "append"} THEN Rewrites \cup {N} ELSE Rewrites)
         /\ called'[N] = c /\ N \notin Own /\ Snapshots \subseteq Own /\ Rewrites \subseteq Own
         /\ \A n \in Own : called'[n] = called[n] /\ Kept(n)' = Kept(n) /\ Text(n)' = Text(n)
<1>1. /\ N \in 1..N /\ Len(called') = N
      /\ \A n \in 1..Len(called) : called'[n] = called[n] /\ n # N /\ n \in 1..N
      /\ called'[N] = c
      /\ \A f \in 1..Len(called) : Kept(f)' = Kept(f) /\ Text(f)' = Text(f)
  BY EnterText
<1>2. Own' = Own \cup {N}
  BY EnterText
<1>3. Own \subseteq 1..Len(called) /\ Snapshots \subseteq Own /\ Rewrites \subseteq Own
  BY DEF Own, Snapshots, Rewrites
<1>4. \A n \in Own : called'[n] = called[n] /\ Kept(n)' = Kept(n) /\ Text(n)' = Text(n)
  BY <1>1, <1>3
<1>5. N \notin Own
  BY <1>1, <1>3
<1>6. Snapshots' = Snapshots
  BY <1>1, <1>2, <1>4, <1>5 DEF Snapshots
<1>7. Rewrites' = (IF c.op \in {"clear", "append"} THEN Rewrites \cup {N} ELSE Rewrites)
  BY <1>1, <1>2, <1>4, <1>5 DEF Rewrites
<1> QED
  BY <1>1, <1>2, <1>3, <1>4, <1>5, <1>6, <1>7

\* A compaction makes a call of its rewriting.
LEMMA RewriteText ==
  ASSUME StoreInv, TextInv, StoreInv', NEW t \in Tasks, NEW c, Enter(t, c),
         c.by = "compaction", c.op \in {"clear", "append", "set"},
         plan[t].stage \in {"clear", "write"}, c.session = plan[t].session,
         NEW N, N = Len(called) + 1,
         NEW f \in Snapshots, f \in Stored, ~TooShort(Kept(f), KeepRecent),
         called[f].session = plan[t].session, called[f].to = plan[t].fork,
         c.op # "set" => \A m \in Rewrites : called[m].rest # c.rest,
         RewriteOf(N, f)',
         \A u \in Tasks \ {t} : plan'[u] = plan[u],
         plan'[t].stage # "none" =>
           /\ plan'[t].stage = "write" /\ ListOf(t, f)'
           /\ plan'[t].session = plan[t].session /\ plan'[t].fork = plan[t].fork
  PROVE  TextInv'
<1>1. /\ Len(called') = N /\ Len(called) \in Nat /\ N \in 1..N
      /\ \A n \in 1..Len(called) : called'[n] = called[n] /\ n # N /\ n \in 1..N
      /\ Stored' = Stored
      /\ t \in Open' /\ mine'[t] = N /\ t \notin Open
      /\ WorkingOK' /\ Fewer(jobs, jobs')
  BY EnterText
<1>2. /\ Own' = Own \cup {N} /\ Snapshots' = Snapshots
      /\ Rewrites' = (IF c.op \in {"clear", "append"} THEN Rewrites \cup {N} ELSE Rewrites)
      /\ called'[N] = c /\ N \notin Own /\ Snapshots \subseteq Own /\ Rewrites \subseteq Own
      /\ \A n \in Own : called'[n] = called[n] /\ Kept(n)' = Kept(n) /\ Text(n)' = Text(n)
  BY OwnCallAdds
<1>3. Own \subseteq Stored /\ \A u \in Tasks \ {t} : plan[u].stage = "none"
  BY <1>1, AllStored
<1>4. pc[t] = "idle"
  BY DEF Enter
<1>i. \A n \in 1..N : n \in 1..Len(called) \/ n = N
  BY <1>1
<1>5. SaidOK'
  BY <1>1, <1>2, <1>i DEF TextInv, SaidOK
<1>6. ReadsOK'
  BY <1>1, <1>3, <1>4, ReadsStay
<1>7. OwnOK'
  <2>1. ASSUME NEW n \in Own' \ Snapshots'
        PROVE  \E g \in Snapshots \cap Stored :
                 /\ called'[n].session = called'[g].session
                 /\ called'[n].op \in {"clear", "append", "set"}
                 /\ ~TooShort(Kept(g)', KeepRecent)
                 /\ RewriteOf(n, g)'
    <3>1. CASE n = N
      BY <1>2, <3>1
    <3>2. CASE n # N
      <4>1. n \in Own \ Snapshots
        BY <1>2, <2>1, <3>2
      <4>2. PICK g \in Snapshots \cap Stored :
              /\ called[n].session = called[g].session
              /\ called[n].op \in {"clear", "append", "set"}
              /\ ~TooShort(Kept(g), KeepRecent)
              /\ RewriteOf(n, g)
        BY <4>1 DEF TextInv, OwnOK
      <4>3. /\ called'[n] = called[n] /\ called'[g] = called[g]
            /\ Kept(g)' = Kept(g) /\ Text(g)' = Text(g)
        BY <1>2, <4>1
      <4>4. RewriteOf(n, g)'
        BY <1>1, <1>2, <4>2, <4>3, RewriteStays
      <4> QED
        BY <4>2, <4>3, <4>4
    <3> QED
      BY <3>1, <3>2
  <2>2. \A m, n \in Rewrites' : called'[m].rest = called'[n].rest => m = n
    <3>1. \A m, n \in Rewrites : called[m].rest = called[n].rest => m = n
      BY DEF TextInv, OwnOK
    <3>2. \A m \in Rewrites : called'[m] = called[m]
      BY <1>2
    <3>3. CASE c.op = "set"
      BY <1>2, <3>1, <3>2, <3>3
    <3>4. CASE c.op # "set"
      <4>1. \A m \in Rewrites : called'[m].rest # called'[N].rest
        BY <1>2, <3>2, <3>4
      <4> QED
        BY <1>2, <3>1, <3>2, <4>1
    <3> QED
      BY <3>3, <3>4
  <2>3. \A g, h \in Snapshots' : g = h
    BY <1>2 DEF TextInv, OwnOK
  <2> QED
    BY <1>1, <1>2, <2>1, <2>2, <2>3 DEF OwnOK
<1>8. StagesOK'
  <2>1. ASSUME NEW u \in Tasks, plan'[u].stage # "none"
        PROVE  u = t
    BY <1>3, <2>1
  <2>2. \A n \in Own' : n \in Stored' \/ (t \in Open' /\ n = mine'[t])
    BY <1>1, <1>2, <1>3
  <2>3. ASSUME plan'[t].stage # "none"
        PROVE  /\ plan'[t].stage # "fork"
               /\ \E g \in Snapshots' :
                    /\ called'[g].to = plan'[t].fork /\ called'[g].session = plan'[t].session
                    /\ ListOf(t, g)'
    BY <1>2, <2>3
  <2> QED
    BY <2>1, <2>2, <2>3 DEF StagesOK
<1> QED
  BY <1>1, <1>5, <1>6, <1>7, <1>8 DEF TextInv

\* The snapshot of a compaction that rewrites its session.
LEMMA SnapshotOf ==
  ASSUME StoreInv, TextInv, NEW t \in Tasks, pc[t] = "idle",
         plan[t].stage \in {"clear", "write"}
  PROVE  \E f \in Snapshots :
           /\ f \in Stored /\ ~TooShort(Kept(f), KeepRecent) /\ ListOf(t, f)
           /\ called[f].session = plan[t].session /\ called[f].to = plan[t].fork
<1>1. t \notin Open
  BY DEF Open
<1>2. PICK f \in Snapshots :
        /\ called[f].to = plan[t].fork /\ called[f].session = plan[t].session
        /\ ListOf(t, f)
  BY <1>1, AllStored
<1> QED
  BY <1>2 DEF ListOf, LeftOf

\* The compaction clears its session.
LEMMA ClearText ==
  ASSUME StoreInv, TextInv, StoreInv', NEW t \in Tasks, ClearForRewrite(t)
  PROVE  TextInv'
<1> DEFINE c == OwnCall("clear", t, Len(plan[t].list))
<1>1. /\ Enter(t, c) /\ plan[t].stage = "clear" /\ pc[t] = "idle"
      /\ plan' = [plan EXCEPT ![t].stage = "write"]
  BY DEF ClearForRewrite, Enter
<1>2. c.op = "clear" /\ c.session = plan[t].session /\ c.by = "compaction"
      /\ c.rest = Len(plan[t].list)
  BY OwnCallIs
<1> HIDE DEF c
<1>3. PICK f \in Snapshots :
        /\ f \in Stored /\ ~TooShort(Kept(f), KeepRecent) /\ ListOf(t, f)
        /\ called[f].session = plan[t].session /\ called[f].to = plan[t].fork
  BY <1>1, SnapshotOf
<1>4. Rewrites = {} /\ plan[t].list = Text(f)
  BY <1>1, <1>3 DEF ListOf, LeftOf
<1>n. PICK N : N = Len(called) + 1
  OBVIOUS
<1>5. /\ Rewrites' = {N} /\ called'[N] = c /\ Text(f)' = Text(f) /\ Kept(f)' = Kept(f)
  <2>1. /\ Rewrites' = Rewrites \cup {N} /\ called'[N] = c /\ Snapshots \subseteq Own
        /\ \A n \in Own : Kept(n)' = Kept(n) /\ Text(n)' = Text(n)
    BY <1>1, <1>2, <1>n, OwnCallAdds
  <2> QED
    BY <1>4, <2>1
<1>6. Text(f) \in Seq(ToSet(Text(f))) /\ Len(Text(f)) \in Nat
  BY <1>3, TextIs
<1>7. RewriteOf(N, f)'
  <2>1. (Len(Text(f)) + 1)..Len(Text(f)) = {}
    BY <1>6
  <2> QED
    BY <1>2, <1>4, <1>5, <2>1 DEF RewriteOf
<1>8. /\ plan'[t].stage = "write" /\ plan'[t].session = plan[t].session
      /\ plan'[t].fork = plan[t].fork /\ plan'[t].list = plan[t].list
      /\ \A u \in Tasks \ {t} : plan'[u] = plan[u]
  <2>1. DOMAIN plan = Tasks /\ PlanAllows(t, plan[t], pc[t])
    BY DEF StoreInv, PlanOK
  <2>2. {"stage", "session", "fork", "list"} \subseteq DOMAIN plan[t]
    BY <2>1 DEF PlanAllows
  <2> QED
    BY <1>1, <2>1, <2>2
<1>9. ListOf(t, f)'
  <2> DEFINE L == Len(Text(f))
  <2>1. Text(f) = SubSeq(Text(f), 1, L) /\ 0 \in 0..L /\ 0 + 1 = 1 /\ L - 0 = L
    BY <1>6, RestOf
  <2>2. /\ \A n \in {N} : called'[n].rest >= L
        /\ \A q \in L..L : \E n \in {N} : called'[n].rest = q
    BY <1>2, <1>4, <1>5, <1>6
  <2>3. Stored' = Stored
    BY <1>1, EnterText
  <2>4. \E k \in 0..L :
          /\ plan'[t].list = SubSeq(Text(f), k + 1, L)
          /\ \A n \in {N} : called'[n].rest >= L - k
          /\ \A q \in (L - k)..L : \E n \in {N} : called'[n].rest = q
    BY <1>4, <1>8, <2>1, <2>2
  <2> HIDE DEF L
  <2> QED
    BY <1>3, <1>5, <1>8, <2>3, <2>4 DEF ListOf, LeftOf, L
<1> QED
  BY <1>1, <1>2, <1>3, <1>4, <1>7, <1>8, <1>9, <1>n, RewriteText

\* It writes the next message of its list.
LEMMA WriteText ==
  ASSUME StoreInv, TextInv, StoreInv', NEW t \in Tasks, WriteNext(t)
  PROVE  TextInv'
<1> DEFINE c == [OwnCall("append", t, Len(plan[t].list) - 1)
                   EXCEPT !.messages = <<Head(plan[t].list)>>]
<1>1. /\ Enter(t, c) /\ plan[t].stage = "write" /\ plan[t].list # <<>> /\ pc[t] = "idle"
      /\ plan' = [plan EXCEPT ![t].list = Tail(@)]
  BY DEF WriteNext, Enter
<1>2. c = [op |-> "append", session |-> plan[t].session, to |-> plan[t].session,
           messages |-> <<Head(plan[t].list)>>, tokens |-> 0, by |-> "compaction",
           rest |-> Len(plan[t].list) - 1]
  BY OwnCallIs
<1> HIDE DEF c
<1>3. /\ c.op = "append" /\ c.session = plan[t].session /\ c.by = "compaction"
      /\ c.rest = Len(plan[t].list) - 1 /\ c.messages = <<Head(plan[t].list)>>
  BY <1>2
<1>4. PICK f \in Snapshots :
        /\ f \in Stored /\ ~TooShort(Kept(f), KeepRecent) /\ ListOf(t, f)
        /\ called[f].session = plan[t].session /\ called[f].to = plan[t].fork
  BY <1>1, SnapshotOf
<1>n. PICK N : N = Len(called) + 1
  OBVIOUS
<1>5. PICK L : L = Len(Text(f))
  OBVIOUS
<1>6. PICK k \in 0..L :
        /\ plan[t].list = SubSeq(Text(f), k + 1, L)
        /\ \A n \in Rewrites : called[n].rest >= L - k
        /\ \A q \in (L - k)..L : \E n \in Rewrites : called[n].rest = q
  BY <1>1, <1>4, <1>5 DEF ListOf, LeftOf
<1>7. Text(f) \in Seq(ToSet(Text(f))) /\ L \in Nat
  BY <1>4, <1>5, TextIs
<1>8. /\ Len(plan[t].list) = L - k /\ k < L
      /\ Head(plan[t].list) = Text(f)[k + 1]
      /\ Tail(plan[t].list) = SubSeq(Text(f), (k + 1) + 1, L)
  <2>1. Len(plan[t].list) = L - k
    BY <1>5, <1>6, <1>7, RestOf
  <2>2. k < L
    <3> SUFFICES ASSUME k = L PROVE FALSE
      BY <1>6, <1>7
    <3>1. SubSeq(Text(f), k + 1, L) = <<>>
      BY <1>7
    <3> QED
      BY <1>1, <1>6, <3>1
  <2> QED
    BY <1>5, <1>6, <1>7, <2>1, <2>2, RestOf
<1>9. /\ Rewrites' = Rewrites \cup {N} /\ called'[N] = c /\ N \notin Own
      /\ \A n \in Rewrites : called'[n] = called[n]
      /\ Text(f)' = Text(f) /\ Kept(f)' = Kept(f) /\ Rewrites \subseteq Stored
      /\ Stored' = Stored
  <2>1. /\ Rewrites' = Rewrites \cup {N} /\ called'[N] = c /\ N \notin Own
        /\ Snapshots \subseteq Own /\ Rewrites \subseteq Own
        /\ \A n \in Own : called'[n] = called[n] /\ Kept(n)' = Kept(n) /\ Text(n)' = Text(n)
    BY <1>1, <1>3, <1>n, OwnCallAdds
  <2>2. Own \subseteq Stored
    BY <1>1, AllStored DEF Open
  <2>3. Stored' = Stored
    BY <1>1, EnterText
  <2> QED
    BY <2>1, <2>2, <2>3
<1>a. c.rest = L - (k + 1) /\ \A m \in Rewrites : called[m].rest # c.rest
  <2>0. L \in Nat /\ k \in 0..L /\ c.rest = (L - k) - 1
    BY <1>3, <1>7, <1>8, Zenon
  <2>1. c.rest = L - (k + 1) /\ L - k > L - (k + 1) /\ L - k \in Int
    BY <2>0
  <2>2. c.rest \in Int /\ ~(c.rest >= L - k)
    BY <2>0
  <2> QED
    BY <1>6, <2>1, <2>2
<1>b. RewriteOf(N, f)'
  <2>1. c.rest \in 0..(L - 1) /\ L - c.rest = k + 1 /\ c.rest + 1 = L - k
    <3>1. L \in Nat /\ k \in 0..L /\ k < L /\ c.rest = L - (k + 1)
      BY <1>7, <1>8, <1>a, Zenon
    <3> QED
      BY <3>1
  <2>2. c.messages = <<Text(f)[L - c.rest]>>
    BY <1>3, <1>8, <2>1
  <2>3. \A q \in (c.rest + 1)..L : \E m \in Rewrites' \cap Stored' : called'[m].rest = q
    BY <1>6, <1>9, <2>1
  <2> QED
    BY <1>3, <1>5, <1>9, <2>1, <2>2, <2>3 DEF RewriteOf
<1>c. /\ plan'[t].stage = "write" /\ plan'[t].session = plan[t].session
      /\ plan'[t].fork = plan[t].fork /\ plan'[t].list = Tail(plan[t].list)
      /\ \A u \in Tasks \ {t} : plan'[u] = plan[u]
  <2>1. DOMAIN plan = Tasks /\ PlanAllows(t, plan[t], pc[t])
    BY DEF StoreInv, PlanOK
  <2>2. {"stage", "session", "fork", "list"} \subseteq DOMAIN plan[t]
    BY <2>1 DEF PlanAllows
  <2> QED
    BY <1>1, <2>1, <2>2
<1>d. ListOf(t, f)'
  <2>1. k + 1 \in 0..L /\ \A r : r >= L - k /\ r \in Int => r >= L - (k + 1)
    BY <1>6, <1>7, <1>8
  <2>2. \A n \in Rewrites' : called'[n].rest >= L - (k + 1)
    <3>1. ASSUME NEW n \in Rewrites PROVE called[n].rest >= L - (k + 1)
      <4>1. called[n].rest \in Int
        <5>1. PICK g \in Snapshots \cap Stored :
                ~TooShort(Kept(g), KeepRecent) /\ RewriteOf(n, g)
          BY DEF TextInv, OwnOK, Rewrites, Snapshots
        <5>2. Len(Text(g)) \in Nat /\ called[n].op \in {"clear", "append"}
          BY <5>1, TextIs DEF Rewrites
        <5> QED
          BY <5>1, <5>2 DEF RewriteOf
      <4> QED
        BY <1>6, <2>1, <4>1
    <3>2. c.rest >= L - (k + 1)
      BY <1>6, <1>7, <1>a
    <3> QED
      BY <1>9, <3>1, <3>2
  <2>3. \A q \in (L - (k + 1))..L : \E n \in Rewrites' : called'[n].rest = q
    <3> SUFFICES ASSUME NEW q \in (L - (k + 1))..L
                 PROVE  \E n \in Rewrites' : called'[n].rest = q
      OBVIOUS
    <3>1. q = L - (k + 1) \/ q \in (L - k)..L
      BY <1>6, <1>7
    <3> QED
      BY <1>6, <1>9, <1>a, <3>1
  <2>4. \E j \in 0..L :
          /\ plan'[t].list = SubSeq(Text(f), j + 1, L)
          /\ \A n \in Rewrites' : called'[n].rest >= L - j
          /\ \A q \in (L - j)..L : \E n \in Rewrites' : called'[n].rest = q
    BY <1>8, <1>c, <2>1, <2>2, <2>3
  <2>5. LeftOf(plan[t].list, f)'
    BY <1>5, <1>9, <2>4 DEF LeftOf
  <2> QED
    BY <1>4, <1>5, <1>9, <1>c, <2>5 DEF ListOf
<1> QED
  BY <1>1, <1>3, <1>4, <1>a, <1>b, <1>c, <1>d, <1>n, RewriteText

\* It has written them all, and puts the tokens back.
LEMMA RestoreText ==
  ASSUME StoreInv, TextInv, StoreInv', NEW t \in Tasks, RestoreTokens(t)
  PROVE  TextInv'
<1> DEFINE c == [OwnCall("set", t, 0) EXCEPT !.tokens = plan[t].tokens]
<1>1. /\ Enter(t, c) /\ plan[t].stage = "write" /\ plan[t].list = <<>> /\ pc[t] = "idle"
      /\ plan' = [plan EXCEPT ![t] = NoPlan]
  BY DEF RestoreTokens, Enter
<1>2. c = [op |-> "set", session |-> plan[t].session, to |-> plan[t].session,
           messages |-> <<>>, tokens |-> plan[t].tokens, by |-> "compaction", rest |-> 0]
  BY OwnCallIs
<1> HIDE DEF c
<1>3. /\ c.op = "set" /\ c.session = plan[t].session /\ c.by = "compaction" /\ c.rest = 0
  BY <1>2
<1>4. PICK f \in Snapshots :
        /\ f \in Stored /\ ~TooShort(Kept(f), KeepRecent) /\ ListOf(t, f)
        /\ called[f].session = plan[t].session /\ called[f].to = plan[t].fork
  BY <1>1, SnapshotOf
<1>n. PICK N : N = Len(called) + 1
  OBVIOUS
<1>5. PICK L : L = Len(Text(f))
  OBVIOUS
<1>6. PICK k \in 0..L :
        /\ plan[t].list = SubSeq(Text(f), k + 1, L)
        /\ \A q \in (L - k)..L : \E n \in Rewrites : called[n].rest = q
  BY <1>1, <1>4, <1>5 DEF ListOf, LeftOf
<1>7. Text(f) \in Seq(ToSet(Text(f))) /\ L \in Nat
  BY <1>4, <1>5, TextIs
<1>8. L - k = 0
  <2>1. Len(plan[t].list) = L - k
    BY <1>5, <1>6, <1>7, RestOf
  <2> QED
    BY <1>1, <2>1
<1>9. /\ Rewrites' = Rewrites /\ called'[N] = c
      /\ \A n \in Rewrites : called'[n] = called[n]
      /\ Text(f)' = Text(f) /\ Rewrites \subseteq Stored /\ Stored' = Stored
  <2>1. /\ Rewrites' = Rewrites /\ called'[N] = c
        /\ Snapshots \subseteq Own /\ Rewrites \subseteq Own
        /\ \A n \in Own : called'[n] = called[n] /\ Kept(n)' = Kept(n) /\ Text(n)' = Text(n)
    BY <1>1, <1>3, <1>n, OwnCallAdds
  <2>2. Own \subseteq Stored
    BY <1>1, AllStored DEF Open
  <2>3. Stored' = Stored
    BY <1>1, EnterText
  <2> QED
    BY <2>1, <2>2, <2>3
<1>a. RewriteOf(N, f)'
  <2>1. \A q \in 1..L : q \in (L - k)..L
    BY <1>7, <1>8
  <2>2. \A q \in (c.rest + 1)..L : \E m \in Rewrites' \cap Stored' : called'[m].rest = q
    BY <1>3, <1>6, <1>9, <2>1
  <2> QED
    BY <1>3, <1>5, <1>9, <2>2 DEF RewriteOf
<1>b. plan'[t].stage = "none" /\ \A u \in Tasks \ {t} : plan'[u] = plan[u]
  BY <1>1 DEF NoPlan, StoreInv, PlanOK
<1> QED
  BY <1>1, <1>3, <1>4, <1>a, <1>b, <1>n, RewriteText

\* The compaction goes on to its next stage, outside of any call.
LEMMA NextStage ==
  ASSUME StoreInv, TextInv, StoreInv', NEW t \in Tasks,
         UNCHANGED <<called, store, story, working, mine>>, Open' = Open, t \notin Open,
         plan[t].stage \notin {"none", "fork"}, plan'[t].stage \notin {"none", "fork"},
         plan'[t].fork = plan[t].fork, plan'[t].session = plan[t].session,
         \A u \in Tasks \ {t} : plan'[u] = plan[u],
         \A f \in Snapshots \cap Stored : ListOf(t, f) =>
           (Kept(f)' = Kept(f) /\ Text(f)' = Text(f) /\ Rewrites' = Rewrites
              /\ Stored' = Stored => ListOf(t, f)'),
         ReadsOK'
  PROVE  TextInv'
<1>1. /\ Own' = Own /\ Snapshots' = Snapshots /\ Rewrites' = Rewrites /\ Stored' = Stored
      /\ \A f \in Own : Kept(f)' = Kept(f) /\ Text(f)' = Text(f)
      /\ Snapshots \subseteq Own
  BY DEF Own, Snapshots, Rewrites, Stored, Kept, Text
<1>2. SaidOK' /\ OwnOK' /\ WorkingOK'
  <2>1. SaidOK' /\ WorkingOK'
    BY <1>1 DEF TextInv, SaidOK, WorkingOK
  <2>2. OwnOK'
    BY <1>1 DEF TextInv, OwnOK, RewriteOf
  <2> QED
    BY <2>1, <2>2
<1>3. Own \subseteq Stored /\ \A u \in Tasks \ {t} : plan[u].stage = "none"
  BY AllStored
<1>4. PICK f \in Snapshots :
        called[f].to = plan[t].fork /\ called[f].session = plan[t].session /\ ListOf(t, f)
  BY AllStored
<1>5. ListOf(t, f)'
  BY <1>1, <1>3, <1>4
<1>6. StagesOK'
  BY <1>1, <1>3, <1>4, <1>5 DEF StagesOK
<1> QED
  BY <1>2, <1>6 DEF TextInv

\* The compaction posts a read.
LEMMA StartReadText ==
  ASSUME StoreInv, TextInv, StoreInv', NEW t \in Tasks, StartRead(t)
  PROVE  TextInv'
<1> DEFINE job == Job(t, IF plan[t].stage = "tokens" THEN "tokens" ELSE "history")
<1>1. /\ pc[t] = "idle" /\ plan[t].stage \in {"snapshot", "tokens"}
      /\ pc' = [pc EXCEPT ![t] = "reading"]
      /\ jobs' = Append(jobs, job)
      /\ UNCHANGED <<store, story, working, called, mine, reply, plan>>
  BY DEF StartRead, databaseVars
<1>2. job.task = t /\ ReadStage(job.do) = plan[t].stage
  BY <1>1 DEF Job, JobFor, ReadStage
<1> HIDE DEF job
<1>3. TypesOK /\ WaitOK /\ QueueOK(jobs) /\ jobs \in Seq(JobSet) /\ reply[t] = "none"
  BY <1>1, JobsTyped DEF StoreInv, CoreInv, WaitOK
<1>4. Open' = Open /\ t \notin Open
  BY <1>1, <1>3 DEF Open, TypesOK
<1>5. /\ Len(jobs') = Len(jobs) + 1 /\ Len(jobs) \in Nat
      /\ \A i \in 1..Len(jobs) : jobs'[i] = jobs[i]
      /\ jobs'[Len(jobs) + 1] = job
  <2>1. jobs \in Seq(ToSet(jobs))
    BY <1>3, IsASequence
  <2> QED
    BY <1>1, <2>1, OneMore
<1>6. ReadsOK'
  <2> SUFFICES ASSUME NEW i \in 1..Len(jobs'), jobs'[i].live,
                      jobs'[i].do \in {"history", "tokens"}
               PROVE  plan[jobs'[i].task].stage = ReadStage(jobs'[i].do)
    BY <1>1 DEF ReadsOK
  <2>1. i \in 1..Len(jobs) \/ i = Len(jobs) + 1
    BY <1>5
  <2> QED
    BY <1>2, <1>5, <2>1 DEF TextInv, ReadsOK
<1>7. ASSUME NEW f \in Snapshots \cap Stored, ListOf(t, f),
             Kept(f)' = Kept(f), Text(f)' = Text(f), Rewrites' = Rewrites, Stored' = Stored
      PROVE  ListOf(t, f)'
  BY <1>1, <1>3, <1>7 DEF ListOf, LeftOf
<1> QED
  BY <1>1, <1>4, <1>6, <1>7, NextStage

\* A read is over, or the summary has come.
LEMMA NextStageText ==
  ASSUME StoreInv, TextInv, StoreInv', NEW t \in Tasks, EndRead(t) \/ Summarised(t)
  PROVE  TextInv'
<1>0. /\ TypesOK /\ QueueOK(jobs) /\ LiveOK /\ PlanOK
      /\ UNCHANGED <<called, store, story, working, mine, jobs>>
      /\ DOMAIN plan = Tasks /\ PlanAllows(t, plan[t], pc[t])
  BY DEF StoreInv, CoreInv, EndRead, Summarised, databaseVars, callVars, PlanOK
<1>1. {"stage", "session", "fork", "list"} \subseteq DOMAIN plan[t]
  BY <1>0 DEF PlanAllows
<1>f. Fewer(jobs, jobs')
  BY <1>0, FewerLeft
<1>w. WorkingOK'
  BY <1>0 DEF TextInv, WorkingOK, Stored
<1>2. CASE EndRead(t)
  <2>1. /\ pc[t] = "reading" /\ reply[t] = "ok" /\ plan[t].stage \in {"snapshot", "tokens"}
        /\ pc' = [pc EXCEPT ![t] = "idle"] /\ reply' = [reply EXCEPT ![t] = "none"]
    BY <1>0, <1>2 DEF EndRead, PlanAllows
  <2>2. /\ Open' = Open /\ t \notin Open /\ pc'[t] = "idle"
        /\ \A u \in Tasks : pc'[u] = "reading" => u # t /\ pc[u] = "reading"
                                                  /\ reply'[u] = reply[u]
    BY <1>0, <2>1 DEF TypesOK, Open
  <2>3. ASSUME NEW i \in 1..Len(jobs), jobs[i].live
        PROVE  jobs[i].task # t
    BY <1>0, <2>1, <2>3 DEF LiveOK
  <2>4. ASSUME \A u \in Tasks \ {t} : plan'[u] = plan[u]
        PROVE  ReadsOK'
    <3> SUFFICES ASSUME NEW i \in 1..Len(jobs), jobs[i].live,
                        jobs[i].do \in {"history", "tokens"}
                 PROVE  plan'[jobs[i].task].stage = ReadStage(jobs[i].do)
      BY <1>0 DEF ReadsOK
    <3>1. jobs[i].task \in Tasks /\ jobs[i].task # t
      BY <1>0, <2>3, JobsTyped
    <3>2. plan'[jobs[i].task] = plan[jobs[i].task]
      BY <2>4, <3>1
    <3> QED
      BY <3>2 DEF TextInv, ReadsOK
  <2>5. CASE plan[t].stage = "tokens"
    <3>1. plan' = [plan EXCEPT ![t].stage = "clear"]
      <4>1. plan' = [plan EXCEPT ![t] = [plan[t] EXCEPT !.stage = "clear"]]
        BY <1>2, <2>5 DEF EndRead
      <4> QED
        BY <4>1
    <3>2. /\ plan'[t].stage = "clear" /\ plan'[t].list = plan[t].list
          /\ plan'[t].fork = plan[t].fork /\ plan'[t].session = plan[t].session
          /\ \A u \in Tasks \ {t} : plan'[u] = plan[u]
      BY <1>0, <1>1, <3>1
    <3>3. ASSUME NEW f \in Snapshots \cap Stored, ListOf(t, f),
                 Kept(f)' = Kept(f), Text(f)' = Text(f), Rewrites' = Rewrites, Stored' = Stored
          PROVE  ListOf(t, f)'
      BY <2>5, <3>2, <3>3 DEF ListOf, LeftOf
    <3> QED
      BY <1>0, <2>2, <2>4, <2>5, <3>2, <3>3, NextStage
  <2>6. CASE plan[t].stage = "snapshot" /\ TooShort(plan[t].list, KeepRecent)
    <3>1. plan' = [plan EXCEPT ![t] = NoPlan]
      BY <1>2, <2>6 DEF EndRead
    <3>2. plan'[t].stage = "none" /\ \A u \in Tasks \ {t} : plan'[u] = plan[u]
      BY <1>0, <3>1 DEF NoPlan
    <3> QED
      BY <1>0, <1>f, <1>w, <2>2, <3>2, Quiet
  <2>7. CASE plan[t].stage = "snapshot" /\ ~TooShort(plan[t].list, KeepRecent)
    <3>1. plan' = [plan EXCEPT ![t].stage = "ask"]
      <4>1. plan' = [plan EXCEPT ![t] = [plan[t] EXCEPT !.stage = "ask"]]
        BY <1>2, <2>7 DEF EndRead
      <4> QED
        BY <4>1
    <3>2. /\ plan'[t].stage = "ask" /\ plan'[t].list = plan[t].list
          /\ plan'[t].fork = plan[t].fork /\ plan'[t].session = plan[t].session
          /\ \A u \in Tasks \ {t} : plan'[u] = plan[u]
      BY <1>0, <1>1, <3>1
    <3>3. ASSUME NEW f \in Snapshots \cap Stored, ListOf(t, f),
                 Kept(f)' = Kept(f), Text(f)' = Text(f), Rewrites' = Rewrites, Stored' = Stored
          PROVE  ListOf(t, f)'
      <4>1. plan[t].list = Kept(f) /\ Rewrites = {}
        BY <2>1, <2>7, <3>3 DEF ListOf, LeftOf
      <4> QED
        BY <2>7, <3>2, <3>3, <4>1 DEF ListOf, LeftOf
    <3> QED
      BY <1>0, <2>2, <2>4, <2>7, <3>2, <3>3, NextStage
  <2> QED
    BY <2>1, <2>5, <2>6, <2>7
<1>3. CASE Summarised(t)
  <2>1. /\ UNCHANGED <<pc, reply>> /\ plan[t].stage = "ask" /\ pc[t] = "idle"
        /\ plan' = [plan EXCEPT ![t].stage = "tokens", ![t].list = Compacted(@, KeepRecent)]
    BY <1>0, <1>3 DEF Summarised, callVars, PlanAllows
  <2>2. Open' = Open /\ t \notin Open
    BY <1>0, <2>1 DEF Open
  <2>3. /\ plan'[t].stage = "tokens" /\ plan'[t].list = Compacted(plan[t].list, KeepRecent)
        /\ plan'[t].fork = plan[t].fork /\ plan'[t].session = plan[t].session
        /\ \A u \in Tasks \ {t} : plan'[u] = plan[u]
    <3> DEFINE p == plan[t]
    <3>1. plan'[t] = [p EXCEPT !.stage = "tokens", !.list = Compacted(p.list, KeepRecent)]
          /\ \A u \in Tasks \ {t} : plan'[u] = plan[u]
      BY <1>0, <2>1
    <3> HIDE DEF p
    <3>2. p = [stage |-> p.stage, session |-> p.session, fork |-> p.fork, list |-> p.list,
               tokens |-> p.tokens]
      BY <1>0 DEF PlanAllows, p
    <3>3. plan'[t] = [stage |-> "tokens", session |-> p.session, fork |-> p.fork,
                      list |-> Compacted(p.list, KeepRecent), tokens |-> p.tokens]
      BY <3>1, <3>2
    <3>4. /\ plan'[t].stage = "tokens" /\ plan'[t].list = Compacted(p.list, KeepRecent)
          /\ plan'[t].fork = p.fork /\ plan'[t].session = p.session
      BY <3>3
    <3> QED
      BY <3>1, <3>4 DEF p
  <2>4. ReadsOK'
    BY <1>f, <2>1, <2>3, ReadsStay
  <2>5. ASSUME NEW f \in Snapshots \cap Stored, ListOf(t, f),
               Kept(f)' = Kept(f), Text(f)' = Text(f), Rewrites' = Rewrites, Stored' = Stored
        PROVE  ListOf(t, f)'
    <3>1. /\ plan'[t].list = Text(f) /\ Rewrites = {} /\ ~TooShort(Kept(f), KeepRecent)
          /\ f \in Stored
      BY <2>1, <2>3, <2>5 DEF ListOf, LeftOf, Text
    <3> QED
      BY <2>3, <2>5, <3>1 DEF ListOf, LeftOf
  <2> QED
    BY <1>0, <2>1, <2>2, <2>3, <2>4, <2>5, NextStage
<1> QED
  BY <1>2, <1>3

\* What the compaction has read, and what it writes, is of its snapshot, whatever
\* happens next.
LEMMA TextKept ==
  ASSUME StoreInv, TextInv, [Next]_vars
  PROVE  TextInv'
<1>0. StoreInv'
  BY Keeps
<1>1. ASSUME NEW t \in Tasks, UserStep(t)
      PROVE  TextInv'
  BY <1>0, <1>1, CallerText
<1>2. ASSUME NEW t \in Tasks, CallStep(t)
      PROVE  TextInv'
  BY <1>0, <1>2, CallText
<1>3. ASSUME NEW t \in Tasks, CompactionStep(t)
      PROVE  TextInv'
  BY <1>0, <1>3, SnapshotText, StartReadText, NextStageText, GivenUpText,
     ClearText, WriteText, RestoreText DEF CompactionStep
<1>4. ASSUME NEW t \in Tasks, Cancel(t)
      PROVE  TextInv'
  BY <1>0, <1>4, GivenUpText
<1> QED
  BY <1>0, <1>1, <1>2, <1>3, <1>4, ThreadText, CrashText, StutterText DEF Next

\* At the start there is no compaction.
LEMMA TextStarts ==
  ASSUME Init
  PROVE  TextInv
<1>1. Len(called) = 0 /\ Len(jobs) = 0 /\ 1..0 = {} /\ \A t \in Tasks : plan[t].stage = "none"
  BY DEF Init, NoPlan
<1>2. Own = {}
  BY <1>1 DEF Own
<1>3. SaidOK /\ ReadsOK /\ StagesOK
  BY <1>1 DEF SaidOK, ReadsOK, StagesOK
<1>4. OwnOK
  BY <1>2 DEF OwnOK, Snapshots, Rewrites
<1>5. WorkingOK
  BY BeforeAssumption DEF Init, WorkingOK
<1> QED
  BY <1>3, <1>4, <1>5 DEF TextInv

-----------------------------------------------------------------------------
(* The accounts.                                                           *)

\* The messages that rows stand for are sequences.
Sound(rows) ==
  \A i \in DOMAIN rows : Original(rows[i]) \in Seq(ToSet(Original(rows[i])))

\* Rows stand for what was told, and keep every result behind its call.
Faithful(rows, told) == StandsFor(rows) = told /\ Paired(rows) /\ Sound(rows)

\* Session s has the first messages of the list, up to the last write stored.
Partly(s, f) ==
  \E n \in Rewrites \cap Stored :
    /\ called[n].rest # 0
    /\ store[s].messages = SubSeq(Text(f), 1, Len(Text(f)) - called[n].rest)
    /\ \A m \in Rewrites \cap Stored : called[m].rest >= called[n].rest

\* What the account a of session s says of its rows.
AccountOK(s, a) ==
  /\ a = [told |-> a.told, state |-> a.state]
  /\ a.state \in {"whole", "copied", "rewriting", "lost"}
  /\ a.state \in Exact => Faithful(store[s].messages, a.told)
  /\ a.state = "copied" =>
       /\ Rewrites \cap Stored = {}
       /\ \E f \in Snapshots \cap Stored :
            called[f].session = s /\ store[s].messages = Kept(f)
  /\ a.state = "rewriting" => \E f \in Snapshots \cap Stored :
       /\ called[f].session = s /\ a.told = Kept(f)
       /\ Paired(Kept(f)) /\ Plain(Kept(f))
       /\ Partly(s, f)

\* Until its last write is stored, a compaction that has begun to write has its
\* session's account say so.
BegunOK ==
  Rewrites \cap Stored # {} /\ (\A n \in Rewrites \cap Stored : called[n].rest # 0) =>
    \A f \in Snapshots : Accounts[called[f].session].state \in {"rewriting", "lost"}

\* The accounts are right.  Summaries come with a compaction's writes.
AccountsOK ==
  /\ DOMAIN Accounts = Sessions
  /\ \A s \in Sessions : AccountOK(s, Accounts[s])
  /\ Rewrites \cap Stored = {} => \A s \in Sessions : Plain(store[s].messages)
  /\ BegunOK

\* The accounts after one more call of the story.
LEMMA AccountsGoOn ==
  ASSUME CallsOK, NEW n \in 1..Len(called), UNCHANGED called, story' = Append(story, n)
  PROVE  Accounts' = Tell(Accounts, called[n])
<1> DEFINE S == ToSet(called)
           calls == [k \in DOMAIN story |-> called[story[k]]]
           more == [k \in DOMAIN story' |-> called'[story'[k]]]
<1>1. \A k \in 1..Len(called) : called[k] \in S
  BY DEF CallsOK
<1>2. /\ Len(story) \in Nat /\ DOMAIN story = 1..Len(story)
      /\ \A k \in 1..Len(story) : story[k] \in 1..Len(called)
      /\ Len(story') = Len(story) + 1 /\ DOMAIN story' = 1..(Len(story) + 1)
      /\ \A k \in 1..Len(story) : story'[k] = story[k]
      /\ story'[Len(story) + 1] = n
  <2>1. story \in Seq(1..Len(called))
    BY DEF CallsOK
  <2> QED
    BY <2>1
<1> HIDE DEF S
<1>3. calls = [k \in 1..Len(story) |-> called[story[k]]]
      /\ \A k \in 1..Len(story) : calls[k] \in S
  BY <1>1, <1>2
<1>4. calls \in Seq(S) /\ Len(calls) = Len(story)
  <2>1. \A k \in 1..Len(story) : called[story[k]] \in S
    BY <1>1, <1>2
  <2> QED
    BY <1>2, <1>3, <2>1
<1>5. more = [k \in 1..(Len(story) + 1) |-> IF k <= Len(story) THEN calls[k] ELSE called[n]]
  <2>1. \A k \in 1..(Len(story) + 1) :
          called'[story'[k]] = IF k <= Len(story) THEN calls[k] ELSE called[n]
    BY <1>2, <1>3
  <2>2. more = [k \in 1..(Len(story) + 1) |-> called'[story'[k]]]
    BY <1>2
  <2> HIDE DEF more, calls
  <2> QED
    BY <2>1, <2>2
<1> HIDE DEF calls, more
<1>6. more = Append(calls, called[n])
  BY <1>1, <1>2, <1>4, <1>5
<1>7. AccountsOf(more) = Tell(AccountsOf(calls), called[n])
  BY <1>1, <1>4, <1>6, AccountsUnfold
<1> QED
  BY <1>7 DEF Accounts, calls, more

\* They stay when only calls are made.
LEMMA AccountsStay ==
  ASSUME CallsOK, UNCHANGED story, \A n \in 1..Len(called) : called'[n] = called[n]
  PROVE  Accounts' = Accounts
<1>1. DOMAIN story = 1..Len(story) /\ \A k \in 1..Len(story) : story[k] \in 1..Len(called)
  BY DEF CallsOK
<1>2. [k \in DOMAIN story' |-> called'[story'[k]]] = [k \in DOMAIN story |-> called[story[k]]]
  BY <1>1
<1> QED
  BY <1>2 DEF Accounts

\* What a call c makes of the accounts a: the accounts b.
ToldBy(c, a, b) ==
  LET s == c.session
  IN /\ DOMAIN b = Sessions
     /\ \A x \in Sessions : x # s /\ ~(c.op = "fork" /\ x = c.to) => b[x] = a[x]
     /\ c.op \in {"set", "add"} => b[s] = a[s]
     /\ c.op = "fork" =>
          /\ b[c.to] = [told  |-> a[s].told,
                        state |-> IF a[s].state \in Exact THEN "whole" ELSE "lost"]
          /\ b[s] = IF c.by = "compaction" /\ a[s].state \in Exact
                    THEN [told |-> a[s].told, state |-> "copied"] ELSE a[s]
     /\ c.op = "append" /\ c.by = "caller" =>
          b[s] = [told  |-> a[s].told \o c.messages,
                  state |-> IF a[s].state \in Exact THEN "whole" ELSE "lost"]
     /\ c.op = "clear" /\ c.by = "caller" =>
          b[s] = [told  |-> <<>>,
                  state |-> IF a[s].state \in Exact THEN "whole" ELSE "lost"]
     /\ c.op = "clear" /\ c.by = "compaction" =>
          b[s] = [told  |-> a[s].told,
                  state |-> IF a[s].state = "copied" THEN "rewriting" ELSE "lost"]
     /\ c.op = "append" /\ c.by = "compaction" =>
          b[s] = IF c.rest = 0 /\ a[s].state = "rewriting"
                 THEN [told |-> a[s].told, state |-> "whole"] ELSE a[s]

\* That is what the calls of the story do.
LEMMA TellIs ==
  ASSUME NEW a, DOMAIN a = Sessions, NEW c, IsCall(c),
         \A x \in Sessions : a[x] = [told |-> a[x].told, state |-> a[x].state]
  PROVE  ToldBy(c, a, Tell(a, c))
<1> DEFINE s == c.session
           b == Tell(a, c)
<1>1. s \in Sessions /\ s \in Used /\ c.to \in Sessions /\ (c.op = "fork" => c.to # s)
  <2>1. s \in Used
    BY DEF IsCall
  <2>2. Used \subseteq Sessions
    BY BoundIsUsed DEF Used
  <2> QED
    BY <2>1, <2>2 DEF IsCall
<1>2. DOMAIN a[s] = {"told", "state"} /\ DOMAIN a[c.to] = {"told", "state"}
  BY <1>1
<1>3. \A v : [a[s] EXCEPT !.state = v] = [told |-> a[s].told, state |-> v]
  <2>1. PICK r : r = a[s]
    OBVIOUS
  <2>2. r = [told |-> r.told, state |-> r.state]
    BY <1>1, <2>1
  <2>3. \A v : [r EXCEPT !.state = v] = [told |-> r.told, state |-> v]
    BY <2>2
  <2> QED
    BY <2>1, <2>3
<1> HIDE DEF s
<1>4. CASE c.op = "fork"
  <2> DEFINE w == [told |-> a[s].told, state |-> IF a[s].state \in Exact THEN "whole" ELSE "lost"]
             d == [a EXCEPT ![c.to] = w]
             v == IF c.by = "compaction" /\ a[s].state \in Exact THEN "copied" ELSE a[s].state
  <2>1. d[s] = a[s] /\ DOMAIN d = Sessions /\ d[c.to] = w
        /\ \A x \in Sessions : x # c.to => d[x] = a[x]
    BY <1>1, <1>4
  <2>3. b = [d EXCEPT ![s] = [d[s] EXCEPT !.state = v]]
    BY <1>4 DEF Tell, s
  <2> HIDE DEF d, w
  <2>4. b = [d EXCEPT ![s] = [told |-> a[s].told, state |-> v]]
    BY <1>3, <2>1, <2>3
  <2>5. /\ DOMAIN b = Sessions /\ b[s] = [told |-> a[s].told, state |-> v]
        /\ b[c.to] = w /\ \A x \in Sessions : x # s /\ x # c.to => b[x] = a[x]
    BY <1>1, <1>4, <2>1, <2>4
  <2>6. a[s] = [told |-> a[s].told, state |-> a[s].state]
    BY <1>1
  <2> QED
    BY <1>4, <2>5, <2>6 DEF w, s, ToldBy
<1>5. CASE c.op = "append" /\ c.by = "caller"
  <2>1. b = [a EXCEPT ![s] = [told  |-> a[s].told \o c.messages,
                              state |-> IF a[s].state \in Exact THEN "whole" ELSE "lost"]]
    BY <1>5 DEF Tell, s
  <2> QED
    BY <1>1, <1>5, <2>1 DEF s, ToldBy
<1>6. CASE c.op = "clear" /\ c.by = "caller"
  <2>1. b = [a EXCEPT ![s] = [told  |-> <<>>,
                              state |-> IF a[s].state \in Exact THEN "whole" ELSE "lost"]]
    BY <1>6 DEF Tell, s
  <2> QED
    BY <1>1, <1>6, <2>1 DEF s, ToldBy
<1>7. CASE c.op = "clear" /\ c.by = "compaction"
  <2> DEFINE v == IF a[s].state = "copied" THEN "rewriting" ELSE "lost"
  <2>1. b = [a EXCEPT ![s] = [a[s] EXCEPT !.state = v]]
    BY <1>7 DEF Tell, s
  <2>2. b[s] = [told |-> a[s].told, state |-> v]
    BY <1>1, <1>3, <2>1
  <2> QED
    BY <1>1, <1>7, <2>1, <2>2 DEF s, ToldBy
<1>8. CASE c.op = "append" /\ c.by = "compaction"
  <2>1. CASE c.rest = 0
    <3> DEFINE v == IF a[s].state = "rewriting" THEN "whole" ELSE a[s].state
    <3>1. b = [a EXCEPT ![s] = [a[s] EXCEPT !.state = v]]
      BY <1>8, <2>1 DEF Tell, s
    <3>2. b[s] = [told |-> a[s].told, state |-> v]
      BY <1>1, <1>3, <3>1
    <3>3. a[s] = [told |-> a[s].told, state |-> a[s].state]
      BY <1>1
    <3> QED
      BY <1>1, <1>8, <2>1, <3>1, <3>2, <3>3 DEF s, ToldBy
  <2>2. CASE c.rest # 0
    <3>1. b = a
      BY <1>8, <2>2 DEF Tell
    <3> QED
      BY <1>8, <2>2, <3>1 DEF s, ToldBy
  <2> QED
    BY <2>1, <2>2
<1>9. CASE c.op \in {"set", "add"}
  <2>1. b = a
    BY <1>9 DEF Tell
  <2> QED
    BY <1>9, <2>1 DEF s, ToldBy
<1>a. CASE c.op \in {"append", "clear"} /\ c.by \notin {"caller", "compaction"}
  <2>1. b = a
    BY <1>a DEF Tell
  <2> QED
    BY <1>a, <2>1 DEF s, ToldBy
<1> QED
  BY <1>4, <1>5, <1>6, <1>7, <1>8, <1>9, <1>a DEF IsCall, ToldBy

\* What a call c makes of the sessions s: the sessions e.
RowsBy(c, s, e) ==
  LET x == c.session
  IN /\ \A y \in Sessions : y # x /\ ~(c.op = "fork" /\ y = c.to) => e[y] = s[y]
     /\ c.op \in {"set", "add"} => e[x].messages = s[x].messages
     /\ c.op = "append" => e[x].messages = s[x].messages \o c.messages
     /\ c.op = "clear" => e[x].messages = <<>>
     /\ c.op = "fork" => e[c.to] = s[x] /\ e[x] = s[x]

\* That is the effect of a call.
LEMMA RowsAre ==
  ASSUME NEW c, IsCall(c), NEW s, DOMAIN s = Sessions, \A x \in Sessions : IsSession(s[x])
  PROVE  RowsBy(c, s, Ledger!Effect(c, s))
<1>0. c.session \in Sessions /\ c.to \in Sessions /\ (c.op = "fork" => c.to # c.session)
  BY StoreAssumptions DEF IsCall, Used
<1> DEFINE e == Ledger!Effect(c, s)
           x == c.session
<1>1. {"messages", "tokens"} \subseteq DOMAIN s[x]
  <2>1. s[x] = [messages |-> s[x].messages, tokens |-> s[x].tokens]
    BY <1>0 DEF IsSession
  <2> QED
    BY <2>1
<1>2. CASE c.op = "append"
  <2>1. e = [s EXCEPT ![x].messages = s[x].messages \o c.messages]
    BY <1>2 DEF Ledger!Effect
  <2> QED
    BY <1>0, <1>1, <1>2, <2>1 DEF RowsBy
<1>3. CASE c.op = "clear"
  <2>1. e = [s EXCEPT ![x] = [messages |-> <<>>, tokens |-> 0]]
    BY <1>3 DEF Ledger!Effect
  <2> QED
    BY <1>0, <1>3, <2>1 DEF RowsBy
<1>4. CASE c.op = "fork"
  <2>1. e = [s EXCEPT ![c.to] = s[x]]
    BY <1>4 DEF Ledger!Effect
  <2> QED
    BY <1>0, <1>4, <2>1 DEF RowsBy
<1>5. CASE c.op \in {"set", "add"}
  <2>1. PICK k : e = [s EXCEPT ![x].tokens = k]
    <3>1. CASE c.op = "set"
      BY <3>1 DEF Ledger!Effect
    <3>2. CASE c.op = "add"
      BY <3>2 DEF Ledger!Effect
    <3> QED
      BY <1>5, <3>1, <3>2
  <2> QED
    BY <1>0, <1>1, <1>5, <2>1 DEF RowsBy
<1> QED
  BY <1>2, <1>3, <1>4, <1>5 DEF IsCall, RowsBy

\* What is behind the second of two sequences is the first, then the second.
JoinAt(s, t) ==
  /\ Len(s \o t) = Len(s) + Len(t) /\ DOMAIN (s \o t) = 1..(Len(s) + Len(t))
  /\ Len(s) \in Nat /\ Len(t) \in Nat /\ DOMAIN s = 1..Len(s) /\ DOMAIN t = 1..Len(t)
  /\ \A i \in 1..(Len(s) + Len(t)) :
       \/ i \in 1..Len(s) /\ (s \o t)[i] = s[i]
       \/ i - Len(s) \in 1..Len(t) /\ (s \o t)[i] = t[i - Len(s)] /\ i > Len(s)

\* So it is, whatever they are sequences of.
LEMMA JoinsAt == \A S : \A s, t \in Seq(S) : JoinAt(s, t)
<1> SUFFICES ASSUME NEW S, NEW s \in Seq(S), NEW t \in Seq(S)
             PROVE  JoinAt(s, t)
  OBVIOUS
<1>1. /\ Len(s \o t) = Len(s) + Len(t) /\ s \o t \in Seq(S)
      /\ \A i \in 1 .. Len(s) + Len(t) : (s \o t)[i] =
                     IF i <= Len(s) THEN s[i] ELSE t[i - Len(s)]
  BY ConcatProperties
<1>2. Len(s) \in Nat /\ Len(t) \in Nat /\ DOMAIN s = 1..Len(s) /\ DOMAIN t = 1..Len(t)
  OBVIOUS
<1>3. DOMAIN (s \o t) = 1..(Len(s) + Len(t))
  BY <1>1, LenProperties
<1> DEFINE j == s \o t
<1> HIDE DEF j
<1>4. \A i \in 1..(Len(s) + Len(t)) :
        \/ i \in 1..Len(s) /\ j[i] = s[i]
        \/ i - Len(s) \in 1..Len(t) /\ j[i] = t[i - Len(s)] /\ i > Len(s)
  BY <1>1, <1>2 DEF j
<1> QED
  BY <1>1, <1>2, <1>3, <1>4 DEF JoinAt, j

\* Sequences of their own elements have a common set of them.
LEMMA OneSet ==
  ASSUME NEW s, s \in Seq(ToSet(s)), NEW t, t \in Seq(ToSet(t))
  PROVE  s \in Seq(ToSet(s) \cup ToSet(t)) /\ t \in Seq(ToSet(s) \cup ToSet(t))
<1> DEFINE A == ToSet(s)
           B == ToSet(t)
           S == A \cup B
<1>0. s \in Seq(A) /\ t \in Seq(B)
  OBVIOUS
<1> HIDE DEF A, B
<1>1. A \subseteq S /\ B \subseteq S
  OBVIOUS
<1> HIDE DEF S
<1>2. Seq(A) \subseteq Seq(S) /\ Seq(B) \subseteq Seq(S)
  BY <1>1, SeqMonotonic, Zenon
<1> QED
  BY <1>0, <1>2, Zenon DEF S, A, B

\* Plain rows are their own originals.
LEMMA PlainSound ==
  ASSUME NEW rows, Plain(rows)
  PROVE  Sound(rows) /\ \A i \in DOMAIN rows : Original(rows[i]) = <<rows[i]>>
<1>1. \A i \in DOMAIN rows : Original(rows[i]) = <<rows[i]>>
  BY DEF Plain, Original
<1> QED
  BY <1>1, ShortList, Zenon DEF Sound

\* Rows stand for what they did, and then for the plain ones that follow.
LEMMA FaithfulOn ==
  ASSUME NEW rows, rows \in Seq(ToSet(rows)), NEW more, more \in Seq(ToSet(more)),
         NEW told, Faithful(rows, told), Plain(more), Paired(more)
  PROVE  Faithful(rows \o more, told \o more)
<1> DEFINE M == ToSet(rows) \cup ToSet(more)
           S == M \cup UNION {ToSet(Original(m)) : m \in M}
           both == rows \o more
<1>1. rows \in Seq(M) /\ more \in Seq(M)
  BY OneSet
<1>2. /\ \A i \in DOMAIN rows : Original(rows[i]) \in Seq(ToSet(Original(rows[i])))
      /\ \A i \in DOMAIN more : Original(more[i]) \in Seq(ToSet(Original(more[i])))
  BY PlainSound DEF Faithful, Sound
<1>3. \A m \in M : Original(m) \in Seq(ToSet(Original(m)))
  <2> SUFFICES ASSUME NEW m \in M PROVE Original(m) \in Seq(ToSet(Original(m)))
    OBVIOUS
  <2>1. (\E i \in DOMAIN rows : m = rows[i]) \/ (\E i \in DOMAIN more : m = more[i])
    BY DEF ToSet
  <2> QED
    BY <1>2, <2>1, Zenon
<1>4. \A m \in M : ToSet(Original(m)) \subseteq S
  OBVIOUS
<1>5. M \subseteq S
  OBVIOUS
<1> HIDE DEF M, S
<1>6. \A m \in M : Original(m) \in Seq(S)
  BY <1>3, <1>4, SeqMonotonic, Zenon
<1>7. StandsFor(both) = told \o more
  <2>1. StandsFor(rows \o more) = StandsFor(rows) \o more
    BY <1>1, <1>5, <1>6, PlainStands
  <2> QED
    BY <2>1 DEF Faithful
<1>8. JoinAt(rows, more)
  BY <1>1, JoinsAt, Zenon
<1> HIDE DEF both
<1>9. /\ DOMAIN both = 1..(Len(rows) + Len(more))
      /\ Len(rows) \in Nat /\ Len(more) \in Nat
      /\ DOMAIN rows = 1..Len(rows) /\ DOMAIN more = 1..Len(more)
      /\ \A i \in 1..(Len(rows) + Len(more)) :
           \/ i \in 1..Len(rows) /\ both[i] = rows[i]
           \/ i - Len(rows) \in 1..Len(more) /\ both[i] = more[i - Len(rows)] /\ i > Len(rows)
  BY <1>8 DEF JoinAt, both
<1>a. Sound(both)
  <2> SUFFICES ASSUME NEW i \in DOMAIN both
               PROVE  Original(both[i]) \in Seq(ToSet(Original(both[i])))
    BY DEF Sound
  <2>1. (\E k \in DOMAIN rows : both[i] = rows[k]) \/ (\E k \in DOMAIN more : both[i] = more[k])
    BY <1>9
  <2> QED
    BY <1>2, <2>1, Zenon
<1>b. Paired(both)
  <2> SUFFICES ASSUME NEW i \in DOMAIN both, both[i].kind = "result"
               PROVE  i > 1 /\ both[i - 1].kind = "call" /\ both[i - 1].id = both[i].id
    BY DEF Paired
  <2>1. CASE i \in 1..Len(rows) /\ both[i] = rows[i]
    <3>1. i > 1 /\ rows[i - 1].kind = "call" /\ rows[i - 1].id = rows[i].id
      BY <1>9, <2>1 DEF Faithful, Paired
    <3>2. both[i - 1] = rows[i - 1]
      BY <1>9, <2>1, <3>1
    <3> QED
      BY <2>1, <3>1, <3>2
  <2>2. CASE i - Len(rows) \in 1..Len(more) /\ both[i] = more[i - Len(rows)] /\ i > Len(rows)
    <3>1. PICK k \in 1..Len(more) : i = Len(rows) + k /\ k = i - Len(rows) /\ both[i] = more[k]
      BY <1>9, <2>2
    <3>2. k > 1 /\ more[k - 1].kind = "call" /\ more[k - 1].id = more[k].id
      BY <1>9, <3>1 DEF Paired
    <3>3. i > 1 /\ i - 1 \in 1..(Len(rows) + Len(more)) /\ i - 1 > Len(rows)
          /\ (i - 1) - Len(rows) = k - 1
      BY <1>9, <3>1, <3>2
    <3>4. both[i - 1] = more[k - 1]
      BY <1>9, <3>3
    <3> QED
      BY <3>1, <3>2, <3>3, <3>4
  <2> QED
    BY <1>9, <2>1, <2>2
<1> QED
  BY <1>7, <1>a, <1>b DEF Faithful, both

\* No rows stand for nothing.
LEMMA NothingFaithful == Faithful(<<>>, <<>>) /\ Plain(<<>>) /\ Paired(<<>>)
  BY NothingStandsForNothing DEF Faithful, Sound, Paired, Plain

\* Plain rows stand for themselves.
LEMMA PlainFaithful ==
  ASSUME NEW rows, rows \in Seq(ToSet(rows)), Plain(rows), Paired(rows)
  PROVE  Faithful(rows, rows)
<1>1. Faithful(<<>> \o rows, <<>> \o rows)
  BY NothingFaithful, FaithfulOn, ShortList, Zenon
<1>2. <<>> \o rows = rows
  BY ConcatEmptySeq, Zenon
<1> QED
  BY <1>1, <1>2

\* Plain rows behind plain rows are plain.
LEMMA PlainOn ==
  ASSUME NEW rows, rows \in Seq(ToSet(rows)), NEW more, more \in Seq(ToSet(more)),
         Plain(rows), Plain(more)
  PROVE  Plain(rows \o more)
<1> DEFINE both == rows \o more
<1>1. JoinAt(rows, more)
  <2>1. rows \in Seq(ToSet(rows) \cup ToSet(more)) /\ more \in Seq(ToSet(rows) \cup ToSet(more))
    BY OneSet
  <2> QED
    BY <2>1, JoinsAt, Zenon
<1> HIDE DEF both
<1>2. /\ DOMAIN both = 1..(Len(rows) + Len(more))
      /\ DOMAIN rows = 1..Len(rows) /\ DOMAIN more = 1..Len(more)
      /\ \A i \in 1..(Len(rows) + Len(more)) :
           \/ i \in 1..Len(rows) /\ both[i] = rows[i]
           \/ i - Len(rows) \in 1..Len(more) /\ both[i] = more[i - Len(rows)] /\ i > Len(rows)
  BY <1>1 DEF JoinAt, both
<1>3. Plain(both)
  BY <1>2 DEF Plain
<1> QED
  BY <1>3 DEF both

\* The n-th call is stored.
Stores(n) ==
  /\ n \in 1..Len(called) /\ n \notin Stored
  /\ store' = Ledger!Effect(called[n], store)
  /\ story' = Append(story, n)
  /\ UNCHANGED called

\* What a stored call is, and what it leaves as it is.
LEMMA StoresOne ==
  ASSUME StoreInv, TextInv, AccountsOK, NEW n, Stores(n)
  PROVE  /\ IsCall(called[n]) /\ n \notin Stored /\ Stored' = Stored \cup {n}
         /\ DOMAIN store = Sessions /\ \A x \in Sessions : IsSession(store[x])
         /\ DOMAIN Accounts = Sessions /\ Accounts' = Tell(Accounts, called[n])
         /\ \A x \in Sessions :
              Accounts[x] = [told |-> Accounts[x].told, state |-> Accounts[x].state]
         /\ called' = called /\ Own' = Own /\ Snapshots' = Snapshots /\ Rewrites' = Rewrites
         /\ \A f \in Snapshots \cap Stored : Kept(f)' = Kept(f) /\ Text(f)' = Text(f)
         /\ \A f \in Snapshots : called[f].session \in Used /\ called[f].session \in Sessions
         /\ called[n].session \in Sessions /\ called[n].session \in Used
         /\ called[n].to \in Sessions
         /\ (called[n].op = "fork" => called[n].to \notin Used)
<1>1. CallsOK /\ n \in 1..Len(called)
  BY DEF StoreInv, CoreInv, Stores
<1>2. Stored' = Stored \cup {n}
  BY <1>1, OneMoreStored DEF Stores
<1>3. Accounts' = Tell(Accounts, called[n])
  BY <1>1, AccountsGoOn DEF Stores
<1>4. \A f \in Snapshots \cap Stored : Kept(f)' = Kept(f) /\ Text(f)' = Text(f)
  BY <1>1, KeptStays DEF Stores
<1>5. Own' = Own /\ Snapshots' = Snapshots /\ Rewrites' = Rewrites
  BY DEF Own, Snapshots, Rewrites, Stores
<1>6. \A k \in 1..Len(called) :
        IsCall(called[k]) /\ called[k].session \in Used /\ called[k].session \in Sessions
  BY <1>1, StoreAssumptions DEF CallsOK, IsCall, Used
<1>7. \A f \in Snapshots : f \in 1..Len(called)
  BY DEF Snapshots, Own
<1>8. DOMAIN store = Sessions /\ \A x \in Sessions : IsSession(store[x])
  BY DEF StoreInv, CoreInv, SessionsOK
<1>9. /\ DOMAIN Accounts = Sessions
      /\ \A x \in Sessions :
           Accounts[x] = [told |-> Accounts[x].told, state |-> Accounts[x].state]
  BY DEF AccountsOK, AccountOK
<1>a. called[n].to \in Sessions /\ (called[n].op = "fork" => called[n].to \notin Used)
  BY <1>1, <1>6 DEF IsCall
<1> QED
  BY <1>1, <1>2, <1>3, <1>4, <1>5, <1>6, <1>7, <1>8, <1>9, <1>a DEF Stores

\* What a write of a compaction is about.
LEMMA RewriteIs ==
  ASSUME TextInv, NEW n \in Rewrites
  PROVE  \E f \in Snapshots \cap Stored :
           /\ called[n].session = called[f].session
           /\ ~TooShort(Kept(f), KeepRecent)
           /\ RewriteOf(n, f)
           /\ \A g \in Snapshots : g = f
           /\ \A m \in Rewrites :
                called[m].session = called[f].session /\ RewriteOf(m, f)
<1>1. \A m \in Rewrites : m \in Own \ Snapshots
  BY DEF Rewrites, Snapshots
<1>2. \A f, g \in Snapshots : f = g
  BY DEF TextInv, OwnOK
<1>3. \A m \in Rewrites : \E f \in Snapshots \cap Stored :
        /\ called[m].session = called[f].session
        /\ ~TooShort(Kept(f), KeepRecent)
        /\ RewriteOf(m, f)
  BY <1>1 DEF TextInv, OwnOK
<1>4. PICK f \in Snapshots \cap Stored :
        /\ called[n].session = called[f].session
        /\ ~TooShort(Kept(f), KeepRecent)
        /\ RewriteOf(n, f)
  BY <1>3
<1> QED
  BY <1>2, <1>3, <1>4

\* The account of a session that the call does not touch.
LEMMA AccountStays ==
  ASSUME StoreInv, TextInv, AccountsOK, NEW n, Stores(n), NEW x \in Sessions,
         Accounts'[x] = Accounts[x], store'[x].messages = store[x].messages,
         n \in Rewrites => called[n].session # x
  PROVE  AccountOK(x, Accounts[x])'
<1> PICK a : a = Accounts[x]
  OBVIOUS
<1>0. /\ Stored' = Stored \cup {n} /\ called' = called
      /\ Own' = Own /\ Snapshots' = Snapshots /\ Rewrites' = Rewrites
      /\ \A f \in Snapshots \cap Stored : Kept(f)' = Kept(f) /\ Text(f)' = Text(f)
  BY StoresOne
<1>1. AccountOK(x, a) /\ Accounts'[x] = a
  BY DEF AccountsOK
<1>2. ASSUME NEW f \in Snapshots \cap Stored, called[f].session = x
      PROVE  Rewrites \cap Stored' = Rewrites \cap Stored
  <2>1. n \notin Rewrites
    BY <1>2, RewriteIs
  <2> QED
    BY <1>0, <2>1
<1>3. ASSUME NEW f \in Snapshots \cap Stored, called[f].session = x, Partly(x, f)
      PROVE  Partly(x, f)'
  <2>1. Text(f)' = Text(f) /\ Rewrites' \cap Stored' = Rewrites \cap Stored
    BY <1>0, <1>2, <1>3
  <2> QED
    BY <1>0, <1>3, <2>1 DEF Partly
<1>4. CASE a.state \in {"whole", "lost"}
  BY <1>0, <1>1, <1>4 DEF AccountOK
<1>5. CASE a.state = "copied"
  <2>1. Rewrites \cap Stored = {} /\ \E f \in Snapshots \cap Stored :
          called[f].session = x /\ store[x].messages = Kept(f)
    BY <1>1, <1>5 DEF AccountOK
  <2>2. Rewrites' \cap Stored' = {} /\ \E f \in Snapshots' \cap Stored' :
          called'[f].session = x /\ store'[x].messages = Kept(f)'
    BY <1>0, <1>2, <2>1
  <2> QED
    BY <1>1, <1>5, <2>2 DEF AccountOK
<1>6. CASE a.state = "rewriting"
  <2>1. PICK f \in Snapshots \cap Stored :
          /\ called[f].session = x /\ a.told = Kept(f)
          /\ Paired(Kept(f)) /\ Plain(Kept(f))
          /\ Partly(x, f)
    BY <1>1, <1>6 DEF AccountOK
  <2>2. f \in Snapshots' \cap Stored' /\ called'[f].session = x
        /\ Kept(f)' = Kept(f) /\ Partly(x, f)'
    BY <1>0, <1>3, <2>1
  <2> QED
    BY <1>1, <1>6, <2>1, <2>2 DEF AccountOK, Exact
<1> QED
  BY <1>1, <1>4, <1>5, <1>6 DEF AccountOK

\* A fork has what its session has; a compaction has a snapshot.
LEMMA ForkTold ==
  ASSUME StoreInv, TextInv, AccountsOK, NEW n, Stores(n), called[n].op = "fork",
         NEW x \in Sessions
  PROVE  AccountOK(x, Accounts[x])'
<1> DEFINE s == called[n].session
           to == called[n].to
<1>0. /\ IsCall(called[n]) /\ n \notin Stored /\ Stored' = Stored \cup {n}
      /\ DOMAIN store = Sessions /\ \A y \in Sessions : IsSession(store[y])
      /\ DOMAIN Accounts = Sessions /\ Accounts' = Tell(Accounts, called[n])
      /\ \A y \in Sessions :
           Accounts[y] = [told |-> Accounts[y].told, state |-> Accounts[y].state]
      /\ called' = called /\ Snapshots' = Snapshots /\ Rewrites' = Rewrites
      /\ s \in Sessions /\ s \in Used /\ to \in Sessions /\ to \notin Used
  BY StoresOne
<1>t. ToldBy(called[n], Accounts, Accounts')
  BY <1>0, TellIs
<1>r. RowsBy(called[n], store, store')
  BY <1>0, RowsAre DEF Stores
<1>1. /\ \A y \in Sessions : y # s /\ y # to => Accounts'[y] = Accounts[y]
      /\ Accounts'[to] = [told  |-> Accounts[s].told,
                          state |-> IF Accounts[s].state \in Exact THEN "whole" ELSE "lost"]
      /\ Accounts'[s] = IF called[n].by = "compaction" /\ Accounts[s].state \in Exact
                        THEN [told |-> Accounts[s].told, state |-> "copied"] ELSE Accounts[s]
  BY <1>0, <1>t DEF ToldBy
<1>2. /\ \A y \in Sessions : y # s /\ y # to => store'[y] = store[y]
      /\ store'[to] = store[s] /\ store'[s] = store[s]
  BY <1>0, <1>r DEF RowsBy
<1>3. n \notin Rewrites
  BY DEF Rewrites
<1>4. AccountOK(s, Accounts[s])
  BY <1>0 DEF AccountsOK
<1>5. CASE x = to
  <2>1. CASE Accounts[s].state \in Exact
    <3>1. Faithful(store[s].messages, Accounts[s].told)
      BY <1>4, <2>1 DEF AccountOK
    <3> QED
      BY <1>1, <1>2, <1>5, <2>1, <3>1 DEF AccountOK
  <2>2. CASE Accounts[s].state \notin Exact
    BY <1>1, <1>5, <2>2 DEF AccountOK, Exact
  <2> QED
    BY <2>1, <2>2
<1>6. CASE x = s /\ called[n].by = "compaction" /\ Accounts[s].state \in Exact
  <2>1. n \in Snapshots
    BY <1>6 DEF Snapshots, Own, Stores
  <2>2. Rewrites = {}
    BY <1>0, <2>1, RewriteIs
  <2>3. Faithful(store[s].messages, Accounts[s].told)
    BY <1>4, <1>6 DEF AccountOK
  <2>4. n \in Snapshots' \cap Stored' /\ called'[n].session = s
        /\ store'[s].messages = Kept(n)'
    BY <1>0, <1>2, <2>1 DEF Kept
  <2> QED
    BY <1>0, <1>1, <1>2, <1>6, <2>2, <2>3, <2>4 DEF AccountOK
<1>7. CASE x # to /\ ~(x = s /\ called[n].by = "compaction" /\ Accounts[s].state \in Exact)
  <2>1. Accounts'[x] = Accounts[x] /\ store'[x].messages = store[x].messages
    BY <1>1, <1>2, <1>7
  <2> QED
    BY <1>3, <2>1, AccountStays
<1> QED
  BY <1>5, <1>6, <1>7

\* What a caller adds is added, and what it clears is gone.
LEMMA CallerTold ==
  ASSUME StoreInv, TextInv, AccountsOK, NEW n, Stores(n),
         called[n].op \in {"append", "clear"}, called[n].by = "caller",
         NEW x \in Sessions
  PROVE  AccountOK(x, Accounts[x])'
<1> PICK c : c = called[n]
  OBVIOUS
<1> DEFINE s == c.session
<1>0. /\ IsCall(c)
      /\ DOMAIN store = Sessions /\ \A y \in Sessions : IsSession(store[y])
      /\ DOMAIN Accounts = Sessions /\ Accounts' = Tell(Accounts, c)
      /\ \A y \in Sessions :
           Accounts[y] = [told |-> Accounts[y].told, state |-> Accounts[y].state]
      /\ s \in Sessions
  BY StoresOne
<1>t. ToldBy(c, Accounts, Accounts')
  BY <1>0, TellIs
<1>r. RowsBy(c, store, store')
  BY <1>0, RowsAre DEF Stores
<1>1. /\ \A y \in Sessions : y # s => Accounts'[y] = Accounts[y]
      /\ Accounts'[s] = [told  |-> IF c.op = "append" THEN Accounts[s].told \o c.messages
                                   ELSE <<>>,
                         state |-> IF Accounts[s].state \in Exact THEN "whole" ELSE "lost"]
  BY <1>0, <1>t DEF ToldBy
<1>2. /\ \A y \in Sessions : y # s => store'[y] = store[y]
      /\ store'[s].messages = IF c.op = "append" THEN store[s].messages \o c.messages ELSE <<>>
  BY <1>0, <1>r DEF RowsBy
<1>3. n \notin Rewrites
  BY DEF Rewrites, Own
<1>4. AccountOK(s, Accounts[s])
  BY <1>0 DEF AccountsOK
<1>5. CASE x # s
  <2>1. Accounts'[x] = Accounts[x] /\ store'[x].messages = store[x].messages
    BY <1>1, <1>2, <1>5
  <2> QED
    BY <1>3, <2>1, AccountStays
<1>6. CASE x = s /\ Accounts[s].state \notin Exact
  BY <1>1, <1>6 DEF AccountOK, Exact
<1>7. CASE x = s /\ Accounts[s].state \in Exact
  <2>1. Faithful(store[s].messages, Accounts[s].told)
    BY <1>4, <1>7 DEF AccountOK
  <2>2. store[s].messages \in Seq(ToSet(store[s].messages))
    BY <1>0 DEF IsSession
  <2>3. c.op = "append" => c.messages \in Seq(ToSet(c.messages))
                           /\ Plain(c.messages) /\ Paired(c.messages)
    BY <1>0 DEF IsCall, TextInv, SaidOK, Stores
  <2>4. Faithful(store'[s].messages, Accounts'[s].told)
    <3>1. CASE c.op = "append"
      <4>1. Faithful(store[s].messages \o c.messages, Accounts[s].told \o c.messages)
        BY <2>1, <2>2, <2>3, <3>1, FaithfulOn
      <4>2. store'[s].messages = store[s].messages \o c.messages
        BY <1>2, <3>1, Zenon
      <4>3. Accounts'[s].told = Accounts[s].told \o c.messages
        <5>1. Accounts'[s] = [told  |-> Accounts[s].told \o c.messages,
                              state |-> IF Accounts[s].state \in Exact THEN "whole" ELSE "lost"]
          BY <1>t, <3>1, Zenon DEF ToldBy
        <5>2. \A b, v, w : b = [told |-> v, state |-> w] => b.told = v
          OBVIOUS
        <5> QED
          BY <5>1, <5>2, Zenon
      <4> QED
        BY <4>1, <4>2, <4>3, Zenon
    <3>2. CASE c.op # "append"
      BY <1>1, <1>2, <3>2, NothingFaithful
    <3> QED
      BY <3>1, <3>2
  <2>5. Accounts'[s].state = "whole"
        /\ Accounts'[s] = [told |-> Accounts'[s].told, state |-> Accounts'[s].state]
    BY <1>1, <1>7
  <2> QED
    BY <1>7, <2>4, <2>5 DEF AccountOK
<1> QED
  BY <1>5, <1>6, <1>7

\* Tokens are nothing that is told.
LEMMA TokensTold ==
  ASSUME StoreInv, TextInv, AccountsOK, NEW n, Stores(n), called[n].op \in {"set", "add"},
         NEW x \in Sessions
  PROVE  AccountOK(x, Accounts[x])'
<1>0. /\ IsCall(called[n]) /\ called[n].session \in Sessions
      /\ DOMAIN store = Sessions /\ \A y \in Sessions : IsSession(store[y])
      /\ DOMAIN Accounts = Sessions /\ Accounts' = Tell(Accounts, called[n])
      /\ \A y \in Sessions :
           Accounts[y] = [told |-> Accounts[y].told, state |-> Accounts[y].state]
  BY StoresOne
<1>t. ToldBy(called[n], Accounts, Accounts')
  BY <1>0, TellIs
<1>r. RowsBy(called[n], store, store')
  BY <1>0, RowsAre DEF Stores
<1>1. Accounts'[x] = Accounts[x]
  BY <1>0, <1>t DEF ToldBy
<1>2. store'[x].messages = store[x].messages
  <2>1. CASE x = called[n].session
    BY <1>0, <2>1, <1>r DEF RowsBy
  <2>2. CASE x # called[n].session
    <3>1. store'[x] = store[x]
      BY <1>0, <2>2, <1>r DEF RowsBy
    <3> QED
      BY <3>1
  <2> QED
    BY <2>1, <2>2
<1>3. n \notin Rewrites
  BY DEF Rewrites
<1> QED
  BY <1>1, <1>2, <1>3, AccountStays

\* A history that was copied is a list of messages.
LEMMA KeptIs ==
  ASSUME StoreInv, NEW f \in Snapshots
  PROVE  Kept(f) \in Seq(ToSet(Kept(f)))
<1>1. f \in 1..Len(called)
  BY DEF Snapshots, Own
<1>2. IsCall(called[f])
  BY <1>1 DEF StoreInv, CoreInv, CallsOK
<1>3. called[f].to \in Sessions
  BY <1>2 DEF IsCall
<1> QED
  BY <1>3 DEF StoreInv, CoreInv, SessionsOK, IsSession, Kept

\* A compaction clears the session it has copied, if nothing was told it since.
LEMMA ClearTold ==
  ASSUME StoreInv, TextInv, AccountsOK, NEW n, Stores(n), n \in Rewrites,
         called[n].op = "clear", NEW x \in Sessions
  PROVE  AccountOK(x, Accounts[x])'
<1> PICK c : c = called[n]
  OBVIOUS
<1> DEFINE s == c.session
<1>0. /\ IsCall(c) /\ n \notin Stored /\ Stored' = Stored \cup {n}
      /\ DOMAIN store = Sessions /\ \A y \in Sessions : IsSession(store[y])
      /\ DOMAIN Accounts = Sessions /\ Accounts' = Tell(Accounts, c)
      /\ \A y \in Sessions :
           Accounts[y] = [told |-> Accounts[y].told, state |-> Accounts[y].state]
      /\ s \in Sessions
      /\ called' = called /\ Snapshots' = Snapshots /\ Rewrites' = Rewrites
      /\ \A f \in Snapshots \cap Stored : Kept(f)' = Kept(f) /\ Text(f)' = Text(f)
  BY StoresOne
<1>t. ToldBy(c, Accounts, Accounts')
  BY <1>0, TellIs
<1>r. RowsBy(c, store, store')
  BY <1>0, RowsAre DEF Stores
<1>1. /\ \A y \in Sessions : y # s => Accounts'[y] = Accounts[y]
      /\ Accounts'[s] = [told  |-> Accounts[s].told,
                         state |-> IF Accounts[s].state = "copied" THEN "rewriting" ELSE "lost"]
  BY <1>0, <1>t DEF ToldBy, Rewrites, Own
<1>2. /\ \A y \in Sessions : y # s => store'[y] = store[y]
      /\ store'[s].messages = <<>>
  BY <1>0, <1>r DEF RowsBy
<1>3. CASE x # s
  <2>1. Accounts'[x] = Accounts[x] /\ store'[x].messages = store[x].messages
    BY <1>1, <1>2, <1>3
  <2> QED
    BY <1>3, <2>1, AccountStays
<1>4. CASE x = s /\ Accounts[s].state # "copied"
  BY <1>1, <1>4 DEF AccountOK, Exact
<1>5. CASE x = s /\ Accounts[s].state = "copied"
  <2>1. AccountOK(s, Accounts[s])
    BY <1>0 DEF AccountsOK
  <2>2. Rewrites \cap Stored = {} /\ Faithful(store[s].messages, Accounts[s].told)
    BY <1>5, <2>1 DEF AccountOK, Exact
  <2>3. PICK f \in Snapshots \cap Stored :
          called[f].session = s /\ store[s].messages = Kept(f)
    BY <1>5, <2>1 DEF AccountOK
  <2>4. Plain(Kept(f)) /\ Paired(Kept(f))
    BY <1>0, <2>2, <2>3 DEF AccountsOK, Faithful
  <2>5. Kept(f) \in Seq(ToSet(Kept(f)))
    BY KeptIs
  <2>6. Accounts[s].told = Kept(f)
    <3>1. Faithful(Kept(f), Kept(f))
      BY <2>4, <2>5, PlainFaithful
    <3> QED
      BY <2>2, <2>3, <3>1 DEF Faithful
  <2>7. c.rest = Len(Text(f)) /\ ~TooShort(Kept(f), KeepRecent)
    BY RewriteIs DEF RewriteOf
  <2>8. Text(f) \in Seq(ToSet(Text(f))) /\ Len(Text(f)) \in Nat \ {0}
    BY <2>7, TextIs
  <2>9. Rewrites' \cap Stored' = {n}
    BY <1>0, <2>2
  <2>a. Partly(s, f)'
    <3>1. SubSeq(Text(f), 1, Len(Text(f)) - c.rest) = <<>>
      BY <2>7, <2>8
    <3>2. c.rest # 0 /\ c.rest >= c.rest
      BY <2>7, <2>8
    <3>3. Text(f)' = Text(f) /\ called'[n] = c
      BY <1>0
    <3> QED
      BY <1>2, <2>9, <3>1, <3>2, <3>3 DEF Partly
  <2>b. Accounts'[s] = [told |-> Kept(f), state |-> "rewriting"]
    BY <1>1, <1>5, <2>6
  <2>c. f \in Snapshots' \cap Stored' /\ called'[f].session = s /\ Kept(f)' = Kept(f)
    BY <1>0, <2>3
  <2> QED
    BY <1>5, <2>4, <2>a, <2>b, <2>c DEF AccountOK, Exact
<1> QED
  BY <1>3, <1>4, <1>5

\* What is left to write when a write is stored.
LEMMA RestsAre ==
  ASSUME StoreInv, TextInv, NEW n \in Rewrites, n \notin Stored, called[n].op = "append"
  PROVE  \E f \in Snapshots \cap Stored :
           LET L == Len(Text(f))
               r == called[n].rest
           IN /\ called[n].session = called[f].session /\ \A g \in Snapshots : g = f
              /\ ~TooShort(Kept(f), KeepRecent)
              /\ Text(f) \in Seq(ToSet(Text(f))) /\ L \in Nat \ {0}
              /\ r \in 0..(L - 1) /\ called[n].messages = <<Text(f)[L - r]>>
              /\ \E m \in Rewrites \cap Stored : called[m].rest = r + 1
              /\ \A m \in Rewrites \cap Stored : called[m].rest \in (r + 1)..L
<1>1. PICK f \in Snapshots \cap Stored :
        /\ called[n].session = called[f].session
        /\ ~TooShort(Kept(f), KeepRecent)
        /\ RewriteOf(n, f)
        /\ \A g \in Snapshots : g = f
        /\ \A m \in Rewrites : called[m].session = called[f].session /\ RewriteOf(m, f)
  BY RewriteIs
<1>2. Text(f) \in Seq(ToSet(Text(f))) /\ Len(Text(f)) \in Nat \ {0}
  BY <1>1, TextIs
<1> DEFINE L == Len(Text(f))
           r == called[n].rest
<1>3. \A m \in Rewrites : called[m].rest \in 0..L
  BY <1>1, <1>2 DEF RewriteOf, Rewrites
<1>4. /\ r \in 0..(L - 1) /\ called[n].messages = <<Text(f)[L - r]>>
      /\ \A q \in (r + 1)..L : \E m \in Rewrites \cap Stored : called[m].rest = q
  BY <1>1 DEF RewriteOf
<1>5. \A m \in Rewrites \cap Stored : called[m].rest # r
  BY DEF TextInv, OwnOK
<1>6. \A m \in Rewrites \cap Stored :
        \A q \in (called[m].rest + 1)..L : \E k \in Rewrites \cap Stored : called[k].rest = q
  BY <1>1 DEF RewriteOf
<1> HIDE DEF L, r
<1>7. ASSUME NEW m \in Rewrites \cap Stored
      PROVE  called[m].rest \in (r + 1)..L
  <2>1. called[m].rest \in 0..L /\ called[m].rest # r
    BY <1>3, <1>5
  <2>2. ASSUME called[m].rest < r PROVE FALSE
    <3>1. r \in (called[m].rest + 1)..L
      BY <1>2, <1>4, <2>1, <2>2 DEF L
    <3> QED
      BY <1>5, <1>6, <3>1
  <2> QED
    BY <1>2, <1>4, <2>1, <2>2 DEF L
<1>8. r + 1 \in (r + 1)..L
  BY <1>2, <1>4 DEF L
<1> QED
  BY <1>1, <1>2, <1>4, <1>7, <1>8 DEF L, r

\* One message more of a list.
LEMMA OneMoreOf ==
  ASSUME NEW S, NEW s \in Seq(S), NEW k \in 1..Len(s)
  PROVE  SubSeq(s, 1, k - 1) \o <<s[k]>> = SubSeq(s, 1, k)
  OBVIOUS

\* A list that a compaction writes stands for the history it has copied.
LEMMA TextFaithful ==
  ASSUME StoreInv, NEW f \in Snapshots, ~TooShort(Kept(f), KeepRecent),
         Plain(Kept(f)), Paired(Kept(f))
  PROVE  Faithful(Text(f), Kept(f))
<1>1. Kept(f) \in Seq(ToSet(Kept(f)))
  BY KeptIs
<1> DEFINE S == ToSet(Kept(f))
           list == Text(f)
<1>2. /\ list \in Seq(ToSet(list)) /\ StandsFor(list) = Kept(f) /\ Paired(list)
      /\ \A i \in 1..Len(list) : Original(list[i]) \in Seq(S)
  BY <1>1, CompactedStands DEF Text
<1> HIDE DEF S, list
<1>3. DOMAIN list = 1..Len(list)
  BY <1>2, LenProperties
<1>4. Sound(list)
  BY <1>2, <1>3, IsASequence DEF Sound
<1> QED
  BY <1>2, <1>4 DEF Faithful, list

\* A compaction that has begun and not written its last message is no account
\* that its session has to stand for.
LEMMA NotExact ==
  ASSUME StoreInv, TextInv, AccountsOK, NEW n \in Rewrites, n \notin Stored,
         called[n].op = "append"
  PROVE  Accounts[called[n].session].state \in {"rewriting", "lost"}
<1>1. PICK f \in Snapshots \cap Stored :
        LET L == Len(Text(f))
            r == called[n].rest
        IN /\ called[n].session = called[f].session /\ \A g \in Snapshots : g = f
           /\ ~TooShort(Kept(f), KeepRecent)
           /\ Text(f) \in Seq(ToSet(Text(f))) /\ L \in Nat \ {0}
           /\ r \in 0..(L - 1) /\ called[n].messages = <<Text(f)[L - r]>>
           /\ \E m \in Rewrites \cap Stored : called[m].rest = r + 1
           /\ \A m \in Rewrites \cap Stored : called[m].rest \in (r + 1)..L
  BY RestsAre
<1>2. Rewrites \cap Stored # {} /\ \A m \in Rewrites \cap Stored : called[m].rest # 0
  BY <1>1
<1> QED
  BY <1>1, <1>2 DEF AccountsOK, BegunOK

\* A compaction writes a message of its list, the last one or one before it.
LEMMA WriteTold ==
  ASSUME StoreInv, TextInv, AccountsOK, NEW n, Stores(n), n \in Rewrites,
         called[n].op = "append", NEW x \in Sessions
  PROVE  AccountOK(x, Accounts[x])'
<1> PICK c : c = called[n]
  OBVIOUS
<1> DEFINE s == c.session
<1>0. /\ IsCall(c) /\ n \notin Stored /\ Stored' = Stored \cup {n}
      /\ DOMAIN store = Sessions /\ \A y \in Sessions : IsSession(store[y])
      /\ DOMAIN Accounts = Sessions /\ Accounts' = Tell(Accounts, c)
      /\ \A y \in Sessions :
           Accounts[y] = [told |-> Accounts[y].told, state |-> Accounts[y].state]
      /\ s \in Sessions
      /\ called' = called /\ Snapshots' = Snapshots /\ Rewrites' = Rewrites
      /\ \A f \in Snapshots \cap Stored : Kept(f)' = Kept(f) /\ Text(f)' = Text(f)
  BY StoresOne
<1>t. ToldBy(c, Accounts, Accounts')
  BY <1>0, TellIs
<1>r. RowsBy(c, store, store')
  BY <1>0, RowsAre DEF Stores
<1>1. /\ \A y \in Sessions : y # s => Accounts'[y] = Accounts[y]
      /\ Accounts'[s] = IF c.rest = 0 /\ Accounts[s].state = "rewriting"
                        THEN [told |-> Accounts[s].told, state |-> "whole"] ELSE Accounts[s]
  BY <1>0, <1>t DEF ToldBy, Rewrites, Own
<1>2. /\ \A y \in Sessions : y # s => store'[y] = store[y]
      /\ store'[s].messages = store[s].messages \o c.messages
  BY <1>0, <1>r DEF RowsBy
<1>3. CASE x # s
  <2>1. Accounts'[x] = Accounts[x] /\ store'[x].messages = store[x].messages
    BY <1>1, <1>2, <1>3
  <2> QED
    BY <1>3, <2>1, AccountStays
<1>4. CASE x = s /\ Accounts[s].state # "rewriting"
  <2>1. Accounts'[s] = Accounts[s] /\ Accounts[s].state = "lost"
    BY <1>0, <1>1, <1>4, NotExact
  <2> QED
    BY <1>0, <1>4, <2>1 DEF AccountOK, Exact
<1>5. CASE x = s /\ Accounts[s].state = "rewriting"
  <2>1. PICK f \in Snapshots \cap Stored :
          LET L == Len(Text(f))
              r == called[n].rest
          IN /\ called[n].session = called[f].session /\ \A g \in Snapshots : g = f
             /\ ~TooShort(Kept(f), KeepRecent)
             /\ Text(f) \in Seq(ToSet(Text(f))) /\ L \in Nat \ {0}
             /\ r \in 0..(L - 1) /\ called[n].messages = <<Text(f)[L - r]>>
             /\ \E m \in Rewrites \cap Stored : called[m].rest = r + 1
             /\ \A m \in Rewrites \cap Stored : called[m].rest \in (r + 1)..L
    BY <1>0, RestsAre
  <2> PICK L, r, text : L = Len(Text(f)) /\ r = c.rest /\ text = Text(f)
    OBVIOUS
  <2>2. /\ c.session = called[f].session /\ \A g \in Snapshots : g = f
        /\ ~TooShort(Kept(f), KeepRecent)
        /\ text \in Seq(ToSet(text)) /\ L \in Nat \ {0} /\ L = Len(text)
        /\ r \in 0..(L - 1) /\ c.messages = <<text[L - r]>>
        /\ \E m \in Rewrites \cap Stored : called[m].rest = r + 1
        /\ \A m \in Rewrites \cap Stored : called[m].rest \in (r + 1)..L
    BY <2>1
  <2>3. Accounts[s].told = Kept(f) /\ Paired(Kept(f)) /\ Plain(Kept(f)) /\ Partly(s, f)
    <3>1. AccountOK(s, Accounts[s])
      BY <1>0 DEF AccountsOK
    <3> QED
      BY <1>5, <2>2, <3>1 DEF AccountOK
  <2>4. store[s].messages = SubSeq(text, 1, L - (r + 1))
    <3>1. PICK m \in Rewrites \cap Stored :
            /\ store[s].messages = SubSeq(text, 1, L - called[m].rest)
            /\ \A k \in Rewrites \cap Stored : called[k].rest >= called[m].rest
      BY <2>3 DEF Partly
    <3>2. called[m].rest = r + 1
      BY <2>2, <3>1
    <3> QED
      BY <3>1, <3>2
  <2>5. store'[s].messages = SubSeq(text, 1, L - r)
    <3>1. L - r \in 1..Len(text) /\ (L - r) - 1 = L - (r + 1)
      BY <2>2
    <3>2. SubSeq(text, 1, (L - r) - 1) \o <<text[L - r]>> = SubSeq(text, 1, L - r)
      BY <2>2, <3>1, OneMoreOf
    <3>3. store'[s].messages = store[s].messages \o <<text[L - r]>>
      BY <1>2, <2>2, Zenon
    <3> QED
      BY <2>4, <3>1, <3>2, <3>3, Zenon
  <2>6. CASE r = 0
    <3>1. SubSeq(text, 1, L - r) = text
      BY <2>2, <2>6
    <3>2. Faithful(text, Kept(f))
      BY <2>2, <2>3, TextFaithful
    <3>3. Accounts'[s] = [told |-> Kept(f), state |-> "whole"]
      BY <1>1, <1>5, <2>3, <2>6
    <3>4. Faithful(store'[s].messages, Kept(f))
      BY <2>5, <3>1, <3>2, Zenon
    <3> QED
      BY <1>5, <3>3, <3>4 DEF AccountOK
  <2>7. CASE r # 0
    <3>1. n \in Rewrites' \cap Stored' /\ called'[n].rest = r
          /\ \A m \in Rewrites' \cap Stored' : called'[m].rest >= r
      BY <1>0, <2>2
    <3>2. Text(f)' = text
      BY <1>0
    <3>3. Partly(s, f)'
      BY <2>5, <2>7, <3>1, <3>2 DEF Partly
    <3>4. Accounts'[s] = [told |-> Kept(f), state |-> "rewriting"]
      BY <1>0, <1>1, <1>5, <2>3, <2>7
    <3>5. f \in Snapshots' \cap Stored' /\ called'[f].session = s /\ Kept(f)' = Kept(f)
      BY <1>0, <2>2
    <3> QED
      BY <1>5, <2>3, <3>3, <3>4, <3>5 DEF AccountOK, Exact
  <2> QED
    BY <2>6, <2>7
<1> QED
  BY <1>3, <1>4, <1>5

\* No call gives back the account of a session that is being rewritten, but the
\* last write.
LEMMA BegunStored ==
  ASSUME StoreInv, TextInv, AccountsOK, NEW n, Stores(n)
  PROVE  BegunOK'
<1> PICK c : c = called[n]
  OBVIOUS
<1>0. /\ IsCall(c) /\ n \notin Stored /\ Stored' = Stored \cup {n}
      /\ DOMAIN Accounts = Sessions /\ Accounts' = Tell(Accounts, c)
      /\ \A y \in Sessions :
           Accounts[y] = [told |-> Accounts[y].told, state |-> Accounts[y].state]
      /\ c.session \in Sessions /\ c.to \in Sessions /\ (c.op = "fork" => c.to \notin Used)
      /\ called' = called /\ Snapshots' = Snapshots /\ Rewrites' = Rewrites
      /\ \A f \in Snapshots : called[f].session \in Used /\ called[f].session \in Sessions
  BY StoresOne
<1>t. ToldBy(c, Accounts, Accounts')
  BY <1>0, TellIs
<1> SUFFICES ASSUME Rewrites \cap Stored' # {},
                    \A m \in Rewrites \cap Stored' : called[m].rest # 0,
                    NEW f \in Snapshots
             PROVE  Accounts'[called[f].session].state \in {"rewriting", "lost"}
  BY <1>0 DEF BegunOK
<1> DEFINE x == called[f].session
<1>1. Accounts[x].state \in {"whole", "copied", "rewriting", "lost"}
  BY <1>0 DEF AccountsOK, AccountOK
<1>2. x # c.to \/ c.op # "fork"
  BY <1>0
<1>3. \A m \in Rewrites \cap Stored : m \in Rewrites \cap Stored'
  BY <1>0
<1>4. c.by \in {"caller", "compaction"}
  BY DEF TextInv, SaidOK, Stores
<1>5. CASE x # c.session
  <2>1. n \notin Rewrites
    BY <1>5, RewriteIs
  <2>2. Accounts[x].state \in {"rewriting", "lost"}
    BY <1>0, <2>1 DEF AccountsOK, BegunOK
  <2>3. Accounts'[x] = Accounts[x]
    BY <1>0, <1>2, <1>5, <1>t DEF ToldBy
  <2> QED
    BY <2>2, <2>3
<1>6. CASE x = c.session /\ c.op = "clear" /\ c.by = "compaction"
  BY <1>6, <1>t DEF ToldBy
<1>7. CASE x = c.session /\ ~(c.op = "clear" /\ c.by = "compaction")
  <2>1. Rewrites \cap Stored # {}
    <3>1. CASE n \in Rewrites
      <4>1. c.op = "append"
        BY <1>7, <3>1 DEF Rewrites, Own
      <4> QED
        BY <1>0, <3>1, <4>1, RestsAre
    <3>2. CASE n \notin Rewrites
      BY <1>0, <3>2
    <3> QED
      BY <3>1, <3>2
  <2>2. Accounts[x].state \in {"rewriting", "lost"}
    BY <1>3, <2>1 DEF AccountsOK, BegunOK
  <2>3. c.op = "append" /\ c.by = "compaction" => c.rest # 0
    <3>1. c.op = "append" /\ c.by = "compaction" => n \in Rewrites \cap Stored'
      BY <1>0 DEF Rewrites, Own, Stores
    <3> QED
      BY <3>1
  <2>4. Accounts'[x] = Accounts[x] \/ Accounts'[x].state = "lost"
    <3>1. CASE c.op = "fork" \/ c.op \in {"set", "add"}
      BY <1>7, <1>t, <2>2, <3>1 DEF ToldBy, Exact
    <3>2. CASE c.op = "append" /\ c.by = "compaction"
      BY <1>7, <1>t, <2>2, <2>3, <3>2 DEF ToldBy
    <3>3. CASE c.op \in {"append", "clear"} /\ c.by = "caller"
      BY <1>7, <1>t, <2>2, <3>3 DEF ToldBy, Exact
    <3> QED
      BY <1>0, <1>4, <1>7, <3>1, <3>2, <3>3 DEF IsCall
  <2> QED
    BY <2>2, <2>4
<1> QED
  BY <1>5, <1>6, <1>7

\* Summaries come with a compaction's writes.
LEMMA PlainStored ==
  ASSUME StoreInv, TextInv, AccountsOK, NEW n, Stores(n), Rewrites \cap Stored' = {},
         NEW x \in Sessions
  PROVE  Plain(store'[x].messages)
<1> PICK c : c = called[n]
  OBVIOUS
<1>0. /\ IsCall(c) /\ Stored' = Stored \cup {n}
      /\ DOMAIN store = Sessions /\ \A y \in Sessions : IsSession(store[y])
      /\ c.session \in Sessions /\ c.to \in Sessions
  BY StoresOne
<1>r. RowsBy(c, store, store')
  BY <1>0, RowsAre DEF Stores
<1>1. n \notin Rewrites /\ \A y \in Sessions : Plain(store[y].messages)
  BY <1>0 DEF AccountsOK
<1>2. c.by \in {"caller", "compaction"}
      /\ (c.op = "append" /\ c.by = "caller" => Plain(c.messages))
  BY DEF TextInv, SaidOK, Stores
<1>3. c.op \in {"append", "clear"} => c.by = "caller"
  BY <1>1, <1>2 DEF Rewrites, Own, Stores
<1>4. CASE x # c.session /\ ~(c.op = "fork" /\ x = c.to)
  <2>1. store'[x] = store[x]
    BY <1>4, <1>r DEF RowsBy
  <2> QED
    BY <1>1, <2>1
<1>5. CASE c.op = "fork" /\ (x = c.session \/ x = c.to)
  <2>1. store'[x] = store[c.session]
    BY <1>5, <1>r DEF RowsBy
  <2> QED
    BY <1>0, <1>1, <2>1
<1>6. CASE c.op = "append" /\ x = c.session
  <2>1. store'[x].messages = store[x].messages \o c.messages
    BY <1>6, <1>r, Zenon DEF RowsBy
  <2>2. store[x].messages \in Seq(ToSet(store[x].messages))
        /\ c.messages \in Seq(ToSet(c.messages))
    BY <1>0 DEF IsSession, IsCall
  <2>3. Plain(store[x].messages \o c.messages)
    BY <1>1, <1>2, <1>3, <1>6, <2>2, PlainOn
  <2> QED
    BY <2>1, <2>3, Zenon
<1>7. CASE c.op \in {"clear", "set", "add"} /\ x = c.session
  <2>1. store'[x].messages = store[x].messages \/ store'[x].messages = <<>>
    BY <1>7, <1>r DEF RowsBy
  <2> QED
    BY <1>1, <2>1, NothingFaithful
<1> QED
  BY <1>0, <1>4, <1>5, <1>6, <1>7 DEF IsCall

\* The accounts after a call is stored.
LEMMA AccountsStored ==
  ASSUME StoreInv, TextInv, AccountsOK, NEW n, Stores(n)
  PROVE  AccountsOK'
<1>0. /\ IsCall(called[n]) /\ Rewrites' = Rewrites
      /\ DOMAIN Accounts = Sessions /\ Accounts' = Tell(Accounts, called[n])
      /\ \A y \in Sessions :
           Accounts[y] = [told |-> Accounts[y].told, state |-> Accounts[y].state]
  BY StoresOne
<1>1. DOMAIN Accounts' = Sessions
  BY <1>0, TellIs DEF ToldBy
<1>2. ASSUME NEW x \in Sessions
      PROVE  AccountOK(x, Accounts[x])'
  <2>1. called[n].by \in {"caller", "compaction"}
        /\ called[n].op \in {"append", "clear", "fork", "set", "add"}
    BY <1>0 DEF TextInv, SaidOK, Stores, IsCall
  <2>2. called[n].op \in {"append", "clear"} /\ called[n].by # "caller" => n \in Rewrites
    BY <2>1 DEF Rewrites, Own, Stores
  <2> QED
    BY <2>1, <2>2, ForkTold, CallerTold, TokensTold, ClearTold, WriteTold
<1>3. Rewrites' \cap Stored' = {} => \A x \in Sessions : Plain(store'[x].messages)
  BY <1>0, PlainStored
<1>4. BegunOK'
  BY BegunStored
<1> QED
  BY <1>1, <1>2, <1>3, <1>4 DEF AccountsOK

\* Calls that are only made change no account.
LEMMA AccountsAsked ==
  ASSUME StoreInv, TextInv, AccountsOK, TextInv', UNCHANGED <<store, story>>,
         \A n \in 1..Len(called) : called'[n] = called[n] /\ n \in 1..Len(called')
  PROVE  AccountsOK'
<1>1. /\ Accounts' = Accounts /\ Stored' = Stored /\ \A n \in Stored : n \in 1..Len(called)
  <2>1. CallsOK
    BY DEF StoreInv, CoreInv
  <2>2. Accounts' = Accounts
    BY <2>1, AccountsStay
  <2>3. story \in Seq(1..Len(called))
    BY <2>1 DEF CallsOK
  <2>4. \A n \in Stored : n \in 1..Len(called)
    BY <2>3 DEF Stored, ToSet
  <2> QED
    BY <2>2, <2>4 DEF Stored
<1>2. /\ Snapshots' \cap Stored' = Snapshots \cap Stored
      /\ Rewrites' \cap Stored' = Rewrites \cap Stored
      /\ \A f \in Snapshots : f \in Snapshots'
      /\ \A n \in Stored : called'[n] = called[n] /\ Kept(n)' = Kept(n) /\ Text(n)' = Text(n)
  BY <1>1 DEF Snapshots, Rewrites, Own, Kept, Text
<1>3. ASSUME NEW x \in Sessions
      PROVE  AccountOK(x, Accounts[x])'
  <2>1. AccountOK(x, Accounts[x])
    BY DEF AccountsOK
  <2>2. ASSUME NEW f \in Snapshots \cap Stored, Partly(x, f)
        PROVE  Partly(x, f)'
    BY <1>2, <2>2 DEF Partly
  <2> PICK a : a = Accounts[x]
    OBVIOUS
  <2>3. Accounts'[x] = a
    BY <1>1
  <2>4. a.state = "rewriting" => \E f \in Snapshots' \cap Stored' :
          /\ called'[f].session = x /\ a.told = Kept(f)'
          /\ Paired(Kept(f)') /\ Plain(Kept(f)')
          /\ Partly(x, f)'
    BY <1>2, <2>1, <2>2 DEF AccountOK
  <2>5. a.state = "copied" =>
          /\ Rewrites' \cap Stored' = {}
          /\ \E f \in Snapshots' \cap Stored' :
               called'[f].session = x /\ store'[x].messages = Kept(f)'
    BY <1>2, <2>1 DEF AccountOK
  <2> QED
    BY <2>1, <2>3, <2>4, <2>5 DEF AccountOK
<1>4. BegunOK'
  <2> SUFFICES ASSUME Rewrites \cap Stored # {},
                      \A n \in Rewrites \cap Stored : called[n].rest # 0,
                      NEW f \in Snapshots'
               PROVE  Accounts[called'[f].session].state \in {"rewriting", "lost"}
    BY <1>1, <1>2 DEF BegunOK
  <2>1. PICK n \in Rewrites' \cap Stored' : TRUE
    BY <1>2
  <2>2. n \in Own' \ Snapshots'
    BY <2>1 DEF Rewrites, Snapshots
  <2>3. f \in Snapshots' \cap Stored'
    BY <2>2 DEF TextInv, OwnOK
  <2> QED
    BY <1>2, <2>3 DEF AccountsOK, BegunOK
<1>5. Rewrites' \cap Stored' = {} => \A x \in Sessions : Plain(store'[x].messages)
  BY <1>2 DEF AccountsOK
<1>6. DOMAIN Accounts' = Sessions
  BY <1>1 DEF AccountsOK
<1> QED
  BY <1>3, <1>4, <1>5, <1>6 DEF AccountsOK

\* The accounts are kept, whatever happens next.
LEMMA AccountsKept ==
  ASSUME StoreInv, TextInv, AccountsOK, StoreInv', TextInv', [Next]_vars
  PROVE  AccountsOK'
<1>0. CallsOK /\ CallsOK' /\ DOMAIN called = 1..Len(called) /\ Len(called) \in Nat
  BY DEF StoreInv, CoreInv, CallsOK
<1>1. CASE UNCHANGED <<store, called, story>>
  BY <1>0, <1>1, AccountsAsked
<1>2. CASE Ledger!Ask
  <2>1. /\ Len(called') = Len(called) + 1 /\ Len(called) \in Nat
        /\ called \in Seq(ToSet(called)) /\ called' \in Seq(ToSet(called'))
        /\ SubSeq(called, 1, Len(called)) = SubSeq(called', 1, Len(called))
    BY <1>0, <1>2 DEF Ledger!Ask, Ledger!IsPrefix, CallsOK
  <2>2. \A n \in 1..Len(called) : called'[n] = called[n]
    <3>1. /\ SubSeq(called, 1, Len(called)) = [i \in 1..Len(called) |-> called[i]]
          /\ SubSeq(called', 1, Len(called)) = [i \in 1..Len(called) |-> called'[i]]
      BY <2>1
    <3> QED
      BY <2>1, <3>1
  <2> QED
    BY <1>2, <2>1, <2>2, AccountsAsked DEF Ledger!Ask
<1>3. CASE Ledger!TakeEffect
  <2>1. Ledger!ToSet(story) = Stored
    BY DEF Stored, ToSet, Ledger!ToSet
  <2>2. PICK n \in DOMAIN called \ Stored :
          store' = Ledger!Effect(called[n], store) /\ story' = Append(story, n)
    BY <1>3, <2>1 DEF Ledger!TakeEffect
  <2>3. Stores(n)
    BY <1>0, <1>3, <2>2 DEF Stores, Ledger!TakeEffect
  <2> QED
    BY <2>3, AccountsStored
<1> QED
  BY <1>1, <1>2, <1>3, LedgerStep

\* At the start every session is whole.
LEMMA AccountsBegin ==
  ASSUME Init
  PROVE  AccountsOK
<1>1. store = Before /\ called = <<>> /\ story = <<>>
  BY DEF Init
<1>2. Accounts = AtStart
  <2>1. [n \in DOMAIN story |-> called[story[n]]] = <<>>
    BY <1>1
  <2> QED
    BY <2>1, AccountsStart DEF Accounts
<1>3. Snapshots = {} /\ Rewrites = {}
  BY <1>1 DEF Snapshots, Rewrites, Own
<1>4. ASSUME NEW x \in Sessions
      PROVE  AccountOK(x, Accounts[x])
  <2>1. Accounts[x] = [told |-> Before[x].messages, state |-> "whole"]
    BY <1>2 DEF AtStart
  <2>2. Faithful(Before[x].messages, Before[x].messages)
    BY PlainFaithful, BeforeAssumption, PlainAssumption DEF IsSession
  <2> QED
    BY <1>1, <2>1, <2>2 DEF AccountOK
<1> QED
  BY <1>1, <1>2, <1>3, <1>4, PlainAssumption DEF AccountsOK, BegunOK, AtStart

\* The store is what it was told.  Whatever is interleaved, cancelled, fails or
\* crashes, a call that has returned is stored and one that has raised is not;
\* a session stands for everything its callers have told it, in order and with
\* every result behind its call, before, after and instead of a compaction
\* (store.py:177-185, compaction.py:79-84 and 178-187).
THEOREM StoreTold == Spec => []StoredAsTold
<1> DEFINE Inv == StoreInv /\ TextInv /\ AccountsOK
<1>1. Init => Inv
  BY Starts, TextStarts, AccountsBegin
<1>2. Inv /\ [Next]_vars => Inv'
  BY Keeps, TextKept, AccountsKept
<1>3. Inv => StoredAsTold
  <2> SUFFICES ASSUME Inv PROVE StoredAsTold
    OBVIOUS
  <2>1. AnswersAreTrue
    BY DEF StoreInv, CoreInv, CallsOK, AnswersAreTrue
  <2>2. NothingForgotten
    <3> SUFFICES ASSUME NEW s \in Sessions, Accounts[s].state \in Exact
                 PROVE  StandsFor(store[s].messages) = Accounts[s].told
                        /\ Paired(store[s].messages)
      BY DEF NothingForgotten
    <3>1. AccountOK(s, Accounts[s])
      BY DEF AccountsOK
    <3> QED
      BY <3>1 DEF AccountOK, Faithful
  <2> QED
    BY <2>1, <2>2 DEF StoredAsTold
<1> QED
  BY <1>1, <1>2, <1>3, PTL DEF Spec

=============================================================================
