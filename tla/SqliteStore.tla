---------------------------- MODULE SqliteStore -----------------------------
(***************************************************************************)
(* Tasks that share one SQLite connection through their context stores     *)
(* (axio_context_sqlite/store.py), some of them wrapped in an              *)
(* AutoCompactStore (axio/compaction.py).                                  *)
(*                                                                         *)
(* A call takes the connection's lock, has its statements and its commit   *)
(* executed by the connection's thread, one job at a time and in order,    *)
(* and gives the lock back.  A task that is cancelled stops waiting for    *)
(* its job; the thread executes it all the same (aiosqlite).               *)
(***************************************************************************)
EXTENDS Compaction, FiniteSets

CONSTANTS
  Tasks,
  Sessions,
  Bound,        \* the sessions each task has a store for
  Compacting,   \* the tasks whose stores are wrapped in an AutoCompactStore
  Before,       \* the sessions at the start
  KeepRecent,
  MaxCalls,     \* bounds: calls the tasks make (a compaction's own not counted)
  MaxCancels,   \* .. cancellations
  MaxFaults,    \* .. statements and commits that fail
  MaxCrashes    \* .. ends of the process

ASSUME StoreAssumptions ==
  /\ Bound \in [Tasks -> SUBSET Sessions]
  /\ Compacting \subseteq Tasks
  /\ KeepRecent \in Nat \ {0}

\* A session is its rows and its token count; a session id that uuid4 has yet to
\* produce has no rows.
IsSession(s) ==
  /\ s.messages \in Seq(ToSet(s.messages))
  /\ s = [messages |-> s.messages, tokens |-> s.tokens]

ASSUME BeforeAssumption ==
  /\ DOMAIN Before = Sessions
  /\ \A s \in Sessions : IsSession(Before[s])
  /\ \A s \in Sessions : (\A t \in Tasks : s \notin Bound[t]) => Before[s].messages = <<>>

VARIABLES
  store,      \* the sessions as committed
  called,     \* every call of the process, by its number
  story,      \* the calls that were committed, in order
  working,    \* the sessions as the connection sees them
  inside,     \* the calls with statements in the connection's transaction
  jobs,       \* the connection's queue
  lock,       \* _locked, and _waiters with those that were cancelled
  pc,         \* what each task waits for
  mine,       \* the call each task is in
  at,         \* the statement of that call
  reply,      \* what the thread has answered to the task's last job
  cancelled,  \* whether a CancelledError is on its way to the task
  plan,       \* how far each task's compaction is
  returned,   \* the calls that have returned
  failed,     \* the calls that have raised an error of the database
  left        \* what is left of the bounds

callVars == <<pc, mine, at, reply, cancelled>>
databaseVars == <<store, story, working, inside>>
answerVars == <<returned, failed>>
vars == <<store, called, story, working, inside, jobs, lock, pc, mine, at,
          reply, cancelled, plan, returned, failed, left>>

NoPlan == [stage |-> "none", session |-> CHOOSE s \in Sessions : TRUE,
           fork |-> CHOOSE s \in Sessions : TRUE, list |-> <<>>, tokens |-> 0]

Init ==
  /\ store = Before /\ working = Before
  /\ called = <<>> /\ story = <<>> /\ inside = <<>> /\ jobs = <<>>
  /\ lock = [held |-> FALSE, waiters |-> <<>>]
  /\ pc = [t \in Tasks |-> "idle"]
  /\ mine = [t \in Tasks |-> 0] /\ at = [t \in Tasks |-> 0]
  /\ reply = [t \in Tasks |-> "none"]
  /\ cancelled = [t \in Tasks |-> FALSE]
  /\ plan = [t \in Tasks |-> NoPlan]
  /\ returned = {} /\ failed = {}
  /\ left = [calls |-> MaxCalls, cancels |-> MaxCancels,
             faults |-> MaxFaults, crashes |-> MaxCrashes]

-----------------------------------------------------------------------------
(* The lock.                                                               *)

\* release: the first waiter that is not cancelled owns the lock from now on.
Released(l) ==
  LET n == SelectInSeq(l.waiters, LAMBDA w : w.live)
  IN IF n = 0 THEN [held |-> FALSE, waiters |-> <<>>, next |-> {}]
     ELSE [held |-> TRUE, waiters |-> SubSeq(l.waiters, n + 1, Len(l.waiters)),
           next |-> {l.waiters[n].task}]

\* A job of task t for the thread; it is live while the task waits for it.
JobFor(t, do, n, i) == [task |-> t, do |-> do, call |-> n, step |-> i, live |-> TRUE]
Job(t, do) == JobFor(t, do, mine[t], at[t])

\* Nobody waits any longer for the jobs of task t.
Abandoned(t) == [i \in DOMAIN jobs |->
                   [jobs[i] EXCEPT !.live = @ /\ jobs[i].task # t]]

\* The lock is passed on by task t, whose own place is now p.
ReleaseAnd(t, p) ==
  LET after == Released(lock)
  IN /\ lock' = [held |-> after.held, waiters |-> after.waiters]
     /\ pc' = [u \in Tasks |-> IF u \in after.next THEN "granted"
                               ELSE IF u = t THEN p ELSE pc[u]]

\* A task enters the store with call c: it takes the lock and posts its first
\* statement, or waits for the lock.
Enter(t, c) ==
  /\ pc[t] = "idle"
  /\ called' = Append(called, c)
  /\ mine' = [mine EXCEPT ![t] = Len(called')]
  /\ at' = [at EXCEPT ![t] = 1]
  /\ reply' = [reply EXCEPT ![t] = "none"]
  /\ IF lock.held
     THEN /\ lock' = [lock EXCEPT !.waiters = Append(@, [task |-> t, live |-> TRUE])]
          /\ pc' = [pc EXCEPT ![t] = "waiting"]
          /\ UNCHANGED jobs
     ELSE /\ lock' = [lock EXCEPT !.held = TRUE]
          /\ pc' = [pc EXCEPT ![t] = "executing"]
          /\ jobs' = Append(jobs, JobFor(t, "statement", Len(called'), 1))
  /\ UNCHANGED <<databaseVars, answerVars, cancelled>>

\* acquire returns to a waiter that was granted the lock.
Acquired(t) ==
  /\ pc[t] = "granted" /\ ~cancelled[t]
  /\ pc' = [pc EXCEPT ![t] = "executing"]
  /\ jobs' = Append(jobs, Job(t, "statement"))
  /\ UNCHANGED <<databaseVars, answerVars, called, lock, mine, at, reply, cancelled,
                 plan, left>>

\* acquire is cancelled while the lock belongs to somebody else.
CancelledWaiting(t) ==
  /\ pc[t] = "waiting" /\ cancelled[t]
  /\ lock' = [lock EXCEPT !.waiters = [i \in DOMAIN lock.waiters |->
                 [lock.waiters[i] EXCEPT !.live = @ /\ lock.waiters[i].task # t]]]
  /\ pc' = [pc EXCEPT ![t] = "idle"]
  /\ cancelled' = [cancelled EXCEPT ![t] = FALSE]
  /\ plan' = [plan EXCEPT ![t] = NoPlan]
  /\ UNCHANGED <<databaseVars, answerVars, called, jobs, mine, at, reply, left>>

\* acquire is cancelled when the lock has just been granted, and drops it.
CancelledGrantedMutant(t) ==
  /\ pc[t] = "granted" /\ cancelled[t]
  /\ pc' = [pc EXCEPT ![t] = "idle"]
  /\ cancelled' = [cancelled EXCEPT ![t] = FALSE]
  /\ plan' = [plan EXCEPT ![t] = NoPlan]
  /\ UNCHANGED <<databaseVars, answerVars, called, jobs, lock, mine, at, reply, left>>

\* acquire is cancelled when the lock has just been granted, and passes it on.
CancelledGranted(t) ==
  /\ pc[t] = "granted" /\ cancelled[t]
  /\ ReleaseAnd(t, "idle")
  /\ cancelled' = [cancelled EXCEPT ![t] = FALSE]
  /\ plan' = [plan EXCEPT ![t] = NoPlan]
  /\ UNCHANGED <<databaseVars, answerVars, called, jobs, mine, at, reply, left>>

-----------------------------------------------------------------------------
(* The transaction.                                                        *)

StatementsOf(call) == IF call.op \in {"clear", "fork"} THEN 2 ELSE 1

\* execute has returned: the next statement follows, or the commit.
StatementDone(t) ==
  /\ pc[t] = "executing" /\ reply[t] = "ok" /\ ~cancelled[t]
  /\ reply' = [reply EXCEPT ![t] = "none"]
  /\ IF at[t] < StatementsOf(called[mine[t]])
     THEN /\ at' = [at EXCEPT ![t] = @ + 1]
          /\ jobs' = Append(jobs, JobFor(t, "statement", mine[t], at[t] + 1))
          /\ UNCHANGED pc
     ELSE /\ pc' = [pc EXCEPT ![t] = "committing"]
          /\ jobs' = Append(jobs, Job(t, "commit"))
          /\ UNCHANGED at
  /\ UNCHANGED <<databaseVars, answerVars, called, lock, mine, cancelled, plan, left>>

\* commit has returned: the lock is passed on and the call returns.
Returns(t) ==
  /\ pc[t] = "committing" /\ reply[t] = "ok" /\ ~cancelled[t]
  /\ reply' = [reply EXCEPT ![t] = "none"]
  /\ returned' = returned \cup {mine[t]}
  /\ ReleaseAnd(t, "idle")
  /\ UNCHANGED <<databaseVars, failed, called, jobs, mine, at, cancelled, plan, left>>

InTransaction(t) ==
  /\ pc[t] \in {"executing", "committing"}
  /\ cancelled[t] \/ reply[t] = "error"

\* A statement or the commit has failed, or the task is cancelled while it
\* waits for one, and nothing is rolled back.
UndoMutant(t) ==
  /\ InTransaction(t)
  /\ failed' = IF cancelled[t] THEN failed ELSE failed \cup {mine[t]}
  /\ cancelled' = [cancelled EXCEPT ![t] = FALSE]
  /\ reply' = [reply EXCEPT ![t] = "none"]
  /\ plan' = [plan EXCEPT ![t] = NoPlan]
  /\ ReleaseAnd(t, "idle")
  /\ jobs' = Abandoned(t)
  /\ UNCHANGED <<databaseVars, returned, called, mine, at, left>>

\* _transaction: a statement or the commit has failed, or the task is cancelled
\* while it waits for one, and the transaction is rolled back.
Undo(t) ==
  /\ InTransaction(t)
  /\ failed' = IF cancelled[t] THEN failed ELSE failed \cup {mine[t]}
  /\ cancelled' = [cancelled EXCEPT ![t] = FALSE]
  /\ reply' = [reply EXCEPT ![t] = "none"]
  /\ plan' = [plan EXCEPT ![t] = NoPlan]
  /\ pc' = [pc EXCEPT ![t] = "undoing"]
  /\ jobs' = Append(Abandoned(t), Job(t, "rollback"))
  /\ UNCHANGED <<databaseVars, returned, called, lock, mine, at, left>>

\* The rollback is done, or the task is cancelled again while it waits for it:
\* the lock is passed on and the call raises.
Raises(t) ==
  /\ pc[t] = "undoing" /\ (reply[t] # "none" \/ cancelled[t])
  /\ cancelled' = [cancelled EXCEPT ![t] = FALSE]
  /\ reply' = [reply EXCEPT ![t] = "none"]
  /\ jobs' = Abandoned(t)
  /\ ReleaseAnd(t, "idle")
  /\ UNCHANGED <<databaseVars, answerVars, called, mine, at, plan, left>>

\* The task is cancelled, wherever it waits.
Cancel(t) ==
  /\ left.cancels > 0 /\ ~cancelled[t]
  /\ pc[t] # "idle" \/ plan[t].stage = "ask"
  /\ cancelled' = [cancelled EXCEPT ![t] = TRUE]
  /\ left' = [left EXCEPT !.cancels = @ - 1]
  /\ UNCHANGED <<databaseVars, answerVars, called, jobs, lock, pc, mine, at, reply, plan>>

-----------------------------------------------------------------------------
(* The connection's thread.                                                *)

\* What statement n of a call leaves of the sessions the connection sees.  The
\* position of a row is the number of rows before it, so that rows keep the
\* order in which they were inserted.
AfterStatement(call, n, s) ==
  CASE call.op = "append" ->
         [s EXCEPT ![call.session].messages = @ \o call.messages]
    [] call.op = "clear" ->
         IF n = 1 THEN [s EXCEPT ![call.session].messages = <<>>]
                  ELSE [s EXCEPT ![call.session].tokens = 0]
    [] call.op = "fork" ->
         IF n = 1 THEN [s EXCEPT ![call.to].messages = @ \o s[call.session].messages]
                  ELSE [s EXCEPT ![call.to].tokens = s[call.session].tokens]
    [] call.op = "set" -> [s EXCEPT ![call.session].tokens = call.tokens]
    [] call.op = "add" -> [s EXCEPT ![call.session].tokens = @ + call.tokens]

\* The rows an append_many that fails has inserted already.
PartOf(call, n) == [call EXCEPT !.messages = SubSeq(@, 1, n)]

Entered(n) == IF n \in ToSet(inside) THEN inside ELSE Append(inside, n)

\* The answer reaches the task that still waits for it.
Answer(job, r) ==
  reply' = IF job.live THEN [reply EXCEPT ![job.task] = r] ELSE reply

Fault ==
  /\ left.faults > 0
  /\ left' = [left EXCEPT !.faults = @ - 1]

Execute(job) ==
  /\ job.do = "statement"
  /\ \/ /\ working' = AfterStatement(called[job.call], job.step, working)
        /\ inside' = Entered(job.call)
        /\ Answer(job, "ok")
        /\ UNCHANGED left
     \/ /\ Fault /\ Answer(job, "error")
        /\ \E n \in 0..(Len(called[job.call].messages) - 1) \cup {0} :
             IF n = 0 THEN UNCHANGED <<working, inside>>
             ELSE /\ working' = AfterStatement(PartOf(called[job.call], n), 1, working)
                  /\ inside' = Entered(job.call)
  /\ UNCHANGED <<store, story, plan>>

Commit(job) ==
  /\ job.do = "commit"
  /\ \/ /\ store' = working /\ story' = story \o inside /\ inside' = <<>>
        /\ Answer(job, "ok")
        /\ UNCHANGED left
     \/ /\ Fault /\ Answer(job, "error")
        /\ UNCHANGED <<store, story, inside>>
  /\ UNCHANGED <<working, plan>>

\* A rollback that fails itself is left out.
Rollback(job) ==
  /\ job.do = "rollback"
  /\ working' = store /\ inside' = <<>>
  /\ Answer(job, "ok")
  /\ UNCHANGED <<store, story, plan, left>>

\* get_history of a compaction's snapshot and get_context_tokens of its store:
\* they read what the connection sees, without the lock.  A read that fails is
\* left out: to the compaction it is what being interrupted there is.
Read(job) ==
  LET p == plan[job.task]
  IN /\ job.do \in {"history", "tokens"}
     /\ Answer(job, "ok")
     /\ plan' = IF ~job.live THEN plan
                ELSE IF job.do = "history"
                     THEN [plan EXCEPT ![job.task].list = working[p.fork].messages]
                     ELSE [plan EXCEPT ![job.task].tokens = working[p.session].tokens]
     /\ UNCHANGED <<databaseVars, left>>

\* The thread takes the jobs in order, those nobody waits for any more too.
Thread ==
  /\ jobs # <<>> /\ jobs' = Tail(jobs)
  /\ \/ Execute(Head(jobs)) \/ Commit(Head(jobs)) \/ Rollback(Head(jobs)) \/ Read(Head(jobs))
  /\ UNCHANGED <<answerVars, called, lock, pc, mine, at, cancelled>>

-----------------------------------------------------------------------------
(* The calls of a store.                                                   *)

CallOf(op, s) == [op |-> op, session |-> s, to |-> s, messages |-> <<>>, tokens |-> 0,
                  by |-> "caller", rest |-> 0]

\* uuid4: a session nobody has used.
Fresh == {s \in Sessions : /\ \A t \in Tasks : s \notin Bound[t]
                           /\ \A n \in DOMAIN called : called[n].to # s}

\* A task outside of any call makes one.
Makes(t, c) ==
  /\ plan[t].stage = "none" /\ left.calls > 0
  /\ Enter(t, c)
  /\ left' = [left EXCEPT !.calls = @ - 1]

Says(kind) == [kind |-> kind, id |-> Len(called) + 1]

AppendOne(t) ==
  /\ \E s \in Bound[t] :
       Makes(t, [CallOf("append", s) EXCEPT !.messages = <<Says("text")>>])
  /\ UNCHANGED plan

AppendMany(t) ==
  /\ \E s \in Bound[t] :
       Makes(t, [CallOf("append", s) EXCEPT !.messages = <<Says("call"), Says("result")>>])
  /\ UNCHANGED plan

Clear(t) ==
  /\ \E s \in Bound[t] : Makes(t, CallOf("clear", s))
  /\ UNCHANGED plan

Fork(t) ==
  /\ \E s \in Bound[t] : \E f \in Fresh : Makes(t, [CallOf("fork", s) EXCEPT !.to = f])
  /\ UNCHANGED plan

SetContextTokens(t) ==
  /\ \E s \in Bound[t] : Makes(t, [CallOf("set", s) EXCEPT !.tokens = 1])
  /\ UNCHANGED plan

\* Bound: one compaction.  None is under way, and none has made a call.
Uncompacted ==
  /\ \A u \in Tasks : plan[u].stage = "none"
  /\ \A n \in DOMAIN called : called[n].by = "caller"

\* add_context_tokens; an AutoCompactStore goes on to compact when the context
\* the provider counted is over its threshold.
AddContextTokens(t) ==
  \E s \in Bound[t] :
    /\ Makes(t, [CallOf("add", s) EXCEPT !.tokens = 1])
    /\ \/ UNCHANGED plan
       \/ /\ t \in Compacting /\ Uncompacted
          /\ plan' = [plan EXCEPT ![t] = [NoPlan EXCEPT !.stage = "fork", !.session = s]]

-----------------------------------------------------------------------------
(* AutoCompactStore._do_compact.  A stage is what comes next when the task  *)
(* has returned from the call it is in.                                    *)

\* A call of the compaction, rest of whose writes are still to come.
OwnCall(op, t, rest) ==
  [CallOf(op, plan[t].session) EXCEPT !.by = "compaction", !.rest = rest]

\* fork
TakeSnapshot(t) ==
  /\ plan[t].stage = "fork"
  /\ \E f \in Fresh :
       /\ Enter(t, [OwnCall("fork", t, 0) EXCEPT !.to = f])
       /\ plan' = [plan EXCEPT ![t].stage = "snapshot", ![t].fork = f]
  /\ UNCHANGED left

\* get_history of the snapshot, get_context_tokens of the store.
StartRead(t) ==
  /\ pc[t] = "idle" /\ plan[t].stage \in {"snapshot", "tokens"}
  /\ pc' = [pc EXCEPT ![t] = "reading"]
  /\ jobs' = Append(jobs, Job(t, IF plan[t].stage = "tokens" THEN "tokens" ELSE "history"))
  /\ UNCHANGED <<databaseVars, answerVars, called, lock, mine, at, reply, cancelled,
                 plan, left>>

\* The history is read, and is too short or goes to the provider; or the tokens
\* are read, and the store is cleared next.
EndRead(t) ==
  /\ pc[t] = "reading" /\ reply[t] = "ok" /\ ~cancelled[t]
  /\ pc' = [pc EXCEPT ![t] = "idle"]
  /\ reply' = [reply EXCEPT ![t] = "none"]
  /\ plan' = [plan EXCEPT ![t] =
                IF @.stage = "tokens" THEN [@ EXCEPT !.stage = "clear"]
                ELSE IF TooShort(@.list, KeepRecent) THEN NoPlan
                ELSE [@ EXCEPT !.stage = "ask"]]
  /\ UNCHANGED <<databaseVars, answerVars, called, jobs, lock, mine, at, cancelled, left>>

\* The summarising agent answers, ..
Summarised(t) ==
  /\ plan[t].stage = "ask" /\ ~cancelled[t]
  /\ plan' = [plan EXCEPT ![t].stage = "tokens", ![t].list = Compacted(@, KeepRecent)]
  /\ UNCHANGED <<databaseVars, answerVars, callVars, called, jobs, lock, left>>

\* .. or fails: the original history is kept.
NotSummarised(t) ==
  /\ plan[t].stage = "ask" /\ ~cancelled[t]
  /\ plan' = [plan EXCEPT ![t] = NoPlan]
  /\ UNCHANGED <<databaseVars, answerVars, callVars, called, jobs, lock, left>>

\* The task is cancelled while the compaction reads or waits for the summary.
Interrupted(t) ==
  /\ pc[t] = "reading" \/ plan[t].stage = "ask"
  /\ cancelled[t]
  /\ pc' = [pc EXCEPT ![t] = "idle"]
  /\ cancelled' = [cancelled EXCEPT ![t] = FALSE]
  /\ reply' = [reply EXCEPT ![t] = "none"]
  /\ plan' = [plan EXCEPT ![t] = NoPlan]
  /\ jobs' = Abandoned(t)
  /\ UNCHANGED <<databaseVars, answerVars, called, lock, mine, at, left>>

ClearForRewrite(t) ==
  /\ plan[t].stage = "clear"
  /\ Enter(t, OwnCall("clear", t, Len(plan[t].list)))
  /\ plan' = [plan EXCEPT ![t].stage = "write"]
  /\ UNCHANGED left

WriteNext(t) ==
  /\ plan[t].stage = "write" /\ plan[t].list # <<>>
  /\ Enter(t, [OwnCall("append", t, Len(plan[t].list) - 1)
                 EXCEPT !.messages = <<Head(plan[t].list)>>])
  /\ plan' = [plan EXCEPT ![t].list = Tail(@)]
  /\ UNCHANGED left

RestoreTokens(t) ==
  /\ plan[t].stage = "write" /\ plan[t].list = <<>>
  /\ Enter(t, [OwnCall("set", t, 0) EXCEPT !.tokens = plan[t].tokens])
  /\ plan' = [plan EXCEPT ![t] = NoPlan]
  /\ UNCHANGED left

-----------------------------------------------------------------------------
\* The process ends without warning and is started again: what was committed
\* is there, and the open transaction is not.
Crash ==
  /\ left.crashes > 0
  /\ left' = [left EXCEPT !.crashes = @ - 1]
  /\ working' = store /\ inside' = <<>> /\ jobs' = <<>>
  /\ lock' = [held |-> FALSE, waiters |-> <<>>]
  /\ pc' = [t \in Tasks |-> "idle"]
  /\ reply' = [t \in Tasks |-> "none"]
  /\ cancelled' = [t \in Tasks |-> FALSE]
  /\ plan' = [t \in Tasks |-> NoPlan]
  /\ UNCHANGED <<store, story, called, mine, at, answerVars>>

UserStep(t) ==
  \/ AppendOne(t) \/ AppendMany(t) \/ Clear(t) \/ Fork(t)
  \/ SetContextTokens(t) \/ AddContextTokens(t)

CallStep(t) ==
  \/ Acquired(t) \/ CancelledWaiting(t) \/ CancelledGranted(t)
  \/ StatementDone(t) \/ Returns(t) \/ Undo(t) \/ Raises(t)

CompactionStep(t) ==
  \/ TakeSnapshot(t) \/ StartRead(t) \/ EndRead(t)
  \/ Summarised(t) \/ NotSummarised(t) \/ Interrupted(t)
  \/ ClearForRewrite(t) \/ WriteNext(t) \/ RestoreTokens(t)

Next ==
  \/ \E t \in Tasks : UserStep(t) \/ CallStep(t) \/ CompactionStep(t) \/ Cancel(t)
  \/ Thread
  \/ Crash

Spec == Init /\ [][Next]_vars

=============================================================================
