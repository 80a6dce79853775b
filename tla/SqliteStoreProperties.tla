------------------------ MODULE SqliteStoreProperties ------------------------
(***************************************************************************)
(* What the tasks that share a connection, and the owner of a conversation *)
(* that is compacted, may rely on.                                         *)
(***************************************************************************)
EXTENDS SqliteStore

-----------------------------------------------------------------------------
(* The lock.                                                               *)

\* The tasks that own the lock, whether they have noticed or not.
Owners == {t \in Tasks : pc[t] \in {"granted", "executing", "committing", "undoing"}}

\* However acquisitions, releases and cancellations interleave, the lock has
\* one owner exactly while it is held, and whoever waits for it waits for that
\* owner: it is never lost between a release and a waiter that is being
\* cancelled (store.py:44-49).
LockIsNeverLost ==
  /\ lock.held <=> Owners # {}
  /\ \A t, u \in Owners : t = u
  /\ \A t \in Tasks : pc[t] = "waiting" =>
       /\ lock.held
       /\ \E i \in DOMAIN lock.waiters : lock.waiters[i].task = t /\ lock.waiters[i].live

-----------------------------------------------------------------------------
(* Transactions.                                                           *)

\* Every call changes what is committed as a whole, or not at all, and once:
\* no cancellation, failure or crash lets a part of a batch be committed, be it
\* by the commit of another task (store.py:177-185).
Ledger == INSTANCE StoreLedger

KeepsLedger == Ledger!Spec

\* A call that has returned is stored and one that has raised an error of the
\* database is not: neither another task's rollback nor its commit reaches it.
AnswersAreTrue ==
  /\ returned \subseteq ToSet(story)
  /\ failed \cap ToSet(story) = {}

-----------------------------------------------------------------------------
(* Compaction.                                                             *)

\* The messages that a row, and a session's rows, stand for.
Original(row) ==
  IF row.kind = "summary" THEN row.of ELSE IF row.kind = "ack" THEN <<>> ELSE <<row>>

StandsFor(rows) == FlattenSeq([i \in DOMAIN rows |-> Original(rows[i])])

\* Every result directly follows its call.
Paired(rows) ==
  \A i \in DOMAIN rows : rows[i].kind = "result" =>
    i > 1 /\ rows[i - 1].kind = "call" /\ rows[i - 1].id = rows[i].id

Plain(rows) == \A i \in DOMAIN rows : rows[i].kind \notin {"summary", "ack"}

\* The bound of one compaction for the start: no session has been compacted.
ASSUME PlainAssumption ==
  \A s \in Sessions : Paired(Before[s].messages) /\ Plain(Before[s].messages)

\* What is known of a session: the messages its callers have told it, and
\* whether its rows have to stand for them.
\*   whole      they have to;
\*   copied     they have to, and a compaction's snapshot has them too;
\*   rewriting  the compaction has cleared the session and its last write is
\*              not stored: it is under way, or was cut short;
\*   lost       the code gives no promise: the session was changed between the
\*              snapshot of a compaction and its last write, or is a fork of
\*              one that was being rewritten.
Exact == {"whole", "copied"}

\* The accounts a after call c, the next one of the story.
Tell(a, c) ==
  LET s == c.session
  IN CASE c.op = "fork" ->
            [a EXCEPT ![c.to] = [told  |-> a[s].told,
                                 state |-> IF a[s].state \in Exact THEN "whole" ELSE "lost"],
                      ![s].state = IF c.by = "compaction" /\ @ \in Exact THEN "copied" ELSE @]
       [] c.op \in {"append", "clear"} /\ c.by = "caller" ->
            [a EXCEPT ![s] = [told  |-> IF c.op = "append" THEN @.told \o c.messages ELSE <<>>,
                              state |-> IF @.state \in Exact THEN "whole" ELSE "lost"]]
       [] c.op = "clear" /\ c.by = "compaction" ->
            [a EXCEPT ![s].state = IF @ = "copied" THEN "rewriting" ELSE "lost"]
       [] c.op = "append" /\ c.by = "compaction" /\ c.rest = 0 ->
            [a EXCEPT ![s].state = IF @ = "rewriting" THEN "whole" ELSE @]
       [] OTHER -> a

AtStart == [s \in Sessions |-> [told |-> Before[s].messages, state |-> "whole"]]

\* The accounts after a sequence of calls.
AccountsOf(calls) ==
  LET after[n \in 0..Len(calls)] ==
        IF n = 0 THEN AtStart ELSE Tell(after[n - 1], calls[n])
  IN after[Len(calls)]

Accounts == AccountsOf([n \in DOMAIN story |-> called[story[n]]])

\* A session stands for everything its callers have told it, in order, before,
\* after and instead of a compaction: whether the summary fails, the history is
\* too short, or the task is cancelled before the rewriting has begun.  And no
\* result is kept without its call, not even right behind a summary.
NothingForgotten ==
  \A s \in Sessions : Accounts[s].state \in Exact =>
    StandsFor(store[s].messages) = Accounts[s].told /\ Paired(store[s].messages)

\* The store is what its callers were answered and what they have told it.
StoredAsTold == AnswersAreTrue /\ NothingForgotten

=============================================================================
