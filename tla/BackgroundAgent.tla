--------------------------- MODULE BackgroundAgent ---------------------------
(***************************************************************************)
(* A background agent (axio_tools_agents/peers.py): the inbox everyone     *)
(* writes to, the runner that takes one input after another from it, the   *)
(* task of the current turn, and the parent every turn is reported to.     *)
(*                                                                         *)
(* Prompts come from local callers that wait for their turn to be over,    *)
(* messages from peers over the agent's socket, context updates from local *)
(* callers, notes from the agent's own notification bucket.  The agent can *)
(* be interrupted, stopped by a peer, and stopped with its process, which  *)
(* cancels the runner up to three times.  Every action is the code between *)
(* two awaits of one task.                                                 *)
(***************************************************************************)
EXTENDS Notify

CONSTANTS Prompts,   \* enqueue_local_agent_prompt(wait=True), once each
          Messages,  \* send_message from a peer, once each
          Updates,   \* enqueue_local_agent_context(wait=True), once each
          FirstTask  \* what the agent was spawned for

Inputs == Prompts \cup Messages \cup Updates

ASSUME BackgroundAssumption ==
  /\ Prompts \cap Messages = {} /\ Prompts \cap Updates = {}
  /\ Messages \cap Updates = {} /\ Inputs \cap Tasks = {}
  /\ FirstTask \notin Inputs \cup Tasks
  /\ "stop" \notin Inputs \cup Tasks \cup {FirstTask}

VARIABLES
  runner,     \* where _run_background_agent is suspended
  item,       \* the input it has taken last
  busy,       \* processing_input
  hit,        \* a cancellation of the runner is to be raised
  kills,      \* cancellations of the runner so far
  turn,       \* where the turn's task is suspended
  cancelling, \* the turn's task is being cancelled
  outcome,    \* what the turn's task returns
  taken,      \* drained notes that are being appended
  history,    \* the ids of what the context store holds
  stopping,   \* the agent accepts nothing more
  sent,       \* what has become of each input
  idler,      \* a caller of wait_local_background_agents_idle
  turns,      \* history variable: turns that were started
  reports     \* history variable: turns the parent was told of

runnerVars == <<runner, item, busy, hit, kills>>
turnVars   == <<turn, cancelling, outcome, taken, history>>
userVars   == <<stopping, sent, idler>>
countVars  == <<turns, reports>>
noteVars   == <<queue, depth, listening, inbox, task, collected>>
vars == <<noteVars, runnerVars, turnVars, userVars, countVars>>

Prompt(id) == [kind |-> "prompt", id |-> id]
Update(id) == [kind |-> "update", id |-> id]
Stop       == [kind |-> "stop", id |-> "stop"]

\* Where the turn is inside its turn scope.
InScope == turn \in {"top", "append", "work"}

TurnLive == turn \notin {"none", "done"}

\* Whether the agent is in _background_agents, and its socket open.
Registered == runner \notin {"leave", "gone"}
Reachable  == runner # "gone"

Init ==
  /\ queue = << >> /\ depth = 0 /\ listening = TRUE
  /\ inbox = <<Prompt(FirstTask)>>
  /\ task = [t \in Tasks |-> "none"] /\ collected = {}
  /\ runner = "created" /\ item = Stop /\ busy = FALSE /\ hit = FALSE /\ kills = 0
  /\ turn = "none" /\ cancelling = FALSE /\ outcome = "none"
  /\ taken = << >> /\ history = << >>
  /\ stopping = FALSE /\ idler = "none"
  /\ sent \in [Inputs -> {"absent", "unsent"}]  \* some never come
  /\ turns = 0 /\ reports = 0

\* Each definition named ..Mutant is a plausible mistake in the definition
\* that follows it, kept to show that the properties would notice.

-----------------------------------------------------------------------------
(* Those who talk to the agent.                                            *)

Admit(x, i) ==
  IF stopping
  THEN /\ sent' = [sent EXCEPT ![x] = "refused"]
       /\ UNCHANGED inbox
  ELSE /\ sent' = [sent EXCEPT ![x] = "queued"]
       /\ inbox' = Append(inbox, i)

\* A local caller, which then awaits the input's done future ...
SendLocally ==
  /\ Registered
  /\ \/ \E p \in Prompts : sent[p] = "unsent" /\ Admit(p, Prompt(p))
     \/ \E u \in Updates : sent[u] = "unsent" /\ Admit(u, Update(u))
  /\ UNCHANGED <<bucket, task, collected, runnerVars, turnVars, stopping, idler, countVars>>

\* ... and a peer, which only needs the socket.
SendMessage ==
  /\ Reachable
  /\ \E m \in Messages : sent[m] = "unsent" /\ Admit(m, Prompt(m))
  /\ UNCHANGED <<bucket, task, collected, runnerVars, turnVars, stopping, idler, countVars>>

\* wait_local_background_agents_idle: idle means nothing in hand, in the turn
\* or in the inbox.
Idle == ~busy /\ ~TurnLive /\ inbox = << >>

WaitIdle ==
  /\ idler = "none" /\ Registered /\ ~Idle
  /\ idler' = "waiting"
  /\ UNCHANGED <<noteVars, runnerVars, turnVars, stopping, sent, countVars>>

\* Woken, it looks again.
LookAgain ==
  /\ idler = "woken"
  /\ idler' = IF Registered /\ ~Idle THEN "waiting" ELSE "returned"
  /\ UNCHANGED <<noteVars, runnerVars, turnVars, stopping, sent, countVars>>

\* cancel_task_once(current_turn).
CancelTurn == cancelling' = (cancelling \/ TurnLive)

InterruptTurn ==
  /\ Reachable /\ TurnLive /\ ~cancelling
  /\ CancelTurn
  /\ UNCHANGED <<noteVars, runnerVars, turn, outcome, taken, history, userVars, countVars>>

\* stop_agent, once: a second call would only add another sentinel.
StopAgent ==
  /\ Reachable /\ ~stopping
  /\ stopping' = TRUE
  /\ CancelTurn
  /\ inbox' = Append(inbox, Stop)
  /\ UNCHANGED <<bucket, task, collected, runnerVars, turn, outcome, taken, history,
                 sent, idler, countVars>>

\* A cancellation of the runner: while it awaits the turn's task this only
\* cancels that task, which is being cancelled already.
CancelRunner ==
  /\ kills' = kills + 1
  /\ hit' = (hit \/ runner # "turn")

\* stop_local_background_agents: stop, and cancel the runner at once ...
StopLocally ==
  /\ kills = 0 /\ Registered
  /\ stopping' = TRUE
  /\ CancelTurn
  /\ inbox' = Append(inbox, Stop)
  /\ CancelRunner
  /\ UNCHANGED <<bucket, task, collected, runner, item, busy, turn, outcome, taken,
                 history, sent, idler, countVars>>

\* ... and twice more, a grace period apart.
CancelAgain ==
  /\ kills \in {1, 2} /\ runner \notin {"gone", "dead"}
  /\ CancelRunner
  /\ UNCHANGED <<noteVars, runner, item, busy, turnVars, userVars, countVars>>

-----------------------------------------------------------------------------
(* The runner.                                                             *)

RunnerRuns == ~hit

\* _notify_idle, in the state the step leads to.
WakeIdler ==
  idler' = IF idler = "waiting" /\ ~busy' /\ turn' \in {"none", "done"} /\ inbox' = << >>
           THEN "woken" ELSE idler

\* The done future of an input nobody has answered.
Release(ids) ==
  sent' = [x \in Inputs |-> IF x \in ids /\ sent[x] = "queued" THEN "returned" ELSE sent[x]]

RunnerBegins ==
  /\ runner = "created" /\ RunnerRuns
  /\ runner' = "get"
  /\ UNCHANGED <<noteVars, item, busy, hit, kills, turnVars, userVars, countVars>>

Took(i) ==
  /\ runner = "get" /\ RunnerRuns /\ inbox # << >>
  /\ i = Head(inbox)
  /\ inbox' = Tail(inbox)
  /\ item' = i

\* The sentinel, or any input once the agent is stopping.
TakeStop ==
  /\ Took(Head(inbox)) /\ (item'.kind = "stop" \/ stopping)
  /\ Release({item'.id})
  /\ runner' = "close"
  /\ UNCHANGED <<bucket, task, collected, busy, hit, kills, turnVars, stopping, idler, countVars>>

TakeUpdate ==
  /\ Took(Head(inbox)) /\ item'.kind = "update" /\ ~stopping
  /\ busy' = TRUE
  /\ runner' = "update"
  /\ UNCHANGED <<bucket, task, collected, hit, kills, turnVars, userVars, countVars>>

TakePromptMutant ==        \* only the sentinel ends the runner
  /\ Took(Head(inbox)) /\ item'.kind \in {"prompt", "note"}
  /\ busy' = TRUE
  /\ turn' = "created" /\ cancelling' = FALSE /\ outcome' = "none"
  /\ turns' = turns + 1
  /\ runner' = "turn"
  /\ UNCHANGED <<bucket, task, collected, hit, kills, taken, history, userVars, reports>>

\* Anything else starts a turn, as a task of its own.
TakePrompt ==
  /\ Took(Head(inbox)) /\ item'.kind \in {"prompt", "note"} /\ ~stopping
  /\ busy' = TRUE
  /\ turn' = "created" /\ cancelling' = FALSE /\ outcome' = "none"
  /\ turns' = turns + 1
  /\ runner' = "turn"
  /\ UNCHANGED <<bucket, task, collected, hit, kills, taken, history, userVars, reports>>

\* The update is committed, or the store refuses it: the caller is told.
UpdateDone ==
  /\ runner = "update" /\ RunnerRuns
  /\ \/ /\ history' = Append(history, item.id)
        /\ Release({item.id})
     \/ /\ sent' = [sent EXCEPT ![item.id] = "error"]
        /\ UNCHANGED history
  /\ busy' = FALSE /\ runner' = "get"
  /\ UNCHANGED <<noteVars, item, hit, kills, turn, cancelling, outcome, taken, stopping, countVars>>
  /\ WakeIdler

TurnOverMutant ==          \* an interrupted turn is not reported
  /\ runner = "turn" /\ RunnerRuns /\ turn = "done"
  /\ turn' = "none" /\ Release({item.id})
  /\ runner' = IF stopping THEN "close" ELSE IF outcome = "none" THEN "get" ELSE "report"
  /\ UNCHANGED reports
  /\ busy' = (runner' = "report")
  /\ UNCHANGED <<noteVars, item, hit, kills, cancelling, outcome, taken, history, stopping, turns>>
  /\ WakeIdler

\* The turn's task is over: its sender is released and, unless the agent is
\* stopping, the parent is told.  An outcome is handed to the host's handler,
\* which may take its time; a cancelled turn has none and is posted at once.
TurnOver ==
  /\ runner = "turn" /\ RunnerRuns /\ turn = "done"
  /\ turn' = "none" /\ Release({item.id})
  /\ CASE stopping            -> runner' = "close" /\ UNCHANGED reports
       [] outcome # "none" /\ ~stopping -> runner' = "report" /\ UNCHANGED reports
       [] OTHER               -> runner' = "deliver" /\ reports' = reports + 1
  /\ busy' = ~stopping
  /\ UNCHANGED <<noteVars, item, hit, kills, cancelling, outcome, taken, history, stopping, turns>>
  /\ WakeIdler

\* The handler has the outcome; OutcomeDelivered is being published.
Reported ==
  /\ runner = "report" /\ RunnerRuns
  /\ reports' = reports + 1
  /\ runner' = "deliver"
  /\ UNCHANGED <<noteVars, item, busy, hit, kills, turnVars, userVars, turns>>

\* The handler raises: this ends the runner, and so the agent.
ReportFails ==
  /\ runner = "report" /\ RunnerRuns
  /\ busy' = FALSE /\ runner' = "close"
  /\ UNCHANGED <<noteVars, item, hit, kills, turnVars, stopping, sent, countVars>>
  /\ WakeIdler

Delivered ==
  /\ runner = "deliver" /\ RunnerRuns
  /\ busy' = FALSE
  /\ runner' = IF stopping THEN "close" ELSE "get"
  /\ UNCHANGED <<noteVars, item, hit, kills, turnVars, stopping, sent, countVars>>
  /\ WakeIdler

\* context.close() returns or raises; AgentStopped is published either way.
Close ==
  /\ runner = "close" /\ RunnerRuns
  /\ runner' = "publish"
  /\ UNCHANGED <<noteVars, item, busy, hit, kills, turnVars, userVars, countVars>>

FinishMutant ==            \* the inputs that are left are just dropped
  /\ runner = "publish" /\ RunnerRuns
  /\ inbox' = << >>
  /\ DiscardBucket
  /\ runner' = "leave"
  /\ UNCHANGED <<task, collected, item, busy, hit, kills, turnVars, stopping, sent, countVars>>
  /\ WakeIdler

\* _finish_pending_prompts, then the agent and its bucket are forgotten.
Finish ==
  /\ runner = "publish" /\ RunnerRuns
  /\ Release({inbox[i].id : i \in 1..Len(inbox)})
  /\ inbox' = << >>
  /\ DiscardBucket
  /\ runner' = "leave"
  /\ UNCHANGED <<task, collected, item, busy, hit, kills, turnVars, stopping, countVars>>
  /\ WakeIdler

PeerClosed ==
  /\ runner = "leave"
  /\ runner' = "gone" /\ hit' = FALSE
  /\ UNCHANGED <<noteVars, item, busy, kills, turnVars, userVars, countVars>>

\* The cancellation is raised.  Before its first step the runner never runs;
\* while it publishes AgentStopped, everything that is to follow is skipped;
\* an update in hand is stored or not, and its caller not told.
RunnerHit ==
  /\ hit /\ runner \in {"created", "get", "update", "report", "deliver", "close", "publish"}
  /\ hit' = FALSE
  /\ runner' = CASE runner \in {"created", "publish"} -> "dead"
                 [] runner = "close"                  -> "publish"
                 [] OTHER                             -> "close"
  /\ busy' = FALSE
  /\ history' \in {history, IF runner = "update" THEN Append(history, item.id) ELSE history}
  /\ UNCHANGED <<noteVars, item, kills, turn, cancelling, outcome, taken, stopping, sent, countVars>>
  /\ IF runner \in {"update", "report", "deliver"} THEN WakeIdler ELSE UNCHANGED idler

-----------------------------------------------------------------------------
(* The turn.                                                               *)

TurnRuns == ~cancelling

UnchangedAroundTurn == UNCHANGED <<task, collected, runnerVars, userVars, countVars>>

\* TurnStarted is published and the input about to be appended.
TurnBegins ==
  /\ turn = "created" /\ TurnRuns
  /\ turn' = "starting"
  /\ UNCHANGED <<noteVars, cancelling, outcome, taken, history>> /\ UnchangedAroundTurn

\* The input is stored, and the turn scope entered; or the store refuses it.
TurnInput ==
  /\ turn = "starting" /\ TurnRuns
  /\ \/ /\ history' = Append(history, item.id)
        /\ EnterScope
        /\ turn' = "top" /\ UNCHANGED outcome
     \/ /\ turn' = "finishing" /\ outcome' = "failed"
        /\ UNCHANGED <<history, bucket, inbox>>
  /\ UNCHANGED <<cancelling, taken>> /\ UnchangedAroundTurn

\* The top of an iteration drains the notes ...
TurnDrain ==
  /\ turn = "top" /\ TurnRuns
  /\ taken' = queue /\ queue' = << >>
  /\ turn' = IF queue = << >> THEN "work" ELSE "append"
  /\ UNCHANGED <<depth, listening, inbox, cancelling, outcome, history>> /\ UnchangedAroundTurn

\* ... and stores them as one message.
TurnAppend ==
  /\ turn = "append" /\ TurnRuns
  /\ history' = history \o taken /\ taken' = << >>
  /\ turn' = "work"
  /\ UNCHANGED <<noteVars, cancelling, outcome>> /\ UnchangedAroundTurn

\* The model is asked, its tools run: a call may be detached, even while the
\* turn is being cancelled.
TurnDetaches ==
  /\ turn = "work"
  /\ \E t \in Tasks : Detach(t)
  /\ UNCHANGED <<runnerVars, turnVars, userVars, countVars>>

TurnAgain ==
  /\ turn = "work" /\ TurnRuns
  /\ turn' = "top"
  /\ UNCHANGED <<noteVars, cancelling, outcome, taken, history>> /\ UnchangedAroundTurn

\* The stream ends, well or not, and with it the turn scope.
TurnEnds ==
  /\ turn = "work" /\ TurnRuns
  /\ LeaveScope
  /\ outcome' \in {"ok", "failed"}
  /\ turn' = "finishing"
  /\ UNCHANGED <<cancelling, taken, history>> /\ UnchangedAroundTurn

\* The notes cannot be stored: they are lost and the turn has failed.
TurnAppendFails ==
  /\ turn = "append" /\ TurnRuns
  /\ LeaveScope
  /\ taken' = << >> /\ outcome' = "failed"
  /\ turn' = "finishing"
  /\ UNCHANGED <<cancelling, history>> /\ UnchangedAroundTurn

\* TurnFinished is published and the outcome returned.
TurnFinishes ==
  /\ turn = "finishing" /\ TurnRuns
  /\ turn' = "done"
  /\ UNCHANGED <<noteVars, cancelling, outcome, taken, history>> /\ UnchangedAroundTurn

\* The cancellation is raised before the turn scope: the input may be lost.
TurnCut ==
  /\ turn \in {"created", "starting", "finishing"} /\ cancelling
  /\ history' \in {history, IF turn = "starting" THEN Append(history, item.id) ELSE history}
  /\ turn' = "done" /\ outcome' = "none"
  /\ UNCHANGED <<noteVars, cancelling, taken>> /\ UnchangedAroundTurn

\* Inside it: the drained notes may be lost, the scope is left, and what is
\* still to be done is shielded.
TurnUnwinds ==
  /\ InScope /\ cancelling
  /\ LeaveScope
  /\ history' \in {history, history \o taken} /\ taken' = << >>
  /\ turn' = "closing"
  /\ UNCHANGED <<cancelling, outcome>> /\ UnchangedAroundTurn

TurnCloses ==
  /\ turn = "closing"
  /\ turn' = "done"
  /\ UNCHANGED <<noteVars, cancelling, outcome, taken, history>> /\ UnchangedAroundTurn

-----------------------------------------------------------------------------

TaskStep ==
  /\ \E t \in Tasks : TaskEnds(t) \/ TaskSettles(t) \/ Describe(t)
  /\ UNCHANGED <<runnerVars, turnVars, userVars, countVars>>

RunnerStep ==
  \/ RunnerBegins \/ TakeStop \/ TakeUpdate \/ TakePrompt \/ UpdateDone \/ TurnOver
  \/ Reported \/ Delivered \/ Close \/ Finish \/ PeerClosed \/ RunnerHit

TurnStep ==
  \/ TurnBegins \/ TurnInput \/ TurnDrain \/ TurnAppend
  \/ TurnFinishes \/ TurnCut \/ TurnUnwinds \/ TurnCloses

TurnChoice == TurnDetaches \/ TurnAgain \/ TurnAppendFails \/ TurnEnds

Clients ==
  \/ SendLocally \/ SendMessage \/ WaitIdle \/ LookAgain
  \/ InterruptTurn \/ StopAgent \/ StopLocally \/ CancelAgain

\* The agent is gone, or was cancelled out of its cleanup.
Rest == runner \in {"gone", "dead"} /\ UNCHANGED vars

Next == TaskStep \/ RunnerStep \/ ReportFails \/ TurnStep \/ TurnChoice \/ Clients \/ Rest

Spec == Init /\ [][Next]_vars

\* The event loop runs what is ready; a turn, bounded by max_iterations,
\* comes to its end.
Fairness == WF_vars(RunnerStep) /\ WF_vars(TurnStep) /\ SF_vars(TurnEnds) /\ WF_vars(LookAgain)

FairSpec == Spec /\ Fairness

=============================================================================
