------------------------------ MODULE AgentRun ------------------------------
(***************************************************************************)
(* One run of the agent loop (axio/agent.py, Agent._run_loop): the stream  *)
(* of one provider response after another, the tools each response asks    *)
(* for, the conversation store, and the caller that pulls the run's events *)
(* one at a time and may cancel the run or walk away from it.              *)
(*                                                                         *)
(* The run is an async generator.  While the caller is "pulling", the      *)
(* generator runs or waits in an await, where a cancellation is raised;    *)
(* while it is "holding" an event the generator is suspended at a yield    *)
(* and the caller may only resume or close it.  Every action of the run is *)
(* the code between two awaits.  The tool tasks, the task that gathers     *)
(* them, the host with its deferred-tool sink, and the caller interleave   *)
(* with it.                                                                *)
(***************************************************************************)
EXTENDS Naturals, Sequences, FiniteSets

CONSTANTS Calls,      \* the tool-call ids one response may use
          MaxIter,    \* Agent.max_iterations
          MaxDelta,   \* bound on the output deltas of one dispatch
          HasSink,    \* whether the host supplies a DeferredToolSink
          Store       \* which kind of ContextStore the run writes to

ASSUME AgentRunAssumption ==
  /\ MaxIter \in Nat \ {0}
  /\ MaxDelta \in Nat
  /\ HasSink \in BOOLEAN
  /\ Store \in {"memory", "transaction", "sequential"}

VARIABLES
  pc,         \* where the run's coroutine is suspended
  caller,     \* "pulling", or "holding" an event
  iteration,  \* number of the provider request
  turn,       \* _Turn: what the current response has said
  plan,       \* what is left to store and to report, and where to go then
  grace,      \* event-loop passes the finalizer still waits
  emitted,    \* the result and terminal events the caller has been given
  history,    \* the messages in the context store
  tools,      \* state of each call's task in the current dispatch
  dispatch,   \* state of the task that gathers them
  queue,      \* output_queue: deltas, then the closing None
  deltas,     \* deltas produced so far in this dispatch
  ran,        \* history variable: the calls whose handler was entered
  sink,       \* phase of the dispatch in the host's DeferredToolSink
  preempt,    \* _OwnedDispatch.preemption_requested
  stopAsked   \* _OwnedDispatch.interruption_requested

runVars  == <<pc, caller, iteration, turn, plan, grace, emitted>>
toolVars == <<tools, dispatch, queue, deltas, ran>>
sinkVars == <<sink, preempt, stopAsked>>
vars     == <<pc, caller, iteration, turn, plan, grace, emitted, history,
              tools, dispatch, queue, deltas, ran, sink, preempt, stopAsked>>

-----------------------------------------------------------------------------
(* Values.                                                                 *)

\* One stop reason for each class the loop tells apart.  "limit" and
\* "repetition" are the two ways the run cuts a response itself, "none" is a
\* stream that ended without an IterationEnd, "open" one that has not ended.
Vouching == {"end_turn", "tool_use", "pause_turn"}
Reported == Vouching \cup {"max_tokens", "other"}
Cut      == {"none", "limit", "repetition"}
Reasons  == {"open"} \cup Reported \cup Cut

Outcomes == {"ok", "malformed", "refused", "interrupted", "deferred"}

Rounds == 0..MaxIter

OpenTurn == [reason |-> "open", text |-> FALSE, pending |-> {},
             calls |-> {}, malformed |-> {}]

Input    == [kind |-> "input",   at |-> 0]
Notice   == [kind |-> "notice",  at |-> iteration]
Answer   == [kind |-> "answer",  at |-> iteration]
Request  == [kind |-> "request", at |-> iteration, calls |-> turn.calls]
Reply(f) == [kind |-> "reply",   at |-> iteration, of |-> f]

\* The assistant message and the message of its results.
ExchangeOf(f) == <<Request, Reply(f)>>

ResultEvent(c) == [type |-> "result", at |-> iteration, call |-> c]
ErrorEvent     == [type |-> "error"]
EndEvent(r)    == [type |-> "end", reason |-> r]

\* The two events of a run that ends on an error of its own.
ErrorEnd == <<ErrorEvent, EndEvent("error")>>

Pulling == caller = "pulling"

Runnable == turn.calls \ turn.malformed

DispatchOver == dispatch \in {"done", "cancelled"}

ToolActive(c) == tools[c] \in {"queued", "running", "stopping"}

Ended == {"ended", "raised", "closed"}

-----------------------------------------------------------------------------
(* What several actions share.                                             *)

Idle == [batch |-> << >>, report |-> {}, out |-> << >>, next |-> "ended"]

\* Report out, then leave for next: no store operation is pending.
Reporting(out, next) ==
  /\ plan' = [batch |-> << >>, report |-> {}, out |-> out, next |-> next]
  /\ pc' = "yielding"

\* The outer "except BaseException": one terminal event, then raise.
Unwind == Reporting(<<EndEvent("error")>>, "raised")

\* Store batch, report the results in report and the events in out, go on.
Storing(at, batch, report, out, next) ==
  /\ plan' = [batch |-> batch, report |-> report, out |-> out, next |-> next]
  /\ pc' = at

\* The next turn of the for loop, or the end of it.
NextIteration ==
  IF iteration < MaxIter
  THEN /\ pc' = "top"
       /\ iteration' = iteration + 1
       /\ plan' = Idle
  ELSE /\ Reporting(ErrorEnd, "ended")
       /\ UNCHANGED iteration

\* What append_many(plan.batch) may have stored by the time it is cancelled
\* or fails: nothing, all of it, or, message by message, any prefix of it.
StoredBy(batch) ==
  IF Store = "sequential"
  THEN {SubSeq(batch, 1, n) : n \in 0..Len(batch)}
  ELSE {<< >>, batch}

\* task.cancel() on the dispatch: before its first step it never runs, and
\* afterwards it cancels its tool tasks and waits for them.
KillDispatch ==
  /\ dispatch' = CASE dispatch = "created" -> "cancelled"
                   [] dispatch = "running" -> "unwinding"
                   [] OTHER                -> dispatch
  /\ tools' = [c \in Calls |-> CASE tools[c] = "queued"  -> "cancelled"
                                 [] tools[c] = "running" -> "stopping"
                                 [] OTHER                -> tools[c]]

Init ==
  /\ pc = "input" /\ caller = "pulling" /\ iteration = 0
  /\ turn = OpenTurn /\ plan = Idle /\ grace = 0 /\ emitted = << >>
  /\ history = << >>
  /\ tools = [c \in Calls |-> "idle"] /\ dispatch = "none"
  /\ queue = << >> /\ deltas = 0 /\ ran = {}
  /\ sink = "none" /\ preempt = FALSE /\ stopAsked = FALSE

-----------------------------------------------------------------------------
(* The run, up to the end of a response.                                   *)

\* Each definition named ..Mutant is a plausible mistake in the definition
\* that follows it, kept to show that the properties would notice.

\* append_many(initial_messages) and on_input_committed, before the try.
StoreInput ==
  /\ pc = "input"
  /\ history' = Append(history, Input)
  /\ pc' = "top" /\ iteration' = 1
  /\ UNCHANGED <<caller, turn, plan, grace, emitted, toolVars, sinkVars>>

\* A cancellation or an exception there leaves no terminal event behind.
InputFails ==
  /\ pc = "input"
  /\ history' \in {history, Append(history, Input)}
  /\ pc' = "raised"
  /\ UNCHANGED <<caller, iteration, turn, plan, grace, emitted, toolVars, sinkVars>>

\* Notifications drained into the history, the history read, the tools of
\* this request selected.
Prepare ==
  /\ pc = "top"
  /\ history' \in {history, Append(history, Notice)}
  /\ turn' = OpenTurn
  /\ pc' = "streaming"
  /\ UNCHANGED <<caller, iteration, plan, grace, emitted, toolVars, sinkVars>>

StreamEvent(t) ==
  /\ pc = "streaming" /\ Pulling /\ turn.reason = "open"
  /\ turn' = t
  /\ caller' = "holding"
  /\ UNCHANGED <<pc, iteration, plan, grace, emitted, history, toolVars, sinkVars>>

StreamText == ~turn.text /\ StreamEvent([turn EXCEPT !.text = TRUE])

StreamCall(c) ==
  c \notin turn.pending /\ StreamEvent([turn EXCEPT !.pending = @ \cup {c}])

\* IterationEnd: the pending calls become content; those whose arguments do
\* not parse are malformed.
StreamEnd ==
  \E r \in Reported, bad \in SUBSET turn.pending :
    StreamEvent([turn EXCEPT !.reason = r, !.calls = turn.pending,
                             !.malformed = bad, !.pending = {}])

\* The response stops without an IterationEnd: the stream is exhausted, or
\* the output guard or the repetition detector cuts it.  A pending call is
\* dropped with it.
StreamCut ==
  /\ pc = "streaming" /\ Pulling /\ turn.reason = "open"
  /\ \E r \in Cut : turn' = [turn EXCEPT !.reason = r, !.pending = {},
                                         !.text = @ \/ r # "none"]
  /\ UNCHANGED <<pc, caller, iteration, plan, grace, emitted, history, toolVars, sinkVars>>

\* The transport raises, before or after it reported its IterationEnd:
\* nothing of the response is stored.
StreamFails ==
  /\ pc = "streaming" /\ Pulling
  /\ Reporting(ErrorEnd, "ended")
  /\ UNCHANGED <<caller, iteration, turn, grace, emitted, history, toolVars, sinkVars>>

\* What the run reports for a response that dispatches nothing.
Verdict ==
  CASE turn.reason = "end_turn"   -> [out |-> <<EndEvent("end_turn")>>, next |-> "ended"]
    [] turn.reason = "max_tokens" -> [out |-> <<EndEvent("max_tokens")>>, next |-> "ended"]
    [] turn.reason = "repetition" -> [out |-> <<EndEvent("repetition")>>, next |-> "ended"]
    [] \/ turn.reason = "pause_turn"
       \/ turn.reason = "tool_use" /\ turn.text
                                  -> [out |-> << >>, next |-> "again"]
    [] OTHER                      -> [out |-> ErrorEnd, next |-> "ended"]

ResponseOver == pc = "streaming" /\ Pulling /\ turn.reason # "open"

\* A response without calls, or whose reason does not vouch for them: they
\* are stored beside a result that says they were not run.
Conclude ==
  /\ ResponseOver
  /\ \/ /\ turn.calls = {}
        /\ Storing("writing", <<Answer>>, {}, Verdict.out, Verdict.next)
     \/ /\ turn.calls # {} /\ turn.reason \notin Vouching
        /\ Storing("writing", ExchangeOf([c \in turn.calls |-> "refused"]),
                   turn.calls, Verdict.out, Verdict.next)
  /\ UNCHANGED <<caller, iteration, turn, grace, emitted, history, toolVars, sinkVars>>

-----------------------------------------------------------------------------
(* The run, storing and reporting.                                         *)

WriteMutant ==          \* the reply is forgotten, and the sink never told
  /\ pc \in {"writing", "closing"} /\ plan.batch # << >>
  /\ history' = Append(history, Head(plan.batch))
  /\ plan' = [plan EXCEPT !.batch = << >>]
  /\ pc' = "yielding"
  /\ UNCHANGED <<caller, iteration, turn, grace, emitted, toolVars, sinkVars>>

\* One completed append: the whole batch where append_many is atomic, one
\* message where the store inherits the sequential default.  The finalizer's
\* last one ("closing") also tells the sink that the protocol is closed; a
\* sink that has dropped the dispatch meanwhile answers with an exception.
Write ==
  /\ pc \in {"writing", "closing"} /\ plan.batch # << >>
  /\ LET one == Store = "sequential" /\ Len(plan.batch) > 1 IN
       IF one
       THEN /\ history' = Append(history, Head(plan.batch))
            /\ plan' = [plan EXCEPT !.batch = Tail(@)]
            /\ UNCHANGED <<pc, sink>>
       ELSE /\ history' = history \o plan.batch
            /\ IF pc = "closing" /\ sink = "dropped"
               THEN Unwind /\ UNCHANGED sink
               ELSE /\ plan' = [plan EXCEPT !.batch = << >>]
                    /\ pc' = "yielding"
                    /\ sink' = IF sink = "deferred" THEN "closed" ELSE sink
  /\ UNCHANGED <<caller, iteration, turn, grace, emitted, toolVars, preempt, stopAsked>>

\* The store raises.  Out of the finalizer, this replaces the cancellation,
\* and a deferred dispatch is never closed.
WriteFails ==
  /\ pc \in {"writing", "closing"} /\ Store # "memory"
  /\ \E stored \in StoredBy(plan.batch) :
       /\ stored # plan.batch
       /\ history' = history \o stored
  /\ Unwind
  /\ UNCHANGED <<caller, iteration, turn, grace, emitted, toolVars, sinkVars>>

YieldResult ==
  /\ pc = "yielding" /\ Pulling
  /\ \E c \in plan.report :
       /\ emitted' = Append(emitted, ResultEvent(c))
       /\ plan' = [plan EXCEPT !.report = @ \ {c}]
  /\ caller' = "holding"
  /\ UNCHANGED <<pc, iteration, turn, grace, history, toolVars, sinkVars>>

YieldTerminal ==
  /\ pc = "yielding" /\ Pulling /\ plan.report = {} /\ plan.out # << >>
  /\ emitted' = Append(emitted, Head(plan.out))
  /\ plan' = [plan EXCEPT !.out = Tail(@)]
  /\ caller' = "holding"
  /\ UNCHANGED <<pc, iteration, turn, grace, history, toolVars, sinkVars>>

\* Everything is reported: leave the loop, start its next turn, or, after a
\* dispatch, call before_next_provider_request first.
Proceed ==
  /\ pc = "yielding" /\ Pulling /\ plan.report = {} /\ plan.out = << >>
  /\ IF plan.next = "again"
     THEN NextIteration
     ELSE /\ pc' = plan.next
          /\ plan' = Idle
          /\ UNCHANGED iteration
  /\ UNCHANGED <<caller, turn, grace, emitted, history, toolVars, sinkVars>>

\* before_next_provider_request returns.
Hook ==
  /\ pc = "hook"
  /\ NextIteration
  /\ UNCHANGED <<caller, turn, grace, emitted, history, toolVars, sinkVars>>

-----------------------------------------------------------------------------
(* The run, dispatching tools.                                             *)

\* Every call was malformed: nothing runs, each is answered.
AnswerMalformed ==
  /\ ResponseOver /\ turn.reason \in Vouching
  /\ turn.calls # {} /\ Runnable = {}
  /\ Storing("writing", ExchangeOf([c \in turn.calls |-> "malformed"]),
             turn.calls, << >>, "hook")
  /\ UNCHANGED <<caller, iteration, turn, grace, emitted, history, toolVars, sinkVars>>

StartDispatch ==
  /\ ResponseOver /\ turn.reason \in Vouching /\ Runnable # {}
  /\ tools' = [c \in Calls |-> IF c \in Runnable THEN "queued" ELSE "idle"]
  /\ dispatch' = "created" /\ queue' = << >> /\ deltas' = 0
  /\ sink' = IF HasSink THEN "active" ELSE "none"
  /\ preempt' = FALSE /\ stopAsked' = FALSE
  /\ pc' = "dispatching"
  /\ UNCHANGED <<caller, iteration, turn, plan, grace, emitted, history, ran>>

TakeDelta ==
  /\ pc = "dispatching" /\ Pulling
  /\ queue # << >> /\ Head(queue) = "delta"
  /\ queue' = Tail(queue)
  /\ caller' = "holding"
  /\ UNCHANGED <<pc, iteration, turn, plan, grace, emitted, history, tools,
                 dispatch, deltas, ran, sinkVars>>

\* The closing None: the dispatch is over, one more pass before its result.
TakeEnd ==
  /\ pc = "dispatching" /\ Pulling
  /\ queue # << >> /\ Head(queue) = "none"
  /\ queue' = Tail(queue)
  /\ pc' = "settle"
  /\ UNCHANGED <<caller, iteration, turn, plan, grace, emitted, history, tools,
                 dispatch, deltas, ran, sinkVars>>

AbortedMutant(outcome) == [c \in Runnable |-> outcome]

\* The result of each call when the dispatch ran to its end.
Completed == [c \in turn.calls |-> IF c \in turn.malformed THEN "malformed" ELSE "ok"]

\* The result of each call when it did not.
Aborted(outcome) ==
  [c \in turn.calls |-> IF c \in turn.malformed THEN "malformed" ELSE outcome]

Settle ==
  /\ pc = "settle" /\ dispatch = "done"
  /\ sink' = "none"
  /\ Storing("writing", ExchangeOf(Completed), turn.calls, << >>, "hook")
  /\ UNCHANGED <<caller, iteration, turn, grace, emitted, history, toolVars, preempt, stopAsked>>

\* A tool let a CancelledError of its own out: the run takes it for a
\* cancellation of the turn.
SettleCancelled ==
  /\ pc = "settle" /\ dispatch = "cancelled"
  /\ pc' = "interrupted"
  /\ UNCHANGED <<caller, iteration, turn, plan, grace, emitted, history, toolVars, sinkVars>>

-----------------------------------------------------------------------------
(* The finalizer of an interrupted dispatch, shielded from cancellation.   *)

Deferring == HasSink /\ preempt

\* A batch that is to be deferred gets two passes to finish by itself.
FinalizeBegin ==
  /\ pc = "interrupted"
  /\ grace' = IF Deferring /\ ~DispatchOver THEN 2 ELSE 0
  /\ pc' = "grace"
  /\ UNCHANGED <<caller, iteration, turn, plan, emitted, history, toolVars, sinkVars>>

GracePassMutant ==      \* the passes are not counted
  /\ pc = "grace" /\ ~DispatchOver
  /\ grace' = grace - 1
  /\ UNCHANGED <<pc, caller, iteration, turn, plan, emitted, history, toolVars, sinkVars>>

GracePass ==
  /\ pc = "grace" /\ grace > 0 /\ ~DispatchOver
  /\ grace' = grace - 1
  /\ UNCHANGED <<pc, caller, iteration, turn, plan, emitted, history, toolVars, sinkVars>>

Decided == pc = "grace" /\ (grace = 0 \/ DispatchOver)

\* Store the exchange, report the calls it closes, then raise.
Closing(f, report) ==
  Storing("closing", ExchangeOf(f), report, <<EndEvent("error")>>, "raised")

FinalizeCompletedMutant ==  \* the results of a batch that ended are thrown away
  /\ Decided /\ dispatch = "done"
  /\ sink' = "none" /\ grace' = 0
  /\ Closing(Aborted("interrupted"), turn.calls)
  /\ UNCHANGED <<caller, iteration, turn, emitted, history, toolVars, preempt, stopAsked>>

FinalizeCompleted ==
  /\ Decided /\ dispatch = "done"
  /\ sink' = "none" /\ grace' = 0
  /\ Closing(Completed, turn.calls)
  /\ UNCHANGED <<caller, iteration, turn, emitted, history, toolVars, preempt, stopAsked>>

FinalizeDeferredMutant ==  \* the sink is told before the placeholder is stored
  /\ Decided /\ dispatch # "done" /\ Deferring
  /\ sink' = "closed" /\ grace' = 0
  /\ Closing(Aborted("deferred"), turn.malformed)
  /\ UNCHANGED <<caller, iteration, turn, emitted, history, toolVars, preempt, stopAsked>>

FinalizeDeferred ==
  /\ Decided /\ dispatch # "done" /\ Deferring
  /\ sink' = "deferred" /\ grace' = 0
  /\ Closing(Aborted("deferred"), turn.malformed)
  /\ UNCHANGED <<caller, iteration, turn, emitted, history, toolVars, preempt, stopAsked>>

FinalizeKilledMutant ==    \* the batch is cancelled whatever the sink says
  /\ Decided /\ dispatch # "done"
  /\ KillDispatch
  /\ pc' = "reaping" /\ grace' = 0
  /\ UNCHANGED <<caller, iteration, turn, plan, emitted, history, queue, deltas, ran, sinkVars>>

FinalizeKilledWaitsMutant ==           \* the batch is awaited but not cancelled
  /\ Decided /\ dispatch # "done" /\ ~Deferring
  /\ pc' = "reaping" /\ grace' = 0
  /\ UNCHANGED <<caller, iteration, turn, plan, emitted, history, toolVars, sinkVars>>

FinalizeKilled ==
  /\ Decided /\ dispatch # "done" /\ ~Deferring
  /\ KillDispatch
  /\ pc' = "reaping" /\ grace' = 0
  /\ UNCHANGED <<caller, iteration, turn, plan, emitted, history, queue, deltas, ran, sinkVars>>

ReapedMutant ==            \* the cancelled batch is not awaited
  /\ pc = "reaping"
  /\ sink' = "none"
  /\ Closing(Aborted("interrupted"), turn.calls)
  /\ UNCHANGED <<caller, iteration, turn, grace, emitted, history, toolVars, preempt, stopAsked>>

Reaped ==
  /\ pc = "reaping" /\ DispatchOver
  /\ sink' = "none"
  /\ Closing(Aborted("interrupted"), turn.calls)
  /\ UNCHANGED <<caller, iteration, turn, grace, emitted, history, toolVars, preempt, stopAsked>>

-----------------------------------------------------------------------------
(* The dispatch task and the tool tasks it gathers.                        *)

BeginDispatch ==
  /\ dispatch = "created"
  /\ dispatch' = "running"
  /\ UNCHANGED <<runVars, history, tools, queue, deltas, ran, sinkVars>>

ToolBegin(c) ==
  /\ dispatch = "running" /\ tools[c] = "queued"
  /\ tools' = [tools EXCEPT ![c] = "running"]
  /\ ran' = ran \cup {<<iteration, c>>}
  /\ UNCHANGED <<runVars, history, dispatch, queue, deltas, sinkVars>>

\* A streaming tool yields a piece of its output.
ToolEmits(c) ==
  /\ tools[c] = "running" /\ deltas < MaxDelta
  /\ deltas' = deltas + 1
  /\ queue' = Append(queue, "delta")
  /\ UNCHANGED <<runVars, history, tools, dispatch, ran, sinkVars>>

\* The handler returns or raises an Exception: a result either way.
ToolReturns(c) ==
  /\ tools[c] = "running"
  /\ tools' = [tools EXCEPT ![c] = "done"]
  /\ UNCHANGED <<runVars, history, dispatch, queue, deltas, ran, sinkVars>>

\* The handler raises CancelledError although nobody cancelled it: gather
\* raises, the siblings are cancelled.
ToolCancelsItself(c) ==
  /\ tools[c] = "running"
  /\ dispatch' = "unwinding"
  /\ tools' = [d \in Calls |->
                 CASE d = c \/ tools[d] = "queued"  -> "cancelled"
                   [] d # c /\ tools[d] = "running" -> "stopping"
                   [] OTHER                         -> tools[d]]
  /\ UNCHANGED <<runVars, history, queue, deltas, ran, sinkVars>>

\* A cancelled handler finishes its cleanup.
ToolStops(c) ==
  /\ tools[c] = "stopping"
  /\ tools' = [tools EXCEPT ![c] = "cancelled"]
  /\ UNCHANGED <<runVars, history, dispatch, queue, deltas, ran, sinkVars>>

\* No tool task is left: the dispatch ends and signals the queue.
EndDispatch ==
  /\ dispatch \in {"running", "unwinding"}
  /\ \A c \in Calls : ~ToolActive(c)
  /\ dispatch' = IF dispatch = "running" THEN "done" ELSE "cancelled"
  /\ queue' = Append(queue, "none")
  /\ UNCHANGED <<runVars, history, tools, deltas, ran, sinkVars>>

-----------------------------------------------------------------------------
(* The caller and the host.                                                *)

\* The caller asks for the next event.
Pull ==
  /\ caller = "holding" /\ pc \in {"streaming", "dispatching", "yielding"}
  /\ caller' = "pulling"
  /\ UNCHANGED <<pc, iteration, turn, plan, grace, emitted, history, toolVars, sinkVars>>

\* The caller closes the stream instead: GeneratorExit at the yield.  The
\* dispatch generator is left to the event loop's finalizer.
Abandon ==
  /\ caller = "holding" /\ pc \in {"streaming", "dispatching", "yielding"}
  /\ pc' = IF pc = "dispatching" THEN "abandoned" ELSE "closed"
  /\ UNCHANGED <<caller, iteration, turn, plan, grace, emitted, history, toolVars, sinkVars>>

ReapAbandoned ==
  /\ pc = "abandoned"
  /\ KillDispatch
  /\ pc' = "releasing"
  /\ UNCHANGED <<caller, iteration, turn, plan, grace, emitted, history, queue, deltas, ran, sinkVars>>

Release ==
  /\ pc = "releasing" /\ DispatchOver
  /\ sink' = "none"
  /\ pc' = "closed"
  /\ UNCHANGED <<caller, iteration, turn, plan, grace, emitted, history, toolVars, preempt, stopAsked>>

\* The task that pulls is cancelled, or an await of the loop raises.  The
\* in-memory store never suspends, so nothing can be raised in its append.
CancelLoop ==
  /\ \/ pc \in {"streaming", "hook"} /\ Pulling /\ UNCHANGED history
     \/ pc = "top" /\ history' \in {history, Append(history, Notice)}
     \/ /\ pc = "writing" /\ Store # "memory"
        /\ \E stored \in StoredBy(plan.batch) : history' = history \o stored
  /\ Unwind
  /\ UNCHANGED <<caller, iteration, turn, grace, emitted, toolVars, sinkVars>>

\* The same while tools run.  Later requests are absorbed by the shield.
CancelDispatch ==
  /\ pc \in {"dispatching", "settle"} /\ Pulling
  /\ pc' = "interrupted"
  /\ UNCHANGED <<caller, iteration, turn, plan, grace, emitted, history, toolVars, sinkVars>>

\* The host wants the tools to outlive the turn (request_preemption).
Preempt ==
  /\ sink = "active" /\ ~DispatchOver /\ ~preempt
  /\ preempt' = TRUE
  /\ UNCHANGED <<runVars, history, toolVars, sink, stopAsked>>

\* The user interrupts (request_interruption): this withdraws a preemption
\* and kills a dispatch that was already deferred.
Interrupt ==
  /\ sink \in {"active", "deferred", "closed"}
  /\ preempt' = FALSE /\ stopAsked' = TRUE
  /\ IF sink # "active" /\ ~DispatchOver
     THEN KillDispatch
     ELSE UNCHANGED <<tools, dispatch>>
  /\ UNCHANGED <<runVars, history, queue, deltas, ran, sink>>

\* The session ends once the turn has been settled (close): the batch and the
\* watcher are cancelled, and what was to be delivered is dropped.
CloseSink ==
  /\ pc \in Ended /\ sink \in {"deferred", "closed"}
  /\ sink' = "dropped"
  /\ IF DispatchOver THEN UNCHANGED <<tools, dispatch>> ELSE KillDispatch
  /\ UNCHANGED <<runVars, history, queue, deltas, ran, preempt, stopAsked>>

\* The sink's watcher: after the protocol is closed and the dispatch over it
\* delivers a message for every call, ...
SinkDelivers ==
  /\ sink = "closed" /\ DispatchOver
  /\ dispatch = "done" \/ stopAsked
  /\ sink' = "delivered"
  /\ UNCHANGED <<runVars, history, toolVars, preempt, stopAsked>>

\* ... and forgets a dispatch that was cancelled without an interruption.
SinkDrops ==
  /\ sink \in {"deferred", "closed"} /\ dispatch = "cancelled" /\ ~stopAsked
  /\ sink' = "dropped"
  /\ UNCHANGED <<runVars, history, toolVars, preempt, stopAsked>>

-----------------------------------------------------------------------------

StreamNext ==
  \/ StreamText \/ \E c \in Calls : StreamCall(c)
  \/ StreamEnd \/ StreamCut \/ StreamFails

RunStep ==
  \/ StoreInput \/ Prepare \/ Conclude
  \/ Write \/ YieldResult \/ YieldTerminal \/ Proceed \/ Hook
  \/ AnswerMalformed \/ StartDispatch \/ TakeDelta \/ TakeEnd
  \/ Settle \/ SettleCancelled
  \/ FinalizeBegin \/ GracePass \/ FinalizeCompleted \/ FinalizeDeferred
  \/ FinalizeKilled \/ Reaped \/ ReapAbandoned \/ Release

ToolEnds(c) == ToolReturns(c) \/ ToolCancelsItself(c)

ToolStep == \E c \in Calls :
              ToolBegin(c) \/ ToolEmits(c) \/ ToolEnds(c) \/ ToolStops(c)

SinkStep == SinkDelivers \/ SinkDrops

Fault == InputFails \/ WriteFails \/ CancelLoop \/ CancelDispatch

Host == Abandon \/ Preempt \/ Interrupt \/ CloseSink

\* The run is over and nothing it started is left.
Finished ==
  /\ pc \in Ended
  /\ \A c \in Calls : ~ToolActive(c)
  /\ dispatch \in {"none", "done", "cancelled"}
  /\ UNCHANGED vars

Next ==
  \/ StreamNext \/ RunStep \/ BeginDispatch \/ ToolStep \/ EndDispatch
  \/ Pull \/ SinkStep \/ Fault \/ Host \/ Finished

Spec == Init /\ [][Next]_vars

=============================================================================
