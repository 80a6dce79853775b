------------------------- MODULE AgentRunProperties -------------------------
(***************************************************************************)
(* What a run of the agent loop promises its caller, its host and the      *)
(* conversation it writes to.                                              *)
(***************************************************************************)
EXTENDS AgentRun

\* The kinds of message, event and task state, with the values they carry.
Messages ==
  [kind : {"input"}, at : {0}]
    \cup [kind : {"notice", "answer"}, at : Rounds]
    \cup [kind : {"request"}, at : Rounds, calls : SUBSET Calls]
    \cup [kind : {"reply"}, at : Rounds, of : UNION {[S -> Outcomes] : S \in SUBSET Calls}]

Events ==
  [type : {"result"}, at : Rounds, call : Calls]
    \cup {ErrorEvent}
    \cup [type : {"end"}, reason : {"error", "end_turn", "max_tokens", "repetition"}]

Turns == [reason : Reasons, text : BOOLEAN, pending : SUBSET Calls,
          calls : SUBSET Calls, malformed : SUBSET Calls]

Plans == [batch : Seq(Messages), report : SUBSET Calls, out : Seq(Events),
          next : {"again", "hook", "ended", "raised"}]

Places == {"input", "top", "streaming", "writing", "closing", "yielding", "hook",
           "dispatching", "settle", "interrupted", "grace", "reaping",
           "abandoned", "releasing"} \cup Ended

\* Every variable holds a value of its kind.
TypeOK ==
  /\ pc \in Places
  /\ caller \in {"pulling", "holding"}
  /\ iteration \in Rounds
  /\ turn \in Turns
  /\ plan \in Plans
  /\ grace \in 0..2
  /\ emitted \in Seq(Events)
  /\ history \in Seq(Messages)
  /\ tools \in [Calls -> {"idle", "queued", "running", "stopping", "done", "cancelled"}]
  /\ dispatch \in {"none", "created", "running", "unwinding", "done", "cancelled"}
  /\ queue \in Seq({"delta", "none"})
  /\ deltas \in 0..MaxDelta
  /\ ran \subseteq Rounds \X Calls
  /\ sink \in {"none", "active", "deferred", "closed", "delivered", "dropped"}
  /\ preempt \in BOOLEAN
  /\ stopAsked \in BOOLEAN

-----------------------------------------------------------------------------
(* The stored conversation.                                                *)

\* The run implements the conversation: whatever is cancelled, fails or is
\* closed, each stored step is a plain message or a whole exchange.  Holds
\* where append_many is atomic (context.py:130, store.py:209).
Conv == INSTANCE Conversation WITH log <- history

StoresAConversation == Conv!Spec

\* Where append_many is the sequential default (context.py:46), a request
\* whose reply is missing can only be the last message, and only because its
\* reply is still being stored or because a cancellation or a failure of the
\* store has put an end to the run.
OrphanOnlyAtTheEnd ==
  \A i \in 1..Len(history) :
    history[i].kind = "request" =>
      \/ /\ i < Len(history)
         /\ history[i + 1].kind = "reply"
         /\ DOMAIN history[i + 1].of = history[i].calls
      \/ /\ i = Len(history)
         /\ \/ pc \in {"writing", "closing"} /\ plan.batch # << >>
            \/ pc = "yielding" /\ plan.next = "raised"
            \/ pc \in {"raised", "closed"}

\* The results stored in the history, as <<round, call, outcome>>.
Stored == UNION {{<<history[i].at, c, history[i].of[c]>> : c \in DOMAIN history[i].of} :
                   i \in {j \in 1..Len(history) : history[j].kind = "reply"}}

\* The turn was cut off: its last exchange is being reported before it raises,
\* or it has raised or been closed.
CutOff ==
  \/ pc = "yielding" /\ plan.next = "raised"
  \/ pc \in {"raised", "closed"}

\* What each outcome says of the call whose result it is, <<round, call>>.
\* A result of its own: the handler ran and returned.
TrueOfCompleted(s) == <<s[1], s[2]>> \in ran /\ (s[1] = iteration => tools[s[2]] = "done")

\* Malformed, or refused with its response: the handler was never entered.
TrueOfUnrun(s) == <<s[1], s[2]>> \notin ran

\* Left without a result, or with a placeholder for one that is still to come:
\* a call that was dispatched, of the very round the turn was cut off in.
TrueOfCutOff(s) == s[1] = iteration /\ s[2] \in Runnable /\ CutOff

\* A stored result tells the truth about its call, whichever path stored it
\* (agent.py:952, 916 and 1147).  An interruption is noted only where the
\* batch itself was cancelled, so that no result of a batch which ended is
\* lost, and a continuation is announced only for a batch that was handed to
\* the sink.  It is the batch and not the call that counts: a call that had
\* returned beside one still running is noted as interrupted with it, and so
\* is every call of a batch whose gathering task has not yet run
\* (agent.py:855, 874), although docs/concepts/agent.md:274 says "Already
\* completed calls keep their real results".
TruthfulResults ==
  \A s \in Stored :
    /\ s[3] = "ok" => TrueOfCompleted(s)
    /\ s[3] \in {"malformed", "refused"} => TrueOfUnrun(s)
    /\ s[3] = "interrupted" => TrueOfCutOff(s) /\ dispatch = "cancelled"
    /\ s[3] = "deferred" =>
         TrueOfCutOff(s) /\ sink \in {"deferred", "closed", "delivered", "dropped"}

\* What the conversation holds can be sent to the provider, and is true.
HistoryIsSound == OrphanOnlyAtTheEnd /\ TruthfulResults

-----------------------------------------------------------------------------
(* Tools.                                                                  *)

\* A handler runs only for a call of a response whose stop reason vouches
\* for it and whose arguments parsed (agent.py:1127, 801), and it does not
\* outlive its run unless the sink has taken it over: however the run ended,
\* its tasks were awaited first (agent.py:855-873, 939-945).  What is left when
\* the sink is closed has been cancelled (_deferred_tools.py:201).
ToolsKeepToTheirRun ==
  /\ \A c \in Calls :
       <<iteration, c>> \in ran => turn.reason \in Vouching /\ c \in Runnable
  /\ pc \in Ended => \A c \in Calls :
       ToolActive(c) => \/ sink \in {"deferred", "closed"}
                        \/ sink = "dropped" /\ tools[c] = "stopping"

\* A tool the host asked to keep alive is not cancelled by the run that is
\* preempted, only by its caller walking away, by an interruption, which
\* withdraws the request, by a sibling's own cancellation, or by the end of
\* the session.
PreemptionSparesTools ==
  [][\A c \in Calls : tools[c] = "running" /\ tools'[c] = "stopping" /\ preempt
       => \/ pc = "abandoned"
          \/ ~preempt'
          \/ sink # "dropped" /\ sink' = "dropped"
          \/ \E d \in Calls : tools[d] = "running" /\ tools'[d] = "cancelled"]_vars

-----------------------------------------------------------------------------
(* Events.                                                                 *)

\* The result events the caller has been given.
ResultsSeen == {i \in 1..Len(emitted) : emitted[i].type = "result"}

\* What others are told of a result is in the conversation already: a result
\* the caller sees, which it sees once and never as the placeholder of a call
\* that is still running, and the placeholder of every call the sink took over
\* when it is told that the protocol is closed (docs/concepts/agent.md:281), so
\* that no deferred result arrives before the exchange it belongs to.
StoredBeforeShown ==
  /\ \A i \in ResultsSeen :
       \E o \in Outcomes \ {"deferred"} : <<emitted[i].at, emitted[i].call, o>> \in Stored
  /\ \A i, j \in ResultsSeen : emitted[i] = emitted[j] => i = j
  /\ sink \in {"closed", "delivered"} =>
       \A c \in Runnable : <<iteration, c, "deferred">> \in Stored

\* A run reports its end once and nothing after it; one that comes to an end
\* by itself has reported that, and the result of every call it stored.
EndClosesTheReport ==
  /\ \A i \in 1..Len(emitted) : emitted[i].type = "end" => i = Len(emitted)
  /\ pc = "ended" =>
       /\ emitted # << >> /\ emitted[Len(emitted)].type = "end"
       /\ \A s \in Stored :
            \E i \in ResultsSeen : emitted[i].at = s[1] /\ emitted[i].call = s[2]

\* What is reported follows what is stored, misses nothing of it and ends.
ReportFollowsTheStore == StoredBeforeShown /\ EndClosesTheReport

-----------------------------------------------------------------------------
(* Liveness.  The event loop runs every task that is ready, a provider's   *)
(* response ends, a cancelled handler finishes, and the caller pulls.      *)

Scheduling ==
  /\ WF_vars(RunStep) /\ WF_vars(BeginDispatch) /\ WF_vars(EndDispatch)
  /\ \A c \in Calls : WF_vars(ToolBegin(c)) /\ WF_vars(ToolStops(c))
  /\ WF_vars(SinkStep)
  /\ WF_vars(Pull)
  /\ WF_vars(StreamEnd \/ StreamCut \/ StreamFails)

\* A handler that is not cancelled may take for ever, unless a property
\* assumes otherwise.
FairSpec == Spec /\ Scheduling

HandlersReturn == \A c \in Calls : []<>(tools[c] # "running")

\* Every run whose handlers return ends: no lost wake-up, no response that is
\* asked for again and again (agent.py:1030, 1200).  Once its turn is cancelled
\* a run ends even if no handler ever returns.
RunsEnd ==
  /\ HandlersReturn => <>(pc \in Ended)
  /\ pc = "interrupted" ~> pc \in Ended

\* Once the batch is handed to the sink, its protocol is closed and the sink
\* is done with it: it does not wait for ever for a batch that has ended
\* (_deferred_tools.py:238).  Needs a store that does not fail.  A batch that
\* one of its handlers cancelled is dropped: the result that its placeholder
\* promises (agent.py:887) does not come (_deferred_tools.py:232).
SinkLetsGo ==
  HandlersReturn => (sink = "deferred" ~> sink \in {"delivered", "dropped"})

=============================================================================
