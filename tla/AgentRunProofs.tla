--------------------------- MODULE AgentRunProofs ---------------------------
(***************************************************************************)
(* Proofs about a run of the agent loop, for every set of calls, every     *)
(* number of iterations and every interleaving.  The first part shows that *)
(* the run writes a conversation over a store whose append_many is atomic; *)
(* the second, over every kind of store, that its tools keep to it, that   *)
(* its history is sound and that its report follows the store.             *)
(***************************************************************************)
EXTENDS AgentRunProperties, Integers, TLAPS, SequenceTheorems

\* The places where the current round has not stored its answer yet.
Unspoken == {"top", "streaming", "writing", "closing", "dispatching",
             "settle", "interrupted", "grace", "reaping"}

IsPlan(p) ==
  p = [batch |-> p.batch, report |-> p.report, out |-> p.out, next |-> p.next]

\* The round and the shape of what the run is about to store.
ControlInv ==
  /\ pc \in Places
  /\ iteration \in Rounds
  /\ turn \in Turns
  /\ turn.malformed \subseteq turn.calls
  /\ (pc = "input") => iteration = 0
  /\ IsPlan(plan)
  /\ plan.next \in {"again", "hook", "ended", "raised"}

BatchInv ==
  /\ pc \notin {"writing", "closing"} => plan.batch = << >>
  /\ pc \in {"writing", "closing"} =>
       \/ plan.batch = <<Answer>>
       \/ /\ turn.calls # {}
          /\ \E f \in [turn.calls -> Outcomes] : plan.batch = ExchangeOf(f)
  /\ pc \in {"dispatching", "settle", "interrupted", "grace", "reaping"} =>
       turn.calls # {}

\* No message of h is the answer of a round after n.
SpokenBy(h, n) ==
  \A i \in 1..Len(h) : h[i].kind \in {"answer", "request"} => h[i].at <= n

\* The last round that may have stored its answer.
Settled(at, round) == IF at \in Unspoken THEN round - 1 ELSE round

\* No round later than the current one has spoken, and not the current one
\* while its answer is still to be stored.
SpokenInv ==
  /\ history \in Seq(Messages)
  /\ SpokenBy(history, Settled(pc, iteration))

StoreInv == ControlInv /\ BatchInv /\ SpokenInv

-----------------------------------------------------------------------------
(* Sequences of messages.                                                  *)

\* A message belongs to a round.
LEMMA MessageAt == ASSUME NEW m \in Messages PROVE m.at \in Rounds
BY AgentRunAssumption DEF Messages, Rounds

\* Going on within a round, or to the next one, never lowers the last round
\* that may have been answered.
LEMMA SettledOrder ==
  ASSUME NEW p, NEW q, NEW i \in Int, NEW j \in Int,
         \/ j = i /\ (q \in Unspoken => p \in Unspoken)
         \/ j = i + 1
  PROVE  Settled(p, i) \in Int /\ Settled(q, j) \in Int /\ Settled(p, i) <= Settled(q, j)
BY DEF Settled

\* A history answered up to one round is answered up to any later one.
LEMMA SpokenLater ==
  ASSUME NEW h \in Seq(Messages), NEW n \in Int, NEW k \in Int, n <= k,
         SpokenBy(h, n)
  PROVE  SpokenBy(h, k)
<1> SUFFICES ASSUME NEW i \in 1..Len(h), h[i].kind \in {"answer", "request"}
             PROVE  h[i].at <= k
  BY DEF SpokenBy
<1>1. h[i].at \in Int
  BY MessageAt DEF Rounds
<1> QED
  BY <1>1 DEF SpokenBy

\* Two histories answered up to a round are so when appended.
LEMMA SpokenConcat ==
  ASSUME NEW h \in Seq(Messages), NEW t \in Seq(Messages), NEW n \in Int,
         SpokenBy(h, n), SpokenBy(t, n)
  PROVE  SpokenBy(h \o t, n) /\ h \o t \in Seq(Messages)
<1>1. h \o t \in Seq(Messages)
  OBVIOUS
<1>2. ASSUME NEW i \in 1..Len(h \o t), (h \o t)[i].kind \in {"answer", "request"}
      PROVE  (h \o t)[i].at <= n
  <2>1. CASE i <= Len(h)
    <3>1. i \in 1..Len(h) /\ (h \o t)[i] = h[i]
      BY <2>1
    <3> QED
      BY <1>2, <3>1 DEF SpokenBy
  <2>2. CASE i > Len(h)
    <3>1. i - Len(h) \in 1..Len(t) /\ (h \o t)[i] = t[i - Len(h)]
      BY <2>2
    <3> QED
      BY <1>2, <3>1 DEF SpokenBy
  <2> QED
    BY <2>1, <2>2
<1> QED
  BY <1>1, <1>2 DEF SpokenBy

\* The invariant holds before the run has stored anything.
LEMMA StoreInvInit == Init => StoreInv
<1> SUFFICES ASSUME Init PROVE StoreInv
  OBVIOUS
<1>1. ControlInv
  BY AgentRunAssumption DEF Init, ControlInv, Places, Rounds, OpenTurn, Turns, Reasons, Idle, IsPlan
<1>2. BatchInv
  BY DEF Init, BatchInv, Idle
<1>3. SpokenInv
  BY DEF Init, SpokenInv, SpokenBy
<1> QED
  BY <1>1, <1>2, <1>3 DEF StoreInv

\* A step that leaves the history alone and does not fall back behind an
\* answer that is already stored.
LEMMA QuietStep ==
  ASSUME ControlInv, SpokenInv, history' = history, iteration' \in Rounds,
         \/ iteration' = iteration /\ (pc' \in Unspoken => pc \in Unspoken)
         \/ iteration' = iteration + 1
  PROVE  SpokenInv'
<1> DEFINE n == Settled(pc, iteration)
           k == Settled(pc', iteration')
<1>1. n \in Int /\ k \in Int /\ n <= k
  <2>1. iteration \in Int /\ iteration' \in Int
    BY DEF ControlInv, Rounds
  <2> QED
    BY <2>1, SettledOrder
<1>2. history \in Seq(Messages) /\ SpokenBy(history, n)
  BY DEF SpokenInv
<1>3. SpokenBy(history, k)
  <2> HIDE DEF n, k
  <2> QED BY <1>1, <1>2, SpokenLater
<1> QED
  BY <1>2, <1>3 DEF SpokenInv

\* A step that stores a message which is not an answer.
LEMMA PlainStep ==
  ASSUME ControlInv, SpokenInv, NEW m \in Messages,
         m.kind \notin {"answer", "request"},
         history' = Append(history, m), iteration' \in Rounds,
         \/ iteration' = iteration /\ (pc' \in Unspoken => pc \in Unspoken)
         \/ iteration' = iteration + 1
  PROVE  SpokenInv'
<1> DEFINE n == Settled(pc, iteration)
           k == Settled(pc', iteration')
<1>1. n \in Int /\ k \in Int /\ n <= k
  <2>1. iteration \in Int /\ iteration' \in Int
    BY DEF ControlInv, Rounds
  <2> QED
    BY <2>1, SettledOrder
<1>2. history \in Seq(Messages) /\ SpokenBy(history, n)
  BY DEF SpokenInv
<1>3. <<m>> \in Seq(Messages) /\ SpokenBy(<<m>>, k)
  BY DEF SpokenBy
<1>4. SpokenBy(history, k)
  <2> HIDE DEF n, k
  <2> QED BY <1>1, <1>2, SpokenLater
<1>5. history' = history \o <<m>>
  BY <1>2
<1>6. SpokenBy(history', k) /\ history' \in Seq(Messages)
  <2> HIDE DEF n, k
  <2> QED BY <1>1, <1>2, <1>3, <1>4, <1>5, SpokenConcat
<1> QED
  BY <1>6 DEF SpokenInv

\* What the run stores of a response is a sequence of messages of its round.
LEMMA BatchMessages ==
  ASSUME ControlInv, BatchInv, pc \in {"writing", "closing"}
  PROVE  plan.batch \in Seq(Messages) /\ SpokenBy(plan.batch, iteration)
<1>1. Answer \in Messages /\ Request \in Messages
  BY DEF ControlInv, Answer, Request, Messages, Turns
<1>2. ASSUME NEW f \in [turn.calls -> Outcomes] PROVE Reply(f) \in Messages
  BY DEF ControlInv, Reply, Messages, Turns
<1>3. CASE plan.batch = <<Answer>>
  BY <1>1, <1>3, AgentRunAssumption DEF SpokenBy, Answer, ControlInv, Rounds
<1>4. ASSUME NEW f \in [turn.calls -> Outcomes], plan.batch = ExchangeOf(f)
      PROVE  plan.batch \in Seq(Messages) /\ SpokenBy(plan.batch, iteration)
  <2>1. plan.batch \in Seq(Messages)
    BY <1>1, <1>2, <1>4 DEF ExchangeOf
  <2>2. SpokenBy(plan.batch, iteration)
    BY <1>4, AgentRunAssumption DEF ExchangeOf, SpokenBy, Request, Reply, ControlInv, Rounds
  <2> QED
    BY <2>1, <2>2
<1> QED
  BY <1>3, <1>4 DEF BatchInv

\* A step that stores the batch and leaves the places before the answer.
LEMMA BatchStep ==
  ASSUME ControlInv, BatchInv, SpokenInv, pc \in {"writing", "closing"},
         history' = history \o plan.batch, iteration' = iteration,
         pc' \notin Unspoken
  PROVE  SpokenInv'
<1>1. history \in Seq(Messages) /\ SpokenBy(history, iteration - 1)
  BY DEF SpokenInv, Settled, Unspoken
<1>2. iteration \in Int
  BY DEF ControlInv, Rounds
<1>3. SpokenBy(history, iteration)
  BY <1>1, <1>2, SpokenLater
<1>4. SpokenBy(history', iteration) /\ history' \in Seq(Messages)
  BY <1>1, <1>2, <1>3, BatchMessages, SpokenConcat
<1> QED
  BY <1>4 DEF SpokenInv, Settled

-----------------------------------------------------------------------------
(* Every step keeps the invariant.                                         *)

\* Steps of the tools, the sink and the host: the run does not move.
LEMMA StillStep ==
  ASSUME StoreInv, UNCHANGED <<runVars, history>>
  PROVE  StoreInv'
<1>1. ControlInv' /\ BatchInv'
  BY DEF StoreInv, ControlInv, BatchInv, IsPlan, runVars, Answer, ExchangeOf, Request, Reply
<1>2. SpokenInv'
  BY DEF StoreInv, SpokenInv, runVars
<1> QED
  BY <1>1, <1>2 DEF StoreInv

\* Steps from one place of a round to a later one that has nothing to store.
LEMMA MoveStep ==
  ASSUME StoreInv, history' = history, iteration' = iteration,
         pc # "input", pc' \in Places \ {"input", "writing", "closing"},
         pc' \in Unspoken => pc \in Unspoken,
         turn' \in Turns, turn'.malformed \subseteq turn'.calls,
         IsPlan(plan'), plan'.batch = << >>,
         plan'.next \in {"again", "hook", "ended", "raised"},
         pc' \in {"dispatching", "settle", "interrupted", "grace", "reaping"}
           => turn'.calls # {}
  PROVE  StoreInv'
<1>1. ControlInv'
  BY DEF StoreInv, ControlInv
<1>2. BatchInv'
  BY DEF BatchInv
<1>3. SpokenInv'
  BY <1>1, QuietStep DEF StoreInv, ControlInv
<1> QED
  BY <1>1, <1>2, <1>3 DEF StoreInv

\* Steps that decide what to store next.
LEMMA StoringStep ==
  ASSUME StoreInv, history' = history, iteration' = iteration, turn' = turn,
         pc \in Unspoken, pc' \in {"writing", "closing"},
         IsPlan(plan'), plan'.next \in {"again", "hook", "ended", "raised"},
         \/ plan'.batch = <<Answer>>
         \/ /\ turn.calls # {}
            /\ \E f \in [turn.calls -> Outcomes] : plan'.batch = ExchangeOf(f)
  PROVE  StoreInv'
<1>1. ControlInv'
  BY DEF StoreInv, ControlInv, Places, Unspoken
<1>2. BatchInv'
  BY DEF BatchInv, Answer, ExchangeOf, Request, Reply
<1>3. SpokenInv'
  BY <1>1, QuietStep DEF StoreInv, ControlInv
<1> QED
  BY <1>1, <1>2, <1>3 DEF StoreInv

\* Whatever becomes of a dispatch, each of its calls has an outcome.
LEMMA OutcomeMaps ==
  ASSUME StoreInv
  PROVE  /\ [c \in turn.calls |-> "refused"] \in [turn.calls -> Outcomes]
         /\ [c \in turn.calls |-> "malformed"] \in [turn.calls -> Outcomes]
         /\ Completed \in [turn.calls -> Outcomes]
         /\ Aborted("deferred") \in [turn.calls -> Outcomes]
         /\ Aborted("interrupted") \in [turn.calls -> Outcomes]
BY DEF Completed, Aborted, Outcomes

\* Leaving one turn of the loop, for the next or for the end (NextIteration).
LEMMA IterationStep ==
  ASSUME StoreInv, history' = history, turn' = turn, NextIteration,
         pc \in {"yielding", "hook"}
  PROVE  StoreInv'
<1>1. CASE iteration < MaxIter
  <2>1. /\ pc' = "top" /\ iteration' = iteration + 1 /\ plan' = Idle
    BY <1>1 DEF NextIteration
  <2>2. iteration' \in Rounds
    BY <1>1, <2>1, AgentRunAssumption DEF StoreInv, ControlInv, Rounds
  <2>3. ControlInv' /\ BatchInv'
    BY <2>1, <2>2 DEF StoreInv, ControlInv, BatchInv, Places, Idle, IsPlan
  <2>4. SpokenInv'
    BY <2>1, <2>2, QuietStep DEF StoreInv
  <2> QED
    BY <2>3, <2>4 DEF StoreInv
<1>2. CASE ~(iteration < MaxIter)
  BY <1>2, MoveStep DEF NextIteration, Reporting, IsPlan, StoreInv, ControlInv, Places, Unspoken
<1> QED
  BY <1>1, <1>2

\* Every step keeps the invariant where append_many is atomic.
LEMMA StoreInvNext ==
  ASSUME StoreInv, Next, Store # "sequential"
  PROVE  StoreInv'
<1> USE DEF StoreInv
<1>1. CASE StoreInput
  <2>1. iteration = 0 /\ iteration' = iteration + 1 /\ iteration' \in Rounds
    BY <1>1, AgentRunAssumption DEF StoreInput, ControlInv, Rounds
  <2>2. ControlInv' /\ BatchInv'
    BY <1>1, <2>1 DEF StoreInput, ControlInv, BatchInv, Places
  <2>3. Input \in Messages
    BY DEF Input, Messages
  <2>4. SpokenInv'
    BY <1>1, <2>1, <2>3, PlainStep DEF StoreInput, Input
  <2> QED
    BY <2>2, <2>4
<1>2. CASE InputFails
  <2>1. ControlInv' /\ BatchInv'
    BY <1>2 DEF InputFails, ControlInv, BatchInv, Places, Ended
  <2>2. Input \in Messages /\ iteration' \in Rounds
    BY <1>2 DEF Input, Messages, InputFails, ControlInv
  <2>3. SpokenInv'
    BY <1>2, <2>2, PlainStep, QuietStep DEF InputFails, Input, Unspoken
  <2> QED
    BY <2>1, <2>3
<1>3. CASE Prepare
  <2>1. ControlInv' /\ BatchInv'
    BY <1>3 DEF Prepare, ControlInv, BatchInv, Places, OpenTurn, Turns, Reasons
  <2>2. Notice \in Messages /\ iteration' \in Rounds
    BY <1>3 DEF Notice, Messages, Prepare, ControlInv
  <2>3. SpokenInv'
    BY <1>3, <2>2, PlainStep, QuietStep DEF Prepare, Notice, Unspoken
  <2> QED
    BY <2>1, <2>3
<1>4. CASE StreamNext
  <2>1. ASSUME NEW t \in Turns, t.malformed \subseteq t.calls, StreamEvent(t)
        PROVE  StoreInv'
    BY <2>1, MoveStep DEF StreamEvent, ControlInv, BatchInv, Places
  <2>2. CASE StreamText
    BY <2>1, <2>2 DEF StreamText, ControlInv, Turns
  <2>3. ASSUME NEW c \in Calls, StreamCall(c) PROVE StoreInv'
    BY <2>1, <2>3 DEF StreamCall, ControlInv, Turns
  <2>4. CASE StreamEnd
    BY <2>1, <2>4 DEF StreamEnd, ControlInv, Turns, Reasons
  <2>5. CASE StreamCut
    BY <2>5, MoveStep DEF StreamCut, ControlInv, BatchInv, Places, Turns, Reasons
  <2>6. CASE StreamFails
    BY <2>6, MoveStep DEF StreamFails, Reporting, IsPlan, ControlInv, Places, Unspoken
  <2> QED
    BY <1>4, <2>2, <2>3, <2>4, <2>5, <2>6 DEF StreamNext
<1>5. CASE Conclude
  <2>1. Verdict.next \in {"again", "hook", "ended", "raised"}
    BY DEF Verdict
  <2> QED
    BY <1>5, <2>1, StoringStep, OutcomeMaps
       DEF Conclude, ResponseOver, Storing, IsPlan, Unspoken
<1>6. CASE AnswerMalformed
  BY <1>6, StoringStep, OutcomeMaps DEF AnswerMalformed, ResponseOver, Storing, IsPlan, Unspoken
<1>7. CASE Settle
  <2>1. turn.calls # {}
    BY <1>7 DEF Settle, BatchInv
  <2> QED
    BY <1>7, <2>1, StoringStep, OutcomeMaps DEF Settle, Storing, IsPlan, Unspoken
<1>8. CASE FinalizeCompleted
  <2>1. turn.calls # {}
    BY <1>8 DEF FinalizeCompleted, Decided, BatchInv
  <2> QED
    BY <1>8, <2>1, StoringStep, OutcomeMaps DEF FinalizeCompleted, Decided, Closing, Storing, IsPlan, Unspoken
<1>9. CASE FinalizeDeferred
  <2>1. turn.calls # {}
    BY <1>9 DEF FinalizeDeferred, Decided, BatchInv
  <2> QED
    BY <1>9, <2>1, StoringStep, OutcomeMaps DEF FinalizeDeferred, Decided, Closing, Storing, IsPlan, Unspoken
<1>10. CASE Reaped
  <2>1. turn.calls # {}
    BY <1>10 DEF Reaped, BatchInv
  <2> QED
    BY <1>10, <2>1, StoringStep, OutcomeMaps DEF Reaped, Closing, Storing, IsPlan, Unspoken
<1>11. CASE Write
  <2>1. /\ history' = history \o plan.batch /\ iteration' = iteration /\ turn' = turn
        /\ pc' = "yielding" /\ plan'.batch = << >>
        /\ IsPlan(plan') /\ plan'.next \in {"again", "hook", "ended", "raised"}
    BY <1>11 DEF Write, Unwind, Reporting, ControlInv, IsPlan
  <2>2. ControlInv' /\ BatchInv'
    BY <1>11, <2>1 DEF ControlInv, BatchInv, Places, Write
  <2>3. SpokenInv'
    BY <1>11, <2>1, BatchStep DEF Write, Unspoken
  <2> QED
    BY <2>2, <2>3
<1>12. ASSUME pc \in {"writing", "closing"}, UNCHANGED <<iteration, turn>>, Unwind,
              NEW stored \in StoredBy(plan.batch), history' = history \o stored
       PROVE  StoreInv'
  <2>1. pc' = "yielding" /\ IsPlan(plan') /\ plan'.batch = << >> /\ plan'.next = "raised"
    BY <1>12 DEF Unwind, Reporting, IsPlan
  <2>2. ControlInv' /\ BatchInv'
    BY <1>12, <2>1 DEF ControlInv, BatchInv, Places
  <2>3. stored = << >> \/ stored = plan.batch
    BY <1>12 DEF StoredBy
  <2>4. CASE stored = << >>
    <3>1. history' = history
      BY <1>12, <2>4 DEF SpokenInv
    <3> QED
      BY <1>12, <2>1, <2>2, <3>1, QuietStep DEF Unspoken, ControlInv
  <2>5. CASE stored = plan.batch
    BY <1>12, <2>1, <2>2, <2>5, BatchStep DEF Unspoken
  <2> QED
    BY <2>3, <2>4, <2>5
<1>13. CASE WriteFails
  BY <1>12, <1>13 DEF WriteFails
<1>14. CASE CancelLoop
  <2>1. CASE pc \in {"streaming", "hook"} /\ UNCHANGED history
    BY <1>14, <2>1, MoveStep DEF CancelLoop, Unwind, Reporting, IsPlan, ControlInv, Places, Unspoken
  <2>2. CASE pc = "top" /\ history' \in {history, Append(history, Notice)}
    <3>1. ControlInv' /\ BatchInv'
      BY <1>14, <2>2 DEF CancelLoop, Unwind, Reporting, IsPlan, ControlInv, BatchInv, Places
    <3>2. Notice \in Messages /\ iteration' = iteration /\ pc' = "yielding"
      BY <1>14 DEF Notice, Messages, CancelLoop, Unwind, Reporting, ControlInv
    <3>3. SpokenInv'
      BY <2>2, <3>1, <3>2, PlainStep, QuietStep DEF Notice, Unspoken, ControlInv
    <3> QED
      BY <3>1, <3>3
  <2>3. CASE /\ pc = "writing"
             /\ \E stored \in StoredBy(plan.batch) : history' = history \o stored
    BY <1>12, <1>14, <2>3 DEF CancelLoop
  <2> QED
    BY <1>14, <2>1, <2>2, <2>3 DEF CancelLoop
<1>15. CASE YieldResult \/ YieldTerminal
  BY <1>15, MoveStep DEF YieldResult, YieldTerminal, IsPlan, ControlInv, BatchInv, Places, Unspoken
<1>16. CASE Proceed
  <2>1. CASE plan.next = "again"
    BY <1>16, <2>1, IterationStep DEF Proceed
  <2>2. CASE plan.next # "again"
    BY <1>16, <2>2, MoveStep DEF Proceed, Idle, IsPlan, ControlInv, Places, Ended, Unspoken
  <2> QED
    BY <2>1, <2>2
<1>17. CASE Hook
  BY <1>17, IterationStep DEF Hook
<1>18. CASE StartDispatch
  BY <1>18, MoveStep DEF StartDispatch, ResponseOver, Runnable, ControlInv, BatchInv, Places, Unspoken
<1>19. CASE TakeDelta \/ TakeEnd \/ SettleCancelled \/ CancelDispatch
  BY <1>19, MoveStep DEF TakeDelta, TakeEnd, SettleCancelled, CancelDispatch,
     ControlInv, BatchInv, Places, Unspoken
<1>20. CASE FinalizeBegin \/ GracePass \/ FinalizeKilled
  BY <1>20, MoveStep DEF FinalizeBegin, GracePass, FinalizeKilled, Decided,
     ControlInv, BatchInv, Places, Unspoken
<1>21. CASE Pull \/ Abandon
  BY <1>21, MoveStep DEF Pull, Abandon, ControlInv, BatchInv, Places, Ended, Unspoken
<1>22. CASE ReapAbandoned \/ Release
  BY <1>22, MoveStep DEF ReapAbandoned, Release, ControlInv, BatchInv, Places, Ended, Unspoken
<1>23. CASE BeginDispatch \/ ToolStep \/ EndDispatch \/ SinkStep \/ Preempt \/ Interrupt
          \/ CloseSink \/ Finished
  <2>1. UNCHANGED <<runVars, history>>
    BY <1>23 DEF BeginDispatch, ToolStep, ToolBegin, ToolEmits, ToolEnds, ToolReturns,
       ToolCancelsItself, ToolStops, EndDispatch, SinkStep, SinkDelivers, SinkDrops,
       Preempt, Interrupt, CloseSink, Finished, vars, runVars
  <2> QED
    BY <2>1, StillStep
<1> QED
  BY <1>1, <1>2, <1>3, <1>4, <1>5, <1>6, <1>7, <1>8, <1>9, <1>10, <1>11, <1>13, <1>14,
     <1>15, <1>16, <1>17, <1>18, <1>19, <1>20, <1>21, <1>22, <1>23
     DEF Next, RunStep, Fault, Host

\* Where append_many is atomic, what is about to be stored is an answer or a
\* whole exchange of the current round, and no later round is in the history
\* (agent.py, Agent._run_loop).
THEOREM StoreInvariant == Store # "sequential" /\ Spec => []StoreInv
<1> SUFFICES ASSUME Store # "sequential" PROVE Spec => []StoreInv
  OBVIOUS
<1>1. Init => StoreInv
  BY StoreInvInit
<1>2. StoreInv /\ [Next]_vars => StoreInv'
  <2> SUFFICES ASSUME StoreInv, [Next]_vars PROVE StoreInv'
    OBVIOUS
  <2>1. CASE Next
    BY <2>1, StoreInvNext
  <2>2. CASE UNCHANGED vars
    BY <2>2, StillStep DEF vars, runVars
  <2> QED
    BY <2>1, <2>2
<1> QED
  BY <1>1, <1>2, PTL DEF Spec

-----------------------------------------------------------------------------
(* Every step of the run is a step of the conversation or leaves it alone. *)

\* Storing the input or a notice is a step of the conversation.
LEMMA PlainIsSay ==
  ASSUME StoreInv, NEW m \in {Input, Notice}, history' = Append(history, m)
  PROVE  Conv!Next
<1>1. m \in Conv!Plain /\ m.kind # "answer"
  BY DEF StoreInv, ControlInv, Input, Notice, Conv!Plain
<1> QED
  BY <1>1 DEF Conv!Next, Conv!Say

\* Storing a batch is one: an answer of a round that has none, or a whole
\* exchange.
LEMMA BatchIsNext ==
  ASSUME StoreInv, pc \in {"writing", "closing"}, history' = history \o plan.batch
  PROVE  Conv!Next
<1>1. history \in Seq(Messages) /\ iteration \in Rounds
  BY DEF StoreInv, ControlInv, SpokenInv
<1>2. \A s \in Conv!Spoken : s < iteration
  <2> SUFFICES ASSUME NEW i \in 1..Len(history), history[i].kind \in {"answer", "request"}
               PROVE  history[i].at < iteration
    BY DEF Conv!Spoken
  <2>1. history[i].at <= iteration - 1
    BY DEF StoreInv, SpokenInv, SpokenBy, Settled, Unspoken
  <2>2. history[i].at \in Rounds
    BY <1>1, MessageAt
  <2> QED
    BY <1>1, <2>1, <2>2, AgentRunAssumption DEF Rounds
<1>3. CASE plan.batch = <<Answer>>
  <2>1. Answer \in Conv!Plain
    BY <1>1 DEF Answer, Conv!Plain
  <2>2. Answer.at \notin Conv!Spoken
    <3> SUFFICES ASSUME iteration \in Conv!Spoken PROVE FALSE
      BY DEF Answer
    <3> QED
      BY <1>1, <1>2, AgentRunAssumption DEF Rounds
  <2>3. history' = Append(history, Answer)
    BY <1>1, <1>3
  <2> QED
    BY <2>1, <2>2, <2>3 DEF Conv!Next, Conv!Say
<1>4. ASSUME NEW f \in [turn.calls -> Outcomes], turn.calls # {}, plan.batch = ExchangeOf(f)
      PROVE  Conv!Next
  <2>1. turn.calls \in (SUBSET Calls) \ {{}}
    <3>1. turn.calls \in SUBSET Calls
      BY DEF StoreInv, ControlInv, Turns
    <3> QED
      BY <1>4, <3>1, Zenon
  <2>2. history' = history \o <<Conv!Request(iteration, turn.calls), Conv!Reply(iteration, f)>>
    BY <1>4 DEF ExchangeOf, Request, Reply, Conv!Request, Conv!Reply
  <2> QED
    BY <1>1, <1>2, <2>1, <2>2 DEF Conv!Next, Conv!Exchange
<1> QED
  BY <1>3, <1>4 DEF StoreInv, BatchInv

\* Every step of the run is a step of the conversation or leaves it alone.
LEMMA StepSimulation ==
  ASSUME StoreInv, [Next]_vars, Store # "sequential"
  PROVE  [Conv!Next]_history
<1>1. CASE StoreInput \/ InputFails \/ Prepare
  <2>1. \/ history' = history
        \/ \E m \in {Input, Notice} : history' = Append(history, m)
    BY <1>1 DEF StoreInput, InputFails, Prepare
  <2> QED
    BY <2>1, PlainIsSay
<1>2. CASE Write
  BY <1>2, BatchIsNext DEF Write
<1>3. ASSUME pc \in {"writing", "closing"},
             NEW stored \in StoredBy(plan.batch), history' = history \o stored
      PROVE  [Conv!Next]_history
  <2>1. history \o << >> = history
    BY DEF StoreInv, SpokenInv
  <2> QED
    BY <1>3, <2>1, BatchIsNext DEF StoredBy
<1>4. CASE WriteFails
  BY <1>3, <1>4 DEF WriteFails
<1>5. CASE CancelLoop
  <2>1. \/ history' = history
        \/ history' = Append(history, Notice)
        \/ pc = "writing" /\ \E stored \in StoredBy(plan.batch) : history' = history \o stored
    BY <1>5 DEF CancelLoop
  <2> QED
    BY <1>3, <2>1, PlainIsSay
<1>6. CASE \/ StreamNext \/ Conclude \/ YieldResult \/ YieldTerminal \/ Proceed \/ Hook
           \/ AnswerMalformed \/ StartDispatch \/ TakeDelta \/ TakeEnd
           \/ Settle \/ SettleCancelled \/ FinalizeBegin \/ GracePass \/ FinalizeCompleted
           \/ FinalizeDeferred \/ FinalizeKilled \/ Reaped \/ ReapAbandoned \/ Release
  BY <1>6 DEF StreamNext, StreamText, StreamCall, StreamEnd, StreamEvent, StreamCut, StreamFails,
     Conclude, YieldResult, YieldTerminal, Proceed, Hook, AnswerMalformed, StartDispatch,
     TakeDelta, TakeEnd, Settle, SettleCancelled, FinalizeBegin, GracePass, FinalizeCompleted,
     FinalizeDeferred, FinalizeKilled, Reaped, ReapAbandoned, Release
<1>7. CASE \/ BeginDispatch \/ ToolStep \/ EndDispatch \/ Pull \/ SinkStep
           \/ CancelDispatch \/ Host \/ Finished \/ UNCHANGED vars
  BY <1>7 DEF BeginDispatch, ToolStep, ToolBegin, ToolEmits, ToolEnds, ToolReturns,
     ToolCancelsItself, ToolStops, EndDispatch, Pull, SinkStep, SinkDelivers, SinkDrops,
     CancelDispatch, Host, Abandon, Preempt, Interrupt, CloseSink, Finished, vars
<1> QED
  BY <1>1, <1>2, <1>4, <1>5, <1>6, <1>7 DEF Next, RunStep, Fault

\* Whatever is cancelled, fails or is closed, a run over a store whose
\* append_many is atomic writes a conversation: no tool call without the
\* results of its turn beside it, no round answered twice, nothing rewritten.
THEOREM RunStoresAConversation == Store # "sequential" /\ Spec => StoresAConversation
<1> SUFFICES ASSUME Store # "sequential" PROVE Spec => StoresAConversation
  OBVIOUS
<1>1. Init => Conv!Init
  BY DEF Init, Conv!Init
<1>2. StoreInv /\ [Next]_vars => [Conv!Next]_history
  BY StepSimulation
<1>3. Spec => []StoreInv
  BY StoreInvariant
<1>4. Spec => Conv!Init /\ [][Conv!Next]_history
  BY <1>1, <1>2, <1>3, PTL DEF Spec
<1> QED
  BY <1>4 DEF StoresAConversation, Conv!Spec

-----------------------------------------------------------------------------
(* What a run keeps over every kind of store.                              *)
(*                                                                         *)
(* The invariant has five layers, and each uses those before it: what the  *)
(* run has planned; where the dispatch and its tools are; what is in the   *)
(* store; what the results there say of their batch; and what the caller   *)
(* has been told.                                                          *)

-----------------------------------------------------------------------------
(* The plan.                                                               *)

Saving == {"writing", "closing"}

\* The results at the end of what is to be stored.
Results == plan.batch[Len(plan.batch)].of

Outs == {<< >>, ErrorEnd}
          \cup {<<EndEvent(r)>> : r \in {"error", "end_turn", "max_tokens", "repetition"}}

\* What is to be stored is an answer, or an exchange, or, message by message,
\* what is left of one.
BatchOK ==
  /\ pc \notin Saving => plan.batch = << >>
  /\ pc \in Saving /\ plan.batch # <<Answer>> =>
       /\ Results \in [turn.calls -> Outcomes]
       /\ \/ plan.batch = ExchangeOf(Results)
          \/ Store = "sequential" /\ plan.batch = <<Reply(Results)>>

\* The part of TypeOK about the run, and the part about its tasks and the sink.
RunTypes ==
  /\ pc \in Places
  /\ caller \in {"pulling", "holding"}
  /\ iteration \in Rounds
  /\ turn \in Turns
  /\ plan \in Plans
  /\ grace \in 0..2
  /\ emitted \in Seq(Events)
  /\ history \in Seq(Messages)

TaskTypes ==
  /\ tools \in [Calls -> {"idle", "queued", "running", "stopping", "done", "cancelled"}]
  /\ dispatch \in {"none", "created", "running", "unwinding", "done", "cancelled"}
  /\ queue \in Seq({"delta", "none"})
  /\ deltas \in 0..MaxDelta
  /\ ran \subseteq Rounds \X Calls
  /\ sink \in {"none", "active", "deferred", "closed", "delivered", "dropped"}
  /\ preempt \in BOOLEAN
  /\ stopAsked \in BOOLEAN

RunInv ==
  /\ RunTypes
  /\ IsPlan(plan)
  /\ plan.out \in Outs
  /\ turn.malformed \subseteq turn.calls
  /\ pc = "input" => iteration = 0
  /\ pc = "closing" => plan.next = "raised"
  /\ BatchOK

PlanInv == RunInv /\ TaskTypes

-----------------------------------------------------------------------------
(* The dispatch.                                                           *)

\* The places from which the run, or its finalizer, awaits its dispatch.
Awaiting == {"dispatching", "settle", "interrupted", "grace", "reaping",
             "abandoned", "releasing"}

\* The states of the tasks of a dispatch in state d.
TaskStates(d) ==
  CASE d = "none"      -> {"idle"}
    [] d = "created"   -> {"idle", "queued"}
    [] d = "running"   -> {"idle", "queued", "running", "done"}
    [] d = "unwinding" -> {"idle", "stopping", "done", "cancelled"}
    [] d = "done"      -> {"idle", "done"}
    [] d = "cancelled" -> {"idle", "done", "cancelled"}

\* A dispatch and the tools it gathers.
DispatchInv ==
  /\ \A c \in Calls : tools[c] \in TaskStates(dispatch)
  /\ \A i \in 1..Len(queue) : queue[i] = "none" => DispatchOver

\* A dispatch is awaited by its run, or belongs to the sink.
OwnerInv ==
  /\ pc \in Awaiting => dispatch # "none" /\ sink \in {"none", "active"}
  /\ pc = "settle" => DispatchOver
  /\ pc \notin Awaiting => sink # "active"
  /\ pc \notin Awaiting /\ sink = "none" => dispatch = "none" \/ DispatchOver
  /\ sink \notin {"none", "active"} =>
       pc \in Ended \/ (pc \in {"closing", "yielding"} /\ plan.next = "raised")
  /\ sink = "delivered" => DispatchOver
  /\ sink = "dropped" => dispatch \in {"unwinding", "done", "cancelled"}
  /\ sink # "none" => dispatch # "none"
  /\ sink = "active" => HasSink
  /\ preempt => HasSink

\* What runs, and has run, was asked for by the response of its round.
RanInv ==
  /\ \A r \in ran : r[1] <= iteration
  /\ pc \in {"input", "top", "streaming"} => \A r \in ran : r[1] # iteration
  /\ \A c \in Calls : <<iteration, c>> \in ran \/ ToolActive(c) =>
       turn.reason \in Vouching /\ c \in Runnable
  /\ pc \in Awaiting => \A c \in Calls :
       /\ c \in Runnable => tools[c] # "idle"
       /\ tools[c] \in {"running", "stopping", "done"} => <<iteration, c>> \in ran

ToolsInv == DispatchInv /\ OwnerInv /\ RanInv

-----------------------------------------------------------------------------
(* The history.                                                            *)

\* Every request but the last message has its reply beside it.
Paired(h) ==
  \A i \in 1..(Len(h) - 1) : h[i].kind = "request" =>
    h[i + 1].kind = "reply" /\ DOMAIN h[i + 1].of = h[i].calls

\* The last message is a request without its reply.
Orphan(h) == h # << >> /\ h[Len(h)].kind = "request"

\* Such a request is stored only where its reply is to be stored next, or the
\* run is coming to an end.
PairedInv ==
  /\ Paired(history)
  /\ Orphan(history) =>
       \/ /\ pc \in Saving /\ plan.batch = <<Reply(Results)>>
          /\ plan.batch # <<Answer>> /\ history[Len(history)].calls = turn.calls
       \/ pc = "yielding" /\ plan.next = "raised"
       \/ pc \in {"raised", "closed"}

\* What a result says of its call is so, and stays so.
True(at, c, outcome) ==
  /\ outcome = "ok" => <<at, c>> \in ran
  /\ outcome \in {"malformed", "refused"} =>
       <<at, c>> \notin ran /\ (at = iteration => ~ToolActive(c))

TrueReply(m) == \A c \in DOMAIN m.of : True(m.at, c, m.of[c])

\* A reply belongs to a round that is settled, and is true.
Good == {m \in Messages : m.kind = "reply" => m.at <= Settled(pc, iteration) /\ TrueReply(m)}

RepliesInv == history \in Seq(Good)

\* So is the one that is to be stored.
TruthInv == pc \in Saving /\ plan.batch # <<Answer>> => TrueReply(Reply(Results))

HistoryInv == PairedInv /\ RepliesInv /\ TruthInv

-----------------------------------------------------------------------------
(* The report.                                                             *)

\* The run is on its way to its next round or to an end of its own.
OnItsWay == pc \notin {"raised", "closed", "abandoned", "releasing", "closing"}
            /\ (pc = "yielding" => plan.next # "raised")

\* A result of the call is among the events.
Shown(events, at, c) == \E i \in 1..Len(events) : events[i].type = "result" /\ events[i].at = at /\ events[i].call = c

\* A result that has been reported is stored, was reported once, and belongs to
\* a round that is settled.
ToldInv ==
  /\ \A i \in ResultsSeen :
       /\ \E o \in Outcomes \ {"deferred"} : <<emitted[i].at, emitted[i].call, o>> \in Stored
       /\ emitted[i].at <= Settled(pc, iteration)
  /\ \A i, j \in ResultsSeen : emitted[i] = emitted[j] => i = j

\* A result that is to be reported is stored, or is to be stored first.
DueInv ==
  /\ pc = "yielding" => \A c \in plan.report :
       /\ \E o \in Outcomes \ {"deferred"} : <<iteration, c, o>> \in Stored
       /\ ~Shown(emitted, iteration, c)
  /\ pc \in Saving => \A c \in plan.report :
       plan.batch # <<Answer>> /\ c \in turn.calls /\ Results[c] # "deferred"
  /\ pc = "writing" /\ plan.batch # <<Answer>> => plan.report = turn.calls

\* All that a run on its way has stored is reported, or is to be.
AllToldInv ==
  OnItsWay => \A s \in Stored :
    Shown(emitted, s[1], s[2]) \/ (pc = "yielding" /\ s[1] = iteration /\ s[2] \in plan.report)

ReportInv == ToldInv /\ DueInv /\ AllToldInv

\* The sink learns that the protocol is closed when the placeholders are stored.
SinkInv ==
  /\ pc = "closing" /\ sink = "deferred" =>
       plan.batch # <<Answer>> /\ \A c \in Runnable : Results[c] = "deferred"
  /\ sink \in {"closed", "delivered"} =>
       pc # "closing" /\ \A c \in Runnable : <<iteration, c, "deferred">> \in Stored

Closed == emitted # << >> /\ emitted[Len(emitted)].type = "end"

\* The end is reported once, last, and by every run that comes to it.
EndInv ==
  /\ \A i \in 1..Len(emitted) : emitted[i].type = "end" =>
       /\ i = Len(emitted)
       /\ \/ pc \in Ended
          \/ /\ pc = "yielding" /\ plan.report = {} /\ plan.out = << >>
             /\ plan.next \in {"ended", "raised"}
  /\ pc \in Saving \cup {"yielding"} =>
       /\ plan.out # << >> => plan.next \in {"ended", "raised"}
       /\ plan.next = "ended" => plan.out # << >> \/ (pc = "yielding" /\ Closed)
  /\ pc = "ended" => Closed

CallerInv == ReportInv /\ SinkInv /\ EndInv

-----------------------------------------------------------------------------
(* Every step keeps the plan.                                              *)

\* The two parts of TypeOK.
LEMMA TypeParts == TypeOK <=> RunTypes /\ TaskTypes
BY DEF TypeOK, RunTypes, TaskTypes

\* What may be stored of a response is a sequence of messages.
LEMMA BatchTyped ==
  ASSUME iteration \in Rounds, turn \in Turns
  PROVE  /\ <<Answer>> \in Seq(Messages)
         /\ \A f \in [turn.calls -> Outcomes] :
              Reply(f) \in Messages /\ Request \in Messages /\ ExchangeOf(f) \in Seq(Messages)
<1>1. Answer \in Messages /\ Request \in Messages
  BY DEF Answer, Request, Messages, Turns
<1>2. ASSUME NEW f \in [turn.calls -> Outcomes] PROVE Reply(f) \in Messages
  <2>1. turn.calls \in SUBSET Calls
    BY DEF Turns
  <2>2. f \in UNION {[S -> Outcomes] : S \in SUBSET Calls}
    BY <2>1
  <2> QED
    BY <2>2 DEF Reply, Messages
<1> QED
  BY <1>1, <1>2 DEF ExchangeOf

\* What is left to report is a sequence of events.
LEMMA OutsTyped ==
  \A o \in Outs : /\ o \in Seq(Events)
                  /\ o # << >> => Head(o) \in Events /\ Tail(o) \in Outs
<1>1. \A r \in {"error", "end_turn", "max_tokens", "repetition"} : EndEvent(r) \in Events
  BY DEF EndEvent, Events
<1>2. ErrorEvent \in Events
  BY DEF Events
<1> SUFFICES ASSUME NEW o \in Outs
             PROVE  /\ o \in Seq(Events)
                    /\ o # << >> => Head(o) \in Events /\ Tail(o) \in Outs
  OBVIOUS
<1>3. CASE o = << >>
  BY <1>3
<1>4. CASE o = ErrorEnd
  <2>1. o = <<ErrorEvent, EndEvent("error")>>
    BY <1>4 DEF ErrorEnd
  <2>2. Head(o) = ErrorEvent /\ Tail(o) = <<EndEvent("error")>>
    BY <2>1
  <2> QED
    BY <1>1, <1>2, <2>1, <2>2 DEF Outs
<1>5. ASSUME NEW r \in {"error", "end_turn", "max_tokens", "repetition"}, o = <<EndEvent(r)>>
      PROVE  /\ o \in Seq(Events)
             /\ o # << >> => Head(o) \in Events /\ Tail(o) \in Outs
  <2>1. Head(o) = EndEvent(r) /\ Tail(o) = << >>
    BY <1>5
  <2> QED
    BY <1>1, <1>5, <2>1 DEF Outs
<1> QED
  BY <1>3, <1>4, <1>5 DEF Outs

\* Cancelling a dispatch keeps its tasks in their kinds.
LEMMA KillTyped ==
  ASSUME TaskTypes, KillDispatch
  PROVE  /\ tools' \in [Calls -> {"idle", "queued", "running", "stopping", "done", "cancelled"}]
         /\ dispatch' \in {"none", "created", "running", "unwinding", "done", "cancelled"}
BY DEF TaskTypes, KillDispatch

\* A dispatch starts with no output.
LEMMA EmptyQueue == << >> \in Seq({"delta", "none"}) /\ 0 \in 0..MaxDelta
BY AgentRunAssumption

\* The tasks and the sink keep to their kinds.
LEMMA TasksTyped == ASSUME RunTypes, TaskTypes, Next PROVE TaskTypes'
<1>1. CASE UNCHANGED <<tools, dispatch, queue, deltas, ran>>
  <2>1. sink' \in {"none", "active", "deferred", "closed", "delivered", "dropped"}
        /\ preempt' \in BOOLEAN /\ stopAsked' \in BOOLEAN
    BY <1>1 DEF TaskTypes, Next, StreamNext, StreamText, StreamCall, StreamEnd, StreamEvent,
       StreamCut, StreamFails, RunStep, StoreInput, Prepare, Conclude, Write, Unwind, YieldResult,
       YieldTerminal, Proceed, Hook, AnswerMalformed, StartDispatch, TakeDelta, TakeEnd, Settle,
       SettleCancelled, FinalizeBegin, GracePass, FinalizeCompleted, FinalizeDeferred,
       FinalizeKilled, Reaped, ReapAbandoned, Release, BeginDispatch, ToolStep, ToolBegin,
       ToolEmits, ToolEnds, ToolReturns, ToolCancelsItself, ToolStops, EndDispatch, Pull, SinkStep,
       SinkDelivers, SinkDrops, Fault, InputFails, WriteFails, CancelLoop, CancelDispatch, Host,
       Abandon, Preempt, Interrupt, CloseSink, Finished, vars, sinkVars
  <2> QED
    BY <1>1, <2>1 DEF TaskTypes
<1>2. CASE StartDispatch
  <2>1. tools' \in [Calls -> {"idle", "queued", "running", "stopping", "done", "cancelled"}]
    BY <1>2 DEF StartDispatch
  <2>2. queue' \in Seq({"delta", "none"}) /\ deltas' \in 0..MaxDelta
    BY <1>2, EmptyQueue DEF StartDispatch
  <2> QED
    BY <1>2, <2>1, <2>2 DEF StartDispatch, TaskTypes
<1>3. CASE TakeDelta \/ TakeEnd
  <2>1. queue' = Tail(queue) /\ queue # << >>
        /\ UNCHANGED <<tools, dispatch, deltas, ran, sink, preempt, stopAsked>>
    BY <1>3 DEF TakeDelta, TakeEnd, sinkVars
  <2>2. queue' \in Seq({"delta", "none"})
    BY <2>1 DEF TaskTypes
  <2> QED
    BY <2>1, <2>2 DEF TaskTypes
<1>4. CASE FinalizeKilled \/ ReapAbandoned
  BY <1>4, KillTyped DEF FinalizeKilled, ReapAbandoned, TaskTypes, sinkVars
<1>5. CASE BeginDispatch \/ EndDispatch
  BY <1>5 DEF BeginDispatch, EndDispatch, TaskTypes, sinkVars
<1>6. ASSUME NEW c \in Calls, ToolBegin(c) PROVE TaskTypes'
  BY <1>6 DEF ToolBegin, TaskTypes, RunTypes, sinkVars, runVars
<1>7. ASSUME NEW c \in Calls, ToolEmits(c) PROVE TaskTypes'
  BY <1>7, AgentRunAssumption DEF ToolEmits, TaskTypes, sinkVars
<1>8. ASSUME NEW c \in Calls, ToolEnds(c) \/ ToolStops(c) PROVE TaskTypes'
  BY <1>8 DEF ToolEnds, ToolReturns, ToolCancelsItself, ToolStops, TaskTypes, sinkVars
<1>9. CASE Interrupt \/ CloseSink
  BY <1>9, KillTyped DEF Interrupt, CloseSink, TaskTypes
<1> QED
  BY <1>1, <1>2, <1>3, <1>4, <1>5, <1>6, <1>7, <1>8, <1>9
     DEF Next, RunStep, Fault, Host, ToolStep, SinkStep, StreamNext, StreamText, StreamCall,
       StreamEnd, StreamEvent, StreamCut, StreamFails, StoreInput, Prepare, Conclude, Write,
       YieldResult, YieldTerminal, Proceed, Hook, AnswerMalformed, Settle, SettleCancelled,
       FinalizeBegin, GracePass, FinalizeCompleted, FinalizeDeferred, Reaped, Release, Pull,
       SinkDelivers, SinkDrops, InputFails, WriteFails, CancelLoop, CancelDispatch, Abandon,
       Preempt, Finished, vars, toolVars

\* An empty history and nothing to do.
LEMMA PlanInit == Init => PlanInv
<1> SUFFICES ASSUME Init PROVE PlanInv
  OBVIOUS
<1>1. RunTypes
  <2>1. turn \in Turns
    BY DEF Init, OpenTurn, Turns, Reasons
  <2>2. plan \in Plans
    BY DEF Init, Idle, Plans
  <2>3. iteration \in Rounds
    BY AgentRunAssumption DEF Init, Rounds
  <2> QED
    BY <2>1, <2>2, <2>3 DEF Init, RunTypes, Places
<1>2. TaskTypes
  <2>1. tools \in [Calls -> {"idle", "queued", "running", "stopping", "done", "cancelled"}]
    BY DEF Init
  <2>2. ran \subseteq Rounds \X Calls
    BY DEF Init
  <2> QED
    BY <2>1, <2>2, EmptyQueue DEF Init, TaskTypes
<1> QED
  BY <1>1, <1>2 DEF Init, PlanInv, RunInv, IsPlan, Idle, Outs, OpenTurn, BatchOK, Saving

\* A step that has nothing to store afterwards.
LEMMA PlanMove ==
  ASSUME RunInv, history' \in Seq(Messages), pc' \in Places \ {"input", "writing", "closing"},
         caller' \in {"pulling", "holding"}, iteration' \in Rounds,
         turn' \in Turns, turn'.malformed \subseteq turn'.calls,
         grace' \in 0..2, emitted' \in Seq(Events),
         IsPlan(plan'), plan'.batch = << >>, plan'.report \in SUBSET Calls,
         plan'.out \in Outs, plan'.next \in {"again", "hook", "ended", "raised"}
  PROVE  RunInv'
<1>1. plan' \in Plans
  <2>1. plan'.out \in Seq(Events) /\ plan'.batch \in Seq(Messages)
    BY OutsTyped
  <2> DEFINE b == plan'.batch
             r == plan'.report
             o == plan'.out
             n == plan'.next
  <2>2. plan' = [batch |-> b, report |-> r, out |-> o, next |-> n]
    BY DEF IsPlan
  <2>3. b \in Seq(Messages) /\ r \in SUBSET Calls /\ o \in Seq(Events)
        /\ n \in {"again", "hook", "ended", "raised"}
    BY <2>1
  <2> QED
    <3> HIDE DEF b, r, o, n
    <3> QED BY <2>2, <2>3 DEF Plans
<1>2. RunTypes'
  BY <1>1 DEF RunTypes
<1>3. BatchOK'
  BY DEF BatchOK, Saving
<1> QED
  BY <1>2, <1>3 DEF RunInv

\* The same, where the plan stays what it is.
LEMMA PlanSame ==
  ASSUME RunInv, pc \notin Saving, plan' = plan,
         history' \in Seq(Messages), pc' \in Places \ {"input", "writing", "closing"},
         caller' \in {"pulling", "holding"}, iteration' \in Rounds,
         turn' \in Turns, turn'.malformed \subseteq turn'.calls,
         grace' \in 0..2, emitted' \in Seq(Events)
  PROVE  RunInv'
<1>1. IsPlan(plan') /\ plan'.batch = << >> /\ plan'.report \in SUBSET Calls
      /\ plan'.out \in Outs /\ plan'.next \in {"again", "hook", "ended", "raised"}
  BY DEF RunInv, RunTypes, BatchOK, Plans, IsPlan
<1> QED
  BY <1>1, PlanMove

\* A step that decides what to store of an exchange.
LEMMA PlanStoring ==
  ASSUME RunInv, NEW f \in [turn.calls -> Outcomes], NEW at \in Saving, NEW r \in SUBSET Calls,
         NEW o \in Outs, NEW n \in {"again", "hook", "ended", "raised"},
         at = "closing" => n = "raised", grace' \in 0..2,
         Storing(at, ExchangeOf(f), r, o, n),
         UNCHANGED <<caller, iteration, turn, emitted, history>>
  PROVE  RunInv' /\ Results' = f /\ plan'.batch # <<Answer>>
<1> DEFINE b == ExchangeOf(f)
<1>1. plan' = [batch |-> b, report |-> r, out |-> o, next |-> n] /\ pc' = at
  BY DEF Storing
<1>2. b \in Seq(Messages) /\ o \in Seq(Events)
  BY BatchTyped, OutsTyped DEF RunInv, RunTypes
<1>3. plan' \in Plans /\ IsPlan(plan') /\ plan'.batch = b /\ plan'.out = o /\ plan'.next = n
  <2> HIDE DEF b
  <2> QED BY <1>1, <1>2 DEF Plans, IsPlan
<1>4. Len(b) = 2 /\ b[2] = Reply(f) /\ Reply(f).of = f /\ b # <<Answer>>
  BY DEF ExchangeOf, Reply
<1>5. Results' = f
  <2>1. Results' = plan'.batch[Len(plan'.batch)].of
    BY DEF Results
  <2> HIDE DEF b
  <2> QED BY <1>3, <1>4, <2>1
<1>6. at \in Places
  BY DEF Saving, Places
<1>7. RunTypes'
  BY <1>1, <1>3, <1>6 DEF RunInv, RunTypes
<1>8. ExchangeOf(Results)' = b
  BY <1>5 DEF ExchangeOf, Request, Reply
<1>9. BatchOK'
  BY <1>1, <1>3, <1>5, <1>8 DEF BatchOK
<1> QED
  BY <1>1, <1>3, <1>4, <1>5, <1>7, <1>9 DEF RunInv, Saving

\* A step that decides to store an answer.
LEMMA PlanAnswering ==
  ASSUME RunInv, NEW o \in Outs, NEW n \in {"again", "hook", "ended", "raised"},
         Storing("writing", <<Answer>>, {}, o, n),
         UNCHANGED <<caller, iteration, turn, emitted, history, grace>>
  PROVE  RunInv' /\ plan'.batch = <<Answer>>
<1> DEFINE b == <<Answer>>
<1>1. plan' = [batch |-> b, report |-> {}, out |-> o, next |-> n] /\ pc' = "writing"
  BY DEF Storing
<1>2. b \in Seq(Messages) /\ o \in Seq(Events)
  BY BatchTyped, OutsTyped DEF RunInv, RunTypes
<1>3. plan' \in Plans /\ IsPlan(plan') /\ plan'.batch = b /\ plan'.out = o
  <2> HIDE DEF b
  <2> QED BY <1>1, <1>2 DEF Plans, IsPlan
<1>4. RunTypes'
  BY <1>1, <1>3 DEF RunInv, RunTypes, Places
<1>5. Answer' = Answer
  BY DEF Answer
<1>6. BatchOK'
  BY <1>1, <1>3, <1>5 DEF BatchOK, Saving
<1> QED
  BY <1>1, <1>3, <1>4, <1>6 DEF RunInv

\* Nothing more is stored: the run reports its end and raises.
LEMMA PlanUnwind ==
  ASSUME RunInv, Unwind, history' \in Seq(Messages),
         UNCHANGED <<caller, iteration, turn, grace, emitted>>
  PROVE  RunInv'
<1>1. plan' = [batch |-> << >>, report |-> {}, out |-> <<EndEvent("error")>>, next |-> "raised"]
      /\ pc' = "yielding"
  BY DEF Unwind, Reporting
<1>2. <<EndEvent("error")>> \in Outs
  BY DEF Outs
<1> QED
  BY <1>1, <1>2, PlanMove DEF RunInv, RunTypes, Places, IsPlan

\* The next turn of the loop, or its end.
LEMMA PlanNext ==
  ASSUME RunInv, NextIteration, UNCHANGED <<caller, turn, grace, emitted, history>>
  PROVE  RunInv'
<1>1. CASE iteration < MaxIter
  <2>1. pc' = "top" /\ iteration' = iteration + 1 /\ plan' = Idle
    BY <1>1 DEF NextIteration
  <2>2. iteration' \in Rounds
    BY <1>1, <2>1, AgentRunAssumption DEF RunInv, RunTypes, Rounds
  <2> QED
    BY <2>1, <2>2, PlanMove DEF RunInv, RunTypes, Places, Idle, IsPlan, Outs
<1>2. CASE ~(iteration < MaxIter)
  <2>1. plan' = [batch |-> << >>, report |-> {}, out |-> ErrorEnd, next |-> "ended"]
        /\ pc' = "yielding" /\ iteration' = iteration
    BY <1>2 DEF NextIteration, Reporting
  <2>2. ErrorEnd \in Outs
    BY DEF Outs
  <2> QED
    BY <2>1, <2>2, PlanMove DEF RunInv, RunTypes, Places, IsPlan
<1> QED
  BY <1>1, <1>2

\* What is stored in one go, or fails to be, is a sequence of messages.
LEMMA StoredTyped ==
  ASSUME RunInv, NEW stored \in StoredBy(plan.batch)
  PROVE  history \o stored \in Seq(Messages)
<1>1. plan.batch \in Seq(Messages) /\ history \in Seq(Messages)
  BY DEF RunInv, RunTypes, Plans
<1>2. stored \in Seq(Messages)
  <2>1. CASE Store = "sequential"
    <3>1. PICK n \in 0..Len(plan.batch) : stored = SubSeq(plan.batch, 1, n)
      BY <2>1 DEF StoredBy
    <3> QED
      BY <1>1, <3>1
  <2>2. CASE Store # "sequential"
    <3>1. << >> \in Seq(Messages)
      OBVIOUS
    <3> QED
      BY <1>1, <2>2, <3>1 DEF StoredBy
  <2> QED
    BY <2>1, <2>2
<1> QED
  BY <1>1, <1>2

\* An outcome for each call of the response, whatever became of its dispatch.
LEMMA Outcome ==
  /\ [c \in turn.calls |-> "refused"] \in [turn.calls -> Outcomes]
  /\ [c \in turn.calls |-> "malformed"] \in [turn.calls -> Outcomes]
  /\ Completed \in [turn.calls -> Outcomes]
  /\ Aborted("deferred") \in [turn.calls -> Outcomes]
  /\ Aborted("interrupted") \in [turn.calls -> Outcomes]
BY DEF Completed, Aborted, Outcomes

\* The verdict on a response is an end of the run or another round.
LEMMA VerdictTyped ==
  Verdict.out \in Outs /\ Verdict.next \in {"again", "hook", "ended", "raised"}
<1>1. \A o, n : [out |-> o, next |-> n].out = o /\ [out |-> o, next |-> n].next = n
  OBVIOUS
<1> QED
  BY <1>1 DEF Verdict, Outs

\* A step of the tasks, the sink or the host does not move the run.
LEMMA PlanStill == ASSUME RunInv, UNCHANGED <<runVars, history>> PROVE RunInv'
<1>1. RunTypes' /\ IsPlan(plan') /\ BatchOK'
  BY DEF RunInv, RunTypes, IsPlan, BatchOK, runVars, Answer, ExchangeOf, Request, Reply, Results
<1> QED
  BY <1>1 DEF RunInv, runVars

\* Storing the next message, or the last ones.
LEMMA PlanWrite == ASSUME RunInv, Write PROVE RunInv'
<1> DEFINE rest == Tail(plan.batch)
<1>1. plan.batch \in Seq(Messages) /\ plan.batch # << >> /\ history \in Seq(Messages)
  BY DEF RunInv, RunTypes, Plans, Write
<1>2. CASE Store = "sequential" /\ Len(plan.batch) > 1
  <2>1. history' = Append(history, Head(plan.batch)) /\ plan' = [plan EXCEPT !.batch = rest]
        /\ UNCHANGED <<pc, caller, iteration, turn, grace, emitted>>
    BY <1>2 DEF Write
  <2>2. history' \in Seq(Messages) /\ rest \in Seq(Messages)
    BY <1>1, <2>1
  <2>3. plan' = [batch |-> rest, report |-> plan.report, out |-> plan.out, next |-> plan.next]
    <3>1. plan = [batch |-> plan.batch, report |-> plan.report, out |-> plan.out, next |-> plan.next]
      BY DEF RunInv, IsPlan
    <3> HIDE DEF rest
    <3> QED BY <2>1, <3>1
  <2>4. pc \in Saving /\ plan.batch = ExchangeOf(Results) /\ Results \in [turn.calls -> Outcomes]
    <3>1. \A m : plan.batch = <<m>> => Len(plan.batch) = 1
      OBVIOUS
    <3>2. pc \in Saving
      BY DEF Write, Saving
    <3>3. plan.batch # <<Answer>> /\ plan.batch # <<Reply(Results)>>
      <4>1. Len(<<Answer>>) = 1 /\ Len(<<Reply(Results)>>) = 1 /\ ~(1 > 1)
        OBVIOUS
      <4>2. Len(plan.batch) > 1
        BY <1>2
      <4> QED
        BY <4>1, <4>2, Zenon
    <3> QED
      BY <3>2, <3>3 DEF RunInv, BatchOK
  <2>5. rest = <<Reply(Results)>>
    BY <2>4 DEF ExchangeOf
  <2>6. plan'.batch = rest /\ plan'.report = plan.report /\ plan'.out = plan.out /\ plan'.next = plan.next
        /\ IsPlan(plan')
    <3> HIDE DEF rest
    <3> QED BY <2>3 DEF IsPlan
  <2>7. Results' = Results
    <3>1. Results' = plan'.batch[Len(plan'.batch)].of
      BY DEF Results
    <3>2. \A m : Len(<<m>>) = 1 /\ <<m>>[1] = m
      OBVIOUS
    <3>3. Reply(Results).of = Results
      BY DEF Reply
    <3> HIDE DEF rest
    <3> QED BY <2>5, <2>6, <3>1, <3>2, <3>3
  <2>8. Reply(Results)' = Reply(Results) /\ Answer' = Answer
    BY <2>1, <2>7 DEF Reply, Answer
  <2>9. BatchOK'
    <3>1. pc' \in Saving /\ Results' \in [turn'.calls -> Outcomes] /\ Store = "sequential"
      BY <1>2, <2>1, <2>4, <2>7
    <3>2. plan'.batch = <<Reply(Results)'>>
      BY <2>5, <2>6, <2>8
    <3> QED
      BY <3>1, <3>2 DEF BatchOK
  <2>10. plan' \in Plans
    <3>1. plan.report \in SUBSET Calls /\ plan.out \in Seq(Events)
          /\ plan.next \in {"again", "hook", "ended", "raised"}
      BY DEF RunInv, RunTypes, Plans
    <3> HIDE DEF rest
    <3> QED BY <2>2, <2>3, <3>1 DEF Plans
  <2>11. RunTypes'
    BY <2>1, <2>2, <2>10 DEF RunInv, RunTypes
  <2> QED
    BY <2>1, <2>6, <2>9, <2>11 DEF RunInv
<1>3. CASE ~(Store = "sequential" /\ Len(plan.batch) > 1)
  <2>1. history' = history \o plan.batch /\ UNCHANGED <<caller, iteration, turn, grace, emitted>>
    BY <1>3 DEF Write
  <2>2. history' \in Seq(Messages)
    BY <1>1, <2>1
  <2>3. CASE pc = "closing" /\ sink = "dropped"
    <3>1. Unwind
      BY <1>3, <2>3 DEF Write
    <3> QED
      BY <2>1, <2>2, <3>1, PlanUnwind
  <2>4. CASE ~(pc = "closing" /\ sink = "dropped")
    <3>1. plan' = [plan EXCEPT !.batch = << >>] /\ pc' = "yielding"
      BY <1>3, <2>4 DEF Write
    <3>2. /\ plan.report \in SUBSET Calls /\ plan.out \in Outs
          /\ plan.next \in {"again", "hook", "ended", "raised"}
          /\ plan = [batch |-> plan.batch, report |-> plan.report, out |-> plan.out, next |-> plan.next]
      BY DEF RunInv, RunTypes, Plans, IsPlan
    <3>3. /\ IsPlan(plan') /\ plan'.batch = << >> /\ plan'.report = plan.report
          /\ plan'.out = plan.out /\ plan'.next = plan.next
      BY <3>1, <3>2 DEF IsPlan
    <3> QED
      BY <2>1, <2>2, <3>1, <3>2, <3>3, PlanMove DEF RunInv, RunTypes, Places
  <2> QED
    BY <2>3, <2>4
<1> QED
  BY <1>2, <1>3

\* Telling the caller, one event at a time.
LEMMA PlanYields == ASSUME RunInv, YieldResult \/ YieldTerminal PROVE RunInv'
<1>1. /\ plan = [batch |-> plan.batch, report |-> plan.report, out |-> plan.out, next |-> plan.next]
      /\ plan.report \in SUBSET Calls /\ plan.out \in Outs
      /\ plan.next \in {"again", "hook", "ended", "raised"} /\ iteration \in Rounds
      /\ emitted \in Seq(Events) /\ pc = "yielding" /\ plan.batch = << >>
  BY DEF RunInv, RunTypes, Plans, IsPlan, YieldResult, YieldTerminal, BatchOK, Saving
<1>2. CASE YieldResult
  <2>1. PICK c \in plan.report : emitted' = Append(emitted, ResultEvent(c))
                                 /\ plan' = [plan EXCEPT !.report = @ \ {c}]
    BY <1>2 DEF YieldResult
  <2>2. /\ IsPlan(plan') /\ plan'.batch = << >> /\ plan'.report = plan.report \ {c}
        /\ plan'.out = plan.out /\ plan'.next = plan.next
    BY <1>1, <2>1 DEF IsPlan
  <2>3. ResultEvent(c) \in Events
    BY <1>1, <2>1 DEF ResultEvent, Events
  <2>4. emitted' \in Seq(Events) /\ plan'.report \in SUBSET Calls
    BY <1>1, <2>1, <2>2, <2>3
  <2>5. UNCHANGED <<pc, iteration, turn, grace, history>> /\ caller' = "holding"
    BY <1>2 DEF YieldResult
  <2> QED
    BY <1>1, <2>2, <2>4, <2>5, PlanMove DEF RunInv, RunTypes, Places
<1>3. CASE YieldTerminal
  <2>1. emitted' = Append(emitted, Head(plan.out)) /\ plan' = [plan EXCEPT !.out = Tail(@)]
        /\ UNCHANGED <<pc, iteration, turn, grace, history>> /\ caller' = "holding"
        /\ plan.out # << >>
    BY <1>3 DEF YieldTerminal
  <2>2. /\ IsPlan(plan') /\ plan'.batch = << >> /\ plan'.report = plan.report
        /\ plan'.out = Tail(plan.out) /\ plan'.next = plan.next
    <3> DEFINE o == Tail(plan.out)
    <3>1. plan' = [plan EXCEPT !.out = o]
      BY <2>1
    <3>2. plan' = [batch |-> plan.batch, report |-> plan.report, out |-> o, next |-> plan.next]
      <4> HIDE DEF o
      <4> QED BY <1>1, <3>1
    <3>3. plan'.batch = plan.batch /\ plan'.report = plan.report /\ plan'.out = o
          /\ plan'.next = plan.next
      <4> HIDE DEF o
      <4> QED BY <3>2
    <3>4. IsPlan(plan')
      <4> HIDE DEF o
      <4> QED BY <3>2, <3>3 DEF IsPlan
    <3> QED
      BY <1>1, <3>3, <3>4
  <2>3. Head(plan.out) \in Events /\ Tail(plan.out) \in Outs
    BY <1>1, <2>1, OutsTyped
  <2>4. emitted' \in Seq(Events)
    BY <1>1, <2>1, <2>3
  <2> QED
    BY <1>1, <2>1, <2>2, <2>3, <2>4, PlanMove DEF RunInv, RunTypes, Places
<1> QED
  BY <1>2, <1>3

\* Every step of the run keeps its plan.
LEMMA PlanNextStep == ASSUME RunInv, Next PROVE RunInv'
<1>0. history \in Seq(Messages) /\ Input \in Messages /\ Notice \in Messages
      /\ iteration \in Rounds /\ turn \in Turns
  BY DEF RunInv, RunTypes, Input, Notice, Messages
<1>1. CASE StoreInput
  <2>1. iteration' \in Rounds /\ history' \in Seq(Messages)
    BY <1>0, <1>1, AgentRunAssumption DEF StoreInput, Rounds
  <2> QED
    BY <1>1, <2>1, PlanSame DEF StoreInput, RunInv, RunTypes, Places, Saving
<1>2. CASE InputFails
  <2>1. history' \in Seq(Messages)
    BY <1>0, <1>2 DEF InputFails
  <2> QED
    BY <1>2, <2>1, PlanSame DEF InputFails, RunInv, RunTypes, Places, Saving, Ended
<1>3. CASE Prepare
  <2>1. history' \in Seq(Messages) /\ turn' \in Turns /\ turn'.malformed \subseteq turn'.calls
    BY <1>0, <1>3 DEF Prepare, OpenTurn, Turns, Reasons
  <2> QED
    BY <1>3, <2>1, PlanSame DEF Prepare, RunInv, RunTypes, Places, Saving
<1>4. CASE StreamNext
  <2>1. ASSUME NEW t \in Turns, t.malformed \subseteq t.calls, StreamEvent(t)
        PROVE  RunInv'
    BY <2>1, PlanSame DEF StreamEvent, RunInv, RunTypes, Places, Saving
  <2>2. CASE StreamText
    BY <2>1, <2>2 DEF StreamText, RunInv, RunTypes, Turns
  <2>3. ASSUME NEW c \in Calls, StreamCall(c) PROVE RunInv'
    BY <2>1, <2>3 DEF StreamCall, RunInv, RunTypes, Turns
  <2>4. CASE StreamEnd
    BY <2>1, <2>4 DEF StreamEnd, RunInv, RunTypes, Turns, Reasons
  <2>5. CASE StreamCut
    <3>1. turn' \in Turns /\ turn'.malformed \subseteq turn'.calls
      BY <2>5 DEF StreamCut, RunInv, RunTypes, Turns, Reasons
    <3> QED
      BY <2>5, <3>1, PlanSame DEF StreamCut, RunInv, RunTypes, Places, Saving
  <2>6. CASE StreamFails
    <3>1. plan' = [batch |-> << >>, report |-> {}, out |-> ErrorEnd, next |-> "ended"]
          /\ pc' = "yielding" /\ ErrorEnd \in Outs
      BY <2>6 DEF StreamFails, Reporting, Outs
    <3> QED
      BY <2>6, <3>1, PlanMove DEF StreamFails, IsPlan, RunInv, RunTypes, Places
  <2> QED
    BY <1>4, <2>2, <2>3, <2>4, <2>5, <2>6 DEF StreamNext
<1>4a. /\ << >> \in Outs /\ <<EndEvent("error")>> \in Outs
      /\ turn.calls \in SUBSET Calls /\ turn.malformed \in SUBSET Calls
      /\ "writing" \in Saving /\ "closing" \in Saving
      /\ grace \in 0..2 /\ 0 \in 0..2
  BY <1>0 DEF Outs, Turns, Saving, RunInv, RunTypes
<1>5. CASE Conclude
  <2>1. CASE Storing("writing", <<Answer>>, {}, Verdict.out, Verdict.next)
    BY <1>5, <2>1, VerdictTyped, PlanAnswering DEF Conclude
  <2>2. CASE Storing("writing", ExchangeOf([c \in turn.calls |-> "refused"]),
                     turn.calls, Verdict.out, Verdict.next)
    BY <1>5, <1>4a, <2>2, VerdictTyped, Outcome, PlanStoring DEF Conclude
  <2> QED
    BY <1>5, <2>1, <2>2 DEF Conclude
<1>7. CASE AnswerMalformed
  BY <1>4a, <1>7, Outcome, PlanStoring DEF AnswerMalformed
<1>8. CASE Settle
  BY <1>4a, <1>8, Outcome, PlanStoring DEF Settle
<1>9. CASE FinalizeCompleted
  BY <1>4a, <1>9, Outcome, PlanStoring DEF FinalizeCompleted, Closing
<1>10. CASE FinalizeDeferred
  BY <1>4a, <1>10, Outcome, PlanStoring DEF FinalizeDeferred, Closing
<1>11. CASE Reaped
  BY <1>4a, <1>11, Outcome, PlanStoring DEF Reaped, Closing
<1>12. CASE Write
  BY <1>12, PlanWrite
<1>13. CASE WriteFails
  BY <1>13, StoredTyped, PlanUnwind DEF WriteFails
<1>14. CASE CancelLoop
  <2>1. history' \in Seq(Messages)
    <3>1. \/ history' = history
          \/ history' = Append(history, Notice)
          \/ \E stored \in StoredBy(plan.batch) : history' = history \o stored
      BY <1>14 DEF CancelLoop
    <3>2. Append(history, Notice) \in Seq(Messages)
      BY <1>0
    <3> QED
      BY <1>0, <3>1, <3>2, StoredTyped
  <2> QED
    BY <1>14, <2>1, PlanUnwind DEF CancelLoop
<1>15. CASE YieldResult \/ YieldTerminal
  BY <1>15, PlanYields
<1>16. CASE Proceed
  <2>1. CASE plan.next = "again"
    BY <1>16, <2>1, PlanNext DEF Proceed
  <2>2. CASE plan.next # "again"
    <3>1. pc' \in Places \ {"input", "writing", "closing"}
      BY <1>16, <2>2 DEF Proceed, RunInv, RunTypes, Plans, Places, Ended
    <3>2. IsPlan(plan') /\ plan'.batch = << >> /\ plan'.report = {} /\ plan'.out = << >>
          /\ plan'.next = "ended"
      BY <1>16, <2>2 DEF Proceed, Idle, IsPlan
    <3> QED
      BY <1>4a, <1>16, <2>2, <3>1, <3>2, PlanMove DEF Proceed, RunInv, RunTypes
  <2> QED
    BY <2>1, <2>2
<1>17. CASE Hook
  BY <1>17, PlanNext DEF Hook
<1>18. CASE StartDispatch
  BY <1>18, PlanSame DEF StartDispatch, ResponseOver, RunInv, RunTypes, Places, Saving
<1>19. CASE TakeDelta \/ TakeEnd \/ SettleCancelled \/ CancelDispatch
  BY <1>19, PlanSame DEF TakeDelta, TakeEnd, SettleCancelled, CancelDispatch, RunInv, RunTypes, Places, Saving
<1>20. CASE FinalizeBegin
  BY <1>20, PlanSame DEF FinalizeBegin, RunInv, RunTypes, Places, Saving
<1>21. CASE GracePass
  <2>1. grace' \in 0..2
    BY <1>21 DEF GracePass, RunInv, RunTypes
  <2> QED
    BY <1>21, <2>1, PlanSame DEF GracePass, RunInv, RunTypes, Places, Saving
<1>22. CASE FinalizeKilled
  BY <1>22, PlanSame DEF FinalizeKilled, Decided, RunInv, RunTypes, Places, Saving
<1>23. CASE Pull \/ Abandon
  BY <1>23, PlanSame DEF Pull, Abandon, RunInv, RunTypes, Places, Saving, Ended
<1>24. CASE ReapAbandoned \/ Release
  BY <1>24, PlanSame DEF ReapAbandoned, Release, RunInv, RunTypes, Places, Saving, Ended
<1>25. CASE BeginDispatch \/ ToolStep \/ EndDispatch \/ SinkStep \/ Preempt \/ Interrupt
          \/ CloseSink \/ Finished
  <2>1. UNCHANGED <<runVars, history>>
    BY <1>25 DEF BeginDispatch, ToolStep, ToolBegin, ToolEmits, ToolEnds, ToolReturns,
       ToolCancelsItself, ToolStops, EndDispatch, SinkStep, SinkDelivers, SinkDrops,
       Preempt, Interrupt, CloseSink, Finished, vars, runVars
  <2> QED
    BY <2>1, PlanStill
<1> QED
  BY <1>1, <1>2, <1>3, <1>4, <1>5, <1>7, <1>8, <1>9, <1>10, <1>11, <1>12, <1>13, <1>14, <1>15,
     <1>16, <1>17, <1>18, <1>19, <1>20, <1>21, <1>22, <1>23, <1>24, <1>25
     DEF Next, RunStep, Fault, Host

\* The plan of a run, and the type of all it keeps, hold in every state.
LEMMA PlanStep == ASSUME PlanInv, [Next]_vars PROVE PlanInv'
<1>1. CASE Next
  BY <1>1, TasksTyped, PlanNextStep DEF PlanInv, RunInv
<1>2. CASE UNCHANGED vars
  <2>1. RunInv'
    BY <1>2, PlanStill DEF PlanInv, vars, runVars
  <2> QED
    BY <1>2, <2>1 DEF PlanInv, TaskTypes, vars
<1> QED
  BY <1>1, <1>2

\* Every variable of a run holds a value of its kind, whatever is cancelled,
\* fails or is closed and whichever way the store appends.
THEOREM RunIsTyped == Spec => []TypeOK
<1>1. Init => PlanInv
  BY PlanInit
<1>2. PlanInv /\ [Next]_vars => PlanInv'
  BY PlanStep
<1>3. PlanInv => TypeOK
  BY TypeParts DEF PlanInv, RunInv
<1> QED
  BY <1>1, <1>2, <1>3, PTL DEF Spec

-----------------------------------------------------------------------------
(* Every step keeps the dispatch.                                          *)

\* What cancelling a dispatch makes of it and of its tasks.
LEMMA KillOutcome ==
  ASSUME TaskTypes, DispatchInv, KillDispatch
  PROVE  /\ dispatch' # "none" => dispatch' \in {"unwinding", "done", "cancelled"}
         /\ dispatch = "none" <=> dispatch' = "none"
         /\ DispatchOver => DispatchOver'
         /\ \A c \in Calls :
              /\ tools'[c] \in TaskStates(dispatch')
              /\ tools'[c] = "idle" <=> tools[c] = "idle"
              /\ ToolActive(c)' => ToolActive(c)
              /\ tools'[c] \in {"running", "stopping", "done"} =>
                   tools[c] \in {"running", "stopping", "done"}
<1>1. /\ dispatch' # "none" => dispatch' \in {"unwinding", "done", "cancelled"}
      /\ dispatch = "none" <=> dispatch' = "none"
      /\ DispatchOver => DispatchOver'
  BY DEF TaskTypes, KillDispatch, DispatchOver
<1>2. ASSUME NEW c \in Calls
      PROVE  /\ tools'[c] \in TaskStates(dispatch')
             /\ tools'[c] = "idle" <=> tools[c] = "idle"
             /\ ToolActive(c)' => ToolActive(c)
             /\ tools'[c] \in {"running", "stopping", "done"} =>
                  tools[c] \in {"running", "stopping", "done"}
  <2>1. tools'[c] = CASE tools[c] = "queued"  -> "cancelled"
                      [] tools[c] = "running" -> "stopping"
                      [] OTHER                -> tools[c]
    BY DEF KillDispatch
  <2>2. tools[c] \in TaskStates(dispatch)
    BY DEF DispatchInv
  <2>3. tools'[c] \in TaskStates(dispatch')
    BY <2>1, <2>2 DEF KillDispatch, TaskTypes, TaskStates
  <2>4. /\ tools'[c] = "idle" <=> tools[c] = "idle"
        /\ ToolActive(c)' => ToolActive(c)
        /\ tools'[c] \in {"running", "stopping", "done"} =>
             tools[c] \in {"running", "stopping", "done"}
    BY <2>1 DEF ToolActive
  <2> QED
    BY <2>3, <2>4
<1> QED
  BY <1>1, <1>2

\* Cancelling a dispatch leaves its output alone.
LEMMA DispatchKilled ==
  ASSUME TaskTypes, DispatchInv, KillDispatch, queue' = queue
  PROVE  DispatchInv'
BY KillOutcome DEF DispatchInv

\* What is left of a queue is a part of it.
LEMMA TailOfQueue ==
  ASSUME queue \in Seq({"delta", "none"}), queue # << >>, queue' = Tail(queue),
         DispatchInv, UNCHANGED <<tools, dispatch>>
  PROVE  DispatchInv'
<1>1. ASSUME NEW i \in 1..Len(queue'), queue'[i] = "none" PROVE DispatchOver'
  <2>1. Len(queue') = Len(queue) - 1 /\ Len(queue) \in Nat /\ Len(queue) > 0
    OBVIOUS
  <2>2. i + 1 \in 1..Len(queue) /\ queue'[i] = queue[i + 1]
    BY <2>1
  <2> QED
    BY <1>1, <2>2 DEF DispatchInv, DispatchOver
<1> QED
  BY <1>1 DEF DispatchInv

\* An output that is added before the dispatch is over is not its end.
LEMMA MoreInQueue ==
  ASSUME queue \in Seq({"delta", "none"}), NEW x \in {"delta", "none"},
         queue' = Append(queue, x), x = "none" => DispatchOver',
         DispatchOver => DispatchOver', DispatchInv
  PROVE  \A i \in 1..Len(queue') : queue'[i] = "none" => DispatchOver'
<1> SUFFICES ASSUME NEW i \in 1..Len(queue'), queue'[i] = "none" PROVE DispatchOver'
  OBVIOUS
<1>1. Len(queue') = Len(queue) + 1 /\ Len(queue) \in Nat
  OBVIOUS
<1>2. CASE i = Len(queue) + 1
  BY <1>2
<1>3. CASE i # Len(queue) + 1
  <2>1. i \in 1..Len(queue) /\ queue'[i] = queue[i]
    BY <1>1, <1>3
  <2> QED
    BY <2>1 DEF DispatchInv
<1> QED
  BY <1>2, <1>3

\* Steps of the run, the caller and the sink that let the dispatch be.
LEMMA DispatchAlone == ASSUME DispatchInv, UNCHANGED <<tools, dispatch, queue>> PROVE DispatchInv'
BY DEF DispatchInv, DispatchOver

\* Every step keeps a dispatch and its tasks together.
LEMMA DispatchStep == ASSUME PlanInv, DispatchInv, Next PROVE DispatchInv'
<1> USE DEF PlanInv
<1>1. CASE StartDispatch
  <2>1. \A c \in Calls : tools'[c] \in TaskStates(dispatch')
    BY <1>1 DEF StartDispatch, TaskStates
  <2>2. queue' = << >>
    BY <1>1 DEF StartDispatch
  <2> QED
    BY <2>1, <2>2 DEF DispatchInv
<1>2. CASE TakeDelta \/ TakeEnd
  BY <1>2, TailOfQueue DEF TakeDelta, TakeEnd, TaskTypes
<1>3. CASE FinalizeKilled \/ ReapAbandoned \/ Interrupt \/ CloseSink
  BY <1>3, DispatchKilled, DispatchAlone DEF FinalizeKilled, ReapAbandoned, Interrupt, CloseSink
<1>4. CASE BeginDispatch
  BY <1>4 DEF BeginDispatch, DispatchInv, DispatchOver, TaskTypes, TaskStates
<1>5. ASSUME NEW c \in Calls, ToolBegin(c) \/ ToolReturns(c) PROVE DispatchInv'
  <2>1. \A d \in Calls : tools'[d] = IF d = c THEN tools'[c] ELSE tools[d]
    BY <1>5 DEF ToolBegin, ToolReturns, TaskTypes
  <2>2. dispatch' = dispatch /\ queue' = queue /\ tools'[c] \in {"running", "done"}
    BY <1>5 DEF ToolBegin, ToolReturns, TaskTypes
  <2>3. dispatch = "running"
    BY <1>5 DEF ToolBegin, ToolReturns, DispatchInv, TaskStates, TaskTypes
  <2> QED
    BY <2>1, <2>2, <2>3 DEF DispatchInv, DispatchOver, TaskStates
<1>6. ASSUME NEW c \in Calls, ToolEmits(c) PROVE DispatchInv'
  <2>1. UNCHANGED <<tools, dispatch>> /\ queue' = Append(queue, "delta")
    BY <1>6 DEF ToolEmits
  <2>2. \A i \in 1..Len(queue') : queue'[i] = "none" => DispatchOver'
    BY <2>1, MoreInQueue DEF TaskTypes, DispatchOver
  <2> QED
    BY <2>1, <2>2 DEF DispatchInv
<1>7. ASSUME NEW c \in Calls, ToolCancelsItself(c) PROVE DispatchInv'
  <2>1. dispatch = "running" /\ dispatch' = "unwinding" /\ queue' = queue
    BY <1>7 DEF ToolCancelsItself, DispatchInv, TaskStates, TaskTypes
  <2>2. \A d \in Calls : tools'[d] = CASE d = c \/ tools[d] = "queued"  -> "cancelled"
                                     [] d # c /\ tools[d] = "running" -> "stopping"
                                     [] OTHER                         -> tools[d]
    BY <1>7 DEF ToolCancelsItself
  <2>3. \A d \in Calls : tools'[d] \in TaskStates(dispatch')
    BY <2>1, <2>2 DEF DispatchInv, TaskStates
  <2> QED
    BY <2>1, <2>3 DEF DispatchInv, DispatchOver
<1>8. ASSUME NEW c \in Calls, ToolStops(c) PROVE DispatchInv'
  <2>1. dispatch = "unwinding" /\ dispatch' = dispatch /\ queue' = queue
    BY <1>8 DEF ToolStops, DispatchInv, TaskStates, TaskTypes
  <2>2. \A d \in Calls : tools'[d] = IF d = c THEN "cancelled" ELSE tools[d]
    BY <1>8 DEF ToolStops, TaskTypes
  <2> QED
    BY <2>1, <2>2 DEF DispatchInv, DispatchOver, TaskStates
<1>9. CASE EndDispatch
  <2>1. tools' = tools /\ queue' = Append(queue, "none") /\ DispatchOver' /\ ~DispatchOver
    BY <1>9 DEF EndDispatch, DispatchOver
  <2>2. \A i \in 1..Len(queue') : queue'[i] = "none" => DispatchOver'
    BY <2>1, MoreInQueue DEF TaskTypes
  <2>3. \A c \in Calls : tools'[c] \in TaskStates(dispatch')
    BY <1>9 DEF EndDispatch, DispatchInv, ToolActive, TaskStates
  <2> QED
    BY <2>2, <2>3 DEF DispatchInv
<1>10. CASE UNCHANGED <<tools, dispatch, queue>>
  BY <1>10, DispatchAlone
<1> QED
  BY <1>1, <1>2, <1>3, <1>4, <1>5, <1>6, <1>7, <1>8, <1>9, <1>10
     DEF Next, RunStep, Fault, Host, ToolStep, ToolEnds, SinkStep, StreamNext, StreamText, StreamCall,
       StreamEnd, StreamEvent, StreamCut, StreamFails, StoreInput, Prepare, Conclude, Write,
       YieldResult, YieldTerminal, Proceed, Hook, AnswerMalformed, Settle, SettleCancelled,
       FinalizeBegin, GracePass, FinalizeCompleted, FinalizeDeferred, Reaped, Release, Pull,
       SinkDelivers, SinkDrops, InputFails, WriteFails, CancelLoop, CancelDispatch, Abandon,
       Preempt, Finished, vars, toolVars

\* The places of a dispatch, of the end of a run, and of what it stores.
LEMMA PlacesApart ==
  /\ Awaiting \cap (Ended \cup Saving \cup {"yielding", "input", "top", "streaming", "hook"}) = {}
  /\ Saving \cap (Ended \cup {"yielding", "input", "top", "streaming", "hook"}) = {}
BY DEF Awaiting, Ended, Saving

\* Every step leaves a dispatch with an owner.
LEMMA OwnerStep == ASSUME PlanInv, DispatchInv, OwnerInv, Next PROVE OwnerInv'
<1> USE DEF PlanInv
<1>0. /\ pc \in Places /\ plan.next \in {"again", "hook", "ended", "raised"}
      /\ dispatch \in {"none", "created", "running", "unwinding", "done", "cancelled"}
      /\ sink \in {"none", "active", "deferred", "closed", "delivered", "dropped"}
      /\ pc = "closing" => plan.next = "raised"
  BY DEF RunInv, RunTypes, TaskTypes, Plans
<1>1. CASE /\ UNCHANGED <<dispatch, sink, preempt>>
           /\ pc \in Awaiting <=> pc' \in Awaiting
           /\ pc' = "settle" => pc = "settle"
           /\ sink \notin {"none", "active"} =>
                pc' \in Ended \/ (pc' \in {"closing", "yielding"} /\ plan'.next = "raised")
  BY <1>1 DEF OwnerInv, DispatchOver
<1>2. CASE pc \in {"input", "top", "streaming", "writing", "hook"}
           /\ UNCHANGED <<dispatch, sink, preempt>>
           /\ pc' \in (Places \ Awaiting)
  <2>1. sink \in {"none", "active"}
    BY <1>0, <1>2 DEF OwnerInv, Ended
  <2> QED
    BY <1>1, <1>2, <2>1 DEF Awaiting
<1>3. CASE \/ StoreInput \/ InputFails \/ Prepare \/ StreamNext \/ Conclude \/ Hook
           \/ AnswerMalformed \/ CancelLoop
  <2>1. UNCHANGED <<dispatch, sink, preempt>>
    BY <1>3 DEF StoreInput, InputFails, Prepare, StreamNext, StreamText, StreamCall, StreamEnd,
       StreamEvent, StreamCut, StreamFails, Conclude, Hook, AnswerMalformed, CancelLoop,
       toolVars, sinkVars
  <2>2. pc \in {"input", "top", "streaming", "writing", "hook"}
    BY <1>3 DEF StoreInput, InputFails, Prepare, StreamNext, StreamText, StreamCall, StreamEnd,
       StreamEvent, StreamCut, StreamFails, Conclude, Hook, AnswerMalformed, CancelLoop, ResponseOver
  <2>3. pc' \in {"top", "raised", "streaming", "writing", "yielding"}
    <3>1. CASE StreamNext
      BY <3>1 DEF StreamNext, StreamText, StreamCall, StreamEnd, StreamEvent, StreamCut,
         StreamFails, Reporting
    <3>2. CASE StoreInput \/ InputFails \/ Prepare \/ Conclude \/ Hook \/ AnswerMalformed \/ CancelLoop
      BY <3>2 DEF StoreInput, InputFails, Prepare, Conclude, Hook, AnswerMalformed, CancelLoop,
         Storing, Unwind, Reporting, NextIteration
    <3> QED
      BY <1>3, <3>1, <3>2
  <2>4. pc' \in Places \ Awaiting
    BY <2>3 DEF Places, Ended, Awaiting
  <2> QED
    BY <1>2, <2>1, <2>2, <2>4
<1>4. CASE WriteFails \/ YieldResult \/ YieldTerminal \/ Proceed
  <2>1. pc \in Saving \cup {"yielding"} /\ UNCHANGED <<dispatch, sink, preempt>>
    BY <1>4 DEF WriteFails, YieldResult, YieldTerminal, Proceed, toolVars, sinkVars, Saving
  <2>2. pc' \in (Places \ Awaiting)
    BY <1>0, <1>4 DEF WriteFails, YieldResult, YieldTerminal, Proceed, NextIteration, Unwind, Reporting,
       Places, Awaiting, Ended
  <2>3. CASE sink \in {"none", "active"}
    <3>1. pc \notin Awaiting /\ pc' \notin Awaiting /\ pc' # "settle"
      BY <2>1, <2>2, PlacesApart DEF Awaiting
    <3> QED
      BY <1>1, <2>1, <2>3, <3>1
  <2>4. CASE sink \notin {"none", "active"}
    <3>1. pc \in {"closing", "yielding"} /\ plan.next = "raised"
      BY <2>1, <2>4 DEF OwnerInv, Saving, Ended
    <3>2. pc' = "raised" \/ (pc' = "yielding" /\ plan'.next = "raised")
      <4>1. CASE WriteFails
        BY <4>1 DEF WriteFails, Unwind, Reporting
      <4>2. CASE YieldResult
        <5>1. plan = [batch |-> plan.batch, report |-> plan.report, out |-> plan.out, next |-> plan.next]
          BY DEF RunInv, IsPlan
        <5>2. PICK r : plan' = [plan EXCEPT !.report = r]
          BY <4>2 DEF YieldResult
        <5>3. plan'.next = plan.next
          BY <5>1, <5>2
        <5> QED
          BY <3>1, <4>2, <5>3 DEF YieldResult
      <4>3. CASE YieldTerminal
        <5>1. plan = [batch |-> plan.batch, report |-> plan.report, out |-> plan.out, next |-> plan.next]
          BY DEF RunInv, IsPlan
        <5>2. PICK r : plan' = [plan EXCEPT !.out = r]
          BY <4>3 DEF YieldTerminal
        <5>3. plan'.next = plan.next
          BY <5>1, <5>2
        <5> QED
          BY <3>1, <4>3, <5>3 DEF YieldTerminal
      <4>4. CASE Proceed
        BY <3>1, <4>4 DEF Proceed
      <4> QED
        BY <1>4, <4>1, <4>2, <4>3, <4>4
    <3> QED
      BY <1>1, <2>1, <2>2, <2>4, <3>1, <3>2, PlacesApart DEF Awaiting, Ended
  <2> QED
    BY <2>3, <2>4
<1>5. CASE Write
  <2>1. pc \in Saving /\ UNCHANGED <<dispatch, preempt>>
    BY <1>5 DEF Write, toolVars, Saving
  <2>2. CASE Store = "sequential" /\ Len(plan.batch) > 1
    <3>1. plan = [batch |-> plan.batch, report |-> plan.report, out |-> plan.out, next |-> plan.next]
      BY DEF RunInv, IsPlan
    <3>2. PICK r : plan' = [plan EXCEPT !.batch = r] /\ UNCHANGED <<pc, sink>>
      BY <1>5, <2>2 DEF Write
    <3>3. plan'.next = plan.next
      BY <3>1, <3>2
    <3> QED
      BY <1>1, <2>1, <3>2, <3>3, PlacesApart DEF OwnerInv
  <2>3. CASE ~(Store = "sequential" /\ Len(plan.batch) > 1)
    <3>1. pc' = "yielding" /\ (pc = "closing" => plan'.next = "raised")
      <4>1. CASE pc = "closing" /\ sink = "dropped"
        BY <1>5, <2>3, <4>1 DEF Write, Unwind, Reporting
      <4>2. CASE ~(pc = "closing" /\ sink = "dropped")
        <5>1. plan = [batch |-> plan.batch, report |-> plan.report, out |-> plan.out, next |-> plan.next]
          BY DEF RunInv, IsPlan
        <5>2. plan' = [plan EXCEPT !.batch = << >>] /\ pc' = "yielding"
          BY <1>5, <2>3, <4>2 DEF Write
        <5>3. plan'.next = plan.next
          BY <5>1, <5>2
        <5> QED
          BY <1>0, <5>2, <5>3
      <4> QED
        BY <4>1, <4>2
    <3>2. sink' = sink \/ (sink = "deferred" /\ sink' = "closed")
      BY <1>5, <2>3 DEF Write
    <3>3. pc \notin Awaiting /\ pc' \notin Awaiting /\ pc \notin Ended
      BY <2>1, <3>1, PlacesApart
    <3>4. sink \notin {"none", "active"} => pc = "closing"
      BY <2>1, <3>3 DEF OwnerInv, Saving
    <3> QED
      BY <2>1, <3>1, <3>2, <3>3, <3>4 DEF OwnerInv, DispatchOver, Awaiting
  <2> QED
    BY <2>2, <2>3
<1>6. CASE StartDispatch
  BY <1>6 DEF StartDispatch, OwnerInv, Awaiting
<1>7. CASE TakeDelta \/ GracePass \/ CancelDispatch \/ SettleCancelled \/ FinalizeBegin
  <2>1. pc \in Awaiting /\ pc' \in Awaiting /\ (pc' = "settle" => pc = "settle")
        /\ UNCHANGED <<dispatch, sink, preempt>>
    BY <1>7 DEF TakeDelta, GracePass, CancelDispatch, SettleCancelled, FinalizeBegin, Awaiting,
       toolVars, sinkVars
  <2>2. sink \in {"none", "active"}
    BY <2>1 DEF OwnerInv
  <2> QED
    BY <1>1, <2>1, <2>2
<1>8. CASE TakeEnd
  <2>1. queue \in Seq({"delta", "none"}) /\ queue # << >> /\ Head(queue) = "none"
    BY <1>8 DEF TakeEnd, TaskTypes
  <2>2. 1 \in 1..Len(queue) /\ queue[1] = "none"
    BY <2>1
  <2>3. DispatchOver
    BY <2>2 DEF DispatchInv
  <2> QED
    BY <1>8, <2>3 DEF TakeEnd, sinkVars, OwnerInv, Awaiting, DispatchOver
<1>9. CASE Settle \/ FinalizeCompleted \/ Reaped
  <2>1. sink' = "none" /\ DispatchOver /\ UNCHANGED <<dispatch, preempt>> /\ pc' \in Saving
    BY <1>9 DEF Settle, FinalizeCompleted, Reaped, Closing, Storing, DispatchOver, toolVars, Saving
  <2> QED
    BY <2>1, PlacesApart DEF OwnerInv, DispatchOver, Awaiting, Saving
<1>10. CASE FinalizeDeferred
  <2>1. pc' = "closing" /\ plan'.next = "raised"
    BY <1>10 DEF FinalizeDeferred, Closing, Storing
  <2> QED
    BY <1>10, <2>1 DEF FinalizeDeferred, Decided, OwnerInv, Awaiting, toolVars
<1>11. CASE FinalizeKilled \/ ReapAbandoned
  <2>1. pc \in Awaiting /\ pc' \in {"reaping", "releasing"} /\ KillDispatch
        /\ UNCHANGED <<sink, preempt>>
    BY <1>11 DEF FinalizeKilled, ReapAbandoned, Decided, Awaiting, sinkVars
  <2>2. dispatch' # "none" /\ sink \in {"none", "active"}
    BY <2>1, KillOutcome DEF OwnerInv
  <2> QED
    BY <2>1, <2>2 DEF OwnerInv, Awaiting
<1>12. CASE Release
  BY <1>12 DEF Release, OwnerInv, Awaiting, Ended, toolVars, DispatchOver
<1>13. CASE BeginDispatch \/ EndDispatch
  BY <1>13 DEF BeginDispatch, EndDispatch, runVars, sinkVars, OwnerInv, DispatchOver
<1>14. ASSUME NEW c \in Calls, ToolBegin(c) \/ ToolEmits(c) \/ ToolEnds(c) \/ ToolStops(c)
       PROVE  OwnerInv'
  <2>1. UNCHANGED <<pc, plan, sink, preempt>> /\ (dispatch' = dispatch \/ dispatch' = "unwinding")
    BY <1>14 DEF ToolBegin, ToolEmits, ToolEnds, ToolReturns, ToolCancelsItself, ToolStops,
       runVars, sinkVars
  <2>2. CASE dispatch' = dispatch
    BY <1>1, <2>1, <2>2 DEF OwnerInv
  <2>3. CASE dispatch' # dispatch
    <3>1. tools[c] = "running" /\ dispatch' = "unwinding"
      BY <1>14, <2>1, <2>3 DEF ToolBegin, ToolEmits, ToolEnds, ToolReturns, ToolCancelsItself, ToolStops
    <3>2. dispatch = "running"
      BY <1>0, <3>1 DEF DispatchInv, TaskStates
    <3> QED
      BY <2>1, <3>1, <3>2 DEF OwnerInv, DispatchOver
  <2> QED
    BY <2>2, <2>3
<1>15. CASE Pull
  BY <1>1, <1>15 DEF Pull, toolVars, sinkVars, OwnerInv
<1>16. CASE Abandon
  BY <1>16 DEF Abandon, toolVars, sinkVars, OwnerInv, DispatchOver, Awaiting, Ended
<1>17. CASE Preempt
  BY <1>17 DEF Preempt, runVars, toolVars, OwnerInv, DispatchOver
<1>18. CASE Interrupt
  <2>1. /\ UNCHANGED <<pc, plan, sink>> /\ preempt' = FALSE
        /\ sink \in {"active", "deferred", "closed"}
    BY <1>18 DEF Interrupt, runVars
  <2>2. UNCHANGED dispatch \/ (sink # "active" /\ KillDispatch)
    BY <1>18 DEF Interrupt
  <2>3. CASE UNCHANGED dispatch
    BY <2>1, <2>3 DEF OwnerInv, DispatchOver
  <2>4. CASE sink # "active" /\ KillDispatch
    <3>1. dispatch' # "none" /\ pc \notin Awaiting /\ pc # "settle"
      BY <2>1, <2>4, KillOutcome DEF OwnerInv, Awaiting
    <3> QED
      BY <2>1, <2>4, <3>1 DEF OwnerInv
  <2> QED
    BY <2>2, <2>3, <2>4
<1>19. CASE CloseSink
  <2>1. pc \in Ended /\ sink' = "dropped" /\ UNCHANGED <<pc, plan, preempt>>
    BY <1>19 DEF CloseSink, runVars
  <2>2. dispatch # "none"
    BY <1>19 DEF CloseSink, OwnerInv
  <2>3. dispatch' \in {"unwinding", "done", "cancelled"}
    BY <1>19, <2>2, KillOutcome DEF CloseSink, DispatchOver
  <2>4. preempt => HasSink
    BY DEF OwnerInv
  <2>5. pc' \notin Awaiting /\ pc' \in Ended /\ pc' # "settle"
    BY <2>1, PlacesApart DEF Awaiting
  <2> QED
    BY <2>1, <2>3, <2>4, <2>5 DEF OwnerInv
<1>20. CASE SinkStep
  BY <1>20 DEF SinkStep, SinkDelivers, SinkDrops, runVars, toolVars, OwnerInv, DispatchOver, Awaiting, Ended
<1>21. CASE Finished
  BY <1>1, <1>21 DEF Finished, vars, OwnerInv
<1> QED
  BY <1>3, <1>4, <1>5, <1>6, <1>7, <1>8, <1>9, <1>10, <1>11, <1>12, <1>13, <1>14, <1>15, <1>16,
     <1>17, <1>18, <1>19, <1>20, <1>21
     DEF Next, RunStep, Fault, Host, ToolStep

\* The places where no tool of the run is left.
Quiet == {"input", "top", "streaming", "writing", "hook"}

\* Away from its dispatch, a run that goes on has no tool running.
LEMMA QuietTools ==
  ASSUME PlanInv, DispatchInv, OwnerInv,
         pc \in Quiet \/ (pc = "yielding" /\ plan.next # "raised")
  PROVE  \A c \in Calls : ~ToolActive(c)
<1>1. pc \notin Awaiting /\ pc \notin Ended /\ ~(pc \in {"closing", "yielding"} /\ plan.next = "raised")
  BY DEF Quiet, Awaiting, Ended
<1>2. sink = "none"
  BY <1>1 DEF OwnerInv
<1>3. dispatch = "none" \/ DispatchOver
  BY <1>1, <1>2 DEF OwnerInv
<1> QED
  BY <1>3 DEF DispatchInv, DispatchOver, TaskStates, ToolActive

\* A run that moves on within its round, and leaves its tools alone.
LEMMA RanMove ==
  ASSUME RanInv, UNCHANGED <<tools, ran, iteration, turn>>,
         pc' \in {"input", "top", "streaming"} => pc \in {"input", "top", "streaming"},
         pc' \in Awaiting => pc \in Awaiting
  PROVE  RanInv'
BY DEF RanInv, ToolActive, Runnable

\* A response that is still coming in: nothing has run in its round.
LEMMA RanTurn ==
  ASSUME PlanInv, DispatchInv, OwnerInv, RanInv, UNCHANGED <<tools, ran, iteration>>,
         pc \in {"top", "streaming"}, pc' \notin Awaiting
  PROVE  RanInv'
<1>1. \A c \in Calls : ~ToolActive(c) /\ <<iteration, c>> \notin ran
  BY QuietTools DEF Quiet, RanInv
<1>2. \A c \in Calls : ~ToolActive(c)'
  BY <1>1 DEF ToolActive
<1> QED
  BY <1>1, <1>2 DEF RanInv

\* A new round: nothing has run in it.
LEMMA RanRound ==
  ASSUME PlanInv, DispatchInv, OwnerInv, RanInv, UNCHANGED <<tools, ran>>,
         pc \in Quiet \/ (pc = "yielding" /\ plan.next # "raised"),
         pc' \notin Awaiting, iteration' = iteration + 1
  PROVE  RanInv'
<1>1. \A c \in Calls : ~ToolActive(c)
  BY QuietTools
<1>2. \A c \in Calls : ~ToolActive(c)'
  BY <1>1 DEF ToolActive
<1>3. \A r \in ran : r[1] <= iteration /\ r[1] \in Nat /\ iteration \in Nat
  BY AgentRunAssumption DEF RanInv, PlanInv, RunInv, RunTypes, TaskTypes, Rounds
<1>4. \A r \in ran' : r[1] <= iteration' /\ r[1] # iteration'
  BY <1>3
<1>5. \A c \in Calls : <<iteration', c>> \notin ran'
  BY <1>4
<1> QED
  BY <1>2, <1>4, <1>5 DEF RanInv

\* Cancelling the dispatch starts no tool.
LEMMA RanKilled ==
  ASSUME PlanInv, DispatchInv, RanInv, KillDispatch, UNCHANGED <<ran, iteration, turn>>,
         pc' \in {"input", "top", "streaming"} => pc \in {"input", "top", "streaming"},
         pc' \in Awaiting => pc \in Awaiting
  PROVE  RanInv'
<1>1. \A c \in Calls :
        /\ tools'[c] = "idle" <=> tools[c] = "idle"
        /\ ToolActive(c)' => ToolActive(c)
        /\ tools'[c] \in {"running", "stopping", "done"} =>
             tools[c] \in {"running", "stopping", "done"}
  BY KillOutcome DEF PlanInv
<1>2. \A c \in Calls : <<iteration', c>> \in ran' \/ ToolActive(c)' =>
        turn'.reason \in Vouching /\ c \in Runnable'
  BY <1>1 DEF RanInv, Runnable
<1>3. pc' \in Awaiting => \A c \in Calls :
        /\ c \in Runnable' => tools'[c] # "idle"
        /\ tools'[c] \in {"running", "stopping", "done"} => <<iteration', c>> \in ran'
  BY <1>1 DEF RanInv, Runnable
<1> QED
  BY <1>2, <1>3 DEF RanInv

\* The steps of a tool task.
LEMMA RanTool ==
  ASSUME PlanInv, DispatchInv, OwnerInv, RanInv, NEW c \in Calls,
         ToolBegin(c) \/ ToolEmits(c) \/ ToolEnds(c) \/ ToolStops(c)
  PROVE  RanInv'
<1> USE DEF PlanInv
<1>0. tools \in [Calls -> {"idle", "queued", "running", "stopping", "done", "cancelled"}]
      /\ iteration \in Nat
  BY AgentRunAssumption DEF TaskTypes, RunInv, RunTypes, Rounds
<1>1. UNCHANGED <<pc, iteration, turn>>
  BY DEF ToolBegin, ToolEmits, ToolEnds, ToolReturns, ToolCancelsItself, ToolStops, runVars
<1>2. CASE ToolEmits(c)
  BY <1>1, <1>2, RanMove DEF ToolEmits
<1>3. CASE ~ToolEmits(c)
  <2>1. ToolActive(c)
    BY <1>3 DEF ToolBegin, ToolEnds, ToolReturns, ToolCancelsItself, ToolStops, ToolActive
  <2>2. pc \notin {"input", "top", "streaming"} /\ turn.reason \in Vouching /\ c \in Runnable
    BY <2>1, QuietTools DEF Quiet, RanInv
  <2>3. \A d \in Calls :
          /\ tools'[d] = "idle" <=> tools[d] = "idle"
          /\ ToolActive(d)' => ToolActive(d)
    BY <1>0, <1>3 DEF ToolBegin, ToolEnds, ToolReturns, ToolCancelsItself, ToolStops, ToolActive
  <2>4. /\ ran \subseteq ran'
        /\ \A r \in ran' : r \in ran \/ (r = <<iteration, c>>)
        /\ \A d \in Calls : tools'[d] \in {"running", "stopping", "done"} =>
             tools[d] \in {"running", "stopping", "done"} \/ <<iteration, d>> \in ran'
    <3>1. CASE ToolBegin(c)
      BY <1>0, <3>1 DEF ToolBegin
    <3>2. CASE ToolEnds(c) \/ ToolStops(c)
      BY <1>0, <3>2 DEF ToolEnds, ToolReturns, ToolCancelsItself, ToolStops
    <3> QED
      BY <1>3, <3>1, <3>2
  <2>5. \A r \in ran' : r[1] <= iteration'
    BY <1>0, <1>1, <2>4 DEF RanInv
  <2>6. \A d \in Calls : <<iteration', d>> \in ran' \/ ToolActive(d)' =>
          turn'.reason \in Vouching /\ d \in Runnable'
    <3> SUFFICES ASSUME NEW d \in Calls, <<iteration', d>> \in ran' \/ ToolActive(d)'
                 PROVE  turn'.reason \in Vouching /\ d \in Runnable'
      OBVIOUS
    <3>1. <<iteration, d>> \in ran \/ ToolActive(d) \/ d = c
      BY <1>1, <2>3, <2>4
    <3> QED
      BY <1>1, <2>2, <3>1 DEF RanInv, Runnable
  <2>7. pc' \in Awaiting => \A d \in Calls :
          /\ d \in Runnable' => tools'[d] # "idle"
          /\ tools'[d] \in {"running", "stopping", "done"} => <<iteration', d>> \in ran'
    BY <1>1, <2>3, <2>4 DEF RanInv, Runnable
  <2> QED
    BY <1>1, <2>2, <2>5, <2>6, <2>7 DEF RanInv
<1> QED
  BY <1>2, <1>3

\* Every step keeps the tools to the calls that were asked for.
LEMMA RanStep == ASSUME PlanInv, DispatchInv, OwnerInv, RanInv, Next PROVE RanInv'
<1>1. CASE StoreInput
  <2>1. iteration' = iteration + 1
    BY <1>1 DEF StoreInput, PlanInv, RunInv
  <2> QED
    BY <1>1, <2>1, RanRound DEF StoreInput, Quiet, Awaiting, toolVars
<1>2. CASE Prepare \/ StreamNext
  <2>1. /\ UNCHANGED <<tools, ran, iteration>> /\ pc \in {"top", "streaming"}
        /\ pc' \in {"streaming", "yielding"}
    BY <1>2 DEF Prepare, StreamNext, StreamText, StreamCall, StreamEnd, StreamEvent,
       StreamCut, StreamFails, Reporting, toolVars
  <2> QED
    BY <2>1, RanTurn DEF Awaiting
<1>3. CASE InputFails \/ Conclude \/ AnswerMalformed \/ WriteFails \/ CancelLoop
           \/ YieldResult \/ YieldTerminal
  <2>1. UNCHANGED <<tools, ran, iteration, turn>> /\ pc' \in {"raised", "writing", "yielding"}
    BY <1>3 DEF InputFails, Conclude, AnswerMalformed, WriteFails, CancelLoop, YieldResult,
       YieldTerminal, Storing, Unwind, Reporting, toolVars
  <2> QED
    BY <2>1, RanMove DEF Awaiting
<1>4. CASE Write
  <2>1. UNCHANGED <<tools, ran, iteration, turn>> /\ pc \in {"writing", "closing"}
        /\ pc' \in {"writing", "closing", "yielding"}
    BY <1>4 DEF Write, Unwind, Reporting, toolVars
  <2> QED
    BY <2>1, RanMove DEF Awaiting
<1>5. CASE Proceed \/ Hook
  <2>1. UNCHANGED <<tools, ran, turn>> /\ pc \in {"yielding", "hook"}
    BY <1>5 DEF Proceed, Hook, toolVars
  <2>2. plan.next \in {"again", "hook", "ended", "raised"}
    BY DEF PlanInv, RunInv, RunTypes, Plans
  <2>3. CASE pc' = "top" /\ iteration' = iteration + 1
    <3>1. pc \in Quiet \/ (pc = "yielding" /\ plan.next # "raised")
      BY <1>5, <2>1, <2>3 DEF Proceed, Hook, Quiet
    <3> QED
      BY <2>1, <2>3, <3>1, RanRound DEF Awaiting
  <2>4. CASE iteration' = iteration /\ pc' \in {"yielding", "hook", "ended", "raised"}
    BY <2>1, <2>4, RanMove DEF Awaiting
  <2>5. \/ pc' = "top" /\ iteration' = iteration + 1
        \/ iteration' = iteration /\ pc' \in {"yielding", "hook", "ended", "raised"}
    BY <1>5, <2>2 DEF Proceed, Hook, NextIteration, Reporting
  <2> QED
    BY <2>3, <2>4, <2>5
<1>6. CASE StartDispatch
  <2>1. pc = "streaming" /\ pc' = "dispatching" /\ UNCHANGED <<ran, iteration, turn>>
        /\ turn.reason \in Vouching
        /\ tools' = [c \in Calls |-> IF c \in Runnable THEN "queued" ELSE "idle"]
    BY <1>6 DEF StartDispatch, ResponseOver
  <2>2. \A c \in Calls : <<iteration, c>> \notin ran
    BY <2>1 DEF RanInv
  <2>3. \A c \in Calls : tools'[c] = IF c \in Runnable THEN "queued" ELSE "idle"
    BY <2>1
  <2>4. Runnable' = Runnable
    BY <2>1 DEF Runnable
  <2> QED
    BY <2>1, <2>2, <2>3, <2>4 DEF RanInv, ToolActive
<1>7. CASE TakeDelta \/ TakeEnd \/ Settle \/ SettleCancelled \/ FinalizeBegin \/ GracePass
           \/ FinalizeCompleted \/ FinalizeDeferred \/ Reaped \/ Release \/ CancelDispatch
  <2>1. UNCHANGED <<tools, ran, iteration, turn>> /\ pc \in Awaiting
        /\ pc' \notin {"input", "top", "streaming"}
    BY <1>7 DEF TakeDelta, TakeEnd, Settle, SettleCancelled, FinalizeBegin, GracePass,
       FinalizeCompleted, FinalizeDeferred, Reaped, Release, CancelDispatch, Decided, Closing,
       Storing, Awaiting, toolVars
  <2> QED
    BY <2>1, RanMove
<1>8. CASE FinalizeKilled \/ ReapAbandoned
  <2>1. KillDispatch /\ UNCHANGED <<ran, iteration, turn>> /\ pc \in Awaiting
        /\ pc' \in {"reaping", "releasing"}
    BY <1>8 DEF FinalizeKilled, ReapAbandoned, Decided, Awaiting
  <2> QED
    BY <2>1, RanKilled
<1>9. CASE Interrupt \/ CloseSink
  <2>1. UNCHANGED <<pc, ran, iteration, turn>> /\ (KillDispatch \/ UNCHANGED tools)
    BY <1>9 DEF Interrupt, CloseSink, runVars
  <2> QED
    BY <2>1, RanKilled, RanMove
<1>10. CASE Abandon
  <2>1. UNCHANGED <<tools, ran, iteration, turn>>
        /\ (pc' = "closed" \/ (pc = "dispatching" /\ pc' = "abandoned"))
    BY <1>10 DEF Abandon, toolVars
  <2> QED
    BY <2>1, RanMove DEF Awaiting
<1>11. CASE BeginDispatch \/ EndDispatch \/ Pull \/ Preempt \/ SinkStep \/ Finished
  <2>1. UNCHANGED <<pc, tools, ran, iteration, turn>>
    BY <1>11 DEF BeginDispatch, EndDispatch, Pull, Preempt, SinkStep, SinkDelivers, SinkDrops,
       Finished, runVars, toolVars, vars
  <2> QED
    BY <2>1, RanMove
<1>12. CASE ToolStep
  BY <1>12, RanTool DEF ToolStep
<1> QED
  BY <1>1, <1>2, <1>3, <1>4, <1>5, <1>6, <1>7, <1>8, <1>9, <1>10, <1>11, <1>12
     DEF Next, RunStep, Fault, Host

\* Before anything is dispatched.
LEMMA ToolsInit == Init => ToolsInv
<1> SUFFICES ASSUME Init PROVE ToolsInv
  OBVIOUS
<1>1. DispatchInv
  BY DEF Init, DispatchInv, TaskStates
<1>2. OwnerInv
  BY DEF Init, OwnerInv, Awaiting
<1>3. RanInv
  BY DEF Init, RanInv, ToolActive, Awaiting
<1> QED
  BY <1>1, <1>2, <1>3 DEF ToolsInv

\* The second layer of the invariant.
LEMMA ToolsStep == ASSUME PlanInv, ToolsInv, [Next]_vars PROVE ToolsInv'
<1>1. CASE Next
  BY <1>1, DispatchStep, OwnerStep, RanStep DEF ToolsInv
<1>2. CASE UNCHANGED vars
  BY <1>2 DEF vars, ToolsInv, DispatchInv, OwnerInv, RanInv, DispatchOver, ToolActive, Runnable
<1> QED
  BY <1>1, <1>2

\* No tool but one that was asked for is running, and none outlives its run
\* unless the sink has it.
LEMMA ToolsAreKept == ASSUME PlanInv, ToolsInv PROVE ToolsKeepToTheirRun
<1>1. \A c \in Calls : <<iteration, c>> \in ran => turn.reason \in Vouching /\ c \in Runnable
  BY DEF ToolsInv, RanInv
<1>2. ASSUME pc \in Ended, NEW c \in Calls, ToolActive(c)
      PROVE  sink \in {"deferred", "closed"} \/ (sink = "dropped" /\ tools[c] = "stopping")
  <2>1. pc \notin Awaiting
    BY <1>2, PlacesApart
  <2>2. dispatch \notin {"none", "done", "cancelled"} /\ tools[c] \in TaskStates(dispatch)
    BY <1>2 DEF ToolsInv, DispatchInv, TaskStates, ToolActive
  <2>3. sink \notin {"none", "active", "delivered"}
    BY <2>1, <2>2 DEF ToolsInv, OwnerInv, DispatchOver
  <2>4. sink = "dropped" => tools[c] = "stopping"
    BY <1>2, <2>2 DEF ToolsInv, OwnerInv, TaskStates, ToolActive
  <2> QED
    BY <2>3, <2>4 DEF PlanInv, TaskTypes
<1> QED
  BY <1>1, <1>2 DEF ToolsKeepToTheirRun

\* A handler runs only for a call that its response vouches for and whose
\* arguments parsed, and when the run is over, however it ended, no task of
\* its dispatch is left that the sink has not taken over (agent.py,
\* Agent._finalize_interrupted_dispatch).
THEOREM ToolsKeep == Spec => []ToolsKeepToTheirRun
<1>1. Init => PlanInv /\ ToolsInv
  BY PlanInit, ToolsInit
<1>2. PlanInv /\ ToolsInv /\ [Next]_vars => (PlanInv /\ ToolsInv)'
  BY PlanStep, ToolsStep
<1>3. PlanInv /\ ToolsInv => ToolsKeepToTheirRun
  BY ToolsAreKept
<1> QED
  BY <1>1, <1>2, <1>3, PTL DEF Spec

\* A tool that the host asked to keep is cancelled only where the code says
\* so: who cancels a running tool of a preempted dispatch is its caller's
\* walking away, an interruption, the end of the session or a sibling.
LEMMA SparingStep ==
  ASSUME PlanInv, ToolsInv, [Next]_vars, NEW c \in Calls,
         tools[c] = "running", tools'[c] = "stopping", preempt
  PROVE  \/ pc = "abandoned"
         \/ ~preempt'
         \/ sink # "dropped" /\ sink' = "dropped"
         \/ \E d \in Calls : tools[d] = "running" /\ tools'[d] = "cancelled"
<1>0. HasSink /\ tools \in [Calls -> {"idle", "queued", "running", "stopping", "done", "cancelled"}]
  BY DEF ToolsInv, OwnerInv, PlanInv, TaskTypes
<1>1. CASE FinalizeKilled
  BY <1>0, <1>1 DEF FinalizeKilled, Deferring
<1>2. CASE ReapAbandoned
  BY <1>2 DEF ReapAbandoned
<1>3. CASE Interrupt
  BY <1>3 DEF Interrupt
<1>4. CASE CloseSink
  BY <1>4 DEF CloseSink
<1>5. ASSUME NEW d \in Calls, ToolCancelsItself(d)
      PROVE  \E e \in Calls : tools[e] = "running" /\ tools'[e] = "cancelled"
  BY <1>5 DEF ToolCancelsItself
<1>6. ASSUME NEW d \in Calls, ToolBegin(d) \/ ToolReturns(d) \/ ToolStops(d) \/ ToolEmits(d)
      PROVE  FALSE
  BY <1>0, <1>6 DEF ToolBegin, ToolReturns, ToolStops, ToolEmits
<1>7. CASE StartDispatch
  BY <1>7 DEF StartDispatch
<1>8. tools' # tools
  OBVIOUS
<1> QED
  BY <1>1, <1>2, <1>3, <1>4, <1>5, <1>6, <1>7, <1>8
     DEF Next, RunStep, Fault, Host, ToolStep, ToolEnds, SinkStep, StreamNext, StreamText, StreamCall,
       StreamEnd, StreamEvent, StreamCut, StreamFails, StoreInput, Prepare, Conclude, Write,
       YieldResult, YieldTerminal, Proceed, Hook, AnswerMalformed, TakeDelta, TakeEnd, Settle,
       SettleCancelled, FinalizeBegin, GracePass, FinalizeCompleted, FinalizeDeferred, Reaped,
       Release, Pull, SinkDelivers, SinkDrops, InputFails, WriteFails, CancelLoop, CancelDispatch,
       Abandon, Preempt, BeginDispatch, EndDispatch, Finished, vars, toolVars

\* Preemption spares the tools: the finalizer of a preempted turn never
\* cancels its dispatch (agent.py, Agent._finalize_interrupted_dispatch).
THEOREM PreemptionSpares == Spec => PreemptionSparesTools
<1>1. Init => PlanInv /\ ToolsInv
  BY PlanInit, ToolsInit
<1>2. PlanInv /\ ToolsInv /\ [Next]_vars => (PlanInv /\ ToolsInv)'
  BY PlanStep, ToolsStep
<1>3. PlanInv /\ ToolsInv /\ [Next]_vars =>
        [\A c \in Calls : tools[c] = "running" /\ tools'[c] = "stopping" /\ preempt
           => \/ pc = "abandoned"
              \/ ~preempt'
              \/ sink # "dropped" /\ sink' = "dropped"
              \/ \E d \in Calls : tools[d] = "running" /\ tools'[d] = "cancelled"]_vars
  BY SparingStep
<1> QED
  BY <1>1, <1>2, <1>3, PTL DEF Spec, PreemptionSparesTools

-----------------------------------------------------------------------------
(* What a step stores.                                                     *)

\* A history keeps its pairs when a message is added that may follow its last.
LEMMA PairedAppend ==
  ASSUME NEW h \in Seq(Messages), NEW m \in Messages, Paired(h),
         Orphan(h) => m.kind = "reply" /\ DOMAIN m.of = h[Len(h)].calls
  PROVE  Paired(Append(h, m)) /\ (Orphan(Append(h, m)) <=> m.kind = "request")
<1> DEFINE g == Append(h, m)
<1>1. Len(g) = Len(h) + 1 /\ g[Len(h) + 1] = m /\ Len(h) \in Nat
      /\ \A i \in 1..Len(h) : g[i] = h[i]
  OBVIOUS
<1>2. ASSUME NEW i \in 1..(Len(g) - 1), g[i].kind = "request"
      PROVE  g[i + 1].kind = "reply" /\ DOMAIN g[i + 1].of = g[i].calls
  <2> HIDE DEF g
  <2>1. CASE i = Len(h)
    <3>1. g[i] = h[Len(h)] /\ g[i + 1] = m /\ h # << >>
      BY <1>1, <2>1
    <3>2. Orphan(h)
      BY <1>2, <3>1 DEF Orphan
    <3> QED
      BY <3>1, <3>2
  <2>2. CASE i # Len(h)
    <3>1. i \in 1..(Len(h) - 1) /\ g[i] = h[i] /\ g[i + 1] = h[i + 1]
      BY <1>1, <2>2
    <3> QED
      BY <1>2, <3>1 DEF Paired
  <2> QED
    BY <2>1, <2>2
<1>3. Orphan(g) <=> m.kind = "request"
  <2>1. g # << >>
    BY <1>1
  <2> HIDE DEF g
  <2> QED BY <1>1, <2>1 DEF Orphan
<1> QED
  BY <1>2, <1>3 DEF Paired

\* What a step of the store adds to the history: nothing, an answer, a whole
\* exchange, or, message by message, a part of one.
Stores(at, batch, report, next) ==
  \/ /\ history' = history
     /\ at = "yielding" /\ next = "raised" /\ report = {} /\ UNCHANGED sink
  \/ /\ plan.batch = <<Answer>>
     /\ history' = Append(history, Answer) /\ at = "yielding"
  \/ /\ plan.batch = ExchangeOf(Results)
     /\ history' = Append(history, Request)
     /\ \/ at = pc /\ batch = <<Reply(Results)>> /\ UNCHANGED sink
        \/ at = "yielding" /\ next = "raised" /\ report = {} /\ UNCHANGED sink
  \/ /\ plan.batch = ExchangeOf(Results)
     /\ history' = Append(Append(history, Request), Reply(Results))
     /\ at = "yielding"
  \/ /\ plan.batch = <<Reply(Results)>> /\ plan.batch # <<Answer>>
     /\ history' = Append(history, Reply(Results)) /\ at = "yielding"

\* What may be stored, message by message.
LEMMA BatchParts ==
  ASSUME RunInv, pc \in Saving
  PROVE  \/ plan.batch = <<Answer>>
         \/ plan.batch = ExchangeOf(Results) /\ Results \in [turn.calls -> Outcomes]
         \/ /\ plan.batch = <<Reply(Results)>> /\ Results \in [turn.calls -> Outcomes]
            /\ plan.batch # <<Answer>>
BY DEF RunInv, BatchOK

\* The prefixes of a batch of at most two messages.
LEMMA Prefixes ==
  ASSUME NEW s \in Seq(Messages), NEW n \in 0..Len(s), Len(s) <= 2
  PROVE  SubSeq(s, 1, n) \in {<< >>, <<s[1]>>, s}
<1>1. CASE n = 0
  BY <1>1
<1>2. CASE n = Len(s)
  <2> DEFINE p == SubSeq(s, 1, n)
  <2>1. p \in Seq(Messages) /\ Len(p) = Len(s) /\ \A i \in 1..Len(p) : p[i] = s[i]
    BY <1>2
  <2> HIDE DEF p
  <2>2. p = s
    BY <2>1, SeqEqual
  <2> QED
    BY <2>2 DEF p
<1>3. CASE n = 1 /\ Len(s) = 2
  <2> DEFINE p == SubSeq(s, 1, n)
             q == <<s[1]>>
  <2>1. p \in Seq(Messages) /\ Len(p) = 1 /\ p[1] = s[1]
    BY <1>3
  <2>2. q \in Seq(Messages) /\ Len(q) = 1 /\ q[1] = s[1]
    BY <1>3
  <2> HIDE DEF p, q
  <2>3. p = q
    BY <2>1, <2>2, SeqEqual
  <2> QED
    BY <2>3 DEF p, q
<1>4. n = 0 \/ n = Len(s) \/ (n = 1 /\ Len(s) = 2)
  <2>1. Len(s) \in Nat /\ n \in Nat /\ n <= Len(s) /\ Len(s) <= 2
    OBVIOUS
  <2>2. \A k, m \in Nat : m <= k /\ k <= 2 => m = 0 \/ m = k \/ (m = 1 /\ k = 2)
    OBVIOUS
  <2> QED
    BY <2>1, <2>2, Zenon
<1> QED
  BY <1>1, <1>2, <1>3, <1>4

\* Adding one message, or two.
LEMMA SeqAdds ==
  ASSUME NEW h \in Seq(Messages), NEW a, NEW b
  PROVE  /\ h \o << >> = h
         /\ h \o <<a>> = Append(h, a)
         /\ a \in Messages /\ b \in Messages => h \o <<a, b>> = Append(Append(h, a), b)
OBVIOUS

\* A part of a batch of one or two messages.
LEMMA PartOf ==
  ASSUME NEW b \in Seq(Messages), NEW stored \in StoredBy(b), NEW x, NEW y,
         b = <<x>> \/ b = <<x, y>>
  PROVE  stored \in {<< >>, <<x>>, b}
<1>1. Len(b) <= 2 /\ b[1] = x
  <2>1. \A p : Len(<<p>>) = 1 /\ <<p>>[1] = p
    OBVIOUS
  <2>2. \A p, q : Len(<<p, q>>) = 2 /\ <<p, q>>[1] = p
    OBVIOUS
  <2>3. CASE b = <<x>>
    BY <2>1, <2>3
  <2>4. CASE b = <<x, y>>
    BY <2>2, <2>4
  <2> QED
    BY <2>3, <2>4
<1>2. CASE Store = "sequential"
  <2>1. PICK n \in 0..Len(b) : stored = SubSeq(b, 1, n)
    BY <1>2 DEF StoredBy
  <2> QED
    BY <1>1, <2>1, Prefixes
<1>3. CASE Store # "sequential"
  BY <1>3 DEF StoredBy
<1> QED
  BY <1>2, <1>3

\* A write that is cancelled or fails has stored a part of what it was to store.
LEMMA PartStored ==
  ASSUME RunInv, pc \in Saving, NEW stored \in StoredBy(plan.batch),
         history' = history \o stored, UNCHANGED sink
  PROVE  Stores("yielding", << >>, {}, "raised")
<1>0. /\ history \in Seq(Messages) /\ iteration \in Rounds /\ turn \in Turns
      /\ plan.batch \in Seq(Messages)
  BY DEF RunInv, RunTypes, Plans
<1>1. CASE plan.batch = <<Answer>>
  <2>1. stored = << >> \/ stored = <<Answer>>
    BY <1>0, <1>1, PartOf
  <2> QED
    BY <1>0, <1>1, <2>1, SeqAdds DEF Stores
<1>2. CASE plan.batch = ExchangeOf(Results) /\ Results \in [turn.calls -> Outcomes]
  <2>1. Request \in Messages /\ Reply(Results) \in Messages
    BY <1>0, <1>2, BatchTyped
  <2>2. stored \in {<< >>, <<Request>>, <<Request, Reply(Results)>>}
    <3>1. plan.batch = <<Request, Reply(Results)>>
      BY <1>2 DEF ExchangeOf
    <3> QED
      BY <1>0, <3>1, PartOf
  <2> QED
    <3>1. \/ history' = history
          \/ history' = Append(history, Request)
          \/ history' = Append(Append(history, Request), Reply(Results))
      <4>1. CASE stored = << >>
        BY <1>0, <4>1, SeqAdds
      <4>2. CASE stored = <<Request>>
        BY <1>0, <4>2, SeqAdds
      <4>3. CASE stored = <<Request, Reply(Results)>>
        BY <1>0, <2>1, <4>3, SeqAdds
      <4> QED
        BY <2>2, <4>1, <4>2, <4>3
    <3>2. UNCHANGED sink
      OBVIOUS
    <3>3. CASE history' = history
      BY <3>2, <3>3 DEF Stores
    <3>4. CASE history' = Append(history, Request)
      BY <1>2, <3>2, <3>4 DEF Stores
    <3>5. CASE history' = Append(Append(history, Request), Reply(Results))
      BY <1>2, <3>5 DEF Stores
    <3> QED
      BY <3>1, <3>3, <3>4, <3>5
<1>3. CASE plan.batch = <<Reply(Results)>> /\ plan.batch # <<Answer>>
  <2>1. stored = << >> \/ stored = <<Reply(Results)>>
    BY <1>0, <1>3, PartOf
  <2> QED
    BY <1>0, <1>3, <2>1, SeqAdds DEF Stores
<1> QED
  BY <1>1, <1>2, <1>3, BatchParts

\* So has one that is done.
LEMMA WholeStored ==
  ASSUME RunInv, Write
  PROVE  pc \in Saving /\ Stores(pc', plan'.batch, plan'.report, plan'.next)
<1>0. history \in Seq(Messages) /\ iteration \in Rounds /\ turn \in Turns /\ pc \in Saving
  BY DEF RunInv, RunTypes, Write, Saving
<1>1. plan = [batch |-> plan.batch, report |-> plan.report, out |-> plan.out, next |-> plan.next]
  BY DEF RunInv, IsPlan
<1>2. \A a, b : Head(<<a, b>>) = a /\ Tail(<<a, b>>) = <<b>>
  OBVIOUS
<1>3. CASE Store = "sequential" /\ Len(plan.batch) > 1
  <2>1. plan.batch = <<Request, Reply(Results)>> /\ plan.batch = ExchangeOf(Results)
    <3>1. \A m : plan.batch = <<m>> => Len(plan.batch) = 1
      OBVIOUS
    <3>2. plan.batch # <<Answer>> /\ plan.batch # <<Reply(Results)>>
      <4>1. Len(<<Answer>>) = 1 /\ Len(<<Reply(Results)>>) = 1 /\ ~(1 > 1)
        OBVIOUS
      <4>2. Len(plan.batch) > 1
        BY <1>3
      <4> QED
        BY <4>1, <4>2, Zenon
    <3> QED
      BY <1>0, <3>2, BatchParts DEF ExchangeOf
  <2>2. history' = Append(history, Request) /\ pc' = pc /\ UNCHANGED sink
    BY <1>2, <1>3, <2>1 DEF Write
  <2>3. plan' = [plan EXCEPT !.batch = <<Reply(Results)>>]
    BY <1>2, <1>3, <2>1 DEF Write
  <2>4. plan'.batch = <<Reply(Results)>>
    BY <1>1, <2>3
  <2> QED
    BY <1>0, <2>1, <2>2, <2>4 DEF Stores
<1>4. CASE ~(Store = "sequential" /\ Len(plan.batch) > 1)
  <2>1. history' = history \o plan.batch /\ pc' = "yielding"
    BY <1>4 DEF Write, Unwind, Reporting
  <2>2. CASE plan.batch = <<Answer>>
    BY <1>0, <2>1, <2>2, SeqAdds DEF Stores
  <2>3. CASE plan.batch = ExchangeOf(Results) /\ Results \in [turn.calls -> Outcomes]
    <3>1. Request \in Messages /\ Reply(Results) \in Messages
      BY <1>0, <2>3, BatchTyped
    <3>2. history' = Append(Append(history, Request), Reply(Results))
      BY <1>0, <2>1, <2>3, <3>1, SeqAdds DEF ExchangeOf
    <3> QED
      BY <1>0, <2>1, <2>3, <3>2 DEF Stores
  <2>4. CASE plan.batch = <<Reply(Results)>> /\ plan.batch # <<Answer>>
    BY <1>0, <2>1, <2>4, SeqAdds DEF Stores
  <2> QED
    BY <1>0, <2>2, <2>3, <2>4, BatchParts
<1> QED
  BY <1>0, <1>3, <1>4

\* What is to be told afterwards, unless the run is to raise.
Carries ==
  /\ plan'.report = plan.report /\ plan'.out = plan.out /\ plan'.next = plan.next
  /\ sink' = sink \/ (pc = "closing" /\ pc' = "yielding" /\ sink = "deferred" /\ sink' = "closed")

\* The steps of the store, and what they leave alone.
StoreStep ==
  /\ pc \in Saving
  /\ Stores(pc', plan'.batch, plan'.report, plan'.next)
  /\ Carries \/ (Unwind /\ UNCHANGED sink)
  /\ UNCHANGED <<iteration, turn, emitted, tools, ran>>

\* The steps that write, fail to or are cut off while writing are store steps.
LEMMA StoreSteps ==
  ASSUME RunInv, OwnerInv, Write \/ WriteFails \/ (CancelLoop /\ pc = "writing")
  PROVE  StoreStep
<1>1. CASE Write
  <2>1. plan = [batch |-> plan.batch, report |-> plan.report, out |-> plan.out, next |-> plan.next]
        /\ (pc = "closing" => plan.next = "raised")
    BY DEF RunInv, IsPlan
  <2>2. CASE Unwind /\ UNCHANGED sink
    BY <1>1, <2>2, WholeStored DEF StoreStep, Write, toolVars
  <2>3. ASSUME NEW b, plan' = [plan EXCEPT !.batch = b],
               sink' = sink \/ (pc' = "yielding" /\ sink = "deferred" /\ sink' = "closed" /\ pc = "closing")
        PROVE  StoreStep
    <3>1. plan'.report = plan.report /\ plan'.out = plan.out /\ plan'.next = plan.next
      BY <2>1, <2>3
    <3> QED
      BY <1>1, <2>3, <3>1, WholeStored DEF StoreStep, Carries, Write, toolVars
  <2>4. CASE Store = "sequential" /\ Len(plan.batch) > 1
    BY <1>1, <2>3, <2>4 DEF Write
  <2>5. CASE ~(Store = "sequential" /\ Len(plan.batch) > 1) /\ ~(pc = "closing" /\ sink = "dropped")
    <3>1. plan' = [plan EXCEPT !.batch = << >>] /\ pc' = "yielding"
          /\ sink' = IF sink = "deferred" THEN "closed" ELSE sink
      BY <1>1, <2>5 DEF Write
    <3>2. pc = "writing" => sink # "deferred"
      BY DEF OwnerInv, Ended
    <3> QED
      BY <1>1, <2>3, <3>1, <3>2 DEF Write
  <2> QED
    BY <1>1, <2>2, <2>4, <2>5 DEF Write
<1>2. CASE WriteFails \/ (CancelLoop /\ pc = "writing")
  <2>1. pc \in Saving /\ UNCHANGED <<iteration, turn, emitted, tools, ran, sink>>
    BY <1>2 DEF WriteFails, CancelLoop, Saving, toolVars, sinkVars
  <2>2. pc' = "yielding" /\ plan'.batch = << >> /\ plan'.report = {} /\ plan'.next = "raised" /\ Unwind
    BY <1>2 DEF WriteFails, CancelLoop, Unwind, Reporting
  <2>3. PICK stored \in StoredBy(plan.batch) : history' = history \o stored
    BY <1>2 DEF WriteFails, CancelLoop
  <2>4. Stores("yielding", << >>, {}, "raised")
    BY <2>1, <2>3, PartStored
  <2> QED
    BY <2>1, <2>2, <2>4 DEF StoreStep
<1> QED
  BY <1>1, <1>2

\* The other steps that add to the history add the input or a notice.
PlainStored ==
  /\ pc \in {"input", "top"} /\ pc' \notin Saving
  /\ history' \in {Append(history, Input), Append(history, Notice)}

\* The steps that decide what to store.
Decides ==
  /\ Conclude \/ AnswerMalformed \/ Settle \/ FinalizeCompleted \/ FinalizeDeferred \/ Reaped
  /\ history' = history /\ pc \in Awaiting \cup {"streaming"} /\ pc' \in Saving

\* The steps that neither store nor decide to: a run that is to raise raises.
Goes ==
  /\ history' = history
  /\ pc \notin Saving \cup {"raised", "closed"} /\ pc' \notin Saving
  /\ pc = "yielding" /\ plan.next = "raised" =>
       pc' \in {"raised", "closed"} \/ (pc' = "yielding" /\ plan'.next = "raised")

\* All that a step may do to the history.
LEMMA StoringSteps ==
  ASSUME RunInv, OwnerInv, Next
  PROVE  StoreStep \/ PlainStored \/ Decides \/ Goes \/ UNCHANGED <<runVars, history>>
<1>1. CASE Write \/ WriteFails \/ (CancelLoop /\ pc = "writing")
  BY <1>1, StoreSteps
<1>2. CASE StoreInput \/ InputFails \/ Prepare \/ (CancelLoop /\ pc = "top")
  BY <1>2 DEF StoreInput, InputFails, Prepare, CancelLoop, Unwind, Reporting, PlainStored, Goes, Saving
<1>3. CASE CancelLoop /\ pc \notin {"writing", "top"}
  BY <1>3 DEF CancelLoop, Unwind, Reporting, Goes, Saving
<1>4. CASE StreamNext
  BY <1>4 DEF StreamNext, StreamText, StreamCall, StreamEnd, StreamEvent,
     StreamCut, StreamFails, Reporting, Goes, Saving
<1>5. CASE Conclude \/ AnswerMalformed \/ Settle \/ FinalizeCompleted \/ FinalizeDeferred \/ Reaped
  BY <1>5 DEF Conclude, ResponseOver, AnswerMalformed, Settle, FinalizeCompleted,
     FinalizeDeferred, Reaped, Decided, Closing, Storing, Decides, Awaiting, Saving
<1>6. CASE YieldResult \/ YieldTerminal \/ Proceed \/ Hook
  <2>1. plan.next \in {"again", "hook", "ended", "raised"}
        /\ plan = [batch |-> plan.batch, report |-> plan.report, out |-> plan.out, next |-> plan.next]
    BY DEF RunInv, RunTypes, Plans, IsPlan
  <2>2. CASE YieldResult
    <3>1. PICK x : plan' = [plan EXCEPT !.report = x]
      BY <2>2 DEF YieldResult
    <3>2. plan'.next = plan.next
      BY <2>1, <3>1
    <3> QED
      BY <2>2, <3>2 DEF YieldResult, Goes, Saving
  <2>3. CASE YieldTerminal
    <3>1. PICK x : plan' = [plan EXCEPT !.out = x]
      BY <2>3 DEF YieldTerminal
    <3>2. plan'.next = plan.next
      BY <2>1, <3>1
    <3> QED
      BY <2>3, <3>2 DEF YieldTerminal, Goes, Saving
  <2>4. CASE Proceed \/ Hook
    BY <2>1, <2>4 DEF Proceed, Hook, NextIteration, Reporting, Goes, Saving
  <2> QED
    BY <1>6, <2>2, <2>3, <2>4
<1>7. CASE StartDispatch \/ TakeDelta \/ TakeEnd \/ SettleCancelled \/ FinalizeBegin \/ GracePass
           \/ FinalizeKilled \/ ReapAbandoned \/ Release \/ CancelDispatch
  BY <1>7 DEF StartDispatch, ResponseOver, TakeDelta, TakeEnd, SettleCancelled, FinalizeBegin, GracePass,
     FinalizeKilled, ReapAbandoned, Release, CancelDispatch, Decided, Goes, Saving
<1>8. CASE Pull \/ Abandon
  BY <1>8 DEF Pull, Abandon, Goes, Saving
<1>9. CASE BeginDispatch \/ ToolStep \/ EndDispatch \/ SinkStep \/ Preempt \/ Interrupt
          \/ CloseSink \/ Finished
  BY <1>9 DEF BeginDispatch, ToolStep, ToolBegin, ToolEmits, ToolEnds, ToolReturns,
     ToolCancelsItself, ToolStops, EndDispatch, SinkStep, SinkDelivers, SinkDrops,
     Preempt, Interrupt, CloseSink, Finished, vars, runVars
<1> QED
  BY <1>1, <1>2, <1>3, <1>4, <1>5, <1>6, <1>7, <1>8, <1>9
     DEF Next, RunStep, Fault, Host

-----------------------------------------------------------------------------
(* Every step keeps the history sound.                                     *)

\* The kinds of the messages a run stores.
LEMMA Kinds ==
  /\ Input.kind = "input" /\ Notice.kind = "notice" /\ Answer.kind = "answer"
  /\ Request.kind = "request" /\ Request.calls = turn.calls
  /\ \A f : Reply(f).kind = "reply" /\ Reply(f).of = f /\ Reply(f).at = iteration
BY DEF Input, Notice, Answer, Request, Reply

\* One message is not another, nor two.
LEMMA BatchKinds ==
  /\ \A f : <<Answer>> # <<Reply(f)>>
  /\ \A f, g : ExchangeOf(f) # <<Reply(g)>> /\ ExchangeOf(f) # <<Answer>>
<1>1. \A x, y : <<x>> = <<y>> => x = y
  OBVIOUS
<1>2. \A x, y, z : <<x, y>> # <<z>>
  OBVIOUS
<1>3. \A f : Answer # Reply(f)
  <2>1. \A f : Reply(f).kind # Answer.kind
    BY Kinds
  <2> QED
    BY <2>1
<1> QED
  BY <1>1, <1>2, <1>3 DEF ExchangeOf

\* What is to be stored keeps its results when its first message is stored.
LEMMA ResultsKept ==
  ASSUME plan'.batch = <<Reply(Results)>>, UNCHANGED <<iteration, turn>>
  PROVE  Results' = Results /\ Reply(Results)' = Reply(Results) /\ Answer' = Answer
<1>1. Results' = plan'.batch[Len(plan'.batch)].of
  BY DEF Results
<1>2. \A m : Len(<<m>>) = 1 /\ <<m>>[1] = m
  OBVIOUS
<1>3. Results' = Results
  BY <1>1, <1>2, Kinds
<1> QED
  BY <1>3 DEF Reply, Answer

\* Every step keeps requests and replies together.
LEMMA PairedStep == ASSUME PlanInv, OwnerInv, PairedInv, Next PROVE PairedInv'
<1> USE DEF PlanInv
<1>0. history \in Seq(Messages) /\ iteration \in Rounds /\ turn \in Turns
      /\ Answer \in Messages /\ Input \in Messages /\ Notice \in Messages
  BY DEF RunInv, RunTypes, Answer, Input, Notice, Messages
<1>1. CASE StoreStep
  <2>1. CASE history' = history /\ pc' = "yielding" /\ plan'.next = "raised"
    BY <2>1 DEF PairedInv
  <2>2. CASE plan.batch = <<Answer>> /\ history' = Append(history, Answer)
    <3>1. ~Orphan(history)
      BY <1>1, <2>2 DEF PairedInv, StoreStep, Saving
    <3>2. Paired(history') /\ ~Orphan(history')
      BY <1>0, <2>2, <3>1, Kinds, PairedAppend DEF PairedInv
    <3> QED
      BY <3>2 DEF PairedInv
  <2>3. CASE plan.batch = ExchangeOf(Results)
    <3>1. ~Orphan(history)
      BY <1>1, <2>3, BatchKinds DEF PairedInv, StoreStep, Saving
    <3>2. Results \in [turn.calls -> Outcomes]
      BY <1>1, <2>3, BatchKinds, BatchParts DEF StoreStep
    <3>3. Request \in Messages /\ Reply(Results) \in Messages
      BY <1>0, <3>2, BatchTyped
    <3>4. Paired(Append(history, Request)) /\ Append(history, Request) \in Seq(Messages)
      BY <1>0, <3>1, <3>3, PairedAppend DEF PairedInv
    <3>5. Append(history, Request)[Len(Append(history, Request))] = Request
      BY <1>0
    <3>6. CASE history' = Append(history, Request)
               /\ (\/ pc' = pc /\ plan'.batch = <<Reply(Results)>>
                   \/ pc' = "yielding" /\ plan'.next = "raised")
      <4>1. history'[Len(history')].calls = turn'.calls
        BY <1>1, <3>5, <3>6, Kinds DEF StoreStep
      <4>2. CASE pc' = pc /\ plan'.batch = <<Reply(Results)>>
        <5>1. Reply(Results)' = Reply(Results) /\ Answer' = Answer
          BY <1>1, <4>2, ResultsKept DEF StoreStep
        <5>2. plan'.batch # <<Answer>>'
          BY <4>2, <5>1, BatchKinds
        <5> QED
          BY <1>1, <3>4, <3>6, <4>1, <4>2, <5>1, <5>2 DEF PairedInv, StoreStep
      <4> QED
        BY <3>4, <3>6, <4>2 DEF PairedInv
    <3>7. CASE history' = Append(Append(history, Request), Reply(Results))
      <4> DEFINE h == Append(history, Request)
      <4>1. DOMAIN Reply(Results).of = h[Len(h)].calls
        BY <3>2, <3>5, Kinds
      <4>2. Paired(Append(h, Reply(Results))) /\ ~Orphan(Append(h, Reply(Results)))
        <5> HIDE DEF h
        <5>1. h \in Seq(Messages) /\ Paired(h)
          BY <3>4 DEF h
        <5> QED BY <3>3, <4>1, <5>1, Kinds, PairedAppend
      <4> QED
        BY <3>7, <4>2 DEF PairedInv
    <3> QED
      BY <1>1, <2>1, <2>3, <3>6, <3>7, BatchKinds DEF StoreStep, Stores
  <2>4. CASE plan.batch = <<Reply(Results)>> /\ history' = Append(history, Reply(Results))
    <3>1. Results \in [turn.calls -> Outcomes]
      BY <1>1, <2>4, BatchKinds, BatchParts DEF StoreStep
    <3>2. Reply(Results) \in Messages
      BY <1>0, <3>1, BatchTyped
    <3>3. Orphan(history) => history[Len(history)].calls = turn.calls
      BY <1>1 DEF PairedInv, StoreStep, Saving
    <3>4. Paired(history') /\ ~Orphan(history')
      BY <1>0, <2>4, <3>1, <3>2, <3>3, Kinds, PairedAppend DEF PairedInv
    <3> QED
      BY <3>4 DEF PairedInv
  <2> QED
    BY <1>1, <2>1, <2>2, <2>3, <2>4 DEF StoreStep, Stores
<1>2. CASE PlainStored
  <2>1. ~Orphan(history)
    BY <1>2 DEF PairedInv, PlainStored, Saving
  <2>2. Paired(history') /\ ~Orphan(history')
    BY <1>0, <1>2, <2>1, Kinds, PairedAppend DEF PlainStored, PairedInv
  <2> QED
    BY <2>2 DEF PairedInv
<1>3. CASE Decides
  BY <1>3 DEF Decides, PairedInv, Awaiting, Saving
<1>4. CASE Goes
  BY <1>4 DEF Goes, PairedInv
<1>5. CASE UNCHANGED <<runVars, history>>
  BY <1>5 DEF PairedInv, runVars, Results, Reply, Answer
<1> QED
  BY <1>1, <1>2, <1>3, <1>4, <1>5, StoringSteps

\* What a step does to the rounds and to the tools that have run.
LEMMA ToolsMove ==
  ASSUME RunInv, TaskTypes, ToolsInv, Next
  PROVE  /\ iteration' = iteration \/ iteration' = iteration + 1
         /\ ran \subseteq ran'
         /\ \A r \in ran' : r \in ran \/ \E c \in Calls : r = <<iteration, c>> /\ ToolActive(c)
         /\ pc # "streaming" \/ pc' # "dispatching" => \A c \in Calls : ToolActive(c)' => ToolActive(c)
<1>1. iteration' = iteration \/ iteration' = iteration + 1
  <2>1. CASE StoreInput
    BY <2>1 DEF StoreInput, RunInv
  <2>2. CASE Proceed \/ Hook
    BY <2>2 DEF Proceed, Hook, NextIteration
  <2>3. CASE StreamNext \/ Prepare \/ Conclude \/ Write \/ YieldResult \/ YieldTerminal
             \/ AnswerMalformed \/ StartDispatch \/ TakeDelta \/ TakeEnd \/ Settle \/ SettleCancelled
    BY <2>3 DEF StreamNext, StreamText, StreamCall, StreamEnd, StreamEvent, StreamCut, StreamFails,
       Prepare, Conclude, Write, YieldResult, YieldTerminal, AnswerMalformed, StartDispatch,
       TakeDelta, TakeEnd, Settle, SettleCancelled
  <2>4. CASE FinalizeBegin \/ GracePass \/ FinalizeCompleted \/ FinalizeDeferred \/ FinalizeKilled
             \/ Reaped \/ ReapAbandoned \/ Release \/ Fault \/ Pull \/ Abandon
    BY <2>4 DEF FinalizeBegin, GracePass, FinalizeCompleted, FinalizeDeferred, FinalizeKilled,
       Reaped, ReapAbandoned, Release, Fault, InputFails, WriteFails, CancelLoop, CancelDispatch,
       Pull, Abandon
  <2>5. CASE BeginDispatch \/ ToolStep \/ EndDispatch \/ SinkStep \/ Preempt \/ Interrupt
            \/ CloseSink \/ Finished
    BY <2>5 DEF BeginDispatch, ToolStep, ToolBegin, ToolEmits, ToolEnds, ToolReturns,
       ToolCancelsItself, ToolStops, EndDispatch, SinkStep, SinkDelivers, SinkDrops,
       Preempt, Interrupt, CloseSink, Finished, vars, runVars
  <2> QED
    BY <2>1, <2>2, <2>3, <2>4, <2>5 DEF Next, RunStep, Host
<1>2. ASSUME NEW c \in Calls, ToolBegin(c)
      PROVE  /\ ran \subseteq ran'
             /\ \A r \in ran' : r \in ran \/ \E d \in Calls : r = <<iteration, d>> /\ ToolActive(d)
             /\ \A d \in Calls : ToolActive(d)' => ToolActive(d)
  BY <1>2 DEF ToolBegin, TaskTypes, ToolActive
<1>3. ASSUME UNCHANGED ran, pc # "streaming" \/ pc' # "dispatching" => \A c \in Calls : ToolActive(c)' => ToolActive(c)
      PROVE  /\ ran \subseteq ran'
             /\ \A r \in ran' : r \in ran \/ \E c \in Calls : r = <<iteration, c>> /\ ToolActive(c)
             /\ pc # "streaming" \/ pc' # "dispatching" => \A c \in Calls : ToolActive(c)' => ToolActive(c)
  BY <1>3
<1>4. UNCHANGED tools => \A c \in Calls : ToolActive(c)' => ToolActive(c)
  BY DEF ToolActive
<1>5. KillDispatch => \A c \in Calls : ToolActive(c)' => ToolActive(c)
  BY KillOutcome DEF ToolsInv
<1>6. ASSUME NEW c \in Calls, ToolReturns(c) \/ ToolCancelsItself(c) \/ ToolStops(c) \/ ToolEmits(c)
      PROVE  UNCHANGED ran /\ \A d \in Calls : ToolActive(d)' => ToolActive(d)
  BY <1>6 DEF ToolReturns, ToolCancelsItself, ToolStops, ToolEmits, TaskTypes, ToolActive
<1>7. StartDispatch => pc = "streaming" /\ pc' = "dispatching" /\ UNCHANGED ran
  BY DEF StartDispatch, ResponseOver
<1>8. FinalizeKilled \/ ReapAbandoned \/ Interrupt \/ CloseSink =>
        UNCHANGED ran /\ (KillDispatch \/ UNCHANGED tools)
  BY DEF FinalizeKilled, ReapAbandoned, Interrupt, CloseSink
<1>9. \/ UNCHANGED <<tools, ran>>
      \/ StartDispatch \/ FinalizeKilled \/ ReapAbandoned \/ Interrupt \/ CloseSink
      \/ \E c \in Calls : ToolBegin(c) \/ ToolReturns(c) \/ ToolCancelsItself(c) \/ ToolStops(c) \/ ToolEmits(c)
  BY DEF Next, StreamNext, StreamText, StreamCall, StreamEnd, StreamEvent,
       StreamCut, StreamFails, RunStep, StoreInput, Prepare, Conclude, Write, YieldResult,
       YieldTerminal, Proceed, Hook, AnswerMalformed, TakeDelta, TakeEnd,
       Settle, SettleCancelled, FinalizeBegin, GracePass, FinalizeCompleted, FinalizeDeferred,
       Reaped, Release, BeginDispatch, ToolStep, ToolEnds, EndDispatch, Pull, SinkStep,
       SinkDelivers, SinkDrops, Fault, InputFails, WriteFails, CancelLoop, CancelDispatch, Host,
       Abandon, Preempt, Finished, vars, toolVars
<1> QED
  BY <1>1, <1>2, <1>3, <1>4, <1>5, <1>6, <1>7, <1>8, <1>9

\* What is true of a call of a round that is settled, or whose results are to
\* be stored, stays true.
LEMMA TrueStays ==
  ASSUME RunInv, TaskTypes, ToolsInv, Next, NEW at \in Rounds, at <= iteration,
         at = iteration => pc # "streaming" \/ pc' # "dispatching",
         NEW c \in Calls, NEW o, True(at, c, o)
  PROVE  True(at, c, o)'
<1>0. at \in Nat /\ iteration \in Nat
  BY AgentRunAssumption DEF RunInv, RunTypes, Rounds
<1>1. o = "ok" => <<at, c>> \in ran'
  BY ToolsMove DEF True
<1>2. ASSUME o \in {"malformed", "refused"}
      PROVE  <<at, c>> \notin ran' /\ (at = iteration' => ~ToolActive(c)')
  <2>1. <<at, c>> \notin ran /\ (at = iteration => ~ToolActive(c))
    BY <1>2 DEF True
  <2>2. <<at, c>> \notin ran'
    <3> SUFFICES ASSUME <<at, c>> \in ran' PROVE FALSE
      OBVIOUS
    <3>1. PICK d \in Calls : <<at, c>> = <<iteration, d>> /\ ToolActive(d)
      BY <2>1, ToolsMove
    <3> QED
      BY <2>1, <3>1
  <2>3. at = iteration' => at = iteration
    <3>1. iteration' = iteration \/ iteration' = iteration + 1
      BY ToolsMove
    <3> QED
      BY <1>0, <3>1
  <2>4. at = iteration' => ~ToolActive(c)'
    BY <2>1, <2>3, ToolsMove
  <2> QED
    BY <2>2, <2>4
<1> QED
  BY <1>1, <1>2 DEF True

\* A run never falls back behind a round that is settled.
LEMMA SettledGrows ==
  ASSUME RunInv, TaskTypes, ToolsInv, Next
  PROVE  /\ Settled(pc, iteration) \in Int /\ Settled(pc, iteration)' \in Int
         /\ Settled(pc, iteration) <= Settled(pc, iteration)'
<1>1. iteration \in Nat /\ (iteration' = iteration \/ iteration' = iteration + 1)
  BY AgentRunAssumption, ToolsMove DEF RunInv, RunTypes, Rounds
<1>2. iteration' = iteration /\ pc' \in Unspoken => pc \in Unspoken
  <2>0. iteration = iteration => iteration + 1 # iteration
    BY <1>1
  <2>1. CASE UNCHANGED <<runVars, history>>
    BY <2>1 DEF runVars
  <2>2. CASE StreamNext \/ Conclude \/ AnswerMalformed \/ StartDispatch
    BY <2>2 DEF StreamNext, StreamText, StreamCall, StreamEnd, StreamEvent,
       StreamCut, StreamFails, Conclude, AnswerMalformed, StartDispatch, ResponseOver, Unspoken
  <2>3. CASE StoreInput \/ InputFails \/ Prepare \/ CancelLoop \/ Write \/ WriteFails
    <3>1. StoreInput => iteration' # iteration
      BY <1>1 DEF StoreInput, RunInv
    <3> QED
      BY <2>3, <3>1 DEF InputFails, Prepare, CancelLoop, Write, WriteFails, Unwind, Reporting, Unspoken
  <2>4. CASE YieldResult \/ YieldTerminal \/ Proceed \/ Hook
    <3>1. plan.next \in {"again", "hook", "ended", "raised"}
      BY DEF RunInv, RunTypes, Plans
    <3> QED
      BY <1>1, <2>4, <3>1 DEF YieldResult, YieldTerminal, Proceed, Hook, NextIteration, Reporting, Unspoken
  <2>5. CASE \/ TakeDelta \/ TakeEnd \/ Settle \/ SettleCancelled \/ FinalizeBegin \/ GracePass
             \/ FinalizeCompleted \/ FinalizeDeferred \/ FinalizeKilled \/ Reaped
             \/ ReapAbandoned \/ Release \/ CancelDispatch
    BY <2>5 DEF TakeDelta, TakeEnd, Settle, SettleCancelled, FinalizeBegin, GracePass,
       FinalizeCompleted, FinalizeDeferred, FinalizeKilled, Reaped, ReapAbandoned, Release,
       CancelDispatch, Decided, Closing, Storing, Unspoken
  <2>6. CASE Pull \/ Abandon
    BY <2>6 DEF Pull, Abandon, Unspoken
  <2>7. CASE BeginDispatch \/ ToolStep \/ EndDispatch \/ SinkStep \/ Preempt \/ Interrupt
            \/ CloseSink \/ Finished
    BY <2>7 DEF BeginDispatch, ToolStep, ToolBegin, ToolEmits, ToolEnds, ToolReturns,
       ToolCancelsItself, ToolStops, EndDispatch, SinkStep, SinkDelivers, SinkDrops,
       Preempt, Interrupt, CloseSink, Finished, vars, runVars
  <2> QED
    BY <2>1, <2>2, <2>3, <2>4, <2>5, <2>6, <2>7 DEF Next, RunStep, Fault, Host
<1>3. iteration \in Int /\ iteration' \in Int
  BY <1>1
<1> QED
  BY <1>1, <1>2, <1>3, SettledOrder DEF Settled

\* The calls that a reply answers.
LEMMA ReplyCalls ==
  ASSUME NEW m \in Messages, m.kind = "reply"
  PROVE  m.at \in Rounds /\ DOMAIN m.of \subseteq Calls
<1>1. m \in [kind : {"reply"}, at : Rounds, of : UNION {[S -> Outcomes] : S \in SUBSET Calls}]
  BY DEF Messages
<1>2. PICK S \in SUBSET Calls : m.of \in [S -> Outcomes]
  BY <1>1
<1> QED
  BY <1>1, <1>2

\* A good reply stays good.
LEMMA GoodStays == ASSUME RunInv, TaskTypes, ToolsInv, Next PROVE Good \subseteq Good'
<1> SUFFICES ASSUME NEW m \in Good, m.kind = "reply"
             PROVE  m.at <= Settled(pc, iteration)' /\ TrueReply(m)'
  BY DEF Good
<1>1. m.at \in Rounds /\ DOMAIN m.of \subseteq Calls
  BY ReplyCalls DEF Good
<1>2. m.at <= Settled(pc, iteration) /\ TrueReply(m) /\ m.at \in Nat
  BY <1>1, AgentRunAssumption DEF Good, Rounds
<1>3. m.at <= Settled(pc, iteration)'
  BY <1>2, SettledGrows
<1>4. iteration \in Nat /\ m.at <= iteration /\ (m.at = iteration => pc # "streaming")
  <2>1. iteration \in Nat
    BY AgentRunAssumption DEF RunInv, RunTypes, Rounds
  <2>2. CASE pc \in Unspoken
    BY <1>2, <2>1, <2>2 DEF Settled
  <2>3. CASE pc \notin Unspoken
    BY <1>2, <2>1, <2>3 DEF Settled, Unspoken
  <2> QED
    BY <2>2, <2>3, <2>1
<1>5. ASSUME NEW c \in DOMAIN m.of PROVE True(m.at, c, m.of[c])'
  BY <1>1, <1>2, <1>4, TrueStays DEF TrueReply
<1> QED
  BY <1>3, <1>5 DEF TrueReply

\* Every step keeps the replies true.
LEMMA RepliesStep ==
  ASSUME RunInv, TaskTypes, ToolsInv, RepliesInv, TruthInv, Next PROVE RepliesInv'
<1>0. history \in Seq(Good') /\ history \in Seq(Good)
  <2>1. \A S, T : S \subseteq T => \A s \in Seq(S) : s \in Seq(T)
    OBVIOUS
  <2> QED
    BY <2>1, GoodStays DEF RepliesInv
<1>1. \A m \in Messages : m.kind # "reply" => m \in Good'
  BY DEF Good
<1>2. iteration \in Rounds /\ turn \in Turns
      /\ Input \in Messages /\ Notice \in Messages /\ Answer \in Messages /\ Request \in Messages
  BY BatchTyped DEF RunInv, RunTypes, Input, Notice, Answer, Request, Messages, Turns
<1>3. Input \in Good' /\ Notice \in Good' /\ Answer \in Good' /\ Request \in Good'
  BY <1>1, <1>2, Kinds
<1>4. \A m \in Good' : \A s \in Seq(Good') : Append(s, m) \in Seq(Good')
  <2> DEFINE G == Good'
  <2>1. \A m \in G : \A s \in Seq(G) : Append(s, m) \in Seq(G)
    <3> HIDE DEF G
    <3> QED OBVIOUS
  <2> QED
    BY <2>1
<1>5. CASE StoreStep
  <2>1. ASSUME plan.batch # <<Answer>>, pc' = "yielding"
        PROVE  Reply(Results) \in Good'
    <3>1. Results \in [turn.calls -> Outcomes] /\ TrueReply(Reply(Results))
      BY <1>5, <2>1, BatchParts DEF StoreStep, TruthInv
    <3>2. Reply(Results) \in Messages /\ Reply(Results).at = iteration
      BY <1>2, <3>1, BatchTyped, Kinds
    <3>3. PICK m : m = Reply(Results)
      OBVIOUS
    <3>4. m \in Messages /\ m.at = iteration /\ TrueReply(m)
      BY <3>1, <3>2, <3>3
    <3>5. TrueReply(m)'
      BY <1>5, <3>4 DEF StoreStep, TrueReply, True, ToolActive
    <3>6. m.at <= Settled(pc, iteration)'
      BY <1>2, <1>5, <2>1, <3>4, AgentRunAssumption DEF StoreStep, Settled, Unspoken, Rounds
    <3>7. m \in Good'
      BY <3>4, <3>5, <3>6 DEF Good
    <3> QED
      BY <3>3, <3>7
  <2>2. \/ history' = history
        \/ history' = Append(history, Answer)
        \/ history' = Append(history, Request)
        \/ /\ Reply(Results) \in Good'
           /\ \/ history' = Append(Append(history, Request), Reply(Results))
              \/ history' = Append(history, Reply(Results))
    BY <1>5, <2>1, BatchKinds DEF StoreStep, Stores
  <2>3. history' \in Seq(Good')
    BY <1>0, <1>3, <1>4, <2>2
  <2> QED
    BY <2>3 DEF RepliesInv
<1>6. CASE PlainStored
  BY <1>0, <1>3, <1>4, <1>6 DEF PlainStored, RepliesInv
<1>7. CASE history' = history
  BY <1>0, <1>7 DEF RepliesInv
<1> QED
  BY <1>5, <1>6, <1>7, StoringSteps DEF Decides, Goes, ToolsInv

\* What the run may say of a call.
LEMMA Sayings ==
  ASSUME RunInv, ToolsInv
  PROVE  /\ turn.reason \notin Vouching => \A c \in Calls : True(iteration, c, "refused")
         /\ \A c \in Calls \ Runnable : True(iteration, c, "malformed")
         /\ pc \in Awaiting /\ dispatch = "done" => \A c \in Runnable : True(iteration, c, "ok")
         /\ \A c : True(iteration, c, "deferred") /\ True(iteration, c, "interrupted")
<1>1. turn.reason \notin Vouching => \A c \in Calls : True(iteration, c, "refused")
  BY DEF ToolsInv, RanInv, True
<1>2. \A c \in Calls \ Runnable : True(iteration, c, "malformed")
  BY DEF ToolsInv, RanInv, True
<1>3. ASSUME pc \in Awaiting, dispatch = "done", NEW c \in Runnable
      PROVE  True(iteration, c, "ok")
  <2>1. c \in Calls
    BY DEF RunInv, RunTypes, Turns, Runnable
  <2>2. tools[c] = "done"
    BY <1>3, <2>1 DEF ToolsInv, DispatchInv, RanInv, TaskStates
  <2> QED
    BY <1>3, <2>1, <2>2 DEF ToolsInv, RanInv, True
<1>4. \A c : True(iteration, c, "deferred") /\ True(iteration, c, "interrupted")
  BY DEF True
<1> QED
  BY <1>1, <1>2, <1>3, <1>4

\* The results that are to be stored are true when the run decides to store them.
LEMMA DecidedTruth ==
  ASSUME RunInv, TaskTypes, ToolsInv, NEW f \in [turn.calls -> Outcomes],
         \A c \in turn.calls : True(iteration, c, f[c]),
         Results' = f, UNCHANGED <<iteration, turn, tools, ran>>
  PROVE  TrueReply(Reply(Results))'
<1>1. Reply(Results)'.of = f /\ Reply(Results)'.at = iteration
  BY DEF Reply
<1>2. \A c \in turn.calls : True(iteration, c, f[c])'
  BY DEF True, ToolActive
<1> QED
  BY <1>1, <1>2 DEF TrueReply, True, ToolActive

\* Every step keeps the results that are to be stored true.
LEMMA TruthStep ==
  ASSUME RunInv, TaskTypes, ToolsInv, TruthInv, Next PROVE TruthInv'
<1>0. /\ turn.calls \in SUBSET Calls /\ turn.malformed \in SUBSET Calls /\ grace \in 0..2 /\ 0 \in 0..2
      /\ iteration \in Rounds
      /\ << >> \in Outs /\ <<EndEvent("error")>> \in Outs
      /\ "writing" \in Saving /\ "closing" \in Saving
  BY DEF RunInv, RunTypes, Turns, Outs, Saving
<1>1. CASE Conclude
  <2>1. CASE Storing("writing", <<Answer>>, {}, Verdict.out, Verdict.next)
    <3>1. plan'.batch = <<Answer>>
      BY <1>1, <2>1, VerdictTyped, PlanAnswering DEF Conclude
    <3>2. Answer' = Answer
      BY <1>1 DEF Conclude, Answer
    <3> QED
      BY <3>1, <3>2 DEF TruthInv
  <2>2. CASE turn.reason \notin Vouching
             /\ Storing("writing", ExchangeOf([c \in turn.calls |-> "refused"]),
                        turn.calls, Verdict.out, Verdict.next)
    <3>1. Results' = [c \in turn.calls |-> "refused"]
      BY <1>0, <1>1, <2>2, VerdictTyped, Outcome, PlanStoring DEF Conclude
    <3>2. \A c \in turn.calls : True(iteration, c, [d \in turn.calls |-> "refused"][c])
      BY <1>0, <2>2, Sayings
    <3>3. UNCHANGED <<iteration, turn, tools, ran>>
      BY <1>1 DEF Conclude, toolVars
    <3> QED
      BY <3>1, <3>2, <3>3, Outcome, DecidedTruth DEF TruthInv
  <2> QED
    BY <1>1, <2>1, <2>2 DEF Conclude
<1>2. CASE AnswerMalformed
  <2>1. Results' = [c \in turn.calls |-> "malformed"]
    BY <1>0, <1>2, Outcome, PlanStoring DEF AnswerMalformed
  <2>2. \A c \in turn.calls : True(iteration, c, [d \in turn.calls |-> "malformed"][c])
    BY <1>0, <1>2, Sayings DEF AnswerMalformed
  <2>3. UNCHANGED <<iteration, turn, tools, ran>>
    BY <1>2 DEF AnswerMalformed, toolVars
  <2> QED
    BY <2>1, <2>2, <2>3, Outcome, DecidedTruth DEF TruthInv
<1>3. CASE Settle \/ FinalizeCompleted
  <2>1. Results' = Completed
    BY <1>0, <1>3, Outcome, PlanStoring DEF Settle, FinalizeCompleted, Closing
  <2>2. \A c \in turn.calls : True(iteration, c, Completed[c])
    <3>1. pc \in Awaiting /\ dispatch = "done"
      BY <1>3 DEF Settle, FinalizeCompleted, Decided, Awaiting
    <3>2. \A c \in turn.calls : Completed[c] = IF c \in turn.malformed THEN "malformed" ELSE "ok"
      BY DEF Completed
    <3> QED
      BY <1>0, <3>1, <3>2, Sayings DEF Runnable
  <2>3. UNCHANGED <<iteration, turn, tools, ran>>
    BY <1>3 DEF Settle, FinalizeCompleted, toolVars
  <2> QED
    BY <2>1, <2>2, <2>3, Outcome, DecidedTruth DEF TruthInv
<1>4. ASSUME NEW o \in {"deferred", "interrupted"}
      PROVE  \A c \in turn.calls : True(iteration, c, Aborted(o)[c])
  <2>1. \A c \in turn.calls : Aborted(o)[c] = IF c \in turn.malformed THEN "malformed" ELSE o
    BY DEF Aborted
  <2> QED
    BY <1>0, <2>1, Sayings DEF Runnable
<1>5. CASE FinalizeDeferred
  <2>1. Results' = Aborted("deferred")
    BY <1>0, <1>5, Outcome, PlanStoring DEF FinalizeDeferred, Closing
  <2>2. UNCHANGED <<iteration, turn, tools, ran>>
    BY <1>5 DEF FinalizeDeferred, toolVars
  <2> QED
    BY <1>4, <2>1, <2>2, Outcome, DecidedTruth DEF TruthInv
<1>6. CASE Reaped
  <2>1. Results' = Aborted("interrupted")
    BY <1>0, <1>6, Outcome, PlanStoring DEF Reaped, Closing
  <2>2. UNCHANGED <<iteration, turn, tools, ran>>
    BY <1>6 DEF Reaped, toolVars
  <2> QED
    BY <1>4, <2>1, <2>2, Outcome, DecidedTruth DEF TruthInv
<1>7. CASE StoreStep
  <2>1. CASE pc' = pc /\ plan'.batch = <<Reply(Results)>> /\ plan.batch = ExchangeOf(Results)
    <3>1. plan.batch # <<Answer>> /\ Results \in [turn.calls -> Outcomes]
      BY <1>7, <2>1, BatchKinds, BatchParts DEF StoreStep
    <3>2. TrueReply(Reply(Results))
      BY <1>7, <3>1 DEF StoreStep, TruthInv
    <3>3. \A c \in turn.calls : True(iteration, c, Results[c])
      BY <3>1, <3>2, Kinds DEF TrueReply
    <3>4. Results' = Results
      BY <1>7, <2>1, ResultsKept DEF StoreStep
    <3> QED
      BY <1>7, <3>1, <3>3, <3>4, DecidedTruth DEF StoreStep, TruthInv
  <2>2. CASE pc' = "yielding"
    BY <2>2 DEF TruthInv, Saving
  <2> QED
    BY <1>7, <2>1, <2>2 DEF StoreStep, Stores
<1>8. CASE UNCHANGED <<runVars, history>>
  <2>1. Results' = Results /\ Reply(Results)' = Reply(Results) /\ Answer' = Answer
        /\ UNCHANGED <<pc, plan, iteration>>
    BY <1>8 DEF runVars, Results, Reply, Answer
  <2> SUFFICES ASSUME pc \in Saving, plan.batch # <<Answer>> PROVE TrueReply(Reply(Results))'
    BY <2>1 DEF TruthInv
  <2>2. Results \in [turn.calls -> Outcomes] /\ TrueReply(Reply(Results))
    BY BatchParts DEF TruthInv
  <2>3. iteration <= iteration /\ pc # "streaming"
    BY <1>0, AgentRunAssumption DEF Saving, Rounds
  <2>4. ASSUME NEW c \in turn.calls PROVE True(iteration, c, Results[c])'
    <3>1. True(iteration, c, Results[c]) /\ c \in Calls
      BY <1>0, <2>2, Kinds DEF TrueReply
    <3> DEFINE o == Results[c]
               at == iteration
    <3>2. at \in Rounds /\ at <= iteration
      BY <1>0, <2>3
    <3>3. True(at, c, o)
      BY <3>1
    <3>4. \A a \in Rounds : \A p : a <= iteration /\ (a = iteration => pc # "streaming" \/ pc' # "dispatching")
            /\ True(a, c, p) => True(a, c, p)'
      BY <3>1, TrueStays
    <3>5. UNCHANGED o /\ UNCHANGED at
      BY <1>8, <2>1 DEF runVars
    <3> QED
      BY <2>3, <3>2, <3>3, <3>4, <3>5 DEF True
  <2>5. Reply(Results)'.of = Results /\ Reply(Results)'.at = iteration
    BY <2>1, Kinds
  <2> QED
    BY <2>1, <2>2, <2>4, <2>5 DEF TrueReply, True
<1>9. CASE PlainStored \/ Goes
  BY <1>9 DEF PlainStored, Goes, TruthInv
<1>10. Decides => Conclude \/ AnswerMalformed \/ Settle \/ FinalizeCompleted \/ FinalizeDeferred \/ Reaped
  BY DEF Decides
<1> QED
  BY <1>1, <1>2, <1>3, <1>5, <1>6, <1>7, <1>8, <1>9, <1>10, StoringSteps DEF ToolsInv

\* An empty history is sound.
LEMMA HistoryInit == Init => HistoryInv
<1> SUFFICES ASSUME Init PROVE HistoryInv
  OBVIOUS
<1>1. history = << >> /\ pc \notin Saving
  BY DEF Init, Saving
<1> QED
  BY <1>1 DEF HistoryInv, PairedInv, Paired, Orphan, RepliesInv, TruthInv

\* The third layer of the invariant.
LEMMA HistoryStep == ASSUME PlanInv, ToolsInv, HistoryInv, [Next]_vars PROVE HistoryInv'
<1>1. CASE Next
  BY <1>1, PairedStep, RepliesStep, TruthStep DEF PlanInv, ToolsInv, HistoryInv
<1>2. CASE UNCHANGED vars
  BY <1>2 DEF vars, HistoryInv, PairedInv, RepliesInv, TruthInv, Good, TrueReply, True, ToolActive,
     Settled, Results, Reply, Answer
<1> QED
  BY <1>1, <1>2

-----------------------------------------------------------------------------
(* What each step stores.                                                  *)

\* The results stored in h, and those that a reply holds.
Told(m) == {<<m.at, c, m.of[c]>> : c \in DOMAIN m.of}
StoredIn(h) == UNION {Told(h[i]) : i \in {j \in 1..Len(h) : h[j].kind = "reply"}}

\* The results that are to be stored.
New == {<<iteration, c, Results[c]>> : c \in turn.calls}

\* Now and after a step, they are the results stored in the history.
LEMMA StoredIsStoredIn == Stored = StoredIn(history) /\ Stored' = StoredIn(history')
BY DEF Stored, StoredIn, Told

\* A message adds the results it holds.
LEMMA StoredAppend ==
  ASSUME NEW h \in Seq(Messages), NEW m \in Messages
  PROVE  StoredIn(Append(h, m)) = StoredIn(h) \cup (IF m.kind = "reply" THEN Told(m) ELSE {})
<1> DEFINE g == Append(h, m)
<1>1. Len(g) = Len(h) + 1 /\ g[Len(h) + 1] = m /\ Len(h) \in Nat
      /\ \A i \in 1..Len(h) : g[i] = h[i]
  OBVIOUS
<1> HIDE DEF g
<1>2. ASSUME NEW s \in StoredIn(g)
      PROVE  s \in StoredIn(h) \cup (IF m.kind = "reply" THEN Told(m) ELSE {})
  <2>1. PICK i \in 1..Len(g) : g[i].kind = "reply" /\ s \in Told(g[i])
    BY DEF StoredIn
  <2>2. CASE i = Len(h) + 1
    BY <1>1, <2>1, <2>2
  <2>3. CASE i # Len(h) + 1
    <3>1. i \in 1..Len(h) /\ g[i] = h[i]
      BY <1>1, <2>3
    <3> QED
      BY <2>1, <3>1 DEF StoredIn
  <2> QED
    BY <2>2, <2>3
<1>3. ASSUME NEW s \in StoredIn(h) PROVE s \in StoredIn(g)
  <2>1. PICK i \in 1..Len(h) : h[i].kind = "reply" /\ s \in Told(h[i])
    BY DEF StoredIn
  <2>2. i \in 1..Len(g) /\ g[i] = h[i]
    BY <1>1
  <2> QED
    BY <2>1, <2>2 DEF StoredIn
<1>4. ASSUME m.kind = "reply", NEW s \in Told(m) PROVE s \in StoredIn(g)
  <2>1. Len(g) \in 1..Len(g) /\ g[Len(g)] = m
    BY <1>1
  <2> QED
    BY <1>4, <2>1 DEF StoredIn
<1> QED
  BY <1>2, <1>3, <1>4 DEF g

\* What each step of the store does to the stored results.
LEMMA StoreStored ==
  ASSUME RunInv, StoreStep
  PROVE  \/ Stored' = Stored /\ plan.batch = <<Answer>> /\ pc' = "yielding"
         \/ Stored' = Stored /\ pc' = "yielding" /\ plan'.report = {} /\ plan'.next = "raised" /\ UNCHANGED sink
         \/ /\ Stored' = Stored /\ pc' = pc /\ UNCHANGED sink
            /\ Results' = Results /\ plan.batch # <<Answer>> /\ (plan.batch # <<Answer>>)'
         \/ Stored' = Stored \cup New /\ plan.batch # <<Answer>> /\ pc' = "yielding"
<1>0. history \in Seq(Messages) /\ iteration \in Rounds /\ turn \in Turns /\ Answer \in Messages
      /\ Stored = StoredIn(history) /\ Stored' = StoredIn(history')
  <2>1. history \in Seq(Messages) /\ iteration \in Rounds /\ turn \in Turns
    BY DEF RunInv, RunTypes
  <2>2. Answer \in Messages
    BY <2>1 DEF Answer, Messages
  <2> QED
    BY <2>1, <2>2, StoredIsStoredIn
<1>1. CASE history' = history /\ pc' = "yielding" /\ plan'.next = "raised" /\ plan'.report = {} /\ UNCHANGED sink
  BY <1>0, <1>1
<1>2. CASE plan.batch = <<Answer>> /\ history' = Append(history, Answer) /\ pc' = "yielding"
  BY <1>0, <1>2, Kinds, StoredAppend
<1>3. ASSUME plan.batch = ExchangeOf(Results) \/ (plan.batch = <<Reply(Results)>> /\ plan.batch # <<Answer>>)
      PROVE  /\ Request \in Messages /\ Reply(Results) \in Messages /\ plan.batch # <<Answer>>
             /\ Told(Reply(Results)) = New
  <2>1. Results \in [turn.calls -> Outcomes] /\ plan.batch # <<Answer>>
    BY <1>3, BatchKinds, BatchParts DEF StoreStep
  <2>2. Request \in Messages /\ Reply(Results) \in Messages
    BY <1>0, <2>1, BatchTyped
  <2>3. Told(Reply(Results)) = New
    BY <2>1, Kinds DEF Told, New
  <2> QED
    BY <2>1, <2>2, <2>3
<1>4. CASE plan.batch = ExchangeOf(Results) /\ history' = Append(history, Request)
  <2>1. Stored' = Stored
    BY <1>0, <1>3, <1>4, Kinds, StoredAppend
  <2>2. CASE pc' = pc /\ plan'.batch = <<Reply(Results)>> /\ UNCHANGED sink
    <3>1. Results' = Results /\ Answer' = Answer
      BY <2>2, ResultsKept DEF StoreStep
    <3>2. plan'.batch # <<Answer>>'
      BY <2>2, <3>1, BatchKinds
    <3> QED
      BY <1>3, <1>4, <2>1, <2>2, <3>1, <3>2
  <2>3. CASE pc' = "yielding" /\ plan'.next = "raised" /\ plan'.report = {} /\ UNCHANGED sink
    BY <2>1, <2>3
  <2>4. \/ pc' = pc /\ plan'.batch = <<Reply(Results)>> /\ UNCHANGED sink
        \/ pc' = "yielding" /\ plan'.next = "raised" /\ plan'.report = {} /\ UNCHANGED sink
        \/ history' = history /\ pc' = "yielding" /\ plan'.next = "raised" /\ plan'.report = {} /\ UNCHANGED sink
        \/ history' = Append(Append(history, Request), Reply(Results)) /\ pc' = "yielding"
    BY <1>4, BatchKinds DEF StoreStep, Stores
  <2>5. ASSUME history' = Append(Append(history, Request), Reply(Results)) PROVE FALSE
    BY <1>0, <1>3, <1>4, <2>5
  <2> QED
    BY <2>2, <2>3, <2>4, <2>5, <1>1
<1>5. CASE plan.batch = ExchangeOf(Results) /\ pc' = "yielding"
           /\ history' = Append(Append(history, Request), Reply(Results))
  <2>1. Append(history, Request) \in Seq(Messages) /\ StoredIn(Append(history, Request)) = Stored
    BY <1>0, <1>3, <1>5, Kinds, StoredAppend
  <2> DEFINE h == Append(history, Request)
  <2>2. StoredIn(Append(h, Reply(Results))) = StoredIn(h) \cup New
    <3> HIDE DEF h
    <3>1. h \in Seq(Messages)
      BY <2>1 DEF h
    <3> QED BY <1>3, <1>5, <3>1, Kinds, StoredAppend
  <2> QED
    BY <1>0, <1>3, <1>5, <2>1, <2>2
<1>6. CASE plan.batch = <<Reply(Results)>> /\ plan.batch # <<Answer>> /\ pc' = "yielding"
           /\ history' = Append(history, Reply(Results))
  BY <1>0, <1>3, <1>6, Kinds, StoredAppend
<1> QED
  BY <1>1, <1>2, <1>4, <1>5, <1>6 DEF StoreStep, Stores

\* No other step stores a result.
LEMMA NothingElseStored ==
  ASSUME RunInv, PlainStored \/ Decides \/ Goes \/ UNCHANGED <<runVars, history>>
  PROVE  Stored' = Stored
<1>1. history \in Seq(Messages) /\ Input \in Messages /\ Notice \in Messages
  BY DEF RunInv, RunTypes, Input, Notice, Messages
<1>2. CASE history' = history
  BY <1>2 DEF Stored
<1>3. CASE history' \in {Append(history, Input), Append(history, Notice)}
  <2>1. StoredIn(history') = StoredIn(history)
    BY <1>1, <1>3, Kinds, StoredAppend
  <2> QED
    BY <2>1, StoredIsStoredIn
<1> QED
  BY <1>2, <1>3 DEF PlainStored, Decides, Goes

-----------------------------------------------------------------------------
(* Every step keeps what the results say of the batch.                     *)

\* The phases of a dispatch that the sink has taken over.
Afterlife == {"deferred", "closed", "delivered", "dropped"}

\* What a result of this round says of the batch and of its call's task.
SaidOfBatch(c, o) ==
  /\ o = "ok" => tools[c] = "done"
  /\ o = "interrupted" => c \in Runnable /\ dispatch = "cancelled"
  /\ o = "deferred" => c \in Runnable /\ sink \in Afterlife

CutOutcomes == {"interrupted", "deferred"}

\* What is stored, and what is to be stored, speaks of the batch of its round.
BatchSaidInv ==
  /\ \A s \in Stored : s[1] = iteration => SaidOfBatch(s[2], s[3])
  /\ \A s \in Stored : s[3] \in CutOutcomes => s[1] = iteration /\ CutOff
  /\ pc \in Saving /\ plan.batch # <<Answer>> => \A c \in turn.calls :
       SaidOfBatch(c, Results[c]) /\ (pc = "writing" => Results[c] \notin CutOutcomes)
  /\ pc = "reaping" => dispatch \in {"unwinding", "cancelled"}

\* What a stored result is about, and that it is true.
LEMMA StoredTrue ==
  ASSUME PlanInv, RepliesInv, NEW s \in Stored
  PROVE  /\ s[1] \in Rounds /\ s[2] \in Calls /\ s[3] \in Outcomes
         /\ s[1] <= Settled(pc, iteration)
         /\ True(s[1], s[2], s[3])
<1>0. history \in Seq(Messages)
  BY DEF PlanInv, RunInv, RunTypes
<1>1. PICK i \in 1..Len(history) :
        /\ history[i].kind = "reply"
        /\ \E c \in DOMAIN history[i].of : s = <<history[i].at, c, history[i].of[c]>>
  BY DEF Stored
<1>2. PICK c \in DOMAIN history[i].of : s = <<history[i].at, c, history[i].of[c]>>
  BY <1>1
<1>3. history[i] \in Good
  BY DEF RepliesInv
<1>4. history[i].at \in Rounds /\ c \in Calls /\ history[i].of[c] \in Outcomes
  <2>1. history[i] \in Messages
    BY <1>0
  <2>2. history[i] \in [kind : {"reply"}, at : Rounds, of : UNION {[S -> Outcomes] : S \in SUBSET Calls}]
    BY <1>1, <2>1 DEF Messages
  <2>3. PICK S \in SUBSET Calls : history[i].of \in [S -> Outcomes]
    BY <2>2
  <2> QED
    BY <1>2, <2>2, <2>3
<1>5. True(history[i].at, c, history[i].of[c]) /\ history[i].at <= Settled(pc, iteration)
  BY <1>1, <1>2, <1>3 DEF Good, TrueReply
<1>6. s[1] = history[i].at /\ s[2] = c /\ s[3] = history[i].of[c]
  BY <1>2
<1> QED
  BY <1>4, <1>5, <1>6

\* Outside a response, the turn stays, a tool that is done and a batch that was
\* cancelled stay so, and the sink keeps what it took over.
LEMMA BatchStays ==
  ASSUME TaskTypes, ToolsInv, Next, pc \notin {"top", "streaming"}
  PROVE  /\ UNCHANGED turn
         /\ \A c \in Calls : tools[c] = "done" => tools'[c] = "done"
         /\ dispatch = "cancelled" => dispatch' = "cancelled"
         /\ sink \in Afterlife => sink' \in Afterlife
         /\ pc \in Saving => UNCHANGED iteration
<1>1. UNCHANGED turn
  BY DEF Next, StreamNext, StreamText, StreamCall, StreamEnd, StreamEvent,
     StreamCut, StreamFails, RunStep, StoreInput, Prepare, Conclude, Write, YieldResult,
     YieldTerminal, Proceed, Hook, AnswerMalformed, StartDispatch, ResponseOver, TakeDelta, TakeEnd,
     Settle, SettleCancelled, FinalizeBegin, GracePass, FinalizeCompleted, FinalizeDeferred,
     FinalizeKilled, Reaped, ReapAbandoned, Release, BeginDispatch, ToolStep, ToolBegin, ToolEmits,
     ToolEnds, ToolReturns, ToolCancelsItself, ToolStops, EndDispatch, Pull, SinkStep,
     SinkDelivers, SinkDrops, Fault, InputFails, WriteFails, CancelLoop, CancelDispatch, Host,
     Abandon, Preempt, Interrupt, CloseSink, Finished, vars, runVars
<1>2. \/ UNCHANGED <<tools, dispatch>>
      \/ KillDispatch
      \/ BeginDispatch \/ EndDispatch
      \/ \E c \in Calls : ToolBegin(c) \/ ToolReturns(c) \/ ToolCancelsItself(c) \/ ToolStops(c)
  BY DEF Next, StreamNext, StreamText, StreamCall, StreamEnd, StreamEvent,
     StreamCut, StreamFails, RunStep, StoreInput, Prepare, Conclude, Write, YieldResult,
     YieldTerminal, Proceed, Hook, AnswerMalformed, StartDispatch, ResponseOver, TakeDelta, TakeEnd,
     Settle, SettleCancelled, FinalizeBegin, GracePass, FinalizeCompleted, FinalizeDeferred,
     FinalizeKilled, Reaped, ReapAbandoned, Release, ToolStep, ToolEmits,
     ToolEnds, Pull, SinkStep, SinkDelivers, SinkDrops, Fault, InputFails, WriteFails,
     CancelLoop, CancelDispatch, Host, Abandon, Preempt, Interrupt, CloseSink, Finished,
     vars, toolVars
<1>3. ASSUME KillDispatch
      PROVE  /\ \A c \in Calls : tools[c] = "done" => tools'[c] = "done"
             /\ dispatch = "cancelled" => dispatch' = "cancelled"
  BY <1>3 DEF KillDispatch
<1>4. ASSUME NEW c \in Calls, ToolBegin(c) \/ ToolReturns(c) \/ ToolCancelsItself(c) \/ ToolStops(c)
      PROVE  /\ \A d \in Calls : tools[d] = "done" => tools'[d] = "done"
             /\ dispatch = "cancelled" => dispatch' = "cancelled"
  <2>1. \A d \in Calls : tools[d] = "done" => tools'[d] = "done"
    BY <1>4 DEF ToolBegin, ToolReturns, ToolCancelsItself, ToolStops, TaskTypes
  <2>2. dispatch = "cancelled" => tools[c] # "running"
    BY DEF ToolsInv, DispatchInv, TaskStates
  <2> QED
    BY <1>4, <2>1, <2>2 DEF ToolBegin, ToolReturns, ToolCancelsItself, ToolStops
<1>5. /\ \A c \in Calls : tools[c] = "done" => tools'[c] = "done"
      /\ dispatch = "cancelled" => dispatch' = "cancelled"
  BY <1>2, <1>3, <1>4 DEF BeginDispatch, EndDispatch
<1>6. sink \in Afterlife => pc \notin Awaiting
  BY DEF ToolsInv, OwnerInv, Afterlife
<1>7. sink \in Afterlife => sink' \in Afterlife
  BY <1>6 DEF Next, StreamNext, StreamText, StreamCall, StreamEnd, StreamEvent,
     StreamCut, StreamFails, RunStep, StoreInput, Prepare, Conclude, Write, YieldResult,
     YieldTerminal, Proceed, Hook, AnswerMalformed, StartDispatch, ResponseOver, TakeDelta, TakeEnd,
     Settle, SettleCancelled, FinalizeBegin, GracePass, FinalizeCompleted, FinalizeDeferred,
     FinalizeKilled, Decided, Reaped, ReapAbandoned, Release, BeginDispatch, ToolStep, ToolBegin,
     ToolEmits, ToolEnds, ToolReturns, ToolCancelsItself, ToolStops, EndDispatch, Pull, SinkStep,
     SinkDelivers, SinkDrops, Fault, InputFails, WriteFails, CancelLoop, CancelDispatch, Host,
     Abandon, Preempt, Interrupt, CloseSink, Finished, vars, sinkVars, Awaiting, Afterlife
<1>8. pc \in Saving => UNCHANGED iteration
  BY DEF Next, StreamNext, StreamText, StreamCall, StreamEnd, StreamEvent,
     StreamCut, StreamFails, RunStep, StoreInput, Prepare, Conclude, Write, YieldResult,
     YieldTerminal, Proceed, Hook, AnswerMalformed, StartDispatch, ResponseOver, TakeDelta, TakeEnd,
     Settle, SettleCancelled, FinalizeBegin, GracePass, FinalizeCompleted, FinalizeDeferred,
     FinalizeKilled, Reaped, ReapAbandoned, Release, BeginDispatch, ToolStep, ToolBegin, ToolEmits,
     ToolEnds, ToolReturns, ToolCancelsItself, ToolStops, EndDispatch, Pull, SinkStep,
     SinkDelivers, SinkDrops, Fault, InputFails, WriteFails, CancelLoop, CancelDispatch, Host,
     Abandon, Preempt, Interrupt, CloseSink, Finished, vars, runVars, Saving
<1> QED
  BY <1>1, <1>5, <1>7, <1>8

\* So what a result says of the batch stays so.
LEMMA SaidStays ==
  ASSUME TaskTypes, ToolsInv, Next, pc \notin {"top", "streaming"},
         NEW c \in Calls, NEW o, SaidOfBatch(c, o)
  PROVE  SaidOfBatch(c, o)'
BY BatchStays DEF SaidOfBatch, Runnable

\* What is stored already goes on speaking of the batch of its round.
LEMMA StoredSaidStays ==
  ASSUME PlanInv, ToolsInv, RepliesInv, BatchSaidInv, Next,
         NEW s \in Stored, s[1] = iteration'
  PROVE  SaidOfBatch(s[2], s[3])'
<1>1. iteration \in Nat /\ s[1] \in Nat /\ s[2] \in Calls /\ s[1] <= Settled(pc, iteration)
  BY StoredTrue, AgentRunAssumption DEF PlanInv, RunInv, RunTypes, Rounds
<1>2. iteration' = iteration \/ iteration' = iteration + 1
  BY ToolsMove DEF PlanInv
<1>3. iteration' = iteration /\ pc \notin Unspoken
  BY <1>1, <1>2 DEF Settled
<1>4. SaidOfBatch(s[2], s[3])
  BY <1>3 DEF BatchSaidInv
<1> QED
  BY <1>1, <1>3, <1>4, SaidStays DEF PlanInv, Unspoken

\* A turn that was cut off stays so, and asks for nothing more.
LEMMA CutOffStays ==
  ASSUME PlanInv, ToolsInv, Next, CutOff PROVE CutOff' /\ UNCHANGED iteration
<1>1. CutOff'
  <2>1. StoreStep \/ PlainStored \/ Decides \/ Goes \/ UNCHANGED <<runVars, history>>
    BY StoringSteps DEF PlanInv, ToolsInv
  <2> QED
    BY <2>1 DEF StoreStep, PlainStored, Decides, Goes, CutOff, Saving, Awaiting, runVars
<1>2. UNCHANGED iteration
  BY DEF CutOff, Next, StreamNext, StreamText, StreamCall, StreamEnd, StreamEvent,
     StreamCut, StreamFails, RunStep, StoreInput, Prepare, Conclude, Write, YieldResult,
     YieldTerminal, Proceed, Hook, AnswerMalformed, StartDispatch, TakeDelta, TakeEnd,
     Settle, SettleCancelled, FinalizeBegin, GracePass, FinalizeCompleted, FinalizeDeferred,
     FinalizeKilled, Reaped, ReapAbandoned, Release, BeginDispatch, ToolStep, ToolBegin, ToolEmits,
     ToolEnds, ToolReturns, ToolCancelsItself, ToolStops, EndDispatch, Pull, SinkStep,
     SinkDelivers, SinkDrops, Fault, InputFails, WriteFails, CancelLoop, CancelDispatch, Host,
     Abandon, Preempt, Interrupt, CloseSink, Finished, vars, runVars
<1> QED
  BY <1>1, <1>2

\* A batch the finalizer awaits after it cancelled it ends cancelled.
LEMMA ReapingStep ==
  ASSUME PlanInv, ToolsInv, Next, pc = "reaping" => dispatch \in {"unwinding", "cancelled"},
         pc' = "reaping"
  PROVE  dispatch' \in {"unwinding", "cancelled"}
<1>1. CASE FinalizeKilled
  <2>1. dispatch # "none" /\ dispatch # "done"
    BY <1>1 DEF FinalizeKilled, Decided, ToolsInv, OwnerInv, Awaiting
  <2> QED
    BY <1>1, <2>1 DEF FinalizeKilled, KillDispatch, PlanInv, TaskTypes
<1>2. CASE UNCHANGED <<pc, dispatch>>
  BY <1>2
<1>3. CASE UNCHANGED pc /\ (BeginDispatch \/ EndDispatch \/ \E c \in Calls : ToolCancelsItself(c))
  BY <1>3 DEF BeginDispatch, EndDispatch, ToolCancelsItself
<1>4. CASE Interrupt
  <2>1. UNCHANGED pc /\ sink \in {"none", "active"}
    BY <1>4 DEF Interrupt, runVars, ToolsInv, OwnerInv, Awaiting
  <2> QED
    BY <1>2, <1>4, <2>1 DEF Interrupt
<1>5. \/ FinalizeKilled \/ UNCHANGED <<pc, dispatch>> \/ Interrupt
      \/ UNCHANGED pc /\ (BeginDispatch \/ EndDispatch \/ \E c \in Calls : ToolCancelsItself(c))
  <2>1. CASE StreamNext
    BY <2>1 DEF StreamNext, StreamText, StreamCall, StreamEnd, StreamEvent, StreamCut,
       StreamFails, Reporting
  <2>2. CASE RunStep
    <3>1. pc' # "reaping" \/ FinalizeKilled \/ UNCHANGED <<pc, dispatch>>
      <4>1. plan.next # "reaping"
        BY DEF PlanInv, RunInv, RunTypes, Plans
      <4> QED
        BY <2>2, <4>1 DEF RunStep, StoreInput, Prepare, Conclude, Write, YieldResult, YieldTerminal,
           Proceed, Hook, NextIteration, AnswerMalformed, StartDispatch, TakeDelta, TakeEnd, Settle,
           SettleCancelled, FinalizeBegin, GracePass, FinalizeCompleted, FinalizeDeferred, Reaped,
           Closing, ReapAbandoned, Release, Storing, Reporting, Unwind, toolVars
    <3> QED
      BY <3>1
  <2>3. CASE ToolStep
    BY <2>3 DEF ToolStep, ToolBegin, ToolEmits, ToolEnds, ToolReturns, ToolCancelsItself, ToolStops,
       runVars
  <2>4. CASE BeginDispatch \/ EndDispatch \/ Pull \/ SinkStep \/ Fault \/ Host \/ Finished
    BY <2>4 DEF BeginDispatch, EndDispatch, Pull, SinkStep, SinkDelivers, SinkDrops, Fault,
       InputFails, WriteFails, CancelLoop, CancelDispatch, Unwind, Reporting, Host, Abandon, Preempt,
       CloseSink, Finished, vars, runVars, toolVars, Ended
  <2> QED
    BY <2>1, <2>2, <2>3, <2>4 DEF Next
<1> QED
  BY <1>1, <1>2, <1>3, <1>4, <1>5

\* What a run decides to store speaks of its batch.
LEMMA DecidedSaid ==
  ASSUME PlanInv, ToolsInv, BatchSaidInv, Decides, Next, (plan.batch # <<Answer>>)'
  PROVE  /\ UNCHANGED turn
         /\ \A c \in turn.calls : \A o : o = Results'[c] =>
              /\ SaidOfBatch(c, o)'
              /\ pc' = "writing" => o \notin CutOutcomes
<1>0. /\ turn.calls \in SUBSET Calls /\ turn.malformed \in SUBSET Calls /\ grace \in 0..2 /\ 0 \in 0..2
      /\ << >> \in Outs /\ <<EndEvent("error")>> \in Outs /\ RunInv /\ TaskTypes
      /\ "writing" \in Saving /\ "closing" \in Saving
  BY DEF PlanInv, RunInv, RunTypes, Turns, Outs, Saving
<1>1. CASE Conclude
  <2>1. CASE Storing("writing", <<Answer>>, {}, Verdict.out, Verdict.next)
    <3>1. plan'.batch = <<Answer>>
      BY <1>0, <1>1, <2>1, VerdictTyped, PlanAnswering DEF Conclude
    <3>2. Answer' = Answer
      BY <1>1 DEF Conclude, Answer
    <3> QED
      BY <3>1, <3>2
  <2>2. CASE Storing("writing", ExchangeOf([c \in turn.calls |-> "refused"]),
                     turn.calls, Verdict.out, Verdict.next)
    <3>1. Results' = [c \in turn.calls |-> "refused"] /\ UNCHANGED turn
      BY <1>0, <1>1, <2>2, VerdictTyped, Outcome, PlanStoring DEF Conclude
    <3>2. \A c \in turn.calls : Results'[c] = "refused"
      BY <3>1
    <3> QED
      BY <3>1, <3>2 DEF SaidOfBatch, CutOutcomes
  <2> QED
    BY <1>1, <2>1, <2>2 DEF Conclude
<1>2. CASE AnswerMalformed
  <2>1. Results' = [c \in turn.calls |-> "malformed"] /\ UNCHANGED turn
    BY <1>0, <1>2, Outcome, PlanStoring DEF AnswerMalformed
  <2>2. \A c \in turn.calls : Results'[c] = "malformed"
    BY <2>1
  <2> QED
    BY <2>1, <2>2 DEF SaidOfBatch, CutOutcomes
<1>3. CASE Settle \/ FinalizeCompleted
  <2>1. Results' = Completed /\ UNCHANGED <<turn, tools>>
    BY <1>0, <1>3, Outcome, PlanStoring DEF Settle, FinalizeCompleted, Closing, toolVars
  <2>2. \A c \in turn.calls : Results'[c] = IF c \in turn.malformed THEN "malformed" ELSE "ok"
    BY <2>1 DEF Completed
  <2>3. ASSUME NEW c \in turn.calls, c \notin turn.malformed PROVE tools[c] = "done"
    <3>1. pc \in Awaiting /\ dispatch = "done" /\ c \in Calls /\ c \in Runnable
      BY <1>0, <1>3, <2>3 DEF Settle, FinalizeCompleted, Decided, Awaiting, Runnable
    <3> QED
      BY <3>1 DEF ToolsInv, DispatchInv, RanInv, TaskStates
  <2> QED
    BY <2>1, <2>2, <2>3 DEF SaidOfBatch, CutOutcomes
<1>4. CASE FinalizeDeferred
  <2>1. Results' = Aborted("deferred") /\ UNCHANGED turn /\ sink' = "deferred" /\ pc' = "closing"
    BY <1>0, <1>4, Outcome, PlanStoring DEF FinalizeDeferred, Closing, Storing
  <2>2. \A c \in turn.calls : Results'[c] = IF c \in turn.malformed THEN "malformed" ELSE "deferred"
    BY <2>1 DEF Aborted
  <2> QED
    BY <2>1, <2>2 DEF SaidOfBatch, Runnable, Afterlife
<1>5. CASE Reaped
  <2>1. Results' = Aborted("interrupted") /\ UNCHANGED <<turn, dispatch>> /\ pc' = "closing"
    BY <1>0, <1>5, Outcome, PlanStoring DEF Reaped, Closing, Storing, toolVars
  <2>2. \A c \in turn.calls : Results'[c] = IF c \in turn.malformed THEN "malformed" ELSE "interrupted"
    BY <2>1 DEF Aborted
  <2>3. dispatch = "cancelled"
    BY <1>5 DEF Reaped, DispatchOver, BatchSaidInv
  <2> QED
    BY <2>1, <2>2, <2>3 DEF SaidOfBatch, Runnable
<1> QED
  BY <1>1, <1>2, <1>3, <1>4, <1>5 DEF Decides

\* Every step keeps what the results say of the batch.
LEMMA SaidStep ==
  ASSUME PlanInv, ToolsInv, RepliesInv, BatchSaidInv, Next PROVE BatchSaidInv'
<1>0. RunInv /\ TaskTypes /\ OwnerInv
  BY DEF PlanInv, ToolsInv
<1>1. (pc = "reaping" => dispatch \in {"unwinding", "cancelled"})'
  BY ReapingStep DEF BatchSaidInv
<1>2. ASSUME NEW s \in Stored
      PROVE  /\ s[1] = iteration' => SaidOfBatch(s[2], s[3])'
             /\ s[3] \in CutOutcomes => s[1] = iteration' /\ CutOff'
  BY StoredSaidStays, CutOffStays DEF BatchSaidInv
<1>3. CASE StoreStep /\ Stored' = Stored \cup New /\ plan.batch # <<Answer>> /\ pc' = "yielding"
  <2>1. /\ UNCHANGED <<iteration, turn>> /\ pc \in Saving /\ turn.calls \subseteq Calls
        /\ pc \notin {"top", "streaming"}
    BY <1>0, <1>3 DEF StoreStep, RunInv, RunTypes, Turns, Saving
  <2>2. ASSUME NEW c \in turn.calls
        PROVE  /\ SaidOfBatch(c, Results[c])
               /\ pc = "writing" => Results[c] \notin CutOutcomes
    BY <1>3, <2>1 DEF BatchSaidInv
  <2>3. pc = "closing" => plan'.next = "raised"
    BY <1>0, <1>3 DEF StoreStep, Carries, Unwind, Reporting, RunInv
  <2>4. ASSUME NEW s \in New
        PROVE  /\ SaidOfBatch(s[2], s[3])'
               /\ s[3] \in CutOutcomes => s[1] = iteration' /\ CutOff'
    <3>1. PICK c \in turn.calls : s = <<iteration, c, Results[c]>>
      BY DEF New
    <3>2. PICK o : o = Results[c]
      OBVIOUS
    <3>3. s[1] = iteration /\ s[2] = c /\ s[3] = o
      BY <3>1, <3>2
    <3>4. SaidOfBatch(c, o) /\ (pc = "writing" => o \notin CutOutcomes)
      BY <2>2, <3>2
    <3>5. SaidOfBatch(c, o)'
      BY <1>0, <2>1, <3>4, SaidStays
    <3>6. s[3] \in CutOutcomes => CutOff'
      BY <1>3, <2>1, <2>3, <3>3, <3>4 DEF CutOff, Saving
    <3>7. SaidOfBatch(s[2], s[3])'
      BY <3>3, <3>5 DEF SaidOfBatch
    <3> QED
      BY <2>1, <3>3, <3>6, <3>7
  <2>5. pc' \notin Saving
    BY <1>3 DEF Saving
  <2> QED
    BY <1>1, <1>2, <1>3, <2>4, <2>5 DEF BatchSaidInv
<1>4. CASE Stored' = Stored /\ pc' \notin Saving
  BY <1>1, <1>2, <1>4 DEF BatchSaidInv
<1>5. CASE Stored' = Stored /\ pc' = pc /\ pc \in Saving /\ Results' = Results /\ UNCHANGED turn
           /\ ((plan.batch # <<Answer>>)' => plan.batch # <<Answer>>)
  <2>1. ASSUME (plan.batch # <<Answer>>)', NEW c \in turn.calls
        PROVE  SaidOfBatch(c, Results[c])' /\ (pc' = "writing" => Results[c] \notin CutOutcomes)
    <3>1. PICK o : o = Results[c]
      OBVIOUS
    <3>2. SaidOfBatch(c, o) /\ (pc = "writing" => o \notin CutOutcomes)
      BY <1>5, <2>1, <3>1 DEF BatchSaidInv
    <3>3. c \in Calls /\ pc \notin {"top", "streaming"}
      BY <1>0, <1>5 DEF RunInv, RunTypes, Turns, Saving
    <3>4. SaidOfBatch(c, o)'
      BY <1>0, <3>2, <3>3, SaidStays
    <3>5. Results'[c] = o
      BY <1>5, <3>1
    <3> QED
      BY <1>5, <3>1, <3>2, <3>4, <3>5 DEF SaidOfBatch
  <2> QED
    BY <1>1, <1>2, <1>5, <2>1 DEF BatchSaidInv
<1>6. CASE Decides
  <2>1. Stored' = Stored
    BY <1>0, <1>6, NothingElseStored
  <2> QED
    BY <1>1, <1>2, <1>6, <2>1, DecidedSaid DEF BatchSaidInv
<1>7. CASE UNCHANGED <<runVars, history>>
  <2>1. Stored' = Stored /\ UNCHANGED <<pc, plan, turn, iteration>>
    BY <1>0, <1>7, NothingElseStored DEF runVars
  <2>2. Results' = Results /\ Answer' = Answer
    BY <2>1 DEF Results, Answer
  <2> QED
    BY <1>4, <1>5, <2>1, <2>2
<1>8. CASE PlainStored \/ Goes
  BY <1>0, <1>4, <1>8, NothingElseStored DEF PlainStored, Goes
<1>9. CASE StoreStep
  BY <1>0, <1>3, <1>4, <1>5, <1>9, StoreStored DEF StoreStep, Saving
<1> QED
  BY <1>0, <1>6, <1>7, <1>8, <1>9, StoringSteps

\* An empty history speaks of nothing.
LEMMA SaidInit == Init => BatchSaidInv
BY DEF Init, BatchSaidInv, Stored, Saving

\* The fourth layer of the invariant.
LEMMA SaidKept ==
  ASSUME PlanInv, ToolsInv, HistoryInv, BatchSaidInv, [Next]_vars PROVE BatchSaidInv'
<1>1. CASE Next
  BY <1>1, SaidStep DEF HistoryInv
<1>2. CASE UNCHANGED vars
  BY <1>2 DEF vars, BatchSaidInv, Stored, SaidOfBatch, Runnable, CutOff, Results, Answer
<1> QED
  BY <1>1, <1>2

\* The invariants say what HistoryIsSound does.
LEMMA HistorySound == ASSUME PlanInv, HistoryInv, BatchSaidInv PROVE HistoryIsSound
<1>1. ASSUME NEW i \in 1..Len(history), history[i].kind = "request"
      PROVE  \/ /\ i < Len(history)
                /\ history[i + 1].kind = "reply"
                /\ DOMAIN history[i + 1].of = history[i].calls
             \/ /\ i = Len(history)
                /\ \/ pc \in {"writing", "closing"} /\ plan.batch # << >>
                   \/ pc = "yielding" /\ plan.next = "raised"
                   \/ pc \in {"raised", "closed"}
  <2>1. history \in Seq(Messages) /\ Len(history) \in Nat
    BY DEF PlanInv, RunInv, RunTypes
  <2>2. CASE i < Len(history)
    <3>1. i \in 1..(Len(history) - 1)
      BY <2>1, <2>2
    <3> QED
      BY <1>1, <2>2, <3>1 DEF HistoryInv, PairedInv, Paired
  <2>3. CASE i = Len(history)
    <3>1. Orphan(history)
      BY <1>1, <2>1, <2>3 DEF Orphan
    <3>2. plan.batch = <<Reply(Results)>> => plan.batch # << >>
      OBVIOUS
    <3> QED
      BY <2>3, <3>1, <3>2 DEF HistoryInv, PairedInv, Saving
  <2> QED
    BY <2>1, <2>2, <2>3
<1>2. ASSUME NEW s \in Stored
      PROVE  /\ s[3] = "ok" => TrueOfCompleted(s)
             /\ s[3] \in {"malformed", "refused"} => TrueOfUnrun(s)
             /\ s[3] = "interrupted" => TrueOfCutOff(s) /\ dispatch = "cancelled"
             /\ s[3] = "deferred" =>
                  TrueOfCutOff(s) /\ sink \in {"deferred", "closed", "delivered", "dropped"}
  <2>1. True(s[1], s[2], s[3])
    BY StoredTrue DEF HistoryInv
  <2>2. s[1] = iteration => SaidOfBatch(s[2], s[3])
    BY DEF BatchSaidInv
  <2>3. s[3] \in CutOutcomes => s[1] = iteration /\ CutOff
    BY DEF BatchSaidInv
  <2> QED
    BY <2>1, <2>2, <2>3 DEF True, SaidOfBatch, CutOutcomes, Afterlife,
       TrueOfCompleted, TrueOfUnrun, TrueOfCutOff
<1> QED
  BY <1>1, <1>2 DEF HistoryIsSound, OrphanOnlyAtTheEnd, TruthfulResults

\* Whichever way the store appends, the conversation can be sent to the
\* provider, a request without its results being its last message and of a run
\* that stores them next or ends; and a result says what happened: a handler
\* that ran and returned, a call that was never run, or, for the last round of
\* a turn that was cut off, a batch that was cancelled before it ended or one
\* that the sink took over (agent.py, Agent._finalize_interrupted_dispatch).
\* That the call itself had not returned when its batch was cancelled is not
\* so, and not claimed.
THEOREM HistoryStaysSound == Spec => []HistoryIsSound
<1>1. Init => PlanInv /\ ToolsInv /\ HistoryInv /\ BatchSaidInv
  BY PlanInit, ToolsInit, HistoryInit, SaidInit
<1>2. PlanInv /\ ToolsInv /\ HistoryInv /\ BatchSaidInv /\ [Next]_vars
        => (PlanInv /\ ToolsInv /\ HistoryInv /\ BatchSaidInv)'
  BY PlanStep, ToolsStep, HistoryStep, SaidKept
<1>3. PlanInv /\ HistoryInv /\ BatchSaidInv => HistoryIsSound
  BY HistorySound
<1> QED
  BY <1>1, <1>2, <1>3, PTL DEF Spec

-----------------------------------------------------------------------------
(* Every step keeps the report behind the store.                           *)

\* What the caller has been given of an event that is added to the others.
LEMMA ShownAppend ==
  ASSUME emitted \in Seq(Events), NEW e \in Events, emitted' = Append(emitted, e)
  PROVE  /\ \A i \in ResultsSeen' :
              \/ i \in ResultsSeen /\ emitted'[i] = emitted[i]
              \/ i = Len(emitted) + 1 /\ emitted'[i] = e /\ e.type = "result"
         /\ \A at, c : Shown(emitted', at, c) <=>
              Shown(emitted, at, c) \/ (e.type = "result" /\ e.at = at /\ e.call = c)
<1>1. Len(emitted') = Len(emitted) + 1 /\ emitted'[Len(emitted) + 1] = e /\ Len(emitted) \in Nat
      /\ \A i \in 1..Len(emitted) : emitted'[i] = emitted[i]
  OBVIOUS
<1>2. \A i \in ResultsSeen' :
        \/ i \in ResultsSeen /\ emitted'[i] = emitted[i]
        \/ i = Len(emitted) + 1 /\ emitted'[i] = e /\ e.type = "result"
  <2> SUFFICES ASSUME NEW i \in 1..Len(emitted'), emitted'[i].type = "result"
               PROVE  \/ i \in ResultsSeen /\ emitted'[i] = emitted[i]
                      \/ i = Len(emitted) + 1 /\ emitted'[i] = e /\ e.type = "result"
    BY DEF ResultsSeen
  <2>1. CASE i = Len(emitted) + 1
    BY <1>1, <2>1
  <2>2. CASE i # Len(emitted) + 1
    <3>1. i \in 1..Len(emitted)
      BY <1>1, <2>2
    <3> QED
      BY <1>1, <3>1 DEF ResultsSeen
  <2> QED
    BY <2>1, <2>2
<1>3. \A i \in ResultsSeen : i \in ResultsSeen' /\ emitted'[i] = emitted[i]
  BY <1>1 DEF ResultsSeen
<1>4. e.type = "result" => Len(emitted) + 1 \in ResultsSeen' /\ emitted'[Len(emitted) + 1] = e
  BY <1>1 DEF ResultsSeen
<1>5. ASSUME NEW at, NEW c
      PROVE  Shown(emitted', at, c) <=> Shown(emitted, at, c) \/ (e.type = "result" /\ e.at = at /\ e.call = c)
  BY <1>2, <1>3, <1>4 DEF Shown, ResultsSeen
<1> QED
  BY <1>2, <1>5

\* A step that tells nothing.
LEMMA ShownSame == ASSUME UNCHANGED emitted PROVE ResultsSeen' = ResultsSeen
BY DEF ResultsSeen

\* The types of what has been given.
LEMMA SeenTyped ==
  ASSUME RunInv
  PROVE  \A i \in ResultsSeen : emitted[i].at \in Rounds /\ emitted[i].call \in Calls
<1> SUFFICES ASSUME NEW i \in 1..Len(emitted), emitted[i].type = "result"
             PROVE  emitted[i].at \in Rounds /\ emitted[i].call \in Calls
  BY DEF ResultsSeen
<1>1. emitted[i] \in Events
  BY DEF RunInv, RunTypes
<1> QED
  BY <1>1 DEF Events, ErrorEvent

-----------------------------------------------------------------------------
(* What is reported of the results.                                        *)

\* Only two actions give the caller one of these events.
LEMMA EmitMoves == ASSUME Next PROVE UNCHANGED emitted \/ YieldResult \/ YieldTerminal
BY DEF Next, StreamNext, StreamText, StreamCall, StreamEnd, StreamEvent,
   StreamCut, StreamFails, RunStep, StoreInput, Prepare, Conclude, Write, Proceed, Hook,
   AnswerMalformed, StartDispatch, TakeDelta, TakeEnd, Settle, SettleCancelled, FinalizeBegin,
   GracePass, FinalizeCompleted, FinalizeDeferred, FinalizeKilled, Reaped, ReapAbandoned, Release,
   BeginDispatch, ToolStep, ToolBegin, ToolEmits, ToolEnds, ToolReturns, ToolCancelsItself,
   ToolStops, EndDispatch, Pull, SinkStep, SinkDelivers, SinkDrops, Fault, InputFails, WriteFails,
   CancelLoop, CancelDispatch, Host, Abandon, Preempt, Interrupt, CloseSink, Finished, vars, runVars

\* A stored result stays stored.
LEMMA StoredGrows == ASSUME RunInv, OwnerInv, Next PROVE Stored \subseteq Stored'
BY StoringSteps, StoreStored, NothingElseStored

\* While a round's results are not stored, none of them has been reported.
LEMMA NotYetShown ==
  ASSUME RunInv, ToldInv, pc \in Unspoken
  PROVE  \A c : ~Shown(emitted, iteration, c)
<1> SUFFICES ASSUME NEW i \in ResultsSeen, emitted[i].at = iteration PROVE FALSE
  BY DEF Shown, ResultsSeen
<1>1. iteration <= iteration - 1 /\ iteration \in Nat
  BY AgentRunAssumption DEF ToldInv, Settled, RunInv, RunTypes, Rounds
<1> QED
  BY <1>1

\* What has been reported stays in order when no result is added.
LEMMA ToldStays ==
  ASSUME PlanInv, ToolsInv, ToldInv, Next,
         \A i \in ResultsSeen' : i \in ResultsSeen /\ emitted'[i] = emitted[i]
  PROVE  ToldInv'
<1>1. Stored \subseteq Stored'
  BY StoredGrows DEF PlanInv, ToolsInv
<1>2. ASSUME NEW i \in ResultsSeen'
      PROVE  /\ \E o \in Outcomes \ {"deferred"} : <<emitted'[i].at, emitted'[i].call, o>> \in Stored'
             /\ emitted'[i].at <= Settled(pc, iteration)'
  <2>1. i \in ResultsSeen /\ emitted'[i] = emitted[i]
    OBVIOUS
  <2>2. emitted[i].at <= Settled(pc, iteration) /\ emitted[i].at \in Rounds
    BY <2>1, SeenTyped DEF ToldInv, PlanInv
  <2>3. emitted[i].at <= Settled(pc, iteration)'
    BY <2>2, SettledGrows, AgentRunAssumption DEF PlanInv, Rounds
  <2> QED
    BY <1>1, <2>1, <2>3 DEF ToldInv
<1>3. \A i, j \in ResultsSeen' : emitted'[i] = emitted'[j] => i = j
  BY DEF ToldInv
<1> QED
  BY <1>2, <1>3 DEF ToldInv

\* The report of a result.
LEMMA ReportYields ==
  ASSUME PlanInv, ToolsInv, ReportInv, Next, YieldResult PROVE ReportInv'
<1>1. PICK c \in plan.report : /\ emitted' = Append(emitted, ResultEvent(c))
                               /\ plan' = [plan EXCEPT !.report = plan.report \ {c}]
  BY DEF YieldResult
<1>2. /\ pc = "yielding" /\ UNCHANGED <<pc, iteration, turn, history>>
      /\ emitted \in Seq(Events) /\ iteration \in Rounds /\ c \in Calls
      /\ plan = [batch |-> plan.batch, report |-> plan.report, out |-> plan.out, next |-> plan.next]
  BY DEF YieldResult, PlanInv, RunInv, RunTypes, Plans, IsPlan
<1>3. plan'.report = plan.report \ {c} /\ plan'.next = plan.next
  BY <1>1, <1>2
<1>4. PICK e : e = ResultEvent(c)
  OBVIOUS
<1>5. e \in Events /\ e.type = "result" /\ e.at = iteration /\ e.call = c
  BY <1>2, <1>4 DEF ResultEvent, Events
<1>6. /\ \A i \in ResultsSeen' :
           \/ i \in ResultsSeen /\ emitted'[i] = emitted[i]
           \/ i = Len(emitted) + 1 /\ emitted'[i] = e
      /\ \A at, d : Shown(emitted', at, d) <=> Shown(emitted, at, d) \/ (at = iteration /\ d = c)
  <2>1. emitted' = Append(emitted, e) /\ emitted \in Seq(Events)
    BY <1>1, <1>2, <1>4
  <2>2. /\ \A i \in ResultsSeen' :
             \/ i \in ResultsSeen /\ emitted'[i] = emitted[i]
             \/ i = Len(emitted) + 1 /\ emitted'[i] = e /\ e.type = "result"
        /\ \A at, d : Shown(emitted', at, d) <=>
             Shown(emitted, at, d) \/ (e.type = "result" /\ e.at = at /\ e.call = d)
    BY <1>5, <2>1, ShownAppend
  <2> QED
    BY <1>5, <2>2
<1>7. Stored' = Stored
  BY <1>2 DEF Stored
<1>8. (\E o \in Outcomes \ {"deferred"} : <<iteration, c, o>> \in Stored) /\ ~Shown(emitted, iteration, c)
  BY <1>2 DEF ReportInv, DueInv
<1>9. ToldInv'
  <2>1. ASSUME NEW i \in ResultsSeen'
        PROVE  /\ \E o \in Outcomes \ {"deferred"} : <<emitted'[i].at, emitted'[i].call, o>> \in Stored'
               /\ emitted'[i].at <= Settled(pc, iteration)'
    <3>1. Settled(pc, iteration)' = Settled(pc, iteration) /\ iteration <= Settled(pc, iteration)
      BY <1>2, AgentRunAssumption DEF Settled, Unspoken, Rounds
    <3>2. CASE i \in ResultsSeen /\ emitted'[i] = emitted[i]
      BY <1>7, <3>1, <3>2 DEF ReportInv, ToldInv
    <3>3. CASE emitted'[i] = e
      BY <1>5, <1>7, <1>8, <3>1, <3>3
    <3> QED
      BY <1>6, <3>2, <3>3
  <2>2. ASSUME NEW i \in ResultsSeen', NEW j \in ResultsSeen', emitted'[i] = emitted'[j]
        PROVE  i = j
    <3>1. ASSUME NEW k \in ResultsSeen PROVE emitted[k] # e
      BY <1>5, <1>8 DEF Shown, ResultsSeen
    <3> QED
      BY <1>6, <2>2, <3>1 DEF ReportInv, ToldInv
  <2> QED
    BY <2>1, <2>2 DEF ToldInv
<1>10. DueInv'
  <2>1. pc' \notin Saving
    BY <1>2 DEF Saving
  <2>2. ASSUME NEW d \in plan'.report
        PROVE  (\E o \in Outcomes \ {"deferred"} : <<iteration', d, o>> \in Stored') /\ ~Shown(emitted', iteration, d)
    <3>1. d \in plan.report /\ d # c
      BY <1>3
    <3>2. ~Shown(emitted, iteration, d) /\ \E o \in Outcomes \ {"deferred"} : <<iteration, d, o>> \in Stored
      BY <1>2, <3>1 DEF ReportInv, DueInv
    <3> QED
      BY <1>2, <1>6, <1>7, <3>1, <3>2
  <2>3. pc' # "writing"
    BY <1>2
  <2> QED
    BY <1>2, <2>1, <2>2, <2>3 DEF DueInv
<1>11. AllToldInv'
  <2> SUFFICES ASSUME OnItsWay', NEW s \in Stored'
               PROVE  Shown(emitted', s[1], s[2]) \/ (s[1] = iteration' /\ s[2] \in plan'.report)
    BY <1>2 DEF AllToldInv
  <2>1. OnItsWay
    BY <1>2, <1>3 DEF OnItsWay
  <2>2. Shown(emitted, s[1], s[2]) \/ (s[1] = iteration /\ s[2] \in plan.report)
    BY <1>7, <2>1 DEF ReportInv, AllToldInv
  <2> QED
    BY <1>2, <1>3, <2>2, <1>6
<1> QED
  BY <1>9, <1>10, <1>11 DEF ReportInv

\* The last events of a run are an error and its end.
LEMMA OutTypes ==
  \A o \in Outs : /\ o # << >> => Head(o).type \in {"error", "end"}
                  /\ o # << >> /\ Head(o).type = "error" => Tail(o) # << >>
                  /\ o # << >> /\ Head(o).type = "end" => Tail(o) = << >>
<1> SUFFICES ASSUME NEW o \in Outs, o # << >>
             PROVE  \/ Head(o).type = "error" /\ Tail(o) # << >>
                    \/ Head(o).type = "end" /\ Tail(o) = << >>
  OBVIOUS
<1>1. \A x, y : Head(<<x, y>>) = x /\ Tail(<<x, y>>) = <<y>> /\ Head(<<x>>) = x /\ Tail(<<x>>) = << >>
  OBVIOUS
<1>2. \A r : EndEvent(r).type = "end"
  BY DEF EndEvent
<1>3. ErrorEvent.type = "error"
  BY DEF ErrorEvent
<1>4. CASE o = ErrorEnd
  BY <1>1, <1>3, <1>4 DEF ErrorEnd
<1>5. ASSUME NEW r, o = <<EndEvent(r)>> PROVE Head(o).type = "end" /\ Tail(o) = << >>
  BY <1>1, <1>2, <1>5
<1> QED
  BY <1>4, <1>5 DEF Outs

\* A run that goes on owes what it owed, and owes nothing where it goes.
LEMMA GoesOn ==
  ASSUME PlanInv, Next, Goes, ~YieldResult
  PROVE  /\ pc' = "yielding" =>
              plan'.report = {} \/ (pc = "yielding" /\ plan'.report = plan.report /\ iteration' = iteration)
         /\ OnItsWay' => OnItsWay
         /\ OnItsWay' /\ pc = "yielding" =>
              \/ plan.report = {}
              \/ pc' = "yielding" /\ plan'.report = plan.report /\ iteration' = iteration
<1>1. OnItsWay' => OnItsWay
  <2>1. pc \in {"abandoned", "releasing"} => pc' \in {pc, "releasing", "closed"}
    BY DEF Next, StreamNext, StreamText, StreamCall, StreamEnd, StreamEvent, StreamCut, StreamFails,
       RunStep, StoreInput, Prepare, Conclude, ResponseOver, Write, YieldResult, YieldTerminal,
       Proceed, Hook, AnswerMalformed, StartDispatch, TakeDelta, TakeEnd, Settle, SettleCancelled,
       FinalizeBegin, GracePass, Decided, FinalizeCompleted, FinalizeDeferred, FinalizeKilled, Reaped,
       ReapAbandoned, Release, BeginDispatch, ToolStep, ToolBegin, ToolEmits, ToolEnds, ToolReturns,
       ToolCancelsItself, ToolStops, EndDispatch, Pull, SinkStep, SinkDelivers, SinkDrops, Fault,
       InputFails, WriteFails, CancelLoop, CancelDispatch, Host, Abandon, Preempt, Interrupt,
       CloseSink, Finished, vars, runVars
  <2>2. pc \in {"raised", "closed", "closing"} => FALSE
    BY DEF Goes, Saving
  <2>3. pc = "yielding" /\ plan.next = "raised" => ~OnItsWay'
    BY DEF Goes, OnItsWay
  <2>4. pc \in {"abandoned", "releasing"} => ~OnItsWay'
    BY <2>1 DEF OnItsWay
  <2> QED
    BY <2>2, <2>3, <2>4 DEF OnItsWay
<1>2. plan = [batch |-> plan.batch, report |-> plan.report, out |-> plan.out, next |-> plan.next]
  BY DEF PlanInv, RunInv, IsPlan
<1>3. CASE pc = "yielding"
  <2>1. YieldTerminal \/ Proceed \/ Abandon \/ UNCHANGED <<pc, iteration, plan>>
    BY <1>3 DEF Next, StreamNext, StreamText, StreamCall, StreamEnd, StreamEvent, StreamCut, StreamFails,
       RunStep, StoreInput, Prepare, Conclude, ResponseOver, Write, Hook, AnswerMalformed,
       StartDispatch, TakeDelta, TakeEnd, Settle, SettleCancelled, FinalizeBegin, GracePass, Decided,
       FinalizeCompleted, FinalizeDeferred, FinalizeKilled, Reaped, ReapAbandoned, Release,
       BeginDispatch, ToolStep, ToolBegin, ToolEmits, ToolEnds, ToolReturns, ToolCancelsItself,
       ToolStops, EndDispatch, Pull, SinkStep, SinkDelivers, SinkDrops, Fault, InputFails,
       WriteFails, CancelLoop, CancelDispatch, Host, Preempt, Interrupt, CloseSink, Finished,
       vars, runVars
  <2>2. CASE YieldTerminal
    <3>1. PICK x : plan' = [plan EXCEPT !.out = x]
      BY <2>2 DEF YieldTerminal
    <3>2. plan'.report = plan.report
      BY <1>2, <3>1
    <3> QED
      BY <1>1, <2>2, <3>2 DEF YieldTerminal
  <2>3. CASE Proceed
    <3>1. plan.report = {} /\ plan'.report = {}
      BY <2>3 DEF Proceed, NextIteration, Reporting, Idle
    <3> QED
      BY <1>1, <3>1
  <2>4. CASE Abandon
    BY <1>1, <1>3, <2>4 DEF Abandon, OnItsWay
  <2>5. CASE UNCHANGED <<pc, iteration, plan>>
    BY <1>1, <1>3, <2>5
  <2> QED
    BY <2>1, <2>2, <2>3, <2>4, <2>5
<1>4. CASE pc # "yielding"
  <2>1. pc' = "yielding" => plan'.report = {}
    <3> SUFFICES ASSUME pc' = "yielding" PROVE plan'.report = {}
      OBVIOUS
    <3>1. Hook \/ StreamFails \/ CancelLoop
      BY <1>4 DEF Goes, Saving, Next, StreamNext, StreamText, StreamCall, StreamEnd, StreamEvent, StreamCut,
       RunStep, StoreInput, Prepare, Conclude, ResponseOver, Write, YieldTerminal, Proceed,
       AnswerMalformed, Storing, StartDispatch, TakeDelta, TakeEnd, Settle, SettleCancelled,
       FinalizeBegin, GracePass, Decided, FinalizeCompleted, FinalizeDeferred, FinalizeKilled,
       Closing, Reaped, ReapAbandoned, Release, BeginDispatch, ToolStep, ToolBegin, ToolEmits, ToolEnds,
       ToolReturns, ToolCancelsItself, ToolStops, EndDispatch, Pull, SinkStep, SinkDelivers,
       SinkDrops, Fault, InputFails, WriteFails, CancelDispatch, Host, Abandon, Preempt, Interrupt,
       CloseSink, Finished, vars, runVars
    <3> QED
      BY <3>1 DEF Hook, NextIteration, Reporting, Idle, StreamFails, CancelLoop, Unwind
  <2> QED
    BY <1>1, <1>4, <2>1
<1> QED
  BY <1>3, <1>4

\* The step that goes on, or stores what is not a result.
LEMMA ReportMoves ==
  ASSUME PlanInv, ToolsInv, ReportInv, Next, PlainStored \/ Goes, ~YieldResult
  PROVE  ReportInv'
<1>1. Stored' = Stored
  BY NothingElseStored DEF PlanInv
<1>2. /\ pc' = "yielding" =>
           plan'.report = {} \/ (pc = "yielding" /\ plan'.report = plan.report /\ iteration' = iteration)
      /\ OnItsWay' => OnItsWay
      /\ OnItsWay' /\ pc = "yielding" =>
           \/ plan.report = {}
           \/ pc' = "yielding" /\ plan'.report = plan.report /\ iteration' = iteration
      /\ pc' \notin Saving
  <2>1. CASE Goes
    BY <2>1, GoesOn DEF Goes
  <2>2. CASE PlainStored /\ pc' # "yielding"
    BY <2>2 DEF PlainStored, OnItsWay
  <2>3. CASE PlainStored /\ pc' = "yielding"
    <3>1. Unwind
      BY <2>3 DEF PlainStored, Next, StreamNext, StreamText, StreamCall, StreamEnd, StreamEvent, StreamCut,
       StreamFails, RunStep, StoreInput, Prepare, Conclude, ResponseOver, Write, YieldTerminal, Proceed,
       AnswerMalformed, Storing, StartDispatch, TakeDelta, TakeEnd, Settle, SettleCancelled,
       FinalizeBegin, GracePass, Decided, FinalizeCompleted, FinalizeDeferred, FinalizeKilled, Hook,
       Closing, Reaped, ReapAbandoned, Release, BeginDispatch, ToolStep, ToolBegin, ToolEmits, ToolEnds,
       ToolReturns, ToolCancelsItself, ToolStops, EndDispatch, Pull, SinkStep, SinkDelivers,
       SinkDrops, Fault, InputFails, WriteFails, CancelLoop, CancelDispatch, Host, Abandon, Preempt,
       Interrupt, CloseSink, Finished, vars, runVars
    <3>2. plan'.report = {} /\ pc \in {"input", "top"}
      BY <2>3, <3>1 DEF Unwind, Reporting, PlainStored
    <3> QED
      BY <2>3, <3>2 DEF OnItsWay, Saving
  <2> QED
    BY <2>1, <2>2, <2>3
<1>3. /\ \A i \in ResultsSeen' : i \in ResultsSeen /\ emitted'[i] = emitted[i]
      /\ \A at, d : Shown(emitted', at, d) <=> Shown(emitted, at, d)
  <2>1. CASE UNCHANGED emitted
    BY <2>1, ShownSame
  <2>2. CASE YieldTerminal
    <3>1. PICK e : e = Head(plan.out)
      OBVIOUS
    <3>2. plan.out \in Outs /\ plan.out # << >> /\ emitted' = Append(emitted, e) /\ emitted \in Seq(Events)
      BY <2>2, <3>1 DEF YieldTerminal, PlanInv, RunInv, RunTypes
    <3>3. e.type \in {"error", "end"} /\ e \in Events
      BY <3>1, <3>2, OutsTyped, OutTypes
    <3>4. /\ \A i \in ResultsSeen' :
               \/ i \in ResultsSeen /\ emitted'[i] = emitted[i]
               \/ i = Len(emitted) + 1 /\ emitted'[i] = e /\ e.type = "result"
          /\ \A at, d : Shown(emitted', at, d) <=>
               Shown(emitted, at, d) \/ (e.type = "result" /\ e.at = at /\ e.call = d)
      BY <3>2, <3>3, ShownAppend
    <3> QED
      BY <3>3, <3>4
  <2> QED
    BY <2>1, <2>2, EmitMoves
<1>4. ToldInv'
  BY <1>3, ToldStays DEF ReportInv
<1>5. DueInv'
  <2>1. ASSUME pc' = "yielding", NEW d \in plan'.report
        PROVE  (\E o \in Outcomes \ {"deferred"} : <<iteration', d, o>> \in Stored') /\ ~Shown(emitted', iteration', d)
    BY <1>1, <1>2, <1>3, <2>1 DEF ReportInv, DueInv
  <2>2. pc' # "writing" /\ pc' \notin Saving
    BY <1>2 DEF Saving
  <2> QED
    BY <2>1, <2>2 DEF DueInv
<1>6. AllToldInv'
  <2> SUFFICES ASSUME OnItsWay', NEW s \in Stored'
               PROVE  Shown(emitted', s[1], s[2])
                      \/ (pc' = "yielding" /\ s[1] = iteration' /\ s[2] \in plan'.report)
    BY DEF AllToldInv
  <2>1. Shown(emitted, s[1], s[2]) \/ (pc = "yielding" /\ s[1] = iteration /\ s[2] \in plan.report)
    BY <1>1, <1>2 DEF ReportInv, AllToldInv
  <2> QED
    BY <1>2, <1>3, <2>1
<1> QED
  BY <1>4, <1>5, <1>6 DEF ReportInv

\* The results that the run decides to report are among those it decides to
\* store, and none of them is a placeholder.
LEMMA DecidedDue ==
  ASSUME PlanInv, Decides
  PROVE  /\ \A c \in plan'.report :
              plan'.batch # <<Answer>>' /\ c \in turn.calls /\ Results'[c] # "deferred"
         /\ pc' = "writing" /\ plan'.batch # <<Answer>>' => plan'.report = turn.calls
         /\ pc' = "writing" => pc \in {"streaming", "settle"}
         /\ UNCHANGED <<iteration, turn, emitted, history>>
<1>0. /\ turn.calls \in SUBSET Calls /\ turn.malformed \in SUBSET turn.calls
      /\ iteration \in Rounds /\ RunInv
      /\ << >> \in Outs /\ <<EndEvent("error")>> \in Outs
      /\ "writing" \in Saving /\ "closing" \in Saving
      /\ grace \in 0..2 /\ 0 \in 0..2
  BY DEF PlanInv, RunInv, RunTypes, Turns, Outs, Saving
<1>1. UNCHANGED <<iteration, turn, emitted, history>>
  BY DEF Decides, Conclude, AnswerMalformed, Settle, FinalizeCompleted, FinalizeDeferred, Reaped
<1>2. Answer' = Answer
  BY <1>1 DEF Answer
<1>3. pc' = "writing" => pc \in {"streaming", "settle"}
  BY DEF Decides, Conclude, ResponseOver, AnswerMalformed, Settle, FinalizeCompleted, FinalizeDeferred,
     Reaped, Closing, Storing
<1>4. ASSUME NEW f \in [turn.calls -> Outcomes], NEW at \in Saving, NEW report, NEW out, NEW next,
             Storing(at, ExchangeOf(f), report, out, next), Results' = f,
             report \subseteq turn.calls, \A c \in report : f[c] # "deferred",
             at = "writing" => report = turn.calls
      PROVE  /\ \A c \in plan'.report :
                  plan'.batch # <<Answer>>' /\ c \in turn.calls /\ Results'[c] # "deferred"
             /\ pc' = "writing" /\ plan'.batch # <<Answer>>' => plan'.report = turn.calls
  <2>1. plan'.batch = ExchangeOf(f) /\ plan'.report = report /\ pc' = at
    BY <1>4 DEF Storing
  <2>2. plan'.batch # <<Answer>>'
    BY <1>2, <2>1, BatchKinds
  <2> QED
    BY <1>4, <2>1, <2>2
<1>5. CASE Conclude
  <2>1. CASE Storing("writing", <<Answer>>, {}, Verdict.out, Verdict.next)
    <3>1. plan'.batch = <<Answer>> /\ plan'.report = {}
      BY <2>1 DEF Storing
    <3> QED
      BY <1>1, <1>2, <1>3, <3>1
  <2>2. CASE Storing("writing", ExchangeOf([c \in turn.calls |-> "refused"]),
                     turn.calls, Verdict.out, Verdict.next)
    <3> DEFINE f == [c \in turn.calls |-> "refused"]
    <3>1. Results' = f
      BY <1>0, <1>5, <2>2, VerdictTyped, Outcome, PlanStoring DEF Conclude
    <3>2. f \in [turn.calls -> Outcomes] /\ \A c \in turn.calls : f[c] # "deferred"
      BY DEF Outcomes
    <3> QED
      BY <1>0, <1>1, <1>3, <1>4, <2>2, <3>1, <3>2
  <2> QED
    BY <1>5, <2>1, <2>2 DEF Conclude
<1>6. CASE AnswerMalformed
  <2> DEFINE f == [c \in turn.calls |-> "malformed"]
  <2>1. Results' = f
    BY <1>0, <1>6, Outcome, PlanStoring DEF AnswerMalformed
  <2>2. f \in [turn.calls -> Outcomes] /\ \A c \in turn.calls : f[c] # "deferred"
    BY DEF Outcomes
  <2> QED
    BY <1>0, <1>1, <1>3, <1>4, <1>6, <2>1, <2>2 DEF AnswerMalformed
<1>7. CASE Settle \/ FinalizeCompleted
  <2>1. Results' = Completed
    BY <1>0, <1>7, Outcome, PlanStoring DEF Settle, FinalizeCompleted, Closing
  <2>2. Completed \in [turn.calls -> Outcomes] /\ \A c \in turn.calls : Completed[c] # "deferred"
    BY DEF Completed, Outcomes
  <2> QED
    BY <1>0, <1>1, <1>3, <1>4, <1>7, <2>1, <2>2 DEF Settle, FinalizeCompleted, Closing
<1>8. CASE FinalizeDeferred
  <2>1. Results' = Aborted("deferred")
    BY <1>0, <1>8, Outcome, PlanStoring DEF FinalizeDeferred, Closing
  <2>2. Aborted("deferred") \in [turn.calls -> Outcomes]
        /\ \A c \in turn.malformed : Aborted("deferred")[c] # "deferred"
    BY <1>0 DEF Aborted, Outcomes
  <2> QED
    BY <1>0, <1>1, <1>3, <1>4, <1>8, <2>1, <2>2 DEF FinalizeDeferred, Closing
<1>9. CASE Reaped
  <2>1. Results' = Aborted("interrupted")
    BY <1>0, <1>9, Outcome, PlanStoring DEF Reaped, Closing
  <2>2. Aborted("interrupted") \in [turn.calls -> Outcomes]
        /\ \A c \in turn.calls : Aborted("interrupted")[c] # "deferred"
    BY DEF Aborted, Outcomes
  <2> QED
    BY <1>0, <1>1, <1>3, <1>4, <1>9, <2>1, <2>2 DEF Reaped, Closing
<1> QED
  BY <1>5, <1>6, <1>7, <1>8, <1>9 DEF Decides

\* The step that decides what to store and to report.
LEMMA ReportDecides ==
  ASSUME PlanInv, ToolsInv, ReportInv, Next, Decides PROVE ReportInv'
<1>1. /\ \A c \in plan'.report :
           plan'.batch # <<Answer>>' /\ c \in turn'.calls /\ Results'[c] # "deferred"
      /\ pc' = "writing" /\ plan'.batch # <<Answer>>' => plan'.report = turn'.calls
      /\ pc' = "writing" => pc \in {"streaming", "settle"}
      /\ UNCHANGED <<iteration, turn, emitted, history>>
  BY DecidedDue
<1>2. Stored' = Stored
  BY <1>1 DEF Stored
<1>3. ToldInv'
  <2>1. \A i \in ResultsSeen' : i \in ResultsSeen /\ emitted'[i] = emitted[i]
    BY <1>1, ShownSame
  <2> QED
    BY <2>1, ToldStays DEF ReportInv
<1>4. DueInv'
  <2>1. pc' # "yielding"
    BY DEF Decides, Saving
  <2> QED
    BY <1>1, <2>1 DEF DueInv
<1>5. AllToldInv'
  <2>1. OnItsWay' => pc' = "writing"
    BY DEF OnItsWay, Decides, Saving
  <2>2. OnItsWay' => OnItsWay /\ pc # "yielding"
    BY <1>1, <2>1 DEF OnItsWay
  <2> QED
    BY <1>1, <1>2, <2>2 DEF ReportInv, AllToldInv
<1> QED
  BY <1>3, <1>4, <1>5 DEF ReportInv

\* The step of the store.
LEMMA ReportStores ==
  ASSUME PlanInv, ToolsInv, ReportInv, Next, StoreStep PROVE ReportInv'
<1>0. /\ pc \in Saving /\ pc \in Unspoken /\ pc # "yielding" /\ RunInv
      /\ UNCHANGED <<iteration, turn, emitted>>
      /\ iteration \in Rounds
  BY DEF StoreStep, Saving, Unspoken, PlanInv, RunInv, RunTypes
<1>1. /\ pc' = pc \/ pc' = "yielding"
      /\ \/ plan'.report = plan.report /\ plan'.next = plan.next
         \/ plan'.report = {} /\ plan'.next = "raised" /\ pc' = "yielding"
  BY DEF StoreStep, Stores, Carries, Unwind, Reporting
<1>2. ToldInv'
  <2>1. \A i \in ResultsSeen' : i \in ResultsSeen /\ emitted'[i] = emitted[i]
    BY <1>0, ShownSame
  <2> QED
    BY <2>1, ToldStays DEF ReportInv
<1>3. \A c : ~Shown(emitted', iteration', c)
  BY <1>0, NotYetShown DEF ReportInv
<1>4. \/ Stored' = Stored /\ plan.batch = <<Answer>> /\ pc' = "yielding"
      \/ Stored' = Stored /\ pc' = "yielding" /\ plan'.report = {} /\ plan'.next = "raised"
      \/ /\ Stored' = Stored /\ pc' = pc
         /\ Results' = Results /\ plan.batch # <<Answer>> /\ (plan.batch # <<Answer>>)'
      \/ Stored' = Stored \cup New /\ plan.batch # <<Answer>> /\ pc' = "yielding"
  BY <1>0, StoreStored
<1>5. \A c \in plan.report : plan.batch # <<Answer>> /\ c \in turn.calls /\ Results[c] # "deferred"
  BY <1>0 DEF ReportInv, DueInv
<1>6. DueInv'
  <2>1. ASSUME pc' = "yielding", NEW c \in plan'.report
        PROVE  \E o \in Outcomes \ {"deferred"} : <<iteration', c, o>> \in Stored'
    <3>1. c \in plan.report
      BY <1>1, <2>1
    <3>2. Stored' = Stored \cup New /\ plan.batch # <<Answer>>
      BY <1>0, <1>4, <1>5, <2>1, <3>1 DEF Saving
    <3>3. <<iteration, c, Results[c]>> \in New
      BY <1>5, <3>1 DEF New
    <3>4. Results[c] \in Outcomes \ {"deferred"}
      BY <1>0, <1>5, <3>1, <3>2, BatchParts
    <3> QED
      BY <1>0, <3>2, <3>3, <3>4
  <2>2. ASSUME pc' \in Saving
        PROVE  /\ \A c \in plan'.report :
                    (plan.batch # <<Answer>>)' /\ c \in turn'.calls /\ Results'[c] # "deferred"
               /\ pc' = "writing" => plan'.report = turn'.calls
    <3>1. pc' # "yielding"
      BY <2>2 DEF Saving
    <3>2. pc' = pc /\ Results' = Results /\ plan.batch # <<Answer>> /\ (plan.batch # <<Answer>>)'
      BY <1>4, <3>1
    <3>3. plan'.report = plan.report
      BY <1>1, <3>1
    <3>4. pc' = "writing" => plan.report = turn.calls
      BY <3>2 DEF ReportInv, DueInv
    <3> QED
      BY <1>0, <1>5, <3>2, <3>3, <3>4
  <2>3. pc' = "writing" => pc' \in Saving
    BY DEF Saving
  <2> QED
    BY <1>3, <2>1, <2>2, <2>3 DEF DueInv
<1>7. AllToldInv'
  <2> SUFFICES ASSUME OnItsWay', NEW s \in Stored'
               PROVE  Shown(emitted', s[1], s[2])
                      \/ (pc' = "yielding" /\ s[1] = iteration' /\ s[2] \in plan'.report)
    BY DEF AllToldInv
  <2>1. plan'.report = plan.report /\ plan'.next = plan.next
    BY <1>1 DEF OnItsWay
  <2>2. pc = "writing" /\ OnItsWay
    <3>1. pc = "closing" => plan.next = "raised"
      BY DEF PlanInv, RunInv
    <3>2. pc # "closing"
      BY <1>1, <2>1, <3>1 DEF OnItsWay
    <3> QED
      BY <1>0, <3>2 DEF OnItsWay, Saving
  <2>3. CASE s \in Stored
    BY <1>0, <2>2, <2>3 DEF ReportInv, AllToldInv
  <2>4. CASE s \notin Stored
    <3>1. s \in New /\ plan.batch # <<Answer>> /\ pc' = "yielding"
      BY <1>4, <2>4
    <3>2. plan.report = turn.calls
      BY <2>2, <3>1 DEF ReportInv, DueInv
    <3>3. s[1] = iteration /\ s[2] \in turn.calls
      BY <3>1 DEF New
    <3> QED
      BY <1>0, <2>1, <3>1, <3>2, <3>3
  <2> QED
    BY <2>3, <2>4
<1> QED
  BY <1>2, <1>6, <1>7 DEF ReportInv

\* Every step keeps the report of the results behind the store.
LEMMA ReportStep == ASSUME PlanInv, ToolsInv, ReportInv, Next PROVE ReportInv'
<1>1. CASE UNCHANGED <<runVars, history>>
  <2>1. UNCHANGED <<pc, iteration, turn, plan, emitted, history, Stored, ResultsSeen, Results>> /\ Answer' = Answer
    BY <1>1 DEF runVars, Stored, ResultsSeen, Results, Answer
  <2> QED
    BY <2>1 DEF ReportInv, ToldInv, DueInv, AllToldInv, OnItsWay
<1>2. CASE PlainStored \/ Goes
  BY <1>2, ReportMoves, ReportYields
<1> QED
  BY <1>1, <1>2, ReportDecides, ReportStores, StoringSteps DEF PlanInv, ToolsInv

-----------------------------------------------------------------------------
(* What the sink and the caller are told of the end.                       *)

\* A run that reports moves on, is pulled or is closed.
LEMMA YieldingSteps ==
  ASSUME Next, pc = "yielding"
  PROVE  YieldResult \/ YieldTerminal \/ Proceed \/ Pull \/ Abandon \/ UNCHANGED runVars
BY DEF Next, StreamNext, StreamText, StreamCall, StreamEnd, StreamEvent, StreamCut, StreamFails,
   RunStep, StoreInput, Prepare, Conclude, ResponseOver, Write, Hook, AnswerMalformed,
   StartDispatch, TakeDelta, TakeEnd, Settle, SettleCancelled, FinalizeBegin, GracePass, Decided,
   FinalizeCompleted, FinalizeDeferred, FinalizeKilled, Reaped, ReapAbandoned, Release,
   BeginDispatch, ToolStep, ToolBegin, ToolEmits, ToolEnds, ToolReturns, ToolCancelsItself,
   ToolStops, EndDispatch, SinkStep, SinkDelivers, SinkDrops, Fault, InputFails, WriteFails,
   CancelLoop, CancelDispatch, Host, Preempt, Interrupt, CloseSink, Finished, vars, runVars

\* A run that has ended stays as it is.
LEMMA EndedSteps == ASSUME Next, pc \in Ended PROVE UNCHANGED <<runVars, history>>
BY DEF Ended, Next, StreamNext, StreamText, StreamCall, StreamEnd, StreamEvent, StreamCut, StreamFails,
   RunStep, StoreInput, Prepare, Conclude, ResponseOver, Write, YieldResult, YieldTerminal, Proceed,
   Hook, AnswerMalformed, StartDispatch, TakeDelta, TakeEnd, Settle, SettleCancelled, FinalizeBegin,
   GracePass, Decided, FinalizeCompleted, FinalizeDeferred, FinalizeKilled, Reaped, ReapAbandoned,
   Release, BeginDispatch, ToolStep, ToolBegin, ToolEmits, ToolEnds, ToolReturns, ToolCancelsItself,
   ToolStops, EndDispatch, Pull, SinkStep, SinkDelivers, SinkDrops, Fault, InputFails, WriteFails,
   CancelLoop, CancelDispatch, Host, Abandon, Preempt, Interrupt, CloseSink, Finished, vars, runVars

\* The sink's phases: the finalizer hands a dispatch over, the store closes its
\* protocol, the watcher delivers it.
LEMMA SinkMoves ==
  ASSUME Next
  PROVE  \/ sink' \in {"none", "active", "dropped"} \/ UNCHANGED sink
         \/ FinalizeDeferred \/ Write \/ SinkDelivers
BY DEF Next, StreamNext, StreamText, StreamCall, StreamEnd, StreamEvent, StreamCut, StreamFails,
   RunStep, StoreInput, Prepare, Conclude, YieldResult, YieldTerminal, Proceed,
   Hook, AnswerMalformed, StartDispatch, TakeDelta, TakeEnd, Settle, SettleCancelled, FinalizeBegin,
   GracePass, FinalizeCompleted, FinalizeKilled, Reaped, ReapAbandoned,
   Release, BeginDispatch, ToolStep, ToolBegin, ToolEmits, ToolEnds, ToolReturns, ToolCancelsItself,
   ToolStops, EndDispatch, Pull, SinkStep, SinkDrops, Fault, InputFails, WriteFails,
   CancelLoop, CancelDispatch, Host, Abandon, Preempt, Interrupt, CloseSink, Finished, vars, sinkVars

\* Every step keeps the sink behind the store.
LEMMA SinkKept == ASSUME PlanInv, ToolsInv, SinkInv, Next PROVE SinkInv'
<1>0. RunInv /\ OwnerInv /\ turn.calls \in SUBSET Calls /\ turn.malformed \in SUBSET turn.calls
      /\ iteration \in Rounds /\ Runnable \subseteq turn.calls
  BY DEF PlanInv, ToolsInv, RunInv, RunTypes, Turns, Runnable
<1>1. sink \in {"deferred", "closed", "delivered"} =>
        pc \in Ended \/ (pc \in {"closing", "yielding"} /\ plan.next = "raised")
  BY <1>0 DEF OwnerInv
<1>2. CASE UNCHANGED <<runVars, history>>
  <2>1. UNCHANGED <<pc, iteration, turn, plan, Stored, Results, Runnable>> /\ Answer' = Answer
    BY <1>2 DEF runVars, Stored, Results, Answer, Runnable
  <2>2. CASE SinkDelivers
    BY <2>1, <2>2 DEF SinkDelivers, SinkInv
  <2>3. CASE FinalizeDeferred \/ Write
    <3>1. pc' # pc \/ plan' # plan
      <4>1. FinalizeDeferred => pc = "grace" /\ pc' = "closing"
        BY DEF FinalizeDeferred, Decided, Closing, Storing
      <4>2. ASSUME Write, pc' = pc PROVE history' # history
        <5>1. plan.batch \in Seq(Messages) /\ plan.batch # << >> /\ history \in Seq(Messages)
          BY <1>0, <4>2 DEF Write, RunInv, RunTypes, Plans
        <5>2. history' = Append(history, Head(plan.batch)) \/ history' = history \o plan.batch
          BY <4>2 DEF Write
        <5>3. Len(history') # Len(history)
          BY <5>1, <5>2
        <5> QED
          BY <5>3
      <4> QED
        BY <1>2, <2>3, <4>1, <4>2
    <3> QED
      BY <2>1, <3>1
  <2> QED
    BY <2>1, <2>2, <2>3, SinkMoves DEF SinkInv
<1>3. CASE StoreStep
  <2>1. /\ pc \in Saving /\ UNCHANGED <<iteration, turn, Runnable>>
        /\ sink' = sink \/ (pc = "closing" /\ pc' = "yielding" /\ sink = "deferred" /\ sink' = "closed")
    BY <1>3 DEF StoreStep, Carries, Runnable
  <2>2. \/ Stored' = Stored /\ plan.batch = <<Answer>> /\ pc' = "yielding"
        \/ pc' = "yielding" /\ UNCHANGED sink
        \/ /\ pc' = pc /\ UNCHANGED sink
           /\ Results' = Results /\ plan.batch # <<Answer>> /\ (plan.batch # <<Answer>>)'
        \/ Stored' = Stored \cup New /\ plan.batch # <<Answer>> /\ pc' = "yielding"
    BY <1>0, <1>3, StoreStored
  <2>3. sink \in {"closed", "delivered"} => FALSE
    BY <1>1, <2>1 DEF SinkInv, Saving, Ended
  <2>4. ASSUME pc' = "closing", sink' = "deferred"
        PROVE  (plan.batch # <<Answer>>)' /\ \A c \in Runnable' : Results'[c] = "deferred"
    BY <2>1, <2>2, <2>4 DEF SinkInv
  <2>5. ASSUME sink' \in {"closed", "delivered"}
        PROVE  pc' # "closing" /\ \A c \in Runnable' : <<iteration', c, "deferred">> \in Stored'
    <3>1. pc = "closing" /\ pc' = "yielding" /\ sink = "deferred" /\ sink' # sink
      BY <2>1, <2>3, <2>5
    <3>2. plan.batch # <<Answer>> /\ \A c \in Runnable : Results[c] = "deferred"
      BY <3>1 DEF SinkInv
    <3>3. Stored' = Stored \cup New
      BY <2>2, <3>1, <3>2
    <3>4. ASSUME NEW c \in Runnable PROVE <<iteration, c, "deferred">> \in New
      BY <1>0, <3>2 DEF New
    <3> QED
      BY <2>1, <3>1, <3>3, <3>4
  <2> QED
    BY <2>4, <2>5 DEF SinkInv
<1>4. CASE FinalizeDeferred
  <2>1. pc' = "closing" /\ sink' = "deferred" /\ UNCHANGED <<turn, iteration>>
        /\ plan'.batch = ExchangeOf(Aborted("deferred"))
    BY <1>4 DEF FinalizeDeferred, Closing, Storing
  <2>2. Results' = Aborted("deferred")
    <3>1. /\ <<EndEvent("error")>> \in Outs
          /\ "closing" \in Saving /\ turn.malformed \in SUBSET Calls
      BY <1>0 DEF Outs, Saving
    <3> QED
      BY <1>0, <1>4, <3>1, Outcome, PlanStoring DEF FinalizeDeferred, Closing
  <2>3. Answer' = Answer /\ Runnable' = Runnable
    BY <2>1 DEF Answer, Runnable
  <2>4. \A c \in Runnable : Aborted("deferred")[c] = "deferred"
    BY <1>0 DEF Aborted, Runnable
  <2> QED
    BY <2>1, <2>2, <2>3, <2>4, BatchKinds DEF SinkInv
<1>5. CASE ~FinalizeDeferred /\ (PlainStored \/ Decides \/ Goes)
  <2>2. CASE pc \notin Ended /\ ~SinkDelivers /\ ~Write
    <3>1. sink' \in {"none", "active", "dropped"} \/ UNCHANGED sink
      BY <1>5, <2>2, SinkMoves
    <3>2. sink \in {"deferred", "closed", "delivered"} => pc = "yielding" /\ plan.next = "raised"
      BY <1>1, <1>5, <2>2 DEF PlainStored, Decides, Goes, Awaiting, Saving
    <3>3. pc = "yielding" => Goes
      BY <1>5 DEF PlainStored, Decides, Awaiting
    <3>4. pc = "yielding" /\ plan.next = "raised" => UNCHANGED <<iteration, turn>> /\ pc' # "closing"
      <4>1. ASSUME pc = "yielding", plan.next = "raised"
            PROVE  UNCHANGED <<iteration, turn>>
        BY <4>1, YieldingSteps DEF YieldResult, YieldTerminal, Proceed, Pull, Abandon, runVars
      <4> QED
        BY <3>3, <4>1 DEF Goes, Saving
    <3>5. Stored' = Stored
      BY <1>0, <1>5, NothingElseStored
    <3>6. UNCHANGED <<iteration, turn>> => Runnable' = Runnable
      BY DEF Runnable
    <3> QED
      BY <3>1, <3>2, <3>4, <3>5, <3>6 DEF SinkInv
  <2>3. CASE pc \in Ended
    BY <1>2, <2>3, EndedSteps
  <2>4. CASE SinkDelivers
    BY <1>2, <2>4 DEF SinkDelivers
  <2>5. CASE Write
    BY <1>5, <2>5 DEF Write, PlainStored, Decides, Goes, Awaiting, Saving
  <2> QED
    BY <2>2, <2>3, <2>4, <2>5
<1> QED
  BY <1>0, <1>2, <1>3, <1>4, <1>5, StoringSteps

\* A run that neither stores nor reports comes to report by the end it decided.
LEMMA OtherSteps ==
  ASSUME Next, pc \notin Saving \cup {"yielding"} \cup Ended, pc' \notin Saving
  PROVE  /\ UNCHANGED emitted /\ pc' # "ended"
         /\ pc' = "yielding" => Reporting(ErrorEnd, "ended") \/ Unwind
<1>1. UNCHANGED emitted /\ pc' # "ended"
  BY DEF Saving, Ended, Next, StreamNext, StreamText, StreamCall, StreamEnd, StreamEvent, StreamCut,
     StreamFails, RunStep, StoreInput, Prepare, Conclude, ResponseOver, Storing, Write, YieldResult,
     YieldTerminal, Proceed, Hook, NextIteration, AnswerMalformed, StartDispatch, TakeDelta,
     TakeEnd, Settle, SettleCancelled, FinalizeBegin, GracePass, Decided, FinalizeCompleted,
     FinalizeDeferred, FinalizeKilled, Closing, Reaped, ReapAbandoned, Release, BeginDispatch,
     ToolStep, ToolBegin, ToolEmits, ToolEnds, ToolReturns, ToolCancelsItself, ToolStops,
     EndDispatch, Pull, SinkStep, SinkDelivers, SinkDrops, Fault, InputFails, WriteFails,
     CancelLoop, CancelDispatch, Host, Abandon, Preempt, Interrupt, CloseSink, Finished, vars,
     runVars, Unwind, Reporting
<1>2. pc' = "yielding" => Hook \/ StreamFails \/ CancelLoop
  BY DEF Saving, Ended, Next, StreamNext, StreamText, StreamCall, StreamEnd, StreamEvent, StreamCut,
     RunStep, StoreInput, Prepare, Conclude, ResponseOver, Storing, Write, YieldResult,
     YieldTerminal, Proceed, AnswerMalformed, StartDispatch, TakeDelta, TakeEnd, Settle,
     SettleCancelled, FinalizeBegin, GracePass, Decided, FinalizeCompleted, FinalizeDeferred,
     FinalizeKilled, Closing, Reaped, ReapAbandoned, Release, BeginDispatch, ToolStep, ToolBegin,
     ToolEmits, ToolEnds, ToolReturns, ToolCancelsItself, ToolStops, EndDispatch, Pull, SinkStep,
     SinkDelivers, SinkDrops, Fault, InputFails, WriteFails, CancelDispatch, Host, Abandon, Preempt,
     Interrupt, CloseSink, Finished, vars, runVars
<1> QED
  BY <1>1, <1>2 DEF Hook, NextIteration, StreamFails, CancelLoop

\* What the run decides to report of its end goes with where it goes.
LEMMA DecidedEnds ==
  ASSUME Decides
  PROVE  /\ plan'.out # << >> => plan'.next \in {"ended", "raised"}
         /\ plan'.next = "ended" => plan'.out # << >>
<1>1. \A r : <<EndEvent(r)>> # << >>
  OBVIOUS
<1>2. ErrorEnd # << >>
  BY DEF ErrorEnd
<1>3. /\ Verdict.out # << >> => Verdict.next \in {"ended", "raised"}
      /\ Verdict.next = "ended" => Verdict.out # << >>
  BY <1>1, <1>2 DEF Verdict
<1> QED
  BY <1>1, <1>3 DEF Decides, Conclude, AnswerMalformed, Settle, FinalizeCompleted, FinalizeDeferred, Reaped,
     Closing, Storing

\* No end has been reported while something is left to report.
LEMMA NoEndYet ==
  ASSUME EndInv, pc \notin Ended,
         pc # "yielding" \/ plan.report # {} \/ plan.out # << >>
  PROVE  \A i \in 1..Len(emitted) : emitted[i].type # "end"
BY DEF EndInv

\* Every step keeps the end of the report at its end.
LEMMA EndStep == ASSUME PlanInv, ToolsInv, EndInv, Next PROVE EndInv'
<1>0. /\ RunInv /\ OwnerInv /\ emitted \in Seq(Events) /\ Len(emitted) \in Nat
      /\ plan = [batch |-> plan.batch, report |-> plan.report, out |-> plan.out, next |-> plan.next]
      /\ plan.next \in {"again", "hook", "ended", "raised"} /\ plan.out \in Outs
  BY DEF PlanInv, ToolsInv, RunInv, RunTypes, Plans, IsPlan
<1>1. ErrorEnd # << >> /\ <<EndEvent("error")>> # << >>
  BY DEF ErrorEnd
<1>2. CASE UNCHANGED runVars
  BY <1>2 DEF runVars, EndInv, Closed
<1>3. ASSUME pc \notin Ended, pc # "yielding", UNCHANGED emitted, pc' # "ended",
             pc' \in Saving \cup {"yielding"} =>
               /\ plan'.out # << >> => plan'.next \in {"ended", "raised"}
               /\ plan'.next = "ended" => plan'.out # << >>
      PROVE  EndInv'
  <2>1. \A i \in 1..Len(emitted) : emitted[i].type # "end"
    BY <1>3, NoEndYet
  <2> QED
    BY <1>3, <2>1 DEF EndInv
<1>4. CASE StoreStep
  <2>1. /\ pc \in Saving /\ pc \notin Ended /\ pc # "yielding" /\ UNCHANGED emitted
        /\ pc' = pc \/ pc' = "yielding"
    BY <1>4 DEF StoreStep, Stores, Saving, Ended
  <2>2. \/ plan'.out = plan.out /\ plan'.next = plan.next
        \/ plan'.out = <<EndEvent("error")>> /\ plan'.next = "raised"
    BY <1>4 DEF StoreStep, Carries, Unwind, Reporting
  <2>3. /\ plan'.out # << >> => plan'.next \in {"ended", "raised"}
        /\ plan'.next = "ended" => plan'.out # << >>
    BY <2>1, <2>2 DEF EndInv, Saving
  <2> QED
    BY <1>3, <2>1, <2>3 DEF Saving, Ended
<1>5. CASE Decides
  <2>1. pc \notin Ended /\ pc # "yielding" /\ UNCHANGED emitted /\ pc' # "ended"
    BY <1>5, DecidedDue DEF Decides, Awaiting, Saving, Ended
  <2> QED
    BY <1>3, <1>5, <2>1, DecidedEnds
<1>6. CASE pc \notin Saving \cup {"yielding"} \cup Ended /\ pc' \notin Saving
  <2>1. pc' = "yielding" =>
          /\ plan'.out # << >> => plan'.next \in {"ended", "raised"}
          /\ plan'.next = "ended" => plan'.out # << >>
    BY <1>1, <1>6, OtherSteps DEF Reporting, Unwind
  <2> QED
    BY <1>3, <1>6, <2>1, OtherSteps
<1>7. CASE pc = "yielding" /\ YieldResult
  <2>1. PICK c \in plan.report : /\ emitted' = Append(emitted, ResultEvent(c))
                                 /\ plan' = [plan EXCEPT !.report = plan.report \ {c}]
    BY <1>7 DEF YieldResult
  <2>2. plan'.out = plan.out /\ plan'.next = plan.next /\ pc' = pc
    BY <1>0, <1>7, <2>1 DEF YieldResult
  <2>3. \A i \in 1..Len(emitted) : emitted[i].type # "end"
    BY <1>7, <2>1, NoEndYet DEF Ended
  <2>4. ~Closed
    BY <1>0, <2>3 DEF Closed
  <2>5. \A i \in 1..Len(emitted') : emitted'[i].type # "end"
    <3>1. ResultEvent(c).type # "end"
      BY DEF ResultEvent
    <3> QED
      BY <1>0, <2>1, <2>3, <3>1
  <2> QED
    BY <1>7, <2>2, <2>4, <2>5 DEF EndInv
<1>8. CASE pc = "yielding" /\ YieldTerminal
  <2>1. /\ plan.report = {} /\ plan.out # << >> /\ pc' = pc
        /\ emitted' = Append(emitted, Head(plan.out))
        /\ plan' = [plan EXCEPT !.out = Tail(plan.out)]
    BY <1>8 DEF YieldTerminal
  <2>2. plan'.out = Tail(plan.out) /\ plan'.next = plan.next /\ plan'.report = {}
    BY <1>0, <2>1
  <2>3. \A i \in 1..Len(emitted) : emitted[i].type # "end"
    BY <1>8, <2>1, NoEndYet DEF Ended
  <2>4. plan.next \in {"ended", "raised"}
    BY <1>8, <2>1 DEF EndInv
  <2>5. \/ Head(plan.out).type = "error" /\ Tail(plan.out) # << >>
        \/ Head(plan.out).type = "end" /\ Tail(plan.out) = << >>
    BY <1>0, <2>1, OutTypes
  <2>6. PICK e : e = Head(plan.out)
    OBVIOUS
  <2>7. /\ Len(emitted') = Len(emitted) + 1 /\ emitted'[Len(emitted')] = e /\ emitted' # << >>
        /\ \A i \in 1..Len(emitted') : i = Len(emitted') \/ emitted'[i].type # "end"
    BY <1>0, <2>1, <2>3, <2>6
  <2>8. CASE e.type = "error" /\ plan'.out # << >>
    <3>1. \A i \in 1..Len(emitted') : emitted'[i].type # "end"
      BY <2>7, <2>8
    <3> QED
      BY <1>8, <2>1, <2>2, <2>4, <2>8, <3>1 DEF EndInv
  <2>9. CASE e.type = "end" /\ plan'.out = << >>
    <3>1. Closed'
      BY <2>7, <2>9 DEF Closed
    <3> QED
      BY <1>8, <2>1, <2>2, <2>4, <2>7, <2>9, <3>1 DEF EndInv
  <2> QED
    BY <2>2, <2>5, <2>6, <2>8, <2>9
<1>9. CASE pc = "yielding" /\ Proceed
  <2>1. plan.report = {} /\ plan.out = << >> /\ UNCHANGED emitted
    BY <1>9 DEF Proceed
  <2>2. CASE plan.next = "again"
    <3>1. \A i \in 1..Len(emitted) : emitted[i].type # "end"
      BY <1>9, <2>2 DEF EndInv, Ended
    <3>2. pc' = "top" \/ (pc' = "yielding" /\ plan'.out = ErrorEnd /\ plan'.next = "ended")
      BY <1>9, <2>2 DEF Proceed, NextIteration, Reporting
    <3> QED
      BY <1>1, <2>1, <3>1, <3>2 DEF EndInv, Saving
  <2>3. CASE plan.next # "again"
    <3>1. pc' = plan.next
      BY <1>9, <2>3 DEF Proceed
    <3>2. \A i \in 1..Len(emitted) : emitted[i].type = "end" =>
            i = Len(emitted) /\ plan.next \in {"ended", "raised"}
      BY <1>9 DEF EndInv, Ended
    <3>3. plan.next = "ended" => Closed
      BY <1>9, <2>1 DEF EndInv
    <3> QED
      BY <1>0, <2>1, <2>3, <3>1, <3>2, <3>3 DEF EndInv, Saving, Ended, Closed
  <2> QED
    BY <2>2, <2>3
<1>10. CASE pc = "yielding" /\ (Pull \/ Abandon)
  <2>1. UNCHANGED <<plan, emitted>> /\ (pc' = pc \/ pc' = "closed")
    BY <1>10 DEF Pull, Abandon
  <2> QED
    BY <1>10, <2>1 DEF EndInv, Closed, Saving, Ended
<1>11. pc \in Ended => UNCHANGED runVars
  BY EndedSteps
<1>12. CASE pc \in Saving
  BY <1>0, <1>2, <1>4, <1>12, StoringSteps DEF PlainStored, Decides, Goes, Awaiting, Saving, runVars
<1>13. CASE pc \notin Saving \cup {"yielding"} \cup Ended /\ pc' \in Saving
  <2>1. Decides \/ UNCHANGED runVars
    BY <1>0, <1>13, StoringSteps DEF StoreStep, PlainStored, Goes, runVars
  <2> QED
    BY <1>2, <1>5, <2>1
<1> QED
  BY <1>2, <1>6, <1>7, <1>8, <1>9, <1>10, <1>11, <1>12, <1>13, YieldingSteps

-----------------------------------------------------------------------------
(* The report follows the store.                                           *)

\* Nothing is stored, reported or owed.
LEMMA CallerInit == Init => CallerInv
<1> SUFFICES ASSUME Init PROVE CallerInv
  OBVIOUS
<1>1. history = << >> /\ emitted = << >> /\ pc = "input" /\ sink = "none"
  BY DEF Init
<1>2. Stored = {} /\ ResultsSeen = {}
  BY <1>1 DEF Stored, ResultsSeen
<1> QED
  BY <1>1, <1>2 DEF CallerInv, ReportInv, ToldInv, DueInv, AllToldInv, SinkInv, EndInv, Saving

\* The fourth layer of the invariant.
LEMMA CallerStep == ASSUME PlanInv, ToolsInv, CallerInv, [Next]_vars PROVE CallerInv'
<1>1. CASE Next
  BY <1>1, ReportStep, SinkKept, EndStep DEF CallerInv
<1>2. CASE UNCHANGED vars
  <2>1. UNCHANGED <<pc, iteration, turn, plan, emitted, sink, Stored, ResultsSeen, Results, Runnable>>
        /\ Answer' = Answer
    BY <1>2 DEF vars, Stored, ResultsSeen, Results, Runnable, Answer
  <2> QED
    BY <2>1 DEF CallerInv, ReportInv, ToldInv, DueInv, AllToldInv, OnItsWay, SinkInv, EndInv, Closed
<1> QED
  BY <1>1, <1>2

\* The invariant says what ReportFollowsTheStore does.
LEMMA CallerSound == ASSUME CallerInv PROVE ReportFollowsTheStore
<1>1. StoredBeforeShown
  BY DEF CallerInv, ReportInv, ToldInv, SinkInv, StoredBeforeShown
<1>2. \A i \in 1..Len(emitted) : emitted[i].type = "end" => i = Len(emitted)
  BY DEF CallerInv, EndInv
<1>3. ASSUME pc = "ended"
      PROVE  /\ emitted # << >> /\ emitted[Len(emitted)].type = "end"
             /\ \A s \in Stored :
                  \E i \in ResultsSeen : emitted[i].at = s[1] /\ emitted[i].call = s[2]
  <2>1. Closed
    BY <1>3 DEF CallerInv, EndInv
  <2>2. OnItsWay /\ pc # "yielding"
    BY <1>3 DEF OnItsWay
  <2>3. ASSUME NEW s \in Stored
        PROVE  \E i \in ResultsSeen : emitted[i].at = s[1] /\ emitted[i].call = s[2]
    BY <2>2 DEF CallerInv, ReportInv, AllToldInv, Shown, ResultsSeen
  <2> QED
    BY <2>1, <2>3 DEF Closed
<1> QED
  BY <1>1, <1>2, <1>3 DEF ReportFollowsTheStore, EndClosesTheReport

\* Whichever way the store appends and however the run is cancelled, a result
\* the caller has been given was stored before, is given once and is never a
\* placeholder; the sink is told that a protocol is closed after its
\* placeholders are stored; and a run that comes to an end by itself has
\* reported that last, and each result it stored (agent.py, Agent._run_loop).
THEOREM ReportFollows == Spec => []ReportFollowsTheStore
<1>1. Init => PlanInv /\ ToolsInv /\ CallerInv
  BY PlanInit, ToolsInit, CallerInit
<1>2. PlanInv /\ ToolsInv /\ CallerInv /\ [Next]_vars => (PlanInv /\ ToolsInv /\ CallerInv)'
  BY PlanStep, ToolsStep, CallerStep
<1>3. CallerInv => ReportFollowsTheStore
  BY CallerSound
<1> QED
  BY <1>1, <1>2, <1>3, PTL DEF Spec

=============================================================================
