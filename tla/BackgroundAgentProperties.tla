---------------------- MODULE BackgroundAgentProperties ----------------------
(***************************************************************************)
(* What a background agent promises to those who write to it, to its       *)
(* parent, and to the calls it has detached.                               *)
(***************************************************************************)
EXTENDS BackgroundAgent

Ids == Inputs \cup Tasks \cup {FirstTask}

Items == {Note(t) : t \in Tasks} \cup {Update(u) : u \in Updates}
           \cup {Prompt(p) : p \in Prompts \cup Messages \cup {FirstTask}} \cup {Stop}

\* Every variable holds a value of its kind, and the owner of the bucket is
\* inside a turn scope exactly while its turn can still drain it.
TypeOK ==
  /\ queue \in Seq(Tasks) /\ listening \in BOOLEAN
  /\ depth = IF InScope THEN 1 ELSE 0
  /\ inbox \in Seq(Items)
  /\ task \in [Tasks -> {"none", "running", "finished", "settled"}]
  /\ collected \subseteq Tasks
  /\ runner \in {"created", "get", "update", "turn", "report", "deliver", "close",
                 "publish", "leave", "gone", "dead"}
  /\ item \in Items /\ busy \in BOOLEAN /\ hit \in BOOLEAN /\ kills \in 0..3
  /\ turn \in {"none", "created", "starting", "top", "append", "work", "finishing",
               "closing", "done"}
  /\ turn # "none" <=> runner = "turn"
  /\ cancelling \in BOOLEAN /\ outcome \in {"none", "ok", "failed"}
  /\ taken \in Seq(Tasks) /\ history \in Seq(Ids)
  /\ stopping \in BOOLEAN
  /\ sent \in [Inputs -> {"absent", "unsent", "refused", "queued", "returned", "error"}]
  /\ idler \in {"none", "waiting", "woken", "returned"}
  /\ turns \in Nat /\ reports \in Nat

-----------------------------------------------------------------------------
(* Notes.                                                                  *)

\* The places a note is in, as <<place, position>>.
Slots(t) ==
  {<<"queue", i>> : i \in {j \in 1..Len(queue) : queue[j] = t}}
    \cup {<<"inbox", i>> : i \in {j \in 1..Len(inbox) : inbox[j] = Note(t)}}
    \cup {<<"taken", i>> : i \in {j \in 1..Len(taken) : taken[j] = t}}
    \cup {<<"history", i>> : i \in {j \in 1..Len(history) : history[j] = t}}
    \cup {<<"item", 0>> : x \in {y \in {item} : turn \in {"created", "starting"} /\ y = Note(t)}}

\* A completion is announced at most once, however turns, interruptions and
\* drains interleave with it (notify.py:84-151), and what is queued will be
\* read: only the owner's turn drains the queue, so nothing may be left there
\* between turns (notify.py:137-139), and a result that was collected by hand
\* is not announced any more (background.py:119).
NotesReachTheTurnOnce ==
  /\ \A t \in Tasks : Cardinality(Slots(t)) <= 1
  /\ queue # << >> =>
       /\ depth > 0 \/ ~listening
       /\ \A i \in 1..Len(queue) : queue[i] \notin collected

\* A note, once posted, is lost only to the cancellation of the turn that was
\* about to store it, to a store that fails, to someone who collects the
\* result by hand, or with the agent.
NotesSurvive ==
  [][\A t \in Tasks : Slots(t) # {} /\ Slots(t)' = {} =>
       \/ cancelling
       \/ turn \in {"starting", "append"} /\ turn' = "finishing"
       \/ t \in collected'
       \/ runner = "get" /\ stopping
       \/ runner' = "leave"]_vars

-----------------------------------------------------------------------------
(* Turns.                                                                  *)

\* Once the agent is told to stop, no turn begins and the current one gets no
\* further, whatever is in the inbox and wherever the turn is.
StopIsFinal == [][stopping => turn' \in {turn, "closing", "done", "none"}]_vars

\* The parent is told of every turn, succeeded, failed or interrupted, exactly
\* once before the next one starts, unless the agent is stopped or dies
\* (docstrings of spawn_agent and _deliver_background_turn), and a caller that
\* waits for its prompt is released only when the prompt's turn is over or,
\* the agent having been stopped, will never begin.
ReportedThenReleased ==
  /\ reports <= turns /\ turns <= reports + 1
  /\ runner = "get" /\ ~stopping => reports = turns
  /\ \A x \in Inputs : sent[x] = "returned" =>
       /\ \A i \in 1..Len(inbox) : inbox[i].id # x
       /\ ~ (TurnLive /\ item.id = x)

-----------------------------------------------------------------------------
(* Liveness.                                                               *)

\* Whoever waits for a prompt or an update is released in the end: after its
\* turn, its failure, an interruption, a stop, or the death of the runner.
\* The exceptions are a runner cancelled before its first step or while it
\* publishes its end, and an update in hand when the runner is cancelled.
\* Whoever waits for the agent to be idle is woken: no lost wake-up.
WaitersAreReleased ==
  /\ \A x \in Prompts \cup Updates :
       sent[x] = "queued" ~> \/ sent[x] # "queued"
                             \/ runner = "dead"
                             \/ x \in Updates /\ kills > 0
  /\ idler = "waiting" ~> idler # "waiting" \/ runner = "dead"

=============================================================================
