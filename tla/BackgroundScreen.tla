-------------------------- MODULE BackgroundScreen --------------------------
(***************************************************************************)
(* What the screen shows of background agents (ReplRenderer in             *)
(* axio_repl/__init__.py): their prose in unfinished rows of their own and *)
(* in scrollback, their actions as frames of the multiplexer, and at the   *)
(* end of a turn the part of its text that nobody has seen.                *)
(*                                                                         *)
(* Every method holds the renderer's lock from its first line to its last, *)
(* so that one action is one call.  The events of one agent come in the    *)
(* order of its turn, those of different agents in any order, and the user *)
(* switches the display, the focus and types at any moment.                *)
(***************************************************************************)
EXTENDS ActionMultiplexer

CONSTANTS
  Ids,            \* provider ids of the calls of a turn
  BoundaryFrames, \* action_boundary_frames
  BoundaryBytes,  \* action_boundary_bytes
  Plans,          \* bound: how often each kind of event happens
  BodySizes       \* sizes of a result's text

Kinds == {"turn", "text", "reason", "call", "input", "output", "result", "odd",
          "toggle", "insert", "focus", "cut", "stop"}

ASSUME PlanTypes == \A p \in Plans : p \in [Kinds -> Nat]

VARIABLES
  mux,      \* _actions
  calls,    \* _tool_calls
  turn,     \* the current turn of each agent: _TurnPresentation, its
            \* _AgentRenderState, and its row on the terminal
  gone,     \* agents that have stopped
  active,   \* _active_agent
  focus,    \* _focused_agent
  reports,  \* outcomes on their way to incoming
  left,     \* events left
  last,     \* history: what the last step showed and threw away
  since,    \* history: frames of b shown since a's turn came, per a and b
  late      \* history: deferred calls and the ordinals they were given

vars == <<mux, calls, turn, gone, active, focus, reports, left, last, since, late>>

NoTurn == [n |-> 0, phase |-> "none", live |-> FALSE, text |-> << >>, from |-> 0,
           ranges |-> {}, mode |-> "boundary", row |-> << >>, printed |-> << >>,
           cut |-> FALSE, given |-> << >>, answered |-> {}]
Nothing == [shown |-> << >>, thrown |-> 0, calls |-> 0, due |-> {}, within |-> TRUE,
            answer |-> << >>, report |-> << >>]

Init ==
  /\ mux = Empty(TRUE)
  /\ calls = NoCalls
  /\ turn = [a \in Agents |-> NoTurn]
  /\ gone = {} /\ active = "none" /\ focus = "main"
  /\ reports = << >>
  /\ left \in Plans
  /\ last = Nothing
  /\ since = [a \in Agents |-> [b \in Agents |-> 0]]
  /\ late = << >>

Spend(kind) == left[kind] > 0 /\ left' = [left EXCEPT ![kind] = @ - 1]

-----------------------------------------------------------------------------
(* Drains.                                                                 *)

\* The waiting agents count the frames shown of the others.
Overtaken(s, m, f) ==
  IF f.kind = "marker" THEN s
  ELSE [a \in Agents |->
         IF a = f.agent THEN [b \in Agents |-> 0]
         ELSE [s[a] EXCEPT ![f.agent] = IF m.queue[a] # << >> THEN @ + 1 ELSE 0]]

Counted(before, after, out) ==
  LET s == FoldLeft(LAMBDA x, f : Overtaken(x, before, f), since, out)
  IN [a \in Agents |-> IF after.queue[a] = << >> THEN [b \in Agents |-> 0] ELSE s[a]]

\* _drain_safe_boundary_locked: up to so many frames of m are written.
Drained(m, frames) ==
  IF m.all THEN Drain(m, frames, BoundaryBytes) ELSE [m |-> m, out |-> << >>]

\* The limits of the multiplexer, which have to hold before anything is drained.
WithinLimits(m) ==
  /\ Count(m) <= MaxFrames /\ m.queued <= MaxQueued /\ Retained(m) <= MaxRetained
  /\ Len(m.order) <= MaxTools /\ Len(m.collectors) <= MaxAgents
  /\ \A a \in Agents :
       /\ Len(m.queue[a]) <= MaxPerAgent /\ Len(m.tools[a]) <= MaxAgentTools
       /\ \A n \in DOMAIN m.queue[a] : m.queue[a][n].size <= MaxFrame

\* note holds the history of the step.
Show(m, frames, note) ==
  LET d == Drained(m, frames)
  IN /\ mux' = d.m
     /\ last' = [note EXCEPT !.shown = d.out, !.within = WithinLimits(m)]
     /\ since' = Counted(m, d.m, d.out)

Quietly(m) == Show(m, 0, Nothing)
Shows(m)   == Show(m, BoundaryFrames, Nothing)

-----------------------------------------------------------------------------
(* Rows.                                                                   *)

\* The unfinished line enters scrollback.
Commit(t) ==
  [t EXCEPT !.row = << >>,
            !.printed = [p \in DOMAIN @ |-> @[p] + (IF p \in ToSet(t.row) THEN 1 ELSE 0)]]
Close(t) == [Commit(t) EXCEPT !.mode = "boundary"]

\* _persistent_insertion_locked: the row of the agent that was rendered last
\* is closed before something is written below it.
Inserted(ts) ==
  IF active \in Agents THEN [ts EXCEPT ![active] = Close(@)] ELSE ts

\* _track_background_text_delta_locked: positions that have entered scrollback
\* by line ends, from the first one that was visible.
Track(t, piece, visible) ==
  LET p == Len(t.text) + 1
      from == IF ~ visible THEN 0 ELSE IF t.from = 0 THEN p ELSE t.from
  IN [t EXCEPT !.text = Append(@, piece),
               !.printed = Append(@, 0),
               !.from = IF visible /\ piece = "n" THEN p + 1 ELSE from,
               !.ranges = IF visible /\ piece = "n" THEN @ \cup from .. p ELSE @]

ForgetRange(t) == [t EXCEPT !.from = 0]  \* mutant: the last line is not recorded

\* _commit_background_visible_text_locked
CommitRange(t) ==
  [t EXCEPT !.from = 0,
            !.ranges = IF t.from # 0 THEN @ \cup t.from .. Len(t.text) ELSE @]

\* _finalize_background_live_line_locked, and what a live badge does first.
Finalize(t) == IF t.mode = "boundary" THEN t ELSE Close(t)

\* _render_text_delta_locked: an empty line is a boundary where frames may go.
AfterPiece(mode, piece) ==
  CASE piece = "c" -> "text"
    [] piece = "n" /\ mode = "newline" -> "paragraph"
    [] OTHER -> "newline"

Piece(t, piece) ==
  LET t1 == [t EXCEPT !.row = Append(@, Len(t.text)), !.mode = AfterPiece(t.mode, piece)]
  IN IF piece = "n" THEN Commit(t1) ELSE t1

\* _background_outcome_display_locked: what the outcome still has to show.
Hidden(t) == DOMAIN t.text \ t.ranges
Unseen(t) ==
  IF t.live THEN {}
  ELSE IF t.ranges = {} THEN DOMAIN t.text
  ELSE IF \E p \in Hidden(t) : t.text[p] = "c" THEN Hidden(t) ELSE {}

-----------------------------------------------------------------------------
(* The turns of an agent.                                                  *)

On(a)      == turn[a].phase = "on"
Visible(a) == turn[a].live \/ mux.all

\* start_turn.  The agent the user looks at is rendered live.
StartTurn(a) ==
  LET live == focus = a
  IN
  /\ a \notin gone /\ turn[a].phase = "none"
  /\ Spend("turn")
  /\ turn' = [turn EXCEPT ![a] = [NoTurn EXCEPT !.n = left["turn"], !.phase = "on", !.live = live]]
  /\ IF live
     THEN Show(DiscardAgent(mux, a), 0,
               [Nothing EXCEPT !.thrown = Len(mux.queue[a]), !.calls = - Len(mux.tools[a])])
     ELSE Show(IF mux.all THEN OneLine(mux, a, FALSE) ELSE mux, 1, Nothing)
  /\ UNCHANGED <<calls, gone, active, focus, reports, late>>

\* A TextDelta.
Text(a, piece) ==
  LET t == turn[a]
      t1 == IF t.live THEN [t EXCEPT !.text = Append(@, piece), !.printed = Append(@, 0)]
            ELSE Track(t, piece, mux.all)
      t2 == IF t1.mode = "reasoning" THEN [t1 EXCEPT !.mode = "boundary"] ELSE t1
      t3 == Piece(t2, piece)
  IN
  /\ On(a) /\ Spend("text")
  /\ IF Visible(a)
     THEN /\ turn' = [turn EXCEPT ![a] = t3]
          /\ active' = a
          /\ IF t.mode = "reasoning" \/ t3.mode = "paragraph" THEN Shows(mux) ELSE Quietly(mux)
     ELSE /\ turn' = [turn EXCEPT ![a] = t1]
          /\ Quietly(mux)
          /\ UNCHANGED active
  /\ UNCHANGED <<calls, gone, focus, reports, late>>

\* A ReasoningDelta: the line of text above it is closed.
Reasoning(a) ==
  /\ On(a) /\ Visible(a) /\ turn[a].mode # "reasoning" /\ Spend("reason")
  /\ turn' = [turn EXCEPT ![a] = [Close(@) EXCEPT !.mode = "reasoning"]]
  /\ active' = a
  /\ Quietly(mux)
  /\ UNCHANGED <<calls, gone, focus, reports, late>>

-----------------------------------------------------------------------------
(* Tool calls.                                                             *)

Key(a, id) == [agent |-> a, turn |-> turn[a].n, id |-> id]

\* The call that has to have a frame when the step is over, if it is collected.
Due(a, id) == IF Collected(mux, Key(a, id)) THEN {turn[a].given[id]} ELSE {}

ToolUseStart(a, id) ==
  LET k == Key(a, id)
      c == StartCall(calls, k, "tool")
      known == [turn[a] EXCEPT !.given = (id :> c.active[k].ordinal) @@ @]
  IN
  /\ On(a) /\ id \notin DOMAIN turn[a].given \cup turn[a].answered /\ Spend("call")
  /\ calls' = c
  /\ turn' = [turn EXCEPT ![a] = IF known.live THEN Finalize(known) ELSE known]
  /\ active' = IF turn[a].live THEN a ELSE active
  /\ CASE turn[a].live -> IF turn[a].mode = "reasoning" THEN Shows(mux) ELSE Quietly(mux)
       [] ~ turn[a].live /\ mux.all ->
            Show(ToolStarts(mux, c, k), BoundaryFrames, [Nothing EXCEPT !.calls = 1])
       [] OTHER -> Quietly(mux)
  /\ UNCHANGED <<gone, focus, reports, late>>

\* Of a background call whose arguments come in pieces; the last completes them.
ToolInputDelta(a, id, whole) ==
  /\ On(a) /\ ~ turn[a].live /\ mux.all
  /\ id \in DOMAIN turn[a].given \ turn[a].answered /\ Spend("input")
  /\ Show(ToolInput(mux, Key(a, id), whole), BoundaryFrames,
          [Nothing EXCEPT !.due = IF whole THEN Due(a, id) ELSE {}])
  /\ UNCHANGED <<calls, turn, gone, active, focus, reports, late>>

ToolOutputDelta(a, id) ==
  /\ On(a) /\ ~ turn[a].live /\ mux.all
  /\ id \in DOMAIN turn[a].given \ turn[a].answered /\ Spend("output")
  /\ Show(ToolOutput(mux, Key(a, id)), BoundaryFrames, [Nothing EXCEPT !.due = Due(a, id)])
  /\ UNCHANGED <<calls, turn, gone, active, focus, reports, late>>

\* A ToolResult, of a call, of none that is known, or under another name.
ToolEnds(a, id, name, size) ==
  LET k == Key(a, id)
      c == Answered(calls, k, name)
      answer == [key |-> k, ordinal |-> c.active[k].ordinal,
                 given |-> IF id \in DOMAIN turn[a].given THEN turn[a].given[id] ELSE 0]
      note == [Nothing EXCEPT !.answer = << answer >>]
      t == [turn[a] EXCEPT !.answered = @ \cup {id}]
  IN
  /\ On(a) /\ id \notin turn[a].answered
  /\ Spend(IF id \in DOMAIN turn[a].given /\ name = "tool" THEN "result" ELSE "odd")
  /\ calls' = CompleteCall(c, k)
  /\ turn' = [turn EXCEPT ![a] = IF t.live THEN Finalize(t) ELSE t]
  /\ active' = IF t.live THEN a ELSE active
  /\ IF t.live \/ ~ mux.all
     THEN Show(mux, IF DOMAIN t.given \subseteq t.answered \/ t.mode = "reasoning"
                    THEN BoundaryFrames ELSE 0, note)
     ELSE Show(ToolResult(mux, calls, k, name, size), BoundaryFrames,
               [note EXCEPT !.calls = IF Collected(mux, k) THEN -1 ELSE 0,
                            !.due = IF Mismatch(calls, k, name) THEN {} ELSE Due(a, id)])
  /\ UNCHANGED <<gone, focus, reports, late>>

-----------------------------------------------------------------------------
(* The end of a turn.                                                      *)

\* Error: the row is closed, its text is accounted for by what follows.
Fails(a) ==
  LET t == [turn[a] EXCEPT !.phase = "failed"] IN
  /\ On(a) /\ Spend("cut")
  /\ turn' = [turn EXCEPT ![a] = CASE t.live /\ t.mode = "reasoning" -> Close(t)
                                           [] ~ t.live /\ mux.all -> Finalize(t)
                                           [] OTHER -> t]
  /\ Shows(IF ~ t.live /\ mux.all THEN OneLine(mux, a, TRUE) ELSE mux)
  /\ active' = IF t.live THEN a ELSE active
  /\ UNCHANGED <<calls, gone, focus, reports, late>>

\* SessionEndEvent.
SessionEnds(a) ==
  LET t == turn[a]
      ended == [t EXCEPT !.phase = IF On(a) THEN "done" ELSE "broken"]
      closed == CASE t.live -> Close(ended)
                  [] ~ t.live /\ mux.all -> Finalize(CommitRange(ended))
                  [] OTHER -> ended
  IN
  /\ t.phase \in {"on", "failed"}
  /\ turn' = [turn EXCEPT ![a] = closed]
  /\ calls' = DiscardTurnCalls(calls, a, t.n)
  /\ Shows(IF ~ t.live /\ mux.all THEN EndOfTurn(mux, a, t.n) ELSE mux)
  /\ active' = IF t.live THEN a ELSE active
  /\ UNCHANGED <<gone, focus, reports, left, late>>

\* An interruption leaves calls running: their ordinals outlive the turn.
Interrupt(a) ==
  LET open == {k \in DOMAIN calls.active : k.agent = a /\ k.turn = turn[a].n} IN
  /\ On(a) /\ Spend("cut")
  /\ calls' = FoldLeft(DeferCall, calls, SetToSeq(open))
  /\ late' = [k \in open |-> turn[a].given[k.id]] @@ late
  /\ turn' = [turn EXCEPT ![a].phase = "cut"]
  /\ Quietly(mux)
  /\ UNCHANGED <<gone, active, focus, reports>>

\* finish_turn, and take_background_outcome_presentation by the handler that
\* the runner calls next.  A cancelled turn has no outcome; a failed one shows
\* its reason or, when nothing seems unseen, nothing at all.
FinishTurn(a) ==
  LET t == turn[a]
      report == [agent |-> a, succeeded |-> t.phase = "done", text |-> t.text,
                 printed |-> t.printed, unseen |-> Unseen(t), cut |-> t.cut]
  IN
  /\ t.phase \in {"done", "broken", "cut"}
  /\ turn' = [turn EXCEPT ![a] = NoTurn]
  /\ active' = IF active = a THEN "none" ELSE active
  /\ reports' = IF t.phase = "done" /\ t.text # << >> THEN Append(reports, report) ELSE reports
  /\ calls' = DiscardTurnCalls(calls, a, t.n)
  /\ Show(IF ~ t.live /\ mux.all THEN EndOfTurn(mux, a, t.n) ELSE mux, 1, Nothing)
  /\ UNCHANGED <<gone, focus, left, late>>

-----------------------------------------------------------------------------
(* Everything else that reaches the renderer.                              *)

\* incoming, unless suppress_display.
Incoming ==
  /\ reports # << >>
  /\ reports' = Tail(reports)
  /\ LET r == Head(reports)
         note == [Nothing EXCEPT !.report = << r >>]
     IN IF r.unseen = {} THEN Show(mux, 0, note) /\ UNCHANGED turn
        ELSE Show(mux, BoundaryFrames, note) /\ turn' = Inserted(turn)
  /\ UNCHANGED <<calls, gone, active, focus, left, late>>

\* submitted.
Submitted ==
  /\ Spend("insert")
  /\ turn' = Inserted(turn)
  /\ Quietly(mux)
  /\ UNCHANGED <<calls, gone, active, focus, reports, late>>

\* render_deferred_tool_result.
DeferredResult(k) ==
  /\ k \in DOMAIN late
  /\ late' = Without(late, {k})
  /\ calls' = TakeDeferred(calls, k)
  /\ IF k \in DOMAIN calls.deferred
     THEN /\ turn' = Inserted(turn)
          /\ Show(mux, BoundaryFrames,
                  [Nothing EXCEPT !.answer = << [key |-> k, given |-> late[k],
                                                 ordinal |-> calls.deferred[k].ordinal] >>])
     ELSE UNCHANGED turn /\ Quietly(mux)
  /\ UNCHANGED <<gone, active, focus, reports, left>>

\* The main agent reaches a boundary of its own stream.
MainBoundary ==
  /\ active # "main" \/ Count(mux) > 0
  /\ active' = "main"
  /\ Shows(mux)
  /\ UNCHANGED <<calls, turn, gone, focus, reports, left, late>>

\* mark_idle: boundary after boundary until nothing is queued.
MarkIdle ==
  LET Idly(d) == LET e == Drained(d.m, BoundaryFrames)
                 IN [m |-> e.m, out |-> d.out \o e.out]
      end == Repeat(LAMBDA d : QueuedCount(d.m) > 0, Idly, [m |-> mux, out |-> << >>],
                    QueuedCount(mux))
  IN
  /\ mux.all /\ QueuedCount(mux) > 0
  /\ mux' = end.m
  /\ last' = [Nothing EXCEPT !.shown = end.out]
  /\ since' = Counted(mux, end.m, end.out)
  /\ UNCHANGED <<calls, turn, gone, active, focus, reports, left, late>>

\* set_display_mode: with the actions the unfinished background rows go.
Toggle ==
  LET Dropped(t) == [t EXCEPT !.row = << >>, !.from = 0, !.mode = "boundary"] IN
  /\ Spend("toggle")
  /\ Show(SetMode(mux, ~ mux.all), 0,
          [Nothing EXCEPT !.thrown = Count(mux) + mux.frames,
                          !.calls = - (Len(mux.order) + mux.state)])
  /\ turn' = [a \in Agents |->
       LET t == turn[a] IN
       IF t.phase = "none" THEN t
       ELSE IF t.live THEN [t EXCEPT !.cut = TRUE]
       ELSE [IF mux.all THEN Dropped(t) ELSE t EXCEPT !.cut = TRUE]]
  /\ UNCHANGED <<calls, gone, active, focus, reports, late>>

\* set_focus: what was queued of the agent is shown live from its next turn on.
SetFocus(a) ==
  /\ focus # a /\ Spend("focus")
  /\ focus' = a
  /\ IF a = "main" THEN Quietly(mux)
     ELSE Show(DiscardAgent(mux, a), 0,
               [Nothing EXCEPT !.thrown = Len(mux.queue[a]), !.calls = - Len(mux.tools[a])])
  /\ UNCHANGED <<calls, turn, gone, active, reports, late>>

\* stop_agent, once its runner has ended.
StopAgent(a) ==
  /\ a \notin gone /\ turn[a].phase = "none" /\ Spend("stop")
  /\ gone' = gone \cup {a}
  /\ calls' = DiscardAgentCalls(calls, a)
  /\ active' = IF active = a THEN "none" ELSE active
  /\ Show(IF focus # a /\ mux.all THEN EndOfAgent(mux, a) ELSE mux,
          IF focus # a THEN 1 ELSE 0, Nothing)
  /\ UNCHANGED <<turn, focus, reports, late>>

Next ==
  \/ \E a \in Agents :
       \/ StartTurn(a) \/ Reasoning(a) \/ Fails(a) \/ SessionEnds(a) \/ Interrupt(a)
       \/ FinishTurn(a) \/ StopAgent(a)
       \/ \E piece \in {"c", "n"} : Text(a, piece)
       \/ \E id \in Ids :
            \/ ToolUseStart(a, id) \/ ToolOutputDelta(a, id)
            \/ \E whole \in BOOLEAN : ToolInputDelta(a, id, whole)
            \/ \E name \in {"tool", "other"}, size \in BodySizes : ToolEnds(a, id, name, size)
  \/ \E k \in DOMAIN late : DeferredResult(k)
  \/ \E a \in Agents \cup {"main"} : SetFocus(a)
  \/ Incoming \/ Submitted \/ MainBoundary \/ MarkIdle \/ Toggle

Spec == Init /\ [][Next]_vars

-----------------------------------------------------------------------------
(* Properties.                                                             *)

SizeOf(q) == Sum([n \in DOMAIN q |-> q[n].size])
Waiting(m) == {a \in Agents : m.queue[a] # << >>}

\* However events, drains, evictions, switches of the mode and of the focus
\* follow each other, the multiplexer's two byte counters are what it holds,
\* the rotation is the set of agents with frames, the order of the calls is
\* the set of those collected, and every limit holds once an event has been
\* taken in, before a boundary has shown anything of it.
BooksBalance ==
  /\ mux.queued = MapThenSumSet(LAMBDA a : SizeOf(mux.queue[a]), Agents)
  /\ mux.collected = Len(mux.collectors)
       + MapThenSumSet(LAMBDA a : Sum([n \in DOMAIN mux.tools[a] |->
                                         1 + mux.tools[a][n].arguments]), Agents)
  /\ ToSet(mux.ring) = Waiting(mux) /\ IsInjective(mux.ring)
  /\ ToSet(mux.collectors) = {a \in Agents : mux.tools[a] # << >>} /\ IsInjective(mux.collectors)
  /\ ToSet(mux.order) = UNION {KeysOf(mux, a) : a \in Agents} /\ IsInjective(mux.order)
  /\ last.within

Markers(out) == SelectSeq(out, LAMBDA f : f.kind = "marker")
ToldFrames(out) == Sum([n \in DOMAIN Markers(out) |-> Markers(out)[n].frames])
ToldCalls(out)  == Sum([n \in DOMAIN Markers(out) |-> Markers(out)[n].state])

\* No action of a background agent is lost in silence: a frame is shown, still
\* held, thrown away because the user switched, or counted in a marker that is
\* shown or due; a collected call is still held, thrown away, counted or
\* answered; and once its arguments are whole, it gives output or is answered,
\* a frame was queued for it (_emit_call).  One call does go in silence: an
\* answer under another tool's name takes the collected call out and returns
\* before the call is shown (_multiplexer.py:558, 572-583).
NothingSilentlyLost ==
  [][LET out == last'.shown IN
     /\ mux'.sequence - mux.sequence
          = (Count(mux') - Count(mux)) + Len(out) + last'.thrown
            + (mux'.frames - mux.frames) + ToldFrames(out)
     /\ last'.calls = (Len(mux'.order) + mux'.state) - (Len(mux.order) + mux.state)
                       + ToldCalls(out)
     /\ last'.due \subseteq mux'.called]_vars

\* An agent with frames waiting sees at most one frame of each other agent
\* before its own next one, whatever is shed or discarded meanwhile.
TakesTurns == \A a, b \in Agents : since[a][b] <= 1

FramesOf(m) == UNION {ToSet(m.queue[a]) : a \in Agents}

\* A result or the end of a turn is shed only when its agent has nothing
\* lesser left to give, and where no new frame asked for its place, a frame is
\* shed only when no call in progress is left to give up.
ResultsOutlastOutput ==
  [][LET out == last'.shown
         shed == mux'.frames + ToldFrames(out) > mux.frames
         nothingNew == mux'.sequence - mux.sequence = Len(Markers(out))
     IN /\ \A f \in FramesOf(mux) :
             (/\ f.critical /\ f \notin FramesOf(mux') \cup ToSet(out)
              /\ mux'.all = mux.all /\ last'.thrown = 0)
             => \A g \in ToSet(mux'.queue[f.agent]) : g.critical
        /\ shed /\ nothingNew => mux'.order = << >>]_vars

\* The number on a result is the one its call was shown under, although the
\* display was switched, the call pushed out or deferred meanwhile, and a
\* result without a call has a number of its own.
MarkersAreTrue ==
  [][\A n \in DOMAIN last'.answer :
       LET r == last'.answer[n] IN
       /\ r.given # 0 => r.ordinal = r.given
       /\ r.given = 0 => \A a \in Agents : r.ordinal \notin Range(turn[a].given)]_vars

Times(r, p) == r.printed[p] + (IF p \in r.unseen THEN 1 ELSE 0)

\* When the report of a background turn that succeeded has arrived, all of
\* the turn's text is on the screen, and unless the display was switched
\* during the turn each part of it once.
EveryTextOnce ==
  [][\A n \in DOMAIN last'.report :
       LET r == last'.report[n] IN
       \A p \in DOMAIN r.text :
         r.text[p] = "c" => Times(r, p) >= 1 /\ (~ r.cut => Times(r, p) = 1)]_vars

=============================================================================
