------------------------- MODULE ActionMultiplexer --------------------------
(***************************************************************************)
(* ActionMultiplexer (axio_repl/_multiplexer.py): what background agents   *)
(* do is collected into complete frames, queued per agent under bounds on  *)
(* their number and size, and drained in turns.  What a bound pushes out   *)
(* is counted and told of in a marker.                                     *)
(*                                                                         *)
(* The multiplexer is a record m and every operator one of its methods.    *)
(* Sizes are in bytes of the model: a frame's head, an agent's id and a    *)
(* call's id take one each.  Streamed tool output is never retained here:  *)
(* the renderer passes retain_tool_output=False.                           *)
(***************************************************************************)
EXTENDS ToolCalls, Sequences, SequencesExt, FiniteSets, FiniteSetsExt

CONSTANTS
  Agents,
  MaxFrames,    \* max_queued_frames
  MaxQueued,    \* max_queued_bytes
  MaxPerAgent,  \* max_frames_per_agent
  MaxFrame,     \* max_frame_bytes
  MaxAgents,    \* max_agents
  MaxTools,     \* max_tools
  MaxAgentTools,\* max_tools_per_agent
  MaxRetained,  \* max_retained_bytes
  Marker        \* size of the suppression marker

ASSUME Limits ==
  /\ \A n \in {MaxFrames, MaxQueued, MaxPerAgent, MaxFrame, MaxAgents, MaxTools,
               MaxAgentTools, Marker} : n \in Nat \ {0}
  /\ MaxRetained >= Marker

Empty(all) ==
  [all |-> all,                               \* mode is ALL_ACTIONS
   queue |-> [a \in Agents |-> << >>],        \* _queues
   ring |-> << >>,                            \* _round_robin and _scheduled
   queued |-> 0,                              \* _queued_bytes
   collectors |-> << >>,                      \* _collectors, oldest first
   tools |-> [a \in Agents |-> << >>],        \* their tools, oldest first
   order |-> << >>,                           \* _tool_order
   collected |-> 0,                           \* _collector_bytes
   sequence |-> 0,                            \* _sequence
   frames |-> 0, state |-> 0,                 \* _suppressed_frames, _suppressed_state
   called |-> {}]                             \* history: the calls that a frame was queued for

\* A loop of the code: Step as long as While holds, at most fuel times.
Repeat(While(_), Step(_), x, fuel) ==
  LET After[n \in 0 .. fuel] ==
        IF n = 0 THEN x ELSE LET y == After[n - 1] IN IF While(y) THEN Step(y) ELSE y
  IN After[fuel]

MoveToEnd(s, e) == Append(SelectSeq(s, LAMBDA x : x # e), e)
Sum(s) == FoldLeft(LAMBDA n, x : n + x, 0, s)
Count(m) == MapThenSumSet(LAMBDA a : Len(m.queue[a]), Agents)

Suppressed(m) == m.frames + m.state > 0
\* queued_count: a marker that is due is one more.
QueuedCount(m) == Count(m) + IF Suppressed(m) THEN 1 ELSE 0

-----------------------------------------------------------------------------
(* The queues.                                                             *)

FrameSize(body) == IF 1 + body > MaxFrame THEN MaxFrame ELSE 1 + body

ScheduleFirst(m, a) ==  \* mutant: whoever has something new goes first
  IF a \in ToSet(m.ring) THEN m ELSE [m EXCEPT !.ring = << a >> \o @]

Schedule(m, a) ==
  IF a \in ToSet(m.ring) THEN m ELSE [m EXCEPT !.ring = Append(@, a)]
Unschedule(m, a) == [m EXCEPT !.ring = SelectSeq(@, LAMBDA b : b # a)]

DropQuietly(m, a) ==  \* mutant: the frame is not counted
  LET n == IF \E k \in DOMAIN m.queue[a] : ~ m.queue[a][k].critical
           THEN SelectInSeq(m.queue[a], LAMBDA f : ~ f.critical) ELSE 1
      m1 == [m EXCEPT !.queue[a] = RemoveAt(@, n), !.queued = @ - m.queue[a][n].size]
  IN IF Len(m.queue[a]) = 1 THEN Unschedule(m1, a) ELSE m1

DropOldest(m, a) ==  \* mutant: whatever is first goes
  LET m1 == [m EXCEPT !.queue[a] = Tail(@), !.queued = @ - Head(m.queue[a]).size,
                      !.frames = @ + 1]
  IN IF Len(m.queue[a]) = 1 THEN Unschedule(m1, a) ELSE m1

\* _drop_front: results and ends of turns outlast everything else.
DropFront(m, a) ==
  LET q == m.queue[a]
      minor == {n \in DOMAIN q : ~ q[n].critical}
      n == IF minor = {} THEN 1 ELSE CHOOSE k \in minor : \A l \in minor : k <= l
      m1 == [m EXCEPT !.queue[a] = RemoveAt(@, n), !.queued = @ - q[n].size,
                      !.frames = @ + 1]
  IN IF Len(q) = 1 THEN Unschedule(m1, a) ELSE m1

\* _oldest_agent: whose frame entered first, critical frames aside if there
\* is any other.
OldestAgent(m) ==
  LET all == UNION {ToSet(m.queue[a]) : a \in Agents}
      minor == {f \in all : ~ f.critical}
      from == IF minor # {} THEN minor ELSE all
  IN (CHOOSE f \in from : \A g \in from : f.sequence <= g.sequence).agent

Overfull(m) == Count(m) > MaxFrames \/ m.queued > MaxQueued
ShedOldest(m) == DropFront(m, OldestAgent(m))

Enqueue(m, a, kind, body, critical, ordinal) ==
  LET f == [agent |-> a, kind |-> kind, size |-> FrameSize(body), critical |-> critical,
            sequence |-> m.sequence + 1, ordinal |-> ordinal]
      m1 == Schedule([m EXCEPT !.sequence = @ + 1, !.queue[a] = Append(@, f),
                               !.queued = @ + f.size,
                               !.called = IF kind = "call" THEN @ \cup {ordinal} ELSE @], a)
      m2 == Repeat(LAMBDA x : Len(x.queue[a]) > MaxPerAgent, LAMBDA x : DropFront(x, a), m1, 1)
  IN Repeat(LAMBDA x : Count(x) > 0 /\ Overfull(x), ShedOldest, m2, Count(m2))

-----------------------------------------------------------------------------
(* The collectors of calls in progress, in least recently used order.      *)

Tool(key, ordinal, name, shown) ==
  [key |-> key, ordinal |-> ordinal, name |-> name, shown |-> shown,
   arguments |-> 0, output |-> FALSE]

Collected(m, key) == \E n \in DOMAIN m.tools[key.agent] : m.tools[key.agent][n].key = key
ToolAt(m, key) ==
  CHOOSE n \in DOMAIN m.tools[key.agent] : m.tools[key.agent][n].key = key

DropCollector(m, a) ==
  [m EXCEPT !.collectors = SelectSeq(@, LAMBDA b : b # a), !.collected = @ - 1]

PopToolKeepsBytes(m, key) ==  \* mutant: the arguments' bytes stay on the books
  LET a == key.agent
      m1 == [m EXCEPT !.order = SelectSeq(@, LAMBDA k : k # key)]
      m2 == [m1 EXCEPT !.tools[a] = RemoveAt(@, ToolAt(m, key)), !.collected = @ - 1]
  IN IF ~ Collected(m, key) THEN m1
     ELSE IF m2.tools[a] = << >> THEN DropCollector(m2, a) ELSE m2

PopTool(m, key) ==
  LET a == key.agent
      m1 == [m EXCEPT !.order = SelectSeq(@, LAMBDA k : k # key)]
      n == ToolAt(m, key)
      m2 == [m1 EXCEPT !.tools[a] = RemoveAt(@, n),
                       !.collected = @ - (1 + m.tools[a][n].arguments)]
  IN IF ~ Collected(m, key) THEN m1
     ELSE IF m2.tools[a] = << >> THEN DropCollector(m2, a) ELSE m2

\* _discard_tool, counting the call in the next marker.
Suppress(m, key) ==
  IF Collected(m, key) THEN [PopTool(m, key) EXCEPT !.state = @ + 1] ELSE PopTool(m, key)

\* _remove_collector and _remove_turn_collector.
DiscardTools(m, keys, counted) ==
  FoldLeft(LAMBDA x, k : IF counted THEN Suppress(x, k) ELSE PopTool(x, k), m, SetToSeq(keys))
KeysOf(m, a)         == {t.key : t \in ToSet(m.tools[a])}
KeysOfTurn(m, a, n)  == {k \in KeysOf(m, a) : k.turn = n}
RemoveCollector(m, a, counted) == DiscardTools(m, KeysOf(m, a), counted)

\* _remember_tool: room is made before the collector is resolved.
RememberTool(m, tool) ==
  LET a  == tool.key.agent
      m1 == PopTool(m, tool.key)
      m2 == Repeat(LAMBDA x : Len(x.order) >= MaxTools,
                   LAMBDA x : Suppress(x, Head(x.order)), m1, Len(m1.order))
      m3 == Repeat(LAMBDA x : Len(x.tools[a]) >= MaxAgentTools,
                   LAMBDA x : Suppress(x, Head(x.tools[a]).key), m2, Len(m2.tools[a]))
      m4 == IF m3.tools[a] # << >> THEN [m3 EXCEPT !.collectors = MoveToEnd(@, a)]
            ELSE LET room == Repeat(LAMBDA x : Len(x.collectors) >= MaxAgents,
                                    LAMBDA x : RemoveCollector(x, Head(x.collectors), TRUE),
                                    m3, Len(m3.collectors))
                 IN [room EXCEPT !.collectors = Append(@, a), !.collected = @ + 1]
  IN [m4 EXCEPT !.tools[a] = Append(@, tool), !.order = Append(@, tool.key),
                !.collected = @ + 1 + tool.arguments]

\* _touch_tool
TouchTool(m, key) ==
  LET a == key.agent
      n == ToolAt(m, key)
  IN [m EXCEPT !.tools[a] = Append(RemoveAt(@, n), m.tools[a][n]),
               !.collectors = MoveToEnd(@, a), !.order = MoveToEnd(@, key)]

EmitUnseen(m, a, t) ==  \* mutant: a call that nothing was heard of is not shown
  IF t.shown \/ t.arguments = 0 THEN m ELSE Enqueue(m, a, "call", t.arguments, FALSE, t.ordinal)

\* _emit_call, of a call that was just taken out ...
EmitTaken(m, a, t) ==
  IF t.shown THEN m ELSE Enqueue(m, a, "call", t.arguments, FALSE, t.ordinal)

\* ... and of one that stays and gives up its arguments.
EmitCall(m, key) ==
  LET a == key.agent
      n == ToolAt(m, key)
      t == m.tools[a][n]
  IN EmitTaken([m EXCEPT !.tools[a][n].shown = TRUE, !.tools[a][n].arguments = 0,
                         !.collected = @ - t.arguments], a, t)

-----------------------------------------------------------------------------
(* The whole.                                                              *)

Retained(m) == m.queued + m.collected + (IF Suppressed(m) THEN Marker ELSE 0)

\* _enforce_retained_limit: calls in progress go before frames.
EnforceRetained(m) ==
  Repeat(LAMBDA x : Retained(x) > MaxRetained,
         LAMBDA x : IF x.order # << >> THEN Suppress(x, Head(x.order))
                    ELSE IF Count(x) > 0 THEN ShedOldest(x) ELSE x,
         m, Len(m.order) + Count(m))

\* set_mode: whatever was collected under the other mode is forgotten.
SetMode(m, all) == IF m.all = all THEN m ELSE [Empty(all) EXCEPT !.sequence = m.sequence]

\* discard_agent: the agent is shown live from now on.
DiscardAgent(m, a) ==
  LET m1 == [m EXCEPT !.queue[a] = << >>,
                      !.queued = @ - Sum([n \in DOMAIN m.queue[a] |-> m.queue[a][n].size])]
  IN Unschedule(RemoveCollector(m1, a, FALSE), a)

\* observe, while ALL_ACTIONS are shown: the parts of the big match.
OneLine(m, a, critical) ==
  EnforceRetained(Enqueue(m, a, "life", 1, critical, 0))

\* A turn or an agent that ends takes its calls in progress along.
EndOfTurn(m, a, n) ==
  EnforceRetained(DiscardTools(Enqueue(m, a, "life", 1, TRUE, 0), KeysOfTurn(m, a, n), TRUE))
EndOfAgent(m, a) ==
  EnforceRetained(RemoveCollector(Enqueue(m, a, "life", 1, TRUE, 0), a, TRUE))

ToolStarts(m, c, key) ==
  EnforceRetained(RememberTool(m, Tool(key, c.active[key].ordinal, c.active[key].name, FALSE)))

\* Arguments are collected until they are whole; what comes later is ignored.
ToolInput(m, key, whole) ==
  LET m1 == TouchTool(m, key)
      n == ToolAt(m1, key)
      m2 == [m1 EXCEPT !.tools[key.agent][n].arguments = @ + 1, !.collected = @ + 1]
  IN IF ~ Collected(m, key) THEN EnforceRetained(m)
     ELSE IF m1.tools[key.agent][n].shown THEN EnforceRetained(m1)
     ELSE EnforceRetained(IF whole THEN EmitCall(m2, key) ELSE m2)

ToolOutput(m, key) ==
  LET m1 == EmitCall(TouchTool(m, key), key)
  IN IF ~ Collected(m, key) THEN EnforceRetained(m)
     ELSE EnforceRetained([m1 EXCEPT !.tools[key.agent][ToolAt(m1, key)].output = TRUE])

\* The result of a call that is not collected any more, of an orphan and of
\* another tool's name stands alone; otherwise the call is shown before it.
\* Output that was streamed is not repeated.
ToolResult(m, c, key, name, size) ==
  LET a == key.agent
      t == m.tools[a][ToolAt(m, key)]
      alone == ~ Collected(m, key) \/ Orphan(c, key) \/ Mismatch(c, key, name)
      ordinal == Answered(c, key, name).active[key].ordinal
      kind == IF Orphan(c, key) THEN "orphan" ELSE "result"
      m1 == PopTool(m, key)
  IN EnforceRetained(
       IF alone THEN Enqueue(m1, a, kind, size, TRUE, ordinal)
       ELSE Enqueue(EmitTaken(m1, a, t), a, kind, IF t.output THEN 0 ELSE size, TRUE, ordinal))

\* drain: the marker first, then one frame of each agent in turn.  A frame
\* that does not fit goes back and the next agent is tried.
Drain(m, maxFrames, maxBytes) ==
  LET notice == [kind |-> "marker", size |-> Marker, frames |-> m.frames, state |-> m.state]
      told == Suppressed(m) /\ Marker <= maxBytes
      begin == [m |-> IF told THEN [m EXCEPT !.frames = 0, !.state = 0, !.sequence = @ + 1]
                      ELSE IF Suppressed(m) THEN [m EXCEPT !.sequence = @ + 1] ELSE m,
                out |-> IF told THEN << notice >> ELSE << >>,
                used |-> IF told THEN Marker ELSE 0,
                attempts |-> 0, stop |-> FALSE]
      More(d) == ~ d.stop /\ d.m.ring # << >> /\ Len(d.out) < maxFrames
      Turn(d) ==
        LET a == Head(d.m.ring)
            f == Head(d.m.queue[a])
            taken == [d.m EXCEPT !.ring = Tail(@), !.queue[a] = Tail(@), !.queued = @ - f.size]
            back  == [d.m EXCEPT !.ring = Append(Tail(@), a)]
        IN IF f.size > maxBytes - d.used
           THEN [d EXCEPT !.m = back, !.attempts = @ + 1,
                          !.stop = d.attempts + 1 >= Len(back.ring) + 1]
           ELSE [d EXCEPT !.m = IF taken.queue[a] = << >> THEN taken ELSE Schedule(taken, a),
                          !.out = Append(@, f),
                          !.used = @ + f.size, !.attempts = 0]
      end == Repeat(More, Turn, begin, (maxFrames + 1) * (Cardinality(Agents) + 1))
  IN IF maxFrames = 0 \/ maxBytes = 0 THEN [m |-> m, out |-> << >>]
     ELSE [m |-> end.m, out |-> end.out]

=============================================================================
