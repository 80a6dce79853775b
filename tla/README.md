# Axio in TLA+

Models of Axio where it is hard to test: the agent loop and its tools, the order
of a session's events, background agents and their notifications, the REPL's
foreground loop with what the user types into it, the transports' streams, the
shared conversation store, the journal with its recovery, and the terminal with
the agents that share it. Each is checked with TLC on small instances; the central safety properties are proved with
TLAPS for every instance.

Source paths are relative to the repository root; `agent.py` is
`axio/src/axio/agent.py`, `notify.py`, `background.py`, `context.py`,
`compaction.py`, `stream.py`, `_asyncio.py` are its neighbours, `runtime.py` and
`peers.py` are in `axio-tools-agents/src/axio_tools_agents/`, `store.py` in
`axio-context-sqlite/src/axio_context_sqlite/`, `decoder.py` in
`axio-sse/src/axio_sse/`, and `__init__.py` and the files whose names begin with
an underscore in `axio-repl/src/axio_repl/` unless a transport is named.

## The system

Everything is asyncio in one process and one event loop: code runs without
interruption from one `await` to the next, and a cancellation is an exception
raised at an `await`. So *one action is the code between two awaits of one
task*, and the interleavings are those of tasks at their awaits. The exceptions
are async generators, which are also suspended at a `yield`, where the consumer
may resume or close them but no cancellation is raised, and the threads of the
SQLite connection and of the journal's file operations, whose jobs go on when
the task that waits for them is cancelled. Output to the terminal is the one
thing that any thread may do directly: there an action is the code under one
lock.

| part | state it keeps | operations | hard because |
|---|---|---|---|
| **Agent loop** (`agent.py`) | turn under construction, iteration, the dispatch's task, output queue | run, stream a response, dispatch tools, store the exchange, report results | cancelled, closed, or failing at every await; tools run beside it; the finalizer is shielded |
| **Deferred tools** (`_deferred_tools.py`) | a record per dispatch: phase, preemption and interruption requests | start, defer, close, finish, preempt, interrupt, watch | decides while the loop decides; must deliver after the loop stored a placeholder |
| **Conversation store** (`context.py`, SQLite) | the messages | append, append_many, fork, clear | a call without its result is refused by every provider; not every store is atomic |
| **Session event hub** (`runtime.py`) | sequence numbers given, reserved, discarded; pending publications; boundary waiters | reserve, publish, discard, wait, subscribe | whoever has the lock delivers for everyone, and may be cancelled meanwhile |
| **Notifications** (`notify.py`) | per owner: queue, turn depth, listener | post, retract, drain, turn scope, discard | routing depends on whether the owner is in a turn at that moment |
| **Detached calls** (`background.py`) | calls, collected flags | start, done callback, describe, cancel all | collected by hand or announced, never both |
| **Background agents** (`peers.py`) | inbox, runner, current turn, stopping, idle waiters | enqueue, message, interrupt, stop, run a turn, report | stop and interrupt race with turns; cleanup is itself cancellable |
| **Foreground coordinator** (`_coordinator.py`) | pending entries, a lock | admit, recall, claim, deliver, adopt, restore | holds its lock across publications into an order the keyboard has places in |
| **Foreground loop** (`__init__.py`, `main`) | editor, interrupts, settling turns, ready claims, incoming messages | choose the next turn, interrupt, switch agents, shut down | everything it chose may have changed when the await returns |
| **Observed turns** (`runtime.py`) | partial text, outcome | commit and publish messages, finish a cancelled turn | stores and publishes in several awaits |
| **Journal and recovery** (`_journal.py`, `_recovery.py`) | queue, pending fragments, segments on disk | record, checkpoint, barrier, append, fsync, close, recover | crash between any two writes; the queue is bounded; a write may fail in the middle |
| **Compaction** (`compaction.py`) | none | cut, summarise, rewrite the store | rewrites what others append to |
| **SQLite store** (`store.py`) | a lock with waiters, one transaction, one thread | acquire, release, execute, commit, roll back | hand-over races with cancellation; a cancelled caller's job goes on |
| **Transports and readers** (four transports, `axio-sse`, `axio-responses`) | attempt, decoder, turn under construction | send, retry, decode, read a payload, end | bodies are cut anywhere, end early and fail in the middle |
| **Terminal** (`_terminal.py`, `_terminal_ingress.py`, `_prompt_terminal.py`) | unfinished lines per writer, a bounded queue, rows under the prompt, late frames | write, flush a live line, drain, close, fail | any thread writes; the queue drops; the terminal fails; close races with writers |
| **Multiplexer, tool calls, renderer of background agents** (`_multiplexer.py`, `_tool_calls.py`, `__init__.py`) | queues and collectors per agent, two byte counts, a rotation; the numbers of calls; the text of a turn and the ranges of it on screen | observe, drain, suppress, switch display or focus, defer, report | limits evict across agents and tables; the display is switched in the middle of turns |
| Local tools, MCP, Docker, TUI, audio, configuration | | | processes, devices, presentation: see "Not modelled" |

Who calls whom: the host (REPL, `peers.py`) pulls a run's stream and publishes
every event of it through the hub, whose first subscriber is the journal; the
loop pulls the transport's stream, writes to the store, drains the owner's
notifications at the top of each iteration and hands a cancelled batch of tools
to the host's deferred-tool sink; a tool may detach a call, whose end posts a
notification to its owner, which reaches the owner's running turn or, through
the listener, the inbox of the background agent; a finished turn is reported to
the parent, again through `notify` or the host's handler; the REPL's loop takes
pending input, interrupts, messages and reports one at a time and makes turns
of them.

What makes the parts correct:

- loop: every stored call has its result beside it; a result says what
  happened; nothing runs that the response did not vouch for; tools do not
  outlive their run unless handed over; a run ends, once, and says so;
- sink: it takes over what it asked to keep, delivers after the placeholder,
  and lets go;
- hub: one order, no overtaking of a reserved place, return means received, no
  lost wake-up;
- notifications: not lost, not repeated, not stranded;
- background agent: one report per turn, stop is final, whoever waits is
  released;
- foreground: what was typed is in the conversation once, in order, or waits to
  be, and a crash at any moment recovers exactly that;
- transport: the same body gives the same events however it is cut; a truncated
  answer is not taken for a whole one; a retry does not replay;
- store: one owner of the connection, calls as a whole or not at all, answers
  that are true; a compaction forgets nothing;
- journal: a barrier that returned is on disk, and the file can always be read;
- terminal: a line arrives once and in its place or is told of; drain means
  shown; whoever waits for the terminal comes back;
- background output: its books balance, agents take turns, nothing disappears
  silently, results outlast output, a result carries its call's number, and the
  report of a turn shows exactly what the screen has not shown of it.

## The modules

| module | models | state ↔ code |
|---|---|---|
| `Conversation` | the contract of a store with an atomic `append_many`, and of the loop that writes to it | `log`: the messages |
| `AgentRun` | `Agent._run_loop`, `_consume`, `_dispatch_phase`, `_dispatch_tools_streaming`, the caller of the stream, `DeferredToolRegistry` | `pc`: the await or yield the loop is suspended at; `caller`: whether the generator is being pulled; `turn`: `_Turn`; `plan`: the store operation and events the code after `pc` still has to produce; `tools`, `dispatch`, `queue`: the tasks and `output_queue`; `sink`, `preempt`, `stopAsked`: `_OwnedDispatch` |
| `AgentRunProperties`, `AgentRunProofs` | promises and proofs: the store's contract; everything else a run keeps | |
| `EventOrder` | what the hub promises: places passed in order, each once filled or given up | `given`, `reserved`, `filled`, `dropped`, `next` |
| `EventHub` | `SessionEventHub` with its clients; implements `EventOrder` | `seq`, `reserved`, `discarded`, `next`, `pending`: the fields of the class; `delivering`, `todo`: `_deliver` in progress; `settled`, `aborted`: the result futures; `pc`, `op`, `mine`: each client |
| `EventHubProofs` | proofs about `EventHub`, and that it implements `EventOrder` | |
| `Notify` | one owner's bucket and its detached calls | `queue`, `depth`, `listening`: `_Bucket`; `task`, `collected`: `BackgroundCall` |
| `BackgroundAgent` | `_BackgroundAgent`, its runner, turn and callers; extends `Notify` | `inbox`, `stopping`, `busy` (`processing_input`): the fields; `runner`, `turn`: the awaits of the two tasks; `hit`, `kills`: cancellations of the runner; `sent`: each input's `done` future |
| `BackgroundAgentProperties`, `BackgroundAgentProofs` | promises and proofs | |
| `PendingInput` | `PendingInputCoordinator` over the hub's `EventOrder`, and the recovery of what it published | `entries`: `PendingInputState`; `lock`: the transition under publication; `wire`: what the filled places hold; `restored`: the fold `materialize_recovery` makes |
| `Foreground` | `main()`: editor, key presses, peers, the foreground turn, the focused child, and the loop that decides; extends `PendingInput` | `editor`, `recall`, `interrupts`, `ready`, `settling`, `commands`, `inbox`: the locals of `main()`; `main`: the await its loop is at; `fg`: `foreground_task` and `prompt_task` |
| `ForegroundProofs`, `ForegroundSafetyProofs` | proofs about `Foreground`: its core invariant; its four properties | |
| `ProviderStream` | what a transport promises the agent loop of one `stream()` | `said`, `over` |
| `SSEDecoder` | `axio-sse`'s decoder and line splitting, character by character | a record with the text held, the half-read terminator and the lines collected |
| `ProviderReaders` | the four readers: chat completions, Responses, Messages, Gemini | `turn`: the reader's fields |
| `Transport` | `stream()` with its retries, the body in chunks, the decoder, the reader and the caller; implements `ProviderStream` | `attempt`, `phase`, `sent`: `_do_stream`; `decoder`, `events`, `taken`: the reading loop; `text`, `at`, `closed`: the connection |
| `StoreLedger` | what a store owes: calls as a whole, at most once | `store`, `called`, `story` |
| `Compaction` | the boundary and the compacted history | operators |
| `SqliteStore` | tasks that share a connection, its lock, transaction and thread, and `AutoCompactStore` over it; implements `StoreLedger` | `lock`: `_locked` and `_waiters`; `jobs`: the connection's queue; `working`, `inside`: its transaction; `pc`, `mine`, `reply`, `plan`: each task; `store`: what is committed |
| `SqliteStoreProperties`, `SqliteStoreProofs` | what callers may rely on, and proofs | |
| `Recovery` | `materialize_recovery` for the main agent's turn | operators |
| `SessionJournal` | `SessionJournal`: queue, barriers, writer, file; extends `Recovery` | `journal`: the queue and fields; `writer`: its operation; `file`, `torn`, `durable`, `named`: the disk |
| `RecordedTurn` | an observed turn with its recorder over that journal, and the end of the process | `phase`, `todo`, `round`, `current`, `history` |
| `RecordedTurnProofs` | proofs | |
| `TerminalIngress` | the queue between the writers and the consumer, as a pure value | a record with the fields of `TerminalIngress` |
| `TerminalUI` | the facades of stdout and stderr, their threads, the ingress, the consumer on the loop, `drain`, `close`, and the screen | `facade`: `_TerminalStream`'s buffers, live ids and discard flag; `pc`: each thread between its locks; `wake`, `posted`, `consumer`, `error`, `drainer`, `closer`: `TerminalUI`; `scroll`, `rows`: what the terminal shows; `fallback`: the original streams |
| `ToolCalls` | `ToolCallRegistry`: which number a call has | a record with its fields |
| `ActionMultiplexer` | `ActionMultiplexer`: queues, collectors, limits, rotation, suppression | a record `mux` with its fields |
| `BackgroundScreen` | what the renderer does with background agents' events; composes the two above | `turn`: `_TurnPresentation` and the agent's render state; `mux`, `calls`, `focus`; `since`, `reports`, `last`: history for the properties |
| `NaturalsLemmas` | induction on numbers, for the proofs | |
| `MC...` | instances for TLC | |

A definition named `...Mutant`, or marked as a mutant where it stands, is a
plausible mistake in the definition that follows it. No specification uses it;
putting it in place of that definition makes the property it is meant for fail.

### AgentRun

A response streams text and calls and ends with a stop reason, is cut (no
`IterationEnd`, output limit, repetition) or fails. Calls are model values; a
call's arguments parse or not, its handler emits deltas, returns, raises
`CancelledError` by itself, or is cancelled and cleans up. Stop reasons are
grouped by what the loop does with them: `"max_tokens"` also stands for
`refusal`, `cancelled`, `context_window_exceeded` and `unknown`, and `"other"`
for `error` and anything unforeseen. An `IterationEnd` is taken to be the last
event of its response, as every transport has it. Streamed deltas matter only
as events that suspend the generator and go through the queue, so they carry no
text.

`Store` chooses the store: `"memory"` never suspends, so nothing can be raised
in it; `"transaction"` stores a batch wholly or not at all (`MemoryContextStore`
and the SQLite store); `"sequential"` is the default `append_many`, one
message at a time, which every store inherits that overrides only `append`.

The caller may close the stream at a yield (`Abandon`); a dispatch generator it
leaves behind is closed by the event loop later (`ReapAbandoned`). Cancelling
the task that pulls is `CancelLoop` or, while tools run, `CancelDispatch`;
while the shielded finalizer runs (`"interrupted"`, `"grace"`, `"reaping"`,
`"closing"`) a further cancellation changes nothing but who raises it.

Left out: text and media, signatures and token counts, the wording of results,
`BaseException`s other than cancellation out of tools (`KeyboardInterrupt`), tool
guards and concurrency limits, and a turn that outlasts the time shutdown gives
it: `CloseSink` (`DeferredToolRegistry.close`) comes when the run has ended.

### EventHub

A client does one operation: publish with or without a reservation, discard a
reservation, wait for a boundary; it may be cancelled at the lock, while it
delivers for others, or while it waits. Subscribers take their own time and may
leave. A subscriber that fails is one that has received the event, as in
`_deliver`.

### Notify and BackgroundAgent

One agent, from its registration to its removal, with prompts and updates from
local callers, messages from peers, and detached calls of its own. A turn is
abstracted to the awaits at which notifications and cancellations matter: its
start, its input, the drain and append at the top of an iteration, its work, its
end. The host is assumed to have installed an outcome handler, as the REPL does
(`_queue_background_outcome`); a cancelled turn has no outcome and is announced
with `notify.post`. Left out: `mark_background_report_delivered` (no caller),
whether a turn that was interrupted is worded so, a second `stop_agent` (it
would add another sentinel), `enqueue_local_agent_messages` (like a prompt).

### PendingInput and Foreground

One main agent, one child that may be focused, a journal. The user types inputs
(numbered in the order of their Enter: a message, a command, or what recovery
brought back), presses Up to recall and Escape to interrupt, ends the editor;
peers write; the turn makes requests. A step of the loop of `main()` runs from
one await to the next; when nothing it waits for needs the event loop it goes
straight from the top through accepting to choosing, which `Yielded` says.

The hub is not modelled again: `PendingInput` uses `EventOrder`, which
`EventHub` is shown to implement, and `wire` says what each filled place holds.
`restored` is kept up with every delivered event by the fold
`materialize_recovery` makes of the journal, so that "a crash now" needs no
action: what recovery would make is a value in each state.

The presses of Escape are first in, first out: the tasks that publish them start
in the order of the presses, the hub's lock and the queue keep it (`FirstAt`).
What is left open between them is everything else. The order of the conversation
depends on it: an Escape at a later turn must not be accepted before one at an
earlier turn.

`Jammed` names the states in which a key's place cannot be filled because the
lock's holder waits for it (see the divergences); properties that would only
restate that jam exempt it by name.

Left out: the panel's layout, attachments, slash commands other than as inputs
that are not stored, more than one focusable child. A command that is allowed
during a turn (`/help`, `/agents`, `/agent-actions` and those without arguments,
`__init__.py:4858`) runs at once in the code and waits for the turn in the model;
what commands do is not modelled either way. A child's turn is not interrupted
and does not fail before it has stored its input (`__init__.py:4378`, `5111`): a
child that stops with the input claimed is the only way it goes unstored. The
awaits of `renderer.incoming` and of `append_many` in the delivery of an
interrupt are part of the step `Barrier`.

### SSEDecoder, ProviderReaders, Transport

A character stands for as much text as the format never looks into; CR, LF,
the `data:` field name and the comment's colon are characters of their own, so
that every cut between them is a behaviour. A payload is an item the provider
says, of the kinds the readers tell apart. Four endpoints of the five APIs are
checked with the full vocabulary; `"compatible"` is the chat transport of the
OpenAI-compatible endpoints, which has no record of having yielded. Reasoning,
citations, hosted tools, token counts and the bytes of a character are left out,
as is reconnection (`axio-sse` offers it and no transport uses it). Behind its
payloads a body may go on with a line that is too long, whether it ends or not, or
an event of too many data lines, so that the decoder's limit is met by chunks that
complete events and by chunks that do not.

### SqliteStore

A call is the lock, its statements, its commit, and the lock's release, each
executed by the connection's thread in order, whether or not the task that
asked still waits. Statements and commits may fail, tasks may be
cancelled at every await, the process may end. `AutoCompactStore` is
`_do_compact` await by await over the same connection. The summary is whatever
the provider answers: it stands for the messages it was made of. A crash keeps
what is committed. One session is compacted once (`Uncompacted`,
`PlainAssumption`): a compaction is one task's work from the threshold to the
last write, and the next one would find a history whose first rows are a summary
like any other. Left out: schema migration, listing sessions, a rollback that
fails itself (`store.py:194`), and a `get_history` or `get_context_tokens` that
fails (`compaction.py:40`, `183`), which ends a compaction where an interruption
at the same place does.

### SessionJournal and RecordedTurn

Queue, pending fragments, checkpoints, barriers, the writer task with its
append, fsync and directory fsync, close, and faults of each. A record is a
sequence number and an event. The turn streams text in pieces, stores answers,
and may be cancelled; the process may end at any moment, leaving what is durable
and any prefix of the rest, with a torn line at its end; then `Recovery` is
applied. Left out: attachments, redaction, segments of earlier runs, children's
turns.

### TerminalIngress and TerminalUI

Writers are semantic streams of the loop's thread and a logging thread with a
facade of its own. A piece of text is a pair of its writer and a number; it may
end its line or not. An unfinished line may be shown as a live row under the
prompt, and is cleared from there when it is finished. `write` is split where
the code leaves one lock and takes the next: the facade's buffer, the queue,
the wake-up of the loop, and, outside an open terminal, the fallback lock. The
loop's thread does one thing at a time (`onLoop`). The consumer takes a batch
and writes it frame by frame, and may fail at any frame. `close` is its steps:
flush both facades, seal, wait for the consumer, write the late frames to the
original streams, restore. The erase, write and redraw of a frame in
prompt_toolkit's `run_in_terminal` is one step.

Left out: the facades' own event in `_drained`, a flush asked for explicitly,
the input side, resizing, a close that is itself cancelled.

### ToolCalls, ActionMultiplexer, BackgroundScreen

Agents run turns made of plans (prose, reasoning, calls with output and result,
an error) one event at a time, may fail, and may be interrupted with calls open,
whose results come later by `render_deferred_tool_result`. The user focuses on
an agent, switches the display of actions, submits input; the main agent's
boundaries drain the multiplexer. A frame is its agent, its kind, its size and
whether it is critical; bytes are small numbers. Text is the list of a turn's
pieces, of which `ranges` says what counts as displayed and `printed` what was.

The safe-boundary budget is one frame (`BoundaryFrames = 1`, an argument of the
renderer's constructor), so that a backlog builds up at small bounds; its byte
budget never binds. `finish_turn` and the following
`take_background_outcome_presentation` are one step. Left out: the second
multiplexer, which keeps what the parent's other tools do while a child it
called is in the foreground (`__init__.py:892`), retained tool output, live
fields of tool calls, headers and summaries, sanitising.

`BooksBalance` looks at the limits when an event has been taken in and before
the boundary shows anything of it, because a boundary nearly always follows.
`NothingSilentlyLost` has two books, one of frames and one of collected calls,
and for a call that leaves the second (its arguments are whole, it gives output,
it is answered) `called` says that a frame was entered in the first. The one call
it lets go in silence is exempt by name: the code takes a collected call out, sees
that the answer is for another tool's name and returns before the call is shown
(`_multiplexer.py:558`, `572`).

## What TLC checks

| run | question | bounds |
|---|---|---|
| `agent_batch` | which calls run, which tools survive, in which order placeholder, close and deferred result come | 2 requests, 2 calls, sink, sequential store, no deltas |
| `agent_ends` | a run implements `Conversation`, ends, ends when cancelled, and the sink lets go | 1 request, 2 calls, sink, memory store, 1 delta, fair |
| `hub` | one order, meaning of a return, nobody waits for ever, `EventOrder` implemented | 3 clients, 1 subscriber, fair |
| `background` | notifications, reports, stop, waiters | first task, one of prompt, message or update, a detached call, fair |
| `foreground` | what the conversation holds, in which order, what a crash recovers, what a request misses | inputs 1 to 4 of which 3 may be resumed, 2 pending at most, 1 peer, 2 presses of Escape, 1 request a turn, 3 things from outside |
| `foreground_doc_enter` | a documented promise, violated | the same, nothing resumed, no request, 2 things from outside, fair |
| `stream` | cuts, whole answers, the contract | 4 endpoints, 14 sayings of up to 6 payloads, three layouts (two data lines under CR LF before a line longer than the limit; comments under CR before a line that never ends; one data line under LF before an event of too much data), chunks of 1, 2 and 9 characters, a limit of 4, 2 attempts |
| `stream_doc_starts` | a documented promise, violated | the compatible endpoint, short sayings |
| `storage` | the lock, answers, what a compaction keeps, `StoreLedger` implemented | 2 tasks, 4 sessions, one compaction, a history with a call and its result, 1 message kept, 2 calls, 2 cancellations, 1 fault, 1 crash |
| `journal` | what a barrier means, what recovery reads, barriers return | 2 rounds of 2 pieces, a queue of 3, 1 fault, fair |
| `terminal` | lines arrive or are told of, rows are the live lines, drain means shown, waiters return | 1 stream of the renderer and a logging thread, 3 pieces, 1 live row shown, a queue of 2 characters, batches of 2, 1 late frame, the terminal may fail, fair |
| `screen` | books, rotation, omissions, precedence of results, numbers of calls, text shown once | 2 agents, 3 call ids, 6 plans, 2 frames an agent and 3 in all, frames of 3 bytes at most and 5 bytes queued, 1 agent with calls, 2 of its calls and 3 in all, 6 bytes retained with a marker of 2 |

Why the bounds are enough. Two calls give a batch with a completed and a
running, a malformed and a good, a self-cancelled and an innocent call; the loop
treats calls alike, so that a third repeats one of them. Two requests give a
second dispatch after a first one and the iteration limit. One delta makes the
queue hold more than the closing `None` and the generator suspend at a yield
while tools run. Three clients of the hub are a reservation, a publication that
has to wait behind it and a third that delivers for them or is cancelled while
doing so; with fewer nobody delivers for a client that is waiting itself. An
input besides the first task waits in the inbox while that one is in its turn.
In the foreground, an input may be in the editor while one is claimed, one
waits and one is delivered; two Escapes are an interruption of an interruption.
Three things from outside (a peer's message, an Escape, the end of the editor or
a failure) are enough for two to arrive while the loop is at one await. Chunks
of one and two characters cut every terminator and every field in every way. In
the store, one task holds the lock, or is being given it, while the other
waits; two cancellations hit both ends of a hand-over; one fault and one crash
can follow each other; of the two fresh sessions the compaction's fork takes one
and a caller's fork of the session that is being rewritten the other. In the journal a queue of three places is full with a
record, a checkpoint and a barrier. In the terminal three pieces over a queue of
two make a drop, a coalesced or replaced frame and a late frame follow one
another; two writers are enough for one to overtake. On the screen two agents
of which one may be collected push each other out, a result of three bytes is
cut to a frame, two of them are more than may be queued, and two frames with a
call or a marker are more than may be retained: without the limit on a frame, on
an agent's frames, on queued bytes, on the agents that collect, on an agent's
calls, or on what is retained, `BooksBalance` fails at these bounds. The limits
on all frames and on all calls are never exceeded there: with two agents the
others come first.
Bounds that are counters in a
model (`MaxKeys`, `MaxCalls`, `MaxCancels`, `MaxFaults`, `MaxCrashes`,
`MaxRounds`, `MaxPieces`, `MaxShows`) are constants, named as bounds where they
are declared.

Symmetry is declared on calls, on presses of Escape, on the unused session ids of
which a fork takes one, and on background agents and the ids of their calls (the
plans are the same set and nothing orders them), in runs without liveness
properties. `CHECK_DEADLOCK FALSE` stands in the runs whose system may
stop: a process that has ended, a stream that is over, a closed terminal, a
screen nobody writes to.

A type invariant is stated in `AgentRun`, `EventHub` and `BackgroundAgent`, and
for `Foreground` in its proofs; the first is checked, the others are parts of
the proved invariants. Where a run's
property joins several named parts (`HistoryIsSound`, `ReportFollowsTheStore`,
`StoredAsTold`, `SyncedIsDurable`, `LinesArrive`), the parts are definitions of
their own with their own comments.

### Fairness

`AgentRunProperties!FairSpec`: the event loop runs every task that is ready
(weak fairness of the loop's own steps, of the dispatch, of a tool's start and
of a cancelled handler's cleanup, of the sink's watcher), the response ends in
one way or another, and the caller pulls. A handler that is not cancelled may
run for ever; `RunsEnd` asks only a cancelled run to end in that case, and
`SinkLetsGo` assumes that handlers return. The watcher and the store are fair
because the runs with liveness use a store that does not fail.

`EventHub!FairSpec`: whoever can take the lock takes it, whoever has it goes on
(asyncio's lock is first come, first served), subscribers finish, and a client
that reserved a place fills or discards it unless it is cancelled.
`NobodyWaitsForEver` exempts behaviours in which a reservation is never given
up: the hub cannot deliver past it, see the hazards.

`BackgroundAgent!FairSpec`: runner and turn steps are fair; `TurnEnds` is
strongly fair, because a turn alternates between work and the top of the next
iteration and `max_iterations` ends it. Nothing is assumed of callers, of
peers, of detached calls or of whoever stops the agent, and a handler may fail
whenever it is called.

`Foreground!FairSpec`: the steps of the coordinator, of the hub's delivery and
of the loop are weakly fair; the user owes nothing.

`RecordedTurn!FairSpec`: the writer, the host's closing steps, whoever waits for
the close lock, for a place in the queue or for a barrier's result. A file
operation that fails is still a step of the writer.

`TerminalUI!FairSpec`: threads run, the event loop runs what is ready (a posted
wake-up, the consumer, a drain or a close in progress), and the terminal answers
each frame, if only with an error. Nobody has to write, drain or close.

### Disagreements found

With a run that shows them:

- *An Enter that is not recorded.* `docs/guides/axio-repl.md:707`: "each Enter
  durably records a separate pending user message before opening a fresh
  editor." Enter reserves its place when the key is pressed (`_panel.py:466`) and
  then asks for the coordinator's lock; whoever takes that lock first publishes
  behind the place, and waits in the lock until it is filled.
- *Two starts.* `docs/guides/writing-transports.md:118` promises one
  `IterationStart`; the compatible transport's `_do_stream` (`chat.py:505`)
  retries after it has yielded.

Found while modelling, without a run of their own:

- *Results of completed calls.* `docs/concepts/agent.md:274`: "Already completed
  calls keep their real results." The finalizer keeps them only if the whole
  batch had completed and its gathering task has come to see that
  (`agent.py:855`, `856`). The result of a call that completed beside a running
  one is lost with `gather`, and stored as `[interrupted by user]` although its
  effect has happened; so is every result of a batch that is cancelled after its
  last call returned and before `gather` resumed. `TruthfulResults` says what the
  code keeps, that this note is stored only for calls of a batch that was itself
  cancelled before it ended, and says so where it stands; read as the sentence
  above, it would fail.
- *Where the cut matters.* `axio-sse/README.md:44`: "The result does not depend on
  where it was cut." Within `MAX_EVENT` it does not. A line longer than that is
  refused when a chunk ends inside it and accepted when it ends within its chunk
  (`_bounded` measures once the complete lines are gone), and the events
  that the refused chunk had completed are lost (`decoder.py:115` and `255` raise
  before `made` is returned), which smaller chunks would have delivered.
  `SplitsNeverMatter` states equality below the limit, and at it exactly when a
  body is refused and that what was delivered is a beginning of the truth.
- *Text told twice.* `test_recovery.py:255` wants a cancelled turn recovered
  "without duplicating committed partial"; recovery (`_recovery.py:312`) and
  the live turn (`runtime.py:691`) compare the text of all rounds as one with
  each answer.
- *The promised result.* The placeholder of a deferred call says "Its actual
  result will arrive as a later user message." (`agent.py:887`). A handler that
  lets a `CancelledError` of its own out makes the whole batch cancelled; the
  watcher re-raises it, because nobody asked for an interruption
  (`_deferred_tools.py:233`), and forgets the batch.
- *The late notification.* `peers.py:944` discards a gone agent's bucket so that
  a late completion does not "sit in a queue nobody drains". `notify.post` makes
  the bucket anew (`notify.py:95`) and queues there.
- *The passed-over message.* `axio-tools-agents/README.md:17-19` promises arrival
  order; when the input the loop has chosen is recalled during the claim, it
  returns (`__init__.py:5187`) without looking at the message it had passed over,
  which waits for the next event of another kind.
- *A stranded claim.* An Escape that cancels a turn before it has stored the
  input it claimed leaves the entry claimed; only recovery takes it up again
  (`axio-repl.md:728-730` says it stays visible).
- *The cut batch.* `ObservedContextStore.append_many` stores a batch and then
  publishes a `MessageCommitted` for each (`runtime.py:517`): cancelled between
  two, the journal has a call without its result.
- *The unfinished event.* `stream.py` and `axio-sse/README.md:47` say a body
  that "stops without its final blank line still yields what it collected";
  `Decoder._forget` discards it. The model follows the code, and `AnswerIsWhole`
  holds because no reader takes a body for complete without its closing payload.
- *The refusal that was cut.* In the chat and Responses readers a refusal delta
  followed by a cut ends as `IterationEnd(refusal)`, as if the refusal had been
  finished; `AnswerIsWhole` exempts it by name.
- *`keep_recent = 0`* makes `_find_safe_boundary` index past the end
  (`compaction.py:81`) unless the history is empty; `KeepRecent \in Nat \ {0}` is
  the model's assumption.
- *Compaction and writers.* A message appended between `_do_compact`'s snapshot
  and its rewrite is lost, and a rewrite that is cancelled or fails keeps a
  prefix; a fork that another caller makes of the session meanwhile is a copy of
  the part that is written. `NothingForgotten` keeps an account of each session
  that names the exemptions (`rewriting`, `lost`).
  A fork whose rewrite fails stays in the list of sessions.
- *Reading without the lock.* `get_history` (`store.py:232`) reads the
  connection's uncommitted rows of another task's transaction.
- *A cancelled close* of the journal kills its writer while the append's thread
  goes on; `ContextCleared` is journalled and ignored by recovery.
- *The notice on the other stream.* A thread's frame on stderr is dropped; the
  consumer prints the notice, the loop opens a new live line on stdout, and only
  then the discard that the drop asked for reaches the facades: the row stays
  and its text is lost without a notice after it (`axio-repl.md:47-51`).
  `RowsAreTheLiveLines` is therefore stated for executions without a drop.
- *A cancelled close of the terminal* (it is awaited unshielded,
  `__init__.py:5443`) leaves queued frames unwritten without a notice.
- *Repeated after a failure.* Once the terminal has failed, each published state
  of a live line waits as a late frame, and close writes each of them and the
  finished line (`axio-repl.md:580-581`). `OncePerLineInOrder` exempts a failed
  terminal.
- *Text printed again.* A turn's text that a reasoning delta or a persistent
  insertion has closed into the scrollback and whose display is then switched
  off is printed again by its report (`axio-repl.md:589-591`); a turn that failed
  prints all its text again. `EveryTextOnce` is stated for turns that succeeded
  and, for "once", whose display was not switched.
- *A failure without its detail.* A background turn that failed after all of its
  text was displayed is reported with `suppress_display`, and the detail that the
  line on screen announces (`__init__.py:2403`, "failed; details follow in
  incoming report") never comes.
- *A row left behind.* A cancelled background turn's unfinished row is taken
  away only at close (`axio-repl.md:588`).
- *In the multiplexer*: a result under another name than its call's drops the
  collected call, neither shown nor counted (`_multiplexer.py:558`, `572`);
  `NothingSilentlyLost` exempts it by name; a second `ToolUseStart` of a key replaces the action silently;
  with a byte budget that binds, the agent passed over goes to the end of the
  rotation; `_safe_boundary_is_open_locked` is always true.

## What is proved

With TLAPS, for every set of calls, clients, subscribers, inputs, tasks and
sessions, every store and outcome, every iteration limit and delta bound.

**`AgentRunProofs`.** `RunStoresAConversation`: over a store whose
`append_many` is atomic, a run implements `Conversation`. That a step appends a
whole exchange does not follow from its guard alone: that the round was not
answered before, and that the batch to be written holds exactly the calls of
the current turn, is decided many steps earlier. `StoreInv` carries it:
`ControlInv` (the loop's place, iteration, turn and plan fit together),
`BatchInv` (whatever is still to be written is the answer of this turn, or a
request with a result for each of its calls), `SpokenInv` (every round in the
store is at most the one the loop has settled, which is the current iteration
once its answer is written and the one before it until then). `StoreInvariant`
proves it inductive, action by action; the simulation then has one case for
`Write`, where the batch becomes `Exchange` or `Say`, one each for what a
cancellation or failure may have stored, and stuttering for the rest.

The second part of the module is the safety of a run over *every* store, the
sequential one included. The invariant has five layers, each inductive given
those before it:

- `PlanInv`: types, and what the loop may have left to write: an answer, an
  exchange, or, in a sequential store, the reply whose request is already in.
  It gives `RunIsTyped`.
- `ToolsInv`: a task's state fits its dispatch's (`DispatchInv`); a dispatch is
  awaited by its run or belongs to the sink (`OwnerInv`); what has run was
  vouched for by the response of its round (`RanInv`). It gives `ToolsKeep`
  (`ToolsKeepToTheirRun`) and, step by step, `PreemptionSpares`.
- `HistoryInv`: a request stands beside its reply unless it is the last message
  and the loop is about to store the reply or is on its way out (`PairedInv`);
  each stored result that tells of a call that ran or was never run is true and
  stays so (`RepliesInv`), as is the one about to be stored (`TruthInv`).
- `BatchSaidInv`: what a stored result, or one about to be stored, says of its
  batch: a result of its own belongs to a task that returned, a note of
  interruption to a batch that was cancelled, a placeholder to one that the sink
  has taken over; and the last two are in the last round of a turn that was cut
  off. With `HistoryInv` it gives `HistoryStaysSound`: every outcome a result can
  have is constrained. It does not say that an interrupted call had not returned,
  which the code does not keep (see the divergences).
- `CallerInv`: a result shown is stored and shown once, what is due to be shown
  is stored first, the sink closes on stored placeholders, and the end is
  reported once and last. It gives `ReportFollows`.

The order of the layers is the reason they are layers: that a stored result is
true needs that nothing runs once it is decided, which is `ToolsInv`, which
needs the shape of the plan.

**`EventHubProofs`.** `HubInvariant`: `HubInv` is `TypeOK` and `OneOrder` with
what makes them inductive. `PlacesOK`, `CurrentOK`: no sequence number is at
once reserved, discarded, pending or being delivered, and no publication has
another's number. `ReceivedOK`: what a subscriber has received is below `next`,
or is `next` if the subscriber has finished with the current delivery.
`OwingOK`: whoever a publication is owed to has it, is still to be given it, or
was cancelled out of it. `BooksOK`, `ClientsOK`: a result is settled or aborted
once, when `next` passes it, and a client that has returned has seen that.
`HubKeepsOneOrder` (`OneOrder` and `NotOvertaken`) and `HubKeepsItsPromises`
(`ReturnedMeansReceived` and `BoundaryReached`) follow from it. `HubIsAnOrder`
is the refinement: with `OrderInv` (what is passed over was filled or given
up), each step of the hub is a step of `EventOrder`, which `PendingInput` uses
in its place, or a stutter.

**`BackgroundAgentProofs`.** `StoppedMeansCancelled`: a stopping agent's live
turn is being cancelled. It is what makes `StoppingIsFinal` true: the guard of
a turn's step says nothing of `stopping`. `AgentInvariant` proves `AgentInv`:
`HandInv` (the runner works on the kind of input its place is for), `CountInv`
(it owes the parent at most the report of the turn it has just had),
`SenderInv` (an input is in one place at most, and while it is in the inbox or
in its turn its sender waits), `NoteInv` (the note of a detached call is in
exactly one of the queue, the inbox, the runner's hand, the batch just drained
and the history, and only once its call has settled), `QueueInv` (what is
queued will be drained by a turn, and was not collected by hand). From it
`TurnsAreReported` (`ReportedThenReleased`), `NotesAreReadOnce`
(`NotesReachTheTurnOnce`) and, step by step, `NotesAreNotLost`
(`NotesSurvive`).

**`RecordedTurnProofs`.** `RecordedInvariant`: `PipeInv` says that the numbers
are given out without a gap, that the file is the beginning of what was
accepted, that what the writer has in hand is the next line, and, while the
journal is not degraded and its writer goes on, that the queue holds the rest in
its order and no line is torn. `StartInv` says of the turn that its start is
published first, and recorded before anything else of the turn unless the
journal has become deaf by then; that is why a `TurnFinished` is never accepted
without its `TurnStarted`, although each is queued on its own and either can find
the queue full. `RecorderInv`: who waits for a barrier has its event in hand.
From it `RecoveryReads` (`RecoveryReadsIt`): every prefix of the file from the
last fsync on is the beginning of what was accepted, and
`materialize_recovery` accepts it.

`DurableInvariant` adds what `SyncedIsDurable` needs, `DurableInv`, in two
chains. The barrier: who holds `_close_lock` and when the journal is closed to
events (`LockInv`); nothing is accepted while somebody waits for a barrier, so
no record is behind its item in the queue (`BarrierInv`, `CloseInv`); hence a
barrier that answers True has every accepted record below the fsync
(`AnswerInv`). The text: while the journal works, an observed piece is in the
memory of the journal or in an accepted checkpoint (`TextInv`), checkpoints come
after the start of their turn (`OrderInv`), and the memory is empty when a
barrier is put; so what a barrier promises is in durable checkpoints
(`PromiseInv`). That is not enough: recovery ignores checkpoints once the turn
has ended. So the other half follows each piece into a message: it is in the
round's text, in the event in hand or in an accepted message, unless the turn
has failed (`SaidInv`, `RoundInv`), also when the text of a cancelled turn is
not stored because a message of the turn has exactly that text (`HistoryInv`);
and an end is accepted only after the messages that tell what it ends
(`HandInv`, the last part of `OrderInv`). `SyncedStaysDurable` combines both for
every prefix of the file that recovery may find. The fold that flattens texts is
proved to keep what is in them by induction on positions (`FlattenHas`).

**`SqliteStoreProofs`.** `SqliteStoreInvariant` proves `StoreInv`. The lock:
`_locked` holds exactly while one task owns the connection, a live waiter is in
`_waiters` once, and somebody owns what it waits for, through every race of a
hand-over with a cancellation (`LockHasAnOwner`). The queue (`QueueOK`): any
change that was posted and is no longer waited for has a rollback behind it, so
that the next call's statements find the sessions as committed. The transaction
(`OpenOK`, `WaitOK`): what is uncommitted is a prefix of one call's statements,
and a commit finds all of them. So answers are true (`AnswersAreKept`) and the
store implements `StoreLedger` (`StoreKeepsLedger`): the committed contents
change by whole calls, each at most once, whoever is cancelled or crashes.
`SessionsOK` and `FoundOK` are the same for a compaction: the fork it makes is
its own, and a job executed for it finds what its stage expects.

`StoreTold` proves `StoredAsTold`, with the compaction, in two more layers on
`StoreInv`. `TextInv` says that a compaction is one piece of work although each
of its awaits lets everybody else in: what it has read is its snapshot's history
(`ListOf`; nobody writes to a fork that is stored, `WorkingOK`), what it has left
to write is an end of the list made from that history (`LeftOf`), and when one of
its writes is stored all the writes before it are (`RewriteOf`), also after its
task was cancelled and its last statement is still queued. `AccountsOK` ties each
session's account to its rows: a `whole` or `copied` session stands for what it
was told; a `rewriting` one has the first rows of the list up to the last write
stored, so that the write with nothing left completes it (`WriteTold`); and no
other call gives an account back to a session that is being rewritten
(`BegunOK`). That the compacted list stands for the history and keeps every
result behind its call, for every history without a summary and every
`keep_recent`, is
`CompactedStands`; the boundary's walk, the flattening of what rows stand for and
the accounts of a story are recursive functions, which the proofs unfold one step
at a time by induction over sets of numbers (`WalkExists`, `FlattenedIs`,
`AccountsAre`). The theorem is for any number of tasks, sessions and calls, and
for the model's one compaction.

**`ForegroundProofs`.** For any number of inputs, presses of Escape and
messages of peers, and any order of the tasks of `main()`. `CoreHolds` proves
`Core`, what every other argument about the session starts from:

- `TypeOK`: every variable has its kind. That needs more than types: a
  submission the loop is about to take is there (`DoneInv`), an interrupt it is
  about to accept is queued (`RequestedInv`), a turn's items are in the order of
  their places (the fold that sorts them yields each item of its set once, in
  order, because no two places are equal).
- `HubInv`: a place is reserved, given up, filled, or passed.
- `LockInv`, `WireInv`: the coordinator's lock is held exactly while one of the
  editor, the recall, the loop, the turn and the child is in the middle of a
  transition, for the inputs that one has chosen, and the event of that
  transition is on its way once or has been delivered. The lock is held across
  the wait, so what its holder chose is still so when the wait returns; this is
  where that is proved and not assumed.
- `EditorInv`, `PlacesInv`: inputs have places in the order of their Enters, and
  no input, interrupt or message has the place of another.
- `CarriersInv`: the turn, each ready claim, each interrupt that has claimed,
  the child and the conversation have only inputs that were claimed, and for the
  agent that has them.

**`ForegroundSafetyProofs`.** `Invariance` proves `IInv`: `Core` and the
following, in layers that use those before them.

- `JournalInv`, `CommitInv`: the fold of the delivered events agrees with the
  coordinator's entries, once the transition that was delivered but not yet made
  is counted in (`Status`, `Settling`: the moment between the return of the
  publication and the change of the entry is the only difference), and a turn
  marks its inputs as delivered when the journal has each of their messages.
  They give `RecoveredExactly` (`RecoveryIsExact`).
- `EnterInv`, `EndInv`: an Enter is in the journal, in the hub, or still being
  submitted; the end of the session has a place after all of them.
  `ClaimInv`, `SettlingInv`, `CarriedInv`: the loop claims only when no turn is
  under way, an interrupt waits for its turn only while there is one, and a
  claimed input is always with somebody. They give `NoneLost` (`NoInputIsLost`).
  The invariant is stronger than the property: `main.now` is what the loop was
  last busy with, and counts only while it is.
- `HookInv`: between two requests everything sequenced before the boundary has
  been delivered. It gives `NoneMissed` (`BoundaryMissesNoInput`), an action
  property.
- `OrderInv` is for `SaidAsItHappened` (`ConversationOrder`). Notices: every
  turn but the active one has said its part (`TurnInv`); an interrupt is about a
  turn there was, and when it is delivered that turn is over (`RequestInv`); so
  what is queued for the conversation has only notices of turns that have spoken
  (`NoticeInv`). Inputs: they are claimed in order (`ClaimOrder`), and what the
  main agent has been told, is being told, what is ready for it, what the loop
  delivers and what waits for its turn to end form one line, in which each place
  has only inputs before those of the next (`LineInv`). That nothing gets ahead
  of an interrupt that waits for its turn is the hard part: a second Escape may be
  on its way, at any stage, when the first one is accepted. It is about the same
  turn, and then finds the turn noted as interrupted, or about a later one, and
  then the first has been delivered. `PressedInv` and `QueueInv` say it of the
  requests that are pressed, published and queued; `LaterInv` says that while
  one waits every other of them is the child's or about a turn that is noted as
  interrupted already.

The parts of `OrderInv` were checked by TLC on the `foreground` run before they
were proved. It was while looking for them that the order of the presses was found to
matter, and modelled.

**`NaturalsLemmas`.** Induction and least elements in terms of sets, the form
in which the provers can use the library's well-founded induction; positions in
queues and histories need it.

No theorem rests on anything but the named assumptions on the constants, which
TLC evaluates in every run. Those are: kinds of input are distinct
(`BackgroundAssumption`; `"stop"` is the sentinel and no input), a session that
no task knows is empty before the process starts, and sessions are rows with a
token count (`BeforeAssumption`), of which none is a summary and no result is
without its call (`PlainAssumption`), a compaction keeps at least one message,
the peers of a session are finitely many (`BoundsAssumption`; they are sorted),
and bounds are numbers.

Only model-checked:

- all liveness (`NobodyWaitsForEver`, `RunsEnd`, `SinkLetsGo`, `BarriersReturn`
  and the rest): fairness and ENABLED are beyond the prover;
- `SplitsNeverMatter`, `AnswerIsWhole` and the contract of `Transport`:
  inductions over a body's text;
- the properties of `TerminalUI` and `BackgroundScreen`: what they say rests on
  sequences that are cut, joined and filtered by folds (the characters of the
  queue, the pieces of a line, the bytes a collector holds), inductions over data
  again;
- `EnterIsAdmitted` of `Foreground`, which the code does not keep.

## Not modelled

- *Local tools, Docker sandbox*: what they do is done by processes and daemons
  outside this repository; their own control is subprocess plumbing.
- *MCP*: the registry wraps a library's sessions; the protocol is the library's.
- *TUI*: presentation on an external widget framework. Of the REPL's renderer,
  the foreground's own fields, headers, colours and layout: sequential code in
  one lock, whose output the terminal models carry as pieces of text.
- *Realtime audio*: devices and sockets.
- *Configuration, identity, arguments of tools*: parsing and files, sequential.
- *In transports*: building requests, embeddings, catalogues of models, token
  refresh.
- In modelled parts: see the notes under each module. What a provider may send
  is an over-approximation (any response, in any order), as is what a handler
  may do; what hosts do is taken from `peers.py` and the REPL.
- Threads: tools may use them, but no modelled state is touched from one except
  in the terminal, the SQLite connection and the journal's file. The hub's
  `threading.Lock` guards two synchronous sections and is part of the atomicity
  of these.
- Torn writes of SQLite: its transaction is external.

## Plan

What the next work should take, in this order.

1. The shell tool's deadlines and the killing of its process group (`shell.py`).
2. The MCP registry's connects, reconnects and generations (`registry.py`).
3. The foreground's tool fields and the suspended multiplexer, in
   `BackgroundScreen`.

Proofs next: the books of `ActionMultiplexer` (`BooksBalance`), whose sums are
the simplest of the folds that are left, then `TerminalUI`.
