----------------------------- MODULE Foreground -----------------------------
(***************************************************************************)
(* The interactive REPL (axio_repl/__init__.py, main): the editor, the key *)
(* presses, what arrives from peers and background agents, the foreground  *)
(* turn, and the loop that decides what the agent is given next.  They are *)
(* tasks of one event loop: a step runs from one await to the next.        *)
(*                                                                         *)
(* Of the events of a session the model publishes those that pending input *)
(* and its recovery depend on; the others only take places in the order.   *)
(***************************************************************************)
EXTENDS PendingInput, Sequences

CONSTANTS Peers,      \* messages of peers, and reports of background agents
          Escapes,    \* presses of Escape
          MaxPending, \* MAX_PENDING_INPUTS
          Resumed,    \* bound: inputs of the session that is resumed
          MaxRounds,  \* bound: requests to the provider in one turn
          MaxKeys     \* bound: what happens to the session from outside

ASSUME BoundsAssumption ==
  /\ MaxPending \in Nat \ {0} /\ Resumed \in Nat /\ MaxRounds \in Nat /\ MaxKeys \in Nat
  /\ IsFiniteSet(Peers)

VARIABLES
  keys,        \* what happened from outside so far
  editor,      \* input_task, see Editor
  typed,       \* the Enters pressed
  kind,        \* what each Enter submitted
  recall,      \* recall_in_flight
  escape,      \* each interruption request, see Request
  interrupts,  \* interrupt_queue
  peer,        \* each incoming message, see Incoming
  inbox,       \* inbox_task: none, waiting, or it has taken a message
  stop,        \* shutdown_queue and eof_requested
  main,        \* the loop of main(), see Loop
  settling,    \* settling_interrupts
  ready,       \* ready_claims
  commands,    \* pending_commands
  interrupted, \* ForegroundCoordinatorState.interrupted_turns
  fg,          \* foreground_task and prompt_task, see Turn
  turns,       \* turns of the main agent so far
  child,       \* a background agent the user may focus, see Child
  conv,        \* the conversation of the main agent
  early        \* history: inputs whose turn was cancelled before it stored them

promptVars == <<editor, typed, kind, recall>>
arrivals   == <<escape, peer, stop>>
loopVars   == <<interrupts, inbox, main, settling, ready, commands, interrupted>>
turnVars   == <<fg, turns, conv, early>>
vars == <<hubVars, inputVars, restored, keys, promptVars, arrivals, loopVars, turnVars, child>>

Kinds == {"message", "command"}  \* and "retained", see Retain
Editor == [at : {"closed", "typing", "accepted", "admitting", "retaining", "done"},
           id : Nat, to : Agents, place : Nat]
Request == [at : {"none", "pressed", "posted", "queued"}, turn : Nat, to : Agents, place : Nat]
Incoming == [at : {"none", "posted", "queued", "taken", "held", "given"}, place : Nat]
Items == ({"input"} \X Inputs) \cup ({"peer"} \X Peers) \cup ({"notice", "turn"} \X Nat)
Claims == [ids : SUBSET Inputs, to : Agents, items : Seq(Items)]
Interrupts == [turn : Nat, to : Agents, place : Nat, ids : SUBSET Inputs]
Loop == [at : {"top", "command", "claim", "claiming", "wait", "accept", "claimAll", "claimingAll",
               "finalize", "barrier", "context", "input", "stopping", "recording", "stopped"},
         done : SUBSET {"fg", "interrupt", "input"}, now : Interrupts, place : Nat]
Child == [at : {"idle", "mark", "marking", "gone"}, queue : Seq(SUBSET Inputs)]
Turn == [at : {"none", "created", "starting", "committing", "mark", "marking", "model", "tools",
               "boundary", "hook", "closing", "ended"},
         turn : Nat, ids : SUBSET Inputs, to : Agents, items : Seq(Items), k : Nat,
         place : Nat, rounds : Nat, cancel : BOOLEAN]

NoTurn == [at |-> "none", turn |-> 0, ids |-> {}, to |-> "main", items |-> << >>, k |-> 0,
           place |-> 0, rounds |-> 0, cancel |-> FALSE]
NoInterrupt == [turn |-> 0, to |-> "main", place |-> 0, ids |-> {}]
Asleep == [at |-> "wait", done |-> {}, now |-> NoInterrupt, place |-> 0]
Handed == [at |-> "queued", turn |-> 0, to |-> "main", place |-> 0]
Closed == [at |-> "closed", id |-> 0, to |-> "main", place |-> 0]

Init ==
  /\ \/ typed = 0 /\ keys = 0
     \/ typed = Resumed /\ keys = MaxKeys - 1
  /\ InitInput(typed)
  /\ kind = [i \in Inputs |-> "message"]
  /\ editor = Closed
  /\ recall = "none" /\ stop = "none"
  /\ escape = [x \in Escapes |-> [at |-> "none", turn |-> 0, to |-> "main", place |-> 0]]
  /\ peer = [p \in Peers |-> [at |-> "none", place |-> 0]]
  /\ interrupts = << >> /\ inbox = "none" /\ settling = << >> /\ ready = << >>
  /\ commands = {} /\ interrupted = {}
  /\ main = [Asleep EXCEPT !.at = "top"]
  /\ fg = NoTurn /\ turns = 0 /\ conv = << >> /\ early = {}
  /\ child = [at |-> "idle", queue |-> << >>]

-----------------------------------------------------------------------------
(* What the steps have in common.                                          *)

Running == main.at \notin {"stopping", "recording", "stopped"}

\* The loop is not in the middle of a step: it awaits something.
Yielded == main.at \notin {"top", "accept", "input"}

\* Something comes in while the session runs, ...
Comes == Running /\ Yielded

\* ... of its own.
Outside == Comes /\ keys < MaxKeys /\ keys' = keys + 1

Goto(place) == main' = [main EXCEPT !.at = place]

\* foreground_state.active_turn_id("main"): from the start of the turn to the
\* end of _run_turn.
Active == IF fg.at \in {"none", "created", "ended"} THEN 0 ELSE fg.turn

\* cancel_task_once(prompt_task)
Cancelled == fg' = [fg EXCEPT !.cancel = TRUE]

\* _pending_prompt_count
Arrived == {p \in Peers : peer[p].at \in {"queued", "taken", "held"}}

Held == {p \in Peers : peer[p].at = "held"}

HeldFirst(p) == p \in Held /\ \A q \in Held : peer[p].place <= peer[q].place

\* The places of what S holds, in order: each message becomes one item.
InOrder(S) ==
  LET Rank(e) == Cardinality({f \in S : f[2] <= e[2]})
  IN  [k \in 1..Cardinality(S) |-> (CHOOSE e \in S : Rank(e) = k)[1]]

InputItems(ids) == {<<<<"input", i>>, entries[i].seq>> : i \in ids}

PeerItems(S) == {<<<<"peer", p>>, peer[p].place>> : p \in S}

\* What the loop goes on with after one of the tasks that woke it.
NextPhase(done) ==
  IF "interrupt" \in done THEN "accept" ELSE IF "input" \in done THEN "input" ELSE "top"

-----------------------------------------------------------------------------
(* The prompt.                                                             *)

\* capture_accept: Enter takes its place in the order of the session at once.
\* Whose a command is makes no difference.
Enter ==
  /\ editor.at = "typing" /\ typed + 1 \in Inputs /\ Outside
  /\ typed' = typed + 1
  /\ \E what \in Kinds, a \in Agents :
       /\ what = "command" => a = "main"
       /\ kind' = [kind EXCEPT ![typed + 1] = what]
       /\ editor' = [at |-> "accepted", id |-> typed + 1, to |-> a, place |-> given + 1]
  /\ TakePlace
  /\ UNCHANGED <<inputVars, restored, recall, arrivals, loopVars, turnVars, child>>

EditorAt(place) ==
  /\ Yielded
  /\ editor' = [editor EXCEPT !.at = place]
  /\ UNCHANGED <<restored, keys, typed, kind, recall, arrivals, loopVars, child>>

\* _admit_editor_submission: a command gives its place up again, ...
SubmitCommand ==
  /\ editor.at = "accepted" /\ kind[editor.id] = "command"
  /\ GiveUpPlace(editor.place)
  /\ EditorAt("done")
  /\ UNCHANGED <<inputVars, turnVars>>

\* ... a message that is one too many is only announced, ...
Retain ==
  /\ editor.at = "accepted" /\ kind[editor.id] = "message"
  /\ Cardinality(Pending) >= MaxPending
  /\ PostReserved(editor.place, "other", {}, editor.to)
  /\ Yielded /\ editor' = [editor EXCEPT !.at = "retaining"]
  /\ kind' = [kind EXCEPT ![editor.id] = "retained"]
  /\ UNCHANGED <<inputVars, restored, keys, typed, recall, arrivals, loopVars, turnVars, child>>

Retained ==
  /\ editor.at = "retaining" /\ Over(editor.place)
  /\ EditorAt("done")
  /\ UNCHANGED <<hubVars, inputVars, turnVars>>

\* ... and any other is admitted when the coordinator's lock is free.  Being
\* cancelled changes nothing: finish_submission shields it.
Admit ==
  /\ editor.at = "accepted" /\ kind[editor.id] = "message"
  /\ Cardinality(Pending) < MaxPending
  /\ BeginAdmit("editor", editor.id, editor.to, editor.place)
  /\ EditorAt("admitting")
  /\ UNCHANGED turnVars

\* The entry exists: a dispatch in progress makes room for it.
Admitted ==
  /\ editor.at = "admitting" /\ Commit("editor")
  /\ EditorAt("done")
  /\ IF editor.to = "main" /\ fg.at = "tools" THEN Cancelled ELSE UNCHANGED fg
  /\ UNCHANGED <<hubVars, turns, conv, early>>

RecallAt(place) ==
  /\ Yielded
  /\ recall' = place
  /\ UNCHANGED <<restored, editor, typed, kind, arrivals, loopVars, turnVars, child>>

\* Up: recall_all, shielded from the end of the prompt.
Up ==
  /\ editor.at = "typing" /\ recall = "none" /\ Outside
  /\ RecallAt("lock")
  /\ UNCHANGED <<hubVars, inputVars>>

Recall ==
  /\ recall = "lock"
  /\ Pending # {} /\ Begin("recall", "recalled", Pending, "main")
  /\ RecallAt("recalling")
  /\ UNCHANGED keys

NothingToRecall ==
  /\ recall = "lock" /\ Unlocked /\ Pending = {}
  /\ RecallAt("none")
  /\ UNCHANGED <<hubVars, inputVars, keys>>

Recalled ==
  /\ recall = "recalling" /\ Commit("recall")
  /\ RecallAt("none")
  /\ UNCHANGED <<hubVars, keys>>

-----------------------------------------------------------------------------
(* What arrives from outside.                                              *)

\* _prioritize_interruption
Hits(r) == r.to = "main" /\ r.turn # 0 /\ r.turn = Active

StopOn(condition) ==
  /\ IF condition THEN Cancelled ELSE UNCHANGED fg
  /\ UNCHANGED <<turns, conv, early>>

\* _queue_escape: the turn is captured, and cancelled, where the key is pressed.
Escape ==
  /\ editor.at = "typing" /\ Outside
  /\ \E x \in Escapes, a \in Agents :
       LET r == [at |-> "pressed", turn |-> IF a = "main" THEN Active ELSE 0, to |-> a, place |-> keys + 1] IN
       /\ escape[x].at = "none"
       /\ escape' = [escape EXCEPT ![x] = r]
       /\ StopOn(Hits(r))
  /\ UNCHANGED <<hubVars, inputVars, restored, promptVars, peer, stop, loopVars, child>>

\* The tasks of the presses, the hub's lock and the queue are first in, first
\* out: of the requests that have come as far, the one that goes on.
FirstAt(x, at) ==
  /\ escape[x].at = at
  /\ \A y \in Escapes : escape[y].at = at => escape[x].place <= escape[y].place

\* _admit_escape: the request takes its place, later, ...
RequestInterrupt(x) ==
  /\ FirstAt(x, "pressed") /\ Comes
  /\ escape' = [escape EXCEPT ![x] = [@ EXCEPT !.at = "posted", !.place = given + 1]]
  /\ Post("other", {}, "main")
  /\ UNCHANGED <<inputVars, restored, keys, promptVars, peer, stop, loopVars, turnVars, child>>

\* ... and then its turn in the queue of the loop.
QueueInterrupt(x) ==
  /\ FirstAt(x, "posted") /\ Over(escape[x].place) /\ Comes
  /\ escape' = [escape EXCEPT ![x] = Handed]
  /\ interrupts' = Append(interrupts, [turn |-> escape[x].turn, to |-> escape[x].to,
                                        place |-> escape[x].place, ids |-> {}])
  /\ StopOn(Hits(escape[x]))
  /\ UNCHANGED <<hubVars, inputVars, restored, keys, promptVars, peer, stop, inbox, main, settling,
                 ready, commands, interrupted, child>>

\* _sequence_incoming
Arrive(p) ==
  /\ peer[p].at = "none" /\ Outside
  /\ peer' = [peer EXCEPT ![p] = [at |-> "posted", place |-> given + 1]]
  /\ Post("other", {}, "main")
  /\ UNCHANGED <<inputVars, restored, promptVars, escape, stop, loopVars, turnVars, child>>

\* _admit_incoming: to peer_queue, and a dispatch in progress makes room.
QueueIncoming(p) ==
  /\ peer[p].at = "posted" /\ Over(peer[p].place) /\ Comes
  /\ peer' = [peer EXCEPT ![p].at = "queued"]
  /\ StopOn(fg.at = "tools")
  /\ UNCHANGED <<hubVars, inputVars, restored, keys, promptVars, escape, stop, loopVars, child>>

\* inbox_task takes the first of peer_queue, where they are in order.
TakeIncoming(p) ==
  /\ inbox = "waiting" /\ peer[p].at = "queued" /\ Comes
  /\ \A q \in Peers : peer[q].at = "queued" => peer[p].place <= peer[q].place
  /\ inbox' = "taken"
  /\ peer' = [peer EXCEPT ![p].at = "taken"]
  /\ UNCHANGED <<hubVars, inputVars, restored, keys, promptVars, escape, stop, interrupts, main,
                 settling, ready, commands, interrupted, turnVars, child>>

\* SIGINT, SIGTERM or Ctrl-C; Ctrl-D closes the prompt and cancels the turn.
Stop ==
  /\ stop = "none" /\ Outside
  /\ \/ stop' = "signal" /\ UNCHANGED <<editor, turnVars>>
     \/ /\ editor.at = "typing" /\ stop' = "eof"
        /\ editor' = [editor EXCEPT !.at = "done", !.id = 0]
        /\ StopOn(Active # 0)
  /\ UNCHANGED <<hubVars, inputVars, restored, typed, kind, recall, escape, peer, loopVars, child>>

-----------------------------------------------------------------------------
(* The loop: _start_next_foreground, until there is a foreground task.     *)

LoopAt(place) ==
  /\ main' = IF place \in {"top", "wait"} THEN [Asleep EXCEPT !.at = place] ELSE [main EXCEPT !.at = place]
  /\ UNCHANGED <<restored, keys, typed, kind, recall, escape, stop, interrupts, settling, interrupted,
                 turns, conv, early, child>>

Deciding == main.at = "top" /\ fg.at = "none" /\ stop # "eof"

UserPlaces == {entries[i].seq : i \in Pending}
PeerPlaces == {peer[p].place : p \in Held}
CommandPlaces == {c[2] : c \in commands}
ReadyPlaces == IF ready = << >> THEN {} ELSE {entries[i].seq : i \in Head(ready).ids}

\* The oldest of one kind is older than everything of the others.
Leads(S, others) == \E s \in S : \A o \in others : s < o

CommandFirst == Leads(CommandPlaces, UserPlaces \cup PeerPlaces \cup ReadyPlaces)

PeersFirst == ready = << >> /\ Leads(PeerPlaces, UserPlaces \cup CommandPlaces)

NewTurn(ids, to, items) == [NoTurn EXCEPT !.at = "created", !.ids = ids, !.to = to, !.items = items]

\* _dispatch_command_to_panel: some commands end the session.
RunCommand ==
  /\ Deciding /\ CommandFirst
  /\ \E c \in commands :
       /\ \A d \in commands : c[2] <= d[2]
       /\ commands' = commands \ {c}
  /\ LoopAt("command")
  /\ UNCHANGED <<hubVars, inputVars, editor, peer, inbox, ready, fg>>

CommandRun ==
  /\ main.at = "command"
  /\ LoopAt("top") \/ LoopAt("stopping")
  /\ UNCHANGED <<hubVars, inputVars, editor, peer, inbox, ready, commands, fg>>

\* One turn for all the messages that are older than anything else.
StartPeers ==
  /\ Deciding /\ ~CommandFirst /\ PeersFirst
  /\ LET S == {p \in Held : \A n \in UserPlaces \cup CommandPlaces : peer[p].place < n} IN
       /\ fg' = NewTurn({}, "main", InOrder(PeerItems(S)))
       /\ peer' = [p \in Peers |-> IF p \in S THEN [peer[p] EXCEPT !.at = "given"] ELSE peer[p]]
  /\ LoopAt("top")
  /\ UNCHANGED <<hubVars, inputVars, editor, inbox, ready, commands>>

StartReady ==
  /\ Deciding /\ ~CommandFirst /\ ready # << >>
  /\ fg' = NewTurn(Head(ready).ids, Head(ready).to, Head(ready).items)
  /\ ready' = Tail(ready)
  /\ LoopAt("top")
  /\ UNCHANGED <<hubVars, inputVars, editor, peer, inbox, commands>>

\* claim_oldest queues for the lock: what is oldest is decided when it has it.
ClaimOldest ==
  /\ Deciding /\ ~CommandFirst /\ ~PeersFirst /\ ready = << >>
  /\ LoopAt("claim")
  /\ UNCHANGED <<hubVars, inputVars, editor, peer, inbox, ready, commands, fg>>

\* The tasks the loop waits for.
Open ==
  /\ editor' = IF editor.at = "closed" THEN [editor EXCEPT !.at = "typing"] ELSE editor
  /\ inbox' = IF inbox = "none" THEN "waiting" ELSE inbox
  /\ LoopAt("wait")
  /\ UNCHANGED <<peer, ready, commands, fg>>

NothingToClaim ==
  /\ main.at = "claim" /\ Unlocked /\ Pending = {}
  /\ Open
  /\ UNCHANGED <<hubVars, inputVars>>

Claim ==
  /\ main.at = "claim" /\ Pending # {}
  /\ Begin("loop", "claimed", {Oldest(Pending)}, entries[Oldest(Pending)].to)
  /\ LoopAt("claiming")
  /\ UNCHANGED <<editor, peer, inbox, ready, commands, fg>>

Claimed ==
  /\ main.at = "claiming" /\ stop # "eof"
  /\ fg' = NewTurn(lock.ids, lock.to, InOrder(InputItems(lock.ids)))
  /\ Commit("loop")
  /\ LoopAt("top")
  /\ UNCHANGED <<hubVars, editor, peer, inbox, ready, commands>>

\* The end of input is noticed before the turn is started.
ClaimedTooLate ==
  /\ main.at = "claiming" /\ stop = "eof"
  /\ Commit("loop")
  /\ Open
  /\ UNCHANGED hubVars

Await ==
  /\ main.at = "top" /\ fg.at # "none" /\ stop # "eof"
  /\ Open
  /\ UNCHANGED <<hubVars, inputVars>>

-----------------------------------------------------------------------------
(* The loop, awake: what it was given, the turn that is over, interrupts,  *)
(* and then the editor.                                                    *)

Done ==
  (IF fg.at = "ended" THEN {"fg"} ELSE {}) \cup
  (IF interrupts # << >> THEN {"interrupt"} ELSE {}) \cup
  (IF editor.at = "done" THEN {"input"} ELSE {})

WakeMutant ==               \* what waited for the turn is forgotten with it
  /\ main.at = "wait" /\ stop = "none"
  /\ Done # {} \/ inbox = "taken"
  /\ inbox' = IF inbox = "taken" THEN "none" ELSE inbox
  /\ peer' = [p \in Peers |-> IF peer[p].at = "taken" THEN [peer[p] EXCEPT !.at = "held"] ELSE peer[p]]
  /\ fg' = IF "fg" \in Done THEN NoTurn ELSE fg
  /\ settling' = IF "fg" \in Done THEN << >> ELSE settling
  /\ main' = [main EXCEPT !.at = NextPhase(Done), !.done = Done]
  /\ UNCHANGED <<hubVars, inputVars, restored, keys, promptVars, escape, stop, interrupts, ready,
                 commands, interrupted, turns, conv, early, child>>

\* A turn that is over is followed by the interrupts that waited for it.
Wake ==
  /\ main.at = "wait" /\ stop = "none"
  /\ Done # {} \/ inbox = "taken"
  /\ inbox' = IF inbox = "taken" THEN "none" ELSE inbox
  /\ peer' = [p \in Peers |-> IF peer[p].at = "taken" THEN [peer[p] EXCEPT !.at = "held"] ELSE peer[p]]
  /\ fg' = IF "fg" \in Done THEN NoTurn ELSE fg
  /\ IF "fg" \in Done /\ settling # << >>
     THEN /\ main' = [main EXCEPT !.at = "finalize", !.done = Done, !.now = Head(settling)]
          /\ settling' = Tail(settling)
     ELSE /\ main' = [main EXCEPT !.at = NextPhase(Done), !.done = Done]
          /\ UNCHANGED settling
  /\ UNCHANGED <<hubVars, inputVars, restored, keys, promptVars, escape, stop, interrupts, ready,
                 commands, interrupted, turns, conv, early, child>>

\* _accept_interrupt: a turn is interrupted once.
Accept ==
  /\ main.at = "accept"
  /\ LET now == Head(interrupts)  rest == main.done \ {"interrupt"} IN
       IF now.turn \in interrupted
       THEN /\ main' = [main EXCEPT !.at = NextPhase(rest), !.done = rest]
            /\ UNCHANGED interrupted
       ELSE /\ main' = [main EXCEPT !.at = "claimAll", !.done = rest, !.now = now]
            /\ interrupted' = interrupted \cup ({now.turn} \ {0})
  /\ interrupts' = Tail(interrupts)
  /\ UNCHANGED <<hubVars, inputVars, restored, keys, promptVars, arrivals, inbox, settling, ready,
                 commands, turnVars, child>>

ApplyMutant(ids) ==         \* nobody waits for the turn
  /\ main' = [main EXCEPT !.at = "finalize", !.now.ids = ids]
  /\ IF Hits(main.now) THEN Cancelled ELSE UNCHANGED fg
  /\ UNCHANGED <<hubVars, restored, keys, promptVars, arrivals, interrupts, inbox, settling, ready,
                 commands, interrupted, turns, conv, early, child>>

\* The turn it was meant for is cancelled, and waited for, if it still runs.
Apply(ids) ==
  LET now == [main.now EXCEPT !.ids = ids] IN
  /\ IF Hits(now)
     THEN /\ Cancelled
          /\ settling' = Append(settling, now)
          /\ main' = [main EXCEPT !.at = NextPhase(main.done)]
     ELSE /\ main' = [main EXCEPT !.at = "finalize", !.now = now]
          /\ UNCHANGED <<fg, settling>>
  /\ UNCHANGED <<hubVars, restored, keys, promptVars, arrivals, interrupts, inbox, ready, commands,
                 interrupted, turns, conv, early, child>>

NothingForInterrupt ==
  /\ main.at = "claimAll" /\ Unlocked /\ Pending = {}
  /\ Apply({})
  /\ UNCHANGED inputVars

ClaimAll ==
  /\ main.at = "claimAll" /\ Pending # {}
  /\ Begin("loop", "claimed", Pending, main.now.to)
  /\ LoopAt("claimingAll")
  /\ UNCHANGED <<editor, peer, inbox, ready, commands, fg>>

ClaimedAll ==
  /\ main.at = "claimingAll" /\ Commit("loop")
  /\ Apply(lock.ids)

\* _finalize_interrupt: the barrier is published, ...
Finalize ==
  /\ main.at = "finalize"
  /\ main' = [main EXCEPT !.at = "barrier", !.place = given + 1]
  /\ Post("other", {}, "main")
  /\ UNCHANGED <<inputVars, restored, keys, promptVars, arrivals, interrupts, inbox, settling, ready,
                 commands, interrupted, turnVars, child>>

\* ... and what arrived before it is delivered with the claimed inputs and the
\* notice: as a new turn, or, without an input, into the conversation.  The
\* awaits on the way (renderer.incoming, append_many) belong to the step.
Barrier ==
  /\ main.at = "barrier" /\ Over(main.place)
  /\ LET ids == main.now.ids
         to == main.now.to
         drained == {p \in Peers : peer[p].at \in {"queued", "held"}}
         S == {p \in drained : to = "main" /\ peer[p].place <= main.place}
         items == InOrder(InputItems(ids) \cup PeerItems(S)
                            \cup {<<<<"notice", main.now.turn>>, main.now.place>>})
     IN  /\ peer' = [p \in Peers |-> IF p \in S THEN [peer[p] EXCEPT !.at = "given"]
                                     ELSE IF p \in drained THEN [peer[p] EXCEPT !.at = "held"]
                                     ELSE peer[p]]
         /\ ready' = IF ids = {} THEN ready ELSE Append(ready, [ids |-> ids, to |-> to, items |-> items])
         /\ conv' = IF ids = {} /\ to = "main" THEN conv \o items ELSE conv
         /\ main' = [main EXCEPT !.at = IF ids = {} /\ to = "child" THEN "context"
                                        ELSE IF settling # << >> /\ fg.at = "none" THEN "finalize"
                                        ELSE NextPhase(main.done),
                                 !.place = 0,
                                 !.now = IF settling # << >> /\ fg.at = "none" THEN Head(settling) ELSE @]
         /\ settling' = IF settling # << >> /\ fg.at = "none" THEN Tail(settling) ELSE settling
  /\ UNCHANGED <<hubVars, inputVars, restored, keys, promptVars, escape, stop, interrupts, inbox,
                 commands, interrupted, fg, turns, early, child>>

\* enqueue_local_agent_context(wait=True): the loop waits for the child.
Context ==
  /\ main.at = "context"
  /\ child.at = "gone" \/ child = [at |-> "idle", queue |-> << >>]
  /\ LoopAt(NextPhase(main.done))
  /\ UNCHANGED <<hubVars, inputVars, editor, peer, inbox, ready, commands, fg>>

\* A command runs now or after the turn; the text is pending or given back.
\* Those that may run during a turn (_can_dispatch_during_foreground) show or
\* set what the model does not have, and wait here like the others.
Submitted ==
  /\ main.at = "input"
  /\ editor' = Closed
  /\ IF kind[editor.id] = "command" /\ fg.at # "none"
     THEN commands' = commands \cup {<<editor.id, editor.place>>}
     ELSE UNCHANGED commands
  /\ LoopAt(IF kind[editor.id] = "command" /\ fg.at = "none" THEN "command" ELSE "top")
  /\ UNCHANGED <<hubVars, inputVars, peer, inbox, ready, fg>>

-----------------------------------------------------------------------------
(* Shutdown.                                                               *)

Break ==
  /\ \/ main.at = "wait" /\ stop # "none"
     \/ main.at = "top" /\ stop = "eof"
  /\ LoopAt("stopping")
  /\ UNCHANGED <<hubVars, inputVars, editor, peer, inbox, ready, commands, fg>>

\* The tasks are cancelled and waited for, a second at most: ShutdownRecorded
\* is published whether they have ended or not.
Record ==
  /\ main.at = "stopping"
  /\ main' = [main EXCEPT !.at = "recording", !.place = given + 1]
  /\ Post("other", {}, "main")
  /\ UNCHANGED <<inputVars, restored, keys, promptVars, arrivals, interrupts, inbox, settling, ready,
                 commands, interrupted, turnVars, child>>

Stopped ==
  /\ main.at = "recording" /\ Over(main.place)
  /\ LoopAt("stopped")
  /\ UNCHANGED <<hubVars, inputVars, editor, peer, inbox, ready, commands, fg>>

-----------------------------------------------------------------------------
(* The foreground task.                                                    *)

Cancelling == fg.cancel \/ ~Running

TurnOnly == Yielded /\ UNCHANGED <<keys, promptVars, arrivals, loopVars>>

TurnAt(place) ==
  /\ fg' = CASE place = "ended"   -> [NoTurn EXCEPT !.at = "ended"]
             [] place = "closing" -> [NoTurn EXCEPT !.at = "closing", !.turn = fg.turn]
             [] OTHER             -> [fg EXCEPT !.at = place]
  /\ TurnOnly

\* _run_targeted_claim for a background agent: its turn, if it is still there.
Forward ==
  /\ fg.at = "created" /\ fg.to = "child" /\ ~Cancelling
  /\ child' = IF child.at = "gone" THEN child ELSE [child EXCEPT !.queue = Append(@, fg.ids)]
  /\ TurnAt("ended")
  /\ UNCHANGED <<hubVars, inputVars, restored, turns, conv, early>>

\* _run_turn
StartTurn ==
  /\ fg.at = "created" /\ fg.to = "main" /\ ~Cancelling
  /\ turns' = turns + 1
  /\ fg' = [fg EXCEPT !.at = "starting", !.turn = turns + 1]
  /\ TurnOnly /\ UNCHANGED <<hubVars, inputVars, restored, conv, early, child>>

PublishCommit(k) ==
  IF k > Len(fg.items)
  THEN /\ fg' = [fg EXCEPT !.at = IF fg.ids = {} THEN "model" ELSE "mark", !.k = 0, !.place = 0, !.items = << >>]
       /\ UNCHANGED <<given, reserved, dropped, next, wire>>
  ELSE /\ fg' = [fg EXCEPT !.at = "committing", !.k = k, !.place = given + 1]
       /\ Post("committed", IF fg.items[k][1] = "input" THEN {fg.items[k][2]} ELSE {}, "main")

\* append_many: all the messages at once, announced one by one.
StoreItems ==
  /\ fg.at = "starting" /\ ~Cancelling
  /\ conv' = conv \o fg.items
  /\ PublishCommit(1)
  /\ TurnOnly /\ UNCHANGED <<inputVars, restored, turns, early, child>>

ItemCommitted ==
  /\ fg.at = "committing" /\ Over(fg.place) /\ ~Cancelling
  /\ PublishCommit(fg.k + 1)
  /\ TurnOnly /\ UNCHANGED <<inputVars, restored, turns, conv, early, child>>

\* on_input_committed: mark_delivered, which is not cancelled half way.
Mark ==
  /\ fg.at = "mark" /\ ~Cancelling
  /\ Begin("turn", "delivered", fg.ids, "main")
  /\ TurnAt("marking")
  /\ UNCHANGED <<restored, turns, conv, early, child>>

Marked ==
  /\ fg.at = "marking" /\ Commit("turn")
  /\ TurnAt(IF Cancelling THEN "closing" ELSE "model")
  /\ UNCHANGED <<hubVars, restored, turns, conv, early, child>>

\* The answer calls tools; whoever waits for the agent takes the place of the
\* dispatch at once (_on_tool_dispatch_started).
CallTools ==
  /\ fg.at = "model" /\ ~Cancelling /\ fg.rounds < MaxRounds
  /\ fg' = [fg EXCEPT !.at = "tools", !.rounds = @ + 1, !.cancel = Pending # {} \/ Arrived # {}]
  /\ TurnOnly /\ UNCHANGED <<hubVars, inputVars, restored, turns, conv, early, child>>

\* _before_next_provider_request: everything that has a place by now, ...
ToolsDone ==
  /\ fg.at = "tools" /\ ~Cancelling
  /\ fg' = [fg EXCEPT !.at = "boundary", !.place = given]
  /\ TurnOnly /\ UNCHANGED <<hubVars, inputVars, restored, turns, conv, early, child>>

\* ... and the transition that may still be under way, ...
BoundaryPassed ==
  /\ fg.at = "boundary" /\ Over(fg.place) /\ ~Cancelling
  /\ TurnAt("hook")
  /\ UNCHANGED <<hubVars, inputVars, restored, turns, conv, early, child>>

ProceedMutant ==            \* a transition under way is not waited for
  /\ fg.at = "hook" /\ ~Cancelling
  /\ TurnAt(IF PendingFor("main") # {} \/ Arrived # {} THEN "closing" ELSE "model")
  /\ UNCHANGED <<hubVars, inputVars, restored, turns, conv, early, child>>

\* ... come first: the turn goes on only if nobody waits for its agent.
Proceed ==
  /\ fg.at = "hook" /\ Unlocked /\ ~Cancelling
  /\ TurnAt(IF PendingFor("main") # {} \/ Arrived # {} THEN "closing" ELSE "model")
  /\ UNCHANGED <<hubVars, inputVars, restored, turns, conv, early, child>>

Answer ==
  /\ fg.at = "model" /\ ~Cancelling
  /\ TurnAt("closing")
  /\ UNCHANGED <<hubVars, inputVars, restored, turns, conv, early, child>>

\* CancelledError, wherever the turn awaits something.
CancelTurn ==
  /\ Cancelling
  /\ fg.at \in {"created", "starting", "committing", "mark", "model", "tools", "boundary", "hook"}
  /\ TurnAt(IF fg.at = "created" THEN "ended" ELSE "closing")
  /\ early' = IF fg.at \in {"created", "starting"} THEN early \cup fg.ids ELSE early
  /\ \/ UNCHANGED <<hubVars, restored>>
     \/ fg.at = "committing" /\ fg.place = next /\ Forget("committed")
  /\ UNCHANGED <<inputVars, turns, conv, child>>

\* The partial answer is stored, cancelled or not, and the turn is over.
EndTurn ==
  /\ fg.at = "closing"
  /\ conv' = Append(conv, <<"turn", fg.turn>>)
  /\ TurnAt("ended")
  /\ UNCHANGED <<hubVars, inputVars, restored, turns, early, child>>

-----------------------------------------------------------------------------
(* The background agent.                                                   *)

ChildOnly == Yielded /\ UNCHANGED <<restored, promptVars, arrivals, loopVars, turnVars>>

\* Its turn stores the input it was given.  That a turn is interrupted or fails
\* before it does is left out; the stop of the child stands for it.
ChildStore ==
  /\ child.at = "idle" /\ child.queue # << >>
  /\ child' = [child EXCEPT !.at = "mark"]
  /\ Post("committed", Head(child.queue), "child")
  /\ ChildOnly /\ UNCHANGED <<inputVars, keys>>

ChildMark ==
  /\ child.at = "mark"
  /\ child' = [child EXCEPT !.at = "marking"]
  /\ Begin("child", "delivered", Head(child.queue), "child")
  /\ ChildOnly /\ UNCHANGED keys

ChildMarked ==
  /\ child.at = "marking" /\ Commit("child")
  /\ child' = [at |-> "idle", queue |-> Tail(child.queue)]
  /\ ChildOnly /\ UNCHANGED <<hubVars, keys>>

\* It is stopped, and what it was given stays claimed.
ChildStops ==
  /\ child.at \in {"idle", "mark"} /\ Outside
  /\ child' = [child EXCEPT !.at = "gone"]
  /\ ChildOnly /\ UNCHANGED <<hubVars, inputVars>>

-----------------------------------------------------------------------------

HubOnly == Yielded /\ UNCHANGED <<inputVars, keys, promptVars, arrivals, loopVars, turnVars, child>>

HubStep == (Deliver /\ HubOnly) \/ (PassDropped /\ HubOnly)

Prompt == SubmitCommand \/ Retain \/ Retained \/ Admit \/ Admitted

RecallStep == Recall \/ NothingToRecall \/ Recalled

ArrivalStep ==
  \/ \E x \in Escapes : RequestInterrupt(x) \/ QueueInterrupt(x)
  \/ \E p \in Peers : QueueIncoming(p) \/ TakeIncoming(p)

LoopStep ==
  \/ RunCommand \/ CommandRun \/ StartPeers \/ StartReady \/ ClaimOldest \/ NothingToClaim \/ Claim \/ Claimed
  \/ ClaimedTooLate \/ Await \/ Wake \/ Accept \/ NothingForInterrupt \/ ClaimAll \/ ClaimedAll
  \/ Finalize \/ Barrier \/ Context \/ Submitted \/ Break \/ Record \/ Stopped

TurnStep ==
  \/ Forward \/ StartTurn \/ StoreItems \/ ItemCommitted \/ Mark \/ Marked \/ CallTools \/ ToolsDone
  \/ BoundaryPassed \/ Proceed \/ Answer \/ CancelTurn \/ EndTurn

ChildStep == ChildStore \/ ChildMark \/ ChildMarked

FromOutside == Enter \/ Up \/ Escape \/ Stop \/ ChildStops \/ \E p \in Peers : Arrive(p)

\* Enter has taken a place, another transition holds the lock and waits behind
\* that place, and the place is filled by whoever gets the lock.
Jammed ==
  /\ editor.at = "accepted" /\ kind[editor.id] = "message"
  /\ lock # Free /\ lock.at > editor.place

\* Nothing happens before something comes from outside again: the editor is
\* open and no input waits.  What came from others may: a message that lost
\* against an input which was then recalled stays until something else happens
\* (__init__.py:5187-5189).
Idle ==
  /\ main.at = "wait" /\ editor.at = "typing" /\ fg.at = "none"
  /\ Pending = {} /\ wire = {} /\ lock = Free

Rest == (Jammed \/ Idle \/ main.at = "stopped") /\ UNCHANGED vars

Next ==
  \/ HubStep \/ Prompt \/ RecallStep \/ ArrivalStep \/ LoopStep \/ TurnStep \/ ChildStep
  \/ FromOutside \/ Rest

Spec == Init /\ [][Next]_vars

\* The event loop runs every task that can go on; nobody has to press a key.
FairSpec ==
  /\ Spec
  /\ WF_vars(HubStep) /\ WF_vars(Prompt) /\ WF_vars(RecallStep) /\ WF_vars(ArrivalStep)
  /\ WF_vars(LoopStep) /\ WF_vars(TurnStep) /\ WF_vars(ChildStep)

-----------------------------------------------------------------------------
(* Properties.                                                             *)

Stored(i) == \E n \in 1..Len(conv) : conv[n] = <<"input", i>>

\* A session may end at any moment and be resumed from its journal: recovery
\* accepts the journal as it is then, knows every input the user was told is
\* pending, resubmits none that was recalled or that a journalled message
\* came from, and takes none for delivered without such a message
\* (_recovery.py:88-300, _coordinator.py:315-455).
RecoveryIsExact ==
  /\ ~restored.failed
  /\ \A i \in Inputs :
       LET found == restored.status[i] IN
       /\ entries[i].status # "absent" => found # "unknown"
       /\ entries[i].status = "recalled" => found = "recalled" /\ ~Stored(i)
       /\ i \in restored.messages => found = "delivered" /\ Stored(i)
       /\ found = "delivered" /\ restored.to[i] = "main" => i \in restored.messages

\* "delivers each as a separate conversation message" (axio-repl.md:729): the
\* conversation has each input at most once and in the order of the Enters,
\* whether it came alone, with an interrupt, or after one; and the notice of an
\* interrupt follows what the interrupted turn has said, even if that turn was
\* still being cancelled when the interrupt was accepted (__init__.py:5118-5133,
\* 5294-5298).
ConversationOrder ==
  /\ \A m, n \in 1..Len(conv) :
       m < n /\ conv[m][1] = "input" /\ conv[n][1] = "input" => conv[m][2] < conv[n][2]
  /\ \A n \in 1..Len(conv) : conv[n][1] = "notice" /\ conv[n][2] # 0 =>
       \E m \in 1..(n - 1) : conv[m] = <<"turn", conv[n][2]>>

\* The next request of a turn misses no input whose Enter came before its
\* tools were done, wherever its admission is by then: on its way to the
\* lock, published, or pending (__init__.py:4675-4692).
BoundaryMissesNoInput ==
  [][fg.at = "hook" /\ fg'.at = "model" =>
       /\ PendingFor("main") = {}
       /\ editor.at \in {"accepted", "admitting"} /\ editor.to = "main" /\ kind[editor.id] = "message"
            => editor.place > fg.place]_vars

\* What has been claimed is stored or on its way to its agent, unless that
\* agent is gone or the turn was cancelled before it had stored it
\* (__init__.py:4955-4987, 5097-5218).
IsCarried ==
  \A i \in Inputs : entries[i].status = "claimed" /\ stop = "none" /\ Running =>
    \/ Stored(i) \/ i \in early \/ child.at = "gone"
    \/ i \in fg.ids \cup main.now.ids
    \/ \E n \in 1..Len(ready) : i \in ready[n].ids
    \/ \E n \in 1..Len(settling) : i \in settling[n].ids
    \/ \E n \in 1..Len(child.queue) : i \in child.queue[n]

\* "recoverable input remains in the journal" (axio-repl.md:745): when the
\* session is recorded as ended, every Enter is in the journal, however late
\* it came and whether or not its admission outlived the shutdown's patience.
\* Until then what was claimed is carried.
NoInputIsLost ==
  /\ IsCarried
  /\ main.at = "stopped" =>
       \A i \in Inputs : i <= typed /\ kind[i] = "message" => restored.status[i] # "unknown"

\* "each Enter durably records a separate pending user message before opening
\* a fresh editor" (axio-repl.md:707).
EnterIsAdmitted == editor.at = "accepted" ~> editor.at # "accepted"

=============================================================================
