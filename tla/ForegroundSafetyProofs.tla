----------------------- MODULE ForegroundSafetyProofs -----------------------
(***************************************************************************)
(* The interactive session keeps its promises, for any number of inputs,   *)
(* peers and presses of Escape: what it has written down brings the next   *)
(* session to where this one was, no input is lost on its way to an agent, *)
(* a turn misses none that came before its next request, and the           *)
(* conversation tells what happened in the order in which it happened.     *)
(***************************************************************************)
EXTENDS ForegroundProofs

-----------------------------------------------------------------------------
(* The parts of the invariant.                                             *)

\* The journal is ahead of the entries by the transition that is over and has
\* not taken effect yet, and by the messages that are in it: an input whose
\* message is there needs no mark.
Settling(i) == lock # Free /\ i \in lock.ids /\ Over(lock.at)

\* The status of an input, once the transition that is over is made.
Status(i) == IF Settling(i) THEN Becomes(lock.kind) ELSE entries[i].status

\* The agent it is for.
Whose(i) == IF Settling(i) THEN lock.to ELSE entries[i].to

\* What a recovery makes of a status: claimed and delivered may differ.
Agrees(s, found) ==
  found = s \/ (s = "absent" /\ found = "unknown") \/ (s = "claimed" /\ found = "delivered")

\* A recovery of the journal finds the inputs as they are.
JournalInv ==
  /\ ~restored.failed
  /\ \A i \in Inputs : Agrees(Status(i), restored.status[i])
  /\ \A i \in Inputs : restored.status[i] \in {"claimed", "delivered"} => restored.to[i] = Whose(i)
  /\ \A i \in restored.messages : restored.status[i] = "delivered" /\ Stored(i)
  /\ \A i \in Inputs : restored.status[i] = "delivered" /\ restored.to[i] = "main"
       => i \in restored.messages

\* The turn marks its inputs when their messages are all in the journal.
CommitInv ==
  /\ fg.at = "committing" =>
       /\ fg.k \in 1..Len(fg.items) /\ fg.place <= given
       /\ \A n \in 1..(fg.k - 1) : InputOf(fg.items[n]) \subseteq restored.messages
       /\ Over(fg.place) => InputOf(fg.items[fg.k]) \subseteq restored.messages
       /\ ~Over(fg.place) => Event(fg.place, "committed", InputOf(fg.items[fg.k]), "main") \in wire
  /\ fg.at \in {"mark", "marking"} => fg.ids \subseteq restored.messages

\* A message that was submitted is in the journal, on its way to it, or about
\* to be.
EnterInv ==
  \A i \in Inputs : i <= typed /\ kind[i] = "message" =>
    \/ restored.status[i] # "unknown"
    \/ editor.at = "accepted" /\ editor.id = i
    \/ \E w \in wire : w.kind = "buffered" /\ i \in w.ids

\* The end of the session is recorded after everything that was submitted.
EndInv ==
  /\ main.at \in {"recording", "stopped"} => \A n \in InputPlaces : n < main.place
  /\ main.at = "stopped" => Over(main.place)

\* A turn between two requests has waited for what came before.
HookInv == fg.at = "hook" => Over(fg.place)

\* A claimed input waits for a turn, ...
Waiting(i) ==
  \/ Finalizing /\ i \in main.now.ids
  \/ \E n \in 1..Len(ready) : i \in ready[n].ids
  \/ \E n \in 1..Len(settling) : i \in settling[n].ids

\* ... or a turn has it, or nobody will.
Handled(i) ==
  \/ Stored(i) \/ i \in early \/ child.at = "gone" \/ i \in fg.ids
  \/ \E n \in 1..Len(child.queue) : i \in child.queue[n]

\* IsCarried without what main.now has from before.
CarriedInv ==
  \A i \in Inputs : entries[i].status = "claimed" /\ stop = "none" /\ Running => Waiting(i) \/ Handled(i)

\* An interrupt waits for a turn that is there, or the loop is at another one.
SettlingInv == settling # << >> /\ fg.at = "none" => Finalizing /\ main.now.to = "main"

\* The loop claims the oldest input when there is nothing else to do.
ClaimInv == main.at \in {"claim", "claiming"} => fg.at = "none" /\ ready = << >>

-----------------------------------------------------------------------------
(* The journal.                                                            *)

\* Only its own event gets a transition over.
LEMMA OverStays ==
  ASSUME HubTyped, InputTyped, WireInv, lock # Free, UNCHANGED lock,
         \/ UNCHANGED next
         \/ (HubInv /\ Passed)
         \/ \E w \in wire : Settled(w) /\ w # Announced
  PROVE  Over(lock.at)' <=> Over(lock.at)
<1>1. next \in Nat /\ lock.at \in Nat
  BY DEF HubTyped, InputTyped, Holding
<1>2. Over(lock.at) \/ (Announced \in wire /\ Announced.at = lock.at)
  BY DEF WireInv, Announced, Event
<1>3. CASE UNCHANGED next
  BY <1>3 DEF Over
<1>4. CASE HubInv /\ Passed
  <2>1. lock.at # next
    BY <1>1, <1>2, <1>4 DEF HubInv, Passed, Over
  <2> QED
    BY <1>1, <1>4, <2>1 DEF Passed, Over
<1>5. ASSUME NEW w \in wire, Settled(w), w # Announced PROVE Over(lock.at)' <=> Over(lock.at)
  <2>1. lock.at # next
    BY <1>1, <1>2, <1>5 DEF Settled, Over
  <2> QED
    BY <1>1, <1>5, <2>1 DEF Settled, Over
<1> QED
  BY <1>3, <1>4, <1>5

\* Where the transition is over, it fits, and nothing else changes it.
LEMMA StatusType ==
  ASSUME Core, NEW i \in Inputs
  PROVE  /\ Status(i) \in Statuses
         /\ Settling(i) => /\ lock \in Holding
                           /\ lock.kind = "buffered" => entries[i].status = "absent"
                                /\ Status(i) = "pending"
                           /\ lock.kind \in {"recalled", "claimed"} => entries[i].status = "pending"
                                /\ Status(i) = lock.kind
                           /\ lock.kind = "delivered" =>
                                /\ entries[i].status \in {"claimed", "delivered"}
                                     /\ entries[i].to = lock.to
                                /\ Status(i) = "delivered"
<1>1. entries[i] \in Entry
  BY DEF Core, TypeOK, InputTyped
<1>2. CASE ~Settling(i)
  BY <1>1, <1>2 DEF Status, Entry
<1>3. CASE Settling(i)
  <2>1. lock # Free /\ i \in lock.ids
    BY <1>3 DEF Settling
  <2>2. /\ lock \in Holding
        /\ lock.kind = "buffered" => entries[i].status = "absent"
        /\ lock.kind \in {"recalled", "claimed"} => entries[i].status = "pending"
        /\ lock.kind = "delivered" => entries[i].status \in {"claimed", "delivered"}
             /\ entries[i].to = lock.to
    BY <2>1, LockFits DEF Core, TypeOK, Known, Pending, Taken
  <2>3. lock.kind \in LockKinds
    BY <2>2 DEF Holding
  <2>4. Status(i) = IF lock.kind = "buffered" THEN "pending" ELSE lock.kind
    BY <1>3, <2>3 DEF Status, Becomes, LockKinds
  <2> QED
    BY <2>2, <2>3, <2>4 DEF LockKinds, Statuses
<1> QED
  BY <1>2, <1>3

\* The status of no input changes, made or about to be made.
Unmoved == \A i \in Inputs : /\ Status(i)' = Status(i)
                             /\ Status(i) \in {"claimed", "delivered"} => Whose(i)' = Whose(i)

\* What the entries, with the transition that is over, say of the inputs
\* changes only when a transition is delivered.
LEMMA StatusStays ==
  ASSUME Core, HubMove, InputMove, HubOfLock, ~\E w \in wire : Settled(w) /\ w = Announced
  PROVE  Unmoved
<1>1. HubTyped /\ InputTyped /\ WireInv /\ HubInv
  BY DEF Core, TypeOK
<1>2. CASE Commits
  <2> SUFFICES ASSUME NEW i \in Inputs
               PROVE  Status(i)' = Status(i) /\ (Status(i) \in {"claimed", "delivered"}
                     => Whose(i)' = Whose(i))
    BY DEF Unmoved
  <2>1. ~Settling(i)' /\ Over(lock.at) /\ entries' = After(lock) /\ lock # Free
    BY <1>2 DEF Commits, Settling
  <2>2. Status(i)' = entries'[i].status /\ Whose(i)' = entries'[i].to
    BY <2>1 DEF Status, Whose
  <2>3. entries[i] \in Entry
    BY <1>1 DEF InputTyped
  <2>4. CASE i \notin lock.ids
    BY <2>1, <2>2, <2>4 DEF Status, Whose, Settling, After
  <2>5. CASE i \in lock.ids
    <3>1. Settling(i) /\ lock.kind \in LockKinds
      BY <2>1, <2>5, StatusType DEF Settling, Holding
    <3>2. Whose(i) = lock.to
      BY <3>1 DEF Whose
    <3>3. entries'[i] = CASE lock.kind = "buffered"  -> [status |-> "pending", seq |-> lock.at,
          to |-> lock.to]
                          [] lock.kind = "recalled"  -> [entries[i] EXCEPT !.status = "recalled"]
                          [] lock.kind = "claimed"   -> [entries[i] EXCEPT !.status = "claimed",
                                !.to = lock.to]
                          [] lock.kind = "delivered" -> [entries[i] EXCEPT !.status = "delivered"]
      BY <2>1, <2>5 DEF After
    <3> QED
      BY <2>2, <2>3, <3>1, <3>2, <3>3, StatusType DEF Entry, LockKinds
  <2> QED
    BY <2>4, <2>5
<1>3. CASE UNCHANGED inputVars /\ lock # Free
  <2>1. \/ UNCHANGED next
        \/ (HubInv /\ Passed)
        \/ \E w \in wire : Settled(w) /\ w # Announced
    BY <1>1, <1>3 DEF HubMove, hubVars, Took, GaveUp, Posted, Filled, Settled
  <2>2. Over(lock.at)' <=> Over(lock.at)
    BY <1>1, <1>3, <2>1, OverStays DEF inputVars
  <2>3. \A i \in Inputs : Settling(i)' <=> Settling(i)
    BY <1>3, <2>2 DEF Settling, inputVars
  <2> QED
    BY <1>3, <2>3 DEF Unmoved, Status, Whose, inputVars
<1>4. CASE UNCHANGED inputVars /\ lock = Free
  BY <1>4 DEF Unmoved, Status, Whose, Settling, inputVars
<1>5. CASE lock' # lock /\ ~Commits
  <2>1. Begins(lock') /\ lock' # Free /\ Adds(Event(lock'.at, lock'.kind, lock'.ids, lock'.to))
    BY <1>5 DEF HubOfLock
  <2>2. next' = next /\ next <= lock'.at /\ next \in Nat
    <3> DEFINE w == Event(lock'.at, lock'.kind, lock'.ids, lock'.to)
    <3>1. w.at = lock'.at
      BY DEF Event
    <3>2. next \in Nat /\ given \in Nat /\ next <= given + 1 /\ \A n \in reserved : next <= n
      BY <1>1 DEF HubInv, HubTyped
    <3>3. Posted(w) \/ Filled(w)
      BY <2>1 DEF Adds
    <3> HIDE DEF w
    <3>4. CASE Posted(w)
      BY <3>1, <3>2, <3>4 DEF Posted
    <3>5. CASE Filled(w)
      BY <3>1, <3>2, <3>5 DEF Filled
    <3> QED
      BY <3>3, <3>4, <3>5
  <2>3. \A i \in Inputs : ~Settling(i) /\ ~Settling(i)'
    <3>1. lock'.at \in Nat
      BY <1>1, <2>1, InputKept DEF InputTyped, Holding
    <3>2. ~Over(lock.at)'
      BY <2>2, <3>1 DEF Over
    <3> QED
      BY <2>1, <3>2 DEF Settling, Begins
  <2> QED
    BY <2>1, <2>3 DEF Unmoved, Status, Whose, Begins
<1>6. lock' = lock => UNCHANGED inputVars \/ Commits
  BY DEF InputMove, Begins, Free, Holding, inputVars, Owners
<1> QED
  BY <1>2, <1>3, <1>4, <1>5, <1>6

\* An event is recorded when it is over; only a message may be forgotten.
Recording ==
  \/ UNCHANGED next \/ Passed
  \/ \E w \in wire : (Recorded(w) /\ HubStep) \/ (Settled(w) /\ w.kind = "committed" /\ CancelTurn)

\* Every step is one of Recording.
LEMMA RecordedOnce ==
  ASSUME [Next]_vars
  PROVE  Recording
<1>1. UNCHANGED <<next>> => Recording
  BY DEF Recording
<1>2. ASSUME Deliver /\ HubOnly PROVE Recording
  BY <1>2, DeliverMoves DEF Recording, Recorded, HubStep
<1>3. ASSUME PassDropped /\ HubOnly PROVE Recording
  BY <1>3, PassMoves DEF Recording
<1>4. Retained \/ Admitted =>
        UNCHANGED <<next>>
  BY DEF Retained, Admitted, EditorAt, hubVars, inputVars, turnVars, arrivals, loopVars
<1>5. ASSUME SubmitCommand PROVE Recording
  BY <1>5, HubActions DEF Recording, Took, GaveUp, Posted, Filled, hubVars
<1>6. ASSUME Retain PROVE Recording
  BY <1>6, HubActions DEF Recording, Took, GaveUp, Posted, Filled, hubVars
<1>7. ASSUME Admit PROVE Recording
  BY <1>7, HubActions DEF Recording, Took, GaveUp, Posted, Filled, hubVars
<1>8. NothingToRecall \/ Recalled =>
        UNCHANGED <<next>>
  BY DEF NothingToRecall, Recalled, RecallAt, hubVars, inputVars, arrivals, loopVars, turnVars
<1>9. ASSUME Recall PROVE Recording
  BY <1>9, HubActions DEF Recording, Took, GaveUp, Posted, Filled, hubVars
<1>10. (\E x \in Escapes : QueueInterrupt(x)) \/ (\E p \in Peers : QueueIncoming(p))
        \/ (\E p \in Peers : TakeIncoming(p)) =>
        UNCHANGED <<next>>
  BY DEF QueueInterrupt, QueueIncoming, TakeIncoming, Comes, StopOn, hubVars, inputVars,
         promptVars, loopVars, turnVars
<1>11. ASSUME NEW x \in Escapes, RequestInterrupt(x) PROVE Recording
  BY <1>11, HubActions DEF Recording, Took, GaveUp, Posted, Filled, hubVars
<1>12. RunCommand \/ CommandRun \/ StartPeers \/ StartReady \/ ClaimOldest \/ NothingToClaim
        \/ Claimed \/ ClaimedTooLate \/ Await \/ Wake \/ Accept \/ NothingForInterrupt
        \/ ClaimedAll \/ Barrier \/ Context \/ Submitted \/ Break \/ Stopped =>
        UNCHANGED <<next>>
  BY DEF RunCommand, CommandRun, StartPeers, StartReady, ClaimOldest, NothingToClaim, Claimed,
         ClaimedTooLate, Await, Wake, Accept, NothingForInterrupt, ClaimedAll, Barrier, Context,
         Submitted, Break, Stopped, LoopAt, hubVars, inputVars, Open, promptVars, arrivals,
         turnVars, Apply
<1>13. ASSUME Claim PROVE Recording
  BY <1>13, HubActions DEF Recording, Took, GaveUp, Posted, Filled, hubVars
<1>14. ASSUME ClaimAll PROVE Recording
  BY <1>14, HubActions DEF Recording, Took, GaveUp, Posted, Filled, hubVars
<1>15. ASSUME Finalize PROVE Recording
  BY <1>15, HubActions DEF Recording, Took, GaveUp, Posted, Filled, hubVars
<1>16. ASSUME Record PROVE Recording
  BY <1>16, HubActions DEF Recording, Took, GaveUp, Posted, Filled, hubVars
<1>17. Forward \/ StartTurn \/ Marked \/ CallTools \/ ToolsDone \/ BoundaryPassed \/ Proceed
        \/ Answer \/ EndTurn =>
        UNCHANGED <<next>>
  BY DEF Forward, StartTurn, Marked, CallTools, ToolsDone, BoundaryPassed, Proceed, Answer,
         EndTurn, TurnAt, hubVars, inputVars, TurnOnly, promptVars, arrivals, loopVars
<1>18. ASSUME StoreItems PROVE Recording
  BY <1>18, HubActions DEF Recording, Took, GaveUp, Posted, Filled, hubVars
<1>19. ASSUME ItemCommitted PROVE Recording
  BY <1>19, HubActions DEF Recording, Took, GaveUp, Posted, Filled, hubVars
<1>20. ASSUME Mark PROVE Recording
  BY <1>20, HubActions DEF Recording, Took, GaveUp, Posted, Filled, hubVars
<1>21. ASSUME CancelTurn PROVE Recording
  BY <1>21, HubActions DEF Recording, hubVars
<1>22. ChildMarked =>
        UNCHANGED <<next>>
  BY DEF ChildMarked, ChildOnly, hubVars, promptVars, arrivals, loopVars, turnVars
<1>23. ASSUME ChildStore PROVE Recording
  BY <1>23, HubActions DEF Recording, Took, GaveUp, Posted, Filled, hubVars
<1>24. ASSUME ChildMark PROVE Recording
  BY <1>24, HubActions DEF Recording, Took, GaveUp, Posted, Filled, hubVars
<1>25. Up \/ Escape \/ Stop \/ ChildStops =>
        UNCHANGED <<next>>
  BY DEF Up, Escape, Stop, ChildStops, Outside, RecallAt, hubVars, inputVars, StopOn, promptVars,
         loopVars, turnVars, ChildOnly, Comes, arrivals
<1>26. ASSUME Enter PROVE Recording
  BY <1>26, HubActions DEF Recording, Took, GaveUp, Posted, Filled, hubVars
<1>27. ASSUME NEW p \in Peers, Arrive(p) PROVE Recording
  BY <1>27, HubActions DEF Recording, Took, GaveUp, Posted, Filled, hubVars
<1>28. UNCHANGED vars => UNCHANGED <<next>>
  BY DEF vars, hubVars, inputVars, promptVars, arrivals, loopVars, turnVars
<1> QED
  BY <1>1, <1>2, <1>3, <1>4, <1>5, <1>6, <1>7, <1>8, <1>9, <1>10, <1>11, <1>12, <1>13, <1>14,
     <1>15, <1>16, <1>17, <1>18, <1>19, <1>20, <1>21, <1>22, <1>23, <1>24, <1>25, <1>26, <1>27,
     <1>28
     DEF Next, Prompt, RecallStep, ArrivalStep, LoopStep, TurnStep, ChildStep, FromOutside, Rest, HubStep

\* The journal has one event more.
LEMMA JournalGrows ==
  ASSUME Core, NEW w \in wire, Recorded(w)
  PROVE  /\ w \in Marks /\ w.ids \subseteq Inputs
         /\ \A i \in Inputs :
              /\ restored'.status[i] = (IF i \in w.ids THEN Becomes(w.kind) ELSE restored.status[i])
              /\ restored'.to[i] = (IF i \in w.ids THEN w.to ELSE restored.to[i])
         /\ restored'.messages = (IF w.kind = "committed"
              /\ w.to = "main" THEN restored.messages \cup w.ids
                                  ELSE restored.messages)
         /\ (\A i \in w.ids : Fits(restored, w, i)) /\ ~restored.failed => ~restored'.failed
         /\ restored.messages \subseteq Inputs
<1>1. w \in Marks /\ restored.messages \subseteq Inputs
  BY DEF Core, TypeOK, HubTyped, Found
<1>2. w.ids \subseteq Inputs
  BY <1>1 DEF Marks
<1> QED
  BY <1>1, <1>2 DEF Recorded, Recover

\* A transition is recorded as it will take effect.
LEMMA TransitionRecorded ==
  ASSUME Core, JournalInv, CommitInv, NEW w \in wire, Recorded(w), w.kind \in LockKinds,
         UNCHANGED inputVars, UNCHANGED conv
  PROVE  JournalInv'
<1>1. lock # Free /\ w.at = lock.at /\ w.kind = lock.kind /\ w.ids = lock.ids /\ w.to = lock.to
  BY DEF Core, WireInv, Announced, Event
<1>2. next \in Nat /\ next' = next + 1 /\ lock.at = next
  BY <1>1 DEF Recorded, Settled, Core, TypeOK, HubTyped
<1>3. \A i \in Inputs : ~Settling(i) /\ (Settling(i)' <=> i \in lock.ids)
  BY <1>1, <1>2 DEF Settling, Over, inputVars
<1>4. \A i \in Inputs : Status(i) = entries[i].status /\ Whose(i) = entries[i].to
  BY <1>3 DEF Status, Whose
<1>5. \A i \in Inputs : IF i \in lock.ids THEN Status(i)' = Becomes(lock.kind) /\ Whose(i)' = lock.to
                        ELSE Status(i)' = Status(i) /\ Whose(i)' = Whose(i)
  BY <1>3, <1>4 DEF Status, Whose, inputVars
<1>6. \A i \in Inputs : Stored(i)' <=> Stored(i)
  BY DEF Stored
<1>7. /\ \A i \in Inputs :
           /\ restored'.status[i] = (IF i \in lock.ids THEN Becomes(lock.kind) ELSE restored.status[i])
           /\ restored'.to[i] = (IF i \in lock.ids THEN lock.to ELSE restored.to[i])
      /\ restored'.messages = restored.messages /\ lock.ids \subseteq Inputs
           /\ restored.messages \subseteq Inputs
      /\ (\A i \in lock.ids : Fits(restored, w, i)) => ~restored'.failed
  BY <1>1, JournalGrows DEF JournalInv, LockKinds
<1>8. /\ lock.kind = "buffered" => \A i \in lock.ids : entries[i].status = "absent"
      /\ lock.kind \in {"recalled", "claimed"} => \A i \in lock.ids : entries[i].status = "pending"
      /\ lock.kind = "delivered" => \A i \in lock.ids : entries[i].status \in {"claimed", "delivered"}
  BY <1>1, LockFits DEF Core, TypeOK, Known, Pending, Taken
<1>9. \A i \in Inputs : Agrees(entries[i].status, restored.status[i])
  BY <1>4 DEF JournalInv
<1>10. ~restored'.failed
  <2>1. ASSUME NEW i \in lock.ids PROVE restored.status[i] \in Requires(w.kind)
    <3>1. restored.status[i] # "absent" /\ i \in Inputs
      BY <1>7 DEF Core, TypeOK, Found
    <3>2. Agrees(entries[i].status, restored.status[i])
      BY <1>9, <3>1
    <3> QED
      BY <1>1, <1>8, <3>1, <3>2 DEF Agrees, Requires, LockKinds
  <2>2. w.kind # "committed"
    BY DEF LockKinds
  <2> QED
    BY <1>7, <2>1, <2>2 DEF Fits
<1>11. \A i \in lock.ids : i \in restored.messages => lock.kind = "delivered"
  <2>1. \A i \in restored.messages : restored.status[i] = "delivered"
    BY DEF JournalInv
  <2> QED
    BY <1>1, <1>7, <1>8, <1>9, <2>1 DEF Agrees, LockKinds
<1>12. lock.kind = "delivered" /\ lock.to = "main" => lock.ids \subseteq restored.messages
  <2>1. CASE lock.by = "turn"
    BY <2>1 DEF Core, LockInv, TurnLock, CommitInv
  <2>2. lock.kind = "delivered" /\ lock.to = "main" => lock.by = "turn"
    BY <1>1 DEF Core, TypeOK, InputTyped, Holding, Owners, LockInv, EditorLock, RecallLock, LoopLock,
       ChildLock, Transition
  <2> QED
    BY <2>1, <2>2
<1>13. lock.kind \in LockKinds
  BY <1>1
<1>14. \A i \in Inputs : Agrees(Status(i)', restored'.status[i])
  BY <1>5, <1>7, <1>9, <1>4 DEF Agrees
<1>15. \A i \in Inputs : restored'.status[i] \in {"claimed", "delivered"} => restored'.to[i] = Whose(i)'
  BY <1>5, <1>7 DEF JournalInv
<1>16. \A i \in restored'.messages : restored'.status[i] = "delivered" /\ Stored(i)'
  BY <1>6, <1>7, <1>11 DEF JournalInv, Becomes
<1>17. \A i \in Inputs : restored'.status[i] = "delivered" /\ restored'.to[i] = "main"
      => i \in restored'.messages
  BY <1>7, <1>12, <1>13 DEF JournalInv, Becomes, LockKinds
<1> QED
  BY <1>10, <1>14, <1>15, <1>16, <1>17 DEF JournalInv

\* A message is recorded with the input it came from.
LEMMA MessageRecorded ==
  ASSUME Core, JournalInv, Unmoved, NEW w \in wire, Recorded(w), w.kind = "committed", UNCHANGED conv
  PROVE  JournalInv'
<1>1. /\ w.ids \subseteq Inputs /\ restored.messages \subseteq Inputs
      /\ \A i \in Inputs :
           /\ restored'.status[i] = (IF i \in w.ids THEN "delivered" ELSE restored.status[i])
           /\ restored'.to[i] = (IF i \in w.ids THEN w.to ELSE restored.to[i])
      /\ restored'.messages = (IF w.to = "main" THEN restored.messages \cup w.ids ELSE restored.messages)
      /\ (\A i \in w.ids : Fits(restored, w, i)) => ~restored'.failed
  BY JournalGrows DEF JournalInv, Becomes
<1>2. \A i \in Inputs : Stored(i)' <=> Stored(i)
  BY DEF Stored
<1>3. /\ \A i \in w.ids : entries[i].status \in {"claimed", "delivered"} /\ entries[i].to = w.to
      /\ w.to = "main" => \A i \in w.ids : Stored(i)
  BY DEF Core, CarriersInv, WireCarries, Taken
<1>4. ASSUME NEW i \in w.ids PROVE Status(i) \in {"claimed", "delivered"} /\ Whose(i) = w.to
  <2>1. CASE Settling(i)
    <3>1. lock \in Holding /\ lock.kind \in LockKinds
      BY <1>1, <2>1, StatusType DEF Holding
    <3>2. Status(i) = "delivered" /\ entries[i].to = lock.to
      BY <1>1, <1>3, <2>1, <3>1, StatusType DEF LockKinds
    <3> QED
      BY <1>3, <2>1, <3>2 DEF Whose
  <2>2. CASE ~Settling(i)
    BY <1>3, <2>2 DEF Status, Whose
  <2> QED
    BY <2>1, <2>2
<1>5. \A i \in Inputs : Agrees(Status(i), restored.status[i])
  BY DEF JournalInv
<1>6. ~restored'.failed
  <2>1. ASSUME NEW i \in w.ids PROVE Fits(restored, w, i)
    <3>1. restored.status[i] \in {"claimed", "delivered"}
      BY <1>1, <1>4, <1>5 DEF Agrees
    <3>2. restored.to[i] = w.to
      BY <1>1, <1>4, <3>1 DEF JournalInv
    <3> QED
      BY <3>1, <3>2 DEF Fits, Requires
  <2> QED
    BY <1>1, <2>1
<1>7. \A i \in Inputs : Status(i)' = Status(i) /\ (Status(i) \in {"claimed", "delivered"}
      => Whose(i)' = Whose(i))
  BY DEF Unmoved
<1>8. \A i \in Inputs : Agrees(Status(i)', restored'.status[i])
  BY <1>1, <1>4, <1>5, <1>7 DEF Agrees
<1>9. \A i \in Inputs : restored'.status[i] \in {"claimed", "delivered"} => restored'.to[i] = Whose(i)'
  <2>1. ASSUME NEW i \in Inputs, i \notin w.ids, restored.status[i] \in {"claimed", "delivered"}
        PROVE  restored.to[i] = Whose(i) /\ Status(i) \in {"claimed", "delivered"}
    BY <1>5, <2>1 DEF JournalInv, Agrees
  <2> QED
    BY <1>1, <1>4, <1>7, <2>1
<1>10. \A i \in restored'.messages : restored'.status[i] = "delivered" /\ Stored(i)'
  BY <1>1, <1>2, <1>3 DEF JournalInv
<1>11. \A i \in Inputs : restored'.status[i] = "delivered" /\ restored'.to[i] = "main"
      => i \in restored'.messages
  BY <1>1 DEF JournalInv
<1> QED
  BY <1>6, <1>8, <1>9, <1>10, <1>11 DEF JournalInv

\* A step that records nothing of the inputs leaves the journal right.
LEMMA NothingRecorded ==
  ASSUME Core, JournalInv, Unmoved, StoredGrows,
         UNCHANGED restored \/ \E w \in wire : Recorded(w) /\ w.kind = "other"
  PROVE  JournalInv'
<1>1. /\ \A i \in Inputs : restored'.status[i] = restored.status[i] /\ restored'.to[i] = restored.to[i]
      /\ restored'.messages = restored.messages /\ ~restored'.failed
           /\ restored.messages \subseteq Inputs
  <2>1. CASE UNCHANGED restored
    BY <2>1 DEF JournalInv, Core, TypeOK, Found
  <2>2. ASSUME NEW w \in wire, Recorded(w), w.kind = "other"
        PROVE  /\ \A i \in Inputs : restored'.status[i] = restored.status[i]
                    /\ restored'.to[i] = restored.to[i]
               /\ restored'.messages = restored.messages /\ ~restored'.failed
                    /\ restored.messages \subseteq Inputs
    <3>1. w.ids = {}
      BY <2>2 DEF Core, WireInv
    <3> QED
      BY <2>2, <3>1, JournalGrows DEF JournalInv
  <2> QED
    BY <2>1, <2>2
<1>2. \A i \in Inputs : Agrees(Status(i), restored.status[i])
  BY DEF JournalInv
<1>3. \A i \in Inputs : restored.status[i] \in {"claimed", "delivered"}
      => Status(i) \in {"claimed", "delivered"}
  <2>1. \A i \in Inputs : Status(i) \in Statuses
    BY StatusType
  <2> QED
    BY <1>2, <2>1 DEF Agrees, Statuses
<1>4. \A i \in Inputs : Agrees(Status(i)', restored'.status[i])
  BY <1>1, <1>2 DEF Unmoved
<1>5. \A i \in Inputs : restored'.status[i] \in {"claimed", "delivered"} => restored'.to[i] = Whose(i)'
  BY <1>1, <1>3 DEF Unmoved, JournalInv
<1>6. \A i \in restored'.messages : restored'.status[i] = "delivered" /\ Stored(i)'
  BY <1>1 DEF JournalInv, StoredGrows
<1>7. \A i \in Inputs : restored'.status[i] = "delivered" /\ restored'.to[i] = "main"
      => i \in restored'.messages
  BY <1>1 DEF JournalInv
<1> QED
  BY <1>1, <1>4, <1>5, <1>6, <1>7 DEF JournalInv

\* The journal and the entries agree after every step.
LEMMA JournalKept ==
  ASSUME Core, JournalInv, CommitInv, [Next]_vars
  PROVE  JournalInv'
<1>1. HubMove /\ InputMove /\ HubOfLock /\ StoredGrows
  BY TypeKept, LockOnHub, StoredStays DEF Core
<1>2. CASE UNCHANGED restored /\ ~(HubStep /\ \E w \in wire : Recorded(w))
  <2>2. Announced.kind # "committed"
    BY DEF Core, TypeOK, InputTyped, Holding, LockKinds, Free, Announced, Event
  <2>3. ASSUME Announced \in wire, Settled(Announced) PROVE FALSE
    <3>1. next' = next + 1 /\ next \in Nat /\ next \notin dropped
      BY <2>3 DEF Settled, Core, TypeOK, HubTyped, HubInv
    <3>2. PICK w \in wire : (Recorded(w) /\ HubStep) \/ (Settled(w) /\ w.kind = "committed"
          /\ CancelTurn)
      BY <3>1, RecordedOnce DEF Recording, Passed
    <3>3. w # Announced
      BY <1>2, <2>2, <3>2
    <3> QED
      BY <1>2, <2>3, <3>2, <3>3 DEF Settled
  <2>4. ~\E w \in wire : Settled(w) /\ w = Announced
    BY <2>3
  <2> QED
    BY <1>1, <1>2, <2>4, StatusStays, NothingRecorded
<1>3. ASSUME HubStep, NEW w \in wire, Recorded(w) PROVE JournalInv'
  <2>1. UNCHANGED inputVars /\ UNCHANGED conv
    BY <1>3 DEF HubStep, HubOnly, turnVars
  <2>2. CASE w.kind \in LockKinds
    BY <1>3, <2>1, <2>2, TransitionRecorded
  <2>3. CASE w.kind \notin LockKinds
    <3>1. ~\E v \in wire : Settled(v) /\ v = Announced
      <4>1. Announced \in wire /\ Settled(Announced) => Announced = w
        BY <1>3 DEF Recorded, Settled
      <4>2. Announced.kind \in LockKinds \cup {"none"}
        BY DEF Core, TypeOK, InputTyped, Holding, Free, Announced, Event
      <4>3. w.kind \in EventKinds
        BY DEF Core, TypeOK, HubTyped, Marks
      <4> QED
        BY <2>3, <4>1, <4>2, <4>3 DEF EventKinds
    <3>2. Unmoved
      BY <1>1, <3>1, StatusStays
    <3>3. w.kind \in {"committed", "other"}
      BY <2>3 DEF Core, TypeOK, HubTyped, Marks, EventKinds, LockKinds
    <3> QED
      BY <1>1, <1>3, <2>1, <3>2, <3>3, MessageRecorded, NothingRecorded
  <2> QED
    BY <2>2, <2>3
<1> QED
  BY <1>2, <1>3, RestoredMoves

\* Nothing leaves the journal.
LEMMA JournalLasts ==
  ASSUME Core, [Next]_vars
  PROVE  restored.messages \subseteq restored'.messages
<1>1. ASSUME NEW w \in wire, Recorded(w) PROVE restored.messages \subseteq restored'.messages
  BY <1>1, JournalGrows
<1> QED
  BY <1>1, RestoredMoves

\* The message a turn waits for is in the journal when its place is passed.
LEMMA CommitGoesOn ==
  ASSUME Core, CommitInv, [Next]_vars, fg'.at = fg.at, fg'.ids = fg.ids, fg'.items = fg.items,
  fg'.k = fg.k,
         fg'.place = fg.place
  PROVE  CommitInv'
<1>1. HubMove /\ HubTyped /\ HubTyped' /\ HubInv /\ restored.messages \subseteq restored'.messages
  BY TypeKept, HubKept, JournalLasts DEF Core, TypeOK
<1>2. given <= given' /\ given \in Nat /\ given' \in Nat /\ next \in Nat /\ next' \in Nat
      /\ next <= next'
  BY <1>1, OrderGrows DEF HubTyped
<1>3. fg \in Turn /\ fg.place \in Nat
  BY DEF Core, TypeOK, TurnTyped, Turn
<1>4. CASE fg.at = "committing"
  <2> DEFINE e == Event(fg.place, "committed", InputOf(fg.items[fg.k]), "main")
  <2>1. /\ fg.k \in 1..Len(fg.items) /\ fg.place <= given
        /\ \A n \in 1..(fg.k - 1) : InputOf(fg.items[n]) \subseteq restored.messages
        /\ Over(fg.place) => InputOf(fg.items[fg.k]) \subseteq restored.messages
        /\ ~Over(fg.place) => e \in wire
    BY <1>4 DEF CommitInv
  <2>2. e.at = fg.place /\ e.kind = "committed" /\ e.ids = InputOf(fg.items[fg.k]) /\ e.to = "main"
    BY DEF Event
  <2> HIDE DEF e
  <2>3. CASE e \in wire' /\ ~Over(fg.place)
    <3>1. next <= fg.place
      BY <1>2, <1>3, <2>3 DEF Over
    <3>2. ~(next' > fg.place)
      <4>1. UNCHANGED next \/ (Passed /\ fg.place # next) \/ (next' = next + 1 /\ fg.place # next)
        BY <1>1, <2>1, <2>2, <2>3, RecordedOnce DEF Recording, Passed, HubInv, Recorded, Settled
      <4> QED
        BY <1>2, <1>3, <3>1, <4>1 DEF Passed
    <3> QED
      BY <1>1, <1>2, <1>3, <1>4, <2>1, <2>3, <3>2 DEF CommitInv, Over, e
  <2>4. CASE Over(fg.place)
    <3>1. next' > fg.place
      BY <1>2, <1>3, <2>4 DEF Over
    <3> QED
      BY <1>1, <1>2, <1>3, <1>4, <2>1, <2>4, <3>1 DEF CommitInv, Over
  <2>5. CASE e \notin wire' /\ ~Over(fg.place)
    <3>1. Settled(e) /\ next' = next + 1
      BY <1>1, <2>1, <2>5 DEF HubMove, hubVars, Took, GaveUp, Passed, Posted, Filled, Settled
    <3>2. ~CancelTurn
      <4>1. CancelTurn => TurnAt("closing") \/ TurnAt("ended")
        BY DEF CancelTurn
      <4> QED
        BY <1>3, <1>4, <4>1, TurnAtMoves DEF TurnPlaces
    <3>3. next \notin dropped
      BY <1>1, <3>1 DEF HubInv, Settled
    <3>4. PICK w \in wire : Recorded(w)
      BY <1>2, <3>1, <3>2, <3>3, RecordedOnce DEF Recording, Passed
    <3>5. w = e
      BY <3>1, <3>4 DEF Recorded, Settled
    <3>6. e.ids \subseteq restored'.messages
      BY <2>2, <3>4, <3>5, JournalGrows
    <3>7. next' > fg.place
      BY <1>2, <2>2, <3>1 DEF Settled
    <3> QED
      BY <1>1, <1>2, <1>3, <1>4, <2>1, <2>2, <3>6, <3>7 DEF CommitInv, Over
  <2> QED
    BY <2>3, <2>4, <2>5
<1>5. CASE fg.at # "committing"
  BY <1>1, <1>5 DEF CommitInv
<1> QED
  BY <1>4, <1>5

\* The next message is on its way, or all of them are in the journal.
LEMMA CommitFollows ==
  ASSUME Core, [Next]_vars, NEW k \in Nat \ {0}, k <= Len(fg.items) + 1, PublishCommit(k),
         fg.at \in {"starting", "committing"},
         k > Len(fg.items) => UNCHANGED hubVars,
         k <= Len(fg.items) => Posted(Committed(k)),
         \A n \in 1..(k - 1) : InputOf(fg.items[n]) \subseteq restored.messages
  PROVE  CommitInv'
<1>1. fg \in Turn /\ given \in Nat /\ next \in Nat /\ next <= given + 1 /\ fg.ids \subseteq Inputs
  BY DEF Core, TypeOK, TurnTyped, Turn, HubTyped, HubInv
<1>2. Len(fg.items) \in Nat
  BY <1>1, LenProperties DEF Turn
<1>3. restored.messages \subseteq restored'.messages
  BY JournalLasts
<1>4. Carries(fg.items, fg.ids)
  BY DEF Core, CarriersInv, TurnCarries
<1>5. CASE k > Len(fg.items)
  <2>1. fg'.at \in {"mark", "model"} /\ fg'.ids = fg.ids
    BY <1>1, <1>5, PublishMoves
  <2>2. \A n \in 1..Len(fg.items) : InputOf(fg.items[n]) \subseteq restored.messages
    BY <1>2, <1>5
  <2>3. \A i \in fg.ids : i \in InputOf(<<"input", i>>)
    BY DEF InputOf
  <2>4. fg.ids \subseteq restored.messages
    BY <1>4, <2>2, <2>3 DEF Carries
  <2> QED
    BY <1>3, <2>1, <2>4 DEF CommitInv
<1>6. CASE k <= Len(fg.items)
  <2>1. fg'.at = "committing" /\ fg'.items = fg.items /\ fg'.k = k /\ fg'.place = given + 1
    BY <1>1, <1>6, PublishMoves
  <2>2. Committed(k) \in wire' /\ given' = given + 1 /\ next' = next
    BY <1>6 DEF Posted
  <2>3. ~(next' > given + 1) /\ given + 1 <= given' /\ k \in 1..Len(fg.items)
    BY <1>1, <1>2, <1>6, <2>2
  <2> QED
    BY <1>3, <2>1, <2>2, <2>3 DEF CommitInv, Over, Committed
<1> QED
  BY <1>1, <1>2, <1>5, <1>6

\* A turn marks its inputs when their messages are in the journal.
LEMMA CommitKept ==
  ASSUME Core, CommitInv, [Next]_vars
  PROVE  CommitInv'
<1>1. UNCHANGED <<fg>> => CommitInv'
  BY CommitGoesOn
<1>2. HubStep => UNCHANGED <<fg>>
  BY DEF HubStep, HubOnly, inputVars, promptVars, arrivals, loopVars, turnVars
<1>3. SubmitCommand \/ Retain \/ Retained \/ Admit =>
        UNCHANGED <<fg>>
  BY DEF SubmitCommand, Retain, Retained, Admit, EditorAt, inputVars, turnVars, arrivals,
         loopVars
<1>4. ASSUME Admitted PROVE CommitInv'
  <2>1. SameTurn
    BY <1>4, TurnHalts DEF Core, TypeOK, TurnTyped
  <2> QED
    BY <2>1, CommitGoesOn DEF SameTurn
<1>5. Recall \/ NothingToRecall \/ Recalled =>
        UNCHANGED <<fg>>
  BY DEF Recall, NothingToRecall, Recalled, RecallAt, inputVars, arrivals, loopVars, turnVars
<1>6. (\E x \in Escapes : RequestInterrupt(x)) \/ (\E p \in Peers : TakeIncoming(p)) =>
        UNCHANGED <<fg>>
  BY DEF RequestInterrupt, TakeIncoming, Comes, inputVars, promptVars, loopVars, turnVars
<1>7. ASSUME NEW x \in Escapes, QueueInterrupt(x) PROVE CommitInv'
  <2>1. SameTurn
    BY <1>7, TurnHalts DEF Core, TypeOK, TurnTyped
  <2> QED
    BY <2>1, CommitGoesOn DEF SameTurn
<1>8. ASSUME NEW p \in Peers, QueueIncoming(p) PROVE CommitInv'
  <2>1. SameTurn
    BY <1>8, TurnHalts DEF Core, TypeOK, TurnTyped
  <2> QED
    BY <2>1, CommitGoesOn DEF SameTurn
<1>9. RunCommand \/ CommandRun \/ ClaimOldest \/ NothingToClaim \/ Claim \/ ClaimedTooLate
        \/ Await \/ Accept \/ ClaimAll \/ Finalize \/ Barrier \/ Context \/ Submitted \/ Break
        \/ Record \/ Stopped =>
        UNCHANGED <<fg>>
  BY DEF RunCommand, CommandRun, ClaimOldest, NothingToClaim, Claim, ClaimedTooLate, Await,
         Accept, ClaimAll, Finalize, Barrier, Context, Submitted, Break, Record, Stopped, LoopAt,
         inputVars, Open, promptVars, arrivals, turnVars
<1>10. ASSUME StartPeers PROVE CommitInv'
  <2>1. fg'.at = "created"
    BY <1>10 DEF StartPeers, NewTurn, NoTurn
  <2> QED
    BY <2>1 DEF CommitInv
<1>11. ASSUME StartReady PROVE CommitInv'
  <2>1. fg'.at = "created"
    BY <1>11 DEF StartReady, NewTurn, NoTurn
  <2> QED
    BY <2>1 DEF CommitInv
<1>12. ASSUME Claimed PROVE CommitInv'
  <2>1. fg'.at = "created"
    BY <1>12 DEF Claimed, NewTurn, NoTurn
  <2> QED
    BY <2>1 DEF CommitInv
<1>13. ASSUME Wake PROVE CommitInv'
  <2>1. fg' = fg \/ fg'.at = "none"
    BY <1>13 DEF Wake, NoTurn
  <2> QED
    BY <2>1, CommitGoesOn DEF CommitInv
<1>14. ASSUME NothingForInterrupt PROVE CommitInv'
  <2>1. SameTurn
    BY <1>14, TurnHalts DEF Core, TypeOK, TurnTyped
  <2> QED
    BY <2>1, CommitGoesOn DEF SameTurn
<1>15. ASSUME ClaimedAll PROVE CommitInv'
  <2>1. SameTurn
    BY <1>15, TurnHalts DEF Core, TypeOK, TurnTyped
  <2> QED
    BY <2>1, CommitGoesOn DEF SameTurn
<1>16. ASSUME Forward PROVE CommitInv'
  <2>1. TurnAt("ended")
    BY <1>16 DEF Forward
  <2>2. fg'.at \in {"ended", "closing", "hook", "model"}
    BY <2>1, TurnAtMoves DEF TurnTyped, TurnPlaces, TypeOK, Core
  <2> QED
    BY <2>2 DEF CommitInv
<1>17. ASSUME StartTurn PROVE CommitInv'
  <2>1. fg'.at = "starting"
    BY <1>17 DEF StartTurn, Core, TypeOK, TurnTyped, Turn
  <2> QED
    BY <2>1 DEF CommitInv
<1>18. ASSUME StoreItems PROVE CommitInv'
  <2>1. fg.at = "starting" /\ PublishCommit(1) /\ Len(fg.items) \in Nat
    BY <1>18, LenProperties DEF StoreItems, Core, TypeOK, TurnTyped, Turn
  <2>2. 1 > Len(fg.items) => UNCHANGED hubVars
    BY <1>18, HubActions
  <2>3. 1 <= Len(fg.items) => Posted(Committed(1))
    BY <1>18, <2>1, HubActions
  <2> QED
    BY <2>1, <2>2, <2>3, CommitFollows
<1>19. ASSUME ItemCommitted PROVE CommitInv'
  <2>1. fg.at = "committing" /\ PublishCommit(fg.k + 1) /\ Over(fg.place) /\ Len(fg.items) \in Nat
    BY <1>19, LenProperties DEF ItemCommitted, Core, TypeOK, TurnTyped, Turn
  <2>2. fg.k \in 1..Len(fg.items) /\ \A n \in 1..fg.k : InputOf(fg.items[n]) \subseteq restored.messages
    <3>1. fg.k \in 1..Len(fg.items) /\ InputOf(fg.items[fg.k]) \subseteq restored.messages
      BY <2>1 DEF CommitInv
    <3>2. \A n \in 1..(fg.k - 1) : InputOf(fg.items[n]) \subseteq restored.messages
      BY <2>1 DEF CommitInv
    <3>3. \A n \in 1..fg.k : n = fg.k \/ n \in 1..(fg.k - 1)
      BY <3>1
    <3> QED
      BY <3>1, <3>2, <3>3
  <2>3. fg.k + 1 > Len(fg.items) => UNCHANGED hubVars
    BY <1>19, HubActions
  <2>4. fg.k + 1 <= Len(fg.items) => Posted(Committed(fg.k + 1))
    BY <1>19, <2>1, <2>2, HubActions
  <2> DEFINE k == fg.k + 1
  <2>5. k \in Nat \ {0} /\ k <= Len(fg.items) + 1 /\ \A n \in 1..(k - 1)
        : InputOf(fg.items[n]) \subseteq restored.messages
    BY <2>1, <2>2
  <2>6. PublishCommit(k) /\ (k > Len(fg.items) => UNCHANGED hubVars) /\ (k <= Len(fg.items)
        => Posted(Committed(k)))
    BY <2>1, <2>3, <2>4
  <2> HIDE DEF k
  <2> QED
    BY <2>1, <2>5, <2>6, CommitFollows
<1>20. ASSUME Mark PROVE CommitInv'
  <2>1. fg.at = "mark" /\ TurnAt("marking")
    BY <1>20 DEF Mark
  <2>2. fg'.at = "marking" /\ fg'.ids = fg.ids
    BY <2>1, TurnAtMoves DEF TurnTyped, TurnPlaces, TypeOK, Core
  <2> QED
    BY <2>1, <2>2, JournalLasts DEF CommitInv
<1>21. ASSUME Marked PROVE CommitInv'
  <2>1. TurnAt("closing") \/ TurnAt("model")
    BY <1>21 DEF Marked
  <2>2. fg'.at \in {"ended", "closing", "hook", "model"}
    BY <2>1, TurnAtMoves DEF TurnTyped, TurnPlaces, TypeOK, Core
  <2> QED
    BY <2>2 DEF CommitInv
<1>22. ASSUME CallTools PROVE CommitInv'
  <2>1. fg'.at = "tools"
    BY <1>22 DEF CallTools, Core, TypeOK, TurnTyped, Turn
  <2> QED
    BY <2>1 DEF CommitInv
<1>23. ASSUME ToolsDone PROVE CommitInv'
  <2>1. fg'.at = "boundary"
    BY <1>23 DEF ToolsDone, Core, TypeOK, TurnTyped, Turn
  <2> QED
    BY <2>1 DEF CommitInv
<1>24. ASSUME BoundaryPassed PROVE CommitInv'
  <2>1. TurnAt("hook")
    BY <1>24 DEF BoundaryPassed
  <2>2. fg'.at \in {"ended", "closing", "hook", "model"}
    BY <2>1, TurnAtMoves DEF TurnTyped, TurnPlaces, TypeOK, Core
  <2> QED
    BY <2>2 DEF CommitInv
<1>25. ASSUME Proceed PROVE CommitInv'
  <2>1. TurnAt("closing") \/ TurnAt("model")
    BY <1>25 DEF Proceed
  <2>2. fg'.at \in {"ended", "closing", "hook", "model"}
    BY <2>1, TurnAtMoves DEF TurnTyped, TurnPlaces, TypeOK, Core
  <2> QED
    BY <2>2 DEF CommitInv
<1>26. ASSUME Answer PROVE CommitInv'
  <2>1. TurnAt("closing")
    BY <1>26 DEF Answer
  <2>2. fg'.at \in {"ended", "closing", "hook", "model"}
    BY <2>1, TurnAtMoves DEF TurnTyped, TurnPlaces, TypeOK, Core
  <2> QED
    BY <2>2 DEF CommitInv
<1>27. ASSUME CancelTurn PROVE CommitInv'
  <2>1. TurnAt("closing") \/ TurnAt("ended")
    BY <1>27 DEF CancelTurn
  <2>2. fg'.at \in {"ended", "closing", "hook", "model"}
    BY <2>1, TurnAtMoves DEF TurnTyped, TurnPlaces, TypeOK, Core
  <2> QED
    BY <2>2 DEF CommitInv
<1>28. ASSUME EndTurn PROVE CommitInv'
  <2>1. TurnAt("ended")
    BY <1>28 DEF EndTurn
  <2>2. fg'.at \in {"ended", "closing", "hook", "model"}
    BY <2>1, TurnAtMoves DEF TurnTyped, TurnPlaces, TypeOK, Core
  <2> QED
    BY <2>2 DEF CommitInv
<1>29. ChildStore \/ ChildMark \/ ChildMarked =>
        UNCHANGED <<fg>>
  BY DEF ChildStore, ChildMark, ChildMarked, ChildOnly, inputVars, promptVars, arrivals,
         loopVars, turnVars
<1>30. Enter \/ Up \/ ChildStops \/ (\E p \in Peers : Arrive(p)) =>
        UNCHANGED <<fg>>
  BY DEF Enter, Up, ChildStops, Arrive, Outside, inputVars, arrivals, loopVars, turnVars,
         RecallAt, ChildOnly, promptVars, Comes
<1>31. ASSUME Escape PROVE CommitInv'
  <2>1. SameTurn
    BY <1>31, TurnHalts DEF Core, TypeOK, TurnTyped
  <2> QED
    BY <2>1, CommitGoesOn DEF SameTurn
<1>32. ASSUME Stop PROVE CommitInv'
  <2>1. SameTurn
    BY <1>32, TurnHalts DEF Core, TypeOK, TurnTyped
  <2> QED
    BY <2>1, CommitGoesOn DEF SameTurn
<1>33. UNCHANGED vars => UNCHANGED <<fg>>
  BY DEF vars, inputVars, promptVars, arrivals, loopVars, turnVars
<1> QED
  BY <1>1, <1>2, <1>3, <1>4, <1>5, <1>6, <1>7, <1>8, <1>9, <1>10, <1>11, <1>12, <1>13, <1>14,
     <1>15, <1>16, <1>17, <1>18, <1>19, <1>20, <1>21, <1>22, <1>23, <1>24, <1>25, <1>26, <1>27,
     <1>28, <1>29, <1>30, <1>31, <1>32, <1>33
     DEF Next, Prompt, RecallStep, ArrivalStep, LoopStep, TurnStep, ChildStep, FromOutside, Rest

-----------------------------------------------------------------------------
(* The end of the session, and the pause between two requests.             *)

\* What has passed stays passed.
LEMMA PassedStays ==
  ASSUME Core, [Next]_vars, NEW n \in Nat, Over(n)
  PROVE  Over(n)'
<1>1. HubMove /\ HubTyped /\ HubTyped' /\ HubInv
  BY TypeKept DEF Core, TypeOK
<1>2. next <= next' /\ next \in Nat /\ next' \in Nat
  BY <1>1, OrderGrows DEF HubTyped
<1> QED
  BY <1>2 DEF Over

\* What the journal knows it never forgets, and what is on its way arrives.
LEMMA SubmittedStays ==
  ASSUME Core, [Next]_vars, NEW i \in Inputs,
         restored.status[i] # "unknown" \/ \E w \in wire : w.kind = "buffered" /\ i \in w.ids
  PROVE  restored'.status[i] # "unknown" \/ \E w \in wire' : w.kind = "buffered" /\ i \in w.ids
<1>1. HubMove /\ HubTyped /\ HubInv
  BY TypeKept DEF Core, TypeOK
<1>2. ASSUME NEW w \in wire, Recorded(w), i \in w.ids PROVE restored'.status[i] # "unknown"
  <2>1. w.kind \in EventKinds /\ restored'.status[i] = Becomes(w.kind)
    BY <1>2, JournalGrows DEF Marks
  <2> QED
    BY <2>1 DEF Becomes, EventKinds
<1>3. CASE restored.status[i] # "unknown"
  <2>1. ASSUME NEW w \in wire, Recorded(w), i \notin w.ids PROVE restored'.status[i] # "unknown"
    BY <1>3, <2>1, JournalGrows
  <2> QED
    BY <1>2, <1>3, <2>1, RestoredMoves
<1>4. ASSUME NEW w \in wire, w.kind = "buffered", i \in w.ids, w \notin wire'
      PROVE  restored'.status[i] # "unknown"
  <2>1. Settled(w) /\ next' = next + 1
    BY <1>1, <1>4 DEF HubMove, hubVars, Took, GaveUp, Passed, Posted, Filled, Settled
  <2>2. next' # next /\ next \notin dropped
    BY <1>1, <2>1 DEF HubInv, HubTyped, Settled
  <2>3. PICK v \in wire : (Recorded(v) /\ HubStep) \/ (Settled(v) /\ v.kind = "committed" /\ CancelTurn)
    BY <2>2, RecordedOnce DEF Recording, Passed
  <2>4. v = w
    BY <2>1, <2>3 DEF Recorded, Settled
  <2> QED
    BY <1>2, <1>4, <2>3, <2>4
<1> QED
  BY <1>3, <1>4

\* A turn that stays where it is has waited as long as before.
LEMMA HookStays ==
  ASSUME Core, HookInv, [Next]_vars, fg'.at = fg.at, fg'.place = fg.place
  PROVE  HookInv'
<1>1. fg.place \in Nat
  BY DEF Core, TypeOK, TurnTyped, Turn
<1>2. \A n \in Nat : Over(n) => next' > n
  BY PassedStays DEF Over
<1> QED
  BY <1>1, <1>2 DEF HookInv, Over

\* A turn asks its hook when everything before its tools were done has passed.
LEMMA HookKept ==
  ASSUME Core, HookInv, [Next]_vars
  PROVE  HookInv'
<1>1. UNCHANGED <<fg>> => HookInv'
  BY HookStays
<1>2. HubStep => UNCHANGED <<fg>>
  BY DEF HubStep, HubOnly, inputVars, promptVars, arrivals, loopVars, turnVars
<1>3. SubmitCommand \/ Retain \/ Retained \/ Admit =>
        UNCHANGED <<fg>>
  BY DEF SubmitCommand, Retain, Retained, Admit, EditorAt, inputVars, turnVars, arrivals,
         loopVars
<1>4. ASSUME Admitted PROVE HookInv'
  <2>1. SameTurn
    BY <1>4, TurnHalts DEF Core, TypeOK, TurnTyped
  <2> QED
    BY <2>1, HookStays DEF SameTurn
<1>5. Recall \/ NothingToRecall \/ Recalled =>
        UNCHANGED <<fg>>
  BY DEF Recall, NothingToRecall, Recalled, RecallAt, inputVars, arrivals, loopVars, turnVars
<1>6. (\E x \in Escapes : RequestInterrupt(x)) \/ (\E p \in Peers : TakeIncoming(p)) =>
        UNCHANGED <<fg>>
  BY DEF RequestInterrupt, TakeIncoming, Comes, inputVars, promptVars, loopVars, turnVars
<1>7. ASSUME NEW x \in Escapes, QueueInterrupt(x) PROVE HookInv'
  <2>1. SameTurn
    BY <1>7, TurnHalts DEF Core, TypeOK, TurnTyped
  <2> QED
    BY <2>1, HookStays DEF SameTurn
<1>8. ASSUME NEW p \in Peers, QueueIncoming(p) PROVE HookInv'
  <2>1. SameTurn
    BY <1>8, TurnHalts DEF Core, TypeOK, TurnTyped
  <2> QED
    BY <2>1, HookStays DEF SameTurn
<1>9. RunCommand \/ CommandRun \/ ClaimOldest \/ NothingToClaim \/ Claim \/ ClaimedTooLate
        \/ Await \/ Accept \/ ClaimAll \/ Finalize \/ Barrier \/ Context \/ Submitted \/ Break
        \/ Record \/ Stopped =>
        UNCHANGED <<fg>>
  BY DEF RunCommand, CommandRun, ClaimOldest, NothingToClaim, Claim, ClaimedTooLate, Await,
         Accept, ClaimAll, Finalize, Barrier, Context, Submitted, Break, Record, Stopped, LoopAt,
         inputVars, Open, promptVars, arrivals, turnVars
<1>10. ASSUME StartPeers PROVE HookInv'
  <2>1. fg'.at = "created"
    BY <1>10 DEF StartPeers, NewTurn, NoTurn
  <2> QED
    BY <2>1 DEF HookInv
<1>11. ASSUME StartReady PROVE HookInv'
  <2>1. fg'.at = "created"
    BY <1>11 DEF StartReady, NewTurn, NoTurn
  <2> QED
    BY <2>1 DEF HookInv
<1>12. ASSUME Claimed PROVE HookInv'
  <2>1. fg'.at = "created"
    BY <1>12 DEF Claimed, NewTurn, NoTurn
  <2> QED
    BY <2>1 DEF HookInv
<1>13. ASSUME Wake PROVE HookInv'
  <2>1. fg' = fg \/ fg'.at = "none"
    BY <1>13 DEF Wake, NoTurn
  <2> QED
    BY <2>1, HookStays DEF HookInv
<1>14. ASSUME NothingForInterrupt PROVE HookInv'
  <2>1. SameTurn
    BY <1>14, TurnHalts DEF Core, TypeOK, TurnTyped
  <2> QED
    BY <2>1, HookStays DEF SameTurn
<1>15. ASSUME ClaimedAll PROVE HookInv'
  <2>1. SameTurn
    BY <1>15, TurnHalts DEF Core, TypeOK, TurnTyped
  <2> QED
    BY <2>1, HookStays DEF SameTurn
<1>16. ASSUME Forward PROVE HookInv'
  <2>1. TurnAt("ended")
    BY <1>16 DEF Forward
  <2>2. fg'.at # "hook"
    BY <2>1, TurnAtMoves DEF TurnTyped, TurnPlaces, TypeOK, Core
  <2> QED
    BY <2>2 DEF HookInv
<1>17. ASSUME StartTurn PROVE HookInv'
  <2>1. fg'.at = "starting"
    BY <1>17 DEF StartTurn, Core, TypeOK, TurnTyped, Turn
  <2> QED
    BY <2>1 DEF HookInv
<1>18. ASSUME StoreItems PROVE HookInv'
  <2>1. PublishCommit(1) /\ fg \in Turn
    BY <1>18 DEF StoreItems, Core, TypeOK, TurnTyped
  <2>2. fg'.at \in {"committing", "mark", "model"}
    BY <2>1 DEF PublishCommit, Turn
  <2> QED
    BY <2>2 DEF HookInv
<1>19. ASSUME ItemCommitted PROVE HookInv'
  <2>1. PublishCommit(fg.k + 1) /\ fg \in Turn
    BY <1>19 DEF ItemCommitted, Core, TypeOK, TurnTyped
  <2>2. fg'.at \in {"committing", "mark", "model"}
    BY <2>1 DEF PublishCommit, Turn
  <2> QED
    BY <2>2 DEF HookInv
<1>20. ASSUME Mark PROVE HookInv'
  <2>1. TurnAt("marking")
    BY <1>20 DEF Mark
  <2>2. fg'.at # "hook"
    BY <2>1, TurnAtMoves DEF TurnTyped, TurnPlaces, TypeOK, Core
  <2> QED
    BY <2>2 DEF HookInv
<1>21. ASSUME Marked PROVE HookInv'
  <2>1. TurnAt("closing") \/ TurnAt("model")
    BY <1>21 DEF Marked
  <2>2. fg'.at # "hook"
    BY <2>1, TurnAtMoves DEF TurnTyped, TurnPlaces, TypeOK, Core
  <2> QED
    BY <2>2 DEF HookInv
<1>22. ASSUME CallTools PROVE HookInv'
  <2>1. fg'.at = "tools"
    BY <1>22 DEF CallTools, Core, TypeOK, TurnTyped, Turn
  <2> QED
    BY <2>1 DEF HookInv
<1>23. ASSUME ToolsDone PROVE HookInv'
  <2>1. fg'.at = "boundary"
    BY <1>23 DEF ToolsDone, Core, TypeOK, TurnTyped, Turn
  <2> QED
    BY <2>1 DEF HookInv
<1>24. ASSUME BoundaryPassed PROVE HookInv'
  <2>1. TurnAt("hook") /\ Over(fg.place) /\ fg \in Turn /\ fg.place \in Nat
    BY <1>24 DEF BoundaryPassed, Core, TypeOK, TurnTyped, Turn
  <2>2. fg'.place = fg.place
    BY <2>1, TurnAtMoves DEF TurnPlaces
  <2>3. Over(fg.place)'
    <3>1. \A n \in Nat : Over(n) => next' > n
      BY PassedStays DEF Over
    <3> QED
      BY <2>1, <2>2, <3>1 DEF Over
  <2> QED
    BY <2>3 DEF HookInv
<1>25. ASSUME Proceed PROVE HookInv'
  <2>1. TurnAt("closing") \/ TurnAt("model")
    BY <1>25 DEF Proceed
  <2>2. fg'.at # "hook"
    BY <2>1, TurnAtMoves DEF TurnTyped, TurnPlaces, TypeOK, Core
  <2> QED
    BY <2>2 DEF HookInv
<1>26. ASSUME Answer PROVE HookInv'
  <2>1. TurnAt("closing")
    BY <1>26 DEF Answer
  <2>2. fg'.at # "hook"
    BY <2>1, TurnAtMoves DEF TurnTyped, TurnPlaces, TypeOK, Core
  <2> QED
    BY <2>2 DEF HookInv
<1>27. ASSUME CancelTurn PROVE HookInv'
  <2>1. TurnAt("closing") \/ TurnAt("ended")
    BY <1>27 DEF CancelTurn
  <2>2. fg'.at # "hook"
    BY <2>1, TurnAtMoves DEF TurnTyped, TurnPlaces, TypeOK, Core
  <2> QED
    BY <2>2 DEF HookInv
<1>28. ASSUME EndTurn PROVE HookInv'
  <2>1. TurnAt("ended")
    BY <1>28 DEF EndTurn
  <2>2. fg'.at # "hook"
    BY <2>1, TurnAtMoves DEF TurnTyped, TurnPlaces, TypeOK, Core
  <2> QED
    BY <2>2 DEF HookInv
<1>29. ChildStore \/ ChildMark \/ ChildMarked =>
        UNCHANGED <<fg>>
  BY DEF ChildStore, ChildMark, ChildMarked, ChildOnly, inputVars, promptVars, arrivals,
         loopVars, turnVars
<1>30. Enter \/ Up \/ ChildStops \/ (\E p \in Peers : Arrive(p)) =>
        UNCHANGED <<fg>>
  BY DEF Enter, Up, ChildStops, Arrive, Outside, inputVars, arrivals, loopVars, turnVars,
         RecallAt, ChildOnly, promptVars, Comes
<1>31. ASSUME Escape PROVE HookInv'
  <2>1. SameTurn
    BY <1>31, TurnHalts DEF Core, TypeOK, TurnTyped
  <2> QED
    BY <2>1, HookStays DEF SameTurn
<1>32. ASSUME Stop PROVE HookInv'
  <2>1. SameTurn
    BY <1>32, TurnHalts DEF Core, TypeOK, TurnTyped
  <2> QED
    BY <2>1, HookStays DEF SameTurn
<1>33. UNCHANGED vars => UNCHANGED <<fg>>
  BY DEF vars, inputVars, promptVars, arrivals, loopVars, turnVars
<1> QED
  BY <1>1, <1>2, <1>3, <1>4, <1>5, <1>6, <1>7, <1>8, <1>9, <1>10, <1>11, <1>12, <1>13, <1>14,
     <1>15, <1>16, <1>17, <1>18, <1>19, <1>20, <1>21, <1>22, <1>23, <1>24, <1>25, <1>26, <1>27,
     <1>28, <1>29, <1>30, <1>31, <1>32, <1>33
     DEF Next, Prompt, RecallStep, ArrivalStep, LoopStep, TurnStep, ChildStep, FromOutside, Rest

\* No Enter is forgotten on its way to the journal.
LEMMA EnterKept ==
  ASSUME Core, EnterInv, [Next]_vars
  PROVE  EnterInv'
<1>1. UNCHANGED <<editor, typed, kind>> => EnterInv'
  BY SubmittedStays DEF EnterInv
<1>2. HubStep => UNCHANGED <<editor, typed, kind>>
  BY DEF HubStep, HubOnly, inputVars, promptVars, arrivals, loopVars, turnVars
<1>3. ASSUME SubmitCommand PROVE EnterInv'
  <2>1. kind[editor.id] = "command" /\ UNCHANGED <<typed, kind>>
    BY <1>3 DEF SubmitCommand, EditorAt
  <2> QED
    BY <2>1, SubmittedStays DEF EnterInv
<1>4. ASSUME Retain PROVE EnterInv'
  <2>1. typed' = typed /\ kind' = [kind EXCEPT ![editor.id] = "retained"] /\ editor.at = "accepted"
    BY <1>4 DEF Retain
  <2>2. \A i \in Inputs : kind'[i] = "message" => i # editor.id /\ kind[i] = "message"
    BY <2>1 DEF Core, TypeOK, PromptTyped
  <2> QED
    BY <2>1, <2>2, SubmittedStays DEF EnterInv
<1>5. ASSUME Retained PROVE EnterInv'
  <2>1. editor.at = "retaining" /\ UNCHANGED <<typed, kind>>
    BY <1>5 DEF Retained, EditorAt
  <2> QED
    BY <2>1, SubmittedStays DEF EnterInv
<1>6. ASSUME Admit PROVE EnterInv'
  <2>1. editor.at = "accepted" /\ UNCHANGED <<typed, kind>>
    BY <1>6 DEF Admit, EditorAt
  <2> DEFINE e == Event(editor.place, "buffered", {editor.id}, editor.to)
  <2>2. e \in wire'
    BY <1>6, HubActions DEF Filled
  <2>3. e.kind = "buffered" /\ editor.id \in e.ids
    BY DEF Event
  <2> HIDE DEF e
  <2> QED
    BY <2>1, <2>2, <2>3, SubmittedStays DEF EnterInv
<1>7. ASSUME Admitted PROVE EnterInv'
  <2>1. editor.at = "admitting" /\ UNCHANGED <<typed, kind>>
    BY <1>7 DEF Admitted, EditorAt
  <2> QED
    BY <2>1, SubmittedStays DEF EnterInv
<1>8. Recall \/ NothingToRecall \/ Recalled =>
        UNCHANGED <<editor, typed, kind>>
  BY DEF Recall, NothingToRecall, Recalled, RecallAt, inputVars, arrivals, loopVars, turnVars
<1>9. (\E x \in Escapes : RequestInterrupt(x)) \/ (\E x \in Escapes : QueueInterrupt(x))
        \/ (\E p \in Peers : QueueIncoming(p)) \/ (\E p \in Peers : TakeIncoming(p)) =>
        UNCHANGED <<editor, typed, kind>>
  BY DEF RequestInterrupt, QueueInterrupt, QueueIncoming, TakeIncoming, Comes, inputVars,
         promptVars, loopVars, turnVars, StopOn
<1>10. RunCommand \/ CommandRun \/ StartPeers \/ StartReady \/ ClaimOldest \/ Claim \/ Claimed
        \/ Wake \/ Accept \/ NothingForInterrupt \/ ClaimAll \/ ClaimedAll \/ Finalize
        \/ Barrier \/ Context \/ Break \/ Record \/ Stopped =>
        UNCHANGED <<editor, typed, kind>>
  BY DEF RunCommand, CommandRun, StartPeers, StartReady, ClaimOldest, Claim, Claimed, Wake,
         Accept, NothingForInterrupt, ClaimAll, ClaimedAll, Finalize, Barrier, Context, Break,
         Record, Stopped, LoopAt, inputVars, promptVars, arrivals, turnVars, Apply
<1>11. ASSUME NothingToClaim PROVE EnterInv'
  <2>1. (editor.at # "accepted" \/ editor' = editor) /\ UNCHANGED <<typed, kind>>
    BY <1>11 DEF NothingToClaim, Open, LoopAt
  <2> QED
    BY <2>1, SubmittedStays DEF EnterInv
<1>12. ASSUME ClaimedTooLate PROVE EnterInv'
  <2>1. (editor.at # "accepted" \/ editor' = editor) /\ UNCHANGED <<typed, kind>>
    BY <1>12 DEF ClaimedTooLate, Open, LoopAt
  <2> QED
    BY <2>1, SubmittedStays DEF EnterInv
<1>13. ASSUME Await PROVE EnterInv'
  <2>1. (editor.at # "accepted" \/ editor' = editor) /\ UNCHANGED <<typed, kind>>
    BY <1>13 DEF Await, Open, LoopAt
  <2> QED
    BY <2>1, SubmittedStays DEF EnterInv
<1>14. ASSUME Submitted PROVE EnterInv'
  <2>1. editor.at = "done" /\ UNCHANGED <<typed, kind>>
    BY <1>14 DEF Submitted, LoopAt, Core, DoneInv
  <2> QED
    BY <2>1, SubmittedStays DEF EnterInv
<1>15. Forward \/ StartTurn \/ StoreItems \/ ItemCommitted \/ Mark \/ Marked \/ CallTools
        \/ ToolsDone \/ BoundaryPassed \/ Proceed \/ Answer \/ CancelTurn \/ EndTurn =>
        UNCHANGED <<editor, typed, kind>>
  BY DEF Forward, StartTurn, StoreItems, ItemCommitted, Mark, Marked, CallTools, ToolsDone,
         BoundaryPassed, Proceed, Answer, CancelTurn, EndTurn, TurnAt, inputVars, TurnOnly,
         promptVars, arrivals, loopVars
<1>16. ChildStore \/ ChildMark \/ ChildMarked =>
        UNCHANGED <<editor, typed, kind>>
  BY DEF ChildStore, ChildMark, ChildMarked, ChildOnly, inputVars, promptVars, arrivals,
         loopVars, turnVars
<1>17. Up \/ Escape \/ ChildStops \/ (\E p \in Peers : Arrive(p)) =>
        UNCHANGED <<editor, typed, kind>>
  BY DEF Up, Escape, ChildStops, Arrive, Outside, RecallAt, inputVars, StopOn, promptVars,
         loopVars, ChildOnly, turnVars, Comes, arrivals
<1>18. ASSUME Enter PROVE EnterInv'
  <2>1. editor.at = "typing" /\ typed' = typed + 1 /\ typed + 1 \in Inputs /\ typed \in Nat
    BY <1>18 DEF Enter, Core, TypeOK, PromptTyped
  <2>2. PICK what \in Kinds : kind' = [kind EXCEPT ![typed + 1] = what]
    BY <1>18 DEF Enter
  <2>3. editor'.at = "accepted" /\ editor'.id = typed + 1
    BY <1>18 DEF Enter
  <2>4. \A i \in Inputs : i <= typed' /\ i # typed + 1 => i <= typed /\ kind'[i] = kind[i]
    BY <2>1, <2>2, InputsAssumption DEF Core, TypeOK, PromptTyped
  <2> QED
    BY <2>1, <2>3, <2>4, SubmittedStays DEF EnterInv
<1>19. ASSUME Stop PROVE EnterInv'
  <2>1. (editor.at # "accepted" \/ editor' = editor) /\ UNCHANGED <<typed, kind>>
    BY <1>19 DEF Stop
  <2> QED
    BY <2>1, SubmittedStays DEF EnterInv
<1>20. UNCHANGED vars => UNCHANGED <<editor, typed, kind>>
  BY DEF vars, inputVars, promptVars, arrivals, loopVars, turnVars
<1> QED
  BY <1>1, <1>2, <1>3, <1>4, <1>5, <1>6, <1>7, <1>8, <1>9, <1>10, <1>11, <1>12, <1>13, <1>14,
     <1>15, <1>16, <1>17, <1>18, <1>19, <1>20
     DEF Next, Prompt, RecallStep, ArrivalStep, LoopStep, TurnStep, ChildStep, FromOutside, Rest

\* Nothing is submitted any more when the session has ended.
LEMMA EndStays ==
  ASSUME Core, EndInv, [Next]_vars, main'.place = main.place,
         main'.at = main.at \/ (main.at = "recording" /\ main'.at = "stopped" /\ Over(main.place))
  PROVE  EndInv'
<1>1. InputMove /\ LockInv'
  BY TypeKept, CoreKept DEF Core
<1>2. main.place \in Nat /\ \A n \in Nat : Over(n) => next' > n
  BY PassedStays DEF Over, Core, TypeOK, LoopTyped, Loop
<1>3. main.at = "stopped" \/ main'.at = "stopped" => next' > main'.place
  BY <1>2 DEF EndInv, Over
<1>4. main.at \in {"recording", "stopped"} => ~Enter
  BY DEF Enter, Outside, Comes, Running
<1>5. main'.at \in {"recording", "stopped"} => InputPlaces' \subseteq InputPlaces
  BY <1>1, <1>4, InputPlacesMove DEF Core, TypeOK
<1>6. main'.at \in {"recording", "stopped"} => \A n \in InputPlaces : n < main.place
  BY DEF EndInv
<1>7. main'.at \in {"recording", "stopped"} => \A n \in InputPlaces' : n < main'.place
  BY <1>5, <1>6
<1> QED
  BY <1>3, <1>7 DEF EndInv, Over

\* Everything that was submitted comes before the end of the session.
LEMMA EndKept ==
  ASSUME Core, EndInv, [Next]_vars
  PROVE  EndInv'
<1>1. UNCHANGED <<main>> => EndInv'
  BY EndStays
<1>2. HubStep => UNCHANGED <<main>>
  BY DEF HubStep, HubOnly, inputVars, promptVars, arrivals, loopVars, turnVars
<1>3. SubmitCommand \/ Retain \/ Retained \/ Admit \/ Admitted =>
        UNCHANGED <<main>>
  BY DEF SubmitCommand, Retain, Retained, Admit, Admitted, EditorAt, inputVars, turnVars,
         arrivals, loopVars
<1>4. Recall \/ NothingToRecall \/ Recalled =>
        UNCHANGED <<main>>
  BY DEF Recall, NothingToRecall, Recalled, RecallAt, inputVars, arrivals, loopVars, turnVars
<1>5. (\E x \in Escapes : RequestInterrupt(x)) \/ (\E x \in Escapes : QueueInterrupt(x))
        \/ (\E p \in Peers : QueueIncoming(p)) \/ (\E p \in Peers : TakeIncoming(p)) =>
        UNCHANGED <<main>>
  BY DEF RequestInterrupt, QueueInterrupt, QueueIncoming, TakeIncoming, Comes, inputVars,
         promptVars, loopVars, turnVars, StopOn
<1>6. ASSUME RunCommand PROVE EndInv'
  <2>1. LoopAt("command")
    BY <1>6 DEF RunCommand
  <2>2. main'.at \notin {"recording", "stopped"}
    BY <2>1, LoopAtType, NextPhaseType DEF LoopPlaces, Core, TypeOK, LoopTyped
  <2> QED
    BY <2>2 DEF EndInv
<1>7. ASSUME CommandRun PROVE EndInv'
  <2>1. LoopAt("top") \/ LoopAt("stopping")
    BY <1>7 DEF CommandRun
  <2>2. main'.at \notin {"recording", "stopped"}
    BY <2>1, LoopAtType, NextPhaseType DEF LoopPlaces, Core, TypeOK, LoopTyped
  <2> QED
    BY <2>2 DEF EndInv
<1>8. ASSUME StartPeers PROVE EndInv'
  <2>1. LoopAt("top")
    BY <1>8 DEF StartPeers
  <2>2. main'.at \notin {"recording", "stopped"}
    BY <2>1, LoopAtType, NextPhaseType DEF LoopPlaces, Core, TypeOK, LoopTyped
  <2> QED
    BY <2>2 DEF EndInv
<1>9. ASSUME StartReady PROVE EndInv'
  <2>1. LoopAt("top")
    BY <1>9 DEF StartReady
  <2>2. main'.at \notin {"recording", "stopped"}
    BY <2>1, LoopAtType, NextPhaseType DEF LoopPlaces, Core, TypeOK, LoopTyped
  <2> QED
    BY <2>2 DEF EndInv
<1>10. ASSUME ClaimOldest PROVE EndInv'
  <2>1. LoopAt("claim")
    BY <1>10 DEF ClaimOldest
  <2>2. main'.at \notin {"recording", "stopped"}
    BY <2>1, LoopAtType, NextPhaseType DEF LoopPlaces, Core, TypeOK, LoopTyped
  <2> QED
    BY <2>2 DEF EndInv
<1>11. ASSUME NothingToClaim PROVE EndInv'
  <2>1. LoopAt("wait")
    BY <1>11 DEF NothingToClaim, Open
  <2>2. main'.at \notin {"recording", "stopped"}
    BY <2>1, LoopAtType, NextPhaseType DEF LoopPlaces, Core, TypeOK, LoopTyped
  <2> QED
    BY <2>2 DEF EndInv
<1>12. ASSUME Claim PROVE EndInv'
  <2>1. LoopAt("claiming")
    BY <1>12 DEF Claim
  <2>2. main'.at \notin {"recording", "stopped"}
    BY <2>1, LoopAtType, NextPhaseType DEF LoopPlaces, Core, TypeOK, LoopTyped
  <2> QED
    BY <2>2 DEF EndInv
<1>13. ASSUME Claimed PROVE EndInv'
  <2>1. LoopAt("top")
    BY <1>13 DEF Claimed
  <2>2. main'.at \notin {"recording", "stopped"}
    BY <2>1, LoopAtType, NextPhaseType DEF LoopPlaces, Core, TypeOK, LoopTyped
  <2> QED
    BY <2>2 DEF EndInv
<1>14. ASSUME ClaimedTooLate PROVE EndInv'
  <2>1. LoopAt("wait")
    BY <1>14 DEF ClaimedTooLate, Open
  <2>2. main'.at \notin {"recording", "stopped"}
    BY <2>1, LoopAtType, NextPhaseType DEF LoopPlaces, Core, TypeOK, LoopTyped
  <2> QED
    BY <2>2 DEF EndInv
<1>15. ASSUME Await PROVE EndInv'
  <2>1. LoopAt("wait")
    BY <1>15 DEF Await, Open
  <2>2. main'.at \notin {"recording", "stopped"}
    BY <2>1, LoopAtType, NextPhaseType DEF LoopPlaces, Core, TypeOK, LoopTyped
  <2> QED
    BY <2>2 DEF EndInv
<1>16. ASSUME Wake PROVE EndInv'
  <2>1. main'.at \in {"accept", "input", "top", "finalize", "barrier", "claimAll", "context"}
    BY <1>16, NextPhaseType DEF Wake, Core, TypeOK, LoopTyped, Loop
  <2> QED
    BY <2>1 DEF EndInv
<1>17. ASSUME Accept PROVE EndInv'
  <2>1. main'.at \in {"accept", "input", "top", "finalize", "barrier", "claimAll", "context"}
    BY <1>17, NextPhaseType DEF Accept, Core, TypeOK, LoopTyped, Loop
  <2> QED
    BY <2>1 DEF EndInv
<1>18. ASSUME NothingForInterrupt PROVE EndInv'
  <2>1. main'.at \in {"accept", "input", "top", "finalize", "barrier", "claimAll", "context"}
    BY <1>18, NextPhaseType DEF NothingForInterrupt, Apply, Core, TypeOK, LoopTyped, Loop
  <2> QED
    BY <2>1 DEF EndInv
<1>19. ASSUME ClaimAll PROVE EndInv'
  <2>1. LoopAt("claimingAll")
    BY <1>19 DEF ClaimAll
  <2>2. main'.at \notin {"recording", "stopped"}
    BY <2>1, LoopAtType, NextPhaseType DEF LoopPlaces, Core, TypeOK, LoopTyped
  <2> QED
    BY <2>2 DEF EndInv
<1>20. ASSUME ClaimedAll PROVE EndInv'
  <2>1. main'.at \in {"accept", "input", "top", "finalize", "barrier", "claimAll", "context"}
    BY <1>20, NextPhaseType DEF ClaimedAll, Apply, Core, TypeOK, LoopTyped, Loop
  <2> QED
    BY <2>1 DEF EndInv
<1>21. ASSUME Finalize PROVE EndInv'
  <2>1. main'.at \in {"accept", "input", "top", "finalize", "barrier", "claimAll", "context"}
    BY <1>21, NextPhaseType DEF Finalize, Core, TypeOK, LoopTyped, Loop
  <2> QED
    BY <2>1 DEF EndInv
<1>22. ASSUME Barrier PROVE EndInv'
  <2>1. main'.at \in {"accept", "input", "top", "finalize", "barrier", "claimAll", "context"}
    BY <1>22, NextPhaseType DEF Barrier, Core, TypeOK, LoopTyped, Loop
  <2> QED
    BY <2>1 DEF EndInv
<1>23. ASSUME Context PROVE EndInv'
  <2>1. LoopAt(NextPhase(main.done))
    BY <1>23 DEF Context
  <2>2. main'.at \notin {"recording", "stopped"}
    BY <2>1, LoopAtType, NextPhaseType DEF LoopPlaces, Core, TypeOK, LoopTyped
  <2> QED
    BY <2>2 DEF EndInv
<1>24. ASSUME Submitted PROVE EndInv'
  <2>1. LoopAt("command") \/ LoopAt("top")
    BY <1>24 DEF Submitted
  <2>2. main'.at \notin {"recording", "stopped"}
    BY <2>1, LoopAtType, NextPhaseType DEF LoopPlaces, Core, TypeOK, LoopTyped
  <2> QED
    BY <2>2 DEF EndInv
<1>25. ASSUME Break PROVE EndInv'
  <2>1. LoopAt("stopping")
    BY <1>25 DEF Break
  <2>2. main'.at \notin {"recording", "stopped"}
    BY <2>1, LoopAtType, NextPhaseType DEF LoopPlaces, Core, TypeOK, LoopTyped
  <2> QED
    BY <2>2 DEF EndInv
<1>26. ASSUME Record PROVE EndInv'
  <2>1. main'.at = "recording" /\ main'.place = given + 1 /\ main.at = "stopping"
    BY <1>26 DEF Record, Core, TypeOK, LoopTyped, Loop
  <2>2. InputMove /\ LockInv'
    BY TypeKept, CoreKept DEF Core
  <2>3. ~Enter
    BY <2>1 DEF Enter, Outside, Comes, Running
  <2>4. InputPlaces' \subseteq InputPlaces
    BY <2>2, <2>3, InputPlacesMove DEF Core, TypeOK
  <2>5. given \in Nat /\ \A i \in Inputs : entries[i].seq \in Nat
    BY DEF Core, TypeOK, HubTyped, InputTyped, Entry
  <2>6. \A n \in InputPlaces : n \in Nat /\ n <= given
    BY <2>5 DEF InputPlaces, Core, EditorInv, TypeOK, PromptTyped, Editor
  <2>7. \A n \in InputPlaces' : n < main'.place
    BY <2>1, <2>4, <2>5, <2>6
  <2> QED
    BY <2>1, <2>7 DEF EndInv
<1>27. ASSUME Stopped PROVE EndInv'
  <2>1. main.at = "recording" /\ LoopAt("stopped") /\ Over(main.place)
    BY <1>27 DEF Stopped
  <2>2. main'.at = "stopped" /\ main'.place = main.place
    BY <2>1 DEF LoopAt, Core, TypeOK, LoopTyped, Loop
  <2> QED
    BY <2>1, <2>2, EndStays
<1>28. Forward \/ StartTurn \/ StoreItems \/ ItemCommitted \/ Mark \/ Marked \/ CallTools
        \/ ToolsDone \/ BoundaryPassed \/ Proceed \/ Answer \/ CancelTurn \/ EndTurn =>
        UNCHANGED <<main>>
  BY DEF Forward, StartTurn, StoreItems, ItemCommitted, Mark, Marked, CallTools, ToolsDone,
         BoundaryPassed, Proceed, Answer, CancelTurn, EndTurn, TurnAt, inputVars, TurnOnly,
         promptVars, arrivals, loopVars
<1>29. ChildStore \/ ChildMark \/ ChildMarked =>
        UNCHANGED <<main>>
  BY DEF ChildStore, ChildMark, ChildMarked, ChildOnly, inputVars, promptVars, arrivals,
         loopVars, turnVars
<1>30. Enter \/ Up \/ Escape \/ Stop \/ ChildStops \/ (\E p \in Peers : Arrive(p)) =>
        UNCHANGED <<main>>
  BY DEF Enter, Up, Escape, Stop, ChildStops, Arrive, Outside, inputVars, arrivals, loopVars,
         turnVars, RecallAt, StopOn, promptVars, ChildOnly, Comes
<1>31. UNCHANGED vars => UNCHANGED <<main>>
  BY DEF vars, inputVars, promptVars, arrivals, loopVars, turnVars
<1> QED
  BY <1>1, <1>2, <1>3, <1>4, <1>5, <1>6, <1>7, <1>8, <1>9, <1>10, <1>11, <1>12, <1>13, <1>14,
     <1>15, <1>16, <1>17, <1>18, <1>19, <1>20, <1>21, <1>22, <1>23, <1>24, <1>25, <1>26, <1>27,
     <1>28, <1>29, <1>30, <1>31
     DEF Next, Prompt, RecallStep, ArrivalStep, LoopStep, TurnStep, ChildStep, FromOutside, Rest

-----------------------------------------------------------------------------
(* What was claimed is carried.                                            *)

\* While the loop claims the oldest input no turn starts.
LEMMA ClaimKept ==
  ASSUME Core, ClaimInv, [Next]_vars
  PROVE  ClaimInv'
<1>1. UNCHANGED <<main, fg, ready>> => ClaimInv'
  BY DEF ClaimInv
<1>2. HubStep => UNCHANGED <<main, fg, ready>>
  BY DEF HubStep, HubOnly, inputVars, promptVars, arrivals, loopVars, turnVars
<1>3. SubmitCommand \/ Retain \/ Retained \/ Admit =>
        UNCHANGED <<main, fg, ready>>
  BY DEF SubmitCommand, Retain, Retained, Admit, EditorAt, inputVars, turnVars, arrivals,
         loopVars
<1>4. ASSUME Admitted PROVE ClaimInv'
  <2>1. fg'.at = fg.at /\ UNCHANGED <<main, ready>>
    BY <1>4, TurnHalts DEF Core, TypeOK, TurnTyped, SameTurn, Admitted, EditorAt, arrivals, loopVars
  <2> QED
    BY <2>1 DEF ClaimInv
<1>5. Recall \/ NothingToRecall \/ Recalled =>
        UNCHANGED <<main, fg, ready>>
  BY DEF Recall, NothingToRecall, Recalled, RecallAt, inputVars, arrivals, loopVars, turnVars
<1>6. (\E x \in Escapes : RequestInterrupt(x)) \/ (\E p \in Peers : TakeIncoming(p)) =>
        UNCHANGED <<main, fg, ready>>
  BY DEF RequestInterrupt, TakeIncoming, Comes, inputVars, promptVars, loopVars, turnVars
<1>7. ASSUME NEW x \in Escapes, QueueInterrupt(x) PROVE ClaimInv'
  <2>1. fg'.at = fg.at /\ UNCHANGED <<main, ready>>
    BY <1>7, TurnHalts DEF Core, TypeOK, TurnTyped, SameTurn, QueueInterrupt, Comes, StopOn, inputVars,
       promptVars
  <2> QED
    BY <2>1 DEF ClaimInv
<1>8. ASSUME NEW p \in Peers, QueueIncoming(p) PROVE ClaimInv'
  <2>1. fg'.at = fg.at /\ UNCHANGED <<main, ready>>
    BY <1>8, TurnHalts DEF Core, TypeOK, TurnTyped, SameTurn, QueueIncoming, Comes, StopOn, inputVars,
       promptVars, loopVars
  <2> QED
    BY <2>1 DEF ClaimInv
<1>9. ASSUME RunCommand PROVE ClaimInv'
  <2>1. LoopAt("command")
    BY <1>9 DEF RunCommand
  <2>2. main'.at \notin {"claim", "claiming"}
    BY <2>1, LoopAtType, NextPhaseType DEF LoopPlaces, Core, TypeOK, LoopTyped
  <2> QED
    BY <2>2 DEF ClaimInv
<1>10. ASSUME CommandRun PROVE ClaimInv'
  <2>1. LoopAt("top") \/ LoopAt("stopping")
    BY <1>10 DEF CommandRun
  <2>2. main'.at \notin {"claim", "claiming"}
    BY <2>1, LoopAtType, NextPhaseType DEF LoopPlaces, Core, TypeOK, LoopTyped
  <2> QED
    BY <2>2 DEF ClaimInv
<1>11. ASSUME StartPeers PROVE ClaimInv'
  <2>1. LoopAt("top")
    BY <1>11 DEF StartPeers
  <2>2. main'.at \notin {"claim", "claiming"}
    BY <2>1, LoopAtType, NextPhaseType DEF LoopPlaces, Core, TypeOK, LoopTyped
  <2> QED
    BY <2>2 DEF ClaimInv
<1>12. ASSUME StartReady PROVE ClaimInv'
  <2>1. LoopAt("top")
    BY <1>12 DEF StartReady
  <2>2. main'.at \notin {"claim", "claiming"}
    BY <2>1, LoopAtType, NextPhaseType DEF LoopPlaces, Core, TypeOK, LoopTyped
  <2> QED
    BY <2>2 DEF ClaimInv
<1>13. ASSUME ClaimOldest PROVE ClaimInv'
  <2>1. fg.at = "none" /\ ready = << >> /\ UNCHANGED <<fg, ready>>
    BY <1>13 DEF ClaimOldest, Deciding
  <2> QED
    BY <2>1 DEF ClaimInv
<1>14. ASSUME NothingToClaim PROVE ClaimInv'
  <2>1. LoopAt("wait")
    BY <1>14 DEF NothingToClaim, Open
  <2>2. main'.at \notin {"claim", "claiming"}
    BY <2>1, LoopAtType, NextPhaseType DEF LoopPlaces, Core, TypeOK, LoopTyped
  <2> QED
    BY <2>2 DEF ClaimInv
<1>15. ASSUME Claim PROVE ClaimInv'
  <2>1. main.at = "claim" /\ UNCHANGED <<fg, ready>>
    BY <1>15 DEF Claim
  <2> QED
    BY <2>1 DEF ClaimInv
<1>16. ASSUME Claimed PROVE ClaimInv'
  <2>1. LoopAt("top")
    BY <1>16 DEF Claimed
  <2>2. main'.at \notin {"claim", "claiming"}
    BY <2>1, LoopAtType, NextPhaseType DEF LoopPlaces, Core, TypeOK, LoopTyped
  <2> QED
    BY <2>2 DEF ClaimInv
<1>17. ASSUME ClaimedTooLate PROVE ClaimInv'
  <2>1. LoopAt("wait")
    BY <1>17 DEF ClaimedTooLate, Open
  <2>2. main'.at \notin {"claim", "claiming"}
    BY <2>1, LoopAtType, NextPhaseType DEF LoopPlaces, Core, TypeOK, LoopTyped
  <2> QED
    BY <2>2 DEF ClaimInv
<1>18. ASSUME Await PROVE ClaimInv'
  <2>1. LoopAt("wait")
    BY <1>18 DEF Await, Open
  <2>2. main'.at \notin {"claim", "claiming"}
    BY <2>1, LoopAtType, NextPhaseType DEF LoopPlaces, Core, TypeOK, LoopTyped
  <2> QED
    BY <2>2 DEF ClaimInv
<1>19. ASSUME Wake PROVE ClaimInv'
  <2>1. main'.at \notin {"claim", "claiming"}
    BY <1>19, NextPhaseType DEF Wake, Core, TypeOK, LoopTyped, Loop
  <2> QED
    BY <2>1 DEF ClaimInv
<1>20. ASSUME Accept PROVE ClaimInv'
  <2>1. main'.at \notin {"claim", "claiming"}
    BY <1>20, NextPhaseType DEF Accept, Core, TypeOK, LoopTyped, Loop
  <2> QED
    BY <2>1 DEF ClaimInv
<1>21. ASSUME NothingForInterrupt PROVE ClaimInv'
  <2>1. main'.at \notin {"claim", "claiming"}
    BY <1>21, NextPhaseType DEF NothingForInterrupt, Apply, Core, TypeOK, LoopTyped, Loop
  <2> QED
    BY <2>1 DEF ClaimInv
<1>22. ASSUME ClaimAll PROVE ClaimInv'
  <2>1. LoopAt("claimingAll")
    BY <1>22 DEF ClaimAll
  <2>2. main'.at \notin {"claim", "claiming"}
    BY <2>1, LoopAtType, NextPhaseType DEF LoopPlaces, Core, TypeOK, LoopTyped
  <2> QED
    BY <2>2 DEF ClaimInv
<1>23. ASSUME ClaimedAll PROVE ClaimInv'
  <2>1. main'.at \notin {"claim", "claiming"}
    BY <1>23, NextPhaseType DEF ClaimedAll, Apply, Core, TypeOK, LoopTyped, Loop
  <2> QED
    BY <2>1 DEF ClaimInv
<1>24. ASSUME Finalize PROVE ClaimInv'
  <2>1. main'.at \notin {"claim", "claiming"}
    BY <1>24, NextPhaseType DEF Finalize, Core, TypeOK, LoopTyped, Loop
  <2> QED
    BY <2>1 DEF ClaimInv
<1>25. ASSUME Barrier PROVE ClaimInv'
  <2>1. main'.at \notin {"claim", "claiming"}
    BY <1>25, NextPhaseType DEF Barrier, Core, TypeOK, LoopTyped, Loop
  <2> QED
    BY <2>1 DEF ClaimInv
<1>26. ASSUME Context PROVE ClaimInv'
  <2>1. LoopAt(NextPhase(main.done))
    BY <1>26 DEF Context
  <2>2. main'.at \notin {"claim", "claiming"}
    BY <2>1, LoopAtType, NextPhaseType DEF LoopPlaces, Core, TypeOK, LoopTyped
  <2> QED
    BY <2>2 DEF ClaimInv
<1>27. ASSUME Submitted PROVE ClaimInv'
  <2>1. LoopAt("command") \/ LoopAt("top")
    BY <1>27 DEF Submitted
  <2>2. main'.at \notin {"claim", "claiming"}
    BY <2>1, LoopAtType, NextPhaseType DEF LoopPlaces, Core, TypeOK, LoopTyped
  <2> QED
    BY <2>2 DEF ClaimInv
<1>28. ASSUME Break PROVE ClaimInv'
  <2>1. LoopAt("stopping")
    BY <1>28 DEF Break
  <2>2. main'.at \notin {"claim", "claiming"}
    BY <2>1, LoopAtType, NextPhaseType DEF LoopPlaces, Core, TypeOK, LoopTyped
  <2> QED
    BY <2>2 DEF ClaimInv
<1>29. ASSUME Record PROVE ClaimInv'
  <2>1. main'.at \notin {"claim", "claiming"}
    BY <1>29, NextPhaseType DEF Record, Core, TypeOK, LoopTyped, Loop
  <2> QED
    BY <2>1 DEF ClaimInv
<1>30. ASSUME Stopped PROVE ClaimInv'
  <2>1. LoopAt("stopped")
    BY <1>30 DEF Stopped
  <2>2. main'.at \notin {"claim", "claiming"}
    BY <2>1, LoopAtType, NextPhaseType DEF LoopPlaces, Core, TypeOK, LoopTyped
  <2> QED
    BY <2>2 DEF ClaimInv
<1>31. ASSUME Forward PROVE ClaimInv'
  <2>1. fg.at # "none" /\ UNCHANGED <<main, ready>>
    BY <1>31 DEF Forward, TurnAt, inputVars, TurnOnly, promptVars, arrivals, loopVars
  <2> QED
    BY <2>1 DEF ClaimInv
<1>32. ASSUME StartTurn PROVE ClaimInv'
  <2>1. fg.at # "none" /\ UNCHANGED <<main, ready>>
    BY <1>32 DEF StartTurn, TurnOnly, inputVars, promptVars, arrivals, loopVars
  <2> QED
    BY <2>1 DEF ClaimInv
<1>33. ASSUME StoreItems PROVE ClaimInv'
  <2>1. fg.at # "none" /\ UNCHANGED <<main, ready>>
    BY <1>33 DEF StoreItems, TurnOnly, inputVars, promptVars, arrivals, loopVars
  <2> QED
    BY <2>1 DEF ClaimInv
<1>34. ASSUME ItemCommitted PROVE ClaimInv'
  <2>1. fg.at # "none" /\ UNCHANGED <<main, ready>>
    BY <1>34 DEF ItemCommitted, TurnOnly, inputVars, promptVars, arrivals, loopVars
  <2> QED
    BY <2>1 DEF ClaimInv
<1>35. ASSUME Mark PROVE ClaimInv'
  <2>1. fg.at # "none" /\ UNCHANGED <<main, ready>>
    BY <1>35 DEF Mark, TurnAt, TurnOnly, promptVars, arrivals, loopVars
  <2> QED
    BY <2>1 DEF ClaimInv
<1>36. ASSUME Marked PROVE ClaimInv'
  <2>1. fg.at # "none" /\ UNCHANGED <<main, ready>>
    BY <1>36 DEF Marked, TurnAt, TurnOnly, promptVars, arrivals, loopVars
  <2> QED
    BY <2>1 DEF ClaimInv
<1>37. ASSUME CallTools PROVE ClaimInv'
  <2>1. fg.at # "none" /\ UNCHANGED <<main, ready>>
    BY <1>37 DEF CallTools, TurnOnly, inputVars, promptVars, arrivals, loopVars
  <2> QED
    BY <2>1 DEF ClaimInv
<1>38. ASSUME ToolsDone PROVE ClaimInv'
  <2>1. fg.at # "none" /\ UNCHANGED <<main, ready>>
    BY <1>38 DEF ToolsDone, TurnOnly, inputVars, promptVars, arrivals, loopVars
  <2> QED
    BY <2>1 DEF ClaimInv
<1>39. ASSUME BoundaryPassed PROVE ClaimInv'
  <2>1. fg.at # "none" /\ UNCHANGED <<main, ready>>
    BY <1>39 DEF BoundaryPassed, TurnAt, inputVars, TurnOnly, promptVars, arrivals, loopVars
  <2> QED
    BY <2>1 DEF ClaimInv
<1>40. ASSUME Proceed PROVE ClaimInv'
  <2>1. fg.at # "none" /\ UNCHANGED <<main, ready>>
    BY <1>40 DEF Proceed, TurnAt, inputVars, TurnOnly, promptVars, arrivals, loopVars
  <2> QED
    BY <2>1 DEF ClaimInv
<1>41. ASSUME Answer PROVE ClaimInv'
  <2>1. fg.at # "none" /\ UNCHANGED <<main, ready>>
    BY <1>41 DEF Answer, TurnAt, inputVars, TurnOnly, promptVars, arrivals, loopVars
  <2> QED
    BY <2>1 DEF ClaimInv
<1>42. ASSUME CancelTurn PROVE ClaimInv'
  <2>1. fg.at # "none" /\ UNCHANGED <<main, ready>>
    BY <1>42 DEF CancelTurn, TurnAt, inputVars, TurnOnly, promptVars, arrivals, loopVars
  <2> QED
    BY <2>1 DEF ClaimInv
<1>43. ASSUME EndTurn PROVE ClaimInv'
  <2>1. fg.at # "none" /\ UNCHANGED <<main, ready>>
    BY <1>43 DEF EndTurn, TurnAt, inputVars, TurnOnly, promptVars, arrivals, loopVars
  <2> QED
    BY <2>1 DEF ClaimInv
<1>44. ChildStore \/ ChildMark \/ ChildMarked =>
        UNCHANGED <<main, fg, ready>>
  BY DEF ChildStore, ChildMark, ChildMarked, ChildOnly, inputVars, promptVars, arrivals,
         loopVars, turnVars
<1>45. Enter \/ Up \/ ChildStops \/ (\E p \in Peers : Arrive(p)) =>
        UNCHANGED <<main, fg, ready>>
  BY DEF Enter, Up, ChildStops, Arrive, Outside, inputVars, arrivals, loopVars, turnVars,
         RecallAt, ChildOnly, promptVars, Comes
<1>46. ASSUME Escape PROVE ClaimInv'
  <2>1. fg'.at = fg.at /\ UNCHANGED <<main, ready>>
    BY <1>46, TurnHalts DEF Core, TypeOK, TurnTyped, SameTurn, Escape, Outside, StopOn, inputVars,
       promptVars, loopVars, Comes
  <2> QED
    BY <2>1 DEF ClaimInv
<1>47. ASSUME Stop PROVE ClaimInv'
  <2>1. fg'.at = fg.at /\ UNCHANGED <<main, ready>>
    BY <1>47, TurnHalts DEF Core, TypeOK, TurnTyped, SameTurn, Stop, Outside, turnVars, StopOn,
       inputVars, loopVars, Comes
  <2> QED
    BY <2>1 DEF ClaimInv
<1>48. UNCHANGED vars => UNCHANGED <<main, fg, ready>>
  BY DEF vars, inputVars, promptVars, arrivals, loopVars, turnVars
<1> QED
  BY <1>1, <1>2, <1>3, <1>4, <1>5, <1>6, <1>7, <1>8, <1>9, <1>10, <1>11, <1>12, <1>13, <1>14,
     <1>15, <1>16, <1>17, <1>18, <1>19, <1>20, <1>21, <1>22, <1>23, <1>24, <1>25, <1>26, <1>27,
     <1>28, <1>29, <1>30, <1>31, <1>32, <1>33, <1>34, <1>35, <1>36, <1>37, <1>38, <1>39, <1>40,
     <1>41, <1>42, <1>43, <1>44, <1>45, <1>46, <1>47, <1>48
     DEF Next, Prompt, RecallStep, ArrivalStep, LoopStep, TurnStep, ChildStep, FromOutside, Rest

\* The session runs now if it runs after the step.
GoesOn == (Running' => Running) /\ (stop' = "none" => stop = "none")

\* A session that ends does not go on.
LEMMA RunningBefore ==
  ASSUME [Next]_vars
  PROVE  GoesOn
<1>1. UNCHANGED <<main, stop>> => GoesOn
  BY DEF Running, GoesOn
<1>2. HubStep => UNCHANGED <<main, stop>>
  BY DEF HubStep, HubOnly, inputVars, promptVars, arrivals, loopVars, turnVars
<1>3. SubmitCommand \/ Retain \/ Retained \/ Admit \/ Admitted =>
        UNCHANGED <<main, stop>>
  BY DEF SubmitCommand, Retain, Retained, Admit, Admitted, EditorAt, inputVars, turnVars,
         arrivals, loopVars
<1>4. Recall \/ NothingToRecall \/ Recalled =>
        UNCHANGED <<main, stop>>
  BY DEF Recall, NothingToRecall, Recalled, RecallAt, inputVars, arrivals, loopVars, turnVars
<1>5. (\E x \in Escapes : RequestInterrupt(x)) \/ (\E x \in Escapes : QueueInterrupt(x))
        \/ (\E p \in Peers : QueueIncoming(p)) \/ (\E p \in Peers : TakeIncoming(p)) =>
        UNCHANGED <<main, stop>>
  BY DEF RequestInterrupt, QueueInterrupt, QueueIncoming, TakeIncoming, Comes, inputVars,
         promptVars, loopVars, turnVars, StopOn
<1>6. RunCommand => GoesOn
  BY DEF RunCommand, LoopAt, inputVars, Running, GoesOn, Deciding
<1>7. CommandRun => GoesOn
  BY DEF CommandRun, LoopAt, inputVars, Running, GoesOn
<1>8. StartPeers => GoesOn
  BY DEF StartPeers, LoopAt, inputVars, Running, GoesOn, Deciding
<1>9. StartReady => GoesOn
  BY DEF StartReady, LoopAt, inputVars, Running, GoesOn, Deciding
<1>10. ClaimOldest => GoesOn
  BY DEF ClaimOldest, LoopAt, inputVars, Running, GoesOn, Deciding
<1>11. NothingToClaim => GoesOn
  BY DEF NothingToClaim, Open, inputVars, LoopAt, Running, GoesOn
<1>12. Claim => GoesOn
  BY DEF Claim, LoopAt, Running, GoesOn
<1>13. Claimed => GoesOn
  BY DEF Claimed, LoopAt, Running, GoesOn
<1>14. ClaimedTooLate => GoesOn
  BY DEF ClaimedTooLate, Open, LoopAt, Running, GoesOn
<1>15. Await => GoesOn
  BY DEF Await, Open, inputVars, LoopAt, Running, GoesOn
<1>16. Wake => GoesOn
  BY DEF Wake, inputVars, promptVars, Running, GoesOn
<1>17. Accept => GoesOn
  BY DEF Accept, inputVars, promptVars, arrivals, turnVars, Running, GoesOn
<1>18. NothingForInterrupt => GoesOn
  BY DEF NothingForInterrupt, Apply, inputVars, promptVars, arrivals, Running, GoesOn
<1>19. ClaimAll => GoesOn
  BY DEF ClaimAll, LoopAt, Running, GoesOn
<1>20. ClaimedAll => GoesOn
  BY DEF ClaimedAll, Apply, promptVars, arrivals, Running, GoesOn
<1>21. Finalize => GoesOn
  BY DEF Finalize, inputVars, promptVars, arrivals, turnVars, Running, GoesOn
<1>22. Barrier => GoesOn
  BY DEF Barrier, inputVars, promptVars, Running, GoesOn
<1>23. Context => GoesOn
  BY DEF Context, LoopAt, inputVars, Running, GoesOn
<1>24. Submitted => GoesOn
  BY DEF Submitted, LoopAt, inputVars, Running, GoesOn
<1>25. Break => GoesOn
  BY DEF Break, LoopAt, inputVars, Running, GoesOn
<1>26. Record => GoesOn
  BY DEF Record, Running, arrivals, GoesOn
<1>27. Stopped => GoesOn
  BY DEF Stopped, LoopAt, Running, Asleep, GoesOn
<1>28. Forward \/ StartTurn \/ StoreItems \/ ItemCommitted \/ Mark \/ Marked \/ CallTools
        \/ ToolsDone \/ BoundaryPassed \/ Proceed \/ Answer \/ CancelTurn \/ EndTurn =>
        UNCHANGED <<main, stop>>
  BY DEF Forward, StartTurn, StoreItems, ItemCommitted, Mark, Marked, CallTools, ToolsDone,
         BoundaryPassed, Proceed, Answer, CancelTurn, EndTurn, TurnAt, inputVars, TurnOnly,
         promptVars, arrivals, loopVars
<1>29. ChildStore \/ ChildMark \/ ChildMarked =>
        UNCHANGED <<main, stop>>
  BY DEF ChildStore, ChildMark, ChildMarked, ChildOnly, inputVars, promptVars, arrivals,
         loopVars, turnVars
<1>30. Enter \/ Up \/ Escape \/ ChildStops \/ (\E p \in Peers : Arrive(p)) =>
        UNCHANGED <<main, stop>>
  BY DEF Enter, Up, Escape, ChildStops, Arrive, Outside, inputVars, arrivals, loopVars, turnVars,
         RecallAt, StopOn, promptVars, ChildOnly, Comes
<1>31. Stop => GoesOn
  BY DEF Stop, loopVars, Running, GoesOn
<1>32. UNCHANGED vars => UNCHANGED <<main, stop>>
  BY DEF vars, loopVars, arrivals
<1> QED
  BY <1>1, <1>2, <1>3, <1>4, <1>5, <1>6, <1>7, <1>8, <1>9, <1>10, <1>11, <1>12, <1>13, <1>14,
     <1>15, <1>16, <1>17, <1>18, <1>19, <1>20, <1>21, <1>22, <1>23, <1>24, <1>25, <1>26, <1>27,
     <1>28, <1>29, <1>30, <1>31, <1>32
     DEF Next, Prompt, RecallStep, ArrivalStep, LoopStep, TurnStep, ChildStep, FromOutside, Rest

\* An interrupt waits as before.
LEMMA SettlingStays ==
  ASSUME SettlingInv, settling' = settling, fg'.at = "none" => fg.at = "none",
         main'.now = main.now, Finalizing => Finalizing'
  PROVE  SettlingInv'
  BY DEF SettlingInv

\* The loop decides nothing while an interrupt waits for no turn.
LEMMA SettlingElsewhere ==
  ASSUME SettlingInv, settling' = settling, fg'.at = "none" => fg.at = "none", ~Finalizing
  PROVE  SettlingInv'
  BY DEF SettlingInv

\* No interrupt waits for a turn that is gone.
LEMMA SettlingKept ==
  ASSUME Core, SettlingInv, [Next]_vars
  PROVE  SettlingInv'
<1>1. UNCHANGED <<main, fg, settling>> => SettlingInv'
  BY SettlingStays DEF Finalizing
<1>2. HubStep => UNCHANGED <<main, fg, settling>>
  BY DEF HubStep, HubOnly, inputVars, promptVars, arrivals, loopVars, turnVars
<1>3. SubmitCommand \/ Retain \/ Retained \/ Admit =>
        UNCHANGED <<main, fg, settling>>
  BY DEF SubmitCommand, Retain, Retained, Admit, EditorAt, inputVars, turnVars, arrivals,
         loopVars
<1>4. ASSUME Admitted PROVE SettlingInv'
  <2>1. fg'.at = fg.at /\ UNCHANGED <<main, settling>>
    BY <1>4, TurnHalts DEF Core, TypeOK, TurnTyped, SameTurn, Admitted, EditorAt, arrivals, loopVars
  <2> QED
    BY <2>1 DEF SettlingInv, Finalizing
<1>5. Recall \/ NothingToRecall \/ Recalled =>
        UNCHANGED <<main, fg, settling>>
  BY DEF Recall, NothingToRecall, Recalled, RecallAt, inputVars, arrivals, loopVars, turnVars
<1>6. (\E x \in Escapes : RequestInterrupt(x)) \/ (\E p \in Peers : TakeIncoming(p)) =>
        UNCHANGED <<main, fg, settling>>
  BY DEF RequestInterrupt, TakeIncoming, Comes, inputVars, promptVars, loopVars, turnVars
<1>7. ASSUME NEW x \in Escapes, QueueInterrupt(x) PROVE SettlingInv'
  <2>1. fg'.at = fg.at /\ UNCHANGED <<main, settling>>
    BY <1>7, TurnHalts DEF Core, TypeOK, TurnTyped, SameTurn, QueueInterrupt, Comes, StopOn, inputVars,
       promptVars
  <2> QED
    BY <2>1 DEF SettlingInv, Finalizing
<1>8. ASSUME NEW p \in Peers, QueueIncoming(p) PROVE SettlingInv'
  <2>1. fg'.at = fg.at /\ UNCHANGED <<main, settling>>
    BY <1>8, TurnHalts DEF Core, TypeOK, TurnTyped, SameTurn, QueueIncoming, Comes, StopOn, inputVars,
       promptVars, loopVars
  <2> QED
    BY <2>1 DEF SettlingInv, Finalizing
<1>9. ASSUME RunCommand PROVE SettlingInv'
  <2>1. UNCHANGED <<settling, fg>> /\ ~Finalizing
    BY <1>9 DEF RunCommand, LoopAt, inputVars, Finalizing, Deciding
  <2> QED
    BY <2>1, SettlingElsewhere
<1>10. ASSUME CommandRun PROVE SettlingInv'
  <2>1. UNCHANGED <<settling, fg>> /\ ~Finalizing
    BY <1>10 DEF CommandRun, LoopAt, inputVars, Finalizing
  <2> QED
    BY <2>1, SettlingElsewhere
<1>11. ASSUME StartPeers PROVE SettlingInv'
  <2>1. fg'.at = "created"
    BY <1>11 DEF StartPeers, NewTurn, NoTurn
  <2> QED
    BY <2>1 DEF SettlingInv
<1>12. ASSUME StartReady PROVE SettlingInv'
  <2>1. fg'.at = "created"
    BY <1>12 DEF StartReady, NewTurn, NoTurn
  <2> QED
    BY <2>1 DEF SettlingInv
<1>13. ASSUME ClaimOldest PROVE SettlingInv'
  <2>1. UNCHANGED <<settling, fg>> /\ ~Finalizing
    BY <1>13 DEF ClaimOldest, LoopAt, inputVars, Finalizing, Deciding
  <2> QED
    BY <2>1, SettlingElsewhere
<1>14. ASSUME NothingToClaim PROVE SettlingInv'
  <2>1. UNCHANGED <<settling, fg>> /\ ~Finalizing
    BY <1>14 DEF NothingToClaim, Open, inputVars, LoopAt, Finalizing
  <2> QED
    BY <2>1, SettlingElsewhere
<1>15. ASSUME Claim PROVE SettlingInv'
  <2>1. UNCHANGED <<settling, fg>> /\ ~Finalizing
    BY <1>15 DEF Claim, LoopAt, Finalizing
  <2> QED
    BY <2>1, SettlingElsewhere
<1>16. ASSUME Claimed PROVE SettlingInv'
  <2>1. fg'.at = "created"
    BY <1>16 DEF Claimed, NewTurn, NoTurn
  <2> QED
    BY <2>1 DEF SettlingInv
<1>17. ASSUME ClaimedTooLate PROVE SettlingInv'
  <2>1. UNCHANGED <<settling, fg>> /\ ~Finalizing
    BY <1>17 DEF ClaimedTooLate, Open, LoopAt, Finalizing
  <2> QED
    BY <2>1, SettlingElsewhere
<1>18. ASSUME Await PROVE SettlingInv'
  <2>1. UNCHANGED <<settling, fg>> /\ ~Finalizing
    BY <1>18 DEF Await, Open, inputVars, LoopAt, Finalizing
  <2> QED
    BY <2>1, SettlingElsewhere
<1>19. ASSUME Wake PROVE SettlingInv'
  <2>1. CASE "fg" \in Done /\ settling # << >>
    <3>1. main' = [main EXCEPT !.at = "finalize", !.done = Done, !.now = Head(settling)]
      BY <1>19, <2>1 DEF Wake
    <3>2. Head(settling).to = "main"
      BY <2>1, TailElements DEF Core, TypeOK, LoopTyped, CarriersInv, InterruptCarries
    <3>3. main'.at = "finalize" /\ main'.now = Head(settling)
      BY <3>1 DEF Core, TypeOK, LoopTyped, Loop
    <3> QED
      BY <3>2, <3>3 DEF SettlingInv, Finalizing
  <2>2. CASE "fg" \in Done /\ settling = << >>
    <3>1. settling' = << >>
      BY <1>19, <2>2 DEF Wake
    <3> QED
      BY <3>1 DEF SettlingInv
  <2>3. CASE "fg" \notin Done
    <3>1. UNCHANGED <<settling, fg>> /\ ~Finalizing
      BY <1>19, <2>3 DEF Wake, Finalizing
    <3> QED
      BY <3>1, SettlingElsewhere
  <2> QED
    BY <2>1, <2>2, <2>3
<1>20. ASSUME Accept PROVE SettlingInv'
  <2>1. UNCHANGED <<settling, fg>> /\ ~Finalizing
    BY <1>20 DEF Accept, inputVars, promptVars, arrivals, turnVars, Finalizing
  <2> QED
    BY <2>1, SettlingElsewhere
<1>21. ASSUME NothingForInterrupt PROVE SettlingInv'
  <2>1. main.at = "claimAll" /\ SameTurn
    BY <1>21, TurnHalts DEF NothingForInterrupt, Core, TypeOK, TurnTyped
  <2>2. settling' = settling \/ fg.at # "none"
    BY <1>21 DEF NothingForInterrupt, Apply, Hits, Active
  <2> QED
    BY <2>1, <2>2, SettlingElsewhere DEF SameTurn, Finalizing, SettlingInv
<1>22. ASSUME ClaimAll PROVE SettlingInv'
  <2>1. UNCHANGED <<settling, fg>> /\ ~Finalizing
    BY <1>22 DEF ClaimAll, LoopAt, Finalizing
  <2> QED
    BY <2>1, SettlingElsewhere
<1>23. ASSUME ClaimedAll PROVE SettlingInv'
  <2>1. main.at = "claimingAll" /\ SameTurn
    BY <1>23, TurnHalts DEF ClaimedAll, Core, TypeOK, TurnTyped
  <2>2. settling' = settling \/ fg.at # "none"
    BY <1>23 DEF ClaimedAll, Apply, Hits, Active
  <2> QED
    BY <2>1, <2>2, SettlingElsewhere DEF SameTurn, Finalizing, SettlingInv
<1>24. ASSUME Finalize PROVE SettlingInv'
  <2>1. UNCHANGED <<settling, fg>> /\ main'.now = main.now /\ main'.at = "barrier"
    BY <1>24 DEF Finalize, turnVars, Core, TypeOK, LoopTyped, Loop
  <2> QED
    BY <2>1, SettlingStays DEF Finalizing
<1>25. ASSUME Barrier PROVE SettlingInv'
  <2>1. main.at = "barrier" /\ fg' = fg
    BY <1>25 DEF Barrier
  <2>2. CASE fg.at # "none"
    BY <2>1, <2>2 DEF SettlingInv
  <2>3. CASE fg.at = "none" /\ settling = << >>
    <3>1. settling' = << >>
      BY <1>25, <2>3 DEF Barrier
    <3> QED
      BY <3>1 DEF SettlingInv
  <2>4. CASE fg.at = "none" /\ settling # << >>
    <3>1. main.now.to = "main" /\ main.now.to # "child"
      BY <2>4 DEF SettlingInv
    <3>2. main' = [main EXCEPT !.at = "finalize", !.place = 0, !.now = Head(settling)]
      BY <1>25, <2>4, <3>1 DEF Barrier
    <3>3. main'.at = "finalize" /\ main'.now = Head(settling)
      BY <3>2 DEF Core, TypeOK, LoopTyped, Loop
    <3>4. Head(settling).to = "main"
      BY <2>4, TailElements DEF Core, TypeOK, LoopTyped, CarriersInv, InterruptCarries
    <3> QED
      BY <3>3, <3>4 DEF SettlingInv, Finalizing
  <2> QED
    BY <2>2, <2>3, <2>4
<1>26. ASSUME Context PROVE SettlingInv'
  <2>1. UNCHANGED <<settling, fg>> /\ ~Finalizing
    BY <1>26 DEF Context, LoopAt, inputVars, Finalizing
  <2> QED
    BY <2>1, SettlingElsewhere
<1>27. ASSUME Submitted PROVE SettlingInv'
  <2>1. UNCHANGED <<settling, fg>> /\ ~Finalizing
    BY <1>27 DEF Submitted, LoopAt, inputVars, Finalizing
  <2> QED
    BY <2>1, SettlingElsewhere
<1>28. ASSUME Break PROVE SettlingInv'
  <2>1. UNCHANGED <<settling, fg>> /\ ~Finalizing
    BY <1>28 DEF Break, LoopAt, inputVars, Finalizing
  <2> QED
    BY <2>1, SettlingElsewhere
<1>29. ASSUME Record PROVE SettlingInv'
  <2>1. UNCHANGED <<settling, fg>> /\ ~Finalizing
    BY <1>29 DEF Record, inputVars, promptVars, arrivals, turnVars, Finalizing
  <2> QED
    BY <2>1, SettlingElsewhere
<1>30. ASSUME Stopped PROVE SettlingInv'
  <2>1. UNCHANGED <<settling, fg>> /\ ~Finalizing
    BY <1>30 DEF Stopped, LoopAt, inputVars, Finalizing
  <2> QED
    BY <2>1, SettlingElsewhere
<1>31. ASSUME Forward PROVE SettlingInv'
  <2>1. TurnAt("ended")
    BY <1>31 DEF Forward
  <2>2. fg'.at # "none"
    BY <2>1, TurnAtMoves DEF TurnPlaces, Core, TypeOK, TurnTyped
  <2> QED
    BY <2>2 DEF SettlingInv
<1>32. ASSUME StartTurn PROVE SettlingInv'
  <2>1. fg'.at # "none" /\ UNCHANGED <<main, settling>>
    BY <1>32 DEF StartTurn, TurnOnly, inputVars, promptVars, arrivals, loopVars, Core, TypeOK,
       TurnTyped, Turn
  <2> QED
    BY <2>1 DEF SettlingInv
<1>33. ASSUME StoreItems PROVE SettlingInv'
  <2>1. fg'.at # "none" /\ UNCHANGED <<main, settling>>
    BY <1>33 DEF StoreItems, TurnOnly, inputVars, promptVars, arrivals, loopVars, PublishCommit, Core,
       TypeOK, TurnTyped, Turn
  <2> QED
    BY <2>1 DEF SettlingInv
<1>34. ASSUME ItemCommitted PROVE SettlingInv'
  <2>1. fg'.at # "none" /\ UNCHANGED <<main, settling>>
    BY <1>34 DEF ItemCommitted, TurnOnly, inputVars, promptVars, arrivals, loopVars, PublishCommit,
       Core, TypeOK, TurnTyped, Turn
  <2> QED
    BY <2>1 DEF SettlingInv
<1>35. ASSUME Mark PROVE SettlingInv'
  <2>1. TurnAt("marking")
    BY <1>35 DEF Mark
  <2>2. fg'.at # "none"
    BY <2>1, TurnAtMoves DEF TurnPlaces, Core, TypeOK, TurnTyped
  <2> QED
    BY <2>2 DEF SettlingInv
<1>36. ASSUME Marked PROVE SettlingInv'
  <2>1. TurnAt("closing") \/ TurnAt("model")
    BY <1>36 DEF Marked
  <2>2. fg'.at # "none"
    BY <2>1, TurnAtMoves DEF TurnPlaces, Core, TypeOK, TurnTyped
  <2> QED
    BY <2>2 DEF SettlingInv
<1>37. ASSUME CallTools PROVE SettlingInv'
  <2>1. fg'.at # "none" /\ UNCHANGED <<main, settling>>
    BY <1>37 DEF CallTools, TurnOnly, inputVars, promptVars, arrivals, loopVars, Core, TypeOK,
       TurnTyped, Turn
  <2> QED
    BY <2>1 DEF SettlingInv
<1>38. ASSUME ToolsDone PROVE SettlingInv'
  <2>1. fg'.at # "none" /\ UNCHANGED <<main, settling>>
    BY <1>38 DEF ToolsDone, TurnOnly, inputVars, promptVars, arrivals, loopVars, Core, TypeOK,
       TurnTyped, Turn
  <2> QED
    BY <2>1 DEF SettlingInv
<1>39. ASSUME BoundaryPassed PROVE SettlingInv'
  <2>1. TurnAt("hook")
    BY <1>39 DEF BoundaryPassed
  <2>2. fg'.at # "none"
    BY <2>1, TurnAtMoves DEF TurnPlaces, Core, TypeOK, TurnTyped
  <2> QED
    BY <2>2 DEF SettlingInv
<1>40. ASSUME Proceed PROVE SettlingInv'
  <2>1. TurnAt("closing") \/ TurnAt("model")
    BY <1>40 DEF Proceed
  <2>2. fg'.at # "none"
    BY <2>1, TurnAtMoves DEF TurnPlaces, Core, TypeOK, TurnTyped
  <2> QED
    BY <2>2 DEF SettlingInv
<1>41. ASSUME Answer PROVE SettlingInv'
  <2>1. TurnAt("closing")
    BY <1>41 DEF Answer
  <2>2. fg'.at # "none"
    BY <2>1, TurnAtMoves DEF TurnPlaces, Core, TypeOK, TurnTyped
  <2> QED
    BY <2>2 DEF SettlingInv
<1>42. ASSUME CancelTurn PROVE SettlingInv'
  <2>1. TurnAt("closing") \/ TurnAt("ended")
    BY <1>42 DEF CancelTurn
  <2>2. fg'.at # "none"
    BY <2>1, TurnAtMoves DEF TurnPlaces, Core, TypeOK, TurnTyped
  <2> QED
    BY <2>2 DEF SettlingInv
<1>43. ASSUME EndTurn PROVE SettlingInv'
  <2>1. TurnAt("ended")
    BY <1>43 DEF EndTurn
  <2>2. fg'.at # "none"
    BY <2>1, TurnAtMoves DEF TurnPlaces, Core, TypeOK, TurnTyped
  <2> QED
    BY <2>2 DEF SettlingInv
<1>44. ChildStore \/ ChildMark \/ ChildMarked =>
        UNCHANGED <<main, fg, settling>>
  BY DEF ChildStore, ChildMark, ChildMarked, ChildOnly, inputVars, promptVars, arrivals,
         loopVars, turnVars
<1>45. Enter \/ Up \/ ChildStops \/ (\E p \in Peers : Arrive(p)) =>
        UNCHANGED <<main, fg, settling>>
  BY DEF Enter, Up, ChildStops, Arrive, Outside, inputVars, arrivals, loopVars, turnVars,
         RecallAt, ChildOnly, promptVars, Comes
<1>46. ASSUME Escape PROVE SettlingInv'
  <2>1. fg'.at = fg.at /\ UNCHANGED <<main, settling>>
    BY <1>46, TurnHalts DEF Core, TypeOK, TurnTyped, SameTurn, Escape, Outside, StopOn, inputVars,
       promptVars, loopVars, Comes
  <2> QED
    BY <2>1 DEF SettlingInv, Finalizing
<1>47. ASSUME Stop PROVE SettlingInv'
  <2>1. fg'.at = fg.at /\ UNCHANGED <<main, settling>>
    BY <1>47, TurnHalts DEF Core, TypeOK, TurnTyped, SameTurn, Stop, Outside, turnVars, StopOn,
       inputVars, loopVars, Comes
  <2> QED
    BY <2>1 DEF SettlingInv, Finalizing
<1>48. UNCHANGED vars => UNCHANGED <<main, fg, settling>>
  BY DEF vars, inputVars, promptVars, arrivals, loopVars, turnVars
<1> QED
  BY <1>1, <1>2, <1>3, <1>4, <1>5, <1>6, <1>7, <1>8, <1>9, <1>10, <1>11, <1>12, <1>13, <1>14,
     <1>15, <1>16, <1>17, <1>18, <1>19, <1>20, <1>21, <1>22, <1>23, <1>24, <1>25, <1>26, <1>27,
     <1>28, <1>29, <1>30, <1>31, <1>32, <1>33, <1>34, <1>35, <1>36, <1>37, <1>38, <1>39, <1>40,
     <1>41, <1>42, <1>43, <1>44, <1>45, <1>46, <1>47, <1>48
     DEF Next, Prompt, RecallStep, ArrivalStep, LoopStep, TurnStep, ChildStep, FromOutside, Rest

\* Which inputs are claimed in a step.
LEMMA ClaimedBefore ==
  ASSUME Core, InputMove, NEW i \in Inputs, entries'[i].status = "claimed"
  PROVE  entries[i].status = "claimed" \/ (Commits /\ lock.by = "loop" /\ i \in lock.ids)
<1>1. CASE entries' = entries
  BY <1>1
<1>2. CASE Commits
  <2>1. lock \in Holding /\ lock # Free
    BY <1>2, LockFits DEF Commits, Core, TypeOK
  <2>2. CASE i \notin lock.ids
    BY <1>2, <2>2 DEF Commits, After
  <2>3. CASE i \in lock.ids
    <3>1. lock.kind \in LockKinds /\ entries[i] \in Entry
      BY <2>1 DEF Holding, Core, TypeOK, InputTyped
    <3>2. lock.kind = "claimed"
      BY <1>2, <2>3, <3>1 DEF Commits, After, LockKinds, Entry
    <3>3. lock.by = "loop"
      BY <2>1, <3>2 DEF Core, LockInv, EditorLock, RecallLock, TurnLock, ChildLock, Transition, Holding,
         Owners
    <3> QED
      BY <1>2, <2>3, <3>3
  <2> QED
    BY <2>2, <2>3
<1> QED
  BY <1>1, <1>2 DEF InputMove, Begins, inputVars

\* What a turn has stays with it, or is stored, or given up.
LEMMA HandledGoesOn ==
  ASSUME Core, [Next]_vars, NEW i \in Inputs, Handled(i), early \subseteq early',
         child.at = "gone" => child'.at = "gone",
         i \in fg.ids => Handled(i)',
         (\E n \in 1..Len(child.queue) : i \in child.queue[n]) => Handled(i)'
  PROVE  Handled(i)'
<1>1. StoredGrows
  BY StoredStays DEF Core
<1> QED
  BY <1>1 DEF Handled, StoredGrows

\* What a turn has it keeps until it is marked.
LEMMA HandledStays ==
  ASSUME Core, ClaimInv, NEW i \in Inputs, entries'[i].status = "claimed", Handled(i), [Next]_vars
  PROVE  Handled(i)'
<1>1. UNCHANGED <<fg, early, child>> => Handled(i)'
  BY HandledGoesOn DEF Handled
<1>2. HubStep => UNCHANGED <<fg, early, child>>
  BY DEF HubStep, HubOnly, inputVars, promptVars, arrivals, loopVars, turnVars
<1>3. SubmitCommand \/ Retain \/ Retained \/ Admit =>
        UNCHANGED <<fg, early, child>>
  BY DEF SubmitCommand, Retain, Retained, Admit, EditorAt, inputVars, turnVars, arrivals,
         loopVars
<1>4. ASSUME Admitted PROVE Handled(i)'
  <2>1. fg'.ids = fg.ids /\ UNCHANGED <<early, child>>
    BY <1>4, TurnHalts DEF Core, TypeOK, TurnTyped, SameTurn, Admitted, EditorAt, arrivals, loopVars
  <2> QED
    BY <2>1, HandledGoesOn DEF Handled
<1>5. Recall \/ NothingToRecall \/ Recalled =>
        UNCHANGED <<fg, early, child>>
  BY DEF Recall, NothingToRecall, Recalled, RecallAt, inputVars, arrivals, loopVars, turnVars
<1>6. (\E x \in Escapes : RequestInterrupt(x)) \/ (\E p \in Peers : TakeIncoming(p)) =>
        UNCHANGED <<fg, early, child>>
  BY DEF RequestInterrupt, TakeIncoming, Comes, inputVars, promptVars, loopVars, turnVars
<1>7. ASSUME NEW x \in Escapes, QueueInterrupt(x) PROVE Handled(i)'
  <2>1. fg'.ids = fg.ids /\ UNCHANGED <<early, child>>
    BY <1>7, TurnHalts DEF Core, TypeOK, TurnTyped, SameTurn, QueueInterrupt, Comes, StopOn, inputVars,
       promptVars
  <2> QED
    BY <2>1, HandledGoesOn DEF Handled
<1>8. ASSUME NEW p \in Peers, QueueIncoming(p) PROVE Handled(i)'
  <2>1. fg'.ids = fg.ids /\ UNCHANGED <<early, child>>
    BY <1>8, TurnHalts DEF Core, TypeOK, TurnTyped, SameTurn, QueueIncoming, Comes, StopOn, inputVars,
       promptVars, loopVars
  <2> QED
    BY <2>1, HandledGoesOn DEF Handled
<1>9. RunCommand \/ CommandRun \/ ClaimOldest \/ NothingToClaim \/ Claim \/ ClaimedTooLate
        \/ Await \/ Accept \/ ClaimAll \/ Finalize \/ Barrier \/ Context \/ Submitted \/ Break
        \/ Record \/ Stopped =>
        UNCHANGED <<fg, early, child>>
  BY DEF RunCommand, CommandRun, ClaimOldest, NothingToClaim, Claim, ClaimedTooLate, Await,
         Accept, ClaimAll, Finalize, Barrier, Context, Submitted, Break, Record, Stopped, LoopAt,
         inputVars, Open, promptVars, arrivals, turnVars
<1>10. ASSUME StartPeers PROVE Handled(i)'
  <2>1. fg.ids = {} /\ UNCHANGED <<early, child>>
    BY <1>10 DEF StartPeers, LoopAt, Deciding, ClaimInv, Core, CarriersInv, TurnCarries
  <2> QED
    BY <2>1, HandledGoesOn DEF Handled
<1>11. ASSUME StartReady PROVE Handled(i)'
  <2>1. fg.ids = {} /\ UNCHANGED <<early, child>>
    BY <1>11 DEF StartReady, LoopAt, Deciding, ClaimInv, Core, CarriersInv, TurnCarries
  <2> QED
    BY <2>1, HandledGoesOn DEF Handled
<1>12. ASSUME Claimed PROVE Handled(i)'
  <2>1. fg.ids = {} /\ UNCHANGED <<early, child>>
    BY <1>12 DEF Claimed, LoopAt, Deciding, ClaimInv, Core, CarriersInv, TurnCarries
  <2> QED
    BY <2>1, HandledGoesOn DEF Handled
<1>13. ASSUME Wake PROVE Handled(i)'
  <2>1. (fg.ids = {} \/ fg' = fg) /\ UNCHANGED <<early, child>>
    BY <1>13 DEF Wake, Done, Core, CarriersInv, TurnCarries
  <2> QED
    BY <2>1, HandledGoesOn DEF Handled
<1>14. ASSUME NothingForInterrupt PROVE Handled(i)'
  <2>1. fg'.ids = fg.ids /\ UNCHANGED <<early, child>>
    BY <1>14, TurnHalts DEF Core, TypeOK, TurnTyped, SameTurn, NothingForInterrupt, Apply, inputVars,
       promptVars, arrivals
  <2> QED
    BY <2>1, HandledGoesOn DEF Handled
<1>15. ASSUME ClaimedAll PROVE Handled(i)'
  <2>1. fg'.ids = fg.ids /\ UNCHANGED <<early, child>>
    BY <1>15, TurnHalts DEF Core, TypeOK, TurnTyped, SameTurn, ClaimedAll, Apply, promptVars, arrivals
  <2> QED
    BY <2>1, HandledGoesOn DEF Handled
<1>16. ASSUME Forward PROVE Handled(i)'
  <2>1. UNCHANGED early /\ (child.at = "gone" => child' = child)
    BY <1>16 DEF Forward
  <2>2. child.at = "gone" \/ child'.queue = Append(child.queue, fg.ids)
    BY <1>16 DEF Forward, Core, TypeOK, Child
  <2>3. fg.ids \in SUBSET Inputs /\ child.queue \in Seq(SUBSET Inputs)
    BY DEF Core, TypeOK, TurnTyped, Turn, Child
  <2>4. CASE child.at = "gone"
    BY <2>1, <2>4 DEF Handled
  <2>5. CASE child'.queue = Append(child.queue, fg.ids)
    <3>1. /\ \A n \in 1..Len(child.queue) :
            /\ n \in 1..Len(child'.queue) /\ child'.queue[n] = child.queue[n]
          /\ Len(child.queue) + 1 \in 1..Len(child'.queue) /\ child'.queue[Len(child.queue) + 1] = fg.ids
      BY <2>3, <2>5, AppendElements
    <3>2. i \in fg.ids => \E n \in 1..Len(child'.queue) : i \in child'.queue[n]
      BY <3>1
    <3>3. (\E n \in 1..Len(child.queue) : i \in child.queue[n])
          => \E n \in 1..Len(child'.queue) : i \in child'.queue[n]
      BY <3>1
    <3> QED
      BY <2>1, <3>2, <3>3, HandledGoesOn DEF Handled
  <2> QED
    BY <2>2, <2>4, <2>5
<1>17. ASSUME StartTurn PROVE Handled(i)'
  <2>1. fg'.ids = fg.ids /\ UNCHANGED <<early, child>>
    BY <1>17 DEF StartTurn, TurnOnly, inputVars, promptVars, arrivals, loopVars, Core, TypeOK,
       TurnTyped, Turn
  <2> QED
    BY <2>1, HandledGoesOn DEF Handled
<1>18. ASSUME StoreItems PROVE Handled(i)'
  <2>1. fg'.ids = fg.ids /\ UNCHANGED <<early, child>>
    BY <1>18 DEF StoreItems, TurnOnly, inputVars, promptVars, arrivals, loopVars, PublishCommit, Core,
       TypeOK, TurnTyped, Turn
  <2> QED
    BY <2>1, HandledGoesOn DEF Handled
<1>19. ASSUME ItemCommitted PROVE Handled(i)'
  <2>1. fg'.ids = fg.ids /\ UNCHANGED <<early, child>>
    BY <1>19 DEF ItemCommitted, TurnOnly, inputVars, promptVars, arrivals, loopVars, PublishCommit,
       Core, TypeOK, TurnTyped, Turn
  <2> QED
    BY <2>1, HandledGoesOn DEF Handled
<1>20. ASSUME Mark PROVE Handled(i)'
  <2>1. fg'.ids = fg.ids /\ UNCHANGED <<early, child>>
    <3>1. TurnAt("marking") /\ UNCHANGED <<early, child>>
      BY <1>20 DEF Mark
    <3> QED
      BY <3>1, TurnAtMoves DEF TurnPlaces, Core, TypeOK, TurnTyped
  <2> QED
    BY <2>1, HandledGoesOn DEF Handled
<1>21. ASSUME Marked PROVE Handled(i)'
  <2>1. i \in fg.ids => Stored(i)
    BY <1>21 DEF Marked, Core, CarriersInv, TurnCarries, AfterStore
  <2>2. UNCHANGED <<early, child>>
    BY <1>21 DEF Marked
  <2>3. Stored(i) => Stored(i)'
    BY StoredStays DEF Core, StoredGrows
  <2> QED
    BY <2>1, <2>2, <2>3, HandledGoesOn DEF Handled
<1>22. ASSUME CallTools PROVE Handled(i)'
  <2>1. fg'.ids = fg.ids /\ UNCHANGED <<early, child>>
    BY <1>22 DEF CallTools, TurnOnly, inputVars, promptVars, arrivals, loopVars, Core, TypeOK,
       TurnTyped, Turn
  <2> QED
    BY <2>1, HandledGoesOn DEF Handled
<1>23. ASSUME ToolsDone PROVE Handled(i)'
  <2>1. fg'.ids = fg.ids /\ UNCHANGED <<early, child>>
    BY <1>23 DEF ToolsDone, TurnOnly, inputVars, promptVars, arrivals, loopVars, Core, TypeOK,
       TurnTyped, Turn
  <2> QED
    BY <2>1, HandledGoesOn DEF Handled
<1>24. ASSUME BoundaryPassed PROVE Handled(i)'
  <2>1. fg'.ids = fg.ids /\ UNCHANGED <<early, child>>
    <3>1. TurnAt("hook") /\ UNCHANGED <<early, child>>
      BY <1>24 DEF BoundaryPassed
    <3> QED
      BY <3>1, TurnAtMoves DEF TurnPlaces, Core, TypeOK, TurnTyped
  <2> QED
    BY <2>1, HandledGoesOn DEF Handled
<1>25. ASSUME Proceed PROVE Handled(i)'
  <2>1. i \in fg.ids => Stored(i)
    BY <1>25 DEF Proceed, Core, CarriersInv, TurnCarries, AfterStore
  <2>2. UNCHANGED <<early, child>>
    BY <1>25 DEF Proceed
  <2>3. Stored(i) => Stored(i)'
    BY StoredStays DEF Core, StoredGrows
  <2> QED
    BY <2>1, <2>2, <2>3, HandledGoesOn DEF Handled
<1>26. ASSUME Answer PROVE Handled(i)'
  <2>1. i \in fg.ids => Stored(i)
    BY <1>26 DEF Answer, Core, CarriersInv, TurnCarries, AfterStore
  <2>2. UNCHANGED <<early, child>>
    BY <1>26 DEF Answer
  <2>3. Stored(i) => Stored(i)'
    BY StoredStays DEF Core, StoredGrows
  <2> QED
    BY <2>1, <2>2, <2>3, HandledGoesOn DEF Handled
<1>27. ASSUME CancelTurn PROVE Handled(i)'
  <2>1. i \in fg.ids => Stored(i) \/ i \in early'
    BY <1>27 DEF CancelTurn, Core, CarriersInv, TurnCarries, AfterStore
  <2>2. early \subseteq early' /\ UNCHANGED child
    BY <1>27 DEF CancelTurn
  <2>3. Stored(i) => Stored(i)'
    BY StoredStays DEF Core, StoredGrows
  <2> QED
    BY <2>1, <2>2, <2>3, HandledGoesOn DEF Handled
<1>28. ASSUME EndTurn PROVE Handled(i)'
  <2>1. fg.ids = {} /\ UNCHANGED <<early, child>>
    BY <1>28 DEF EndTurn, Core, CarriersInv, TurnCarries
  <2> QED
    BY <2>1, HandledGoesOn DEF Handled
<1>29. ASSUME ChildStore PROVE Handled(i)'
  <2>1. child'.queue = child.queue /\ child.at # "gone" /\ UNCHANGED <<early, fg>>
    BY <1>29 DEF ChildStore, ChildOnly, inputVars, promptVars, arrivals, loopVars, turnVars, Core,
       TypeOK, Child
  <2> QED
    BY <2>1, HandledGoesOn DEF Handled
<1>30. ASSUME ChildMark PROVE Handled(i)'
  <2>1. child'.queue = child.queue /\ child.at # "gone" /\ UNCHANGED <<early, fg>>
    BY <1>30 DEF ChildMark, ChildOnly, promptVars, arrivals, loopVars, turnVars, Core, TypeOK, Child
  <2> QED
    BY <2>1, HandledGoesOn DEF Handled
<1>31. ASSUME ChildMarked PROVE Handled(i)'
  <2>1. child'.queue = Tail(child.queue) /\ child.queue # << >> /\ child.at # "gone"
        /\ UNCHANGED <<early, fg>>
    BY <1>31 DEF ChildMarked, ChildOnly, turnVars, Core, LockInv, ChildLock
  <2>2. child.queue \in Seq(SUBSET Inputs)
    BY DEF Core, TypeOK, Child
  <2>3. /\ Head(child.queue) = child.queue[1]
        /\ \A n \in 1..Len(child.queue) :
             n = 1 \/ (n - 1 \in 1..Len(child'.queue) /\ child'.queue[n - 1] = child.queue[n])
    BY <2>1, <2>2, TailElements
  <2>4. lock.by = "child" /\ Commits
    BY <1>31, InputActions
  <2>5. lock.kind = "delivered" /\ lock.ids = Head(child.queue)
    BY <2>4 DEF Core, LockInv, ChildLock
  <2>6. i \in lock.ids => entries'[i].status = "delivered"
    BY <2>4, <2>5 DEF Commits, After, Core, TypeOK, InputTyped, Entry
  <2>7. i \notin child.queue[1]
    BY <2>3, <2>5, <2>6
  <2>8. (\E n \in 1..Len(child.queue) : i \in child.queue[n])
        => \E n \in 1..Len(child'.queue) : i \in child'.queue[n]
    BY <2>3, <2>7
  <2> QED
    BY <2>1, <2>8, HandledGoesOn DEF Handled
<1>32. Enter \/ Up \/ (\E p \in Peers : Arrive(p)) =>
        UNCHANGED <<fg, early, child>>
  BY DEF Enter, Up, Arrive, Outside, inputVars, arrivals, loopVars, turnVars, RecallAt,
         promptVars, Comes
<1>33. ASSUME Escape PROVE Handled(i)'
  <2>1. fg'.ids = fg.ids /\ UNCHANGED <<early, child>>
    BY <1>33, TurnHalts DEF Core, TypeOK, TurnTyped, SameTurn, Escape, Outside, StopOn, inputVars,
       promptVars, loopVars, Comes
  <2> QED
    BY <2>1, HandledGoesOn DEF Handled
<1>34. ASSUME Stop PROVE Handled(i)'
  <2>1. fg'.ids = fg.ids /\ UNCHANGED <<early, child>>
    BY <1>34, TurnHalts DEF Core, TypeOK, TurnTyped, SameTurn, Stop, Outside, turnVars, StopOn,
       inputVars, loopVars, Comes
  <2> QED
    BY <2>1, HandledGoesOn DEF Handled
<1>35. ASSUME ChildStops PROVE Handled(i)'
  <2>1. child'.at = "gone"
    BY <1>35 DEF ChildStops, Core, TypeOK, Child
  <2> QED
    BY <2>1 DEF Handled
<1>36. UNCHANGED vars => UNCHANGED <<fg, early, child>>
  BY DEF vars, inputVars, promptVars, arrivals, loopVars, turnVars
<1> QED
  BY <1>1, <1>2, <1>3, <1>4, <1>5, <1>6, <1>7, <1>8, <1>9, <1>10, <1>11, <1>12, <1>13, <1>14,
     <1>15, <1>16, <1>17, <1>18, <1>19, <1>20, <1>21, <1>22, <1>23, <1>24, <1>25, <1>26, <1>27,
     <1>28, <1>29, <1>30, <1>31, <1>32, <1>33, <1>34, <1>35, <1>36
     DEF Next, Prompt, RecallStep, ArrivalStep, LoopStep, TurnStep, ChildStep, FromOutside, Rest

\* The loop does something else than finalize an interrupt.
LEMMA WaitingStays ==
  ASSUME NEW i, Waiting(i), UNCHANGED <<ready, settling>>,
         Finalizing => Finalizing' /\ main'.now = main.now
  PROVE  Waiting(i)'
  BY DEF Waiting

\* What waits for a turn waits on, or the turn has it.
LEMMA WaitingMoves ==
  ASSUME Core, SettlingInv, NEW i \in Inputs, Waiting(i), [Next]_vars
  PROVE  Waiting(i)' \/ i \in fg'.ids
<1>1. UNCHANGED <<main, ready, settling>> => Waiting(i)' \/ i \in fg'.ids
  BY WaitingStays DEF Finalizing
<1>2. HubStep => UNCHANGED <<main, ready, settling>>
  BY DEF HubStep, HubOnly, inputVars, promptVars, arrivals, loopVars, turnVars
<1>3. SubmitCommand \/ Retain \/ Retained \/ Admit \/ Admitted =>
        UNCHANGED <<main, ready, settling>>
  BY DEF SubmitCommand, Retain, Retained, Admit, Admitted, EditorAt, inputVars, turnVars,
         arrivals, loopVars
<1>4. Recall \/ NothingToRecall \/ Recalled =>
        UNCHANGED <<main, ready, settling>>
  BY DEF Recall, NothingToRecall, Recalled, RecallAt, inputVars, arrivals, loopVars, turnVars
<1>5. (\E x \in Escapes : RequestInterrupt(x)) \/ (\E x \in Escapes : QueueInterrupt(x))
        \/ (\E p \in Peers : QueueIncoming(p)) \/ (\E p \in Peers : TakeIncoming(p)) =>
        UNCHANGED <<main, ready, settling>>
  BY DEF RequestInterrupt, QueueInterrupt, QueueIncoming, TakeIncoming, Comes, inputVars,
         promptVars, loopVars, turnVars, StopOn
<1>6. ASSUME RunCommand PROVE Waiting(i)' \/ i \in fg'.ids
  <2>1. UNCHANGED <<ready, settling>> /\ ~Finalizing
    BY <1>6 DEF RunCommand, LoopAt, inputVars, Finalizing, Deciding
  <2> QED
    BY <2>1, WaitingStays
<1>7. ASSUME CommandRun PROVE Waiting(i)' \/ i \in fg'.ids
  <2>1. UNCHANGED <<ready, settling>> /\ ~Finalizing
    BY <1>7 DEF CommandRun, LoopAt, inputVars, Finalizing
  <2> QED
    BY <2>1, WaitingStays
<1>8. ASSUME StartPeers PROVE Waiting(i)' \/ i \in fg'.ids
  <2>1. UNCHANGED <<ready, settling>> /\ ~Finalizing
    BY <1>8 DEF StartPeers, LoopAt, inputVars, Finalizing, Deciding
  <2> QED
    BY <2>1, WaitingStays
<1>9. ASSUME StartReady PROVE Waiting(i)' \/ i \in fg'.ids
  <2>1. settling' = settling /\ ~Finalizing /\ ready # << >> /\ ready' = Tail(ready)
    BY <1>9 DEF StartReady, Deciding, Finalizing, LoopAt
  <2>2. /\ Head(ready) = ready[1] /\ Head(ready) \in Claims
        /\ \A n \in 1..Len(ready) : n = 1 \/ (n - 1 \in 1..Len(ready') /\ ready'[n - 1] = ready[n])
    BY <2>1, TailElements DEF Core, TypeOK
  <2>3. fg'.ids = ready[1].ids
    <3>1. fg' = NewTurn(Head(ready).ids, Head(ready).to, Head(ready).items)
      BY <1>9 DEF StartReady
    <3> QED
      BY <2>2, <3>1, NewTurnType DEF Claims
  <2>4. (\E n \in 1..Len(ready) : i \in ready[n].ids) =>
          i \in fg'.ids \/ \E n \in 1..Len(ready') : i \in ready'[n].ids
    BY <2>2, <2>3
  <2> QED
    BY <2>1, <2>4 DEF Waiting
<1>10. ASSUME ClaimOldest PROVE Waiting(i)' \/ i \in fg'.ids
  <2>1. UNCHANGED <<ready, settling>> /\ ~Finalizing
    BY <1>10 DEF ClaimOldest, LoopAt, inputVars, Finalizing, Deciding
  <2> QED
    BY <2>1, WaitingStays
<1>11. ASSUME NothingToClaim PROVE Waiting(i)' \/ i \in fg'.ids
  <2>1. UNCHANGED <<ready, settling>> /\ ~Finalizing
    BY <1>11 DEF NothingToClaim, Open, inputVars, LoopAt, Finalizing
  <2> QED
    BY <2>1, WaitingStays
<1>12. ASSUME Claim PROVE Waiting(i)' \/ i \in fg'.ids
  <2>1. UNCHANGED <<ready, settling>> /\ ~Finalizing
    BY <1>12 DEF Claim, LoopAt, Finalizing
  <2> QED
    BY <2>1, WaitingStays
<1>13. ASSUME Claimed PROVE Waiting(i)' \/ i \in fg'.ids
  <2>1. UNCHANGED <<ready, settling>> /\ ~Finalizing
    BY <1>13 DEF Claimed, LoopAt, Finalizing
  <2> QED
    BY <2>1, WaitingStays
<1>14. ASSUME ClaimedTooLate PROVE Waiting(i)' \/ i \in fg'.ids
  <2>1. UNCHANGED <<ready, settling>> /\ ~Finalizing
    BY <1>14 DEF ClaimedTooLate, Open, LoopAt, Finalizing
  <2> QED
    BY <2>1, WaitingStays
<1>15. ASSUME Await PROVE Waiting(i)' \/ i \in fg'.ids
  <2>1. UNCHANGED <<ready, settling>> /\ ~Finalizing
    BY <1>15 DEF Await, Open, inputVars, LoopAt, Finalizing
  <2> QED
    BY <2>1, WaitingStays
<1>16. ASSUME Wake PROVE Waiting(i)' \/ i \in fg'.ids
  <2>1. CASE "fg" \in Done /\ settling # << >>
    <3>1. main' = [main EXCEPT !.at = "finalize", !.done = Done, !.now = Head(settling)]
          /\ settling' = Tail(settling) /\ ready' = ready /\ ~Finalizing
      BY <1>16, <2>1 DEF Wake, Finalizing
    <3>2. main'.at = "finalize" /\ main'.now = Head(settling)
      BY <3>1 DEF Core, TypeOK, LoopTyped, Loop
    <3>3. /\ Head(settling) = settling[1]
          /\ \A n \in 1..Len(settling) : n = 1 \/ (n - 1 \in 1..Len(settling')
               /\ settling'[n - 1] = settling[n])
      BY <2>1, <3>1, TailElements DEF Core, TypeOK, LoopTyped
    <3>4. (\E n \in 1..Len(settling) : i \in settling[n].ids) =>
            i \in main'.now.ids \/ \E n \in 1..Len(settling') : i \in settling'[n].ids
      BY <3>2, <3>3
    <3> QED
      BY <3>1, <3>2, <3>4 DEF Waiting, Finalizing
  <2>2. CASE ~("fg" \in Done /\ settling # << >>)
    <3>1. UNCHANGED <<ready, settling>> /\ ~Finalizing
      BY <1>16, <2>2 DEF Wake, Finalizing
    <3> QED
      BY <3>1, WaitingStays
  <2> QED
    BY <2>1, <2>2
<1>17. ASSUME Accept PROVE Waiting(i)' \/ i \in fg'.ids
  <2>1. UNCHANGED <<ready, settling>> /\ ~Finalizing
    BY <1>17 DEF Accept, inputVars, promptVars, arrivals, turnVars, Finalizing
  <2> QED
    BY <2>1, WaitingStays
<1>18. ASSUME NothingForInterrupt PROVE Waiting(i)' \/ i \in fg'.ids
  <2>1. ready' = ready /\ ~Finalizing /\ Apply({})
    BY <1>18 DEF NothingForInterrupt, Apply, Finalizing
  <2>2. {} \in SUBSET Inputs
    BY <1>18, InputActions DEF Core, LockInv, LoopLock, Pending
  <2>3. settling \in Seq(Interrupts) /\ main.now \in Interrupts
    BY DEF Core, TypeOK, LoopTyped, Loop
  <2>4. settling' = settling \/ \E now \in Interrupts : settling' = Append(settling, now)
    BY <2>1, <2>2, <2>3 DEF Apply, Interrupts
  <2>5. \A n \in 1..Len(settling) : n \in 1..Len(settling') /\ settling'[n] = settling[n]
    BY <2>3, <2>4, AppendElements
  <2> QED
    BY <2>1, <2>5 DEF Waiting
<1>19. ASSUME ClaimAll PROVE Waiting(i)' \/ i \in fg'.ids
  <2>1. UNCHANGED <<ready, settling>> /\ ~Finalizing
    BY <1>19 DEF ClaimAll, LoopAt, Finalizing
  <2> QED
    BY <2>1, WaitingStays
<1>20. ASSUME ClaimedAll PROVE Waiting(i)' \/ i \in fg'.ids
  <2>1. ready' = ready /\ ~Finalizing /\ Apply(lock.ids)
    BY <1>20 DEF ClaimedAll, Apply, Finalizing
  <2>2. lock.ids \in SUBSET Inputs
    BY <1>20, InputActions DEF Core, LockInv, LoopLock, Pending
  <2>3. settling \in Seq(Interrupts) /\ main.now \in Interrupts
    BY DEF Core, TypeOK, LoopTyped, Loop
  <2>4. settling' = settling \/ \E now \in Interrupts : settling' = Append(settling, now)
    BY <2>1, <2>2, <2>3 DEF Apply, Interrupts
  <2>5. \A n \in 1..Len(settling) : n \in 1..Len(settling') /\ settling'[n] = settling[n]
    BY <2>3, <2>4, AppendElements
  <2> QED
    BY <2>1, <2>5 DEF Waiting
<1>21. ASSUME Finalize PROVE Waiting(i)' \/ i \in fg'.ids
  <2>1. UNCHANGED <<ready, settling>> /\ main'.now = main.now /\ main'.at = "barrier"
    BY <1>21 DEF Finalize, Core, TypeOK, LoopTyped, Loop
  <2> QED
    BY <2>1, WaitingStays DEF Finalizing
<1>22. ASSUME Barrier PROVE Waiting(i)' \/ i \in fg'.ids
  <2>1. PICK items \in Seq(Items) :
          ready' = (IF main.now.ids = {} THEN ready
                    ELSE Append(ready, [ids |-> main.now.ids, to |-> main.now.to, items |-> items]))
    BY <1>22, BarrierGives DEF Core
  <2>2. main.now \in Interrupts /\ ready \in Seq(Claims) /\ settling \in Seq(Interrupts)
    BY DEF Core, TypeOK, LoopTyped, Loop
  <2> DEFINE e == [ids |-> main.now.ids, to |-> main.now.to, items |-> items]
  <2>3. e \in Claims /\ e.ids = main.now.ids
    BY <2>2 DEF Claims, Interrupts
  <2>4. main.now.ids # {} => ready' = Append(ready, e)
    BY <2>1
  <2> HIDE DEF e
  <2>5. /\ \A n \in 1..Len(ready) : n \in 1..Len(ready') /\ ready'[n] = ready[n]
        /\ main.now.ids # {} => \E n \in 1..Len(ready') : ready'[n] = e
    BY <2>1, <2>2, <2>3, <2>4, AppendElements
  <2>6. i \in main.now.ids => \E n \in 1..Len(ready') : i \in ready'[n].ids
    BY <2>3, <2>5
  <2>7. (\E n \in 1..Len(settling) : i \in settling[n].ids) =>
          (Finalizing' /\ i \in main'.now.ids) \/ \E n \in 1..Len(settling') : i \in settling'[n].ids
    <3>1. CASE settling # << >> /\ fg.at = "none"
      <4>1. main.now.to # "child"
        BY <3>1 DEF SettlingInv
      <4>2. main' = [main EXCEPT !.at = "finalize", !.place = 0, !.now = Head(settling)]
            /\ settling' = Tail(settling)
        BY <1>22, <3>1, <4>1 DEF Barrier
      <4>3. main'.at = "finalize" /\ main'.now = Head(settling)
        BY <4>2 DEF Core, TypeOK, LoopTyped, Loop
      <4>4. /\ Head(settling) = settling[1]
            /\ \A n \in 1..Len(settling) : n = 1 \/ (n - 1 \in 1..Len(settling')
                 /\ settling'[n - 1] = settling[n])
        BY <2>2, <3>1, <4>2, TailElements
      <4> QED
        BY <4>3, <4>4 DEF Finalizing
    <3>2. CASE ~(settling # << >> /\ fg.at = "none")
      <4>1. settling' = settling
        BY <1>22, <3>2 DEF Barrier
      <4> QED
        BY <4>1
    <3> QED
      BY <3>1, <3>2
  <2> QED
    BY <2>5, <2>6, <2>7 DEF Waiting
<1>23. ASSUME Context PROVE Waiting(i)' \/ i \in fg'.ids
  <2>1. UNCHANGED <<ready, settling>> /\ ~Finalizing
    BY <1>23 DEF Context, LoopAt, inputVars, Finalizing
  <2> QED
    BY <2>1, WaitingStays
<1>24. ASSUME Submitted PROVE Waiting(i)' \/ i \in fg'.ids
  <2>1. UNCHANGED <<ready, settling>> /\ ~Finalizing
    BY <1>24 DEF Submitted, LoopAt, inputVars, Finalizing
  <2> QED
    BY <2>1, WaitingStays
<1>25. ASSUME Break PROVE Waiting(i)' \/ i \in fg'.ids
  <2>1. UNCHANGED <<ready, settling>> /\ ~Finalizing
    BY <1>25 DEF Break, LoopAt, inputVars, Finalizing
  <2> QED
    BY <2>1, WaitingStays
<1>26. ASSUME Record PROVE Waiting(i)' \/ i \in fg'.ids
  <2>1. UNCHANGED <<ready, settling>> /\ ~Finalizing
    BY <1>26 DEF Record, inputVars, promptVars, arrivals, turnVars, Finalizing
  <2> QED
    BY <2>1, WaitingStays
<1>27. ASSUME Stopped PROVE Waiting(i)' \/ i \in fg'.ids
  <2>1. UNCHANGED <<ready, settling>> /\ ~Finalizing
    BY <1>27 DEF Stopped, LoopAt, inputVars, Finalizing
  <2> QED
    BY <2>1, WaitingStays
<1>28. Forward \/ StartTurn \/ StoreItems \/ ItemCommitted \/ Mark \/ Marked \/ CallTools
        \/ ToolsDone \/ BoundaryPassed \/ Proceed \/ Answer \/ CancelTurn \/ EndTurn =>
        UNCHANGED <<main, ready, settling>>
  BY DEF Forward, StartTurn, StoreItems, ItemCommitted, Mark, Marked, CallTools, ToolsDone,
         BoundaryPassed, Proceed, Answer, CancelTurn, EndTurn, TurnAt, inputVars, TurnOnly,
         promptVars, arrivals, loopVars
<1>29. ChildStore \/ ChildMark \/ ChildMarked =>
        UNCHANGED <<main, ready, settling>>
  BY DEF ChildStore, ChildMark, ChildMarked, ChildOnly, inputVars, promptVars, arrivals,
         loopVars, turnVars
<1>30. Enter \/ Up \/ Escape \/ Stop \/ ChildStops \/ (\E p \in Peers : Arrive(p)) =>
        UNCHANGED <<main, ready, settling>>
  BY DEF Enter, Up, Escape, Stop, ChildStops, Arrive, Outside, inputVars, arrivals, loopVars,
         turnVars, RecallAt, StopOn, promptVars, ChildOnly, Comes
<1>31. UNCHANGED vars => UNCHANGED <<main, ready, settling>>
  BY DEF vars, inputVars, promptVars, arrivals, loopVars, turnVars
<1> QED
  BY <1>1, <1>2, <1>3, <1>4, <1>5, <1>6, <1>7, <1>8, <1>9, <1>10, <1>11, <1>12, <1>13, <1>14,
     <1>15, <1>16, <1>17, <1>18, <1>19, <1>20, <1>21, <1>22, <1>23, <1>24, <1>25, <1>26, <1>27,
     <1>28, <1>29, <1>30, <1>31
     DEF Next, Prompt, RecallStep, ArrivalStep, LoopStep, TurnStep, ChildStep, FromOutside, Rest

\* What the loop has claimed goes to a turn, or waits for one.
LEMMA ClaimsTaken ==
  ASSUME Core, Commits, lock.by = "loop", NEW i \in lock.ids, stop' = "none", [Next]_vars
  PROVE  Waiting(i)' \/ i \in fg'.ids
<1>1. UNCHANGED <<lock>> => Waiting(i)' \/ i \in fg'.ids
  BY DEF Commits
<1>2. HubStep => UNCHANGED <<lock>>
  BY DEF HubStep, HubOnly, inputVars, promptVars, arrivals, loopVars, turnVars
<1>3. SubmitCommand \/ Retain \/ Retained =>
        UNCHANGED <<lock>>
  BY DEF SubmitCommand, Retain, Retained, EditorAt, inputVars, turnVars, arrivals, loopVars
<1>4. ASSUME Admit PROVE Waiting(i)' \/ i \in fg'.ids
  BY <1>4, InputActions DEF Begins, Commits
<1>5. ASSUME Admitted PROVE Waiting(i)' \/ i \in fg'.ids
  BY <1>5, InputActions
<1>6. NothingToRecall =>
        UNCHANGED <<lock>>
  BY DEF NothingToRecall, RecallAt, inputVars, arrivals, loopVars, turnVars
<1>7. ASSUME Recall PROVE Waiting(i)' \/ i \in fg'.ids
  BY <1>7, InputActions DEF Begins, Commits
<1>8. ASSUME Recalled PROVE Waiting(i)' \/ i \in fg'.ids
  BY <1>8, InputActions
<1>9. (\E x \in Escapes : RequestInterrupt(x)) \/ (\E x \in Escapes : QueueInterrupt(x))
        \/ (\E p \in Peers : QueueIncoming(p)) \/ (\E p \in Peers : TakeIncoming(p)) =>
        UNCHANGED <<lock>>
  BY DEF RequestInterrupt, QueueInterrupt, QueueIncoming, TakeIncoming, Comes, inputVars,
         promptVars, loopVars, turnVars, StopOn
<1>10. RunCommand \/ CommandRun \/ StartPeers \/ StartReady \/ ClaimOldest \/ NothingToClaim
        \/ Await \/ Wake \/ Accept \/ NothingForInterrupt \/ Finalize \/ Barrier \/ Context
        \/ Submitted \/ Break \/ Record \/ Stopped =>
        UNCHANGED <<lock>>
  BY DEF RunCommand, CommandRun, StartPeers, StartReady, ClaimOldest, NothingToClaim, Await,
         Wake, Accept, NothingForInterrupt, Finalize, Barrier, Context, Submitted, Break, Record,
         Stopped, LoopAt, inputVars, Open, promptVars, arrivals, turnVars, Apply
<1>11. ASSUME Claim PROVE Waiting(i)' \/ i \in fg'.ids
  BY <1>11, InputActions DEF Begins, Commits
<1>12. ASSUME Claimed PROVE Waiting(i)' \/ i \in fg'.ids
  <2>1. PICK items \in Seq(Items) : fg' = NewTurn(lock.ids, lock.to, items)
    BY <1>12, OldestGiven DEF Core
  <2>2. lock.ids \in SUBSET Inputs /\ lock.to \in Agents
    BY DEF Commits, Core, TypeOK, InputTyped, Holding
  <2> QED
    BY <2>1, <2>2, NewTurnType
<1>13. ASSUME ClaimedTooLate PROVE Waiting(i)' \/ i \in fg'.ids
  <2>1. stop = "eof" /\ stop' = stop
    BY <1>13 DEF ClaimedTooLate, Open, LoopAt
  <2> QED
    BY <2>1
<1>14. ASSUME ClaimAll PROVE Waiting(i)' \/ i \in fg'.ids
  BY <1>14, InputActions DEF Begins, Commits
<1>15. ASSUME ClaimedAll PROVE Waiting(i)' \/ i \in fg'.ids
  <2>1. Apply(lock.ids) /\ settling \in Seq(Interrupts) /\ main \in Loop
    BY <1>15 DEF ClaimedAll, Core, TypeOK, LoopTyped
  <2> DEFINE now == [main.now EXCEPT !.ids = lock.ids]
  <2>2. now \in Interrupts /\ now.ids = lock.ids
    BY <2>1 DEF Commits, Core, TypeOK, InputTyped, Holding, Loop, Interrupts
  <2>3. settling' = Append(settling, now) \/ main' = [main EXCEPT !.at = "finalize", !.now = now]
    BY <2>1 DEF Apply
  <2> HIDE DEF now
  <2>4. CASE settling' = Append(settling, now)
    <3>1. Len(settling) + 1 \in 1..Len(settling') /\ settling'[Len(settling) + 1] = now
      BY <2>1, <2>2, <2>4, AppendElements
    <3> QED
      BY <2>2, <3>1 DEF Waiting
  <2>5. CASE main' = [main EXCEPT !.at = "finalize", !.now = now]
    <3>1. main'.at = "finalize" /\ main'.now = now
      BY <2>1, <2>5 DEF Loop
    <3> QED
      BY <2>2, <3>1 DEF Waiting, Finalizing
  <2> QED
    BY <2>3, <2>4, <2>5
<1>16. Forward \/ StartTurn \/ StoreItems \/ ItemCommitted \/ CallTools \/ ToolsDone
        \/ BoundaryPassed \/ Proceed \/ Answer \/ CancelTurn \/ EndTurn =>
        UNCHANGED <<lock>>
  BY DEF Forward, StartTurn, StoreItems, ItemCommitted, CallTools, ToolsDone, BoundaryPassed,
         Proceed, Answer, CancelTurn, EndTurn, TurnAt, inputVars, TurnOnly, promptVars, arrivals,
         loopVars
<1>17. ASSUME Mark PROVE Waiting(i)' \/ i \in fg'.ids
  BY <1>17, InputActions DEF Begins, Commits
<1>18. ASSUME Marked PROVE Waiting(i)' \/ i \in fg'.ids
  BY <1>18, InputActions
<1>19. ChildStore =>
        UNCHANGED <<lock>>
  BY DEF ChildStore, ChildOnly, inputVars, promptVars, arrivals, loopVars, turnVars
<1>20. ASSUME ChildMark PROVE Waiting(i)' \/ i \in fg'.ids
  BY <1>20, InputActions DEF Begins, Commits
<1>21. ASSUME ChildMarked PROVE Waiting(i)' \/ i \in fg'.ids
  BY <1>21, InputActions
<1>22. Enter \/ Up \/ Escape \/ Stop \/ ChildStops \/ (\E p \in Peers : Arrive(p)) =>
        UNCHANGED <<lock>>
  BY DEF Enter, Up, Escape, Stop, ChildStops, Arrive, Outside, inputVars, arrivals, loopVars,
         turnVars, RecallAt, StopOn, promptVars, ChildOnly, Comes
<1>23. UNCHANGED vars => UNCHANGED <<lock>>
  BY DEF vars, inputVars, promptVars, arrivals, loopVars, turnVars
<1> QED
  BY <1>1, <1>2, <1>3, <1>4, <1>5, <1>6, <1>7, <1>8, <1>9, <1>10, <1>11, <1>12, <1>13, <1>14,
     <1>15, <1>16, <1>17, <1>18, <1>19, <1>20, <1>21, <1>22, <1>23
     DEF Next, Prompt, RecallStep, ArrivalStep, LoopStep, TurnStep, ChildStep, FromOutside, Rest

\* What was claimed stays carried.
LEMMA CarriedKept ==
  ASSUME Core, ClaimInv, SettlingInv, CarriedInv, [Next]_vars
  PROVE  CarriedInv'
<1>1. InputMove /\ GoesOn
  BY TypeKept, RunningBefore
<1>2. ASSUME NEW i \in Inputs, entries'[i].status = "claimed", stop' = "none", Running'
      PROVE  Waiting(i)' \/ Handled(i)'
  <2>1. i \in fg'.ids => Handled(i)'
    BY DEF Handled
  <2>2. CASE entries[i].status = "claimed"
    <3>1. Waiting(i) \/ Handled(i)
      BY <1>1, <1>2, <2>2 DEF CarriedInv, GoesOn
    <3> QED
      BY <1>2, <2>1, <3>1, WaitingMoves, HandledStays
  <2>3. CASE Commits /\ lock.by = "loop" /\ i \in lock.ids
    BY <1>2, <2>1, <2>3, ClaimsTaken
  <2> QED
    BY <1>1, <1>2, <2>2, <2>3, ClaimedBefore
<1> QED
  BY <1>2 DEF CarriedInv

-----------------------------------------------------------------------------
(* What a step does to the turn, to the requests for interrupts and to the *)
(* conversation.                                                           *)

\* No turn runs: there is none, or it has not begun, or it is over.
Resting == {"none", "created", "ended"}

\* A turn has said what it had to say.
Says(c, t) == \E n \in 1..Len(c) : c[n] = <<"turn", t>>

\* Turn t has said what it had to say.
Ended(t) == Says(conv, t)

\* The foreground turn goes on, or ends, and takes nothing more.
TurnStays ==
  /\ turns' = turns /\ fg'.ids \subseteq fg.ids /\ (fg'.ids = {} \/ fg'.to = fg.to)
  /\ fg'.at \notin Resting => fg.at \notin Resting /\ fg'.turn = fg.turn
  /\ fg'.at \in {"created", "starting"} =>
       fg'.at = fg.at /\ fg'.ids = fg.ids /\ fg'.to = fg.to /\ fg'.items = fg.items
  /\ fg'.at \in Resting /\ fg.at \notin Resting => Says(conv', fg.turn)
  /\ fg.at = "none" => fg'.at = "none"

\* One that is waiting to be run begins.
TurnRuns ==
  /\ turns' = turns + 1 /\ fg.at = "created" /\ fg'.at = "starting" /\ fg'.turn = turns + 1
  /\ fg'.ids = fg.ids /\ fg'.to = fg.to /\ fg'.items = fg.items

\* The loop starts one.
TurnStarts == fg.at = "none" /\ fg'.at = "created" /\ turns' = turns /\ (StartPeers \/ StartReady
      \/ Claimed)

\* What a step does to the foreground turn.
TurnMove == TurnStays \/ TurnRuns \/ TurnStarts

\* A turn that is under way goes on, with what it has or without.
LEMMA TurnPasses ==
  ASSUME Core, NEW place \in {"marking", "closing", "model", "hook"}, TurnAt(place), turns' = turns,
  fg.at \notin Resting
  PROVE  TurnStays
<1>1. place \in TurnPlaces /\ place \notin Resting /\ place # "starting"
  BY DEF TurnPlaces, Resting
<1>2. /\ fg'.at = place /\ fg'.turn = fg.turn
      /\ fg'.ids = {} \/ (fg'.ids = fg.ids /\ fg'.to = fg.to)
  BY <1>1, TurnAtMoves DEF Core, TypeOK, TurnTyped
<1> QED
  BY <1>1, <1>2 DEF TurnStays, Resting

\* What a step does to the foreground turn.
LEMMA TurnMoves ==
  ASSUME Core, ClaimInv, [Next]_vars
  PROVE  TurnMove
<1>1. UNCHANGED <<fg, turns>> => TurnMove
  BY DEF TurnStays, TurnMove, Resting
<1>2. HubStep => UNCHANGED <<fg, turns>>
  BY DEF HubStep, HubOnly, inputVars, promptVars, arrivals, loopVars, turnVars
<1>3. SubmitCommand \/ Retain \/ Retained \/ Admit =>
        UNCHANGED <<fg, turns>>
  BY DEF SubmitCommand, Retain, Retained, Admit, EditorAt, inputVars, turnVars, arrivals,
         loopVars
<1>4. ASSUME Admitted PROVE TurnMove
  <2>1. SameTurn
    BY <1>4, TurnHalts DEF Core, TypeOK, TurnTyped
  <2>2. turns' = turns
    BY <1>4 DEF Admitted, EditorAt, arrivals, loopVars
  <2> QED
    BY <2>1, <2>2 DEF SameTurn, TurnStays, TurnMove, Resting
<1>5. Recall \/ NothingToRecall \/ Recalled =>
        UNCHANGED <<fg, turns>>
  BY DEF Recall, NothingToRecall, Recalled, RecallAt, inputVars, arrivals, loopVars, turnVars
<1>6. (\E x \in Escapes : RequestInterrupt(x)) \/ (\E p \in Peers : TakeIncoming(p)) =>
        UNCHANGED <<fg, turns>>
  BY DEF RequestInterrupt, TakeIncoming, Comes, inputVars, promptVars, loopVars, turnVars
<1>7. ASSUME NEW x \in Escapes, QueueInterrupt(x) PROVE TurnMove
  <2>1. SameTurn
    BY <1>7, TurnHalts DEF Core, TypeOK, TurnTyped
  <2>2. turns' = turns
    BY <1>7 DEF QueueInterrupt, Comes, StopOn, inputVars, promptVars
  <2> QED
    BY <2>1, <2>2 DEF SameTurn, TurnStays, TurnMove, Resting
<1>8. ASSUME NEW p \in Peers, QueueIncoming(p) PROVE TurnMove
  <2>1. SameTurn
    BY <1>8, TurnHalts DEF Core, TypeOK, TurnTyped
  <2>2. turns' = turns
    BY <1>8 DEF QueueIncoming, Comes, StopOn, inputVars, promptVars, loopVars
  <2> QED
    BY <2>1, <2>2 DEF SameTurn, TurnStays, TurnMove, Resting
<1>9. RunCommand \/ CommandRun \/ ClaimOldest \/ NothingToClaim \/ Claim \/ ClaimedTooLate
        \/ Await \/ Accept \/ ClaimAll \/ Finalize \/ Barrier \/ Context \/ Submitted \/ Break
        \/ Record \/ Stopped =>
        UNCHANGED <<fg, turns>>
  BY DEF RunCommand, CommandRun, ClaimOldest, NothingToClaim, Claim, ClaimedTooLate, Await,
         Accept, ClaimAll, Finalize, Barrier, Context, Submitted, Break, Record, Stopped, LoopAt,
         inputVars, Open, promptVars, arrivals, turnVars
<1>10. ASSUME StartPeers PROVE TurnMove
  BY <1>10 DEF StartPeers, Deciding, LoopAt, NewTurn, NoTurn, TurnStarts, TurnMove
<1>11. ASSUME StartReady PROVE TurnMove
  BY <1>11 DEF StartReady, Deciding, LoopAt, NewTurn, NoTurn, TurnStarts, TurnMove
<1>12. ASSUME Claimed PROVE TurnMove
  BY <1>12 DEF Claimed, ClaimInv, LoopAt, NewTurn, NoTurn, TurnStarts, TurnMove
<1>13. ASSUME Wake PROVE TurnMove
  <2>1. CASE fg' = fg
    BY <1>13, <2>1 DEF Wake, TurnStays, TurnMove, Resting
  <2>2. CASE fg' = NoTurn /\ fg.at = "ended"
    BY <1>13, <2>2 DEF Wake, NoTurn, TurnStays, TurnMove, Resting
  <2> QED
    BY <1>13, <2>1, <2>2 DEF Wake, Done
<1>14. ASSUME NothingForInterrupt PROVE TurnMove
  <2>1. SameTurn
    BY <1>14, TurnHalts DEF Core, TypeOK, TurnTyped
  <2>2. turns' = turns
    BY <1>14 DEF NothingForInterrupt, Apply, inputVars, promptVars, arrivals
  <2> QED
    BY <2>1, <2>2 DEF SameTurn, TurnStays, TurnMove, Resting
<1>15. ASSUME ClaimedAll PROVE TurnMove
  <2>1. SameTurn
    BY <1>15, TurnHalts DEF Core, TypeOK, TurnTyped
  <2>2. turns' = turns
    BY <1>15 DEF ClaimedAll, Apply, promptVars, arrivals
  <2> QED
    BY <2>1, <2>2 DEF SameTurn, TurnStays, TurnMove, Resting
<1>16. ASSUME Forward PROVE TurnMove
  <2>1. TurnAt("ended") /\ turns' = turns /\ fg.at = "created"
    BY <1>16 DEF Forward
  <2> QED
    BY <2>1, TurnAtMoves DEF TurnPlaces, Core, TypeOK, TurnTyped, TurnStays, TurnMove, Resting
<1>17. ASSUME StartTurn PROVE TurnMove
  <2>1. fg' = [fg EXCEPT !.at = "starting", !.turn = turns + 1] /\ fg.at = "created"
        /\ turns' = turns + 1
    BY <1>17 DEF StartTurn
  <2> QED
    BY <2>1 DEF Core, TypeOK, TurnTyped, Turn, TurnRuns, TurnMove
<1>18. ASSUME StoreItems PROVE TurnMove
  <2>1. PublishCommit(1) /\ turns' = turns /\ fg.at \notin Resting /\ 1 \in Nat \ {0} /\ given \in Nat
    BY <1>18 DEF StoreItems, Resting, Core, TypeOK, TurnTyped, Turn, HubTyped
  <2>2. Len(fg.items) \in Nat
    BY DEF Core, TypeOK, TurnTyped, Turn
  <2>3. /\ fg'.turn = fg.turn /\ fg'.ids = fg.ids /\ fg'.to = fg.to
        /\ fg'.at \in {"model", "mark", "committing"}
    BY <2>1, <2>2, PublishMoves DEF Core, TypeOK, TurnTyped
  <2> QED
    BY <2>1, <2>3 DEF TurnStays, TurnMove, Resting
<1>19. ASSUME ItemCommitted PROVE TurnMove
  <2>1. PublishCommit(fg.k + 1) /\ turns' = turns /\ fg.at \notin Resting /\ fg.k + 1 \in Nat \ {0}
        /\ given \in Nat
    BY <1>19 DEF ItemCommitted, Resting, Core, TypeOK, TurnTyped, Turn, HubTyped
  <2>2. Len(fg.items) \in Nat
    BY DEF Core, TypeOK, TurnTyped, Turn
  <2>3. /\ fg'.turn = fg.turn /\ fg'.ids = fg.ids /\ fg'.to = fg.to
        /\ fg'.at \in {"model", "mark", "committing"}
    BY <2>1, <2>2, PublishMoves DEF Core, TypeOK, TurnTyped
  <2> QED
    BY <2>1, <2>3 DEF TurnStays, TurnMove, Resting
<1>20. ASSUME Mark PROVE TurnMove
  <2>1. (TurnAt("marking")) /\ turns' = turns /\ fg.at \notin Resting
    BY <1>20 DEF Mark, Resting
  <2> QED
    BY <2>1, TurnPasses DEF TurnMove
<1>21. ASSUME Marked PROVE TurnMove
  <2>1. (TurnAt("closing") \/ TurnAt("model")) /\ turns' = turns /\ fg.at \notin Resting
    BY <1>21 DEF Marked, Resting
  <2> QED
    BY <2>1, TurnPasses DEF TurnMove
<1>22. ASSUME CallTools PROVE TurnMove
  <2>1. fg'.at = "tools" /\ fg'.turn = fg.turn /\ fg'.ids = fg.ids /\ fg'.to = fg.to
    BY <1>22 DEF CallTools, Core, TypeOK, TurnTyped, Turn
  <2>2. fg.at \notin Resting /\ turns' = turns
    BY <1>22 DEF CallTools, Resting
  <2> QED
    BY <2>1, <2>2 DEF TurnStays, TurnMove, Resting
<1>23. ASSUME ToolsDone PROVE TurnMove
  <2>1. fg'.at = "boundary" /\ fg'.turn = fg.turn /\ fg'.ids = fg.ids /\ fg'.to = fg.to
    BY <1>23 DEF ToolsDone, Core, TypeOK, TurnTyped, Turn
  <2>2. fg.at \notin Resting /\ turns' = turns
    BY <1>23 DEF ToolsDone, Resting
  <2> QED
    BY <2>1, <2>2 DEF TurnStays, TurnMove, Resting
<1>24. ASSUME BoundaryPassed PROVE TurnMove
  <2>1. (TurnAt("hook")) /\ turns' = turns /\ fg.at \notin Resting
    BY <1>24 DEF BoundaryPassed, Resting
  <2> QED
    BY <2>1, TurnPasses DEF TurnMove
<1>25. ASSUME Proceed PROVE TurnMove
  <2>1. (TurnAt("closing") \/ TurnAt("model")) /\ turns' = turns /\ fg.at \notin Resting
    BY <1>25 DEF Proceed, Resting
  <2> QED
    BY <2>1, TurnPasses DEF TurnMove
<1>26. ASSUME Answer PROVE TurnMove
  <2>1. (TurnAt("closing")) /\ turns' = turns /\ fg.at \notin Resting
    BY <1>26 DEF Answer, Resting
  <2> QED
    BY <2>1, TurnPasses DEF TurnMove
<1>27. ASSUME CancelTurn PROVE TurnMove
  <2>1. CASE fg.at = "created"
    <3>1. TurnAt("ended") /\ turns' = turns
      BY <1>27, <2>1 DEF CancelTurn
    <3> QED
      BY <2>1, <3>1, TurnAtMoves DEF TurnPlaces, Core, TypeOK, TurnTyped, TurnStays, TurnMove, Resting
  <2>2. CASE fg.at # "created"
    <3>1. TurnAt("closing") /\ turns' = turns /\ fg.at \notin Resting
      BY <1>27, <2>2 DEF CancelTurn, Resting
    <3> QED
      BY <3>1, TurnPasses DEF TurnMove
  <2> QED
    BY <2>1, <2>2
<1>28. ASSUME EndTurn PROVE TurnMove
  <2>1. TurnAt("ended") /\ turns' = turns /\ conv' = Append(conv, <<"turn", fg.turn>>)
    BY <1>28 DEF EndTurn
  <2>2. conv \in Seq(Items) /\ <<"turn", fg.turn>> \in Items
    BY DEF Core, TypeOK, TurnTyped, Turn, Items
  <2>3. Says(conv', fg.turn)
    BY <2>1, <2>2, AppendElements DEF Says
  <2>4. fg'.ids = {} /\ fg'.at = "ended" /\ fg.at = "closing"
    BY <1>28, <2>1, TurnAtMoves DEF EndTurn, TurnPlaces, Core, TypeOK, TurnTyped
  <2> QED
    BY <2>1, <2>3, <2>4 DEF TurnStays, TurnMove, Resting
<1>29. ChildStore \/ ChildMark \/ ChildMarked =>
        UNCHANGED <<fg, turns>>
  BY DEF ChildStore, ChildMark, ChildMarked, ChildOnly, inputVars, promptVars, arrivals,
         loopVars, turnVars
<1>30. Enter \/ Up \/ ChildStops \/ (\E p \in Peers : Arrive(p)) =>
        UNCHANGED <<fg, turns>>
  BY DEF Enter, Up, ChildStops, Arrive, Outside, inputVars, arrivals, loopVars, turnVars,
         RecallAt, ChildOnly, promptVars, Comes
<1>31. ASSUME Escape PROVE TurnMove
  <2>1. SameTurn
    BY <1>31, TurnHalts DEF Core, TypeOK, TurnTyped
  <2>2. turns' = turns
    BY <1>31 DEF Escape, Outside, StopOn, inputVars, promptVars, loopVars, Comes
  <2> QED
    BY <2>1, <2>2 DEF SameTurn, TurnStays, TurnMove, Resting
<1>32. ASSUME Stop PROVE TurnMove
  <2>1. SameTurn
    BY <1>32, TurnHalts DEF Core, TypeOK, TurnTyped
  <2>2. turns' = turns
    BY <1>32 DEF Stop, Outside, turnVars, StopOn, inputVars, loopVars, Comes
  <2> QED
    BY <2>1, <2>2 DEF SameTurn, TurnStays, TurnMove, Resting
<1>33. UNCHANGED vars => UNCHANGED <<fg, turns>>
  BY DEF vars, inputVars, promptVars, arrivals, loopVars, turnVars
<1> QED
  BY <1>1, <1>2, <1>3, <1>4, <1>5, <1>6, <1>7, <1>8, <1>9, <1>10, <1>11, <1>12, <1>13, <1>14,
     <1>15, <1>16, <1>17, <1>18, <1>19, <1>20, <1>21, <1>22, <1>23, <1>24, <1>25, <1>26, <1>27,
     <1>28, <1>29, <1>30, <1>31, <1>32, <1>33
     DEF Next, Prompt, RecallStep, ArrivalStep, LoopStep, TurnStep, ChildStep, FromOutside, Rest

\* The loop is not at an interrupt, or as far with it as before, and so are
\* those that wait for it.
RequestsStay ==
  /\ UNCHANGED <<escape, interrupts, settling, interrupted>>
  /\ main'.at \in {"claimAll", "claimingAll"} => main.at \in {"claimAll", "claimingAll"}
       /\ main'.now = main.now
  /\ Finalizing' => Finalizing /\ main'.now = main.now /\ main'.done = main.done
  /\ main'.at \in {"accept", "context"} => main' = main

\* A step leaves the interrupts alone or is one of these.
RequestMove ==
  \/ RequestsStay \/ Escape \/ (\E x \in Escapes : RequestInterrupt(x))
       \/ (\E x \in Escapes : QueueInterrupt(x))
  \/ Wake \/ Accept \/ NothingForInterrupt \/ ClaimedAll \/ Barrier \/ Context

\* From these places the loop leaves the interrupts alone.
LEMMA LoopElsewhere ==
  ASSUME Core, NEW place \in {"top", "wait", "command", "claim", "claiming", "stopping", "stopped"},
  LoopAt(place)
  PROVE  RequestsStay
<1>1. main'.at = place
  BY LoopAtType DEF LoopPlaces, Core, TypeOK, LoopTyped
<1>2. UNCHANGED <<escape, interrupts, settling, interrupted>>
  BY DEF LoopAt
<1> QED
  BY <1>1, <1>2 DEF RequestsStay, Finalizing

\* What a step does to the requests for interrupts.
LEMMA RequestMoves ==
  ASSUME Core, [Next]_vars
  PROVE  RequestMove
<1>1. UNCHANGED <<escape, interrupts, settling, interrupted, main>> => RequestMove
  BY DEF RequestsStay, RequestMove, Finalizing
<1>2. HubStep => UNCHANGED <<escape, interrupts, settling, interrupted, main>>
  BY DEF HubStep, HubOnly, inputVars, promptVars, arrivals, loopVars, turnVars
<1>3. SubmitCommand \/ Retain \/ Retained \/ Admit \/ Admitted =>
        UNCHANGED <<escape, interrupts, settling, interrupted, main>>
  BY DEF SubmitCommand, Retain, Retained, Admit, Admitted, EditorAt, inputVars, turnVars,
         arrivals, loopVars
<1>4. Recall \/ NothingToRecall \/ Recalled =>
        UNCHANGED <<escape, interrupts, settling, interrupted, main>>
  BY DEF Recall, NothingToRecall, Recalled, RecallAt, inputVars, arrivals, loopVars, turnVars
<1>5. (\E p \in Peers : QueueIncoming(p)) \/ (\E p \in Peers : TakeIncoming(p)) =>
        UNCHANGED <<escape, interrupts, settling, interrupted, main>>
  BY DEF QueueIncoming, TakeIncoming, Comes, StopOn, inputVars, promptVars, loopVars, turnVars
<1>6. ASSUME NEW x \in Escapes, RequestInterrupt(x) PROVE RequestMove
  BY <1>6 DEF RequestMove
<1>7. ASSUME NEW x \in Escapes, QueueInterrupt(x) PROVE RequestMove
  BY <1>7 DEF RequestMove
<1>8. ASSUME RunCommand PROVE RequestMove
  <2>1. LoopAt("command")
    BY <1>8 DEF RunCommand
  <2> QED
    BY <2>1, LoopElsewhere DEF RequestMove
<1>9. ASSUME CommandRun PROVE RequestMove
  <2>1. LoopAt("top") \/ LoopAt("stopping")
    BY <1>9 DEF CommandRun
  <2> QED
    BY <2>1, LoopElsewhere DEF RequestMove
<1>10. ASSUME StartPeers PROVE RequestMove
  <2>1. LoopAt("top")
    BY <1>10 DEF StartPeers
  <2> QED
    BY <2>1, LoopElsewhere DEF RequestMove
<1>11. ASSUME StartReady PROVE RequestMove
  <2>1. LoopAt("top")
    BY <1>11 DEF StartReady
  <2> QED
    BY <2>1, LoopElsewhere DEF RequestMove
<1>12. ASSUME ClaimOldest PROVE RequestMove
  <2>1. LoopAt("claim")
    BY <1>12 DEF ClaimOldest
  <2> QED
    BY <2>1, LoopElsewhere DEF RequestMove
<1>13. ASSUME NothingToClaim PROVE RequestMove
  <2>1. LoopAt("wait")
    BY <1>13 DEF NothingToClaim, Open
  <2> QED
    BY <2>1, LoopElsewhere DEF RequestMove
<1>14. ASSUME Claim PROVE RequestMove
  <2>1. LoopAt("claiming")
    BY <1>14 DEF Claim
  <2> QED
    BY <2>1, LoopElsewhere DEF RequestMove
<1>15. ASSUME Claimed PROVE RequestMove
  <2>1. LoopAt("top")
    BY <1>15 DEF Claimed
  <2> QED
    BY <2>1, LoopElsewhere DEF RequestMove
<1>16. ASSUME ClaimedTooLate PROVE RequestMove
  <2>1. LoopAt("wait")
    BY <1>16 DEF ClaimedTooLate, Open
  <2> QED
    BY <2>1, LoopElsewhere DEF RequestMove
<1>17. ASSUME Await PROVE RequestMove
  <2>1. LoopAt("wait")
    BY <1>17 DEF Await, Open
  <2> QED
    BY <2>1, LoopElsewhere DEF RequestMove
<1>18. ASSUME Wake PROVE RequestMove
  BY <1>18 DEF RequestMove
<1>19. ASSUME Accept PROVE RequestMove
  BY <1>19 DEF RequestMove
<1>20. ASSUME NothingForInterrupt PROVE RequestMove
  BY <1>20 DEF RequestMove
<1>21. ASSUME ClaimAll PROVE RequestMove
  <2>1. main.at = "claimAll" /\ LoopAt("claimingAll")
        /\ UNCHANGED <<escape, interrupts, settling, interrupted>>
    BY <1>21 DEF ClaimAll, LoopAt
  <2>2. main'.at = "claimingAll" /\ main'.now = main.now
    BY <2>1 DEF LoopAt, Core, TypeOK, LoopTyped, Loop
  <2> QED
    BY <2>1, <2>2 DEF RequestsStay, RequestMove, Finalizing
<1>22. ASSUME ClaimedAll PROVE RequestMove
  BY <1>22 DEF RequestMove
<1>23. ASSUME Finalize PROVE RequestMove
  <2>1. main' = [main EXCEPT !.at = "barrier", !.place = given + 1] /\ main.at = "finalize"
        /\ UNCHANGED <<escape, interrupts, settling, interrupted>>
    BY <1>23 DEF Finalize, arrivals
  <2>2. main'.at = "barrier" /\ main'.now = main.now /\ main'.done = main.done
    BY <2>1 DEF Core, TypeOK, LoopTyped, Loop
  <2> QED
    BY <2>1, <2>2 DEF RequestsStay, RequestMove, Finalizing
<1>24. ASSUME Barrier PROVE RequestMove
  BY <1>24 DEF RequestMove
<1>25. ASSUME Context PROVE RequestMove
  BY <1>25 DEF RequestMove
<1>26. ASSUME Submitted PROVE RequestMove
  <2>1. LoopAt("top") \/ LoopAt("command")
    BY <1>26 DEF Submitted
  <2> QED
    BY <2>1, LoopElsewhere DEF RequestMove
<1>27. ASSUME Break PROVE RequestMove
  <2>1. LoopAt("stopping")
    BY <1>27 DEF Break
  <2> QED
    BY <2>1, LoopElsewhere DEF RequestMove
<1>28. ASSUME Record PROVE RequestMove
  <2>1. main' = [main EXCEPT !.at = "recording", !.place = given + 1]
        /\ UNCHANGED <<escape, interrupts, settling, interrupted>>
    BY <1>28 DEF Record, arrivals
  <2>2. main'.at = "recording"
    BY <2>1 DEF Core, TypeOK, LoopTyped, Loop
  <2> QED
    BY <2>1, <2>2 DEF RequestsStay, RequestMove, Finalizing
<1>29. ASSUME Stopped PROVE RequestMove
  <2>1. LoopAt("stopped")
    BY <1>29 DEF Stopped
  <2> QED
    BY <2>1, LoopElsewhere DEF RequestMove
<1>30. Forward \/ StartTurn \/ StoreItems \/ ItemCommitted \/ Mark \/ Marked \/ CallTools
        \/ ToolsDone \/ BoundaryPassed \/ Proceed \/ Answer \/ CancelTurn \/ EndTurn =>
        UNCHANGED <<escape, interrupts, settling, interrupted, main>>
  BY DEF Forward, StartTurn, StoreItems, ItemCommitted, Mark, Marked, CallTools, ToolsDone,
         BoundaryPassed, Proceed, Answer, CancelTurn, EndTurn, TurnAt, inputVars, TurnOnly,
         promptVars, arrivals, loopVars
<1>31. ChildStore \/ ChildMark \/ ChildMarked =>
        UNCHANGED <<escape, interrupts, settling, interrupted, main>>
  BY DEF ChildStore, ChildMark, ChildMarked, ChildOnly, inputVars, promptVars, arrivals,
         loopVars, turnVars
<1>32. Enter \/ Up \/ Stop \/ ChildStops \/ (\E p \in Peers : Arrive(p)) =>
        UNCHANGED <<escape, interrupts, settling, interrupted, main>>
  BY DEF Enter, Up, Stop, ChildStops, Arrive, Outside, inputVars, arrivals, loopVars, turnVars,
         RecallAt, StopOn, ChildOnly, promptVars, Comes
<1>33. ASSUME Escape PROVE RequestMove
  BY <1>33 DEF RequestMove
<1>34. UNCHANGED vars => UNCHANGED <<escape, interrupts, settling, interrupted, main>>
  BY DEF vars, inputVars, promptVars, arrivals, loopVars, turnVars
<1> QED
  BY <1>1, <1>2, <1>3, <1>4, <1>5, <1>6, <1>7, <1>8, <1>9, <1>10, <1>11, <1>12, <1>13, <1>14,
     <1>15, <1>16, <1>17, <1>18, <1>19, <1>20, <1>21, <1>22, <1>23, <1>24, <1>25, <1>26, <1>27,
     <1>28, <1>29, <1>30, <1>31, <1>32, <1>33, <1>34
     DEF Next, Prompt, RecallStep, ArrivalStep, LoopStep, TurnStep, ChildStep, FromOutside, Rest

\* A step leaves the ready claims and the conversation alone or is one of these.
QueuesMove ==
  \/ UNCHANGED <<ready, conv>>
  \/ StoreItems /\ UNCHANGED ready
  \/ EndTurn /\ UNCHANGED ready
  \/ StartReady /\ UNCHANGED conv
  \/ Barrier

\* What a step does to the claims that are ready, and to the conversation.
LEMMA QueueMoves ==
  ASSUME [Next]_vars
  PROVE  QueuesMove
<1>1. UNCHANGED <<ready, conv>> => QueuesMove
  BY DEF QueuesMove
<1>2. HubStep => UNCHANGED <<ready, conv>>
  BY DEF HubStep, HubOnly, inputVars, promptVars, arrivals, loopVars, turnVars
<1>3. SubmitCommand \/ Retain \/ Retained \/ Admit \/ Admitted =>
        UNCHANGED <<ready, conv>>
  BY DEF SubmitCommand, Retain, Retained, Admit, Admitted, EditorAt, inputVars, turnVars,
         arrivals, loopVars
<1>4. Recall \/ NothingToRecall \/ Recalled =>
        UNCHANGED <<ready, conv>>
  BY DEF Recall, NothingToRecall, Recalled, RecallAt, inputVars, arrivals, loopVars, turnVars
<1>5. (\E x \in Escapes : RequestInterrupt(x)) \/ (\E x \in Escapes : QueueInterrupt(x))
        \/ (\E p \in Peers : QueueIncoming(p)) \/ (\E p \in Peers : TakeIncoming(p)) =>
        UNCHANGED <<ready, conv>>
  BY DEF RequestInterrupt, QueueInterrupt, QueueIncoming, TakeIncoming, Comes, inputVars,
         promptVars, loopVars, turnVars, StopOn
<1>6. RunCommand \/ CommandRun \/ StartPeers \/ ClaimOldest \/ NothingToClaim \/ Claim
        \/ Claimed \/ ClaimedTooLate \/ Await \/ Wake \/ Accept \/ NothingForInterrupt
        \/ ClaimAll \/ ClaimedAll \/ Finalize \/ Context \/ Submitted \/ Break \/ Record
        \/ Stopped =>
        UNCHANGED <<ready, conv>>
  BY DEF RunCommand, CommandRun, StartPeers, ClaimOldest, NothingToClaim, Claim, Claimed,
         ClaimedTooLate, Await, Wake, Accept, NothingForInterrupt, ClaimAll, ClaimedAll,
         Finalize, Context, Submitted, Break, Record, Stopped, LoopAt, inputVars, Open,
         promptVars, arrivals, turnVars, Apply
<1>7. ASSUME StartReady PROVE QueuesMove
  BY <1>7 DEF StartReady, LoopAt, inputVars, QueuesMove
<1>8. ASSUME Barrier PROVE QueuesMove
  BY <1>8 DEF Barrier, inputVars, promptVars, QueuesMove
<1>9. Forward \/ StartTurn \/ ItemCommitted \/ Mark \/ Marked \/ CallTools \/ ToolsDone
        \/ BoundaryPassed \/ Proceed \/ Answer \/ CancelTurn =>
        UNCHANGED <<ready, conv>>
  BY DEF Forward, StartTurn, ItemCommitted, Mark, Marked, CallTools, ToolsDone, BoundaryPassed,
         Proceed, Answer, CancelTurn, TurnAt, inputVars, TurnOnly, promptVars, arrivals,
         loopVars
<1>10. ASSUME StoreItems PROVE QueuesMove
  BY <1>10 DEF StoreItems, TurnOnly, inputVars, promptVars, arrivals, loopVars, QueuesMove
<1>11. ASSUME EndTurn PROVE QueuesMove
  BY <1>11 DEF EndTurn, TurnAt, inputVars, TurnOnly, promptVars, arrivals, loopVars, QueuesMove
<1>12. ChildStore \/ ChildMark \/ ChildMarked =>
        UNCHANGED <<ready, conv>>
  BY DEF ChildStore, ChildMark, ChildMarked, ChildOnly, inputVars, promptVars, arrivals,
         loopVars, turnVars
<1>13. Enter \/ Up \/ Escape \/ Stop \/ ChildStops \/ (\E p \in Peers : Arrive(p)) =>
        UNCHANGED <<ready, conv>>
  BY DEF Enter, Up, Escape, Stop, ChildStops, Arrive, Outside, inputVars, arrivals, loopVars,
         turnVars, RecallAt, StopOn, promptVars, ChildOnly, Comes
<1>14. UNCHANGED vars => UNCHANGED <<ready, conv>>
  BY DEF vars, inputVars, promptVars, arrivals, loopVars, turnVars
<1> QED
  BY <1>1, <1>2, <1>3, <1>4, <1>5, <1>6, <1>7, <1>8, <1>9, <1>10, <1>11, <1>12, <1>13, <1>14
     DEF Next, Prompt, RecallStep, ArrivalStep, LoopStep, TurnStep, ChildStep, FromOutside, Rest

\* Whatever happens from outside is counted.
LEMMA KeysMove ==
  ASSUME keys \in Int, [Next]_vars
  PROVE  keys' \in {keys, keys + 1}
<1>1. UNCHANGED <<keys>> => keys' \in {keys, keys + 1}
  OBVIOUS
<1>2. HubStep => UNCHANGED <<keys>>
  BY DEF HubStep, HubOnly, inputVars, promptVars, arrivals, loopVars, turnVars
<1>3. SubmitCommand \/ Retain \/ Retained \/ Admit \/ Admitted =>
        UNCHANGED <<keys>>
  BY DEF SubmitCommand, Retain, Retained, Admit, Admitted, EditorAt, inputVars, turnVars,
         arrivals, loopVars
<1>4. Recall \/ NothingToRecall \/ Recalled =>
        UNCHANGED <<keys>>
  BY DEF Recall, NothingToRecall, Recalled, RecallAt, inputVars, arrivals, loopVars, turnVars
<1>5. (\E x \in Escapes : RequestInterrupt(x)) \/ (\E x \in Escapes : QueueInterrupt(x))
        \/ (\E p \in Peers : QueueIncoming(p)) \/ (\E p \in Peers : TakeIncoming(p)) =>
        UNCHANGED <<keys>>
  BY DEF RequestInterrupt, QueueInterrupt, QueueIncoming, TakeIncoming, Comes, inputVars,
         promptVars, loopVars, turnVars, StopOn
<1>6. RunCommand \/ CommandRun \/ StartPeers \/ StartReady \/ ClaimOldest \/ NothingToClaim
        \/ Claim \/ Claimed \/ ClaimedTooLate \/ Await \/ Wake \/ Accept \/ NothingForInterrupt
        \/ ClaimAll \/ ClaimedAll \/ Finalize \/ Barrier \/ Context \/ Submitted \/ Break
        \/ Record \/ Stopped =>
        UNCHANGED <<keys>>
  BY DEF RunCommand, CommandRun, StartPeers, StartReady, ClaimOldest, NothingToClaim, Claim,
         Claimed, ClaimedTooLate, Await, Wake, Accept, NothingForInterrupt, ClaimAll, ClaimedAll,
         Finalize, Barrier, Context, Submitted, Break, Record, Stopped, LoopAt, inputVars, Open,
         promptVars, arrivals, turnVars, Apply
<1>7. Forward \/ StartTurn \/ StoreItems \/ ItemCommitted \/ Mark \/ Marked \/ CallTools
        \/ ToolsDone \/ BoundaryPassed \/ Proceed \/ Answer \/ CancelTurn \/ EndTurn =>
        UNCHANGED <<keys>>
  BY DEF Forward, StartTurn, StoreItems, ItemCommitted, Mark, Marked, CallTools, ToolsDone,
         BoundaryPassed, Proceed, Answer, CancelTurn, EndTurn, TurnAt, inputVars, TurnOnly,
         promptVars, arrivals, loopVars
<1>8. ChildStore \/ ChildMark \/ ChildMarked =>
        UNCHANGED <<keys>>
  BY DEF ChildStore, ChildMark, ChildMarked, ChildOnly, inputVars, promptVars, arrivals,
         loopVars, turnVars
<1>9. ASSUME Enter PROVE keys' \in {keys, keys + 1}
  BY <1>9 DEF Enter, Outside
<1>10. ASSUME Up PROVE keys' \in {keys, keys + 1}
  BY <1>10 DEF Up, Outside
<1>11. ASSUME Escape PROVE keys' \in {keys, keys + 1}
  BY <1>11 DEF Escape, Outside
<1>12. ASSUME Stop PROVE keys' \in {keys, keys + 1}
  BY <1>12 DEF Stop, Outside
<1>13. ASSUME ChildStops PROVE keys' \in {keys, keys + 1}
  BY <1>13 DEF ChildStops, Outside
<1>14. ASSUME NEW p \in Peers, Arrive(p) PROVE keys' \in {keys, keys + 1}
  BY <1>14 DEF Arrive, Outside
<1>15. UNCHANGED vars => UNCHANGED <<keys>>
  BY DEF vars, inputVars, promptVars, arrivals, loopVars, turnVars
<1> QED
  BY <1>1, <1>2, <1>3, <1>4, <1>5, <1>6, <1>7, <1>8, <1>9, <1>10, <1>11, <1>12, <1>13, <1>14,
     <1>15
     DEF Next, Prompt, RecallStep, ArrivalStep, LoopStep, TurnStep, ChildStep, FromOutside, Rest

\* An Escape is a request about the turn under way.
LEMMA EscapeMoves ==
  ASSUME Core, Escape
  PROVE  /\ \E x \in Escapes :
              /\ escape[x].at = "none" /\ \A y \in Escapes : y # x => escape'[y] = escape[y]
              /\ escape'[x].at = "pressed" /\ escape'[x].place = keys + 1
              /\ escape'[x].turn = (IF escape'[x].to = "main" THEN Active ELSE 0)
                   /\ escape'[x].to \in Agents
         /\ keys' = keys + 1 /\ SameTurn
         /\ UNCHANGED <<interrupts, settling, main, interrupted, turns, given>>
<1>1. escape \in [Escapes -> Request]
  BY DEF Core, TypeOK, ArrivalsTyped
<1>2. PICK x \in Escapes, a \in Agents :
        /\ escape[x].at = "none"
        /\ escape' = [escape EXCEPT ![x] = [at |-> "pressed", turn |-> IF a = "main" THEN Active ELSE 0,
             to |-> a,
                                            place |-> keys + 1]]
  BY DEF Escape
<1>3. SameTurn
  BY TurnHalts DEF Core, TypeOK, TurnTyped
<1>4. keys' = keys + 1 /\ UNCHANGED <<interrupts, settling, main, interrupted, turns, given>>
  BY DEF Escape, Outside, StopOn, loopVars, hubVars
<1>5. escape'[x] = [at |-> "pressed", turn |-> IF a = "main" THEN Active ELSE 0, to |-> a,
      place |-> keys + 1]
      /\ \A y \in Escapes : y # x => escape'[y] = escape[y]
  BY <1>1, <1>2
<1> QED
  BY <1>2, <1>3, <1>4, <1>5

\* It takes a place when its announcement is published, ...
LEMMA RequestInterruptMoves ==
  ASSUME Core, NEW x \in Escapes, RequestInterrupt(x)
  PROVE  /\ FirstAt(x, "pressed") /\ \A y \in Escapes : y # x => escape'[y] = escape[y]
         /\ escape'[x].at = "posted" /\ escape'[x].place = given + 1
         /\ escape'[x].turn = escape[x].turn /\ escape'[x].to = escape[x].to
         /\ given' = given + 1
         /\ UNCHANGED <<interrupts, settling, main, interrupted, turns, fg, keys>>
<1>1. escape \in [Escapes -> Request]
  BY DEF Core, TypeOK, ArrivalsTyped
<1>2. escape' = [escape EXCEPT ![x] = [@ EXCEPT !.at = "posted", !.place = given + 1]]
      /\ FirstAt(x, "pressed")
  BY DEF RequestInterrupt
<1>3. UNCHANGED <<interrupts, settling, main, interrupted, turns, fg, keys>>
  BY DEF RequestInterrupt, loopVars, turnVars
<1>4. given' = given + 1
  BY HubActions DEF Posted
<1>5. escape'[x] = [escape[x] EXCEPT !.at = "posted", !.place = given + 1]
      /\ \A y \in Escapes : y # x => escape'[y] = escape[y]
  BY <1>1, <1>2
<1>6. escape[x] \in Request
  BY <1>1
<1>7. /\ escape'[x].at = "posted" /\ escape'[x].place = given + 1
      /\ escape'[x].turn = escape[x].turn /\ escape'[x].to = escape[x].to
  BY <1>5, <1>6 DEF Request
<1> QED
  BY <1>2, <1>3, <1>4, <1>5, <1>7

\* ... and then another in the queue of the loop.
LEMMA QueueInterruptMoves ==
  ASSUME Core, NEW x \in Escapes, QueueInterrupt(x)
  PROVE  /\ FirstAt(x, "posted") /\ \A y \in Escapes : y # x => escape'[y] = escape[y]
         /\ escape'[x].at = "queued"
         /\ \E r \in Interrupts : r.turn = escape[x].turn /\ r.to = escape[x].to
              /\ interrupts' = Append(interrupts, r)
         /\ SameTurn /\ UNCHANGED <<settling, main, interrupted, turns, keys, given>>
<1> DEFINE r == [turn |-> escape[x].turn, to |-> escape[x].to, place |-> escape[x].place, ids |-> {}]
<1>1. escape \in [Escapes -> Request] /\ escape[x] \in Request
  BY DEF Core, TypeOK, ArrivalsTyped
<1>2. escape' = [escape EXCEPT ![x] = Handed] /\ FirstAt(x, "posted")
      /\ interrupts' = Append(interrupts, r)
  BY DEF QueueInterrupt
<1>3. UNCHANGED <<settling, main, interrupted, turns, keys, given>>
  BY DEF QueueInterrupt, StopOn, hubVars
<1>4. SameTurn
  BY TurnHalts DEF Core, TypeOK, TurnTyped
<1>5. escape'[x].at = "queued" /\ \A y \in Escapes : y # x => escape'[y] = escape[y]
  BY <1>1, <1>2 DEF Handed
<1>6. r \in Interrupts /\ r.turn = escape[x].turn /\ r.to = escape[x].to
  BY <1>1 DEF Request, Interrupts
<1> HIDE DEF r
<1> QED
  BY <1>2, <1>3, <1>4, <1>5, <1>6

\* A loop that wakes finalizes the first of the interrupts that waited for the
\* turn that is over.
LEMMA WakeMoves ==
  ASSUME Core, Wake
  PROVE  /\ UNCHANGED <<escape, interrupts, interrupted, turns, conv, ready, keys, given>>
         /\ main.at = "wait" /\ main'.done = Done
         /\ \/ /\ settling # << >> /\ fg.at = "ended" /\ fg' = NoTurn /\ main'.at = "finalize"
               /\ main'.now = Head(settling) /\ settling' = Tail(settling)
            \/ /\ settling = << >> \/ (fg.at # "ended" /\ fg' = fg)
               /\ settling' = settling /\ main'.at \in {"accept", "input", "top"}
               /\ main'.at = "accept" => interrupts # << >>
         /\ (fg.at = "ended" /\ fg' = NoTurn) \/ (fg.at # "ended" /\ fg' = fg)
<1>1. main \in Loop
  BY DEF Core, TypeOK, LoopTyped
<1>2. UNCHANGED <<escape, interrupts, interrupted, turns, conv, ready, keys, given>> /\ main.at = "wait"
  BY DEF Wake, hubVars
<1>3. /\ (fg.at = "ended" /\ fg' = NoTurn) \/ (fg.at # "ended" /\ fg' = fg)
      /\ "fg" \in Done <=> fg.at = "ended"
      /\ "interrupt" \in Done => interrupts # << >>
  BY DEF Wake, Done
<1>4. CASE fg.at = "ended" /\ settling # << >>
  <2>1. main' = [main EXCEPT !.at = "finalize", !.done = Done, !.now = Head(settling)]
        /\ settling' = Tail(settling)
    BY <1>3, <1>4 DEF Wake
  <2>2. main'.at = "finalize" /\ main'.now = Head(settling) /\ main'.done = Done
    BY <1>1, <2>1 DEF Loop
  <2> QED
    BY <1>2, <1>3, <1>4, <2>1, <2>2
<1>5. CASE ~(fg.at = "ended" /\ settling # << >>)
  <2>1. main' = [main EXCEPT !.at = NextPhase(Done), !.done = Done] /\ settling' = settling
    BY <1>3, <1>5 DEF Wake
  <2>2. main'.at = NextPhase(Done) /\ main'.done = Done
    BY <1>1, <2>1 DEF Loop
  <2>3. NextPhase(Done) \in {"accept", "input", "top"} /\ (NextPhase(Done) = "accept"
        => "interrupt" \in Done)
    BY DEF NextPhase
  <2> QED
    BY <1>2, <1>3, <1>5, <2>1, <2>2, <2>3
<1> QED
  BY <1>4, <1>5

\* It turns to the first request, or drops it if its turn is interrupted.
LEMMA AcceptMoves ==
  ASSUME Core, Accept
  PROVE  /\ UNCHANGED <<escape, settling, turns, conv, ready, keys, given, fg>> /\ main.at = "accept"
         /\ interrupts # << >> /\ interrupts' = Tail(interrupts)
         /\ \/ /\ Head(interrupts).turn \in interrupted /\ interrupted' = interrupted
               /\ main'.at \in {"input", "top"}
            \/ /\ Head(interrupts).turn \notin interrupted
               /\ interrupted' = interrupted \cup ({Head(interrupts).turn} \ {0})
               /\ main'.at = "claimAll" /\ main'.now = Head(interrupts)
<1>1. main \in Loop /\ interrupts # << >>
  BY DEF Core, TypeOK, LoopTyped, RequestedInv, Accept
<1>2. UNCHANGED <<escape, settling, turns, conv, ready, keys, given, fg>> /\ main.at = "accept"
      /\ interrupts' = Tail(interrupts)
  BY DEF Accept, hubVars, arrivals, turnVars
<1> DEFINE rest == main.done \ {"interrupt"}
<1>3. NextPhase(rest) \in {"input", "top"}
  BY DEF NextPhase
<1>4. CASE Head(interrupts).turn \in interrupted
  <2>1. main' = [main EXCEPT !.at = NextPhase(rest), !.done = rest] /\ interrupted' = interrupted
    BY <1>4 DEF Accept
  <2> QED
    BY <1>1, <1>2, <1>3, <1>4, <2>1 DEF Loop
<1>5. CASE Head(interrupts).turn \notin interrupted
  <2>1. main' = [main EXCEPT !.at = "claimAll", !.done = rest, !.now = Head(interrupts)]
        /\ interrupted' = interrupted \cup ({Head(interrupts).turn} \ {0})
    BY <1>5 DEF Accept
  <2> QED
    BY <1>1, <1>2, <1>5, <2>1 DEF Loop
<1> QED
  BY <1>4, <1>5

\* What was claimed for an interrupt waits for its turn, or goes on.
LEMMA ApplyMoves ==
  ASSUME Core, NEW ids \in SUBSET Inputs, Apply(ids), main.at \in {"claimAll", "claimingAll"}
  PROVE  /\ UNCHANGED <<escape, interrupts, interrupted, turns, conv, ready, keys, given>>
         /\ \E now \in Interrupts :
              /\ now.turn = main.now.turn /\ now.to = main.now.to /\ now.ids = ids
              /\ \/ /\ Hits(main.now) /\ settling' = Append(settling, now)
                   /\ main'.at \in {"input", "top"}
                 \/ /\ ~Hits(main.now) /\ settling' = settling /\ fg' = fg
                    /\ main'.at = "finalize" /\ main'.now = now /\ main'.done = main.done
<1>1. main \in Loop /\ "interrupt" \notin main.done
  BY DEF Core, TypeOK, LoopTyped, RequestedInv
<1>2. UNCHANGED <<escape, interrupts, interrupted, turns, conv, ready, keys, given>>
  BY DEF Apply, hubVars, arrivals
<1> DEFINE now == [main.now EXCEPT !.ids = ids]
<1>3. now \in Interrupts /\ now.turn = main.now.turn /\ now.to = main.now.to /\ now.ids = ids
  BY <1>1 DEF Loop, Interrupts
<1>4. Hits(now) <=> Hits(main.now)
  BY <1>3 DEF Hits
<1>5. Hits(now) => settling' = Append(settling, now) /\ main' = [main EXCEPT !.at = NextPhase(main.done)]
  BY DEF Apply
<1>6. ~Hits(now) => settling' = settling /\ fg' = fg
      /\ main' = [main EXCEPT !.at = "finalize", !.now = now]
  BY DEF Apply
<1> HIDE DEF now
<1>7. NextPhase(main.done) \in {"input", "top"}
  BY <1>1 DEF NextPhase
<1>8. Hits(now) => main'.at \in {"input", "top"}
  BY <1>1, <1>5, <1>7 DEF Loop
<1>9. ~Hits(now) => main'.at = "finalize" /\ main'.now = now /\ main'.done = main.done
  BY <1>1, <1>6 DEF Loop
<1> QED
  BY <1>2, <1>3, <1>4, <1>5, <1>6, <1>8, <1>9

\* An interrupt is delivered, and the next of those that waited with it comes.
LEMMA BarrierMoves ==
  ASSUME Core, SettlingInv, Barrier
  PROVE  /\ UNCHANGED <<escape, interrupts, interrupted, turns, keys, given, fg>> /\ main.at = "barrier"
         /\ main'.done = main.done
         /\ \/ /\ settling # << >> /\ fg.at = "none" /\ main'.at = "finalize"
               /\ main'.now = Head(settling) /\ settling' = Tail(settling)
            \/ /\ settling = << >> \/ fg.at # "none"
               /\ settling' = settling /\ main'.at \in {"context", "accept", "input", "top"}
               /\ main'.at = "accept" => "interrupt" \in main.done
<1>1. main \in Loop
  BY DEF Core, TypeOK, LoopTyped
<1>2. UNCHANGED <<escape, interrupts, interrupted, turns, keys, given, fg>> /\ main.at = "barrier"
  BY DEF Barrier, hubVars
<1>3. CASE settling # << >> /\ fg.at = "none"
  <2>1. main.now.to # "child"
    BY <1>3 DEF SettlingInv
  <2>2. main' = [main EXCEPT !.at = "finalize", !.place = 0, !.now = Head(settling)]
        /\ settling' = Tail(settling)
    BY <1>3, <2>1 DEF Barrier
  <2>3. main'.at = "finalize" /\ main'.now = Head(settling) /\ main'.done = main.done
    BY <1>1, <2>2 DEF Loop
  <2> QED
    BY <1>2, <1>3, <2>2, <2>3
<1>4. CASE ~(settling # << >> /\ fg.at = "none")
  <2>1. main'.at \in {"context", NextPhase(main.done)} /\ main'.done = main.done /\ settling' = settling
    BY <1>1, <1>4 DEF Barrier, Loop
  <2>2. NextPhase(main.done) \in {"accept", "input", "top"} /\ (NextPhase(main.done) = "accept"
        => "interrupt" \in main.done)
    BY DEF NextPhase
  <2> QED
    BY <1>2, <1>4, <2>1, <2>2
<1> QED
  BY <1>3, <1>4

\* The child has its context, and the loop goes on.
LEMMA ContextMoves ==
  ASSUME Core, Context
  PROVE  /\ UNCHANGED <<escape, interrupts, interrupted, settling, turns, conv, ready, keys, given, fg>>
         /\ main.at = "context" /\ main'.at \in {"accept", "input", "top"}
         /\ main'.at = "accept" => "interrupt" \in main.done
<1>1. /\ UNCHANGED <<escape, interrupts, interrupted, settling, turns, conv, ready, keys, given, fg>>
      /\ main.at = "context" /\ LoopAt(NextPhase(main.done))
  BY DEF Context, LoopAt, hubVars
<1>2. NextPhase(main.done) \in {"accept", "input", "top"} /\ (NextPhase(main.done) = "accept"
      => "interrupt" \in main.done)
  BY DEF NextPhase
<1>3. main'.at = NextPhase(main.done)
  BY <1>1, <1>2, LoopAtType DEF LoopPlaces, Core, TypeOK, LoopTyped
<1> QED
  BY <1>1, <1>2, <1>3

-----------------------------------------------------------------------------
(* The conversation tells what happened in the order in which it happened. *)

\* Every turn has said what it had to say, but the one that is under way.
TurnInv ==
  /\ fg.at \notin Resting => fg.turn = turns /\ turns # 0
  /\ \A t \in 1..turns : t = Active \/ Ended(t)

\* The presses of Escape that are not queued as interrupts yet.
Pressing == {x \in Escapes : escape[x].at \in {"pressed", "posted"}}

\* Whoever interrupts a turn has seen it, and its notice waits for the end.
RequestInv ==
  /\ \A x \in Pressing : escape[x].turn <= turns
  /\ \A n \in 1..Len(interrupts) : interrupts[n].turn <= turns
  /\ \A n \in 1..Len(settling) : settling[n].turn <= turns
  /\ Interrupting => main.now.turn <= turns
  /\ Finalizing /\ main.now.to = "main" => ~Hits(main.now)

\* A notice comes after what its turn has said.
NoticesFollow(items, c) ==
  \A n \in 1..Len(items) : items[n][1] = "notice" /\ items[n][2] # 0 => Says(c, items[n][2])

\* The notices of what is said, or will be.
NoticeInv ==
  /\ fg.at \in {"created", "starting"} /\ fg.to = "main" => NoticesFollow(fg.items, conv)
  /\ \A n \in 1..Len(ready) : ready[n].to = "main" => NoticesFollow(ready[n].items, conv)
  /\ \A n \in 1..Len(conv) : conv[n][1] = "notice" /\ conv[n][2] # 0 =>
       \E m \in 1..(n - 1) : conv[m] = <<"turn", conv[n][2]>>

-----------------------------------------------------------------------------
(* The conversation grows, and every turn leaves its word.                 *)

\* What stays and what is new when one sequence is put behind another.
LEMMA ConcatElements ==
  ASSUME NEW S, NEW s \in Seq(S), NEW t \in Seq(S)
  PROVE  /\ s \o t \in Seq(S) /\ Len(s) \in Nat
         /\ \A n \in 1..Len(s) : n \in 1..Len(s \o t) /\ (s \o t)[n] = s[n]
         /\ \A n \in 1..Len(s \o t) : n \in 1..Len(s)
              \/ (n - Len(s) \in 1..Len(t) /\ (s \o t)[n] = t[n - Len(s)])
<1>1. /\ Len(s) \in Nat /\ Len(t) \in Nat /\ Len(s \o t) = Len(s) + Len(t) /\ s \o t \in Seq(S)
      /\ \A n \in 1..(Len(s) + Len(t)) : (s \o t)[n] = IF n <= Len(s) THEN s[n] ELSE t[n - Len(s)]
  BY ConcatProperties, LenProperties
<1>2. ASSUME NEW n \in 1..Len(s) PROVE n \in 1..Len(s \o t) /\ (s \o t)[n] = s[n]
  BY <1>1
<1>3. ASSUME NEW n \in 1..Len(s \o t), n \notin 1..Len(s)
      PROVE  n - Len(s) \in 1..Len(t) /\ (s \o t)[n] = t[n - Len(s)]
  BY <1>1, <1>3
<1> QED
  BY <1>1, <1>2, <1>3

\* An interrupt that has claimed nothing tells the main agent that the turn was
\* interrupted, with the messages of peers that have come.
Told == /\ Barrier /\ main.now.to = "main"
        /\ \E items \in Seq(Items) :
             /\ conv' = conv \o items /\ Carries(items, {})
             /\ \A n \in 1..Len(items) : items[n][1] = "notice" => items[n] = <<"notice", main.now.turn>>

\* What a step adds to the conversation: the items of a turn, the end of one,
\* or the news of an interrupt.
ConvMove ==
  \/ conv' = conv
  \/ StoreItems /\ conv' = conv \o fg.items
  \/ EndTurn /\ conv' = Append(conv, <<"turn", fg.turn>>)
  \/ Told

\* What a step says is the items of a turn, its end, or what Told allows.
LEMMA ConvMoves ==
  ASSUME Core, [Next]_vars
  PROVE  ConvMove
<1>1. QueuesMove
  BY QueueMoves
<1>2. ASSUME Barrier PROVE ConvMove
  <2>1. PICK items \in Seq(Items) :
          /\ Carries(items, main.now.ids)
          /\ \A n \in 1..Len(items) : items[n][1] = "notice" => items[n] = <<"notice", main.now.turn>>
          /\ conv' = (IF main.now.ids = {} /\ main.now.to = "main" THEN conv \o items ELSE conv)
    BY <1>2, BarrierGives DEF Core
  <2> QED
    BY <1>2, <2>1 DEF ConvMove, Told
<1> QED
  BY <1>1, <1>2 DEF QueuesMove, ConvMove, StoreItems, EndTurn

\* Nothing that was said is taken back.
Grown == \A n \in 1..Len(conv) : n \in 1..Len(conv') /\ conv'[n] = conv[n]

\* The conversation only grows, and what a turn has said stays said.
LEMMA ConvGrows ==
  ASSUME Core, ConvMove
  PROVE  Grown /\ \A t : Says(conv, t) => Says(conv', t)
<1>1. conv \in Seq(Items) /\ fg.items \in Seq(Items) /\ <<"turn", fg.turn>> \in Items
  BY DEF Core, TypeOK, TurnTyped, Turn, Items
<1>2. \A items \in Seq(Items) : conv' = conv \o items => Grown
  BY <1>1, ConcatElements DEF Grown
<1>3. conv' = Append(conv, <<"turn", fg.turn>>) => Grown
  BY <1>1, AppendElements DEF Grown
<1>4. Grown
  BY <1>1, <1>2, <1>3 DEF ConvMove, Told, Grown
<1> QED
  BY <1>4 DEF Grown, Says

\* The turn under way goes on, ends, or is the next one.
LEMMA ActiveMoves ==
  ASSUME Core, TurnInv, TurnMove
  PROVE  /\ Active \in Nat /\ Active <= turns /\ Active' \in Nat /\ turns' \in Nat /\ turns <= turns'
         /\ \/ turns' = turns /\ Active' \in {Active, 0}
            \/ turns' = turns + 1 /\ Active = 0 /\ Active' = turns'
<1>1. fg \in Turn /\ turns \in Nat /\ fg.turn \in Nat
  BY DEF Core, TypeOK, TurnTyped, Turn
<1>2. Active = (IF fg.at \in Resting THEN 0 ELSE fg.turn)
      /\ Active' = (IF fg'.at \in Resting THEN 0 ELSE fg'.turn)
  BY DEF Active, Resting
<1>3. Active \in Nat /\ Active <= turns
  BY <1>1, <1>2 DEF TurnInv
<1>4. CASE TurnStays
  BY <1>1, <1>2, <1>3, <1>4 DEF TurnStays
<1>5. CASE TurnRuns
  BY <1>1, <1>2, <1>3, <1>5 DEF TurnRuns, Resting
<1>6. CASE TurnStarts
  BY <1>1, <1>2, <1>3, <1>6 DEF TurnStarts, Resting
<1> QED
  BY <1>4, <1>5, <1>6 DEF TurnMove

\* Every turn but the one under way has still said its part.
LEMMA TurnKept ==
  ASSUME Core, TurnInv, TurnMove, ConvMove
  PROVE  TurnInv'
<1>1. fg \in Turn /\ turns \in Nat /\ fg.turn \in Nat
  BY DEF Core, TypeOK, TurnTyped, Turn
<1>2. Active = (IF fg.at \in Resting THEN 0 ELSE fg.turn)
      /\ Active' = (IF fg'.at \in Resting THEN 0 ELSE fg'.turn)
  BY DEF Active, Resting
<1>3. \A t \in 1..turns : t = Active \/ Says(conv', t)
  BY ConvGrows DEF TurnInv, Ended
<1>4. CASE TurnStays
  <2>1. fg'.at \notin Resting => fg'.turn = turns' /\ turns' # 0
    BY <1>4 DEF TurnStays, TurnInv
  <2>2. \A t \in 1..turns' : t = Active' \/ Says(conv', t)
    BY <1>1, <1>2, <1>3, <1>4 DEF TurnStays
  <2> QED
    BY <2>1, <2>2 DEF TurnInv, Ended
<1>5. CASE TurnRuns
  <2>1. turns' # 0 /\ fg'.turn = turns'
    BY <1>1, <1>5 DEF TurnRuns
  <2>2. Active = 0 /\ Active' = turns + 1
    BY <1>2, <1>5 DEF TurnRuns, Resting
  <2>3. \A t \in 1..turns' : t = Active' \/ Says(conv', t)
    BY <1>1, <1>3, <1>5, <2>2 DEF TurnRuns
  <2> QED
    BY <2>1, <2>3 DEF TurnInv, Ended
<1>6. CASE TurnStarts
  <2>1. Active = 0 /\ Active' = 0 /\ turns' = turns /\ fg'.at \in Resting
    BY <1>2, <1>6 DEF TurnStarts, Resting
  <2>2. \A t \in 1..turns' : t = Active' \/ Says(conv', t)
    BY <1>1, <1>3, <2>1
  <2> QED
    BY <2>1, <2>2 DEF TurnInv, Ended
<1> QED
  BY <1>4, <1>5, <1>6 DEF TurnMove

-----------------------------------------------------------------------------
(* The requests are about turns that were there.                           *)

\* An interrupt that is being delivered does not hit the turn that begins.
LEMMA StillMisses ==
  ASSUME Core, TurnInv, RequestInv, TurnMove, Finalizing, main'.now = main.now
  PROVE  main'.now.to = "main" => ~Hits(main.now)'
<1>1. main.now.turn \in Nat
  BY DEF Core, TypeOK, LoopTyped, Loop, Interrupts
<1>2. main.now.turn <= turns
  BY DEF RequestInv, Interrupting, Finalizing
<1>3. Active' = Active \/ Active' = 0 \/ Active' = turns + 1
  BY ActiveMoves
<1>4. turns \in Nat
  BY DEF Core, TypeOK, TurnTyped
<1> QED
  BY <1>1, <1>2, <1>3, <1>4 DEF RequestInv, Hits

\* One that comes when no turn is under way hits none.
LEMMA NothingToHit ==
  ASSUME fg'.at \in Resting
  PROVE  ~Hits(main.now)'
  BY DEF Hits, Active, Resting

\* The turns the interrupts are about are numbers.
LEMMA RequestTurnsType ==
  ASSUME Core
  PROVE  /\ turns \in Nat /\ \A x \in Escapes : escape[x].turn \in Nat
         /\ \A n \in 1..Len(interrupts) : interrupts[n].turn \in Nat
         /\ \A n \in 1..Len(settling) : settling[n].turn \in Nat
         /\ main.now.turn \in Nat
<1>1. escape \in [Escapes -> Request] /\ interrupts \in Seq(Interrupts) /\ settling \in Seq(Interrupts)
      /\ main \in Loop /\ turns \in Nat
  BY DEF Core, TypeOK, ArrivalsTyped, LoopTyped, TurnTyped
<1>2. \A x \in Escapes : escape[x].turn \in Nat
  BY <1>1 DEF Request
<1>3. main.now.turn \in Nat
  BY <1>1 DEF Loop, Interrupts
<1>4. (\A n \in 1..Len(interrupts) : interrupts[n] \in Interrupts)
      /\ (\A n \in 1..Len(settling) : settling[n] \in Interrupts)
  BY <1>1, ElementOfSeq
<1> QED
  BY <1>1, <1>2, <1>3, <1>4 DEF Interrupts

\* Both ways of claiming for an interrupt apply it with pending inputs.
LEMMA ApplyTakes ==
  ASSUME Core, NothingForInterrupt \/ ClaimedAll
  PROVE  \E ids \in SUBSET Inputs :
           /\ Apply(ids) /\ main.at \in {"claimAll", "claimingAll"}
           /\ \A i \in ids : i \in Pending
<1>1. CASE NothingForInterrupt
  BY <1>1 DEF NothingForInterrupt
<1>2. CASE ClaimedAll
  <2>1. Apply(lock.ids) /\ main.at = "claimingAll" /\ lock.by = "loop"
    BY <1>2 DEF ClaimedAll, Commit
  <2>2. lock.ids = Pending
    BY <2>1 DEF Core, LockInv, LoopLock
  <2>3. lock.ids \in SUBSET Inputs
    BY <2>2 DEF Pending
  <2> QED
    BY <2>1, <2>2, <2>3
<1> QED
  BY <1>1, <1>2

\* An interrupt is about a turn that there was, and is delivered after it.
LEMMA RequestKept ==
  ASSUME Core, SettlingInv, TurnInv, RequestInv, TurnMove, RequestMove
  PROVE  RequestInv'
<1>0. turns \in Nat /\ turns' \in Nat /\ turns <= turns' /\ Active \in Nat /\ Active <= turns
  BY ActiveMoves DEF Core, TypeOK, TurnTyped
<1>1. /\ \A x \in Pressing : escape[x].turn \in Nat /\ escape[x].turn <= turns'
      /\ \A n \in 1..Len(interrupts) : interrupts[n].turn \in Nat /\ interrupts[n].turn <= turns'
      /\ \A n \in 1..Len(settling) : settling[n].turn \in Nat /\ settling[n].turn <= turns'
      /\ main.now.turn \in Nat /\ (Interrupting => main.now.turn <= turns')
  BY <1>0, RequestTurnsType DEF RequestInv, Pressing
<1>2. interrupts \in Seq(Interrupts) /\ settling \in Seq(Interrupts)
  BY DEF Core, TypeOK, LoopTyped
<1> DEFINE Presses == \A x \in Pressing' : escape'[x].turn <= turns'
           Queued == \A n \in 1..Len(interrupts') : interrupts'[n].turn <= turns'
           Settles == \A n \in 1..Len(settling') : settling'[n].turn <= turns'
           Busy == Interrupting' => main'.now.turn <= turns'
           Misses == Finalizing' /\ main'.now.to = "main" => ~Hits(main.now)'
<1>3. UNCHANGED escape => Presses
  BY <1>1 DEF Pressing
<1>4. UNCHANGED interrupts => Queued
  BY <1>1
<1>5. UNCHANGED settling => Settles
  BY <1>1
<1>6. interrupts # << >> /\ interrupts' = Tail(interrupts) => Queued /\ Head(interrupts).turn <= turns'
  BY <1>1, <1>2, TailElements
<1>7. settling # << >> /\ settling' = Tail(settling) => Settles /\ Head(settling).turn <= turns'
  BY <1>1, <1>2, TailElements
<1>8. UNCHANGED main => Busy /\ Misses
  BY <1>1, StillMisses DEF Interrupting, Finalizing
<1>9. CASE RequestsStay
  <2>1. Presses /\ Queued /\ Settles
    BY <1>3, <1>4, <1>5, <1>9 DEF RequestsStay
  <2>2. Interrupting' => Interrupting /\ main'.now = main.now
    BY <1>9 DEF RequestsStay, Interrupting, Finalizing
  <2>3. Misses
    BY <1>9, StillMisses DEF RequestsStay
  <2> QED
    BY <1>1, <2>1, <2>2, <2>3 DEF RequestInv
<1>10. CASE Escape
  <2>1. PICK x \in Escapes :
           /\ \A y \in Escapes : y # x => escape'[y] = escape[y]
           /\ escape'[x].turn = (IF escape'[x].to = "main" THEN Active ELSE 0)
    BY <1>10, EscapeMoves
  <2>2. Presses
    BY <1>0, <1>1, <2>1 DEF Pressing
  <2>3. UNCHANGED <<interrupts, settling, main>>
    BY <1>10, EscapeMoves
  <2> QED
    BY <1>4, <1>5, <1>8, <2>2, <2>3 DEF RequestInv
<1>11. ASSUME NEW x \in Escapes, RequestInterrupt(x) PROVE RequestInv'
  <2>1. /\ \A y \in Escapes : y # x => escape'[y] = escape[y]
        /\ escape'[x].turn = escape[x].turn /\ escape[x].at = "pressed"
        /\ UNCHANGED <<interrupts, settling, main>>
    BY <1>11, RequestInterruptMoves DEF FirstAt
  <2>2. Presses
    BY <1>1, <2>1 DEF Pressing
  <2> QED
    BY <1>4, <1>5, <1>8, <2>1, <2>2 DEF RequestInv
<1>12. ASSUME NEW x \in Escapes, QueueInterrupt(x) PROVE RequestInv'
  <2>1. /\ \A y \in Escapes : y # x => escape'[y] = escape[y]
        /\ escape[x].at = "posted" /\ escape'[x].at = "queued"
        /\ UNCHANGED <<settling, main>>
    BY <1>12, QueueInterruptMoves DEF FirstAt
  <2>2. PICK r \in Interrupts : r.turn = escape[x].turn /\ interrupts' = Append(interrupts, r)
    BY <1>12, QueueInterruptMoves
  <2>3. Presses /\ r.turn <= turns'
    BY <1>1, <2>1, <2>2 DEF Pressing
  <2>4. Queued
    BY <1>1, <1>2, <2>2, <2>3, AppendElements
  <2> QED
    BY <1>5, <1>8, <2>1, <2>3, <2>4 DEF RequestInv
<1>13. CASE Wake
  <2>1. UNCHANGED <<escape, interrupts>>
    BY <1>13, WakeMoves
  <2>2. CASE settling # << >> /\ fg' = NoTurn /\ main'.at = "finalize" /\ main'.now = Head(settling)
               /\ settling' = Tail(settling)
    <3>1. Settles /\ Busy
      BY <1>7, <2>2
    <3>2. Misses
      BY <2>2, NothingToHit DEF NoTurn, Resting
    <3> QED
      BY <1>3, <1>4, <2>1, <3>1, <3>2 DEF RequestInv
  <2>3. CASE settling' = settling /\ main'.at \in {"accept", "input", "top"}
    <3>1. Busy /\ Misses
      BY <2>3 DEF Interrupting, Finalizing
    <3> QED
      BY <1>3, <1>4, <1>5, <2>1, <2>3, <3>1 DEF RequestInv
  <2> QED
    BY <1>13, <2>2, <2>3, WakeMoves
<1>14. CASE Accept
  <2>1. UNCHANGED <<escape, settling>> /\ interrupts # << >> /\ interrupts' = Tail(interrupts)
    BY <1>14, AcceptMoves
  <2>2. main'.at \in {"input", "top"} \/ (main'.at = "claimAll" /\ main'.now = Head(interrupts))
    BY <1>14, AcceptMoves
  <2>3. Busy /\ Misses
    BY <1>6, <2>1, <2>2 DEF Interrupting, Finalizing
  <2> QED
    BY <1>3, <1>5, <1>6, <2>1, <2>3 DEF RequestInv
<1>15. CASE NothingForInterrupt \/ ClaimedAll
  <2>1. PICK ids \in SUBSET Inputs : Apply(ids) /\ main.at \in {"claimAll", "claimingAll"}
    BY <1>15, ApplyTakes
  <2>2. UNCHANGED <<escape, interrupts>>
    BY <2>1, ApplyMoves
  <2>3. PICK now \in Interrupts :
           /\ now.turn = main.now.turn /\ now.to = main.now.to
           /\ \/ settling' = Append(settling, now) /\ main'.at \in {"input", "top"}
              \/ /\ ~Hits(main.now) /\ settling' = settling /\ fg' = fg
                 /\ main'.at = "finalize" /\ main'.now = now
    BY <2>1, ApplyMoves
  <2>4. now.turn <= turns'
    BY <1>1, <2>1, <2>3 DEF Interrupting
  <2>5. ASSUME settling' = Append(settling, now) PROVE Settles
    <3>1. \A n \in 1..Len(settling') : (n \in 1..Len(settling) /\ settling'[n] = settling[n])
          \/ settling'[n] = now
      BY <1>2, <2>5, AppendElements
    <3>2. Settles
      BY <1>1, <2>4, <3>1
    <3> QED
      BY <3>2
  <2>9. Settles
    BY <1>5, <2>3, <2>5
  <2>6. Busy
    BY <2>3, <2>4 DEF Interrupting
  <2>7. Misses
    BY <2>3 DEF Finalizing, Hits, Active
  <2> QED
    BY <1>3, <1>4, <2>2, <2>9, <2>6, <2>7 DEF RequestInv
<1>16. CASE Barrier
  <2>1. UNCHANGED <<escape, interrupts, fg>>
    BY <1>16, BarrierMoves
  <2>2. CASE settling # << >> /\ fg.at = "none" /\ main'.at = "finalize" /\ main'.now = Head(settling)
               /\ settling' = Tail(settling)
    <3>1. Settles /\ Busy
      BY <1>7, <2>2
    <3>2. Misses
      BY <2>1, <2>2, NothingToHit DEF Resting
    <3> QED
      BY <1>3, <1>4, <2>1, <3>1, <3>2 DEF RequestInv
  <2>3. CASE settling' = settling /\ main'.at \in {"context", "accept", "input", "top"}
    <3>1. Busy /\ Misses
      BY <2>3 DEF Interrupting, Finalizing
    <3> QED
      BY <1>3, <1>4, <1>5, <2>1, <2>3, <3>1 DEF RequestInv
  <2> QED
    BY <1>16, <2>2, <2>3, BarrierMoves
<1>17. CASE Context
  <2>1. UNCHANGED <<escape, interrupts, settling>> /\ main'.at \in {"accept", "input", "top"}
    BY <1>17, ContextMoves
  <2>2. Busy /\ Misses
    BY <2>1 DEF Interrupting, Finalizing
  <2> QED
    BY <1>3, <1>4, <1>5, <2>1, <2>2 DEF RequestInv
<1> QED
  BY <1>9, <1>10, <1>11, <1>12, <1>13, <1>14, <1>15, <1>16, <1>17 DEF RequestMove

-----------------------------------------------------------------------------
(* Notices follow.                                                         *)

\* A notice that has waited for its turn may be said later too.
LEMMA NoticesStay ==
  ASSUME Core, ConvMove, NEW items, NoticesFollow(items, conv)
  PROVE  NoticesFollow(items, conv')
  BY ConvGrows DEF NoticesFollow

\* An interrupt that is delivered has waited for its turn.
LEMMA NoticeIsDue ==
  ASSUME Core, TurnInv, RequestInv, Finalizing, main.now.to = "main", main.now.turn # 0
  PROVE  Ended(main.now.turn)
<1>1. main.now.turn \in 1..turns
  BY RequestTurnsType DEF RequestInv, Interrupting, Finalizing
<1>2. main.now.turn # Active
  BY DEF RequestInv, Hits
<1> QED
  BY <1>1, <1>2 DEF TurnInv

\* What an interrupt delivers has waited for the interrupted turn.
LEMMA BarrierFollows ==
  ASSUME Core, TurnInv, RequestInv, Finalizing, main.now.to = "main", NEW items \in Seq(Items),
         \A n \in 1..Len(items) : items[n][1] = "notice" => items[n] = <<"notice", main.now.turn>>
  PROVE  NoticesFollow(items, conv)
<1>1. ASSUME NEW n \in 1..Len(items), items[n][1] = "notice", items[n][2] # 0 PROVE Says(conv,
      items[n][2])
  <2>1. items[n] = <<"notice", main.now.turn>>
    BY <1>1
  <2>2. items[n][2] = main.now.turn
    BY <2>1
  <2> QED
    BY <1>1, <2>2, NoticeIsDue DEF Ended
<1> QED
  BY <1>1 DEF NoticesFollow

\* What a turn is given to begin with.
LEMMA GivenFollows ==
  ASSUME Core, NoticeInv, TurnStarts, fg'.to = "main"
  PROVE  NoticesFollow(fg'.items, conv)
<1>1. CASE StartPeers
  <2>1. PICK items \in Seq(Items) : fg' = NewTurn({}, "main", items)
        /\ \A n \in 1..Len(items) : items[n][1] # "notice"
    BY <1>1, PeersGiven DEF Core
  <2>2. fg'.items = items
    BY <2>1 DEF NewTurn, NoTurn
  <2> QED
    BY <2>1, <2>2 DEF NoticesFollow
<1>2. CASE Claimed
  <2>1. PICK items \in Seq(Items) :
          fg' = NewTurn(lock.ids, lock.to, items) /\ \A n \in 1..Len(items) : items[n][1] # "notice"
    BY <1>2, OldestGiven DEF Core
  <2>2. fg'.items = items
    BY <2>1 DEF NewTurn, NoTurn
  <2> QED
    BY <2>1, <2>2 DEF NoticesFollow
<1>3. CASE StartReady
  <2>1. ready \in Seq(Claims) /\ ready # << >>
    BY <1>3 DEF StartReady, Core, TypeOK
  <2>2. Head(ready) = ready[1] /\ 1 \in 1..Len(ready)
    BY <2>1, TailElements
  <2>3. fg' = NewTurn(ready[1].ids, ready[1].to, ready[1].items)
    BY <1>3, <2>2 DEF StartReady
  <2>4. fg'.to = ready[1].to /\ fg'.items = ready[1].items
    BY <2>3 DEF NewTurn, NoTurn
  <2> QED
    BY <2>2, <2>4 DEF NoticeInv
<1> QED
  BY <1>1, <1>2, <1>3 DEF TurnStarts

\* No notice comes before what its turn has said.
LEMMA NoticeKept ==
  ASSUME Core, TurnInv, RequestInv, NoticeInv, TurnMove, QueuesMove, ConvMove
  PROVE  NoticeInv'
<1>1. conv \in Seq(Items) /\ ready \in Seq(Claims)
  BY DEF Core, TypeOK
<1>2. fg'.at \in {"created", "starting"} /\ fg'.to = "main" => NoticesFollow(fg'.items, conv')
  <2> SUFFICES ASSUME fg'.at \in {"created", "starting"}, fg'.to = "main" PROVE NoticesFollow(fg'.items,
        conv)
    BY NoticesStay
  <2>1. CASE TurnStays
    BY <2>1 DEF TurnStays, NoticeInv
  <2>2. CASE TurnRuns
    BY <2>2 DEF TurnRuns, NoticeInv
  <2>3. CASE TurnStarts
    BY <2>3, GivenFollows
  <2> QED
    BY <2>1, <2>2, <2>3 DEF TurnMove
<1>3. \A n \in 1..Len(ready') : ready'[n].to = "main" => NoticesFollow(ready'[n].items, conv')
  <2>1. CASE UNCHANGED ready
    BY <2>1, NoticesStay DEF NoticeInv
  <2>2. CASE StartReady
    <3>1. ready # << >> /\ ready' = Tail(ready)
      BY <2>2 DEF StartReady
    <3>2. \A n \in 1..Len(ready') : n + 1 \in 1..Len(ready) /\ ready'[n] = ready[n + 1]
      BY <1>1, <3>1, TailElements
    <3> QED
      BY <3>2, NoticesStay DEF NoticeInv
  <2>3. CASE Barrier
    <3>1. PICK items \in Seq(Items) :
            /\ \A n \in 1..Len(items) : items[n][1] = "notice" => items[n] = <<"notice", main.now.turn>>
            /\ ready' = (IF main.now.ids = {} THEN ready
                         ELSE Append(ready, [ids |-> main.now.ids, to |-> main.now.to, items |-> items]))
      BY <2>3, BarrierGives DEF Core
    <3> DEFINE c == [ids |-> main.now.ids, to |-> main.now.to, items |-> items]
    <3>2. Finalizing
      BY <2>3 DEF Barrier, Finalizing
    <3>3. c.to = "main" => NoticesFollow(c.items, conv')
      BY <3>1, <3>2, BarrierFollows, NoticesStay
    <3>4. c \in Claims
      BY DEF Claims, Core, TypeOK, LoopTyped, Loop, Interrupts
    <3> HIDE DEF c
    <3>5. CASE ready' = Append(ready, c)
      <4>1. \A n \in 1..Len(ready') : (n \in 1..Len(ready) /\ ready'[n] = ready[n]) \/ ready'[n] = c
        BY <1>1, <3>4, <3>5, AppendElements
      <4>2. \A n \in 1..Len(ready) : ready[n].to = "main" => NoticesFollow(ready[n].items, conv')
        BY NoticesStay DEF NoticeInv
      <4> QED
        BY <3>3, <4>1, <4>2
    <3> QED
      BY <2>1, <3>1, <3>5 DEF c
  <2> QED
    BY <2>1, <2>2, <2>3 DEF QueuesMove
<1>4. ASSUME NEW n \in 1..Len(conv'), conv'[n][1] = "notice", conv'[n][2] # 0
      PROVE  \E m \in 1..(n - 1) : conv'[m] = <<"turn", conv'[n][2]>>
  <2>1. CASE n \in 1..Len(conv)
    <3>1. conv'[n] = conv[n]
      BY <2>1, ConvGrows DEF Grown
    <3>2. PICK m \in 1..(n - 1) : conv[m] = <<"turn", conv[n][2]>>
      BY <1>4, <2>1, <3>1 DEF NoticeInv
    <3>3. m \in 1..Len(conv)
      BY <1>1, <2>1, LenProperties
    <3> QED
      BY <3>1, <3>2, <3>3, ConvGrows DEF Grown
  <2>2. CASE n \notin 1..Len(conv)
    <3>1. Says(conv, conv'[n][2])
      <4>1. CASE conv' = conv
        BY <2>2, <4>1
      <4>2. ASSUME NEW items \in Seq(Items), conv' = conv \o items, NoticesFollow(items,
            conv) PROVE Says(conv, conv'[n][2])
        <5>1. n - Len(conv) \in 1..Len(items) /\ conv'[n] = items[n - Len(conv)]
          BY <1>1, <2>2, <4>2, ConcatElements
        <5> QED
          BY <1>4, <4>2, <5>1 DEF NoticesFollow
      <4>3. CASE StoreItems /\ conv' = conv \o fg.items
        <5>1. fg.at = "starting" /\ fg.to = "main" /\ fg.items \in Seq(Items)
          BY <4>3 DEF StoreItems, Core, CarriersInv, TurnCarries, TypeOK, TurnTyped, Turn
        <5> QED
          BY <4>2, <4>3, <5>1 DEF NoticeInv
      <4>4. CASE conv' = Append(conv, <<"turn", fg.turn>>)
        <5>1. <<"turn", fg.turn>> \in Items
          BY DEF Core, TypeOK, TurnTyped, Turn, Items
        <5>2. conv'[n] = <<"turn", fg.turn>>
          BY <1>1, <2>2, <4>4, <5>1, AppendElements
        <5>3. conv'[n][1] = "turn"
          BY <5>2
        <5> QED
          BY <1>4, <5>3
      <4>5. CASE Told
        <5>1. PICK items \in Seq(Items) :
                conv' = conv \o items /\ \A k \in 1..Len(items) : items[k][1] = "notice"
                      => items[k] = <<"notice", main.now.turn>>
          BY <4>5 DEF Told
        <5>2. Finalizing /\ main.now.to = "main"
          BY <4>5 DEF Told, Barrier, Finalizing
        <5> QED
          BY <4>2, <5>1, <5>2, BarrierFollows
      <4> QED
        BY <4>1, <4>3, <4>4, <4>5 DEF ConvMove
    <3>2. PICK m \in 1..Len(conv) : conv[m] = <<"turn", conv'[n][2]>>
      BY <3>1 DEF Says
    <3>3. conv'[m] = conv[m]
      BY <3>2, ConvGrows DEF Grown
    <3>4. m \in 1..(n - 1)
      BY <1>1, <2>2, <3>2, LenProperties
    <3> QED
      BY <3>2, <3>3, <3>4
  <2> QED
    BY <2>1, <2>2
<1> QED
  BY <1>2, <1>3, <1>4 DEF NoticeInv

-----------------------------------------------------------------------------
(* The requests for interrupts are in line.                                *)

\* The presses of Escape have come one after the other, and stay in order.
PressedInv ==
  /\ \A x \in Pressing : escape[x].place <= IF escape[x].at = "pressed" THEN keys ELSE given
  /\ \A x, y \in Pressing : escape[x].at = escape[y].at /\ escape[x].place = escape[y].place => x = y

\* The press e is queued as an interrupt before f.
Sooner(e, f) ==
  (e.at = f.at /\ e.place < f.place) \/ (e.at = "posted" /\ f.at = "pressed")

\* If r is about turn t, so is s, which comes after it.
Behind(t, r, s) == t # 0 /\ r.to = "main" /\ r.turn = t /\ s.to = "main" => s.turn = t

\* Those that wait together are about the same turn, once it is under way; the
\* loop is busy with one only after it has noted the turn as interrupted.
QueueInv ==
  /\ \A x, y \in Pressing : Sooner(escape[x], escape[y]) => Behind(Active, escape[x], escape[y])
  /\ \A n \in 1..Len(interrupts) : \A y \in Pressing : Behind(Active, interrupts[n], escape[y])
  /\ \A m, n \in 1..Len(interrupts) : m < n => Behind(Active, interrupts[m], interrupts[n])
  /\ main.at \in {"claimAll", "claimingAll"} =>
       /\ \A y \in Pressing : Behind(Active, main.now, escape[y])
       /\ \A n \in 1..Len(interrupts) : Behind(Active, main.now, interrupts[n])
       /\ main.now.turn = 0 \/ main.now.turn \in interrupted

\* The presses of Escape stay in order.
LEMMA PressedKept ==
  ASSUME Core, PressedInv, RequestMove, keys' \in {keys, keys + 1}, given' \in Nat, given <= given'
  PROVE  PressedInv'
<1>1. escape \in [Escapes -> Request] /\ keys \in Int /\ given \in Nat
  BY DEF Core, TypeOK, ArrivalsTyped, PromptTyped, HubTyped
<1>2. \A x \in Escapes : escape[x].place \in Nat
  BY <1>1 DEF Request
<1>3. given' \in Int
  OBVIOUS
<1>4. ASSUME UNCHANGED escape PROVE PressedInv'
  <2>1. keys <= keys' /\ keys' \in Int
    BY <1>1
  <2> QED
    BY <1>1, <1>2, <1>3, <1>4, <2>1 DEF PressedInv, Pressing
<1>5. CASE Escape
  <2>1. PICK x \in Escapes :
          /\ escape[x].at = "none" /\ \A y \in Escapes : y # x => escape'[y] = escape[y]
          /\ escape'[x].at = "pressed" /\ escape'[x].place = keys + 1
    BY <1>5, EscapeMoves
  <2>2. keys' = keys + 1 /\ given' = given
    BY <1>5, EscapeMoves
  <2>3. \A y \in Pressing' : y = x \/ (y \in Pressing /\ escape'[y] = escape[y])
    BY <2>1 DEF Pressing
  <2>4. \A y \in Pressing : escape[y].at = "pressed" => escape[y].place # keys + 1
    BY <1>1, <1>2 DEF PressedInv, Pressing
  <2>5. \A y \in Pressing' : escape'[y].place <= IF escape'[y].at = "pressed" THEN keys' ELSE given'
    BY <1>1, <1>2, <2>1, <2>2, <2>3 DEF PressedInv, Pressing
  <2>6. \A y, z \in Pressing' : escape'[y].at = escape'[z].at /\ escape'[y].place = escape'[z].place
        => y = z
    BY <2>1, <2>3, <2>4 DEF PressedInv
  <2> QED
    BY <2>5, <2>6 DEF PressedInv
<1>6. ASSUME NEW x \in Escapes, RequestInterrupt(x) PROVE PressedInv'
  <2>1. /\ escape[x].at = "pressed" /\ \A y \in Escapes : y # x => escape'[y] = escape[y]
        /\ escape'[x].at = "posted" /\ escape'[x].place = given + 1
        /\ keys' = keys /\ given' = given + 1
    BY <1>6, RequestInterruptMoves DEF FirstAt
  <2>2. \A y \in Pressing' : y = x \/ (y \in Pressing /\ escape'[y] = escape[y])
    BY <2>1 DEF Pressing
  <2>3. \A y \in Pressing : escape[y].at = "posted" => escape[y].place # given + 1
    BY <1>1, <1>2 DEF PressedInv, Pressing
  <2>4. \A y \in Pressing' : escape'[y].place <= IF escape'[y].at = "pressed" THEN keys' ELSE given'
    BY <1>1, <1>2, <2>1, <2>2 DEF PressedInv, Pressing
  <2>5. \A y, z \in Pressing' : escape'[y].at = escape'[z].at /\ escape'[y].place = escape'[z].place
        => y = z
    BY <2>1, <2>2, <2>3 DEF PressedInv
  <2> QED
    BY <2>4, <2>5 DEF PressedInv
<1>7. ASSUME NEW x \in Escapes, QueueInterrupt(x) PROVE PressedInv'
  <2>1. /\ \A y \in Escapes : y # x => escape'[y] = escape[y]
        /\ escape'[x].at = "queued" /\ keys' = keys /\ given' = given
    BY <1>7, QueueInterruptMoves
  <2>2. \A y \in Pressing' : y \in Pressing /\ escape'[y] = escape[y]
    BY <2>1 DEF Pressing
  <2> QED
    BY <2>1, <2>2 DEF PressedInv
<1>8. NothingForInterrupt \/ ClaimedAll => UNCHANGED escape
  BY DEF NothingForInterrupt, ClaimedAll, Apply, arrivals
<1> QED
  BY <1>4, <1>5, <1>6, <1>7, <1>8, WakeMoves, AcceptMoves, ContextMoves
     DEF RequestMove, RequestsStay, Barrier

\* A turn that begins is not the one that r is about.
LEMMA BehindStays ==
  ASSUME Core, TurnInv, TurnMove, NEW r, NEW s, r.turn \in Nat, r.turn <= turns, Behind(Active, r, s)
  PROVE  Behind(Active', r, s)
<1>1. Active' \in {Active, 0, turns + 1} /\ turns \in Nat
  BY ActiveMoves DEF Core, TypeOK, TurnTyped
<1> QED
  BY <1>1 DEF Behind

\* The turn may change before anything else does.
LEMMA LineStays ==
  ASSUME Core, TurnInv, RequestInv, QueueInv, TurnMove
  PROVE  /\ \A x, y \in Pressing : Sooner(escape[x], escape[y]) => Behind(Active', escape[x], escape[y])
         /\ \A n \in 1..Len(interrupts) : \A y \in Pressing : Behind(Active', interrupts[n], escape[y])
         /\ \A m, n \in 1..Len(interrupts) : m < n => Behind(Active', interrupts[m], interrupts[n])
         /\ main.at \in {"claimAll", "claimingAll"} =>
              /\ \A y \in Pressing : Behind(Active', main.now, escape[y])
              /\ \A n \in 1..Len(interrupts) : Behind(Active', main.now, interrupts[n])
<1>1. /\ \A x \in Pressing : escape[x].turn \in Nat /\ escape[x].turn <= turns
      /\ \A n \in 1..Len(interrupts) : interrupts[n].turn \in Nat /\ interrupts[n].turn <= turns
      /\ main.now.turn \in Nat /\ (main.at \in {"claimAll", "claimingAll"} => main.now.turn <= turns)
  BY RequestTurnsType DEF RequestInv, Pressing, Interrupting
<1>2. \A x, y \in Pressing : Sooner(escape[x], escape[y]) => Behind(Active', escape[x], escape[y])
  BY <1>1, BehindStays DEF QueueInv
<1>3. \A n \in 1..Len(interrupts) : \A y \in Pressing : Behind(Active', interrupts[n], escape[y])
  BY <1>1, BehindStays DEF QueueInv
<1>4. \A m, n \in 1..Len(interrupts) : m < n => Behind(Active', interrupts[m], interrupts[n])
  BY <1>1, BehindStays DEF QueueInv
<1>5. main.at \in {"claimAll", "claimingAll"} =>
        /\ \A y \in Pressing : Behind(Active', main.now, escape[y])
        /\ \A n \in 1..Len(interrupts) : Behind(Active', main.now, interrupts[n])
  BY <1>1, BehindStays DEF QueueInv
<1> QED
  BY <1>2, <1>3, <1>4, <1>5

\* The interrupts that are behind one of the active turn are about it too.
LEMMA QueueKept ==
  ASSUME Core, SettlingInv, TurnInv, RequestInv, PressedInv, QueueInv, TurnMove, RequestMove
  PROVE  QueueInv'
<1>1. escape \in [Escapes -> Request] /\ interrupts \in Seq(Interrupts) /\ keys \in Int /\ given \in Nat
  BY DEF Core, TypeOK, ArrivalsTyped, LoopTyped, PromptTyped, HubTyped
<1>2. \A x \in Escapes : escape[x].place \in Nat
  BY <1>1 DEF Request
<1> DEFINE Presses == \A x, y \in Pressing' : Sooner(escape'[x], escape'[y])
      => Behind(Active', escape'[x], escape'[y])
           QueuedOnes == \A n \in 1..Len(interrupts') : \A y \in Pressing' : Behind(Active',
                 interrupts'[n], escape'[y])
           Queue == \A m, n \in 1..Len(interrupts') : m < n
                 => Behind(Active', interrupts'[m], interrupts'[n])
           Busy == main'.at \in {"claimAll", "claimingAll"} =>
                     /\ \A y \in Pressing' : Behind(Active', main'.now, escape'[y])
                     /\ \A n \in 1..Len(interrupts') : Behind(Active', main'.now, interrupts'[n])
                     /\ main'.now.turn = 0 \/ main'.now.turn \in interrupted'
<1>3. Presses /\ QueuedOnes /\ Queue /\ Busy => QueueInv'
  BY DEF QueueInv
<1>4. UNCHANGED <<escape, interrupts>> => Presses /\ QueuedOnes /\ Queue
  BY LineStays DEF Pressing
<1>5. main'.at \notin {"claimAll", "claimingAll"} => Busy
  OBVIOUS
<1>6. CASE RequestsStay
  <2>1. UNCHANGED <<escape, interrupts, interrupted>>
    BY <1>6 DEF RequestsStay
  <2>2. main'.at \in {"claimAll", "claimingAll"} => main.at \in {"claimAll", "claimingAll"}
        /\ main'.now = main.now
    BY <1>6 DEF RequestsStay
  <2>3. Busy
    BY <2>1, <2>2, LineStays DEF Pressing, QueueInv
  <2> QED
    BY <1>3, <1>4, <2>1, <2>3
<1>7. CASE Escape
  <2>1. PICK x \in Escapes :
          /\ escape[x].at = "none" /\ \A y \in Escapes : y # x => escape'[y] = escape[y]
          /\ escape'[x].at = "pressed" /\ escape'[x].place = keys + 1
          /\ escape'[x].turn = (IF escape'[x].to = "main" THEN Active ELSE 0)
    BY <1>7, EscapeMoves
  <2>2. UNCHANGED <<interrupts, main, interrupted>> /\ Active' = Active
    BY <1>7, EscapeMoves DEF SameTurn, Active
  <2>3. \A y \in Pressing' : y = x \/ (y \in Pressing /\ escape'[y] = escape[y])
    BY <2>1 DEF Pressing
  <2>4. \A r : Behind(Active', r, escape'[x])
    BY <2>1, <2>2 DEF Behind
  <2>5. \A y \in Pressing : ~Sooner(escape'[x], escape[y])
    BY <1>1, <1>2, <2>1 DEF PressedInv, Pressing, Sooner
  <2>6. ~Sooner(escape'[x], escape'[x])
    BY <1>1, <2>1 DEF Sooner
  <2>7. Presses
    BY <2>3, <2>4, <2>5, <2>6, LineStays
  <2>8. QueuedOnes /\ Queue
    BY <2>2, <2>3, <2>4, LineStays
  <2>9. Busy
    BY <2>2, <2>3, <2>4, LineStays DEF QueueInv
  <2> QED
    BY <1>3, <2>7, <2>8, <2>9
<1>8. ASSUME NEW x \in Escapes, RequestInterrupt(x) PROVE QueueInv'
  <2>1. /\ escape[x].at = "pressed" /\ \A y \in Escapes : y # x => escape'[y] = escape[y]
        /\ \A y \in Escapes : escape[y].at = "pressed" => escape[x].place <= escape[y].place
        /\ escape'[x].at = "posted" /\ escape'[x].place = given + 1
        /\ escape'[x].turn = escape[x].turn /\ escape'[x].to = escape[x].to
        /\ UNCHANGED <<interrupts, main, interrupted>>
    BY <1>8, RequestInterruptMoves DEF FirstAt
  <2>2. \A y \in Pressing' : y = x \/ (y \in Pressing /\ escape'[y] = escape[y])
    BY <2>1 DEF Pressing
  <2>3. x \in Pressing
    BY <2>1 DEF Pressing
  <2>4. \A r : /\ Behind(Active', r, escape'[x]) <=> Behind(Active', r, escape[x])
               /\ Behind(Active', escape'[x], r) <=> Behind(Active', escape[x], r)
    BY <2>1 DEF Behind
  <2>5. ASSUME NEW y \in Pressing, Sooner(escape[y], escape'[x]) PROVE Sooner(escape[y], escape[x])
    BY <2>1, <2>5 DEF Sooner
  <2>6. ASSUME NEW y \in Pressing, y # x, Sooner(escape'[x], escape[y]) PROVE Sooner(escape[x],
        escape[y])
    <3>1. escape[y].at = "pressed"
      BY <1>1, <1>2, <2>1, <2>6 DEF PressedInv, Pressing, Sooner
    <3>2. escape[x].place # escape[y].place
      BY <2>1, <2>3, <2>6, <3>1 DEF PressedInv
    <3> QED
      BY <1>2, <2>1, <3>1, <3>2 DEF Sooner, Pressing
  <2>7. ~Sooner(escape'[x], escape'[x])
    BY <1>1, <2>1 DEF Sooner
  <2>8. Presses
    BY <2>2, <2>3, <2>4, <2>5, <2>6, <2>7, LineStays
  <2>9. QueuedOnes /\ Queue
    BY <2>1, <2>2, <2>3, <2>4, LineStays
  <2>10. Busy
    BY <2>1, <2>2, <2>3, <2>4, LineStays DEF QueueInv
  <2> QED
    BY <1>3, <2>8, <2>9, <2>10
<1>9. ASSUME NEW x \in Escapes, QueueInterrupt(x) PROVE QueueInv'
  <2>1. /\ escape[x].at = "posted" /\ \A y \in Escapes : y # x => escape'[y] = escape[y]
        /\ \A y \in Escapes : escape[y].at = "posted" => escape[x].place <= escape[y].place
        /\ escape'[x].at = "queued" /\ UNCHANGED <<main, interrupted>>
    BY <1>9, QueueInterruptMoves DEF FirstAt
  <2>2. PICK r \in Interrupts : r.turn = escape[x].turn /\ r.to = escape[x].to
        /\ interrupts' = Append(interrupts, r)
    BY <1>9, QueueInterruptMoves
  <2>3. \A y \in Pressing' : y # x /\ y \in Pressing /\ escape'[y] = escape[y]
    BY <2>1 DEF Pressing
  <2>4. x \in Pressing
    BY <2>1 DEF Pressing
  <2>5. ASSUME NEW y \in Pressing, y # x PROVE Sooner(escape[x], escape[y])
    <3>1. escape[y].at = "posted" => escape[x].place # escape[y].place
      BY <2>1, <2>4, <2>5 DEF PressedInv
    <3> QED
      BY <1>2, <2>1, <3>1 DEF Sooner, Pressing
  <2>6. \A s : /\ Behind(Active', s, r) <=> Behind(Active', s, escape[x])
               /\ Behind(Active', r, s) <=> Behind(Active', escape[x], s)
    BY <2>2 DEF Behind
  <2>7. /\ \A n \in 1..Len(interrupts') :
             (n \in 1..Len(interrupts) /\ interrupts'[n] = interrupts[n]) \/ (n = Len(interrupts) + 1
                   /\ interrupts'[n] = r)
        /\ Len(interrupts) \in Nat
    BY <1>1, <2>2, AppendProperties, LenProperties
  <2>8. Presses
    BY <2>3, LineStays
  <2>9. QueuedOnes
    BY <2>3, <2>4, <2>5, <2>6, <2>7, LineStays
  <2>10. Queue
    <3> SUFFICES ASSUME NEW m \in 1..Len(interrupts'), NEW n \in 1..Len(interrupts'), m < n
                 PROVE  Behind(Active', interrupts'[m], interrupts'[n])
      OBVIOUS
    <3>1. n <= Len(interrupts) + 1
      BY <2>7
    <3>2. m # Len(interrupts) + 1
      BY <2>7, <3>1
    <3>3. m \in 1..Len(interrupts) /\ interrupts'[m] = interrupts[m]
      BY <2>7, <3>2
    <3> QED
      BY <2>4, <2>6, <2>7, <3>2, <3>3, LineStays
  <2>11. Busy
    BY <2>1, <2>3, <2>4, <2>6, <2>7, LineStays DEF QueueInv
  <2> QED
    BY <1>3, <2>8, <2>9, <2>10, <2>11
<1>10. CASE Wake
  BY <1>3, <1>4, <1>5, <1>10, WakeMoves
<1>11. CASE Accept
  <2>1. /\ interrupts # << >> /\ interrupts' = Tail(interrupts) /\ escape' = escape
        /\ \/ main'.at \in {"input", "top"}
           \/ /\ interrupted' = interrupted \cup ({Head(interrupts).turn} \ {0})
              /\ main'.at = "claimAll" /\ main'.now = Head(interrupts)
    BY <1>11, AcceptMoves
  <2>2. /\ Head(interrupts) = interrupts[1] /\ 1 \in 1..Len(interrupts)
        /\ \A n \in 1..Len(interrupts') : n + 1 \in 1..Len(interrupts)
             /\ interrupts'[n] = interrupts[n + 1]
    BY <1>1, <2>1, TailElements
  <2>3. Presses
    BY <2>1, LineStays DEF Pressing
  <2>4. QueuedOnes
    BY <2>1, <2>2, LineStays DEF Pressing
  <2>5. Queue
    <3> SUFFICES ASSUME NEW m \in 1..Len(interrupts'), NEW n \in 1..Len(interrupts'), m < n
                 PROVE  Behind(Active', interrupts'[m], interrupts'[n])
      OBVIOUS
    <3>1. m + 1 < n + 1
      OBVIOUS
    <3> QED
      BY <2>2, <3>1, LineStays
  <2>6. ASSUME NEW n \in 1..Len(interrupts') PROVE Behind(Active', interrupts[1], interrupts'[n])
    <3>1. 1 < n + 1
      OBVIOUS
    <3> QED
      BY <2>2, <3>1, LineStays
  <2>7. Busy
    BY <2>1, <2>2, <2>6, LineStays DEF Pressing
  <2> QED
    BY <1>3, <2>3, <2>4, <2>5, <2>7
<1>12. CASE NothingForInterrupt \/ ClaimedAll
  <2>1. PICK ids \in SUBSET Inputs : Apply(ids) /\ main.at \in {"claimAll", "claimingAll"}
    BY <1>12, ApplyTakes
  <2> QED
    BY <1>3, <1>4, <1>5, <2>1, ApplyMoves
<1>13. CASE Barrier
  BY <1>3, <1>4, <1>5, <1>13, BarrierMoves
<1>14. CASE Context
  BY <1>3, <1>4, <1>5, <1>14, ContextMoves
<1> QED
  BY <1>6, <1>7, <1>8, <1>9, <1>10, <1>11, <1>12, <1>13, <1>14 DEF RequestMove

-----------------------------------------------------------------------------
(* An interrupt that waits for its turn is the last that is accepted       *)
(* before the turn is over.                                                *)

\* The loop will claim nothing for r before the turn is over: it is none of
\* the main agent's, or of a turn of those in S, which are interrupted.
Past(r, S) == r.to = "child" \/ r.turn \in S

LaterInv ==
  /\ settling # << >> => fg.at # "created"
  /\ settling # << >> /\ fg.at \notin Resting =>
       /\ fg.turn \in interrupted
       /\ \A x \in Pressing : Past(escape[x], interrupted)
       /\ \A n \in 1..Len(interrupts) : Past(interrupts[n], interrupted)
  /\ settling # << >> /\ main.at = "accept" => Past(Head(interrupts), interrupted)
  /\ settling # << >> /\ main.at \in {"claimAll", "claimingAll"} => main.now.to = "child"
  /\ "interrupt" \in main.done /\ main.at \in {"finalize", "barrier", "context"} => fg.at = "none"

\* No turn is started while an interrupt waits.
LEMMA StartsAlone ==
  ASSUME SettlingInv, TurnStarts
  PROVE  /\ settling = << >> /\ settling' = settling
         /\ main.at \in {"top", "claiming"} /\ main'.at = "top" /\ UNCHANGED conv
<1>1. CASE StartPeers
  BY <1>1 DEF StartPeers, LoopAt, Deciding, SettlingInv, Finalizing, Asleep
<1>2. CASE StartReady
  BY <1>2 DEF StartReady, LoopAt, Deciding, SettlingInv, Finalizing, Asleep
<1>3. CASE Claimed
  <2>1. fg.at = "none"
    BY DEF TurnStarts
  <2> QED
    BY <1>3, <2>1 DEF Claimed, LoopAt, SettlingInv, Finalizing, Asleep
<1> QED
  BY <1>1, <1>2, <1>3 DEF TurnStarts

\* While one interrupt waits for its turn, no other of that turn is accepted.
LEMMA LaterKept ==
  ASSUME Core, SettlingInv, QueueInv, LaterInv, TurnMove, RequestMove
  PROVE  LaterInv'
<1>1. interrupts \in Seq(Interrupts) /\ fg \in Turn
  BY DEF Core, TypeOK, LoopTyped, TurnTyped
<1>2. /\ \A x \in Escapes : escape[x].to \in Agents
      /\ \A n \in 1..Len(interrupts) : interrupts[n].to \in Agents
      /\ main.now.to \in Agents
  <2>1. escape \in [Escapes -> Request] /\ main \in Loop
    BY DEF Core, TypeOK, ArrivalsTyped, LoopTyped
  <2>2. \A n \in 1..Len(interrupts) : interrupts[n] \in Interrupts
    BY <1>1, ElementOfSeq
  <2> QED
    BY <2>1, <2>2 DEF Request, Interrupts, Loop
<1> DEFINE Waits == settling' # << >> => fg'.at # "created"
           Noted == settling' # << >> /\ fg'.at \notin Resting =>
                      /\ fg'.turn \in interrupted'
                      /\ \A x \in Pressing' : Past(escape'[x], interrupted')
                      /\ \A n \in 1..Len(interrupts') : Past(interrupts'[n], interrupted')
           Accepts == settling' # << >> /\ main'.at = "accept" => Past(Head(interrupts'), interrupted')
           Claiming == settling' # << >> /\ main'.at \in {"claimAll", "claimingAll"}
                 => main'.now.to = "child"
           Alone == "interrupt" \in main'.done /\ main'.at \in {"finalize", "barrier", "context"}
                 => fg'.at = "none"
<1>3. Waits /\ Noted /\ Accepts /\ Claiming /\ Alone => LaterInv'
  BY DEF LaterInv
<1>4. UNCHANGED <<settling, main>> /\ SameTurn => Waits /\ Claiming /\ Alone
  BY DEF SameTurn, LaterInv
<1>5. CASE RequestsStay
  <2>1. UNCHANGED <<escape, interrupts, settling, interrupted>>
    BY <1>5 DEF RequestsStay
  <2>2. Waits
    BY <2>1, StartsAlone DEF TurnMove, TurnStays, TurnRuns, LaterInv
  <2>3. settling' # << >> /\ fg'.at \notin Resting => fg.at \notin Resting /\ fg'.turn = fg.turn
    BY <2>1 DEF TurnMove, TurnStays, TurnRuns, TurnStarts, LaterInv, Resting
  <2>4. Noted
    BY <2>1, <2>3 DEF LaterInv, Pressing
  <2>5. Accepts
    BY <1>5, <2>1 DEF RequestsStay, LaterInv
  <2>6. Claiming
    BY <1>5, <2>1 DEF RequestsStay, LaterInv
  <2>7. Alone
    <3> SUFFICES ASSUME "interrupt" \in main'.done, main'.at \in {"finalize", "barrier",
          "context"} PROVE fg'.at = "none"
      OBVIOUS
    <3>1. main.at \in {"finalize", "barrier", "context"} /\ main'.done = main.done
      BY <1>5 DEF RequestsStay, Finalizing
    <3>2. fg.at = "none"
      BY <3>1 DEF LaterInv
    <3>3. ~TurnRuns /\ ~TurnStarts
      BY <3>1, <3>2, StartsAlone DEF TurnRuns
    <3> QED
      BY <3>2, <3>3 DEF TurnMove, TurnStays
  <2> QED
    BY <1>3, <2>2, <2>4, <2>5, <2>6, <2>7
<1>6. CASE Escape
  <2>1. PICK x \in Escapes :
          /\ \A y \in Escapes : y # x => escape'[y] = escape[y]
          /\ escape'[x].turn = (IF escape'[x].to = "main" THEN Active ELSE 0) /\ escape'[x].to \in Agents
    BY <1>6, EscapeMoves
  <2>2. UNCHANGED <<interrupts, settling, main, interrupted>> /\ SameTurn
    BY <1>6, EscapeMoves
  <2>3. \A y \in Pressing' : y = x \/ (y \in Pressing /\ escape'[y] = escape[y])
    BY <2>1 DEF Pressing
  <2>5. settling # << >> /\ fg.at \notin Resting => Past(escape'[x], interrupted)
    BY <2>1 DEF LaterInv, Past, Active, Resting, Agents
  <2>6. Noted
    BY <2>2, <2>3, <2>5 DEF LaterInv, SameTurn
  <2>7. Accepts
    BY <2>2 DEF LaterInv
  <2> QED
    BY <1>3, <1>4, <2>2, <2>6, <2>7
<1>7. ASSUME NEW x \in Escapes, RequestInterrupt(x) PROVE LaterInv'
  <2>1. /\ escape[x].at = "pressed" /\ \A y \in Escapes : y # x => escape'[y] = escape[y]
        /\ escape'[x].turn = escape[x].turn /\ escape'[x].to = escape[x].to
        /\ UNCHANGED <<interrupts, settling, main, interrupted, fg>>
    BY <1>7, RequestInterruptMoves DEF FirstAt
  <2>2. \A y \in Pressing' : \E z \in Pressing : escape'[y].turn = escape[z].turn
        /\ escape'[y].to = escape[z].to
    BY <2>1 DEF Pressing
  <2>3. Noted
    BY <2>1, <2>2 DEF LaterInv, Past
  <2> QED
    BY <1>3, <2>1, <2>3 DEF LaterInv
<1>8. ASSUME NEW x \in Escapes, QueueInterrupt(x) PROVE LaterInv'
  <2>1. /\ escape[x].at = "posted" /\ \A y \in Escapes : y # x => escape'[y] = escape[y]
        /\ escape'[x].at = "queued" /\ UNCHANGED <<settling, main, interrupted>> /\ SameTurn
    BY <1>8, QueueInterruptMoves DEF FirstAt
  <2>2. PICK r \in Interrupts : r.turn = escape[x].turn /\ r.to = escape[x].to
        /\ interrupts' = Append(interrupts, r)
    BY <1>8, QueueInterruptMoves
  <2>3. \A y \in Pressing' : y \in Pressing /\ escape'[y] = escape[y]
    BY <2>1 DEF Pressing
  <2>4. \A n \in 1..Len(interrupts') : (n \in 1..Len(interrupts) /\ interrupts'[n] = interrupts[n])
        \/ interrupts'[n] = r
    BY <1>1, <2>2, AppendElements
  <2>5. x \in Pressing
    BY <2>1 DEF Pressing
  <2>6. Noted
    BY <2>1, <2>2, <2>3, <2>4, <2>5 DEF LaterInv, SameTurn, Past
  <2>7. Accepts
    BY <1>8, <2>1 DEF QueueInterrupt, Comes, Yielded
  <2> QED
    BY <1>3, <1>4, <2>1, <2>6, <2>7
<1>10. CASE Wake
  <2>1. UNCHANGED <<escape, interrupts, interrupted>> /\ main.at = "wait"
    BY <1>10, WakeMoves
  <2>2. CASE fg.at = "ended" /\ fg' = NoTurn /\ main'.at = "finalize"
    <3>1. fg'.at = "none"
      BY <2>2 DEF NoTurn
    <3> QED
      BY <1>3, <2>2, <3>1 DEF Resting
  <2>3. CASE /\ settling = << >> \/ (fg.at # "ended" /\ fg' = fg)
             /\ settling' = settling /\ main'.at \in {"accept", "input", "top"}
             /\ main'.at = "accept" => interrupts # << >>
    <3>1. settling # << >> => fg' = fg /\ fg.at \notin Resting
      BY <2>1, <2>3 DEF SettlingInv, LaterInv, Finalizing, Resting
    <3>2. Waits /\ Claiming /\ Alone
      BY <2>3, <3>1 DEF LaterInv
    <3>3. Noted
      BY <2>1, <2>3, <3>1 DEF LaterInv, Pressing
    <3>4. Accepts
      <4> SUFFICES ASSUME settling' # << >>, main'.at = "accept" PROVE Past(Head(interrupts),
            interrupted)
        BY <2>1
      <4>1. Head(interrupts) = interrupts[1] /\ 1 \in 1..Len(interrupts)
        BY <1>1, <2>3, TailElements
      <4> QED
        BY <2>3, <3>1, <4>1 DEF LaterInv
    <3> QED
      BY <1>3, <3>2, <3>3, <3>4
  <2> QED
    BY <1>10, <2>2, <2>3, WakeMoves
<1>11. CASE Accept
  <2>1. /\ interrupts # << >> /\ interrupts' = Tail(interrupts) /\ UNCHANGED <<escape, settling, fg>>
        /\ main.at = "accept"
        /\ interrupted \subseteq interrupted'
        /\ \/ main'.at \in {"input", "top"}
           \/ Head(interrupts).turn \notin interrupted /\ main'.at = "claimAll"
                /\ main'.now = Head(interrupts)
    BY <1>11, AcceptMoves
  <2>2. \A n \in 1..Len(interrupts') : n + 1 \in 1..Len(interrupts) /\ interrupts'[n] = interrupts[n + 1]
    BY <1>1, <2>1, TailElements
  <2>3. Noted
    BY <2>1, <2>2 DEF LaterInv, Past, Pressing
  <2>4. Claiming
    BY <2>1 DEF LaterInv, Past
  <2>5. Waits /\ Accepts /\ Alone
    BY <2>1 DEF LaterInv
  <2> QED
    BY <1>3, <2>3, <2>4, <2>5
<1>12. CASE NothingForInterrupt \/ ClaimedAll
  <2>1. PICK ids \in SUBSET Inputs : Apply(ids) /\ main.at \in {"claimAll", "claimingAll"}
    BY <1>12, ApplyTakes
  <2>2. UNCHANGED <<escape, interrupts, interrupted>> /\ SameTurn
    BY <1>1, <1>12, <2>1, ApplyMoves, TurnHalts
  <2>3. CASE Hits(main.now) /\ main'.at \in {"input", "top"}
    <3>1. fg.at \notin Resting /\ fg.turn = Active /\ Active # 0 /\ main.now.turn = Active
          /\ main.now.to = "main"
      BY <2>3 DEF Hits, Active, Resting
    <3>2. Active \in interrupted
      BY <2>1, <3>1 DEF QueueInv
    <3>3. ASSUME NEW r, r.to \in Agents, Behind(Active, main.now, r) PROVE Past(r, interrupted)
      BY <3>1, <3>2, <3>3 DEF Behind, Past, Agents
    <3>4. (\A x \in Pressing : Past(escape[x], interrupted))
          /\ \A n \in 1..Len(interrupts) : Past(interrupts[n], interrupted)
      BY <1>2, <2>1, <3>3 DEF QueueInv, Pressing
    <3>5. Noted
      BY <2>2, <3>1, <3>2, <3>4 DEF SameTurn, Pressing
    <3>6. Waits /\ Accepts /\ Claiming /\ Alone
      BY <2>2, <2>3, <3>1 DEF SameTurn, Resting
    <3> QED
      BY <1>3, <3>5, <3>6
  <2>4. CASE /\ settling' = settling /\ fg' = fg
             /\ main'.at = "finalize" /\ main'.done = main.done
    <3>1. Noted
      BY <2>2, <2>4 DEF LaterInv, Pressing
    <3>2. Alone
      BY <2>1, <2>4 DEF Core, RequestedInv
    <3>3. Waits /\ Accepts /\ Claiming
      BY <2>4 DEF LaterInv
    <3> QED
      BY <1>3, <3>1, <3>2, <3>3
  <2> QED
    BY <2>1, <2>3, <2>4, ApplyMoves
<1>13. CASE Barrier
  <2>1. UNCHANGED <<escape, interrupts, interrupted, fg>> /\ main.at = "barrier"
        /\ main'.done = main.done
    BY <1>13, BarrierMoves
  <2>2. CASE fg.at = "none" /\ main'.at = "finalize"
    BY <1>3, <2>1, <2>2 DEF Resting
  <2>3. CASE /\ settling = << >> \/ fg.at # "none"
             /\ settling' = settling /\ main'.at \in {"context", "accept", "input", "top"}
             /\ main'.at = "accept" => "interrupt" \in main.done
    <3>1. Waits /\ Claiming
      BY <2>1, <2>3 DEF LaterInv
    <3>2. Noted
      BY <2>1, <2>3 DEF LaterInv, Pressing
    <3>3. Accepts
      BY <2>1, <2>3 DEF LaterInv
    <3>4. Alone
      BY <2>1, <2>3 DEF LaterInv
    <3> QED
      BY <1>3, <3>1, <3>2, <3>3, <3>4
  <2> QED
    BY <1>13, <2>2, <2>3, BarrierMoves
<1>14. CASE Context
  <2>1. /\ UNCHANGED <<escape, interrupts, interrupted, settling, fg>> /\ main.at = "context"
        /\ main'.at \in {"accept", "input", "top"} /\ (main'.at = "accept" => "interrupt" \in main.done)
    BY <1>14, ContextMoves
  <2>2. settling # << >> => main'.at # "accept"
    BY <2>1 DEF LaterInv, SettlingInv, Finalizing
  <2>3. Noted
    BY <2>1 DEF LaterInv, Pressing
  <2>4. Waits /\ Accepts /\ Claiming /\ Alone
    BY <2>1, <2>2 DEF LaterInv
  <2> QED
    BY <1>3, <2>3, <2>4
<1> QED
  BY <1>5, <1>6, <1>7, <1>8, <1>10, <1>11, <1>12, <1>13, <1>14 DEF RequestMove

-----------------------------------------------------------------------------
(* What the main agent has been given, is about to be given, and what      *)
(* waits for its turn to end is one line.                                  *)

\* Inputs are claimed in the order of their Enters.
ClaimOrder ==
  \A i, j \in Inputs : entries[i].status \in {"claimed", "delivered"}
        /\ entries[j].status = "pending" => i < j

\* The oldest pending input is claimed first, or all of them are.
LEMMA ClaimsInOrder ==
  ASSUME Core, ClaimOrder, InputMove
  PROVE  ClaimOrder'
<1>1. CASE entries' = entries
  BY <1>1 DEF ClaimOrder
<1>2. CASE Commits
  <2>1. /\ lock \in Holding /\ lock.kind \in LockKinds
        /\ lock.kind = "buffered" => editor.id \in Inputs /\ ~Known(editor.id) /\ editor.id = typed
             /\ lock.ids = {editor.id}
        /\ lock.kind \in {"recalled", "claimed"} => lock.ids \subseteq Pending
        /\ lock.kind = "delivered" => Taken(lock.ids, lock.to)
    BY <1>2, LockFits DEF Commits, Holding, Core, TypeOK
  <2>2. \A i \in Inputs : entries[i] \in Entry /\ i \in Nat
    BY InputsAssumption DEF Core, TypeOK, InputTyped
  <2>3. \A i \in Inputs : i \notin lock.ids => entries'[i] = entries[i]
    BY <1>2 DEF Commits, After
  <2> SUFFICES ASSUME NEW i \in Inputs, NEW j \in Inputs,
                      entries'[i].status \in {"claimed", "delivered"}, entries'[j].status = "pending"
               PROVE  i < j
    BY DEF ClaimOrder
  <2>4. CASE lock.kind = "buffered"
    <3>1. \A k \in lock.ids : entries'[k].status = "pending"
      BY <1>2, <2>1, <2>4 DEF Commits, After
    <3>2. i \notin lock.ids /\ entries'[i] = entries[i]
      BY <2>3, <3>1
    <3>3. CASE j \in lock.ids
      <4>1. j = typed /\ ~Known(j)
        BY <2>1, <2>4, <3>3
      <4>2. Known(i)
        BY <3>2 DEF Known
      <4>3. i <= typed /\ i # j
        BY <4>1, <4>2 DEF Core, EditorInv
      <4> QED
        BY <2>2, <4>1, <4>3
    <3>4. CASE j \notin lock.ids
      BY <2>3, <3>2, <3>4 DEF ClaimOrder
    <3> QED
      BY <3>3, <3>4
  <2>5. CASE lock.kind \in {"recalled", "claimed", "delivered"}
    <3>1. \A k \in lock.ids : k \in Inputs => entries'[k].status = lock.kind
      <4> SUFFICES ASSUME NEW k \in lock.ids, k \in Inputs PROVE entries'[k].status = lock.kind
        OBVIOUS
      <4>1. entries'[k] = CASE lock.kind = "recalled"  -> [entries[k] EXCEPT !.status = "recalled"]
                            [] lock.kind = "claimed"   -> [entries[k] EXCEPT !.status = "claimed",
                                  !.to = lock.to]
                            [] lock.kind = "delivered" -> [entries[k] EXCEPT !.status = "delivered"]
        BY <1>2, <2>5 DEF Commits, After
      <4> QED
        BY <2>2, <2>5, <4>1 DEF Entry
    <3>2. j \notin lock.ids /\ entries'[j] = entries[j]
      BY <2>3, <2>5, <3>1
    <3>3. CASE i \notin lock.ids
      BY <2>3, <3>2, <3>3 DEF ClaimOrder
    <3>4. CASE i \in lock.ids /\ lock.kind = "delivered"
      BY <2>1, <3>2, <3>4 DEF ClaimOrder, Taken
    <3>5. CASE i \in lock.ids /\ lock.kind = "claimed"
      <4>1. lock.by = "loop"
        BY <2>1, <3>5 DEF Core, LockInv, EditorLock, RecallLock, TurnLock, ChildLock, Holding, Owners,
           Transition
      <4>2. j \in Pending
        BY <3>2 DEF Pending
      <4>3. main.at = "claiming"
        BY <3>2, <4>1, <4>2 DEF Core, LockInv, LoopLock
      <4>4. i \in Pending /\ entries[i].seq <= entries[j].seq
        BY <3>5, <4>2, <4>3 DEF Core, LockInv, LoopLock
      <4>5. Known(i) /\ Known(j) /\ i # j
        BY <3>2, <3>5, <4>2, <4>4 DEF Known, Pending
      <4>6. entries[i].seq \in Nat /\ entries[j].seq \in Nat
        BY <2>2 DEF Entry
      <4>7. ~(j < i)
        BY <4>4, <4>5, <4>6 DEF Core, EditorInv
      <4> QED
        BY <2>2, <4>5, <4>7
    <3>6. ~(i \in lock.ids /\ lock.kind = "recalled")
      BY <3>1
    <3> QED
      BY <2>5, <3>3, <3>4, <3>5, <3>6
  <2> QED
    BY <2>1, <2>4, <2>5 DEF LockKinds
<1> QED
  BY <1>1, <1>2 DEF InputMove, Begins, inputVars

\* Every input of S was entered before every one of T.
Before(S, T) == \A i \in S, j \in T : i < j

\* The inputs that c brings the main agent.
Mine(c) == IF c.to = "main" THEN c.ids ELSE {}

\* What the main agent has been told, and what it is about to be told.
Heard == {i \in Inputs : Stored(i)}

\* With what the foreground turn brings it.
Front == Heard \cup Mine(fg)

\* Those the main agent has, those that are claimed and ready, what the loop is
\* delivering, and what waits for the turn to end.
LineInv ==
  /\ fg.at \in {"created", "starting"} => Increasing(fg.items) /\ Before(Heard, Mine(fg))
  /\ \A n \in 1..Len(ready) :
       /\ Increasing(ready[n].items) /\ Before(Front, Mine(ready[n]))
       /\ \A m \in 1..(n - 1) : Before(Mine(ready[m]), Mine(ready[n]))
  /\ Finalizing =>
       /\ Before(Front, Mine(main.now))
       /\ \A n \in 1..Len(ready) : Before(Mine(ready[n]), Mine(main.now))
       /\ \A n \in 1..Len(settling) : Before(Mine(main.now), Mine(settling[n]))
  /\ \A n \in 1..Len(settling) :
       /\ Before(Front, Mine(settling[n]))
       /\ \A m \in 1..Len(ready) : Before(Mine(ready[m]), Mine(settling[n]))
       /\ \A m \in 1..(n - 1) : Before(Mine(settling[m]), Mine(settling[n]))

\* What is claimed now comes after all of it.
LEMMA LaterThanAll ==
  ASSUME Core, ClaimOrder, NEW ids, \A i \in ids : i \in Pending
  PROVE  /\ Before(Front, ids) /\ Before(Heard, ids)
         /\ \A n \in 1..Len(ready) : Before(Mine(ready[n]), ids)
         /\ \A n \in 1..Len(settling) : Before(Mine(settling[n]), ids)
<1>1. ASSUME NEW S \in SUBSET Inputs, NEW a, Taken(S, a) PROVE Before(S, ids)
  BY <1>1 DEF Taken, Before, ClaimOrder, Pending
<1>2. fg \in Turn /\ ready \in Seq(Claims) /\ settling \in Seq(Interrupts)
  BY DEF Core, TypeOK, TurnTyped, LoopTyped
<1>3. Before(Heard, ids)
  BY DEF Core, CarriersInv, ConvCarries, Taken, Before, ClaimOrder, Pending, Heard
<1>4. Before(Mine(fg), ids)
  <2>1. fg.ids \in SUBSET Inputs /\ Taken(fg.ids, fg.to)
    BY <1>2 DEF Turn, Core, CarriersInv, TurnCarries
  <2> QED
    BY <1>1, <2>1 DEF Mine, Before
<1>5. ASSUME NEW n \in 1..Len(ready) PROVE Before(Mine(ready[n]), ids)
  <2>1. ready[n] \in Claims
    BY <1>2, <1>5, ElementOfSeq
  <2>2. ready[n].ids \in SUBSET Inputs /\ Taken(ready[n].ids, ready[n].to)
    BY <2>1 DEF Claims, Core, CarriersInv, ReadyCarries
  <2> QED
    BY <1>1, <2>2 DEF Mine, Before
<1>6. ASSUME NEW n \in 1..Len(settling) PROVE Before(Mine(settling[n]), ids)
  <2>1. settling[n] \in Interrupts
    BY <1>2, <1>6, ElementOfSeq
  <2>2. settling[n].ids \in SUBSET Inputs /\ Taken(settling[n].ids, "main")
    BY <2>1 DEF Interrupts, Core, CarriersInv, InterruptCarries
  <2> QED
    BY <1>1, <2>2 DEF Mine, Before
<1>7. Before(Front, ids)
  BY <1>3, <1>4 DEF Front, Before
<1> QED
  BY <1>3, <1>5, <1>6, <1>7

\* Nothing new comes to the front but what a turn is started with.
LEMMA FrontMoves ==
  ASSUME Core, TurnMove, [Next]_vars
  PROVE  \/ TurnStarts
         \/ /\ Front' \subseteq Front
            /\ fg'.at \in {"created", "starting"} =>
                 /\ fg.at \in {"created", "starting"} /\ fg'.items = fg.items /\ Mine(fg') = Mine(fg)
                 /\ Heard' \subseteq Heard
<1>1. StoredSame \/ StoreItems
  BY StoredMoves DEF Core
<1> SUFFICES ASSUME ~TurnStarts
             PROVE  /\ Front' \subseteq Front
                    /\ fg'.at \in {"created", "starting"} =>
                         /\ fg.at \in {"created", "starting"} /\ fg'.items = fg.items
                              /\ Mine(fg') = Mine(fg)
                         /\ Heard' \subseteq Heard
  OBVIOUS
<1>2. /\ fg'.ids \subseteq fg.ids /\ (fg'.ids = {} \/ fg'.to = fg.to)
      /\ fg'.at \in {"created", "starting"} =>
           fg.at \in {"created", "starting"} /\ fg'.items = fg.items /\ fg'.ids = fg.ids
                 /\ fg'.to = fg.to
  BY DEF TurnMove, TurnStays, TurnRuns
<1>3. Mine(fg') \subseteq Mine(fg)
  BY <1>2 DEF Mine
<1>4. CASE StoredSame
  BY <1>2, <1>3, <1>4 DEF StoredSame, Front, Mine, Heard
<1>5. CASE StoreItems
  <2>1. \A i \in Inputs : Stored(i)' <=> Stored(i) \/ i \in fg.ids
    BY <1>5, ItemsStored DEF Core
  <2>2. fg.at = "starting" /\ fg.to = "main" /\ PublishCommit(1)
    BY <1>5 DEF StoreItems, Core, CarriersInv, TurnCarries
  <2>3. fg'.at \in {"model", "mark", "committing"}
    <3>1. Len(fg.items) \in Nat /\ given \in Nat /\ fg \in Turn
      BY DEF Core, TypeOK, TurnTyped, Turn, HubTyped
    <3> QED
      BY <2>2, <3>1, PublishMoves
  <2> QED
    BY <1>3, <2>1, <2>2, <2>3 DEF Front, Mine, Heard
<1> QED
  BY <1>1, <1>4, <1>5

\* Two sequences of which one is before the other.
LEMMA ConcatIncreasing ==
  ASSUME NEW s \in Seq(Items), NEW t \in Seq(Items), Increasing(s), Increasing(t),
         \A m \in 1..Len(s) : \A n \in 1..Len(t) : s[m][1] = "input" /\ t[n][1] = "input"
               => s[m][2] < t[n][2]
  PROVE  Increasing(s \o t)
<1> DEFINE c == s \o t
<1>1. /\ Len(s) \in Nat
      /\ \A n \in 1..Len(s) : c[n] = s[n]
      /\ \A n \in 1..Len(c) : n \in 1..Len(s) \/ (n - Len(s) \in 1..Len(t) /\ c[n] = t[n - Len(s)])
  BY ConcatElements
<1> HIDE DEF c
<1> SUFFICES ASSUME NEW m \in 1..Len(c), NEW n \in 1..Len(c), m < n, c[m][1] = "input", c[n][1] = "input"
             PROVE  c[m][2] < c[n][2]
  BY DEF Increasing, c
<1>2. CASE n \in 1..Len(s)
  <2>1. m \in 1..Len(s)
    BY <1>1, <1>2
  <2> QED
    BY <1>1, <1>2, <2>1 DEF Increasing
<1>3. CASE n \notin 1..Len(s) /\ m \in 1..Len(s)
  BY <1>1, <1>3
<1>4. CASE n \notin 1..Len(s) /\ m \notin 1..Len(s)
  <2>1. /\ m - Len(s) \in 1..Len(t) /\ c[m] = t[m - Len(s)]
        /\ n - Len(s) \in 1..Len(t) /\ c[n] = t[n - Len(s)]
    BY <1>1, <1>4
  <2>2. m - Len(s) < n - Len(s)
    BY <1>1
  <2> QED
    BY <2>1, <2>2 DEF Increasing
<1> QED
  BY <1>2, <1>3, <1>4

\* The inputs of the conversation are in the order of the Enters.
SaidInOrder == Increasing(conv)

\* What a turn stores comes after all that was said.
LEMMA SaidKept ==
  ASSUME Core, LineInv, SaidInOrder, ConvMove
  PROVE  SaidInOrder'
<1>1. conv \in Seq(Items) /\ fg.items \in Seq(Items)
  BY DEF Core, TypeOK, TurnTyped, Turn
<1>2. CASE StoreItems /\ conv' = conv \o fg.items
  <2>1. fg.at = "starting" /\ fg.to = "main" /\ Carries(fg.items, fg.ids)
    BY <1>2 DEF StoreItems, Core, CarriersInv, TurnCarries
  <2>2. Increasing(fg.items) /\ Before(Heard, fg.ids)
    BY <2>1 DEF LineInv, Mine
  <2>3. ASSUME NEW m \in 1..Len(conv), NEW n \in 1..Len(fg.items), conv[m][1] = "input",
        fg.items[n][1] = "input"
        PROVE  conv[m][2] < fg.items[n][2]
    <3>1. conv[m] \in Items
      BY <1>1, <2>3, ElementOfSeq
    <3>2. conv[m] = <<"input", conv[m][2]>> /\ conv[m][2] \in Inputs
      BY <2>3, <3>1 DEF Items
    <3>3. Stored(conv[m][2])
      BY <3>2 DEF Stored
    <3>4. fg.items[n][2] \in fg.ids
      BY <2>1, <2>3 DEF Carries, InputOf
    <3> QED
      BY <2>2, <3>2, <3>3, <3>4 DEF Before, Heard
  <2> QED
    BY <1>1, <1>2, <2>2, <2>3, ConcatIncreasing DEF SaidInOrder
<1>3. CASE conv' = Append(conv, <<"turn", fg.turn>>)
  <2>1. <<"turn", fg.turn>> \in Items
    BY DEF Core, TypeOK, TurnTyped, Turn, Items
  <2>2. \A n \in 1..Len(conv') : (n \in 1..Len(conv) /\ conv'[n] = conv[n])
        \/ conv'[n] = <<"turn", fg.turn>>
    BY <1>1, <1>3, <2>1, AppendElements
  <2>3. <<"turn", fg.turn>>[1] # "input"
    OBVIOUS
  <2> QED
    BY <2>2, <2>3 DEF SaidInOrder, Increasing
<1>4. CASE Told
  <2>1. PICK items \in Seq(Items) : conv' = conv \o items /\ Carries(items, {})
    BY <1>4 DEF Told
  <2>2. \A n \in 1..Len(items) : items[n][1] # "input"
    BY <2>1 DEF Carries, InputOf
  <2>3. Increasing(items)
    BY <2>2 DEF Increasing
  <2> QED
    BY <1>1, <2>1, <2>2, <2>3, ConcatIncreasing DEF SaidInOrder
<1> QED
  BY <1>2, <1>3, <1>4 DEF ConvMove, SaidInOrder

\* A ready claim is what a turn is started with.
LEMMA ReadyStarts ==
  ASSUME StartReady
  PROVE  TurnStarts
<1>1. fg.at = "none" /\ turns' = turns /\ fg' = NewTurn(Head(ready).ids, Head(ready).to,
      Head(ready).items)
  BY DEF StartReady, Deciding, LoopAt
<1> QED
  BY <1>1 DEF NewTurn, NoTurn, TurnStarts

\* The turn that is started takes the first place in the line.
LEMMA LineStarts ==
  ASSUME Core, SettlingInv, ClaimInv, ClaimOrder, LineInv, TurnStarts
  PROVE  LineInv'
<1>1. settling' = << >> /\ main'.at = "top" /\ UNCHANGED conv
  BY StartsAlone
<1>2. ready \in Seq(Claims)
  BY DEF Core, TypeOK
<1>3. Heard' = Heard
  BY <1>1 DEF Stored, Heard
<1> DEFINE Begun == Increasing(fg'.items) /\ Before(Heard, Mine(fg'))
           Readies == \A n \in 1..Len(ready') :
                        /\ Increasing(ready'[n].items) /\ Before(Front', Mine(ready'[n]))
                        /\ \A m \in 1..(n - 1) : Before(Mine(ready'[m]), Mine(ready'[n]))
<1>4. Begun /\ Readies => LineInv'
  BY <1>1, <1>3 DEF LineInv, Finalizing
<1>5. CASE StartPeers
  <2>1. PICK items \in Seq(Items) : fg' = NewTurn({}, "main", items) /\ Increasing(items)
    BY <1>5, PeersGiven DEF Core
  <2>2. Mine(fg') = {} /\ fg'.items = items
    BY <2>1 DEF NewTurn, NoTurn, Mine
  <2>3. Front' \subseteq Front /\ ready' = ready
    BY <1>3, <1>5, <2>2 DEF Front, StartPeers
  <2> QED
    BY <1>4, <2>1, <2>2, <2>3 DEF LineInv, Before
<1>6. CASE Claimed
  <2>1. PICK items \in Seq(Items) : fg' = NewTurn(lock.ids, lock.to, items) /\ Increasing(items)
    BY <1>6, OldestGiven DEF Core
  <2>2. Mine(fg') \subseteq lock.ids /\ fg'.items = items
    BY <2>1 DEF NewTurn, NoTurn, Mine
  <2>3. lock.by = "loop" /\ main.at = "claiming"
    BY <1>6 DEF Claimed, Commit
  <2>4. \A i \in lock.ids : i \in Pending
    BY <2>3 DEF Core, LockInv, LoopLock
  <2>5. Before(Heard, Mine(fg'))
    BY <2>2, <2>4, LaterThanAll DEF Before
  <2>6. ready' = << >>
    BY <1>6, <2>3 DEF Claimed, ClaimInv
  <2> QED
    BY <1>4, <2>1, <2>2, <2>5, <2>6
<1>7. CASE StartReady
  <2>1. ready # << >> /\ ready' = Tail(ready) /\ fg' = NewTurn(Head(ready).ids, Head(ready).to,
        Head(ready).items)
    BY <1>7 DEF StartReady
  <2>2. /\ Head(ready) = ready[1] /\ 1 \in 1..Len(ready)
        /\ \A n \in 1..Len(ready') : n + 1 \in 1..Len(ready) /\ ready'[n] = ready[n + 1]
    BY <1>2, <2>1, TailElements
  <2>3. Mine(fg') = Mine(ready[1]) /\ fg'.items = ready[1].items
    BY <2>1, <2>2 DEF NewTurn, NoTurn, Mine
  <2>4. Front' \subseteq Front \cup Mine(ready[1])
    BY <1>3, <2>3 DEF Front
  <2>5. ASSUME NEW n \in 1..Len(ready')
        PROVE  /\ Increasing(ready'[n].items) /\ Before(Front', Mine(ready'[n]))
               /\ \A m \in 1..(n - 1) : Before(Mine(ready'[m]), Mine(ready'[n]))
    <3>1. n + 1 \in 1..Len(ready) /\ ready'[n] = ready[n + 1] /\ 1 \in 1..((n + 1) - 1)
      BY <2>2
    <3>2. Before(Front, Mine(ready[n + 1])) /\ Before(Mine(ready[1]), Mine(ready[n + 1]))
      BY <3>1 DEF LineInv
    <3>3. Before(Front', Mine(ready'[n]))
      BY <2>4, <3>1, <3>2 DEF Before
    <3>4. ASSUME NEW m \in 1..(n - 1) PROVE Before(Mine(ready'[m]), Mine(ready'[n]))
      <4>1. m \in 1..Len(ready') /\ m + 1 \in 1..((n + 1) - 1)
        BY <1>2, <2>1, LenProperties, HeadTailProperties
      <4> QED
        BY <2>2, <3>1, <4>1 DEF LineInv
    <3> QED
      BY <3>1, <3>3, <3>4 DEF LineInv
  <2>6. Increasing(fg'.items) /\ Before(Heard, Mine(fg'))
    BY <2>2, <2>3 DEF LineInv, Before, Front
  <2> QED
    BY <1>4, <2>5, <2>6
<1> QED
  BY <1>5, <1>6, <1>7 DEF TurnStarts

\* What it takes for the rest of the line, when no turn is started.
FrontStays ==
  /\ Front' \subseteq Front
  /\ fg'.at \in {"created", "starting"} =>
       /\ fg.at \in {"created", "starting"} /\ fg'.items = fg.items /\ Mine(fg') = Mine(fg)
       /\ Heard' \subseteq Heard

\* What is delivered in front keeps its place when no turn is started.
LEMMA LineGoesOn ==
  ASSUME LineInv, FrontStays
  PROVE  /\ fg'.at \in {"created", "starting"} => Increasing(fg'.items) /\ Before(Heard', Mine(fg'))
         /\ \A S : Before(Front, S) => Before(Front', S)
<1>1. \A S : Before(Front, S) => Before(Front', S)
  BY DEF FrontStays, Before
<1>2. fg.at \in {"created", "starting"} => Increasing(fg.items) /\ Before(Heard, Mine(fg))
  BY DEF LineInv
<1>3. \A S : Before(Heard, S) /\ Heard' \subseteq Heard => Before(Heard', S)
  BY DEF Before
<1>4. fg'.at \in {"created", "starting"} =>
        fg.at \in {"created", "starting"} /\ fg'.items = fg.items /\ Mine(fg') = Mine(fg)
              /\ Heard' \subseteq Heard
  BY DEF FrontStays
<1> QED
  BY <1>1, <1>2, <1>3, <1>4

\* An interrupt that is delivered makes its claim the last that is ready.
LEMMA LineDelivers ==
  ASSUME Core, SettlingInv, LineInv, Barrier, FrontStays
  PROVE  LineInv'
<1>1. ready \in Seq(Claims) /\ settling \in Seq(Interrupts) /\ Finalizing /\ main.now \in Interrupts
  BY DEF Core, TypeOK, LoopTyped, Loop, Barrier, Finalizing
<1>2. PICK items \in Seq(Items) :
        /\ Increasing(items)
        /\ ready' = (IF main.now.ids = {} THEN ready
                     ELSE Append(ready, [ids |-> main.now.ids, to |-> main.now.to, items |-> items]))
  BY BarrierGives DEF Core
<1> DEFINE c == [ids |-> main.now.ids, to |-> main.now.to, items |-> items]
<1>3. c \in Claims /\ Mine(c) = Mine(main.now) /\ c.items = items
  BY <1>1 DEF Claims, Interrupts, Mine
<1>4. ready' = ready \/ ready' = Append(ready, c)
  BY <1>2
<1> HIDE DEF c
<1>5. /\ Len(ready) \in Nat /\ Len(ready') \in Nat
      /\ \A n \in 1..Len(ready') : \/ n \in 1..Len(ready) /\ ready'[n] = ready[n]
                                   \/ n = Len(ready) + 1 /\ ready'[n] = c
  BY <1>1, <1>3, <1>4, AppendProperties, LenProperties
<1>6. ASSUME NEW n \in 1..Len(ready')
      PROVE  /\ Increasing(ready'[n].items) /\ Before(Front', Mine(ready'[n]))
             /\ \A m \in 1..(n - 1) : Before(Mine(ready'[m]), Mine(ready'[n]))
  <2>1. \A m \in 1..(n - 1) : m \in 1..Len(ready')
    BY <1>5
  <2>2. ASSUME NEW m \in 1..(n - 1) PROVE m \in 1..Len(ready) /\ ready'[m] = ready[m]
    <3>1. n <= Len(ready) + 1 /\ m < Len(ready) + 1 /\ m \in 1..Len(ready')
      BY <1>5, <2>1
    <3> QED
      BY <1>5, <3>1
  <2>3. CASE n \in 1..Len(ready) /\ ready'[n] = ready[n]
    BY <2>2, <2>3, LineGoesOn DEF LineInv
  <2>4. CASE ready'[n] = c
    <3>1. Increasing(ready'[n].items)
      BY <1>2, <1>3, <2>4
    <3>2. Before(Front', Mine(main.now))
      BY <1>1, LineGoesOn DEF LineInv
    <3>3. \A m \in 1..(n - 1) : Before(Mine(ready'[m]), Mine(main.now))
      BY <1>1, <2>2 DEF LineInv
    <3> QED
      BY <1>3, <2>4, <3>1, <3>2, <3>3
  <2> QED
    BY <1>5, <2>3, <2>4
<1>7. ASSUME NEW n \in 1..Len(settling)
      PROVE  /\ Before(Front', Mine(settling[n]))
             /\ \A m \in 1..Len(ready') : Before(Mine(ready'[m]), Mine(settling[n]))
             /\ \A m \in 1..(n - 1) : Before(Mine(settling[m]), Mine(settling[n]))
  <2>1. \A m \in 1..Len(ready') : Before(Mine(ready'[m]), Mine(settling[n]))
    BY <1>1, <1>3, <1>5 DEF LineInv
  <2> QED
    BY <2>1, LineGoesOn DEF LineInv
<1>8. fg'.at \in {"created", "starting"} => Increasing(fg'.items) /\ Before(Heard', Mine(fg'))
  BY LineGoesOn
<1>9. CASE settling # << >> /\ main'.at = "finalize" /\ main'.now = Head(settling)
      /\ settling' = Tail(settling)
  <2>1. /\ Head(settling) = settling[1] /\ 1 \in 1..Len(settling)
        /\ \A n \in 1..Len(settling') : n + 1 \in 1..Len(settling) /\ settling'[n] = settling[n + 1]
    BY <1>1, <1>9, TailElements
  <2>2. ASSUME NEW n \in 1..Len(settling')
        PROVE  /\ Before(Front', Mine(settling'[n]))
               /\ \A m \in 1..Len(ready') : Before(Mine(ready'[m]), Mine(settling'[n]))
               /\ \A m \in 1..(n - 1) : Before(Mine(settling'[m]), Mine(settling'[n]))
               /\ Before(Mine(settling[1]), Mine(settling'[n]))
    <3>1. n + 1 \in 1..Len(settling) /\ settling'[n] = settling[n + 1] /\ 1 \in 1..((n + 1) - 1)
      BY <2>1
    <3>2. ASSUME NEW m \in 1..(n - 1) PROVE Before(Mine(settling'[m]), Mine(settling'[n]))
      <4>1. m \in 1..Len(settling') /\ m + 1 \in 1..((n + 1) - 1)
        BY <1>1, <1>9, LenProperties, HeadTailProperties
      <4> QED
        BY <1>7, <2>1, <3>1, <4>1
    <3> QED
      BY <1>7, <3>1, <3>2
  <2>3. Before(Front', Mine(main'.now)) /\ \A n \in 1..Len(ready') : Before(Mine(ready'[n]),
        Mine(main'.now))
    BY <1>7, <1>9, <2>1
  <2>4. \A n \in 1..Len(settling') : Before(Mine(main'.now), Mine(settling'[n]))
    BY <1>9, <2>1, <2>2
  <2> QED
    BY <1>6, <1>8, <2>2, <2>3, <2>4 DEF LineInv
<1>10. CASE settling' = settling /\ main'.at \in {"context", "accept", "input", "top"}
  BY <1>6, <1>7, <1>8, <1>10 DEF LineInv, Finalizing
<1> QED
  BY <1>9, <1>10, BarrierMoves

\* The line stays one, whatever the loop does.
LEMMA LineKept ==
  ASSUME Core, SettlingInv, ClaimInv, TurnInv, LaterInv, ClaimOrder, LineInv,
         TurnMove, RequestMove, QueuesMove, [Next]_vars
  PROVE  LineInv'
<1>1. CASE TurnStarts
  BY <1>1, LineStarts
<1>2. CASE ~TurnStarts
  <2>1. FrontStays
    BY <1>2, FrontMoves DEF FrontStays
  <2>2. CASE Barrier
    BY <2>1, <2>2, LineDelivers
  <2>3. CASE ~Barrier
    <3>1. ready' = ready
      BY <1>2, <2>3, ReadyStarts DEF QueuesMove
    <3>2. settling \in Seq(Interrupts)
      BY DEF Core, TypeOK, LoopTyped
    <3> DEFINE Delivers == Finalizing' =>
                 /\ Before(Front', Mine(main'.now))
                 /\ \A n \in 1..Len(ready) : Before(Mine(ready[n]), Mine(main'.now))
                 /\ \A n \in 1..Len(settling') : Before(Mine(main'.now), Mine(settling'[n]))
               Later == \A n \in 1..Len(settling') :
                 /\ Before(Front', Mine(settling'[n]))
                 /\ \A m \in 1..Len(ready) : Before(Mine(ready[m]), Mine(settling'[n]))
                 /\ \A m \in 1..(n - 1) : Before(Mine(settling'[m]), Mine(settling'[n]))
    <3>3. \A n \in 1..Len(ready) :
            /\ Increasing(ready[n].items) /\ Before(Front', Mine(ready[n]))
            /\ \A m \in 1..(n - 1) : Before(Mine(ready[m]), Mine(ready[n]))
      BY <2>1, LineGoesOn DEF LineInv
    <3>4. fg'.at \in {"created", "starting"} => Increasing(fg'.items) /\ Before(Heard', Mine(fg'))
      BY <2>1, LineGoesOn
    <3>5. Delivers /\ Later => LineInv'
      BY <3>1, <3>3, <3>4 DEF LineInv
    <3>6. settling' = settling => Later
      BY <2>1, LineGoesOn DEF LineInv
    <3>7. settling' = settling /\ (Finalizing' => Finalizing /\ main'.now = main.now) => Delivers
      BY <2>1, LineGoesOn DEF LineInv
    <3>8. settling' = settling /\ (Finalizing' => Finalizing /\ main'.now = main.now) => LineInv'
      BY <3>5, <3>6, <3>7
    <3>9. CASE RequestsStay
      BY <3>8, <3>9 DEF RequestsStay
    <3>10. CASE Escape
      BY <3>8, <3>10, EscapeMoves DEF Finalizing
    <3>11. ASSUME NEW x \in Escapes, RequestInterrupt(x) PROVE LineInv'
      BY <3>8, <3>11, RequestInterruptMoves DEF Finalizing
    <3>12. ASSUME NEW x \in Escapes, QueueInterrupt(x) PROVE LineInv'
      BY <3>8, <3>12, QueueInterruptMoves DEF Finalizing
    <3>13. CASE Wake
      <4>1. CASE settling # << >> /\ main'.at = "finalize" /\ main'.now = Head(settling)
            /\ settling' = Tail(settling)
        <5>1. /\ Head(settling) = settling[1] /\ 1 \in 1..Len(settling)
              /\ \A n \in 1..Len(settling') : n + 1 \in 1..Len(settling)
                   /\ settling'[n] = settling[n + 1]
          BY <3>2, <4>1, TailElements
        <5>2. ASSUME NEW n \in 1..Len(settling')
              PROVE  /\ Before(Front', Mine(settling'[n]))
                     /\ \A m \in 1..Len(ready) : Before(Mine(ready[m]), Mine(settling'[n]))
                     /\ \A m \in 1..(n - 1) : Before(Mine(settling'[m]), Mine(settling'[n]))
                     /\ Before(Mine(settling[1]), Mine(settling'[n]))
          <6>1. n + 1 \in 1..Len(settling) /\ settling'[n] = settling[n + 1] /\ 1 \in 1..((n + 1) - 1)
            BY <5>1
          <6>2. ASSUME NEW m \in 1..(n - 1) PROVE Before(Mine(settling'[m]), Mine(settling'[n]))
            <7>1. m \in 1..Len(settling') /\ m + 1 \in 1..((n + 1) - 1)
              BY <3>2, <4>1, LenProperties, HeadTailProperties
            <7> QED
              BY <5>1, <6>1, <7>1 DEF LineInv
          <6> QED
            BY <2>1, <6>1, <6>2, LineGoesOn DEF LineInv
        <5>3. Later
          BY <5>2
        <5>4. Delivers
          BY <2>1, <4>1, <5>1, <5>2, LineGoesOn DEF LineInv
        <5> QED
          BY <3>5, <5>3, <5>4
      <4>2. CASE settling' = settling /\ main'.at \in {"accept", "input", "top"}
        BY <3>8, <4>2 DEF Finalizing
      <4> QED
        BY <3>13, <4>1, <4>2, WakeMoves
    <3>14. CASE Accept
      BY <3>8, <3>14, AcceptMoves DEF Finalizing
    <3>15. CASE NothingForInterrupt \/ ClaimedAll
      <4>1. PICK ids \in SUBSET Inputs :
               /\ Apply(ids) /\ main.at \in {"claimAll", "claimingAll"} /\ \A i \in ids : i \in Pending
        BY <3>15, ApplyTakes
      <4>2. PICK now \in Interrupts :
               /\ now.to = main.now.to /\ now.ids = ids
               /\ \/ settling' = Append(settling, now) /\ main'.at \in {"input", "top"}
                  \/ settling' = settling /\ main'.at = "finalize" /\ main'.now = now
        BY <4>1, ApplyMoves
      <4>3. Mine(now) \subseteq ids
        BY <4>2 DEF Mine
      <4>4. /\ Before(Front, Mine(now))
            /\ \A n \in 1..Len(ready) : Before(Mine(ready[n]), Mine(now))
            /\ \A n \in 1..Len(settling) : Before(Mine(settling[n]), Mine(now))
        BY <4>1, <4>3, LaterThanAll DEF Before
      <4>5. Before(Front', Mine(now))
        BY <2>1, <4>4, LineGoesOn
      <4>6. CASE settling' = Append(settling, now) /\ main'.at \in {"input", "top"}
        <5>1. /\ Len(settling) \in Nat /\ Len(settling') = Len(settling) + 1
              /\ \A n \in 1..Len(settling') : \/ n \in 1..Len(settling) /\ settling'[n] = settling[n]
                                              \/ n = Len(settling) + 1 /\ settling'[n] = now
          BY <3>2, <4>6, AppendProperties, LenProperties
        <5>2. ASSUME NEW n \in 1..Len(settling')
              PROVE  /\ Before(Front', Mine(settling'[n]))
                     /\ \A m \in 1..Len(ready) : Before(Mine(ready[m]), Mine(settling'[n]))
                     /\ \A m \in 1..(n - 1) : Before(Mine(settling'[m]), Mine(settling'[n]))
          <6>1. ASSUME NEW m \in 1..(n - 1) PROVE m \in 1..Len(settling) /\ settling'[m] = settling[m]
            <7>1. m \in 1..Len(settling') /\ m # Len(settling) + 1
              BY <5>1
            <7> QED
              BY <5>1, <7>1
          <6>2. CASE n \in 1..Len(settling) /\ settling'[n] = settling[n]
            BY <2>1, <6>1, <6>2, LineGoesOn DEF LineInv
          <6>3. CASE settling'[n] = now
            BY <4>4, <4>5, <6>1, <6>3
          <6> QED
            BY <5>1, <6>2, <6>3
        <5>3. Later
          BY <5>2
        <5>4. Delivers
          BY <4>6 DEF Finalizing
        <5> QED
          BY <3>5, <5>3, <5>4
      <4>7. CASE settling' = settling /\ main'.at = "finalize" /\ main'.now = now
        <5>1. settling # << >> => Mine(now) = {}
          BY <4>1, <4>2 DEF LaterInv, Mine
        <5>2. \A n \in 1..Len(settling) : Before(Mine(now), Mine(settling[n]))
          BY <3>2, <5>1 DEF Before
        <5>3. Delivers
          BY <4>4, <4>5, <4>7, <5>2
        <5> QED
          BY <3>5, <3>6, <4>7, <5>3
      <4> QED
        BY <4>2, <4>6, <4>7
    <3>16. CASE Context
      BY <3>8, <3>16, ContextMoves DEF Finalizing
    <3> QED
      BY <2>3, <3>9, <3>10, <3>11, <3>12, <3>13, <3>14, <3>15, <3>16 DEF RequestMove
  <2> QED
    BY <2>2, <2>3
<1> QED
  BY <1>1, <1>2

-----------------------------------------------------------------------------
(* The theorems.                                                           *)

\* What it takes for the conversation to be in order.
OrderInv ==
  /\ TurnInv /\ RequestInv /\ NoticeInv
  /\ PressedInv /\ QueueInv /\ LaterInv
  /\ ClaimOrder /\ LineInv /\ SaidInOrder

\* The inductive invariant.
IInv ==
  /\ Core /\ JournalInv /\ CommitInv /\ EnterInv /\ EndInv
  /\ HookInv /\ ClaimInv /\ SettlingInv /\ CarriedInv
  /\ OrderInv

\* The conversation stays in order.
LEMMA OrderKept ==
  ASSUME Core, Core', SettlingInv, ClaimInv, OrderInv, [Next]_vars
  PROVE  OrderInv'
<1> USE DEF OrderInv
<1>1. TurnMove /\ RequestMove /\ QueuesMove /\ ConvMove
  BY TurnMoves, RequestMoves, QueueMoves, ConvMoves
<1>2. InputMove /\ HubMove /\ given <= given' /\ given' \in Nat /\ keys' \in {keys, keys + 1}
  BY InputMoves, HubMoves, OrderGrows, KeysMove DEF Core, TypeOK, HubTyped, PromptTyped
<1>3. TurnInv' /\ RequestInv' /\ NoticeInv'
  BY <1>1, TurnKept, RequestKept, NoticeKept
<1>4. PressedInv' /\ QueueInv' /\ LaterInv'
  BY <1>1, <1>2, PressedKept, QueueKept, LaterKept
<1>5. ClaimOrder' /\ LineInv' /\ SaidInOrder'
  BY <1>1, <1>2, ClaimsInOrder, LineKept, SaidKept
<1> QED
  BY <1>3, <1>4, <1>5

\* It holds of a new session and of one that resumes another.
LEMMA Initially ==
  ASSUME Init
  PROVE  IInv
<1>1. typed \in Nat /\ lock = Free
  BY BoundsAssumption DEF Init, InitInput
<1>2. /\ entries = [i \in Inputs |->
                      IF i <= typed THEN [status |-> "pending", seq |-> i, to |-> "main"] ELSE Absent]
      /\ restored = [status |-> [i \in Inputs |-> IF i <= typed THEN "pending" ELSE "unknown"],
                     to |-> [i \in Inputs |-> "main"], messages |-> {}, failed |-> FALSE]
  BY DEF Init, InitInput
<1>3. main.at = "top" /\ settling = << >> /\ fg = NoTurn
  BY DEF Init, Asleep
<1>4. \A i \in Inputs : entries[i].status = (IF i <= typed THEN "pending" ELSE "absent")
  BY <1>2 DEF Absent
<1>5. JournalInv
  <2>1. ~restored.failed /\ restored.messages = {}
    BY <1>2
  <2>2. \A i \in Inputs : Status(i) = entries[i].status
    BY <1>1 DEF Status, Settling
  <2>3. \A i \in Inputs : restored.status[i] = IF i <= typed THEN "pending" ELSE "unknown"
    BY <1>2
  <2> QED
    BY <1>4, <2>1, <2>2, <2>3 DEF JournalInv, Agrees
<1>6. CommitInv /\ HookInv
  BY <1>3 DEF CommitInv, HookInv, NoTurn
<1>7. EnterInv
  BY <1>2 DEF EnterInv
<1>8. EndInv /\ ClaimInv /\ SettlingInv
  BY <1>3 DEF EndInv, ClaimInv, SettlingInv
<1>9. CarriedInv
  BY <1>4 DEF CarriedInv
<1>10. OrderInv
  <2>1. /\ turns = 0 /\ conv = << >> /\ ready = << >> /\ interrupts = << >>
        /\ Pressing = {}
    BY DEF Init, Pressing
  <2>2. Active = 0
    BY <1>3 DEF Active, NoTurn
  <2>3. TurnInv /\ RequestInv /\ NoticeInv
    BY <1>3, <2>1 DEF TurnInv, Resting, NoTurn, RequestInv, Interrupting, Finalizing, NoticeInv
  <2>4. PressedInv /\ QueueInv
    BY <1>3, <2>1 DEF PressedInv, QueueInv
  <2>5. LaterInv /\ SaidInOrder
    BY <1>3, <2>1 DEF LaterInv, SaidInOrder, Increasing
  <2>6. ClaimOrder
    BY <1>4 DEF ClaimOrder
  <2>7. LineInv
    BY <1>3, <2>1 DEF LineInv, NoTurn, Finalizing
  <2> QED
    BY <2>3, <2>4, <2>5, <2>6, <2>7 DEF OrderInv
<1> QED
  BY <1>5, <1>6, <1>7, <1>8, <1>9, <1>10, CoreInitially DEF IInv

\* It holds after every step.
LEMMA Always ==
  ASSUME IInv, [Next]_vars
  PROVE  IInv'
<1>1. Core'
  BY CoreKept DEF IInv
<1>2. JournalInv' /\ CommitInv'
  BY JournalKept, CommitKept DEF IInv
<1>3. EnterInv' /\ EndInv' /\ HookInv'
  BY EnterKept, EndKept, HookKept DEF IInv
<1>4. ClaimInv' /\ SettlingInv' /\ CarriedInv'
  BY ClaimKept, SettlingKept, CarriedKept DEF IInv
<1>5. OrderInv'
  BY <1>1, OrderKept DEF IInv
<1> QED
  BY <1>1, <1>2, <1>3, <1>4, <1>5 DEF IInv

\* IInv is an invariant of the specification.
THEOREM Invariance == Spec => []IInv
<1>1. Init => IInv
  BY Initially
<1>2. IInv /\ [Next]_vars => IInv'
  BY Always
<1> QED
  BY <1>1, <1>2, PTL DEF Spec

\* A session that ends at any moment is recovered as it was: the journal is
\* accepted, knows every input that was announced as pending, gives none back
\* that was recalled or stored, and takes none for delivered that was not.
THEOREM RecoveredExactly == Spec => []RecoveryIsExact
<1>1. ASSUME IInv PROVE RecoveryIsExact
  <2> USE <1>1 DEF IInv
  <2>1. ~restored.failed
    BY DEF JournalInv
  <2>2. ASSUME NEW i \in Inputs
        PROVE  /\ entries[i].status # "absent" => restored.status[i] # "unknown"
               /\ entries[i].status = "recalled" => restored.status[i] = "recalled" /\ ~Stored(i)
               /\ i \in restored.messages => restored.status[i] = "delivered" /\ Stored(i)
               /\ restored.status[i] = "delivered" /\ restored.to[i] = "main" => i \in restored.messages
    <3>1. Agrees(Status(i), restored.status[i])
      BY DEF JournalInv
    <3>2. entries[i].status # "absent" => Status(i) \in Statuses \ {"absent"}
      <4>1. CASE Settling(i)
        <5>1. lock.kind \in LockKinds
          BY <4>1, StatusType DEF Holding
        <5> QED
          BY <4>1, <5>1, StatusType DEF LockKinds, Statuses
      <4>2. CASE ~Settling(i)
        BY <4>2 DEF Status, Core, TypeOK, InputTyped, Entry
      <4> QED
        BY <4>1, <4>2
    <3>3. entries[i].status = "recalled" => Status(i) = "recalled"
      <4>1. Settling(i) => lock.kind \in LockKinds
        BY StatusType DEF Holding
      <4>2. entries[i].status = "recalled" => ~Settling(i)
        BY <4>1, StatusType DEF LockKinds
      <4> QED
        BY <4>2 DEF Status
    <3>4. entries[i].status = "recalled" => ~Stored(i)
      BY DEF Core, CarriersInv, ConvCarries, Taken
    <3>5. /\ i \in restored.messages => restored.status[i] = "delivered" /\ Stored(i)
          /\ restored.status[i] = "delivered" /\ restored.to[i] = "main" => i \in restored.messages
      BY DEF JournalInv
    <3> QED
      BY <3>1, <3>2, <3>3, <3>4, <3>5 DEF Agrees, Statuses
  <2> QED
    BY <2>1, <2>2 DEF RecoveryIsExact
<1> QED
  BY <1>1, Invariance, PTL

\* What was claimed is carried, and when the session is recorded as ended the
\* journal has every message whose Enter was pressed.
THEOREM NoneLost == Spec => []NoInputIsLost
<1>1. ASSUME IInv PROVE NoInputIsLost
  <2> USE <1>1 DEF IInv
  <2>1. IsCarried
    BY DEF IsCarried, CarriedInv, Waiting, Handled
  <2>2. ASSUME main.at = "stopped", NEW i \in Inputs, i <= typed, kind[i] = "message"
        PROVE  restored.status[i] # "unknown"
    <3>1. /\ next > main.place /\ next \in Nat /\ main.place \in Nat
          /\ \A n \in InputPlaces : n < main.place
      BY <2>2 DEF EndInv, Over, Core, TypeOK, HubTyped, LoopTyped, Loop
    <3>2. editor.at \in {"accepted", "admitting"} => editor.place < next /\ editor.place \in Nat
      <4>1. editor.place \in Nat
        BY DEF Core, TypeOK, PromptTyped, Editor
      <4>2. editor.at \in {"accepted", "admitting"} => editor.place \in InputPlaces
        BY DEF InputPlaces, Submitting
      <4> QED
        BY <3>1, <4>1, <4>2
    <3>3. editor.at # "accepted"
      BY <3>1, <3>2 DEF Core, EditorInv, HubInv
    <3>4. ASSUME NEW w \in wire, w.kind = "buffered" PROVE FALSE
      <4>1. lock # Free /\ w = Announced
        BY <3>4 DEF Core, WireInv, LockKinds
      <4>2. w.at = lock.at /\ lock.kind = "buffered"
        BY <3>4, <4>1 DEF Announced, Event
      <4>3. editor.at = "admitting" /\ lock.at = editor.place
        BY <4>1, <4>2, LockFits DEF Core, TypeOK
      <4> QED
        BY <3>1, <3>2, <4>2, <4>3 DEF Core, HubInv
    <3> QED
      BY <2>2, <3>3, <3>4 DEF EnterInv
  <2> QED
    BY <2>1, <2>2 DEF NoInputIsLost
<1> QED
  BY <1>1, Invariance, PTL

\* A turn goes on after its hook in one way.
LEMMA OnlyProceed ==
  ASSUME fg \in Turn, [Next]_vars
  PROVE  fg.at = "hook" /\ fg'.at = "model" => Proceed
<1>1. UNCHANGED <<fg>> => (fg.at = "hook" /\ fg'.at = "model" => Proceed)
  BY DEF Turn
<1>2. HubStep => UNCHANGED <<fg>>
  BY DEF HubStep, HubOnly, inputVars, promptVars, arrivals, loopVars, turnVars
<1>3. SubmitCommand \/ Retain \/ Retained \/ Admit =>
        UNCHANGED <<fg>>
  BY DEF SubmitCommand, Retain, Retained, Admit, EditorAt, inputVars, turnVars, arrivals,
         loopVars
<1>4. ASSUME Admitted PROVE fg.at = "hook" /\ fg'.at = "model" => Proceed
  BY <1>4, TurnHalts DEF SameTurn
<1>5. Recall \/ NothingToRecall \/ Recalled =>
        UNCHANGED <<fg>>
  BY DEF Recall, NothingToRecall, Recalled, RecallAt, inputVars, arrivals, loopVars, turnVars
<1>6. (\E x \in Escapes : RequestInterrupt(x)) \/ (\E p \in Peers : TakeIncoming(p)) =>
        UNCHANGED <<fg>>
  BY DEF RequestInterrupt, TakeIncoming, Comes, inputVars, promptVars, loopVars, turnVars
<1>7. ASSUME NEW x \in Escapes, QueueInterrupt(x) PROVE fg.at = "hook" /\ fg'.at = "model" => Proceed
  BY <1>7, TurnHalts DEF SameTurn
<1>8. ASSUME NEW p \in Peers, QueueIncoming(p) PROVE fg.at = "hook" /\ fg'.at = "model" => Proceed
  BY <1>8, TurnHalts DEF SameTurn
<1>9. RunCommand \/ CommandRun \/ ClaimOldest \/ NothingToClaim \/ Claim \/ ClaimedTooLate
        \/ Await \/ Accept \/ ClaimAll \/ Finalize \/ Barrier \/ Context \/ Submitted \/ Break
        \/ Record \/ Stopped =>
        UNCHANGED <<fg>>
  BY DEF RunCommand, CommandRun, ClaimOldest, NothingToClaim, Claim, ClaimedTooLate, Await,
         Accept, ClaimAll, Finalize, Barrier, Context, Submitted, Break, Record, Stopped, LoopAt,
         inputVars, Open, promptVars, arrivals, turnVars
<1>10. ASSUME StartPeers PROVE fg.at = "hook" /\ fg'.at = "model" => Proceed
  BY <1>10 DEF StartPeers, NewTurn, NoTurn
<1>11. ASSUME StartReady PROVE fg.at = "hook" /\ fg'.at = "model" => Proceed
  BY <1>11 DEF StartReady, NewTurn, NoTurn
<1>12. ASSUME Claimed PROVE fg.at = "hook" /\ fg'.at = "model" => Proceed
  BY <1>12 DEF Claimed, NewTurn, NoTurn
<1>13. ASSUME Wake PROVE fg.at = "hook" /\ fg'.at = "model" => Proceed
  BY <1>13 DEF Wake, NoTurn
<1>14. ASSUME NothingForInterrupt PROVE fg.at = "hook" /\ fg'.at = "model" => Proceed
  BY <1>14, TurnHalts DEF SameTurn
<1>15. ASSUME ClaimedAll PROVE fg.at = "hook" /\ fg'.at = "model" => Proceed
  BY <1>15, TurnHalts DEF SameTurn
<1>16. ASSUME Forward PROVE fg.at = "hook" /\ fg'.at = "model" => Proceed
  BY <1>16 DEF Forward
<1>17. ASSUME StartTurn PROVE fg.at = "hook" /\ fg'.at = "model" => Proceed
  BY <1>17 DEF StartTurn
<1>18. ASSUME StoreItems PROVE fg.at = "hook" /\ fg'.at = "model" => Proceed
  BY <1>18 DEF StoreItems
<1>19. ASSUME ItemCommitted PROVE fg.at = "hook" /\ fg'.at = "model" => Proceed
  BY <1>19 DEF ItemCommitted
<1>20. ASSUME Mark PROVE fg.at = "hook" /\ fg'.at = "model" => Proceed
  BY <1>20 DEF Mark
<1>21. ASSUME Marked PROVE fg.at = "hook" /\ fg'.at = "model" => Proceed
  BY <1>21 DEF Marked
<1>22. ASSUME CallTools PROVE fg.at = "hook" /\ fg'.at = "model" => Proceed
  BY <1>22 DEF CallTools
<1>23. ASSUME ToolsDone PROVE fg.at = "hook" /\ fg'.at = "model" => Proceed
  BY <1>23 DEF ToolsDone
<1>24. ASSUME BoundaryPassed PROVE fg.at = "hook" /\ fg'.at = "model" => Proceed
  BY <1>24 DEF BoundaryPassed
<1>25. ASSUME Proceed PROVE fg.at = "hook" /\ fg'.at = "model" => Proceed
  BY <1>25
<1>26. ASSUME Answer PROVE fg.at = "hook" /\ fg'.at = "model" => Proceed
  BY <1>26 DEF Answer
<1>27. ASSUME CancelTurn PROVE fg.at = "hook" /\ fg'.at = "model" => Proceed
  <2>1. fg.at = "hook" => TurnAt("closing")
    BY <1>27 DEF CancelTurn
  <2> QED
    BY <2>1, TurnAtMoves DEF TurnPlaces
<1>28. ASSUME EndTurn PROVE fg.at = "hook" /\ fg'.at = "model" => Proceed
  BY <1>28 DEF EndTurn
<1>29. ChildStore \/ ChildMark \/ ChildMarked =>
        UNCHANGED <<fg>>
  BY DEF ChildStore, ChildMark, ChildMarked, ChildOnly, inputVars, promptVars, arrivals,
         loopVars, turnVars
<1>30. Enter \/ Up \/ ChildStops \/ (\E p \in Peers : Arrive(p)) =>
        UNCHANGED <<fg>>
  BY DEF Enter, Up, ChildStops, Arrive, Outside, inputVars, arrivals, loopVars, turnVars,
         RecallAt, ChildOnly, promptVars, Comes
<1>31. ASSUME Escape PROVE fg.at = "hook" /\ fg'.at = "model" => Proceed
  BY <1>31, TurnHalts DEF SameTurn
<1>32. ASSUME Stop PROVE fg.at = "hook" /\ fg'.at = "model" => Proceed
  BY <1>32, TurnHalts DEF SameTurn
<1>33. UNCHANGED vars => UNCHANGED <<fg>>
  BY DEF vars, inputVars, promptVars, arrivals, loopVars, turnVars
<1> QED
  BY <1>1, <1>2, <1>3, <1>4, <1>5, <1>6, <1>7, <1>8, <1>9, <1>10, <1>11, <1>12, <1>13, <1>14,
     <1>15, <1>16, <1>17, <1>18, <1>19, <1>20, <1>21, <1>22, <1>23, <1>24, <1>25, <1>26, <1>27,
     <1>28, <1>29, <1>30, <1>31, <1>32, <1>33
     DEF Next, Prompt, RecallStep, ArrivalStep, LoopStep, TurnStep, ChildStep, FromOutside, Rest

\* No input whose Enter came before the tools of a turn were done is missed by
\* its next request, wherever its admission is.
THEOREM NoneMissed == Spec => BoundaryMissesNoInput
<1> DEFINE Goal ==
             fg.at = "hook" /\ fg'.at = "model" =>
               /\ PendingFor("main") = {}
               /\ editor.at \in {"accepted", "admitting"} /\ editor.to = "main"
                    /\ kind[editor.id] = "message"
                    => editor.place > fg.place
<1>1. ASSUME IInv, [Next]_vars PROVE Goal
  <2> SUFFICES ASSUME fg.at = "hook", fg'.at = "model"
               PROVE  PendingFor("main") = {} /\ (editor.at \in {"accepted", "admitting"}
                     => editor.place > fg.place)
    OBVIOUS
  <2> USE <1>1 DEF IInv
  <2>1. fg \in Turn
    BY DEF Core, TypeOK, TurnTyped
  <2>2. Proceed
    BY <2>1, OnlyProceed
  <2>3. PendingFor("main") = {}
    <3>1. PendingFor("main") # {} => TurnAt("closing")
      BY <2>2 DEF Proceed
    <3> QED
      BY <2>1, <3>1, TurnAtMoves DEF TurnPlaces
  <2>4. editor.at # "admitting"
    BY <2>2 DEF Proceed, Unlocked, Core, LockInv, EditorLock, Free
  <2>5. next > fg.place /\ next \in Nat /\ fg.place \in Nat /\ editor.place \in Nat
    BY <2>1 DEF HookInv, Over, Core, TypeOK, HubTyped, PromptTyped, Editor, Turn
  <2>6. editor.at = "accepted" => next <= editor.place
    BY DEF Core, EditorInv, HubInv
  <2> QED
    BY <2>3, <2>4, <2>5, <2>6
<1>2. IInv /\ [Next]_vars => [Goal]_vars
  BY <1>1
<1> QED
  BY <1>2, Invariance, PTL DEF Spec, BoundaryMissesNoInput

\* The conversation has each input at most once, in the order of the Enters,
\* whether it came alone, with an interrupt or after one, and the notice of an
\* interrupt after what the interrupted turn has said.
THEOREM SaidAsItHappened == Spec => []ConversationOrder
<1>1. IInv => ConversationOrder
  BY DEF IInv, OrderInv, NoticeInv, SaidInOrder, Increasing, ConversationOrder
<1> QED
  BY <1>1, Invariance, PTL

=============================================================================
