------------------------------ MODULE EventHub ------------------------------
(***************************************************************************)
(* SessionEventHub (axio_tools_agents/runtime.py): one total order for     *)
(* everything that happens in a session, fanned out to every subscriber.   *)
(*                                                                         *)
(* A client publishes an event, reserves a place in the order from a       *)
(* synchronous callback and publishes or discards it later, or waits until *)
(* everything sequenced so far is delivered.  Publications are delivered   *)
(* by whichever client holds the publish lock, in sequence order and up to *)
(* the first place that is reserved and not yet filled; a publisher whose  *)
(* turn has not come leaves the lock and waits for its result.  Any client *)
(* may be cancelled wherever it awaits.                                    *)
(***************************************************************************)
EXTENDS Integers, Sequences, FiniteSets

CONSTANTS Clients,     \* callers of the hub, one operation each
          Subscribers

VARIABLES
  seq,          \* _seq: the last sequence number given out
  reserved,     \* _reserved_sequences
  discarded,    \* _discarded_sequences
  next,         \* _next_publication_seq
  pending,      \* _pending_publications: events waiting for their turn
  live,         \* _subscribers
  delivering,   \* whether the event of place next is being delivered
  todo,         \* the subscribers that have not finished with it
  settled,      \* publications whose result future has its envelope
  aborted,      \* publications whose result future is cancelled
  pc, op, mine, \* each client's place, operation and sequence number
  failed,       \* the drainer was cancelled and raises when it is done
  got,          \* history variable: what each subscriber has received
  owed          \* history variable: the subscribers of each publication

hubVars    == <<seq, reserved, discarded, next, pending, live>>
drainVars  == <<delivering, todo, settled, aborted, failed>>
clientVars == <<pc, op, mine>>
history    == <<got, owed>>
vars == <<seq, reserved, discarded, next, pending, live, delivering, todo,
          settled, aborted, pc, op, mine, failed, got, owed>>

Publication == [seq : Nat, to : SUBSET Subscribers]

Places == {"idle", "reserved", "lock", "drain", "result", "waiting", "done", "cancelled"}

LockFree == \A c \in Clients : pc[c] # "drain"

Init ==
  /\ seq = 0 /\ reserved = {} /\ discarded = {} /\ next = 1
  /\ pending = {} /\ live = Subscribers
  /\ delivering = FALSE /\ todo = {} /\ settled = {} /\ aborted = {}
  /\ pc = [c \in Clients |-> "idle"]
  /\ op = [c \in Clients |-> "none"]
  /\ mine = [c \in Clients |-> 0]
  /\ failed = FALSE
  /\ got = [s \in Subscribers |-> << >>]
  /\ owed = {}

-----------------------------------------------------------------------------
(* Clients before they have the lock.                                      *)

Become(c, place) == pc' = [pc EXCEPT ![c] = place]

\* reserve_sequence: synchronous, from the prompt's key handler.
Reserve(c) ==
  /\ pc[c] = "idle"
  /\ seq' = seq + 1
  /\ reserved' = reserved \cup {seq + 1}
  /\ mine' = [mine EXCEPT ![c] = seq + 1]
  /\ Become(c, "reserved")
  /\ UNCHANGED <<discarded, next, pending, live, drainVars, op, history>>

\* publish, with the reserved place or without one, queues for the lock ...
Publish(c) ==
  /\ pc[c] \in {"idle", "reserved"}
  /\ op' = [op EXCEPT ![c] = "publish"]
  /\ Become(c, "lock")
  /\ UNCHANGED <<hubVars, drainVars, mine, history>>

\* ... as discard_reserved_sequence does.
Discard(c) ==
  /\ pc[c] = "reserved"
  /\ op' = [op EXCEPT ![c] = "discard"]
  /\ Become(c, "lock")
  /\ UNCHANGED <<hubVars, drainVars, mine, history>>

\* wait_through_current_sequence reads its target before it queues.
Wait(c) ==
  /\ pc[c] = "idle"
  /\ op' = [op EXCEPT ![c] = "wait"]
  /\ mine' = [mine EXCEPT ![c] = seq]
  /\ Become(c, "lock")
  /\ UNCHANGED <<hubVars, drainVars, history>>

\* A subscriber leaves: it still receives what was published before.
Unsubscribe(s) ==
  /\ s \in live
  /\ live' = live \ {s}
  /\ UNCHANGED <<seq, reserved, discarded, next, pending, drainVars, clientVars, history>>

-----------------------------------------------------------------------------
(* With the lock: claim a place, then drain.                               *)

ClaimMutant(c) == seq + 1    \* a reserved place is filled with a new one

\* _claim_sequence: the reserved place, or the next one.
Claim(c) == IF mine[c] # 0 THEN mine[c] ELSE seq + 1

AcquireToPublish(c) ==
  /\ pc[c] = "lock" /\ op[c] = "publish" /\ LockFree
  /\ mine[c] # 0 => mine[c] \in reserved
  /\ LET n == Claim(c) IN
       /\ pending' = pending \cup {[seq |-> n, to |-> live]}
       /\ owed' = owed \cup ({n} \X live)
       /\ mine' = [mine EXCEPT ![c] = n]
       /\ reserved' = reserved \ {n}
       /\ seq' = IF mine[c] # 0 THEN seq ELSE seq + 1
  /\ Become(c, "drain")
  /\ UNCHANGED <<discarded, next, live, drainVars, op, got>>

AcquireToDiscard(c) ==
  /\ pc[c] = "lock" /\ op[c] = "discard" /\ LockFree
  /\ mine[c] \in reserved
  /\ reserved' = reserved \ {mine[c]}
  /\ discarded' = discarded \cup {mine[c]}
  /\ Become(c, "drain")
  /\ UNCHANGED <<seq, next, pending, live, drainVars, op, mine, history>>

AcquireToWait(c) ==
  /\ pc[c] = "lock" /\ op[c] = "wait" /\ LockFree
  /\ Become(c, "drain")
  /\ UNCHANGED <<hubVars, drainVars, op, mine, history>>

\* Each definition named ..Mutant is a plausible mistake in the definition
\* that follows it, kept to show that the properties would notice.

\* _drain_publications, place by place: a discarded place is passed over, ...
DrainSkip(c) ==
  /\ pc[c] = "drain" /\ ~delivering /\ next \in discarded
  /\ discarded' = discarded \ {next}
  /\ next' = next + 1
  /\ UNCHANGED <<seq, reserved, pending, live, drainVars, clientVars, history>>

\* ... a publication is handed to the subscribers it was published to, ...
DrainTake(c) ==
  /\ pc[c] = "drain" /\ ~delivering /\ next \notin discarded
  /\ \E p \in pending :
       /\ p.seq = next /\ p.to # {}
       /\ pending' = pending \ {p}
       /\ todo' = p.to
  /\ delivering' = TRUE
  /\ UNCHANGED <<seq, reserved, discarded, next, live, settled, aborted,
                 failed, clientVars, history>>

\* ... or, if there are none, is settled without an await, ...
DrainUnheard(c) ==
  /\ pc[c] = "drain" /\ ~delivering /\ next \notin discarded
  /\ \E p \in pending :
       /\ p.seq = next /\ p.to = {}
       /\ pending' = pending \ {p}
  /\ settled' = settled \cup {next}
  /\ next' = next + 1
  /\ UNCHANGED <<seq, reserved, discarded, live, delivering, todo, aborted,
                 failed, clientVars, history>>

\* ... each of which takes its own time, ...
Receive(s) ==
  /\ delivering /\ s \in todo
  /\ got' = [got EXCEPT ![s] = Append(@, next)]
  /\ todo' = todo \ {s}
  /\ UNCHANGED <<hubVars, delivering, settled, aborted, failed, clientVars, owed>>

DrainDeliveredMutant(c) ==  \* the subscribers are not awaited
  /\ pc[c] = "drain" /\ delivering
  /\ delivering' = FALSE /\ todo' = {}
  /\ settled' = settled \cup {next}
  /\ next' = next + 1
  /\ UNCHANGED <<seq, reserved, discarded, pending, live, aborted,
                 failed, clientVars, history>>

\* ... and when all have it, the publisher's result is set.
DrainDelivered(c) ==
  /\ pc[c] = "drain" /\ delivering /\ todo = {}
  /\ delivering' = FALSE
  /\ settled' = settled \cup {next}
  /\ next' = next + 1
  /\ UNCHANGED <<seq, reserved, discarded, pending, live, todo, aborted,
                 failed, clientVars, history>>

DrainCancelledMutant(c) ==  \* the interrupted delivery is tried again
  /\ pc[c] = "drain" /\ delivering
  /\ delivering' = FALSE /\ todo' = {}
  /\ pending' = pending \cup {[seq |-> next, to |-> {s \in Subscribers : <<next, s>> \in owed}]}
  /\ failed' = TRUE
  /\ UNCHANGED <<seq, reserved, discarded, next, live, settled, aborted, clientVars, history>>

\* The drainer is cancelled: so are the subscribers that are still at it, and
\* the result of the publication, whoever published it.  The rest is drained.
DrainCancelled(c) ==
  /\ pc[c] = "drain" /\ delivering
  /\ delivering' = FALSE /\ todo' = {}
  /\ aborted' = aborted \cup {next}
  /\ next' = next + 1
  /\ failed' = TRUE
  /\ UNCHANGED <<seq, reserved, discarded, pending, live, settled, clientVars, history>>

\* Nothing more can be delivered: whoever waits for a place before next is
\* woken, and the lock released.
Blocked == next \notin discarded /\ \A p \in pending : p.seq # next

\* Where the drainer goes when it has released the lock.
AfterDrain(c) ==
  IF failed THEN "cancelled"
  ELSE CASE op[c] = "publish"                  -> "result"
         [] op[c] = "wait" /\ next <= mine[c]  -> "waiting"
         [] OTHER                              -> "done"

DrainEndMutant(c) ==        \* nobody is woken
  /\ pc[c] = "drain" /\ ~delivering /\ Blocked
  /\ Become(c, AfterDrain(c))
  /\ failed' = FALSE
  /\ UNCHANGED <<hubVars, delivering, todo, settled, aborted, op, mine, history>>

DrainEnd(c) ==
  /\ pc[c] = "drain" /\ ~delivering /\ Blocked
  /\ pc' = [d \in Clients |->
              IF d = c THEN AfterDrain(c)
              ELSE IF pc[d] = "waiting" /\ next > mine[d] THEN "done" ELSE pc[d]]
  /\ failed' = FALSE
  /\ UNCHANGED <<hubVars, delivering, todo, settled, aborted, op, mine, history>>

-----------------------------------------------------------------------------
(* Clients after they had the lock.                                        *)

\* The shielded result is there.
Return(c) ==
  /\ pc[c] = "result" /\ mine[c] \in settled
  /\ Become(c, "done")
  /\ UNCHANGED <<hubVars, drainVars, op, mine, history>>

\* The result was cancelled: publish raises CancelledError.
Raise(c) ==
  /\ pc[c] = "result" /\ mine[c] \in aborted
  /\ Become(c, "cancelled")
  /\ UNCHANGED <<hubVars, drainVars, op, mine, history>>

\* A client is cancelled while it waits for the lock, for its result or for a
\* boundary.  Nothing of the hub changes: a place it reserved stays reserved.
Cancel(c) ==
  /\ pc[c] \in {"lock", "result", "waiting"}
  /\ Become(c, "cancelled")
  /\ UNCHANGED <<hubVars, drainVars, op, mine, history>>

-----------------------------------------------------------------------------

Drain(c) == DrainSkip(c) \/ DrainTake(c) \/ DrainUnheard(c) \/ DrainDelivered(c) \/ DrainEnd(c)

Acquire(c) == AcquireToPublish(c) \/ AcquireToDiscard(c) \/ AcquireToWait(c)

Ask(c) == Reserve(c) \/ Publish(c) \/ Discard(c) \/ Wait(c)

Over(c) == pc[c] \in {"idle", "done", "cancelled"}

Stuck(c) == pc[c] \in {"result", "waiting"}

\* Every client is through, or waits behind a reservation that will never be
\* filled because its owner was cancelled on the way to the lock.
Rest ==
  /\ \A c \in Clients : Over(c) \/ Stuck(c)
  /\ UNCHANGED vars

Next ==
  \/ \E c \in Clients : \/ Ask(c) \/ Acquire(c) \/ Drain(c) \/ DrainCancelled(c)
                        \/ Return(c) \/ Raise(c) \/ Cancel(c)
  \/ \E s \in Subscribers : Receive(s) \/ Unsubscribe(s)
  \/ Rest

Spec == Init /\ [][Next]_vars

\* The event loop runs what is ready, subscribers finish, and a client that
\* reserved a place goes on to use it.
FairSpec ==
  /\ Spec
  /\ \A c \in Clients : /\ WF_vars(Acquire(c)) /\ WF_vars(Drain(c))
                        /\ WF_vars(Return(c) \/ Raise(c))
                        /\ WF_vars(pc[c] = "reserved" /\ (Publish(c) \/ Discard(c)))
  /\ \A s \in Subscribers : WF_vars(Receive(s))

-----------------------------------------------------------------------------
(* Properties.                                                             *)

\* The places with an event that is not delivered yet.
Filled == {p.seq : p \in pending} \cup (IF delivering THEN {next} ELSE {})

Order == INSTANCE EventOrder WITH given <- seq, filled <- Filled, dropped <- discarded

\* The hub is an EventOrder, whoever drains it and whoever is cancelled: the
\* locks, the queue of publications and the delivery under way come down to
\* places that are given out, filled or dropped once, and passed in order
\* (runtime.py:300-435).
KeepsTheOrder == Order!Spec

TypeOK ==
  /\ seq \in Nat /\ next \in 1..(seq + 1)
  /\ reserved \subseteq next..seq /\ discarded \subseteq next..seq
  /\ pending \subseteq Publication
  /\ live \subseteq Subscribers /\ todo \subseteq Subscribers
  /\ delivering \in BOOLEAN /\ failed \in BOOLEAN
  /\ settled \subseteq Nat /\ aborted \subseteq Nat
  /\ pc \in [Clients -> Places]
  /\ op \in [Clients -> {"none", "publish", "discard", "wait"}]
  /\ mine \in [Clients -> Nat]
  /\ got \in [Subscribers -> Seq(Nat)]
  /\ owed \subseteq Nat \X Subscribers

\* "One monotonic order" (docs/packages.md:218): every subscriber receives
\* the events in the order of their sequence numbers, none of them twice,
\* whoever delivers them and whoever is cancelled meanwhile.
OneOrder ==
  \A s \in Subscribers : \A i, j \in 1..Len(got[s]) : i < j => got[s][i] < got[s][j]

\* A reserved place is not overtaken (axio-tools-agents/README.md:36): while
\* it is neither filled nor discarded, no later event reaches anyone.
NotOvertaken ==
  \A r \in reserved : \A s \in Subscribers : \A i \in 1..Len(got[s]) : got[s][i] < r

\* publish returns only after every subscriber that was subscribed when the
\* event was sequenced has received it (runtime.py:381).
ReturnedMeansReceived ==
  \A c \in Clients : pc[c] = "done" /\ op[c] = "publish" =>
    \A s \in Subscribers : <<mine[c], s>> \in owed =>
      \E i \in 1..Len(got[s]) : got[s][i] = mine[c]

\* wait_through_current_sequence returns only when everything that had a
\* sequence number before it was called is delivered, discarded or, by a
\* cancellation, given up.
BoundaryReached ==
  \A c \in Clients : pc[c] = "done" /\ op[c] = "wait" =>
    /\ next > mine[c]
    /\ \A n \in 1..mine[c] : n \notin reserved /\ \A p \in pending : p.seq # n
    /\ \A o \in owed : o[1] <= mine[c] =>
         o[1] \in aborted \/ \E i \in 1..Len(got[o[2]]) : got[o[2]][i] = o[1]

\* Unless a reservation is left unfilled for ever, nobody waits for ever: a
\* publisher that leaves the lock early is served by whoever fills the gap,
\* and no wake-up of a boundary is lost (runtime.py:433).
NobodyWaitsForEver ==
  \/ []<>(reserved # {})
  \/ \A c \in Clients : pc[c] \in {"lock", "drain", "result", "waiting"} ~> Over(c)

=============================================================================
