-------------------------- MODULE ForegroundProofs --------------------------
(***************************************************************************)
(* What holds of the interactive session for any number of inputs, peers   *)
(* and presses of Escape, whatever the order of its tasks: its variables   *)
(* have their types, the coordinator's lock is held by the task that       *)
(* awaits its own transition, places are given once, and whoever carries   *)
(* inputs carries claimed ones.                                            *)
(***************************************************************************)
EXTENDS Foreground, NaturalsLemmas, SequenceTheorems, FiniteSetTheorems

-----------------------------------------------------------------------------
(* Messages in the order of their places.                                  *)

Unequal(S) == \A e, f \in S : e[2] \in Int /\ (e[2] = f[2] => e = f)

RankIn(S, e) == Cardinality({f \in S : f[2] <= e[2]})

\* Of two messages the later one has the higher rank.
LEMMA RankGrows ==
  ASSUME NEW S, IsFiniteSet(S), Unequal(S), NEW e \in S, NEW f \in S, e[2] < f[2]
  PROVE  RankIn(S, e) < RankIn(S, f)
<1> DEFINE A == {g \in S : g[2] <= e[2]}
           B == {g \in S : g[2] <= f[2]}
<1>1. IsFiniteSet(A) /\ IsFiniteSet(B)
  BY FS_Subset
<1>2. A \subseteq B /\ f \in B /\ f \notin A
  BY DEF Unequal
<1>3. Cardinality(A) <= Cardinality(B) /\ Cardinality(A) # Cardinality(B)
  BY <1>1, <1>2, FS_Subset
<1>4. Cardinality(A) \in Nat /\ Cardinality(B) \in Nat
  BY <1>1, FS_CardinalityType
<1> QED
  BY <1>3, <1>4 DEF RankIn

\* Every rank is that of one message.
LEMMA RankIsTaken ==
  ASSUME NEW S, IsFiniteSet(S), Unequal(S)
  PROVE  /\ Cardinality(S) \in Nat
         /\ \A e \in S : RankIn(S, e) \in 1..Cardinality(S)
         /\ \A k \in 1..Cardinality(S) : \E e \in S : RankIn(S, e) = k
<1> DEFINE n == Cardinality(S)
           r == [e \in S |-> RankIn(S, e)]
<1>1. n \in Nat
  BY FS_CardinalityType
<1>2. ASSUME NEW e \in S PROVE RankIn(S, e) \in 1..n
  <2> DEFINE A == {f \in S : f[2] <= e[2]}
  <2>1. IsFiniteSet(A) /\ Cardinality(A) <= n
    BY FS_Subset
  <2>2. e \in A
    BY DEF Unequal
  <2>3. Cardinality(A) \in Nat /\ Cardinality(A) # 0
    BY <2>1, <2>2, FS_CardinalityType, FS_EmptySet
  <2> QED
    BY <1>1, <2>1, <2>3 DEF RankIn
<1>3. ASSUME NEW e \in S, NEW f \in S, RankIn(S, e) = RankIn(S, f) PROVE e = f
  <2>1. e[2] \in Int /\ f[2] \in Int
    BY DEF Unequal
  <2>2. ~(e[2] < f[2]) /\ ~(f[2] < e[2])
    BY <1>1, <1>2, <1>3, RankGrows
  <2>3. e[2] = f[2]
    BY <2>1, <2>2
  <2> QED
    BY <2>3 DEF Unequal
<1>4. r \in Injection(S, 1..n)
  BY <1>2, <1>3 DEF Injection, IsInjective
<1>5. IsFiniteSet(1..n) /\ Cardinality(1..n) = n
  BY <1>1, FS_Interval
<1>6. r \in Surjection(S, 1..n)
  BY <1>4, <1>5, FS_Injection
<1> QED
  BY <1>1, <1>2, <1>6 DEF Surjection

\* InOrder lists the messages of S, each once, by their places.
LEMMA InOrderLists ==
  ASSUME NEW S, IsFiniteSet(S), Unequal(S)
  PROVE  /\ Len(InOrder(S)) = Cardinality(S) /\ Cardinality(S) \in Nat
         /\ DOMAIN InOrder(S) = 1..Cardinality(S)
         /\ \A k \in 1..Len(InOrder(S)) : \E e \in S : RankIn(S, e) = k /\ InOrder(S)[k] = e[1]
         /\ \A e \in S : \E k \in 1..Len(InOrder(S)) : RankIn(S, e) = k /\ InOrder(S)[k] = e[1]
         /\ \A j, k \in 1..Len(InOrder(S)) : j < k =>
              \E e, f \in S : InOrder(S)[j] = e[1] /\ InOrder(S)[k] = f[1] /\ e[2] < f[2]
<1> DEFINE n == Cardinality(S)
           s == InOrder(S)
<1>1. n \in Nat /\ \A k \in 1..n : \E e \in S : RankIn(S, e) = k
  BY RankIsTaken
<1>2. s = [k \in 1..n |-> (CHOOSE e \in S : RankIn(S, e) = k)[1]]
  BY DEF InOrder, RankIn
<1>3. DOMAIN s = 1..n
  BY <1>2
<1>4. Len(s) = n
  BY <1>1, <1>3
<1>5. ASSUME NEW k \in 1..n PROVE \E e \in S : RankIn(S, e) = k /\ s[k] = e[1]
  BY <1>1, <1>2
<1>6. ASSUME NEW e \in S, NEW f \in S, RankIn(S, e) = RankIn(S, f) PROVE e = f
  <2>1. e[2] \in Int /\ f[2] \in Int
    BY DEF Unequal
  <2>2. RankIn(S, e) \in Int
    BY <1>1, RankIsTaken
  <2>3. ~(e[2] < f[2]) /\ ~(f[2] < e[2])
    BY <1>6, <2>2, RankGrows
  <2>4. e[2] = f[2]
    BY <2>1, <2>3
  <2> QED
    BY <2>4 DEF Unequal
<1>7. ASSUME NEW e \in S PROVE \E k \in 1..n : RankIn(S, e) = k /\ s[k] = e[1]
  <2>1. RankIn(S, e) \in 1..n
    BY RankIsTaken
  <2>2. PICK f \in S : RankIn(S, f) = RankIn(S, e) /\ s[RankIn(S, e)] = f[1]
    BY <1>5, <2>1
  <2>3. f = e
    BY <1>6, <2>2
  <2> QED
    BY <2>1, <2>2, <2>3
<1>8. ASSUME NEW j \in 1..n, NEW k \in 1..n, j < k
      PROVE  \E e, f \in S : s[j] = e[1] /\ s[k] = f[1] /\ e[2] < f[2]
  <2>1. PICK e \in S : RankIn(S, e) = j /\ s[j] = e[1]
    BY <1>5
  <2>2. PICK f \in S : RankIn(S, f) = k /\ s[k] = f[1]
    BY <1>5
  <2>3. e[2] \in Int /\ f[2] \in Int /\ e # f
    BY <1>8, <2>1, <2>2 DEF Unequal
  <2>4. e[2] # f[2]
    BY <2>3 DEF Unequal
  <2>5. ~(f[2] < e[2])
    BY <1>1, <1>8, <2>1, <2>2, RankGrows
  <2> QED
    BY <2>1, <2>2, <2>3, <2>4, <2>5
<1> QED
  BY <1>1, <1>3, <1>4, <1>5, <1>7, <1>8

-----------------------------------------------------------------------------
(* The hub, the coordinator's lock, and what the variables are.            *)

\* What the journal records, by kind; the lock is held by one of the owners.
EventKinds == {"buffered", "recalled", "claimed", "delivered", "committed", "other"}
LockKinds == {"buffered", "recalled", "claimed", "delivered"}
Owners == {"editor", "recall", "loop", "turn", "child"}
Marks == [at : Nat, kind : EventKinds, ids : SUBSET Inputs, to : Agents]

\* The lock of pending input, held for one transition of some inputs.
Holding == [by : Owners, kind : LockKinds, ids : SUBSET Inputs, to : Agents, at : Nat]
Found == [status : [Inputs -> (Statuses \ {"absent"}) \cup {"unknown"}], to : [Inputs -> Agents],
          messages : SUBSET Inputs, failed : BOOLEAN]

\* The types of the variables, component by component.
HubTyped == /\ given \in Nat /\ next \in Nat /\ reserved \subseteq Nat /\ dropped \subseteq Nat
            /\ wire \subseteq Marks
InputTyped == entries \in [Inputs -> Entry] /\ (lock = Free \/ lock \in Holding)
PromptTyped == /\ editor \in Editor /\ typed \in Nat /\ recall \in {"none", "lock", "recalling"}
               /\ kind \in [Inputs -> Kinds \cup {"retained"}] /\ keys \in Int /\ keys >= -1
ArrivalsTyped == /\ escape \in [Escapes -> Request] /\ peer \in [Peers -> Incoming]
                 /\ stop \in {"none", "signal", "eof"} /\ inbox \in {"none", "waiting", "taken"}
LoopTyped == /\ main \in Loop /\ interrupted \subseteq Nat
             /\ interrupts \in Seq(Interrupts) /\ settling \in Seq(Interrupts)
TurnTyped == fg \in Turn /\ turns \in Nat /\ early \subseteq Inputs

TypeOK ==
  /\ HubTyped /\ InputTyped /\ PromptTyped /\ ArrivalsTyped /\ LoopTyped /\ TurnTyped
  /\ restored \in Found /\ child \in Child
  /\ ready \in Seq(Claims) /\ conv \in Seq(Items)

-----------------------------------------------------------------------------
(* The invariant.                                                          *)

\* What has a place and is not passed yet: an event, a key press that has not
\* published its event, or nothing any more.
HubInv ==
  /\ next <= given + 1
  /\ \A w \in wire : next <= w.at /\ w.at <= given /\ w.at \notin reserved /\ w.at \notin dropped
  /\ \A n \in reserved : next <= n /\ n <= given /\ n \notin dropped
  /\ \A n \in dropped : next <= n /\ n <= given

\* Whoever holds the lock waits for its own transition, which still fits the
\* entries: they do not change before it is over.
EditorLock ==
  /\ lock.by = "editor" <=> editor.at = "admitting"
  /\ lock.by = "editor" => lock = Transition("editor", "buffered", {editor.id}, editor.to, editor.place)

\* A recall holds it for all that is pending, ...
RecallLock ==
  /\ lock.by = "recall" <=> recall = "recalling"
  /\ lock.by = "recall" => lock.kind = "recalled" /\ lock.ids = Pending

\* ... the loop for the oldest input, or for all of them on an interrupt, ...
LoopLock ==
  /\ lock.by = "loop" <=> main.at \in {"claiming", "claimingAll"}
  /\ lock.by = "loop" => lock.kind = "claimed" /\ lock.ids \subseteq Pending
  /\ main.at = "claiming" => \E i \in Pending :
       lock.ids = {i} /\ lock.to = entries[i].to /\ \A j \in Pending : entries[i].seq <= entries[j].seq
  /\ main.at = "claimingAll" => lock.ids = Pending /\ lock.to = main.now.to

\* ... the turn for the inputs it marks as delivered, ...
TurnLock ==
  /\ lock.by = "turn" <=> fg.at = "marking"
  /\ lock.by = "turn" => lock.kind = "delivered" /\ lock.ids = fg.ids /\ lock.to = "main"

\* ... and the child agent for the first of what it was given.
ChildLock ==
  /\ lock.by = "child" <=> child.at = "marking"
  /\ lock.by = "child" => lock.kind = "delivered" /\ lock.ids = Head(child.queue) /\ lock.to = "child"
  /\ child.at \in {"mark", "marking"} => child.queue # << >>

\* The lock is held by whoever is in the middle of a transition.
LockInv == EditorLock /\ RecallLock /\ LoopLock /\ TurnLock /\ ChildLock

\* The event that tells of the transition the lock is held for.
Announced == Event(lock.at, lock.kind, lock.ids, lock.to)

\* Every transition on its way is that of the lock, once.
WireInv ==
  /\ lock # Free => lock.at <= given /\ (Over(lock.at) \/ Announced \in wire)
  /\ \A w \in wire : w.kind \in LockKinds => lock # Free /\ w = Announced
  /\ \A w \in wire : w.kind = "other" => w.ids = {}

\* An input whose acceptance was announced.
Known(i) == entries[i].status # "absent"

\* An Enter has its place and its input is not pending yet.
Submitting == editor.at \in {"accepted", "admitting"}

\* The inputs are known in the order of their Enters, which is the order of
\* their places; the one that is being submitted is the last.
EditorInv ==
  /\ editor.at = "accepted" => editor.place \in reserved
  /\ Submitting =>
       /\ editor.id = typed /\ typed \in Inputs /\ ~Known(typed) /\ editor.place <= given
       /\ \A i \in Inputs : Known(i) => entries[i].seq < editor.place
  /\ \A i \in Inputs : Known(i) => i <= typed /\ entries[i].seq <= given
  /\ \A i, j \in Inputs : Known(i) /\ Known(j) /\ i < j => entries[i].seq < entries[j].seq

\* A message that came from outside, an input and an interrupt never have the
\* same place.
Interrupting == main.at \in {"claimAll", "claimingAll", "finalize", "barrier"}

\* The places in the numbering that belong to inputs, ...
InputPlaces ==
  {entries[i].seq : i \in {j \in Inputs : Known(j)}} \cup (IF Submitting THEN {editor.place} ELSE {})

\* ... to the interrupts of a queue, ...
PlacesOf(s) == {s[n].place : n \in 1..Len(s)}

\* ... to those that were announced and are not queued, ...
PostedPlaces == {escape[x].place : x \in {y \in Escapes : escape[y].at = "posted"}}

\* ... to the one the loop is busy with, ...
BusyPlaces == IF Interrupting THEN {main.now.place} ELSE {}

\* ... to any interrupt.
RequestPlaces == PostedPlaces \cup PlacesOf(interrupts) \cup PlacesOf(settling) \cup BusyPlaces

\* The messages of peers that have come.
Came == {p \in Peers : peer[p].at # "none"}

\* No two of them have the same place.
PlacesInv ==
  /\ \A p \in Came : peer[p].place <= given /\ peer[p].place \notin InputPlaces \cup RequestPlaces
  /\ \A n \in RequestPlaces : n <= given /\ n \notin InputPlaces
  /\ \A p, q \in Came : peer[p].place = peer[q].place => p = q

\* What was claimed for agent a, for good.
Taken(ids, a) == \A i \in ids : entries[i].status \in {"claimed", "delivered"} /\ entries[i].to = a

\* The input that an item of a turn comes from.
InputOf(item) == IF item[1] = "input" THEN {item[2]} ELSE {}

\* The items of a turn have the inputs ids, and no other.
Carries(items, ids) ==
  /\ \A n \in 1..Len(items) : InputOf(items[n]) \subseteq ids
  /\ \A i \in ids : \E n \in 1..Len(items) : items[n] = <<"input", i>>

\* main.now is what the loop is busy with, else it is left from before.
Finalizing == main.at \in {"finalize", "barrier"}

\* The turn is past the storing of its items.
AfterStore == {"committing", "mark", "marking", "model", "tools", "boundary", "hook"}

\* Whoever carries inputs carries claimed ones, to the agent they were claimed
\* for; what the conversation has, or a message on its way to the journal came
\* from, was claimed before.
TurnCarries ==
  /\ Taken(fg.ids, fg.to)
  /\ fg.at \in {"created", "starting", "committing"} => Carries(fg.items, fg.ids)
  /\ fg.at \in AfterStore \cup {"starting"} => fg.to = "main"
  /\ fg.at \in AfterStore => \A i \in fg.ids : Stored(i)
  /\ fg.at \in {"none", "ended", "closing"} => fg.ids = {}

\* So are the inputs of the claims that are ready, ...
ReadyCarries == \A n \in 1..Len(ready) : Taken(ready[n].ids, ready[n].to)
      /\ Carries(ready[n].items, ready[n].ids)

\* ... of the interrupts that have claimed, ...
InterruptCarries ==
  /\ \A n \in 1..Len(settling) : Taken(settling[n].ids, "main") /\ settling[n].to = "main"
  /\ Finalizing => Taken(main.now.ids, main.now.to)

\* ... of what the child was given, ...
ChildCarries == \A n \in 1..Len(child.queue) : Taken(child.queue[n], "child")

\* ... of the conversation, ...
ConvCarries == \A i \in Inputs : Stored(i) => Taken({i}, "main")

\* ... and of the commits on their way.
WireCarries ==
  \A w \in wire : w.kind = "committed" =>
    Taken(w.ids, w.to) /\ (w.to = "main" => \A i \in w.ids : Stored(i))

\* Whoever carries an input carries one that was claimed for its agent.
CarriersInv == TurnCarries /\ ReadyCarries /\ InterruptCarries /\ ChildCarries /\ ConvCarries
      /\ WireCarries

\* An interrupt the loop is about to accept is there.
RequestedInv ==
  /\ main.at = "accept" => interrupts # << >>
  /\ main.at \in {"claimAll", "claimingAll"} => "interrupt" \notin main.done
  /\ "interrupt" \in main.done /\ main.at \in {"finalize", "barrier", "context"} => interrupts # << >>

\* A wakeup is under way.
Awake == {"accept", "claimAll", "claimingAll", "finalize", "barrier", "context"}

\* The submission the loop is about to take is there too.
DoneInv ==
  /\ main.at = "input" => editor.at = "done"
  /\ "input" \in main.done /\ main.at \in Awake => editor.at = "done"

-----------------------------------------------------------------------------
(* What a step does to the hub.                                            *)

\* The steps of the numbering: a place is reserved, ...
Took ==
  /\ given' = given + 1 /\ reserved' = reserved \cup {given + 1}
  /\ UNCHANGED <<dropped, next, wire>>

\* ... given up, ...
GaveUp(n) ==
  /\ n \in reserved /\ reserved' = reserved \ {n} /\ dropped' = dropped \cup {n}
  /\ UNCHANGED <<given, next, wire>>

\* ... taken by an event at once, ...
Posted(w) ==
  /\ w.at = given + 1 /\ given' = given + 1 /\ wire' = wire \cup {w}
  /\ UNCHANGED <<reserved, dropped, next>>

\* ... or filled with the event it was reserved for; ...
Filled(w) ==
  /\ w.at \in reserved /\ reserved' = reserved \ {w.at} /\ wire' = wire \cup {w}
  /\ UNCHANGED <<given, dropped, next>>

\* ... the event of the next place is delivered or dropped, ...
Settled(w) ==
  /\ w \in wire /\ w.at = next /\ next' = next + 1
  /\ wire' = wire \ {w} /\ \A v \in wire' : v.at # next
  /\ UNCHANGED <<given, reserved, dropped>>

\* ... or the next place was given up and is passed over.
Passed ==
  /\ next \in dropped /\ dropped' = dropped \ {next} /\ next' = next + 1
  /\ UNCHANGED <<given, reserved, wire>>

\* What a step does to the numbering of events.
HubMove ==
  \/ UNCHANGED hubVars
  \/ Took \/ GaveUp(editor.place) \/ Passed
  \/ \E w \in Marks : Posted(w) \/ (w.at = editor.place /\ Filled(w)) \/ Settled(w)

\* The operations of the hub, without the places they leave as they are.
LEMMA TakePlaceMoves == ASSUME TakePlace PROVE Took
  BY DEF TakePlace, Took, Order!Reserve

\* A submission that fails gives its reserved place up.
LEMMA GiveUpMoves == ASSUME NEW n, GiveUpPlace(n) PROVE GaveUp(n)
  BY DEF GiveUpPlace, GaveUp, Order!Drop

\* What is published takes the next place and is on its way.
LEMMA PostMoves ==
  ASSUME NEW what, NEW ids, NEW to, Post(what, ids, to)
  PROVE  Posted(Event(given + 1, what, ids, to))
  BY DEF Post, Posted, Event, Order!Place

\* The delivery passes over a place that was given up.
LEMMA PassMoves == ASSUME PassDropped PROVE Passed /\ UNCHANGED restored
  BY DEF PassDropped, Passed, Order!Skip

\* What is settled is the only event of its place.
LEMMA SettleMoves ==
  ASSUME NEW w \in wire, w.at = next, wire' = wire \ {w}, Order!Settle
  PROVE  Settled(w)
<1>1. {v.at : v \in wire'} = {v.at : v \in wire} \ {next}
  BY DEF Order!Settle
<1>2. ASSUME NEW v \in wire' PROVE v.at # next
  <2>1. v.at \in {u.at : u \in wire'}
    OBVIOUS
  <2> QED
    BY <1>1, <2>1
<1> QED
  BY <1>2 DEF Settled, Order!Settle

\* A delivery records the event of the next place.
LEMMA DeliverMoves ==
  ASSUME Deliver
  PROVE  \E w \in wire : Settled(w) /\ restored' = Recover(restored, w)
<1>1. PICK w \in wire : w.at = next /\ wire' = wire \ {w} /\ restored' = Recover(restored, w)
  BY DEF Deliver
<1>2. Order!Settle
  BY DEF Deliver
<1> QED
  BY <1>1, <1>2, SettleMoves

\* A delivery that is cancelled drops the event of the next place.
LEMMA ForgetMoves ==
  ASSUME NEW what, Forget(what)
  PROVE  \E w \in wire : w.kind = what /\ Settled(w) /\ UNCHANGED restored
<1>1. PICK w \in wire : w.at = next /\ w.kind = what /\ wire' = wire \ {w}
  BY DEF Forget
<1>2. Order!Settle /\ UNCHANGED restored
  BY DEF Forget
<1> QED
  BY <1>1, <1>2, SettleMoves

\* An event that is no transition, and the commit of the item k of the turn.
Other(n, to) == Event(n, "other", {}, to)

Committed(k) == Event(given + 1, "committed", InputOf(fg.items[k]), "main")

\* Which action does what to the hub; the others leave it alone.
LEMMA HubActions ==
  /\ Enter => Took
  /\ SubmitCommand => GaveUp(editor.place)
  /\ Retain => Filled(Other(editor.place, editor.to))
  /\ Admit => Filled(Event(editor.place, "buffered", {editor.id}, editor.to))
  /\ Recall => Posted(Event(given + 1, "recalled", Pending, "main"))
  /\ Finalize \/ Record => Posted(Other(given + 1, "main"))
  /\ (\E x \in Escapes : RequestInterrupt(x)) \/ (\E p \in Peers : Arrive(p))
       => Posted(Other(given + 1, "main"))
  /\ Claim => Posted(Event(given + 1, "claimed", {Oldest(Pending)}, entries[Oldest(Pending)].to))
  /\ ClaimAll => Posted(Event(given + 1, "claimed", Pending, main.now.to))
  /\ StoreItems => IF 1 > Len(fg.items) THEN UNCHANGED hubVars ELSE Posted(Committed(1))
  /\ ItemCommitted => IF fg.k + 1 > Len(fg.items) THEN UNCHANGED hubVars ELSE Posted(Committed(fg.k + 1))
  /\ Mark => Posted(Event(given + 1, "delivered", fg.ids, "main"))
  /\ CancelTurn => UNCHANGED hubVars \/ \E w \in wire : w.kind = "committed" /\ Settled(w)
  /\ ChildStore => Posted(Event(given + 1, "committed", Head(child.queue), "child"))
  /\ ChildMark => Posted(Event(given + 1, "delivered", Head(child.queue), "child"))
<1>1. Enter => Took
  BY TakePlaceMoves DEF Enter
<1>2. SubmitCommand => GaveUp(editor.place)
  BY GiveUpMoves DEF SubmitCommand
<1>3. Retain => Filled(Other(editor.place, editor.to))
  <2>1. Retain => PostReserved(editor.place, "other", {}, editor.to)
    BY Zenon DEF Retain
  <2> QED
    BY <2>1 DEF Other, PostReserved, Filled, Event, Order!Fill
<1>4. Admit => Filled(Event(editor.place, "buffered", {editor.id}, editor.to))
  <2>1. Admit => PostReserved(editor.place, "buffered", {editor.id}, editor.to)
    BY Zenon DEF Admit, BeginAdmit
  <2> QED
    BY <2>1 DEF PostReserved, Filled, Event, Order!Fill
<1>5. Recall => Posted(Event(given + 1, "recalled", Pending, "main"))
  BY PostMoves DEF Recall, Begin
<1>6. Finalize \/ Record => Posted(Other(given + 1, "main"))
  BY PostMoves DEF Finalize, Record, Other
<1>7. (\E x \in Escapes : RequestInterrupt(x)) \/ (\E p \in Peers : Arrive(p))
      => Posted(Other(given + 1, "main"))
  BY PostMoves DEF RequestInterrupt, Arrive, Other
<1>8. Claim => Posted(Event(given + 1, "claimed", {Oldest(Pending)}, entries[Oldest(Pending)].to))
  BY PostMoves DEF Claim, Begin
<1>9. ClaimAll => Posted(Event(given + 1, "claimed", Pending, main.now.to))
  BY PostMoves DEF ClaimAll, Begin
<1>10. ASSUME NEW k, PublishCommit(k)
       PROVE  IF k > Len(fg.items) THEN UNCHANGED hubVars ELSE Posted(Committed(k))
  BY <1>10, PostMoves DEF PublishCommit, Committed, InputOf, hubVars
<1>11. StoreItems => IF 1 > Len(fg.items) THEN UNCHANGED hubVars ELSE Posted(Committed(1))
  BY <1>10 DEF StoreItems
<1>12. ItemCommitted => IF fg.k + 1 > Len(fg.items) THEN UNCHANGED hubVars ELSE Posted(Committed(fg.k + 1))
  BY <1>10 DEF ItemCommitted
<1>13. Mark => Posted(Event(given + 1, "delivered", fg.ids, "main"))
  BY PostMoves DEF Mark, Begin
<1>14. CancelTurn => UNCHANGED hubVars \/ \E w \in wire : w.kind = "committed" /\ Settled(w)
  BY ForgetMoves DEF CancelTurn
<1>15. ChildStore => Posted(Event(given + 1, "committed", Head(child.queue), "child"))
  BY PostMoves DEF ChildStore
<1>16. ChildMark => Posted(Event(given + 1, "delivered", Head(child.queue), "child"))
  BY PostMoves DEF ChildMark, Begin
<1> QED
  BY <1>1, <1>2, <1>3, <1>4, <1>5, <1>6, <1>7, <1>8, <1>9, <1>11, <1>12, <1>13, <1>14, <1>15, <1>16

\* There is an oldest input if one is pending.
LEMMA OldestIsPending ==
  ASSUME InputTyped, Pending # {}
  PROVE  Oldest(Pending) \in Pending /\ \A j \in Pending : entries[Oldest(Pending)].seq <= entries[j].seq
<1> DEFINE T == {entries[i].seq : i \in Pending}
<1>1. T \subseteq Nat /\ T # {}
  BY DEF InputTyped, Entry, Pending
<1>2. PICK m \in T : \A n \in T : m <= n
  BY <1>1, LeastElement
<1>3. PICK i \in Pending : m = entries[i].seq
  BY <1>2
<1>4. \A j \in Pending : entries[i].seq <= entries[j].seq
  BY <1>2, <1>3
<1> QED
  BY <1>3, <1>4 DEF Oldest

\* The input that a stored or waiting item comes from.
LEMMA InputOfType ==
  ASSUME NEW item \in Items
  PROVE  InputOf(item) \subseteq Inputs
<1>1. item[1] = "input" => item[2] \in Inputs
  BY DEF Items
<1> QED
  BY <1>1 DEF InputOf

\* The hub's part of a step.
LEMMA HubMoves == ASSUME TypeOK, EditorInv, LockInv, [Next]_vars PROVE HubMove
<1> USE DEF hubVars
<1>1. ASSUME NEW n \in Nat, NEW what \in EventKinds, NEW ids \in SUBSET Inputs, NEW to \in Agents
      PROVE  Event(n, what, ids, to) \in Marks /\ Event(n, what, ids, to).at = n
  BY DEF Event, Marks
<1>2. ASSUME Retained \/ Admitted
      PROVE  UNCHANGED hubVars
  BY <1>2 DEF Retained, Admitted, inputVars, promptVars, arrivals, loopVars, turnVars, EditorAt,
         RecallAt, LoopAt, TurnOnly, TurnAt, Goto, Open, Outside, Comes, Apply, ChildOnly,
         HubOnly, StopOn
<1>3. ASSUME NothingToRecall \/ Recalled
      PROVE  UNCHANGED hubVars
  BY <1>3 DEF NothingToRecall, Recalled, inputVars, promptVars, arrivals, loopVars, turnVars,
         EditorAt, RecallAt, LoopAt, TurnOnly, TurnAt, Goto, Open, Outside, Comes, Apply,
         ChildOnly, HubOnly, StopOn
<1>4. ASSUME (\E x \in Escapes : QueueInterrupt(x)) \/ (\E p \in Peers : QueueIncoming(p))
               \/ (\E p \in Peers : TakeIncoming(p))
      PROVE  UNCHANGED hubVars
  BY <1>4 DEF QueueInterrupt, QueueIncoming, TakeIncoming, inputVars, promptVars, arrivals, loopVars,
         turnVars, EditorAt, RecallAt, LoopAt, TurnOnly, TurnAt, Goto, Open, Outside, Comes,
         Apply, ChildOnly, HubOnly, StopOn
<1>5. ASSUME RunCommand \/ CommandRun \/ StartPeers \/ StartReady \/ ClaimOldest
               \/ NothingToClaim \/ Claimed \/ ClaimedTooLate \/ Await \/ Wake \/ Accept
               \/ NothingForInterrupt \/ ClaimedAll \/ Barrier \/ Context \/ Submitted \/ Break
               \/ Stopped
      PROVE  UNCHANGED hubVars
  BY <1>5 DEF RunCommand, CommandRun, StartPeers, StartReady, ClaimOldest, NothingToClaim, Claimed,
         ClaimedTooLate, Await, Wake, Accept, NothingForInterrupt, ClaimedAll, Barrier, Context,
         Submitted, Break, Stopped, inputVars, promptVars, arrivals, loopVars, turnVars,
         EditorAt, RecallAt, LoopAt, TurnOnly, TurnAt, Goto, Open, Outside, Comes, Apply,
         ChildOnly, HubOnly, StopOn
<1>6. ASSUME Forward \/ StartTurn \/ Marked \/ CallTools \/ ToolsDone \/ BoundaryPassed
               \/ Proceed \/ Answer \/ EndTurn
      PROVE  UNCHANGED hubVars
  BY <1>6 DEF Forward, StartTurn, Marked, CallTools, ToolsDone, BoundaryPassed, Proceed, Answer,
         EndTurn, inputVars, promptVars, arrivals, loopVars, turnVars, EditorAt, RecallAt,
         LoopAt, TurnOnly, TurnAt, Goto, Open, Outside, Comes, Apply, ChildOnly, HubOnly, StopOn
<1>7. ASSUME ChildMarked
      PROVE  UNCHANGED hubVars
  BY <1>7 DEF ChildMarked, inputVars, promptVars, arrivals, loopVars, turnVars, EditorAt, RecallAt,
         LoopAt, TurnOnly, TurnAt, Goto, Open, Outside, Comes, Apply, ChildOnly, HubOnly, StopOn
<1>8. ASSUME Up \/ Escape \/ Stop \/ ChildStops
      PROVE  UNCHANGED hubVars
  BY <1>8 DEF Up, Escape, Stop, ChildStops, inputVars, promptVars, arrivals, loopVars, turnVars,
         EditorAt, RecallAt, LoopAt, TurnOnly, TurnAt, Goto, Open, Outside, Comes, Apply,
         ChildOnly, HubOnly, StopOn

<1>9. ASSUME HubStep PROVE HubMove
  BY <1>9, DeliverMoves, PassMoves DEF HubStep, HubMove, TypeOK, HubTyped
<1>10. ASSUME Retain \/ Admit PROVE HubMove
  <2>1. editor.place \in Nat /\ editor.to \in Agents /\ {editor.id} \in SUBSET Inputs
    BY <1>10 DEF Retain, Admit, TypeOK, PromptTyped, Editor, EditorInv, Submitting
  <2>2. CASE Retain
    BY <1>1, <2>1, <2>2, HubActions DEF HubMove, EventKinds, Other
  <2>3. CASE Admit
    BY <1>1, <2>1, <2>3, HubActions DEF HubMove, EventKinds
  <2> QED
    BY <1>10, <2>2, <2>3
<1>11. ASSUME NEW what \in EventKinds, NEW ids \in SUBSET Inputs, NEW to \in Agents,
              Posted(Event(given + 1, what, ids, to))
       PROVE  HubMove
  <2>1. given + 1 \in Nat
    BY DEF TypeOK, HubTyped
  <2>2. Event(given + 1, what, ids, to) \in Marks
    BY <2>1 DEF Event, Marks
  <2> QED
    BY <1>11, <2>2 DEF HubMove
<1>12. Recall \/ Claim \/ ClaimAll => HubMove
  <2>1. Pending \in SUBSET Inputs /\ main.now.to \in Agents
    BY DEF Pending, TypeOK, LoopTyped, Loop, Interrupts
  <2>2. Claim => {Oldest(Pending)} \in SUBSET Inputs /\ entries[Oldest(Pending)].to \in Agents
    <3>1. Claim => Pending # {}
      BY DEF Claim
    <3>2. Pending # {} => Oldest(Pending) \in Inputs
      BY <2>1, OldestIsPending DEF TypeOK
    <3> QED
      BY <3>1, <3>2 DEF TypeOK, InputTyped, Entry
  <2> QED
    BY <1>11, <2>1, <2>2, HubActions DEF EventKinds, Agents
<1>13. Finalize \/ Record \/ (\E x \in Escapes : RequestInterrupt(x)) \/ (\E p \in Peers : Arrive(p))
      => HubMove
  BY <1>11, HubActions DEF EventKinds, Agents, Other
<1>14. StoreItems \/ ItemCommitted => HubMove
  <2>1. ASSUME NEW k \in Nat \ {0}, k <= Len(fg.items) PROVE Posted(Committed(k)) => HubMove
    <3>1. fg.items \in Seq(Items) /\ k \in 1..Len(fg.items)
      BY <2>1 DEF TypeOK, TurnTyped, Turn
    <3>2. InputOf(fg.items[k]) \in SUBSET Inputs
      BY <3>1, ElementOfSeq, InputOfType
    <3> QED
      BY <1>11, <3>2 DEF Committed, EventKinds, Agents
  <2>2. fg.k \in Nat /\ Len(fg.items) \in Nat
    BY DEF TypeOK, TurnTyped, Turn
  <2> QED
    BY <2>1, <2>2, HubActions DEF HubMove
<1>15. Mark \/ CancelTurn => HubMove
  <2>1. fg.ids \in SUBSET Inputs
    BY DEF TypeOK, TurnTyped, Turn
  <2> QED
    BY <1>11, <2>1, HubActions DEF EventKinds, Agents, HubMove, TypeOK, HubTyped
<1>16. ChildStore \/ ChildMark => HubMove
  <2>1. ChildStore \/ ChildMark => child.queue # << >>
    BY DEF ChildStore, ChildMark, LockInv, ChildLock
  <2>2. child.queue \in Seq(SUBSET Inputs)
    BY DEF TypeOK, Child
  <2>3. child.queue # << >> => Head(child.queue) \in SUBSET Inputs
    BY <2>2, HeadTailProperties
  <2> QED
    BY <1>11, <2>1, <2>3, HubActions DEF EventKinds, Agents
<1>17. Enter \/ SubmitCommand => HubMove
  BY HubActions DEF HubMove
<1>18. UNCHANGED vars => HubMove
  BY DEF HubMove, vars
<1>19. UNCHANGED hubVars => HubMove
  BY DEF HubMove
<1>20. (\E x \in Escapes : RequestInterrupt(x) \/ QueueInterrupt(x)) => HubMove
  BY <1>4, <1>13, <1>19
<1>21. (\E p \in Peers : QueueIncoming(p) \/ TakeIncoming(p)) => HubMove
  BY <1>4, <1>19
<1> QED
  BY <1>2, <1>3, <1>4, <1>5, <1>6, <1>7, <1>8, <1>9, <1>10, <1>12, <1>13, <1>14, <1>15, <1>16, <1>17,
     <1>18,
     <1>19, <1>20, <1>21
     DEF Next, Prompt, RecallStep, ArrivalStep, LoopStep, TurnStep, ChildStep, FromOutside, Rest

\* The order stands where it should after whatever happens to the hub.
LEMMA HubKept ==
  ASSUME HubTyped, HubInv, HubMove
  PROVE  HubTyped' /\ HubInv'
<1> USE DEF HubTyped, HubInv, Marks
<1>1. CASE UNCHANGED hubVars
  BY <1>1 DEF hubVars
<1>2. CASE Took
  BY <1>2 DEF Took
<1>3. CASE GaveUp(editor.place)
  BY <1>3 DEF GaveUp
<1>4. CASE Passed
  BY <1>4 DEF Passed
<1>5. ASSUME NEW w \in Marks, Posted(w) PROVE HubTyped' /\ HubInv'
  BY <1>5 DEF Posted
<1>6. ASSUME NEW w \in Marks, Filled(w) PROVE HubTyped' /\ HubInv'
  BY <1>6 DEF Filled
<1>7. ASSUME NEW w \in Marks, Settled(w) PROVE HubTyped' /\ HubInv'
  BY <1>7 DEF Settled
<1> QED
  BY <1>1, <1>2, <1>3, <1>4, <1>5, <1>6, <1>7 DEF HubMove

\* The order never goes back, and what has passed stays passed.
LEMMA OrderGrows ==
  ASSUME HubTyped, HubInv, HubMove
  PROVE  next <= next' /\ given <= given'
  BY DEF HubTyped, HubMove, hubVars, Took, GaveUp, Passed, Posted, Filled, Settled

-----------------------------------------------------------------------------
(* What a step does to the coordinator's entries and to the journal.       *)

\* A transition of inputs is announced under the lock, ...
Begins(l) == lock = Free /\ lock' = l /\ UNCHANGED entries

\* ... and made when its event is over.
Commits == lock # Free /\ Over(lock.at) /\ entries' = After(lock) /\ lock' = Free

\* An event is delivered to the journal.
Recorded(w) == Settled(w) /\ restored' = Recover(restored, w)

\* What a step does to the inputs.
InputMove == UNCHANGED inputVars \/ Commits \/ \E l \in Holding : Begins(l)

\* Which action begins and which ends a transition.
LEMMA InputActions ==
  /\ Admit => Begins(Transition("editor", "buffered", {editor.id}, editor.to, editor.place))
  /\ Recall => Begins(Transition("recall", "recalled", Pending, "main", given + 1))
  /\ Claim => Begins(Transition("loop", "claimed", {Oldest(Pending)}, entries[Oldest(Pending)].to,
       given + 1))
  /\ ClaimAll => Begins(Transition("loop", "claimed", Pending, main.now.to, given + 1))
  /\ Mark => Begins(Transition("turn", "delivered", fg.ids, "main", given + 1))
  /\ ChildMark => Begins(Transition("child", "delivered", Head(child.queue), "child", given + 1))
  /\ Admitted => lock.by = "editor" /\ Commits
  /\ Recalled => lock.by = "recall" /\ Commits
  /\ Claimed \/ ClaimedTooLate \/ ClaimedAll => lock.by = "loop" /\ Commits
  /\ Marked => lock.by = "turn" /\ Commits
  /\ ChildMarked => lock.by = "child" /\ Commits
<1> USE DEF Begins
<1>1. Admit => Begins(Transition("editor", "buffered", {editor.id}, editor.to, editor.place))
  BY DEF Admit, BeginAdmit, Unlocked
<1>2. Recall => Begins(Transition("recall", "recalled", Pending, "main", given + 1))
  BY DEF Recall, Begin, Unlocked
<1>3. Claim => Begins(Transition("loop", "claimed", {Oldest(Pending)}, entries[Oldest(Pending)].to,
      given + 1))
  BY DEF Claim, Begin, Unlocked
<1>4. ClaimAll => Begins(Transition("loop", "claimed", Pending, main.now.to, given + 1))
  BY DEF ClaimAll, Begin, Unlocked
<1>5. Mark => Begins(Transition("turn", "delivered", fg.ids, "main", given + 1))
  BY DEF Mark, Begin, Unlocked
<1>6. ChildMark => Begins(Transition("child", "delivered", Head(child.queue), "child", given + 1))
  BY DEF ChildMark, Begin, Unlocked
<1>7. \A o \in Owners : Commit(o) => lock.by = o /\ Commits
  BY DEF Commit, Commits, Free, Owners
<1>8. Admitted => lock.by = "editor" /\ Commits
  BY <1>7 DEF Admitted, Owners
<1>9. Recalled => lock.by = "recall" /\ Commits
  BY <1>7 DEF Recalled, Owners
<1>10. Claimed \/ ClaimedTooLate \/ ClaimedAll => lock.by = "loop" /\ Commits
  BY <1>7 DEF Claimed, ClaimedTooLate, ClaimedAll, Owners
<1>11. Marked => lock.by = "turn" /\ Commits
  BY <1>7 DEF Marked, Owners
<1>12. ChildMarked => lock.by = "child" /\ Commits
  BY <1>7 DEF ChildMarked, Owners
<1> QED
  BY <1>1, <1>2, <1>3, <1>4, <1>5, <1>6, <1>8, <1>9, <1>10, <1>11, <1>12

\* The coordinator's part of a step.
LEMMA InputMoves == ASSUME TypeOK, EditorInv, LockInv, [Next]_vars PROVE InputMove
<1> USE DEF inputVars
<1>1. ASSUME HubStep
      PROVE  UNCHANGED inputVars
  BY <1>1 DEF HubStep, HubOnly, inputVars, promptVars, arrivals, loopVars, turnVars, EditorAt,
         RecallAt, LoopAt, TurnOnly, TurnAt, Goto, Open, Outside, Comes, Apply, ChildOnly,
         StopOn
<1>2. ASSUME SubmitCommand \/ Retain \/ Retained
      PROVE  UNCHANGED inputVars
  BY <1>2 DEF SubmitCommand, Retain, Retained, inputVars, promptVars, arrivals, loopVars, turnVars,
         EditorAt, RecallAt, LoopAt, TurnOnly, TurnAt, Goto, Open, Outside, Comes, Apply,
         ChildOnly, HubOnly, StopOn
<1>3. ASSUME NothingToRecall
      PROVE  UNCHANGED inputVars
  BY <1>3 DEF NothingToRecall, inputVars, promptVars, arrivals, loopVars, turnVars, EditorAt,
         RecallAt, LoopAt, TurnOnly, TurnAt, Goto, Open, Outside, Comes, Apply, ChildOnly,
         HubOnly, StopOn
<1>4. ASSUME (\E x \in Escapes : RequestInterrupt(x))
               \/ (\E x \in Escapes : QueueInterrupt(x)) \/ (\E p \in Peers : QueueIncoming(p))
               \/ (\E p \in Peers : TakeIncoming(p))
      PROVE  UNCHANGED inputVars
  BY <1>4 DEF RequestInterrupt, QueueInterrupt, QueueIncoming, TakeIncoming, inputVars, promptVars,
         arrivals, loopVars, turnVars, EditorAt, RecallAt, LoopAt, TurnOnly, TurnAt, Goto, Open,
         Outside, Comes, Apply, ChildOnly, HubOnly, StopOn
<1>5. ASSUME RunCommand \/ CommandRun \/ StartPeers \/ StartReady \/ ClaimOldest
               \/ NothingToClaim \/ Await \/ Wake \/ Accept \/ NothingForInterrupt \/ Finalize
               \/ Barrier \/ Context \/ Submitted \/ Break \/ Record \/ Stopped
      PROVE  UNCHANGED inputVars
  BY <1>5 DEF RunCommand, CommandRun, StartPeers, StartReady, ClaimOldest, NothingToClaim, Await,
         Wake, Accept, NothingForInterrupt, Finalize, Barrier, Context, Submitted, Break, Record,
         Stopped, inputVars, promptVars, arrivals, loopVars, turnVars, EditorAt, RecallAt,
         LoopAt, TurnOnly, TurnAt, Goto, Open, Outside, Comes, Apply, ChildOnly, HubOnly, StopOn
<1>6. ASSUME Forward \/ StartTurn \/ StoreItems \/ ItemCommitted \/ CallTools \/ ToolsDone
               \/ BoundaryPassed \/ Proceed \/ Answer \/ CancelTurn \/ EndTurn
      PROVE  UNCHANGED inputVars
  BY <1>6 DEF Forward, StartTurn, StoreItems, ItemCommitted, CallTools, ToolsDone, BoundaryPassed,
         Proceed, Answer, CancelTurn, EndTurn, inputVars, promptVars, arrivals, loopVars,
         turnVars, EditorAt, RecallAt, LoopAt, TurnOnly, TurnAt, Goto, Open, Outside, Comes,
         Apply, ChildOnly, HubOnly, StopOn
<1>7. ASSUME ChildStore
      PROVE  UNCHANGED inputVars
  BY <1>7 DEF ChildStore, inputVars, promptVars, arrivals, loopVars, turnVars, EditorAt, RecallAt,
         LoopAt, TurnOnly, TurnAt, Goto, Open, Outside, Comes, Apply, ChildOnly, HubOnly, StopOn
<1>8. ASSUME Enter \/ Up \/ Escape \/ Stop \/ ChildStops \/ (\E p \in Peers : Arrive(p))
      PROVE  UNCHANGED inputVars
  BY <1>8 DEF Enter, Up, Escape, Stop, ChildStops, Arrive, inputVars, promptVars, arrivals, loopVars,
         turnVars, EditorAt, RecallAt, LoopAt, TurnOnly, TurnAt, Goto, Open, Outside, Comes,
         Apply, ChildOnly, HubOnly, StopOn
<1>9. ASSUME NEW o \in Owners, NEW what \in LockKinds, NEW ids \in SUBSET Inputs, NEW to \in Agents,
      NEW n \in Nat,
             Begins(Transition(o, what, ids, to, n))
      PROVE  InputMove
  <2>1. Transition(o, what, ids, to, n) \in Holding
    BY DEF Transition, Holding
  <2> QED
    BY <1>9, <2>1 DEF InputMove
<1>10. given + 1 \in Nat /\ Pending \in SUBSET Inputs /\ main.now.to \in Agents /\ editor.place \in Nat
       /\ editor.to \in Agents /\ fg.ids \in SUBSET Inputs
  BY DEF TypeOK, HubTyped, Pending, LoopTyped, Loop, Interrupts, PromptTyped, Editor, TurnTyped, Turn
<1>11. Admit => InputMove
  <2>1. Admit => {editor.id} \in SUBSET Inputs
    BY DEF Admit, EditorInv, Submitting
  <2> QED
    BY <1>9, <1>10, <2>1, InputActions DEF Owners, LockKinds
<1>12. Recall \/ Claim \/ ClaimAll => InputMove
  <2>1. Claim => {Oldest(Pending)} \in SUBSET Inputs /\ entries[Oldest(Pending)].to \in Agents
    <3>1. Claim => Pending # {}
      BY DEF Claim
    <3>2. Pending # {} => Oldest(Pending) \in Inputs
      BY <1>10, OldestIsPending DEF TypeOK
    <3> QED
      BY <3>1, <3>2 DEF TypeOK, InputTyped, Entry
  <2> QED
    BY <1>9, <1>10, <2>1, InputActions DEF Owners, LockKinds, Agents
<1>13. Mark => InputMove
  BY <1>9, <1>10, InputActions DEF Owners, LockKinds, Agents
<1>14. ChildMark => InputMove
  <2>1. ChildMark => child.queue # << >>
    BY DEF ChildMark, LockInv, ChildLock
  <2>2. child.queue \in Seq(SUBSET Inputs)
    BY DEF TypeOK, Child
  <2>3. child.queue # << >> => Head(child.queue) \in SUBSET Inputs
    BY <2>2, HeadTailProperties
  <2> QED
    BY <1>9, <1>10, <2>1, <2>3, InputActions DEF Owners, LockKinds, Agents
<1>15. Admitted \/ Recalled \/ Claimed \/ ClaimedTooLate \/ ClaimedAll \/ Marked \/ ChildMarked
      => InputMove
  BY InputActions DEF InputMove
<1>16. UNCHANGED vars => InputMove
  BY DEF InputMove, vars
<1>17. UNCHANGED inputVars => InputMove
  BY DEF InputMove
<1>18. (\E x \in Escapes : RequestInterrupt(x) \/ QueueInterrupt(x)) => InputMove
  BY <1>4, <1>17
<1>19. (\E p \in Peers : QueueIncoming(p) \/ TakeIncoming(p)) => InputMove
  BY <1>4, <1>17
<1> QED
  BY <1>1, <1>2, <1>3, <1>4, <1>5, <1>6, <1>7, <1>8, <1>11, <1>12, <1>13, <1>14, <1>15, <1>16, <1>17,
     <1>18, <1>19
     DEF Next, Prompt, RecallStep, ArrivalStep, LoopStep, TurnStep, ChildStep, FromOutside, Rest

\* The entries after a transition are entries again.
LEMMA InputKept ==
  ASSUME InputTyped, InputMove
  PROVE  InputTyped'
<1> USE DEF InputTyped
<1>1. CASE UNCHANGED inputVars
  BY <1>1 DEF inputVars
<1>2. ASSUME NEW l \in Holding, Begins(l) PROVE InputTyped'
  BY <1>2 DEF Begins
<1>3. CASE Commits
  <2>1. lock \in Holding
    BY <1>3 DEF Commits
  <2>2. ASSUME NEW i \in Inputs PROVE After(lock)[i] \in Entry
    BY <2>1 DEF After, Holding, Entry, LockKinds, Statuses
  <2>3. entries' \in [Inputs -> Entry]
    BY <1>3, <2>2 DEF Commits, After
  <2> QED
    BY <1>3, <2>3 DEF Commits
<1> QED
  BY <1>1, <1>2, <1>3 DEF InputMove

\* The journal has one event more, or what it had.
LEMMA RestoredMoves ==
  ASSUME [Next]_vars
  PROVE  UNCHANGED restored \/ (HubStep /\ \E w \in wire : Recorded(w))
<1>1. ASSUME HubStep PROVE UNCHANGED restored \/ \E w \in wire : Recorded(w)
  BY <1>1, DeliverMoves, PassMoves DEF HubStep, Recorded
<1>2. Prompt => UNCHANGED restored
  BY DEF Prompt, SubmitCommand, Retain, Retained, Admit, Admitted, inputVars, promptVars,
         arrivals, loopVars, turnVars, EditorAt, RecallAt, LoopAt, TurnOnly, TurnAt, Open,
         Outside, Comes, Apply, ChildOnly, StopOn
<1>3. RecallStep => UNCHANGED restored
  BY DEF RecallStep, Recall, NothingToRecall, Recalled, inputVars, promptVars, arrivals,
         loopVars, turnVars, EditorAt, RecallAt, LoopAt, TurnOnly, TurnAt, Open, Outside, Comes,
         Apply, ChildOnly, StopOn
<1>4. ArrivalStep => UNCHANGED restored
  BY DEF ArrivalStep, RequestInterrupt, QueueInterrupt, QueueIncoming, TakeIncoming, inputVars,
         promptVars, arrivals, loopVars, turnVars, EditorAt, RecallAt, LoopAt, TurnOnly, TurnAt,
         Open, Outside, Comes, Apply, ChildOnly, StopOn
<1>5. LoopStep => UNCHANGED restored
  BY DEF LoopStep, RunCommand, CommandRun, StartPeers, StartReady, ClaimOldest, NothingToClaim,
         Claim, Claimed, ClaimedTooLate, Await, Wake, Accept, NothingForInterrupt, ClaimAll,
         ClaimedAll, Finalize, Barrier, Context, Submitted, Break, Record, Stopped, inputVars,
         promptVars, arrivals, loopVars, turnVars, EditorAt, RecallAt, LoopAt, TurnOnly, TurnAt,
         Open, Outside, Comes, Apply, ChildOnly, StopOn
<1>6. TurnStep => UNCHANGED restored
  <2>1. CancelTurn => UNCHANGED restored
    BY ForgetMoves DEF CancelTurn
  <2> QED
    BY <2>1 DEF TurnStep, Forward, StartTurn, StoreItems, ItemCommitted, Mark, Marked, CallTools,
           ToolsDone, BoundaryPassed, Proceed, Answer, EndTurn, inputVars, promptVars, arrivals,
           loopVars, turnVars, EditorAt, RecallAt, LoopAt, TurnOnly, TurnAt, Open, Outside,
           Comes, Apply, ChildOnly, StopOn
<1>7. ChildStep => UNCHANGED restored
  BY DEF ChildStep, ChildStore, ChildMark, ChildMarked, inputVars, promptVars, arrivals,
         loopVars, turnVars, EditorAt, RecallAt, LoopAt, TurnOnly, TurnAt, Open, Outside, Comes,
         Apply, ChildOnly, StopOn
<1>8. FromOutside => UNCHANGED restored
  BY DEF FromOutside, Enter, Up, Escape, Stop, ChildStops, Arrive, inputVars, promptVars,
         arrivals, loopVars, turnVars, EditorAt, RecallAt, LoopAt, TurnOnly, TurnAt, Open,
         Outside, Comes, Apply, ChildOnly, StopOn
<1> QED
  BY <1>1, <1>2, <1>3, <1>4, <1>5, <1>6, <1>7, <1>8 DEF Next, Rest, vars

\* What is recovered from one event more is as complete.
LEMMA RestoredKept ==
  ASSUME restored \in Found, wire \subseteq Marks, WireInv,
         UNCHANGED restored \/ \E w \in wire : Recorded(w)
  PROVE  restored' \in Found
<1>1. ASSUME NEW w \in wire, Recorded(w) PROVE restored' \in Found
  <2> DEFINE r == restored'
             S == (Statuses \ {"absent"}) \cup {"unknown"}
  <2>1. w \in Marks /\ restored.status \in [Inputs -> S] /\ restored.to \in [Inputs -> Agents]
        /\ restored.messages \subseteq Inputs /\ restored.failed \in BOOLEAN
    BY DEF Found
  <2>2. w.ids \subseteq Inputs /\ w.to \in Agents /\ w.kind \in EventKinds /\ (w.kind = "other"
        => w.ids = {})
    BY <2>1 DEF Marks, WireInv
  <2>3. \A i \in w.ids : Becomes(w.kind) \in S
    BY <2>2 DEF Becomes, Statuses, EventKinds
  <2>4. restored' = Recover(restored, w)
    BY <1>1 DEF Recorded
  <2>5. r.status \in [Inputs -> S] /\ r.to \in [Inputs -> Agents]
    BY <2>1, <2>2, <2>3, <2>4 DEF Recover
  <2>6. r.messages \subseteq Inputs /\ r.failed \in BOOLEAN
    BY <2>1, <2>2, <2>4 DEF Recover
  <2>7. r = [status |-> r.status, to |-> r.to, messages |-> r.messages, failed |-> r.failed]
    BY <2>4 DEF Recover
  <2> QED
    BY <2>5, <2>6, <2>7 DEF Found
<1> QED
  BY <1>1

\* What the prompt keeps has its type after every step.
LEMMA PromptTypeKept ==
  ASSUME HubTyped, PromptTyped, EditorInv, [Next]_vars
  PROVE  PromptTyped'
<1>1. UNCHANGED <<editor, typed, kind, recall, keys>> => PromptTyped'
  BY DEF PromptTyped
<1>2. HubStep => UNCHANGED <<editor, typed, kind, recall, keys>>
  BY DEF HubStep, HubOnly, inputVars, promptVars
<1>3. ASSUME SubmitCommand PROVE PromptTyped'
  BY <1>3 DEF SubmitCommand, EditorAt, inputVars, Editor, PromptTyped
<1>4. ASSUME Retain PROVE PromptTyped'
  BY <1>4 DEF Retain, inputVars, Submitting, EditorInv, Editor, PromptTyped
<1>5. ASSUME Retained PROVE PromptTyped'
  BY <1>5 DEF Retained, EditorAt, inputVars, Editor, PromptTyped
<1>6. ASSUME Admit PROVE PromptTyped'
  BY <1>6 DEF Admit, EditorAt, Editor, PromptTyped
<1>7. ASSUME Admitted PROVE PromptTyped'
  BY <1>7 DEF Admitted, EditorAt, Editor, PromptTyped
<1>8. ASSUME Recall PROVE PromptTyped'
  BY <1>8 DEF Recall, RecallAt, PromptTyped
<1>9. ASSUME NothingToRecall PROVE PromptTyped'
  BY <1>9 DEF NothingToRecall, RecallAt, inputVars, PromptTyped
<1>10. ASSUME Recalled PROVE PromptTyped'
  BY <1>10 DEF Recalled, RecallAt, PromptTyped
<1>11. (\E x \in Escapes : RequestInterrupt(x)) \/ (\E x \in Escapes : QueueInterrupt(x))
        \/ (\E p \in Peers : QueueIncoming(p)) \/ (\E p \in Peers : TakeIncoming(p)) =>
        UNCHANGED <<editor, typed, kind, recall, keys>>
  BY DEF RequestInterrupt, QueueInterrupt, QueueIncoming, TakeIncoming, Comes, inputVars,
         promptVars, StopOn
<1>12. RunCommand \/ CommandRun \/ StartPeers \/ StartReady \/ ClaimOldest \/ Claim \/ Claimed
        \/ Wake \/ Accept \/ NothingForInterrupt \/ ClaimAll \/ ClaimedAll \/ Finalize
        \/ Barrier \/ Context \/ Break \/ Record \/ Stopped =>
        UNCHANGED <<editor, typed, kind, recall, keys>>
  BY DEF RunCommand, CommandRun, StartPeers, StartReady, ClaimOldest, Claim, Claimed, Wake,
         Accept, NothingForInterrupt, ClaimAll, ClaimedAll, Finalize, Barrier, Context, Break,
         Record, Stopped, LoopAt, inputVars, promptVars, Apply
<1>13. ASSUME NothingToClaim PROVE PromptTyped'
  BY <1>13 DEF NothingToClaim, Open, inputVars, LoopAt, Editor, PromptTyped
<1>14. ASSUME ClaimedTooLate PROVE PromptTyped'
  BY <1>14 DEF ClaimedTooLate, Open, LoopAt, Editor, PromptTyped
<1>15. ASSUME Await PROVE PromptTyped'
  BY <1>15 DEF Await, Open, inputVars, LoopAt, Editor, PromptTyped
<1>16. ASSUME Submitted PROVE PromptTyped'
  BY <1>16 DEF Submitted, LoopAt, inputVars, Editor, Closed, Agents, PromptTyped
<1>17. Forward \/ StartTurn \/ StoreItems \/ ItemCommitted \/ Mark \/ Marked \/ CallTools
        \/ ToolsDone \/ BoundaryPassed \/ Proceed \/ Answer \/ CancelTurn \/ EndTurn =>
        UNCHANGED <<editor, typed, kind, recall, keys>>
  BY DEF Forward, StartTurn, StoreItems, ItemCommitted, Mark, Marked, CallTools, ToolsDone,
         BoundaryPassed, Proceed, Answer, CancelTurn, EndTurn, TurnAt, inputVars, TurnOnly,
         promptVars
<1>18. ChildStore \/ ChildMark \/ ChildMarked =>
        UNCHANGED <<editor, typed, kind, recall, keys>>
  BY DEF ChildStore, ChildMark, ChildMarked, ChildOnly, inputVars, promptVars
<1>19. ASSUME Enter PROVE PromptTyped'
  <2>1. typed' = typed + 1 /\ typed + 1 \in Inputs /\ keys' = keys + 1 /\ UNCHANGED recall
    BY <1>19 DEF Enter, Outside
  <2>2. PICK what \in Kinds, a \in Agents :
          /\ kind' = [kind EXCEPT ![typed + 1] = what]
          /\ editor' = [at |-> "accepted", id |-> typed + 1, to |-> a, place |-> given + 1]
    BY <1>19 DEF Enter
  <2>3. given + 1 \in Nat /\ typed + 1 \in Nat
    BY DEF HubTyped, PromptTyped
  <2>4. editor' \in Editor
    BY <2>2, <2>3 DEF Editor
  <2> QED
    BY <2>1, <2>2, <2>4 DEF PromptTyped
<1>20. ASSUME Up PROVE PromptTyped'
  BY <1>20 DEF Up, Outside, RecallAt, inputVars, Comes, PromptTyped
<1>21. ASSUME Escape PROVE PromptTyped'
  BY <1>21 DEF Escape, Outside, StopOn, inputVars, promptVars, Comes, PromptTyped
<1>22. ASSUME Stop PROVE PromptTyped'
  <2>1. editor' = editor \/ editor' = [editor EXCEPT !.at = "done", !.id = 0]
    BY <1>22 DEF Stop
  <2>2. editor' \in Editor
    <3>1. editor' = editor \/ editor' = [at |-> "done", id |-> 0, to |-> editor.to,
          place |-> editor.place]
      BY <2>1 DEF PromptTyped, Editor
    <3> QED
      BY <3>1 DEF PromptTyped, Editor
  <2> QED
    BY <1>22, <2>2 DEF Stop, Outside, PromptTyped
<1>23. ASSUME ChildStops PROVE PromptTyped'
  BY <1>23 DEF ChildStops, Outside, ChildOnly, inputVars, Comes, promptVars, PromptTyped
<1>24. ASSUME NEW p \in Peers, Arrive(p) PROVE PromptTyped'
  BY <1>24 DEF Arrive, Outside, inputVars, promptVars, Comes, PromptTyped
<1>25. UNCHANGED vars => UNCHANGED <<editor, typed, kind, recall, keys>>
  BY DEF vars, inputVars, promptVars
<1> QED
  BY <1>1, <1>2, <1>3, <1>4, <1>5, <1>6, <1>7, <1>8, <1>9, <1>10, <1>11, <1>12, <1>13, <1>14,
     <1>15, <1>16, <1>17, <1>18, <1>19, <1>20, <1>21, <1>22, <1>23, <1>24, <1>25
     DEF Next, Prompt, RecallStep, ArrivalStep, LoopStep, TurnStep, ChildStep, FromOutside, Rest

\* What comes from outside.
LEMMA ArrivalTypesKept ==
  ASSUME HubTyped, PromptTyped, TurnTyped, ArrivalsTyped, [Next]_vars
  PROVE  ArrivalsTyped'
<1>1. UNCHANGED <<escape, peer, stop, inbox>> => ArrivalsTyped'
  BY DEF ArrivalsTyped
<1>2. HubStep => UNCHANGED <<escape, peer, stop, inbox>>
  BY DEF HubStep, HubOnly, inputVars, promptVars, arrivals, loopVars, turnVars
<1>3. SubmitCommand \/ Retain \/ Retained \/ Admit \/ Admitted =>
        UNCHANGED <<escape, peer, stop, inbox>>
  BY DEF SubmitCommand, Retain, Retained, Admit, Admitted, EditorAt, inputVars, turnVars,
         arrivals, loopVars
<1>4. Recall \/ NothingToRecall \/ Recalled =>
        UNCHANGED <<escape, peer, stop, inbox>>
  BY DEF Recall, NothingToRecall, Recalled, RecallAt, inputVars, arrivals, loopVars, turnVars
<1>5. ASSUME NEW x \in Escapes, RequestInterrupt(x) PROVE ArrivalsTyped'
  <2>1. escape' = [escape EXCEPT ![x] = [escape[x] EXCEPT !.at = "posted", !.place = given + 1]]
    BY <1>5 DEF RequestInterrupt
  <2>2. escape[x] \in Request /\ given + 1 \in Nat
    BY DEF ArrivalsTyped, HubTyped
  <2>3. [escape[x] EXCEPT !.at = "posted", !.place = given + 1] \in Request
    BY <2>2 DEF Request
  <2> QED
    BY <1>5, <2>1, <2>3 DEF RequestInterrupt, loopVars, ArrivalsTyped
<1>6. ASSUME NEW x \in Escapes, QueueInterrupt(x) PROVE ArrivalsTyped'
  BY <1>6 DEF QueueInterrupt, Comes, StopOn, inputVars, promptVars, Request, Handed, Agents,
         ArrivalsTyped
<1>7. ASSUME NEW p \in Peers, QueueIncoming(p) PROVE ArrivalsTyped'
  BY <1>7 DEF QueueIncoming, Comes, StopOn, inputVars, promptVars, loopVars, Incoming, HubTyped,
         ArrivalsTyped
<1>8. ASSUME NEW p \in Peers, TakeIncoming(p) PROVE ArrivalsTyped'
  BY <1>8 DEF TakeIncoming, Comes, inputVars, promptVars, turnVars, Incoming, HubTyped, ArrivalsTyped
<1>9. RunCommand \/ CommandRun \/ StartReady \/ ClaimOldest \/ Claim \/ Claimed \/ Accept
        \/ NothingForInterrupt \/ ClaimAll \/ ClaimedAll \/ Finalize \/ Context \/ Submitted
        \/ Break \/ Record \/ Stopped =>
        UNCHANGED <<escape, peer, stop, inbox>>
  BY DEF RunCommand, CommandRun, StartReady, ClaimOldest, Claim, Claimed, Accept,
         NothingForInterrupt, ClaimAll, ClaimedAll, Finalize, Context, Submitted, Break, Record,
         Stopped, LoopAt, inputVars, promptVars, arrivals, turnVars, Apply
<1>10. ASSUME StartPeers PROVE ArrivalsTyped'
  BY <1>10 DEF StartPeers, LoopAt, inputVars, Incoming, HubTyped, ArrivalsTyped
<1>11. ASSUME NothingToClaim PROVE ArrivalsTyped'
  BY <1>11 DEF NothingToClaim, Open, inputVars, LoopAt, ArrivalsTyped
<1>12. ASSUME ClaimedTooLate PROVE ArrivalsTyped'
  BY <1>12 DEF ClaimedTooLate, Open, LoopAt, ArrivalsTyped
<1>13. ASSUME Await PROVE ArrivalsTyped'
  BY <1>13 DEF Await, Open, inputVars, LoopAt, ArrivalsTyped
<1>14. ASSUME Wake PROVE ArrivalsTyped'
  BY <1>14 DEF Wake, inputVars, promptVars, Incoming, HubTyped, ArrivalsTyped
<1>15. ASSUME Barrier PROVE ArrivalsTyped'
  BY <1>15 DEF Barrier, inputVars, promptVars, Incoming, HubTyped, ArrivalsTyped
<1>16. Forward \/ StartTurn \/ StoreItems \/ ItemCommitted \/ Mark \/ Marked \/ CallTools
        \/ ToolsDone \/ BoundaryPassed \/ Proceed \/ Answer \/ CancelTurn \/ EndTurn =>
        UNCHANGED <<escape, peer, stop, inbox>>
  BY DEF Forward, StartTurn, StoreItems, ItemCommitted, Mark, Marked, CallTools, ToolsDone,
         BoundaryPassed, Proceed, Answer, CancelTurn, EndTurn, TurnAt, inputVars, TurnOnly,
         promptVars, arrivals, loopVars
<1>17. ChildStore \/ ChildMark \/ ChildMarked =>
        UNCHANGED <<escape, peer, stop, inbox>>
  BY DEF ChildStore, ChildMark, ChildMarked, ChildOnly, inputVars, promptVars, arrivals,
         loopVars, turnVars
<1>18. Enter \/ Up \/ ChildStops =>
        UNCHANGED <<escape, peer, stop, inbox>>
  BY DEF Enter, Up, ChildStops, Outside, inputVars, arrivals, loopVars, turnVars, RecallAt,
         ChildOnly, Comes, promptVars
<1>19. ASSUME Escape PROVE ArrivalsTyped'
  <2>1. PICK x \in Escapes, a \in Agents :
          escape' = [escape EXCEPT ![x] = [at |-> "pressed", turn |-> IF a = "main" THEN Active ELSE 0,
                                            to |-> a, place |-> keys + 1]]
    BY <1>19 DEF Escape
  <2>2. Active \in Nat /\ keys + 1 \in Nat
    BY DEF Active, TurnTyped, Turn, PromptTyped
  <2>3. escape' \in [Escapes -> Request]
    BY <2>1, <2>2 DEF ArrivalsTyped, Request
  <2> QED
    BY <1>19, <2>3 DEF Escape, loopVars, ArrivalsTyped
<1>20. ASSUME Stop PROVE ArrivalsTyped'
  BY <1>20 DEF Stop, Outside, turnVars, StopOn, inputVars, loopVars, Comes, ArrivalsTyped
<1>21. ASSUME NEW p \in Peers, Arrive(p) PROVE ArrivalsTyped'
  BY <1>21 DEF Arrive, Outside, inputVars, promptVars, loopVars, turnVars, Comes, Incoming, HubTyped,
         ArrivalsTyped
<1>22. UNCHANGED vars => UNCHANGED <<escape, peer, stop, inbox>>
  BY DEF vars, inputVars, promptVars, arrivals, loopVars, turnVars
<1> QED
  BY <1>1, <1>2, <1>3, <1>4, <1>5, <1>6, <1>7, <1>8, <1>9, <1>10, <1>11, <1>12, <1>13, <1>14,
     <1>15, <1>16, <1>17, <1>18, <1>19, <1>20, <1>21, <1>22
     DEF Next, Prompt, RecallStep, ArrivalStep, LoopStep, TurnStep, ChildStep, FromOutside, Rest

\* Where the loop may be.
LoopPlaces ==
  {"top", "command", "claim", "claiming", "wait", "accept", "claimAll", "claimingAll", "finalize",
        "barrier",
   "context", "input", "stopping", "recording", "stopped"}

\* The loop goes on at another place.
LEMMA LoopAtType ==
  ASSUME main \in Loop, NEW place \in LoopPlaces, LoopAt(place)
  PROVE  main' \in Loop /\ main'.at = place
<1>1. NoInterrupt \in Interrupts
  BY DEF NoInterrupt, Interrupts, Agents
<1>2. CASE place \in {"top", "wait"}
  <2>1. main' = [at |-> place, done |-> {}, now |-> NoInterrupt, place |-> 0]
    BY <1>2 DEF LoopAt, Asleep
  <2> QED
    BY <1>1, <2>1 DEF Loop, LoopPlaces
<1>3. CASE place \notin {"top", "wait"}
  <2>1. main' = [main EXCEPT !.at = place]
    BY <1>3 DEF LoopAt
  <2> QED
    BY <2>1 DEF Loop, LoopPlaces
<1> QED
  BY <1>2, <1>3

\* After one phase of a wakeup the loop is at another, or at the top.
LEMMA NextPhaseType ==
  ASSUME NEW done
  PROVE  NextPhase(done) \in {"accept", "input", "top"}
  BY DEF NextPhase

\* What an interrupt does with the inputs it has claimed.
LEMMA ApplyTypes ==
  ASSUME LoopTyped, NEW ids \in SUBSET Inputs, Apply(ids)
  PROVE  main' \in Loop /\ settling' \in Seq(Interrupts)
<1> DEFINE now == [main.now EXCEPT !.ids = ids]
<1>1. now \in Interrupts
  BY DEF LoopTyped, Loop, Interrupts
<1>2. NextPhase(main.done) \in LoopPlaces
  BY NextPhaseType DEF LoopPlaces
<1>3. CASE Hits(now)
  <2>1. settling' = Append(settling, now) /\ main' = [main EXCEPT !.at = NextPhase(main.done)]
    BY <1>3 DEF Apply
  <2>2. settling' \in Seq(Interrupts)
    BY <1>1, <2>1, AppendProperties DEF LoopTyped
  <2> QED
    BY <1>2, <2>1, <2>2 DEF LoopTyped, Loop, LoopPlaces
<1>4. CASE ~Hits(now)
  <2>1. settling' = settling /\ main' = [main EXCEPT !.at = "finalize", !.now = now]
    BY <1>4 DEF Apply
  <2> QED
    BY <1>1, <2>1 DEF LoopTyped, Loop
<1> QED
  BY <1>3, <1>4

\* The loop is at one of its places after every step.
LEMMA LoopTypeKept ==
  ASSUME HubTyped, InputTyped, LoopTyped, RequestedInv, [Next]_vars
  PROVE  main' \in Loop
<1>1. UNCHANGED <<main>> => main' \in Loop
  BY DEF LoopTyped
<1>2. HubStep => UNCHANGED <<main>>
  BY DEF HubStep, HubOnly, inputVars, promptVars, arrivals, loopVars, turnVars
<1>3. SubmitCommand \/ Retain \/ Retained \/ Admit \/ Admitted =>
        UNCHANGED <<main>>
  BY DEF SubmitCommand, Retain, Retained, Admit, Admitted, EditorAt, inputVars, turnVars,
         arrivals, loopVars
<1>4. Recall \/ NothingToRecall \/ Recalled =>
        UNCHANGED <<main>>
  BY DEF Recall, NothingToRecall, Recalled, RecallAt, inputVars, arrivals, loopVars, turnVars
<1>5. (\E x \in Escapes : RequestInterrupt(x)) \/ (\E x \in Escapes : QueueInterrupt(x))
        \/ (\E p \in Peers : QueueIncoming(p)) \/ (\E p \in Peers : TakeIncoming(p)) =>
        UNCHANGED <<main>>
  BY DEF RequestInterrupt, QueueInterrupt, QueueIncoming, TakeIncoming, Comes, inputVars,
         promptVars, loopVars, turnVars, StopOn
<1>6. ASSUME RunCommand PROVE main' \in Loop
  <2>1. LoopAt("command")
    BY <1>6 DEF RunCommand
  <2> QED
    BY <2>1, LoopAtType DEF LoopTyped, LoopPlaces
<1>7. ASSUME CommandRun PROVE main' \in Loop
  <2>1. LoopAt("top") \/ LoopAt("stopping")
    BY <1>7 DEF CommandRun
  <2> QED
    BY <2>1, LoopAtType DEF LoopTyped, LoopPlaces
<1>8. ASSUME StartPeers PROVE main' \in Loop
  <2>1. LoopAt("top")
    BY <1>8 DEF StartPeers
  <2> QED
    BY <2>1, LoopAtType DEF LoopTyped, LoopPlaces
<1>9. ASSUME StartReady PROVE main' \in Loop
  <2>1. LoopAt("top")
    BY <1>9 DEF StartReady
  <2> QED
    BY <2>1, LoopAtType DEF LoopTyped, LoopPlaces
<1>10. ASSUME ClaimOldest PROVE main' \in Loop
  <2>1. LoopAt("claim")
    BY <1>10 DEF ClaimOldest
  <2> QED
    BY <2>1, LoopAtType DEF LoopTyped, LoopPlaces
<1>11. ASSUME NothingToClaim PROVE main' \in Loop
  <2>1. LoopAt("wait")
    BY <1>11 DEF NothingToClaim, Open
  <2> QED
    BY <2>1, LoopAtType DEF LoopTyped, LoopPlaces
<1>12. ASSUME Claim PROVE main' \in Loop
  <2>1. LoopAt("claiming")
    BY <1>12 DEF Claim
  <2> QED
    BY <2>1, LoopAtType DEF LoopTyped, LoopPlaces
<1>13. ASSUME Claimed PROVE main' \in Loop
  <2>1. LoopAt("top")
    BY <1>13 DEF Claimed
  <2> QED
    BY <2>1, LoopAtType DEF LoopTyped, LoopPlaces
<1>14. ASSUME ClaimedTooLate PROVE main' \in Loop
  <2>1. LoopAt("wait")
    BY <1>14 DEF ClaimedTooLate, Open
  <2> QED
    BY <2>1, LoopAtType DEF LoopTyped, LoopPlaces
<1>15. ASSUME Await PROVE main' \in Loop
  <2>1. LoopAt("wait")
    BY <1>15 DEF Await, Open
  <2> QED
    BY <2>1, LoopAtType DEF LoopTyped, LoopPlaces
<1>16. ASSUME Wake PROVE main' \in Loop
  <2>1. Done \subseteq {"fg", "interrupt", "input"} /\ NextPhase(Done) \in LoopPlaces
    BY NextPhaseType DEF Done, LoopPlaces
  <2>2. CASE "fg" \in Done /\ settling # << >>
    <3>1. main' = [main EXCEPT !.at = "finalize", !.done = Done, !.now = Head(settling)]
      BY <1>16, <2>2 DEF Wake
    <3>2. Head(settling) \in Interrupts
      BY <2>2, HeadTailProperties DEF LoopTyped
    <3> QED
      BY <2>1, <3>1, <3>2 DEF LoopTyped, Loop
  <2>3. CASE ~("fg" \in Done /\ settling # << >>)
    <3>1. main' = [main EXCEPT !.at = NextPhase(Done), !.done = Done]
      BY <1>16, <2>3 DEF Wake
    <3> QED
      BY <2>1, <3>1 DEF LoopTyped, Loop, LoopPlaces
  <2> QED
    BY <2>2, <2>3
<1>17. ASSUME Accept PROVE main' \in Loop
  <2> DEFINE rest == main.done \ {"interrupt"}
  <2>1. NextPhase(rest) \in LoopPlaces /\ rest \subseteq {"fg", "interrupt", "input"}
    BY NextPhaseType DEF LoopPlaces, LoopTyped, Loop
  <2>2. Head(interrupts) \in Interrupts
    BY <1>17, HeadTailProperties DEF LoopTyped, Accept, RequestedInv
  <2>3. main' = [main EXCEPT !.at = NextPhase(rest), !.done = rest]
        \/ main' = [main EXCEPT !.at = "claimAll", !.done = rest, !.now = Head(interrupts)]
    BY <1>17 DEF Accept
  <2> QED
    BY <2>1, <2>2, <2>3 DEF LoopTyped, Loop, LoopPlaces
<1>18. ASSUME NothingForInterrupt PROVE main' \in Loop
  BY <1>18, ApplyTypes DEF NothingForInterrupt
<1>19. ASSUME ClaimAll PROVE main' \in Loop
  <2>1. LoopAt("claimingAll")
    BY <1>19 DEF ClaimAll
  <2> QED
    BY <2>1, LoopAtType DEF LoopTyped, LoopPlaces
<1>20. ASSUME ClaimedAll PROVE main' \in Loop
  <2>1. lock.ids \in SUBSET Inputs
    BY DEF InputTyped, Holding, Free
  <2> QED
    BY <1>20, <2>1, ApplyTypes DEF ClaimedAll
<1>21. ASSUME Finalize PROVE main' \in Loop
  <2>1. main' = [main EXCEPT !.at = "barrier", !.place = given + 1]
    BY <1>21 DEF Finalize
  <2>2. given + 1 \in Nat
    BY DEF HubTyped
  <2> QED
    BY <2>1, <2>2 DEF LoopTyped, Loop
<1>22. ASSUME Barrier PROVE main' \in Loop
  <2> DEFINE more == settling # << >> /\ fg.at = "none"
             place == IF main.now.ids = {} /\ main.now.to = "child" THEN "context"
                      ELSE IF more THEN "finalize" ELSE NextPhase(main.done)
             now == IF more THEN Head(settling) ELSE main.now
  <2>1. main' = [main EXCEPT !.at = place, !.place = 0, !.now = now]
    BY <1>22 DEF Barrier
  <2>2. place \in LoopPlaces
    BY NextPhaseType DEF LoopPlaces
  <2>3. now \in Interrupts
    BY HeadTailProperties DEF LoopTyped, Loop
  <2> HIDE DEF place, now
  <2> QED
    BY <2>1, <2>2, <2>3 DEF LoopTyped, Loop, LoopPlaces
<1>23. ASSUME Context PROVE main' \in Loop
  <2>1. LoopAt(NextPhase(main.done))
    BY <1>23 DEF Context
  <2> QED
    BY <2>1, LoopAtType, NextPhaseType DEF LoopTyped, LoopPlaces
<1>24. ASSUME Submitted PROVE main' \in Loop
  <2>1. LoopAt("command") \/ LoopAt("top")
    BY <1>24 DEF Submitted
  <2> QED
    BY <2>1, LoopAtType DEF LoopTyped, LoopPlaces
<1>25. ASSUME Break PROVE main' \in Loop
  <2>1. LoopAt("stopping")
    BY <1>25 DEF Break
  <2> QED
    BY <2>1, LoopAtType DEF LoopTyped, LoopPlaces
<1>26. ASSUME Record PROVE main' \in Loop
  <2>1. main' = [main EXCEPT !.at = "recording", !.place = given + 1]
    BY <1>26 DEF Record
  <2>2. given + 1 \in Nat
    BY DEF HubTyped
  <2> QED
    BY <2>1, <2>2 DEF LoopTyped, Loop
<1>27. ASSUME Stopped PROVE main' \in Loop
  <2>1. LoopAt("stopped")
    BY <1>27 DEF Stopped
  <2> QED
    BY <2>1, LoopAtType DEF LoopTyped, LoopPlaces
<1>28. Forward \/ StartTurn \/ StoreItems \/ ItemCommitted \/ Mark \/ Marked \/ CallTools
        \/ ToolsDone \/ BoundaryPassed \/ Proceed \/ Answer \/ CancelTurn \/ EndTurn =>
        UNCHANGED <<main>>
  BY DEF Forward, StartTurn, StoreItems, ItemCommitted, Mark, Marked, CallTools, ToolsDone,
         BoundaryPassed, Proceed, Answer, CancelTurn, EndTurn, TurnAt, inputVars, TurnOnly,
         promptVars, arrivals, loopVars
<1>29. ChildStore \/ ChildMark \/ ChildMarked =>
        UNCHANGED <<main>>
  BY DEF ChildStore, ChildMark, ChildMarked, ChildOnly, inputVars, promptVars, arrivals,
         loopVars, turnVars
<1>30. Enter \/ Up \/ Escape \/ Stop \/ ChildStops \/ (\E p \in Peers : Arrive(p)) =>
        UNCHANGED <<main>>
  BY DEF Enter, Up, Escape, Stop, ChildStops, Arrive, Outside, inputVars, arrivals, loopVars,
         turnVars, RecallAt, StopOn, promptVars, ChildOnly, Comes
<1>31. UNCHANGED vars => UNCHANGED <<main>>
  BY DEF vars, inputVars, promptVars, arrivals, loopVars, turnVars
<1> QED
  BY <1>1, <1>2, <1>3, <1>4, <1>5, <1>6, <1>7, <1>8, <1>9, <1>10, <1>11, <1>12, <1>13, <1>14,
     <1>15, <1>16, <1>17, <1>18, <1>19, <1>20, <1>21, <1>22, <1>23, <1>24, <1>25, <1>26, <1>27,
     <1>28, <1>29, <1>30, <1>31
     DEF Next, Prompt, RecallStep, ArrivalStep, LoopStep, TurnStep, ChildStep, FromOutside, Rest

-----------------------------------------------------------------------------
(* What a turn is given: the inputs, the messages and the notice in order. *)

\* Its inputs come in the order of their Enters.
Increasing(items) ==
  \A m, n \in 1..Len(items) :
    m < n /\ items[m][1] = "input" /\ items[n][1] = "input" => items[m][2] < items[n][2]

\* N is the notice of an interrupt, or nothing.
Batch(ids, S, N) == InputItems(ids) \cup PeerItems(S) \cup N

\* At most one notice, with the place of an interrupt.
Notices(N) ==
  /\ IsFiniteSet(N) /\ \A e, f \in N : e = f
  /\ \A e \in N : e[2] \in RequestPlaces /\ e[2] \in Nat /\ e[1] \in {"notice"} \X Nat

\* As many places as inputs, and as messages.
LEMMA BatchIsFinite ==
  ASSUME NEW ids \in SUBSET Inputs, NEW S \in SUBSET Peers, NEW N, IsFiniteSet(N)
  PROVE  IsFiniteSet(Batch(ids, S, N))
<1> USE InputsAssumption, BoundsAssumption
<1>1. IsFiniteSet(InputItems(ids))
  <2> DEFINE f == [e \in InputItems(ids) |-> e[1][2]]
  <2>1. \A e \in InputItems(ids) : e[1][2] \in Inputs
        /\ e = <<<<"input", e[1][2]>>, entries[e[1][2]].seq>>
    BY DEF InputItems
  <2>2. f \in Injection(InputItems(ids), Inputs)
    BY <2>1 DEF Injection, IsInjective
  <2> QED
    BY <2>2, FS_Injection
<1>2. IsFiniteSet(PeerItems(S))
  <2> DEFINE f == [e \in PeerItems(S) |-> e[1][2]]
  <2>1. \A e \in PeerItems(S) : e[1][2] \in Peers /\ e = <<<<"peer", e[1][2]>>, peer[e[1][2]].place>>
    BY DEF PeerItems
  <2>2. f \in Injection(PeerItems(S), Peers)
    BY <2>1 DEF Injection, IsInjective
  <2> QED
    BY <2>2, FS_Injection
<1> QED
  BY <1>1, <1>2, FS_Union DEF Batch

\* No two of them have the same place.
LEMMA BatchIsUnequal ==
  ASSUME InputTyped, ArrivalsTyped, EditorInv, PlacesInv,
         NEW ids \in SUBSET Inputs, \A i \in ids : Known(i), NEW S \in SUBSET Came, NEW N, Notices(N)
  PROVE  Unequal(Batch(ids, S, N)) /\ \A e \in Batch(ids, S, N) : e[1] \in Items
<1>1. ASSUME NEW e \in InputItems(ids)
      PROVE  e[2] \in Nat /\ e[2] \in InputPlaces /\ e[1] \in Items
             /\ \E i \in ids : e = <<<<"input", i>>, entries[i].seq>>
  <2>1. PICK i \in ids : e = <<<<"input", i>>, entries[i].seq>>
    BY DEF InputItems
  <2>2. entries[i].seq \in Nat /\ Known(i)
    BY DEF InputTyped, Entry
  <2> QED
    BY <2>1, <2>2 DEF InputPlaces, Items
<1>2. ASSUME NEW e \in PeerItems(S)
      PROVE  e[2] \in Nat /\ e[2] \notin InputPlaces \cup RequestPlaces /\ e[1] \in Items
             /\ \E p \in S : e = <<<<"peer", p>>, peer[p].place>>
  <2>1. PICK p \in S : e = <<<<"peer", p>>, peer[p].place>>
    BY DEF PeerItems
  <2>2. p \in Came /\ p \in Peers /\ peer[p].place \in Nat
    BY DEF Came, ArrivalsTyped, Incoming
  <2> QED
    BY <2>1, <2>2 DEF PlacesInv, Items
<1>3. ASSUME NEW e \in N
      PROVE  e[2] \in Nat /\ e[2] \in RequestPlaces /\ e[2] \notin InputPlaces /\ e[1] \in Items
  BY DEF Notices, PlacesInv, Items
<1>4. ASSUME NEW i \in ids, NEW j \in ids, entries[i].seq = entries[j].seq
      PROVE  i = j
  <2>1. i \in Nat /\ j \in Nat /\ entries[i].seq \in Nat
    BY InputsAssumption DEF InputTyped, Entry
  <2>2. ~(i < j) /\ ~(j < i)
    BY <1>4, <2>1 DEF EditorInv
  <2> QED
    BY <2>1, <2>2
<1>5. ASSUME NEW p \in S, NEW q \in S, peer[p].place = peer[q].place
      PROVE  p = q
  BY <1>5 DEF PlacesInv
<1>6. ASSUME NEW e \in Batch(ids, S, N), NEW f \in Batch(ids, S, N), e[2] = f[2] PROVE e = f
  <2>1. CASE e \in InputItems(ids) /\ f \in InputItems(ids)
    BY <1>1, <1>4, <1>6, <2>1
  <2>2. CASE e \in PeerItems(S) /\ f \in PeerItems(S)
    BY <1>2, <1>5, <1>6, <2>2
  <2>3. CASE e \in N /\ f \in N
    BY <2>3 DEF Notices
  <2> QED
    BY <1>1, <1>2, <1>3, <1>6, <2>1, <2>2, <2>3 DEF Batch
<1>7. ASSUME NEW e \in Batch(ids, S, N) PROVE e[2] \in Int /\ e[1] \in Items
  BY <1>1, <1>2, <1>3 DEF Batch
<1> QED
  BY <1>6, <1>7 DEF Unequal

\* The turn is given each of its inputs once, and in order.
LEMMA BatchInOrder ==
  ASSUME InputTyped, ArrivalsTyped, EditorInv, PlacesInv,
         NEW ids \in SUBSET Inputs, \A i \in ids : Known(i), NEW S \in SUBSET Came, NEW N, Notices(N)
  PROVE  LET items == InOrder(Batch(ids, S, N)) IN
         /\ items \in Seq(Items) /\ Carries(items, ids) /\ Increasing(items)
         /\ \A n \in 1..Len(items) : items[n][1] = "notice" => \E e \in N : items[n] = e[1]
<1> DEFINE B == Batch(ids, S, N)
           items == InOrder(B)
<1>1. S \in SUBSET Peers /\ IsFiniteSet(N)
  BY DEF Came, Notices
<1>2. IsFiniteSet(B)
  BY <1>1, BatchIsFinite
<1>3. Unequal(B) /\ \A e \in B : e[1] \in Items
  BY BatchIsUnequal
<1> HIDE DEF B
<1>4. /\ Len(items) = Cardinality(B) /\ Cardinality(B) \in Nat /\ DOMAIN items = 1..Cardinality(B)
      /\ \A k \in 1..Len(items) : \E e \in B : items[k] = e[1]
      /\ \A e \in B : \E k \in 1..Len(items) : items[k] = e[1]
      /\ \A j, k \in 1..Len(items) : j < k => \E e, f \in B : items[j] = e[1] /\ items[k] = f[1]
           /\ e[2] < f[2]
  BY <1>2, <1>3, InOrderLists
<1>5. \A e \in B : e[1][1] = "input" => \E i \in ids : e[1] = <<"input", i>> /\ e[2] = entries[i].seq
  BY DEF B, Batch, InputItems, PeerItems, Notices
<1>6. ASSUME NEW i \in ids PROVE \E e \in B : e[1] = <<"input", i>>
  <2>1. <<<<"input", i>>, entries[i].seq>> \in B
    BY DEF B, Batch, InputItems
  <2> QED
    BY <2>1
<1>7. \A e \in B : e[1][1] = "notice" => e \in N
  BY DEF B, Batch, InputItems, PeerItems
<1>8. items \in Seq(Items)
  <2>1. \A k \in 1..Len(items) : items[k] \in Items
    BY <1>3, <1>4
  <2>2. items = [k \in 1..Len(items) |-> items[k]]
    BY <1>4 DEF InOrder
  <2> QED
    BY <1>4, <2>1, <2>2, IsASeq
<1>9. Carries(items, ids)
  <2>1. ASSUME NEW n \in 1..Len(items), items[n][1] = "input" PROVE items[n][2] \in ids
    <3>1. PICK e \in B : items[n] = e[1]
      BY <1>4
    <3>2. PICK i \in ids : e[1] = <<"input", i>>
      BY <1>5, <2>1, <3>1
    <3> QED
      BY <3>1, <3>2
  <2>2. ASSUME NEW i \in ids PROVE \E n \in 1..Len(items) : items[n] = <<"input", i>>
    <3>1. PICK e \in B : e[1] = <<"input", i>>
      BY <1>6
    <3>2. PICK n \in 1..Len(items) : items[n] = e[1]
      BY <1>4
    <3> QED
      BY <3>1, <3>2
  <2> QED
    BY <2>1, <2>2 DEF Carries, InputOf
<1>10. Increasing(items)
  <2> SUFFICES ASSUME NEW m \in 1..Len(items), NEW n \in 1..Len(items),
                      m < n, items[m][1] = "input", items[n][1] = "input"
               PROVE  items[m][2] < items[n][2]
    BY DEF Increasing
  <2>1. PICK e \in B, f \in B : items[m] = e[1] /\ items[n] = f[1] /\ e[2] < f[2]
    BY <1>4
  <2>2. PICK i \in ids : e[1] = <<"input", i>> /\ e[2] = entries[i].seq
    BY <1>5, <2>1
  <2>3. PICK j \in ids : f[1] = <<"input", j>> /\ f[2] = entries[j].seq
    BY <1>5, <2>1
  <2>4. i \in Nat /\ j \in Nat /\ entries[i].seq \in Nat /\ entries[j].seq \in Nat /\ i \in Inputs
        /\ j \in Inputs
    BY InputsAssumption DEF InputTyped, Entry
  <2>5. i # j
    BY <2>1, <2>2, <2>3, <2>4
  <2>6. ~(j < i)
    <3>1. j < i => entries[j].seq < entries[i].seq
      BY <2>4 DEF EditorInv
    <3> QED
      BY <2>1, <2>2, <2>3, <2>4, <3>1
  <2> QED
    BY <2>1, <2>2, <2>3, <2>4, <2>5, <2>6
<1>11. \A n \in 1..Len(items) : items[n][1] = "notice" => \E e \in N : items[n] = e[1]
  BY <1>4, <1>7
<1> HIDE DEF items
<1> QED
  BY <1>8, <1>9, <1>10, <1>11 DEF B, items

-----------------------------------------------------------------------------
(* What is queued, and what the turns and the agents are given.            *)

\* The types of the queues of interrupts.
QueuesTyped ==
  interrupted \subseteq Nat /\ interrupts \in Seq(Interrupts) /\ settling \in Seq(Interrupts)

\* The interrupts that wait are interrupts.
LEMMA QueueTypesKept ==
  ASSUME InputTyped, ArrivalsTyped, main \in Loop, RequestedInv, QueuesTyped, [Next]_vars
  PROVE  QueuesTyped'
<1>1. UNCHANGED <<interrupts, settling, interrupted>> => QueuesTyped'
  BY DEF QueuesTyped
<1>2. HubStep => UNCHANGED <<interrupts, settling, interrupted>>
  BY DEF HubStep, HubOnly, inputVars, promptVars, arrivals, loopVars, turnVars
<1>3. SubmitCommand \/ Retain \/ Retained \/ Admit \/ Admitted =>
        UNCHANGED <<interrupts, settling, interrupted>>
  BY DEF SubmitCommand, Retain, Retained, Admit, Admitted, EditorAt, inputVars, turnVars,
         arrivals, loopVars
<1>4. Recall \/ NothingToRecall \/ Recalled =>
        UNCHANGED <<interrupts, settling, interrupted>>
  BY DEF Recall, NothingToRecall, Recalled, RecallAt, inputVars, arrivals, loopVars, turnVars
<1>5. (\E x \in Escapes : RequestInterrupt(x)) \/ (\E p \in Peers : QueueIncoming(p))
        \/ (\E p \in Peers : TakeIncoming(p)) =>
        UNCHANGED <<interrupts, settling, interrupted>>
  BY DEF RequestInterrupt, QueueIncoming, TakeIncoming, Comes, inputVars, promptVars, loopVars,
         turnVars, StopOn
<1>6. ASSUME NEW x \in Escapes, QueueInterrupt(x) PROVE QueuesTyped'
  <2> DEFINE r == [turn |-> escape[x].turn, to |-> escape[x].to, place |-> escape[x].place, ids |-> {}]
  <2>1. r \in Interrupts
    BY DEF ArrivalsTyped, Request, Interrupts
  <2>2. interrupts' = Append(interrupts, r) /\ UNCHANGED <<settling, interrupted>>
    BY <1>6 DEF QueueInterrupt
  <2>3. interrupts' \in Seq(Interrupts)
    BY <2>1, <2>2, AppendProperties DEF QueuesTyped
  <2> QED
    BY <2>2, <2>3 DEF QueuesTyped
<1>7. RunCommand \/ CommandRun \/ StartPeers \/ StartReady \/ ClaimOldest \/ NothingToClaim
        \/ Claim \/ Claimed \/ ClaimedTooLate \/ Await \/ ClaimAll \/ Finalize \/ Context
        \/ Submitted \/ Break \/ Record \/ Stopped =>
        UNCHANGED <<interrupts, settling, interrupted>>
  BY DEF RunCommand, CommandRun, StartPeers, StartReady, ClaimOldest, NothingToClaim, Claim,
         Claimed, ClaimedTooLate, Await, ClaimAll, Finalize, Context, Submitted, Break, Record,
         Stopped, LoopAt, inputVars, Open, promptVars, arrivals, turnVars
<1>8. ASSUME Wake PROVE QueuesTyped'
  <2>1. settling' = settling \/ (settling # << >> /\ settling' = Tail(settling))
    BY <1>8 DEF Wake
  <2>2. settling' \in Seq(Interrupts)
    BY <2>1, HeadTailProperties DEF QueuesTyped
  <2> QED
    BY <1>8, <2>2 DEF Wake, QueuesTyped
<1>9. ASSUME Accept PROVE QueuesTyped'
  <2>1. interrupts # << >> /\ interrupts' = Tail(interrupts) /\ UNCHANGED settling
    BY <1>9 DEF Accept, RequestedInv
  <2>2. interrupts' \in Seq(Interrupts) /\ Head(interrupts) \in Interrupts
    BY <2>1, HeadTailProperties DEF QueuesTyped
  <2>3. interrupted' \subseteq Nat
    BY <1>9, <2>2 DEF Accept, QueuesTyped, Interrupts
  <2> QED
    BY <2>1, <2>2, <2>3 DEF QueuesTyped
<1>10. ASSUME NothingForInterrupt PROVE QueuesTyped'
  <2>1. LoopTyped /\ Apply({})
    BY <1>10 DEF NothingForInterrupt, LoopTyped, QueuesTyped
  <2>2. settling' \in Seq(Interrupts)
    BY <2>1, ApplyTypes
  <2>3. UNCHANGED <<interrupts, interrupted>>
    BY <2>1 DEF Apply
  <2> QED
    BY <2>2, <2>3 DEF QueuesTyped
<1>11. ASSUME ClaimedAll PROVE QueuesTyped'
  <2>1. LoopTyped /\ Apply(lock.ids) /\ lock.ids \in SUBSET Inputs
    BY <1>11 DEF ClaimedAll, LoopTyped, QueuesTyped, InputTyped, Holding, Free
  <2> QED
    BY <2>1, ApplyTypes DEF Apply, QueuesTyped
<1>12. ASSUME Barrier PROVE QueuesTyped'
  <2>1. settling' = settling \/ (settling # << >> /\ settling' = Tail(settling))
    BY <1>12 DEF Barrier
  <2>2. settling' \in Seq(Interrupts)
    BY <2>1, HeadTailProperties DEF QueuesTyped
  <2> QED
    BY <1>12, <2>2 DEF Barrier, QueuesTyped
<1>13. Forward \/ StartTurn \/ StoreItems \/ ItemCommitted \/ Mark \/ Marked \/ CallTools
        \/ ToolsDone \/ BoundaryPassed \/ Proceed \/ Answer \/ CancelTurn \/ EndTurn =>
        UNCHANGED <<interrupts, settling, interrupted>>
  BY DEF Forward, StartTurn, StoreItems, ItemCommitted, Mark, Marked, CallTools, ToolsDone,
         BoundaryPassed, Proceed, Answer, CancelTurn, EndTurn, TurnAt, inputVars, TurnOnly,
         promptVars, arrivals, loopVars
<1>14. ChildStore \/ ChildMark \/ ChildMarked =>
        UNCHANGED <<interrupts, settling, interrupted>>
  BY DEF ChildStore, ChildMark, ChildMarked, ChildOnly, inputVars, promptVars, arrivals,
         loopVars, turnVars
<1>15. Enter \/ Up \/ Escape \/ Stop \/ ChildStops \/ (\E p \in Peers : Arrive(p)) =>
        UNCHANGED <<interrupts, settling, interrupted>>
  BY DEF Enter, Up, Escape, Stop, ChildStops, Arrive, Outside, inputVars, arrivals, loopVars,
         turnVars, RecallAt, StopOn, promptVars, ChildOnly, Comes
<1>16. UNCHANGED vars => UNCHANGED <<interrupts, settling, interrupted>>
  BY DEF vars, inputVars, promptVars, arrivals, loopVars, turnVars
<1> QED
  BY <1>1, <1>2, <1>3, <1>4, <1>5, <1>6, <1>7, <1>8, <1>9, <1>10, <1>11, <1>12, <1>13, <1>14,
     <1>15, <1>16
     DEF Next, Prompt, RecallStep, ArrivalStep, LoopStep, TurnStep, ChildStep, FromOutside, Rest

\* After what the loop was woken for comes what else it was woken for.
LEMMA PhaseOfInterrupt ==
  ASSUME NEW done
  PROVE  NextPhase(done) = "accept" <=> "interrupt" \in done
  BY DEF NextPhase

\* The loop accepts an interrupt only if there is one.
LEMMA RequestedKept ==
  ASSUME ArrivalsTyped, main \in Loop, QueuesTyped, RequestedInv, [Next]_vars
  PROVE  RequestedInv'
<1>1. UNCHANGED <<main, interrupts>> => RequestedInv'
  BY DEF RequestedInv
<1>2. HubStep => UNCHANGED <<main, interrupts>>
  BY DEF HubStep, HubOnly, inputVars, promptVars, arrivals, loopVars, turnVars
<1>3. SubmitCommand \/ Retain \/ Retained \/ Admit \/ Admitted =>
        UNCHANGED <<main, interrupts>>
  BY DEF SubmitCommand, Retain, Retained, Admit, Admitted, EditorAt, inputVars, turnVars,
         arrivals, loopVars
<1>4. Recall \/ NothingToRecall \/ Recalled =>
        UNCHANGED <<main, interrupts>>
  BY DEF Recall, NothingToRecall, Recalled, RecallAt, inputVars, arrivals, loopVars, turnVars
<1>5. (\E x \in Escapes : RequestInterrupt(x)) \/ (\E p \in Peers : QueueIncoming(p))
        \/ (\E p \in Peers : TakeIncoming(p)) =>
        UNCHANGED <<main, interrupts>>
  BY DEF RequestInterrupt, QueueIncoming, TakeIncoming, Comes, inputVars, promptVars, loopVars,
         turnVars, StopOn
<1>6. ASSUME NEW x \in Escapes, QueueInterrupt(x) PROVE RequestedInv'
  <2>1. interrupts' # << >> /\ UNCHANGED main
    BY <1>6, AppendProperties DEF QueueInterrupt, ArrivalsTyped, Request, QueuesTyped, Interrupts
  <2> QED
    BY <2>1 DEF RequestedInv
<1>7. ASSUME RunCommand PROVE RequestedInv'
  BY <1>7 DEF RunCommand, LoopAt, inputVars, Asleep, RequestedInv
<1>8. ASSUME CommandRun PROVE RequestedInv'
  <2>1. main'.at \in {"top", "stopping"}
    BY <1>8, LoopAtType DEF CommandRun, LoopPlaces
  <2> QED
    BY <2>1 DEF RequestedInv
<1>9. ASSUME StartPeers PROVE RequestedInv'
  BY <1>9 DEF StartPeers, LoopAt, inputVars, Asleep, RequestedInv
<1>10. ASSUME StartReady PROVE RequestedInv'
  BY <1>10 DEF StartReady, LoopAt, inputVars, Asleep, RequestedInv
<1>11. ASSUME ClaimOldest PROVE RequestedInv'
  BY <1>11 DEF ClaimOldest, LoopAt, inputVars, Asleep, RequestedInv
<1>12. ASSUME NothingToClaim PROVE RequestedInv'
  BY <1>12 DEF NothingToClaim, Open, inputVars, LoopAt, Asleep, RequestedInv
<1>13. ASSUME Claim PROVE RequestedInv'
  BY <1>13 DEF Claim, LoopAt, Asleep, RequestedInv
<1>14. ASSUME Claimed PROVE RequestedInv'
  BY <1>14 DEF Claimed, LoopAt, Asleep, RequestedInv
<1>15. ASSUME ClaimedTooLate PROVE RequestedInv'
  BY <1>15 DEF ClaimedTooLate, Open, LoopAt, Asleep, RequestedInv
<1>16. ASSUME Await PROVE RequestedInv'
  BY <1>16 DEF Await, Open, inputVars, LoopAt, Asleep, RequestedInv
<1>17. ASSUME Wake PROVE RequestedInv'
  <2>1. "interrupt" \in Done => interrupts # << >>
    BY DEF Done
  <2>2. UNCHANGED interrupts /\ main'.done = Done /\ main'.at \in {"finalize", NextPhase(Done)}
    BY <1>17 DEF Wake, Loop
  <2> QED
    BY <2>1, <2>2, NextPhaseType, PhaseOfInterrupt DEF RequestedInv
<1>18. ASSUME Accept PROVE RequestedInv'
  <2> DEFINE rest == main.done \ {"interrupt"}
  <2>1. main'.done = rest /\ main'.at \in {"claimAll", NextPhase(rest)}
    BY <1>18 DEF Accept, Loop
  <2>2. "interrupt" \notin rest /\ NextPhase(rest) \in {"input", "top"}
    BY DEF NextPhase
  <2> QED
    BY <2>1, <2>2 DEF RequestedInv
<1>19. ASSUME NothingForInterrupt PROVE RequestedInv'
  <2>1. main'.done = main.done /\ main'.at \in {"finalize", NextPhase(main.done)}
        /\ "interrupt" \notin main.done
    BY <1>19 DEF NothingForInterrupt, Apply, Loop, RequestedInv
  <2>2. NextPhase(main.done) \in {"input", "top"}
    BY <2>1 DEF NextPhase
  <2> QED
    BY <2>1, <2>2 DEF RequestedInv
<1>20. ASSUME ClaimAll PROVE RequestedInv'
  <2>1. main'.done = main.done /\ main'.at = "claimingAll" /\ "interrupt" \notin main.done
    BY <1>20 DEF ClaimAll, LoopAt, Loop, RequestedInv
  <2> QED
    BY <2>1 DEF RequestedInv
<1>21. ASSUME ClaimedAll PROVE RequestedInv'
  <2>1. main'.done = main.done /\ main'.at \in {"finalize", NextPhase(main.done)}
        /\ "interrupt" \notin main.done
    BY <1>21 DEF ClaimedAll, Apply, Loop, RequestedInv
  <2>2. NextPhase(main.done) \in {"input", "top"}
    BY <2>1 DEF NextPhase
  <2> QED
    BY <2>1, <2>2 DEF RequestedInv
<1>22. ASSUME Finalize PROVE RequestedInv'
  <2>1. main'.done = main.done /\ main'.at = "barrier" /\ UNCHANGED interrupts
    BY <1>22 DEF Finalize, Loop
  <2> QED
    BY <1>22, <2>1 DEF Finalize, RequestedInv
<1>23. ASSUME Barrier PROVE RequestedInv'
  <2>1. main'.done = main.done /\ main'.at \in {"context", "finalize", NextPhase(main.done)}
        /\ UNCHANGED interrupts
    BY <1>23 DEF Barrier, Loop
  <2>2. "interrupt" \in main.done => interrupts # << >>
    BY <1>23 DEF Barrier, RequestedInv
  <2> QED
    BY <2>1, <2>2, NextPhaseType, PhaseOfInterrupt DEF RequestedInv
<1>24. ASSUME Context PROVE RequestedInv'
  <2>1. main' = (IF NextPhase(main.done) \in {"top",
        "wait"} THEN [Asleep EXCEPT !.at = NextPhase(main.done)]
                  ELSE [main EXCEPT !.at = NextPhase(main.done)])
    BY <1>24 DEF Context, LoopAt
  <2>2. NextPhase(main.done) \in {"accept", "input", "top"} /\ UNCHANGED interrupts
    BY <1>24, NextPhaseType DEF Context, LoopAt
  <2>3. main'.at = "accept" => interrupts # << >>
    BY <1>24, <2>1, <2>2, PhaseOfInterrupt DEF Context, RequestedInv, Asleep, Loop
  <2>4. main'.at \in {"accept", "input", "top"}
    BY <2>1, <2>2 DEF Asleep, Loop
  <2> QED
    BY <2>2, <2>3, <2>4 DEF RequestedInv
<1>25. ASSUME Submitted PROVE RequestedInv'
  BY <1>25 DEF Submitted, LoopAt, inputVars, Asleep, RequestedInv
<1>26. ASSUME Break PROVE RequestedInv'
  BY <1>26 DEF Break, LoopAt, inputVars, Asleep, RequestedInv
<1>27. ASSUME Record PROVE RequestedInv'
  BY <1>27 DEF Record, inputVars, promptVars, arrivals, turnVars, LoopAt, Asleep, RequestedInv
<1>28. ASSUME Stopped PROVE RequestedInv'
  BY <1>28 DEF Stopped, LoopAt, inputVars, Asleep, RequestedInv
<1>29. Forward \/ StartTurn \/ StoreItems \/ ItemCommitted \/ Mark \/ Marked \/ CallTools
        \/ ToolsDone \/ BoundaryPassed \/ Proceed \/ Answer \/ CancelTurn \/ EndTurn =>
        UNCHANGED <<main, interrupts>>
  BY DEF Forward, StartTurn, StoreItems, ItemCommitted, Mark, Marked, CallTools, ToolsDone,
         BoundaryPassed, Proceed, Answer, CancelTurn, EndTurn, TurnAt, inputVars, TurnOnly,
         promptVars, arrivals, loopVars
<1>30. ChildStore \/ ChildMark \/ ChildMarked =>
        UNCHANGED <<main, interrupts>>
  BY DEF ChildStore, ChildMark, ChildMarked, ChildOnly, inputVars, promptVars, arrivals,
         loopVars, turnVars
<1>31. Enter \/ Up \/ Escape \/ Stop \/ ChildStops \/ (\E p \in Peers : Arrive(p)) =>
        UNCHANGED <<main, interrupts>>
  BY DEF Enter, Up, Escape, Stop, ChildStops, Arrive, Outside, inputVars, arrivals, loopVars,
         turnVars, RecallAt, StopOn, promptVars, ChildOnly, Comes
<1>32. UNCHANGED vars => UNCHANGED <<main, interrupts>>
  BY DEF vars, inputVars, promptVars, arrivals, loopVars, turnVars
<1> QED
  BY <1>1, <1>2, <1>3, <1>4, <1>5, <1>6, <1>7, <1>8, <1>9, <1>10, <1>11, <1>12, <1>13, <1>14,
     <1>15, <1>16, <1>17, <1>18, <1>19, <1>20, <1>21, <1>22, <1>23, <1>24, <1>25, <1>26, <1>27,
     <1>28, <1>29, <1>30, <1>31, <1>32
     DEF Next, Prompt, RecallStep, ArrivalStep, LoopStep, TurnStep, ChildStep, FromOutside, Rest

\* An interrupt is delivered with its inputs, with the messages that came
\* before, and with its notice.
LEMMA BarrierGives ==
  ASSUME TypeOK, EditorInv, PlacesInv, CarriersInv, Barrier
  PROVE  \E items \in Seq(Items) :
           /\ Carries(items, main.now.ids) /\ Increasing(items)
           /\ \A n \in 1..Len(items) : items[n][1] = "notice" => items[n] = <<"notice", main.now.turn>>
           /\ ready' = (IF main.now.ids = {} THEN ready
                        ELSE Append(ready, [ids |-> main.now.ids, to |-> main.now.to, items |-> items]))
           /\ conv' = (IF main.now.ids = {} /\ main.now.to = "main" THEN conv \o items ELSE conv)
<1> DEFINE S == {p \in Peers : peer[p].at \in {"queued", "held"} /\ main.now.to = "main"
                                 /\ peer[p].place <= main.place}
           N == {<<<<"notice", main.now.turn>>, main.now.place>>}
           items == InOrder(Batch(main.now.ids, S, N))
<1>1. main.now \in Interrupts /\ main.at = "barrier"
  BY DEF TypeOK, LoopTyped, Loop, Barrier
<1>2. main.now.ids \in SUBSET Inputs /\ main.now.turn \in Nat /\ main.now.place \in Nat
  BY <1>1 DEF Interrupts
<1>3. \A i \in main.now.ids : Known(i)
  BY <1>1 DEF CarriersInv, InterruptCarries, Finalizing, Taken, Known
<1>4. S \in SUBSET Came
  BY DEF Came
<1>5. main.now.place \in RequestPlaces
  BY <1>1 DEF RequestPlaces, BusyPlaces, Interrupting
<1>6. Notices(N)
  <2> DEFINE c == <<<<"notice", main.now.turn>>, main.now.place>>
  <2>1. c[2] = main.now.place /\ c[1] = <<"notice", main.now.turn>>
    OBVIOUS
  <2>2. c[1] \in {"notice"} \X Nat
    BY <1>2, <2>1
  <2> HIDE DEF c
  <2>3. IsFiniteSet({c})
    BY FS_Singleton
  <2>4. Notices({c})
    BY <1>2, <1>5, <2>1, <2>2, <2>3 DEF Notices
  <2> QED
    BY <2>4 DEF c
<1>7. \A e \in N : e[1] = <<"notice", main.now.turn>>
  OBVIOUS
<1> HIDE DEF N, S
<1>8. InputTyped /\ ArrivalsTyped
  BY DEF TypeOK
<1>9. /\ items \in Seq(Items) /\ Carries(items, main.now.ids) /\ Increasing(items)
      /\ \A n \in 1..Len(items) : items[n][1] = "notice" => \E e \in N : items[n] = e[1]
  BY <1>2, <1>3, <1>4, <1>6, <1>8, BatchInOrder
<1>10. S = {p \in {p \in Peers : peer[p].at \in {"queued", "held"}} :
             main.now.to = "main" /\ peer[p].place <= main.place}
  BY DEF S
<1>11. /\ ready' = (IF main.now.ids = {} THEN ready
                    ELSE Append(ready, [ids |-> main.now.ids, to |-> main.now.to, items |-> items]))
       /\ conv' = (IF main.now.ids = {} /\ main.now.to = "main" THEN conv \o items ELSE conv)
  BY <1>10, Zenon DEF Barrier, Batch, N
<1> HIDE DEF items
<1> QED
  BY <1>7, <1>9, <1>11

\* A turn for messages from outside has nothing else.
LEMMA PeersGiven ==
  ASSUME TypeOK, EditorInv, PlacesInv, StartPeers
  PROVE  \E items \in Seq(Items) :
           /\ fg' = NewTurn({}, "main", items)
           /\ Carries(items, {}) /\ Increasing(items) /\ \A n \in 1..Len(items) : items[n][1] # "notice"
<1> DEFINE S == {p \in Held : \A n \in UserPlaces \cup CommandPlaces : peer[p].place < n}
           items == InOrder(Batch({}, S, {}))
<1>1. S \in SUBSET Came
  BY DEF Held, Came
<1>2. Notices({})
  BY FS_EmptySet DEF Notices
<1>3. InputTyped /\ ArrivalsTyped /\ {} \in SUBSET Inputs
  BY DEF TypeOK
<1>4. /\ items \in Seq(Items) /\ Carries(items, {}) /\ Increasing(items)
      /\ \A n \in 1..Len(items) : items[n][1] = "notice" => \E e \in {} : items[n] = e[1]
  BY <1>1, <1>2, <1>3, BatchInOrder
<1>5. Batch({}, S, {}) = PeerItems(S)
  BY DEF Batch, InputItems
<1>6. fg' = NewTurn({}, "main", items)
  BY <1>5 DEF StartPeers
<1> HIDE DEF items
<1> QED
  BY <1>4, <1>6

\* Neither has one for the input that was claimed.
LEMMA OldestGiven ==
  ASSUME TypeOK, EditorInv, PlacesInv, LockInv, Claimed
  PROVE  \E items \in Seq(Items) :
           /\ fg' = NewTurn(lock.ids, lock.to, items)
           /\ Carries(items, lock.ids) /\ Increasing(items)
                /\ \A n \in 1..Len(items) : items[n][1] # "notice"
<1> DEFINE items == InOrder(Batch(lock.ids, {}, {}))
<1>1. lock.by = "loop"
  BY InputActions
<1>2. lock.ids \in SUBSET Inputs /\ \A i \in lock.ids : Known(i)
  BY <1>1 DEF LockInv, LoopLock, Pending, Known
<1>3. Notices({}) /\ {} \in SUBSET Came
  BY FS_EmptySet DEF Notices
<1>4. InputTyped /\ ArrivalsTyped
  BY DEF TypeOK
<1>5. /\ items \in Seq(Items) /\ Carries(items, lock.ids) /\ Increasing(items)
      /\ \A n \in 1..Len(items) : items[n][1] = "notice" => \E e \in {} : items[n] = e[1]
  BY <1>2, <1>3, <1>4, BatchInOrder
<1>6. Batch(lock.ids, {}, {}) = InputItems(lock.ids)
  BY DEF Batch, PeerItems
<1>7. fg' = NewTurn(lock.ids, lock.to, items)
  BY <1>6 DEF Claimed
<1> HIDE DEF items
<1> QED
  BY <1>5, <1>7

\* Every claim that is ready for a turn is one.
LEMMA ReadyTypeKept ==
  ASSUME TypeOK, ready \in Seq(Claims), EditorInv, PlacesInv, CarriersInv, [Next]_vars
  PROVE  ready' \in Seq(Claims)
<1>1. UNCHANGED <<ready>> => ready' \in Seq(Claims)
  BY DEF TypeOK
<1>2. HubStep => UNCHANGED <<ready>>
  BY DEF HubStep, HubOnly, inputVars, promptVars, arrivals, loopVars, turnVars
<1>3. SubmitCommand \/ Retain \/ Retained \/ Admit \/ Admitted =>
        UNCHANGED <<ready>>
  BY DEF SubmitCommand, Retain, Retained, Admit, Admitted, EditorAt, inputVars, turnVars,
         arrivals, loopVars
<1>4. Recall \/ NothingToRecall \/ Recalled =>
        UNCHANGED <<ready>>
  BY DEF Recall, NothingToRecall, Recalled, RecallAt, inputVars, arrivals, loopVars, turnVars
<1>5. (\E x \in Escapes : RequestInterrupt(x)) \/ (\E x \in Escapes : QueueInterrupt(x))
        \/ (\E p \in Peers : QueueIncoming(p)) \/ (\E p \in Peers : TakeIncoming(p)) =>
        UNCHANGED <<ready>>
  BY DEF RequestInterrupt, QueueInterrupt, QueueIncoming, TakeIncoming, Comes, inputVars,
         promptVars, loopVars, turnVars, StopOn
<1>6. RunCommand \/ CommandRun \/ StartPeers \/ ClaimOldest \/ NothingToClaim \/ Claim
        \/ Claimed \/ ClaimedTooLate \/ Await \/ Wake \/ Accept \/ NothingForInterrupt
        \/ ClaimAll \/ ClaimedAll \/ Finalize \/ Context \/ Submitted \/ Break \/ Record
        \/ Stopped =>
        UNCHANGED <<ready>>
  BY DEF RunCommand, CommandRun, StartPeers, ClaimOldest, NothingToClaim, Claim, Claimed,
         ClaimedTooLate, Await, Wake, Accept, NothingForInterrupt, ClaimAll, ClaimedAll,
         Finalize, Context, Submitted, Break, Record, Stopped, LoopAt, inputVars, Open,
         promptVars, arrivals, turnVars, Apply
<1>7. ASSUME StartReady PROVE ready' \in Seq(Claims)
  <2>1. ready # << >> /\ ready' = Tail(ready)
    BY <1>7 DEF StartReady
  <2> QED
    BY <2>1, HeadTailProperties
<1>8. ASSUME Barrier PROVE ready' \in Seq(Claims)
  <2>1. PICK items \in Seq(Items) :
          ready' = (IF main.now.ids = {} THEN ready
                    ELSE Append(ready, [ids |-> main.now.ids, to |-> main.now.to, items |-> items]))
    BY <1>8, BarrierGives
  <2>2. main.now \in Interrupts
    BY DEF TypeOK, LoopTyped, Loop
  <2>3. [ids |-> main.now.ids, to |-> main.now.to, items |-> items] \in Claims
    BY <2>2 DEF Claims, Interrupts
  <2> QED
    BY <2>1, <2>3, AppendProperties
<1>9. Forward \/ StartTurn \/ StoreItems \/ ItemCommitted \/ Mark \/ Marked \/ CallTools
        \/ ToolsDone \/ BoundaryPassed \/ Proceed \/ Answer \/ CancelTurn \/ EndTurn =>
        UNCHANGED <<ready>>
  BY DEF Forward, StartTurn, StoreItems, ItemCommitted, Mark, Marked, CallTools, ToolsDone,
         BoundaryPassed, Proceed, Answer, CancelTurn, EndTurn, TurnAt, inputVars, TurnOnly,
         promptVars, arrivals, loopVars
<1>10. ChildStore \/ ChildMark \/ ChildMarked =>
        UNCHANGED <<ready>>
  BY DEF ChildStore, ChildMark, ChildMarked, ChildOnly, inputVars, promptVars, arrivals,
         loopVars, turnVars
<1>11. Enter \/ Up \/ Escape \/ Stop \/ ChildStops \/ (\E p \in Peers : Arrive(p)) =>
        UNCHANGED <<ready>>
  BY DEF Enter, Up, Escape, Stop, ChildStops, Arrive, Outside, inputVars, arrivals, loopVars,
         turnVars, RecallAt, StopOn, promptVars, ChildOnly, Comes
<1>12. UNCHANGED vars => UNCHANGED <<ready>>
  BY DEF vars, inputVars, promptVars, arrivals, loopVars, turnVars
<1> QED
  BY <1>1, <1>2, <1>3, <1>4, <1>5, <1>6, <1>7, <1>8, <1>9, <1>10, <1>11, <1>12
     DEF Next, Prompt, RecallStep, ArrivalStep, LoopStep, TurnStep, ChildStep, FromOutside, Rest

\* The turn goes on as it was, though it may be cancelled.
SameTurn ==
  /\ fg'.at = fg.at /\ fg'.turn = fg.turn /\ fg'.ids = fg.ids /\ fg'.to = fg.to
  /\ fg'.items = fg.items /\ fg'.k = fg.k /\ fg'.place = fg.place

\* These steps may cancel the turn, and change nothing else of it.
LEMMA TurnHalts ==
  ASSUME fg \in Turn,
         Admitted \/ Escape \/ (\E x \in Escapes : QueueInterrupt(x))
               \/ (\E p \in Peers : QueueIncoming(p)) \/ Stop
           \/ NothingForInterrupt \/ ClaimedAll
  PROVE  SameTurn /\ fg' \in Turn
<1>1. fg' = fg \/ fg' = [fg EXCEPT !.cancel = TRUE]
  <2> USE DEF StopOn, Cancelled, Apply, turnVars
  <2>1. Admitted \/ Escape \/ Stop => fg' = fg \/ fg' = [fg EXCEPT !.cancel = TRUE]
    BY DEF Admitted, Escape, Stop
  <2>2. (\E x \in Escapes : QueueInterrupt(x)) => fg' = fg \/ fg' = [fg EXCEPT !.cancel = TRUE]
    BY DEF QueueInterrupt
  <2>3. (\E p \in Peers : QueueIncoming(p)) => fg' = fg \/ fg' = [fg EXCEPT !.cancel = TRUE]
    BY DEF QueueIncoming
  <2>4. NothingForInterrupt \/ ClaimedAll => fg' = fg \/ fg' = [fg EXCEPT !.cancel = TRUE]
    BY DEF NothingForInterrupt, ClaimedAll
  <2> QED
    BY <2>1, <2>2, <2>3, <2>4
<1>2. SameTurn
  BY <1>1 DEF Turn, SameTurn
<1>3. fg' \in Turn
  BY <1>1 DEF Turn
<1> QED
  BY <1>2, <1>3

\* Where the foreground turn may be.
TurnPlaces == {"none", "created", "starting", "committing", "mark", "marking", "model", "tools",
      "boundary",
               "hook", "closing", "ended"}

\* The turn goes on at another place.
LEMMA TurnAtMoves ==
  ASSUME fg \in Turn, NEW place \in TurnPlaces, TurnAt(place)
  PROVE  /\ fg' \in Turn /\ fg'.at = place
         /\ place \in {"ended", "closing"} => fg'.ids = {} /\ fg'.to = "main" /\ fg'.items = << >>
         /\ place = "closing" => fg'.turn = fg.turn
         /\ place \notin {"ended", "closing"} =>
              /\ fg'.turn = fg.turn /\ fg'.ids = fg.ids /\ fg'.to = fg.to
              /\ fg'.items = fg.items /\ fg'.k = fg.k /\ fg'.place = fg.place
<1>0. << >> \in Seq(Items)
  OBVIOUS
<1>1. CASE place = "ended"
  <2>1. fg' = [at |-> "ended", turn |-> 0, ids |-> {}, to |-> "main", items |-> << >>, k |-> 0,
               place |-> 0, rounds |-> 0, cancel |-> FALSE]
    BY <1>1 DEF TurnAt, NoTurn
  <2> QED
    BY <1>0, <1>1, <2>1 DEF Turn, Agents
<1>2. CASE place = "closing"
  <2>1. fg' = [at |-> "closing", turn |-> fg.turn, ids |-> {}, to |-> "main", items |-> << >>, k |-> 0,
               place |-> 0, rounds |-> 0, cancel |-> FALSE]
    BY <1>2 DEF TurnAt, NoTurn
  <2> QED
    BY <1>0, <1>2, <2>1 DEF Turn, Agents
<1>3. CASE place \notin {"ended", "closing"}
  <2>1. fg' = [fg EXCEPT !.at = place]
    BY <1>3 DEF TurnAt
  <2> QED
    BY <1>3, <2>1 DEF Turn, TurnPlaces
<1> QED
  BY <1>1, <1>2, <1>3

\* A new turn is a turn, with no number, and has not run.
LEMMA NewTurnType ==
  ASSUME NEW ids \in SUBSET Inputs, NEW to \in Agents, NEW items \in Seq(Items)
  PROVE  LET t == NewTurn(ids, to, items) IN
         t \in Turn /\ t.at = "created" /\ t.turn = 0 /\ t.ids = ids /\ t.to = to /\ t.items = items
<1> DEFINE t == NewTurn(ids, to, items)
<1>1. NoTurn \in Turn /\ NoTurn.turn = 0
  BY DEF NoTurn, Turn, Agents
<1>2. t \in Turn
  BY <1>1 DEF NewTurn, Turn
<1>3. t.at = "created" /\ t.turn = 0 /\ t.ids = ids /\ t.to = to /\ t.items = items
  BY <1>1 DEF NewTurn, Turn
<1> HIDE DEF t
<1> QED
  BY <1>2, <1>3 DEF t

\* What is announced next, or that everything is.
LEMMA PublishMoves ==
  ASSUME fg \in Turn, given \in Nat, NEW k \in Nat \ {0}, PublishCommit(k)
  PROVE  /\ fg' \in Turn /\ fg'.turn = fg.turn /\ fg'.ids = fg.ids /\ fg'.to = fg.to
         /\ k > Len(fg.items) => fg'.at = IF fg.ids = {} THEN "model" ELSE "mark"
         /\ k <= Len(fg.items) =>
              fg'.at = "committing" /\ fg'.items = fg.items /\ fg'.k = k /\ fg'.place = given + 1
<1>0. << >> \in Seq(Items) /\ Len(fg.items) \in Nat
  BY DEF Turn
<1>1. CASE k > Len(fg.items)
  <2>1. fg' = [fg EXCEPT !.at = IF fg.ids = {} THEN "model" ELSE "mark", !.k = 0, !.place = 0,
        !.items = << >>]
    BY <1>1 DEF PublishCommit
  <2>2. fg' = [at |-> IF fg.ids = {} THEN "model" ELSE "mark", turn |-> fg.turn, ids |-> fg.ids,
        to |-> fg.to,
               items |-> << >>, k |-> 0, place |-> 0, rounds |-> fg.rounds, cancel |-> fg.cancel]
    BY <2>1 DEF Turn
  <2> QED
    BY <1>0, <1>1, <2>2 DEF Turn
<1>2. CASE k <= Len(fg.items)
  <2>1. fg' = [fg EXCEPT !.at = "committing", !.k = k, !.place = given + 1]
    BY <1>0, <1>2 DEF PublishCommit
  <2>2. fg' = [at |-> "committing", turn |-> fg.turn, ids |-> fg.ids, to |-> fg.to,
               items |-> fg.items, k |-> k, place |-> given + 1, rounds |-> fg.rounds,
                     cancel |-> fg.cancel]
    BY <2>1 DEF Turn
  <2> QED
    BY <1>0, <1>2, <2>2 DEF Turn
<1> QED
  BY <1>0, <1>1, <1>2

\* The foreground turn is a turn after every step.
LEMMA TurnTypeKept ==
  ASSUME TypeOK, TurnTyped, EditorInv, PlacesInv, LockInv, [Next]_vars
  PROVE  TurnTyped'
<1>1. UNCHANGED <<fg, turns, early>> => TurnTyped'
  BY DEF TurnTyped
<1>2. HubStep => UNCHANGED <<fg, turns, early>>
  BY DEF HubStep, HubOnly, inputVars, promptVars, arrivals, loopVars, turnVars
<1>3. SubmitCommand \/ Retain \/ Retained \/ Admit =>
        UNCHANGED <<fg, turns, early>>
  BY DEF SubmitCommand, Retain, Retained, Admit, EditorAt, inputVars, turnVars, arrivals,
         loopVars
<1>4. ASSUME Admitted PROVE TurnTyped'
  <2>1. fg' \in Turn
    BY <1>4, TurnHalts DEF TurnTyped
  <2> QED
    BY <1>4, <2>1 DEF TurnTyped, Admitted
<1>5. Recall \/ NothingToRecall \/ Recalled =>
        UNCHANGED <<fg, turns, early>>
  BY DEF Recall, NothingToRecall, Recalled, RecallAt, inputVars, arrivals, loopVars, turnVars
<1>6. (\E x \in Escapes : RequestInterrupt(x)) \/ (\E p \in Peers : TakeIncoming(p)) =>
        UNCHANGED <<fg, turns, early>>
  BY DEF RequestInterrupt, TakeIncoming, Comes, inputVars, promptVars, loopVars, turnVars
<1>7. ASSUME NEW x \in Escapes, QueueInterrupt(x) PROVE TurnTyped'
  <2>1. fg' \in Turn
    BY <1>7, TurnHalts DEF TurnTyped
  <2> QED
    BY <1>7, <2>1 DEF TurnTyped, QueueInterrupt, StopOn
<1>8. ASSUME NEW p \in Peers, QueueIncoming(p) PROVE TurnTyped'
  <2>1. fg' \in Turn
    BY <1>8, TurnHalts DEF TurnTyped
  <2> QED
    BY <1>8, <2>1 DEF TurnTyped, QueueIncoming, StopOn
<1>9. RunCommand \/ CommandRun \/ ClaimOldest \/ NothingToClaim \/ Claim \/ ClaimedTooLate
        \/ Await \/ Accept \/ ClaimAll \/ Finalize \/ Barrier \/ Context \/ Submitted \/ Break
        \/ Record \/ Stopped =>
        UNCHANGED <<fg, turns, early>>
  BY DEF RunCommand, CommandRun, ClaimOldest, NothingToClaim, Claim, ClaimedTooLate, Await,
         Accept, ClaimAll, Finalize, Barrier, Context, Submitted, Break, Record, Stopped, LoopAt,
         inputVars, Open, promptVars, arrivals, turnVars
<1>10. ASSUME StartPeers PROVE TurnTyped'
  <2>1. PICK items \in Seq(Items) : fg' = NewTurn({}, "main", items)
    BY <1>10, PeersGiven
  <2>2. fg' \in Turn
    BY <2>1, NewTurnType DEF Agents
  <2> QED
    BY <1>10, <2>2 DEF StartPeers, LoopAt, TurnTyped
<1>11. ASSUME StartReady PROVE TurnTyped'
  <2>1. Head(ready) \in Claims
    BY <1>11, HeadTailProperties DEF StartReady, TypeOK
  <2>2. Head(ready).ids \in SUBSET Inputs /\ Head(ready).to \in Agents
        /\ Head(ready).items \in Seq(Items)
    BY <2>1 DEF Claims
  <2>3. fg' \in Turn
    BY <1>11, <2>2, NewTurnType DEF StartReady
  <2> QED
    BY <1>11, <2>3 DEF StartReady, LoopAt, TurnTyped
<1>12. ASSUME Claimed PROVE TurnTyped'
  <2>1. PICK items \in Seq(Items) : fg' = NewTurn(lock.ids, lock.to, items)
    BY <1>12, OldestGiven
  <2>2. lock.ids \in SUBSET Inputs /\ lock.to \in Agents
    BY DEF TypeOK, InputTyped, Holding, Free, Agents
  <2>3. fg' \in Turn
    BY <2>1, <2>2, NewTurnType
  <2> QED
    BY <1>12, <2>3 DEF Claimed, LoopAt, TurnTyped
<1>13. ASSUME Wake PROVE TurnTyped'
  <2>1. NoTurn \in Turn
    BY DEF NoTurn, Turn, Agents
  <2> QED
    BY <1>13, <2>1 DEF Wake, TurnTyped
<1>14. ASSUME NothingForInterrupt PROVE TurnTyped'
  <2>1. fg' \in Turn
    BY <1>14, TurnHalts DEF TurnTyped
  <2> QED
    BY <1>14, <2>1 DEF TurnTyped, NothingForInterrupt, Apply
<1>15. ASSUME ClaimedAll PROVE TurnTyped'
  <2>1. fg' \in Turn
    BY <1>15, TurnHalts DEF TurnTyped
  <2> QED
    BY <1>15, <2>1 DEF TurnTyped, ClaimedAll, Apply
<1>16. ASSUME Forward PROVE TurnTyped'
  <2>1. TurnAt("ended")
    BY <1>16 DEF Forward
  <2>2. fg' \in Turn
    BY <2>1, TurnAtMoves DEF TurnTyped, TurnPlaces
  <2> QED
    BY <1>16, <2>2 DEF Forward, TurnTyped
<1>17. ASSUME StartTurn PROVE TurnTyped'
  <2>1. fg' = [fg EXCEPT !.at = "starting", !.turn = turns + 1] /\ turns' = turns + 1 /\ UNCHANGED early
    BY <1>17 DEF StartTurn, TurnOnly
  <2>2. fg' = [at |-> "starting", turn |-> turns + 1, ids |-> fg.ids, to |-> fg.to, items |-> fg.items,
  k |-> fg.k,
               place |-> fg.place, rounds |-> fg.rounds, cancel |-> fg.cancel]
    BY <2>1 DEF TurnTyped, Turn
  <2>3. turns + 1 \in Nat
    BY DEF TurnTyped
  <2>4. fg' \in Turn
    BY <2>2, <2>3 DEF TurnTyped, Turn
  <2> QED
    BY <2>1, <2>3, <2>4 DEF TurnTyped
<1>18. ASSUME StoreItems PROVE TurnTyped'
  <2>1. PICK k \in Nat \ {0} : PublishCommit(k)
    BY <1>18 DEF StoreItems, TurnTyped, Turn
  <2>2. fg' \in Turn
    BY <2>1, PublishMoves DEF TurnTyped, HubTyped, TypeOK
  <2> QED
    BY <1>18, <2>2 DEF StoreItems, TurnTyped
<1>19. ASSUME ItemCommitted PROVE TurnTyped'
  <2>1. PICK k \in Nat \ {0} : PublishCommit(k)
    BY <1>19 DEF ItemCommitted, TurnTyped, Turn
  <2>2. fg' \in Turn
    BY <2>1, PublishMoves DEF TurnTyped, HubTyped, TypeOK
  <2> QED
    BY <1>19, <2>2 DEF ItemCommitted, TurnTyped
<1>20. ASSUME Mark PROVE TurnTyped'
  <2>1. TurnAt("marking")
    BY <1>20 DEF Mark
  <2>2. fg' \in Turn
    BY <2>1, TurnAtMoves DEF TurnTyped, TurnPlaces
  <2> QED
    BY <1>20, <2>2 DEF Mark, TurnTyped
<1>21. ASSUME Marked PROVE TurnTyped'
  <2>1. TurnAt("closing") \/ TurnAt("model")
    BY <1>21 DEF Marked
  <2>2. fg' \in Turn
    BY <2>1, TurnAtMoves DEF TurnTyped, TurnPlaces
  <2> QED
    BY <1>21, <2>2 DEF Marked, TurnTyped
<1>22. ASSUME CallTools PROVE TurnTyped'
  <2>1. fg' = [fg EXCEPT !.at = "tools", !.rounds = fg.rounds + 1, !.cancel = Pending # {}
        \/ Arrived # {}]
    BY <1>22 DEF CallTools
  <2>2. fg' = [at |-> "tools", turn |-> fg.turn, ids |-> fg.ids, to |-> fg.to, items |-> fg.items,
  k |-> fg.k,
               place |-> fg.place, rounds |-> fg.rounds + 1, cancel |-> (Pending # {} \/ Arrived # {})]
    BY <2>1 DEF TurnTyped, Turn
  <2>3. (Pending # {} \/ Arrived # {}) \in BOOLEAN /\ fg.rounds + 1 \in Nat
    BY DEF TurnTyped, Turn
  <2>4. fg' \in Turn
    BY <2>2, <2>3, Zenon DEF TurnTyped, Turn
  <2> QED
    BY <1>22, <2>4 DEF CallTools, TurnTyped
<1>23. ASSUME ToolsDone PROVE TurnTyped'
  <2>1. fg' = [fg EXCEPT !.at = "boundary", !.place = given]
    BY <1>23 DEF ToolsDone
  <2>2. fg' \in Turn
    BY <2>1 DEF TurnTyped, Turn, HubTyped, TypeOK
  <2> QED
    BY <1>23, <2>2 DEF ToolsDone, TurnTyped
<1>24. ASSUME BoundaryPassed PROVE TurnTyped'
  <2>1. TurnAt("hook")
    BY <1>24 DEF BoundaryPassed
  <2>2. fg' \in Turn
    BY <2>1, TurnAtMoves DEF TurnTyped, TurnPlaces
  <2> QED
    BY <1>24, <2>2 DEF BoundaryPassed, TurnTyped
<1>25. ASSUME Proceed PROVE TurnTyped'
  <2>1. TurnAt("closing") \/ TurnAt("model")
    BY <1>25 DEF Proceed
  <2>2. fg' \in Turn
    BY <2>1, TurnAtMoves DEF TurnTyped, TurnPlaces
  <2> QED
    BY <1>25, <2>2 DEF Proceed, TurnTyped
<1>26. ASSUME Answer PROVE TurnTyped'
  <2>1. TurnAt("closing")
    BY <1>26 DEF Answer
  <2>2. fg' \in Turn
    BY <2>1, TurnAtMoves DEF TurnTyped, TurnPlaces
  <2> QED
    BY <1>26, <2>2 DEF Answer, TurnTyped
<1>27. ASSUME CancelTurn PROVE TurnTyped'
  <2>1. TurnAt("closing") \/ TurnAt("ended")
    BY <1>27 DEF CancelTurn
  <2>2. fg' \in Turn
    BY <2>1, TurnAtMoves DEF TurnTyped, TurnPlaces
  <2>3. fg.ids \subseteq Inputs
    BY DEF TurnTyped, Turn
  <2> QED
    BY <1>27, <2>2, <2>3 DEF CancelTurn, TurnTyped
<1>28. ASSUME EndTurn PROVE TurnTyped'
  <2>1. TurnAt("ended")
    BY <1>28 DEF EndTurn
  <2>2. fg' \in Turn
    BY <2>1, TurnAtMoves DEF TurnTyped, TurnPlaces
  <2> QED
    BY <1>28, <2>2 DEF EndTurn, TurnTyped
<1>29. ChildStore \/ ChildMark \/ ChildMarked =>
        UNCHANGED <<fg, turns, early>>
  BY DEF ChildStore, ChildMark, ChildMarked, ChildOnly, inputVars, promptVars, arrivals,
         loopVars, turnVars
<1>30. Enter \/ Up \/ ChildStops \/ (\E p \in Peers : Arrive(p)) =>
        UNCHANGED <<fg, turns, early>>
  BY DEF Enter, Up, ChildStops, Arrive, Outside, inputVars, arrivals, loopVars, turnVars,
         RecallAt, ChildOnly, promptVars, Comes
<1>31. ASSUME Escape PROVE TurnTyped'
  <2>1. fg' \in Turn
    BY <1>31, TurnHalts DEF TurnTyped
  <2> QED
    BY <1>31, <2>1 DEF TurnTyped, Escape, StopOn
<1>32. ASSUME Stop PROVE TurnTyped'
  <2>1. fg' \in Turn
    BY <1>32, TurnHalts DEF TurnTyped
  <2> QED
    BY <1>32, <2>1 DEF TurnTyped, Stop, StopOn, turnVars
<1>33. UNCHANGED vars => UNCHANGED <<fg, turns, early>>
  BY DEF vars, inputVars, promptVars, arrivals, loopVars, turnVars
<1> QED
  BY <1>1, <1>2, <1>3, <1>4, <1>5, <1>6, <1>7, <1>8, <1>9, <1>10, <1>11, <1>12, <1>13, <1>14,
     <1>15, <1>16, <1>17, <1>18, <1>19, <1>20, <1>21, <1>22, <1>23, <1>24, <1>25, <1>26, <1>27,
     <1>28, <1>29, <1>30, <1>31, <1>32, <1>33
     DEF Next, Prompt, RecallStep, ArrivalStep, LoopStep, TurnStep, ChildStep, FromOutside, Rest

\* The conversation has inputs, messages, notices and answers.
LEMMA ConvTypeKept ==
  ASSUME TypeOK, conv \in Seq(Items), EditorInv, PlacesInv, CarriersInv, [Next]_vars
  PROVE  conv' \in Seq(Items)
<1>1. UNCHANGED <<conv>> => conv' \in Seq(Items)
  BY DEF TypeOK
<1>2. HubStep => UNCHANGED <<conv>>
  BY DEF HubStep, HubOnly, inputVars, promptVars, arrivals, loopVars, turnVars
<1>3. SubmitCommand \/ Retain \/ Retained \/ Admit \/ Admitted =>
        UNCHANGED <<conv>>
  BY DEF SubmitCommand, Retain, Retained, Admit, Admitted, EditorAt, inputVars, turnVars,
         arrivals, loopVars
<1>4. Recall \/ NothingToRecall \/ Recalled =>
        UNCHANGED <<conv>>
  BY DEF Recall, NothingToRecall, Recalled, RecallAt, inputVars, arrivals, loopVars, turnVars
<1>5. (\E x \in Escapes : RequestInterrupt(x)) \/ (\E x \in Escapes : QueueInterrupt(x))
        \/ (\E p \in Peers : QueueIncoming(p)) \/ (\E p \in Peers : TakeIncoming(p)) =>
        UNCHANGED <<conv>>
  BY DEF RequestInterrupt, QueueInterrupt, QueueIncoming, TakeIncoming, Comes, inputVars,
         promptVars, loopVars, turnVars, StopOn
<1>6. RunCommand \/ CommandRun \/ StartPeers \/ StartReady \/ ClaimOldest \/ NothingToClaim
        \/ Claim \/ Claimed \/ ClaimedTooLate \/ Await \/ Wake \/ Accept \/ NothingForInterrupt
        \/ ClaimAll \/ ClaimedAll \/ Finalize \/ Context \/ Submitted \/ Break \/ Record
        \/ Stopped =>
        UNCHANGED <<conv>>
  BY DEF RunCommand, CommandRun, StartPeers, StartReady, ClaimOldest, NothingToClaim, Claim,
         Claimed, ClaimedTooLate, Await, Wake, Accept, NothingForInterrupt, ClaimAll, ClaimedAll,
         Finalize, Context, Submitted, Break, Record, Stopped, LoopAt, inputVars, Open,
         promptVars, arrivals, turnVars, Apply
<1>7. ASSUME Barrier PROVE conv' \in Seq(Items)
  <2>1. PICK items \in Seq(Items) : conv' = conv \o items \/ conv' = conv
    BY <1>7, BarrierGives
  <2> QED
    BY <2>1, ConcatProperties
<1>8. Forward \/ StartTurn \/ ItemCommitted \/ Mark \/ Marked \/ CallTools \/ ToolsDone
        \/ BoundaryPassed \/ Proceed \/ Answer \/ CancelTurn =>
        UNCHANGED <<conv>>
  BY DEF Forward, StartTurn, ItemCommitted, Mark, Marked, CallTools, ToolsDone, BoundaryPassed,
         Proceed, Answer, CancelTurn, TurnAt, inputVars, TurnOnly, promptVars, arrivals,
         loopVars
<1>9. ASSUME StoreItems PROVE conv' \in Seq(Items)
  <2>1. fg.items \in Seq(Items) /\ conv' = conv \o fg.items
    BY <1>9 DEF StoreItems, TypeOK, TurnTyped, Turn
  <2> QED
    BY <2>1, ConcatProperties
<1>10. ASSUME EndTurn PROVE conv' \in Seq(Items)
  <2>1. fg.turn \in Nat /\ conv' = Append(conv, <<"turn", fg.turn>>)
    BY <1>10 DEF EndTurn, TypeOK, TurnTyped, Turn
  <2>2. <<"turn", fg.turn>> \in Items
    BY <2>1 DEF Items
  <2> QED
    BY <2>1, <2>2, AppendProperties
<1>11. ChildStore \/ ChildMark \/ ChildMarked =>
        UNCHANGED <<conv>>
  BY DEF ChildStore, ChildMark, ChildMarked, ChildOnly, inputVars, promptVars, arrivals,
         loopVars, turnVars
<1>12. Enter \/ Up \/ Escape \/ Stop \/ ChildStops \/ (\E p \in Peers : Arrive(p)) =>
        UNCHANGED <<conv>>
  BY DEF Enter, Up, Escape, Stop, ChildStops, Arrive, Outside, inputVars, arrivals, loopVars,
         turnVars, RecallAt, StopOn, promptVars, ChildOnly, Comes
<1>13. UNCHANGED vars => UNCHANGED <<conv>>
  BY DEF vars, inputVars, promptVars, arrivals, loopVars, turnVars
<1> QED
  BY <1>1, <1>2, <1>3, <1>4, <1>5, <1>6, <1>7, <1>8, <1>9, <1>10, <1>11, <1>12, <1>13
     DEF Next, Prompt, RecallStep, ArrivalStep, LoopStep, TurnStep, ChildStep, FromOutside, Rest

\* What waits for a background agent are inputs.
LEMMA ChildTypeKept ==
  ASSUME TypeOK, child \in Child, LockInv, [Next]_vars
  PROVE  child' \in Child
<1>1. UNCHANGED <<child>> => child' \in Child
  BY DEF TypeOK
<1>2. HubStep => UNCHANGED <<child>>
  BY DEF HubStep, HubOnly, inputVars, promptVars, arrivals, loopVars, turnVars
<1>3. SubmitCommand \/ Retain \/ Retained \/ Admit \/ Admitted =>
        UNCHANGED <<child>>
  BY DEF SubmitCommand, Retain, Retained, Admit, Admitted, EditorAt, inputVars, turnVars,
         arrivals, loopVars
<1>4. Recall \/ NothingToRecall \/ Recalled =>
        UNCHANGED <<child>>
  BY DEF Recall, NothingToRecall, Recalled, RecallAt, inputVars, arrivals, loopVars, turnVars
<1>5. (\E x \in Escapes : RequestInterrupt(x)) \/ (\E x \in Escapes : QueueInterrupt(x))
        \/ (\E p \in Peers : QueueIncoming(p)) \/ (\E p \in Peers : TakeIncoming(p)) =>
        UNCHANGED <<child>>
  BY DEF RequestInterrupt, QueueInterrupt, QueueIncoming, TakeIncoming, Comes, inputVars,
         promptVars, loopVars, turnVars, StopOn
<1>6. RunCommand \/ CommandRun \/ StartPeers \/ StartReady \/ ClaimOldest \/ NothingToClaim
        \/ Claim \/ Claimed \/ ClaimedTooLate \/ Await \/ Wake \/ Accept \/ NothingForInterrupt
        \/ ClaimAll \/ ClaimedAll \/ Finalize \/ Barrier \/ Context \/ Submitted \/ Break
        \/ Record \/ Stopped =>
        UNCHANGED <<child>>
  BY DEF RunCommand, CommandRun, StartPeers, StartReady, ClaimOldest, NothingToClaim, Claim,
         Claimed, ClaimedTooLate, Await, Wake, Accept, NothingForInterrupt, ClaimAll, ClaimedAll,
         Finalize, Barrier, Context, Submitted, Break, Record, Stopped, LoopAt, inputVars, Open,
         promptVars, arrivals, turnVars, Apply
<1>7. StartTurn \/ StoreItems \/ ItemCommitted \/ Mark \/ Marked \/ CallTools \/ ToolsDone
        \/ BoundaryPassed \/ Proceed \/ Answer \/ CancelTurn \/ EndTurn =>
        UNCHANGED <<child>>
  BY DEF StartTurn, StoreItems, ItemCommitted, Mark, Marked, CallTools, ToolsDone,
         BoundaryPassed, Proceed, Answer, CancelTurn, EndTurn, TurnOnly, inputVars, TurnAt,
         promptVars, arrivals, loopVars
<1>8. ASSUME Forward PROVE child' \in Child
  <2>1. fg.ids \in SUBSET Inputs /\ child.queue \in Seq(SUBSET Inputs)
        /\ child.at \in {"idle", "mark", "marking", "gone"}
    BY DEF TypeOK, TurnTyped, Turn, Child
  <2>2. Append(child.queue, fg.ids) \in Seq(SUBSET Inputs)
    BY <2>1, AppendProperties
  <2>3. child' = child \/ child' = [child EXCEPT !.queue = Append(child.queue, fg.ids)]
    BY <1>8 DEF Forward
  <2> QED
    BY <2>2, <2>3 DEF Child
<1>9. ASSUME ChildStore PROVE child' \in Child
  BY <1>9 DEF ChildStore, ChildOnly, inputVars, promptVars, arrivals, loopVars, turnVars, Child,
         TypeOK
<1>10. ASSUME ChildMark PROVE child' \in Child
  BY <1>10 DEF ChildMark, ChildOnly, promptVars, arrivals, loopVars, turnVars, Child, TypeOK
<1>11. ASSUME ChildMarked PROVE child' \in Child
  <2>1. child.queue # << >> /\ child' = [at |-> "idle", queue |-> Tail(child.queue)]
    BY <1>11 DEF ChildMarked, LockInv, ChildLock
  <2>2. Tail(child.queue) \in Seq(SUBSET Inputs)
    BY <2>1, HeadTailProperties DEF Child
  <2> QED
    BY <2>1, <2>2 DEF Child
<1>12. Enter \/ Up \/ Escape \/ Stop \/ (\E p \in Peers : Arrive(p)) =>
        UNCHANGED <<child>>
  BY DEF Enter, Up, Escape, Stop, Arrive, Outside, inputVars, arrivals, loopVars, turnVars,
         RecallAt, StopOn, promptVars, Comes
<1>13. ASSUME ChildStops PROVE child' \in Child
  BY <1>13 DEF ChildStops, Outside, ChildOnly, inputVars, Comes, promptVars, arrivals, loopVars,
         turnVars, Child, TypeOK
<1>14. UNCHANGED vars => UNCHANGED <<child>>
  BY DEF vars, inputVars, promptVars, arrivals, loopVars, turnVars
<1> QED
  BY <1>1, <1>2, <1>3, <1>4, <1>5, <1>6, <1>7, <1>8, <1>9, <1>10, <1>11, <1>12, <1>13, <1>14
     DEF Next, Prompt, RecallStep, ArrivalStep, LoopStep, TurnStep, ChildStep, FromOutside, Rest

-----------------------------------------------------------------------------
(* The lock.                                                               *)

\* Only what the loop was woken for brings it to the editor.
LEMMA PhaseOfInput ==
  ASSUME NEW done
  PROVE  NextPhase(done) = "input" => "input" \in done
  BY DEF NextPhase

\* The loop takes a submission only when the editor has closed with it.
LEMMA DoneKept ==
  ASSUME PromptTyped, main \in Loop, DoneInv, [Next]_vars
  PROVE  DoneInv'
<1>1. UNCHANGED <<editor, main>> => DoneInv'
  BY DEF DoneInv
<1>2. HubStep => UNCHANGED <<editor, main>>
  BY DEF HubStep, HubOnly, inputVars, promptVars, arrivals, loopVars, turnVars
<1>3. ASSUME SubmitCommand PROVE DoneInv'
  BY <1>3 DEF SubmitCommand, EditorAt, inputVars, turnVars, arrivals, loopVars, PromptTyped, Editor,
         DoneInv
<1>4. ASSUME Retain PROVE DoneInv'
  BY <1>4 DEF Retain, inputVars, arrivals, loopVars, turnVars, PromptTyped, Editor, DoneInv
<1>5. ASSUME Retained PROVE DoneInv'
  BY <1>5 DEF Retained, EditorAt, inputVars, turnVars, arrivals, loopVars, PromptTyped, Editor,
         DoneInv
<1>6. ASSUME Admit PROVE DoneInv'
  BY <1>6 DEF Admit, EditorAt, turnVars, arrivals, loopVars, PromptTyped, Editor, DoneInv
<1>7. ASSUME Admitted PROVE DoneInv'
  BY <1>7 DEF Admitted, EditorAt, arrivals, loopVars, PromptTyped, Editor, DoneInv
<1>8. Recall \/ NothingToRecall \/ Recalled =>
        UNCHANGED <<editor, main>>
  BY DEF Recall, NothingToRecall, Recalled, RecallAt, inputVars, arrivals, loopVars, turnVars
<1>9. (\E x \in Escapes : RequestInterrupt(x)) \/ (\E x \in Escapes : QueueInterrupt(x))
        \/ (\E p \in Peers : QueueIncoming(p)) \/ (\E p \in Peers : TakeIncoming(p)) =>
        UNCHANGED <<editor, main>>
  BY DEF RequestInterrupt, QueueInterrupt, QueueIncoming, TakeIncoming, Comes, inputVars,
         promptVars, loopVars, turnVars, StopOn
<1>10. ASSUME RunCommand PROVE DoneInv'
  <2>1. main'.at \in {"command"}
    BY <1>10, LoopAtType DEF RunCommand, LoopPlaces
  <2> QED
    BY <2>1 DEF DoneInv, Awake
<1>11. ASSUME CommandRun PROVE DoneInv'
  <2>1. main'.at \in {"top", "stopping"}
    BY <1>11, LoopAtType DEF CommandRun, LoopPlaces
  <2> QED
    BY <2>1 DEF DoneInv, Awake
<1>12. ASSUME StartPeers PROVE DoneInv'
  <2>1. main'.at \in {"top"}
    BY <1>12, LoopAtType DEF StartPeers, LoopPlaces
  <2> QED
    BY <2>1 DEF DoneInv, Awake
<1>13. ASSUME StartReady PROVE DoneInv'
  <2>1. main'.at \in {"top"}
    BY <1>13, LoopAtType DEF StartReady, LoopPlaces
  <2> QED
    BY <2>1 DEF DoneInv, Awake
<1>14. ASSUME ClaimOldest PROVE DoneInv'
  <2>1. main'.at \in {"claim"}
    BY <1>14, LoopAtType DEF ClaimOldest, LoopPlaces
  <2> QED
    BY <2>1 DEF DoneInv, Awake
<1>15. ASSUME NothingToClaim PROVE DoneInv'
  <2>1. main'.at \in {"wait"}
    BY <1>15, LoopAtType DEF NothingToClaim, LoopPlaces, Open
  <2> QED
    BY <2>1 DEF DoneInv, Awake
<1>16. ASSUME Claim PROVE DoneInv'
  <2>1. main'.at \in {"claiming"}
    BY <1>16, LoopAtType DEF Claim, LoopPlaces
  <2> QED
    BY <2>1 DEF DoneInv, Awake
<1>17. ASSUME Claimed PROVE DoneInv'
  <2>1. main'.at \in {"top"}
    BY <1>17, LoopAtType DEF Claimed, LoopPlaces
  <2> QED
    BY <2>1 DEF DoneInv, Awake
<1>18. ASSUME ClaimedTooLate PROVE DoneInv'
  <2>1. main'.at \in {"wait"}
    BY <1>18, LoopAtType DEF ClaimedTooLate, LoopPlaces, Open
  <2> QED
    BY <2>1 DEF DoneInv, Awake
<1>19. ASSUME Await PROVE DoneInv'
  <2>1. main'.at \in {"wait"}
    BY <1>19, LoopAtType DEF Await, LoopPlaces, Open
  <2> QED
    BY <2>1 DEF DoneInv, Awake
<1>20. ASSUME Wake PROVE DoneInv'
  <2>1. UNCHANGED editor /\ main'.done = Done /\ main'.at \in {"finalize", NextPhase(Done)}
    BY <1>20 DEF Wake, Loop, promptVars
  <2>2. "input" \in Done => editor.at = "done"
    BY DEF Done
  <2> QED
    BY <2>1, <2>2, PhaseOfInput DEF DoneInv
<1>21. ASSUME Accept PROVE DoneInv'
  <2>1. UNCHANGED editor /\ main'.done = main.done \ {"interrupt"}
        /\ main'.at \in {"claimAll", NextPhase(main.done \ {"interrupt"})} /\ main.at = "accept"
    BY <1>21 DEF Accept, Loop, promptVars
  <2>2. "input" \in main.done \ {"interrupt"} => editor.at = "done"
    BY <2>1 DEF DoneInv, Awake
  <2> HIDE DEF DoneInv
  <2> QED
    BY <2>1, <2>2, PhaseOfInput DEF DoneInv
<1>22. ASSUME NothingForInterrupt PROVE DoneInv'
  <2>1. UNCHANGED editor /\ main'.done = main.done /\ main'.at \in {"finalize", NextPhase(main.done)}
        /\ main.at = "claimAll"
    BY <1>22 DEF NothingForInterrupt, Apply, Loop, promptVars
  <2>2. "input" \in main.done => editor.at = "done"
    BY <2>1 DEF DoneInv, Awake
  <2> QED
    BY <2>1, <2>2, PhaseOfInput DEF DoneInv
<1>23. ASSUME ClaimAll PROVE DoneInv'
  <2>1. main.at = "claimAll" /\ main' = [main EXCEPT !.at = "claimingAll"] /\ UNCHANGED editor
    BY <1>23 DEF ClaimAll, LoopAt
  <2> QED
    BY <2>1 DEF DoneInv, Awake, Loop
<1>24. ASSUME ClaimedAll PROVE DoneInv'
  <2>1. UNCHANGED editor /\ main'.done = main.done /\ main'.at \in {"finalize", NextPhase(main.done)}
        /\ main.at = "claimingAll"
    BY <1>24 DEF ClaimedAll, Apply, Loop, promptVars
  <2>2. "input" \in main.done => editor.at = "done"
    BY <2>1 DEF DoneInv, Awake
  <2> QED
    BY <2>1, <2>2, PhaseOfInput DEF DoneInv
<1>25. ASSUME Finalize PROVE DoneInv'
  <2>1. main.at = "finalize" /\ main'.at = "barrier" /\ main'.done = main.done /\ UNCHANGED editor
    BY <1>25 DEF Finalize, Loop, promptVars
  <2> QED
    BY <2>1 DEF DoneInv, Awake
<1>26. ASSUME Barrier PROVE DoneInv'
  <2>1. UNCHANGED editor /\ main'.done = main.done
        /\ main'.at \in {"context", "finalize", NextPhase(main.done)}
        /\ main.at = "barrier"
    BY <1>26 DEF Barrier, Loop, promptVars
  <2>2. "input" \in main.done => editor.at = "done"
    BY <2>1 DEF DoneInv, Awake
  <2> QED
    BY <2>1, <2>2, PhaseOfInput DEF DoneInv
<1>27. ASSUME Context PROVE DoneInv'
  <2>1. UNCHANGED editor /\ LoopAt(NextPhase(main.done)) /\ main.at = "context"
    BY <1>27 DEF Context
  <2>2. "input" \in main.done => editor.at = "done"
    BY <2>1 DEF DoneInv, Awake
  <2>3. NextPhase(main.done) \in LoopPlaces
    BY NextPhaseType DEF LoopPlaces
  <2>4. main'.at = NextPhase(main.done) /\ (main'.at = "accept" => main'.done = main.done)
    BY <2>1, <2>3, LoopAtType DEF LoopAt, Loop
  <2>5. NextPhase(main.done) \in {"accept", "input", "top"}
    BY NextPhaseType
  <2> QED
    BY <2>1, <2>2, <2>4, <2>5, PhaseOfInput DEF DoneInv, Awake
<1>28. ASSUME Submitted PROVE DoneInv'
  <2>1. main'.at \in {"command", "top"}
    BY <1>28, LoopAtType DEF Submitted, LoopPlaces
  <2> QED
    BY <2>1 DEF DoneInv, Awake
<1>29. ASSUME Break PROVE DoneInv'
  <2>1. main'.at \in {"stopping"}
    BY <1>29, LoopAtType DEF Break, LoopPlaces
  <2> QED
    BY <2>1 DEF DoneInv, Awake
<1>30. ASSUME Record PROVE DoneInv'
  <2>1. main'.at = "recording"
    BY <1>30 DEF Record, Loop
  <2> QED
    BY <2>1 DEF DoneInv, Awake
<1>31. ASSUME Stopped PROVE DoneInv'
  <2>1. main'.at \in {"stopped"}
    BY <1>31, LoopAtType DEF Stopped, LoopPlaces
  <2> QED
    BY <2>1 DEF DoneInv, Awake
<1>32. Forward \/ StartTurn \/ StoreItems \/ ItemCommitted \/ Mark \/ Marked \/ CallTools
        \/ ToolsDone \/ BoundaryPassed \/ Proceed \/ Answer \/ CancelTurn \/ EndTurn =>
        UNCHANGED <<editor, main>>
  BY DEF Forward, StartTurn, StoreItems, ItemCommitted, Mark, Marked, CallTools, ToolsDone,
         BoundaryPassed, Proceed, Answer, CancelTurn, EndTurn, TurnAt, inputVars, TurnOnly,
         promptVars, arrivals, loopVars
<1>33. ChildStore \/ ChildMark \/ ChildMarked =>
        UNCHANGED <<editor, main>>
  BY DEF ChildStore, ChildMark, ChildMarked, ChildOnly, inputVars, promptVars, arrivals,
         loopVars, turnVars
<1>34. Up \/ Escape \/ ChildStops \/ (\E p \in Peers : Arrive(p)) =>
        UNCHANGED <<editor, main>>
  BY DEF Up, Escape, ChildStops, Arrive, Outside, RecallAt, inputVars, StopOn, promptVars,
         loopVars, ChildOnly, turnVars, Comes, arrivals
<1>35. ASSUME Enter PROVE DoneInv'
  BY <1>35 DEF Enter, Outside, inputVars, arrivals, loopVars, turnVars, Comes, PromptTyped, Editor,
         DoneInv
<1>36. ASSUME Stop PROVE DoneInv'
  BY <1>36 DEF Stop, Outside, turnVars, StopOn, inputVars, loopVars, Comes, PromptTyped, Editor,
         DoneInv
<1>37. UNCHANGED vars => UNCHANGED <<editor, main>>
  BY DEF vars, inputVars, promptVars, arrivals, loopVars, turnVars
<1> QED
  BY <1>1, <1>2, <1>3, <1>4, <1>5, <1>6, <1>7, <1>8, <1>9, <1>10, <1>11, <1>12, <1>13, <1>14,
     <1>15, <1>16, <1>17, <1>18, <1>19, <1>20, <1>21, <1>22, <1>23, <1>24, <1>25, <1>26, <1>27,
     <1>28, <1>29, <1>30, <1>31, <1>32, <1>33, <1>34, <1>35, <1>36, <1>37
     DEF Next, Prompt, RecallStep, ArrivalStep, LoopStep, TurnStep, ChildStep, FromOutside, Rest

\* An admission holds the lock until its input exists.
LEMMA EditorLockKept ==
  ASSUME PromptTyped, DoneInv, EditorLock, [Next]_vars
  PROVE  EditorLock'
<1>1. UNCHANGED <<lock, editor>> => EditorLock'
  BY DEF EditorLock
<1>2. HubStep => UNCHANGED <<lock, editor>>
  BY DEF HubStep, HubOnly, inputVars, promptVars, arrivals, loopVars, turnVars
<1>3. ASSUME SubmitCommand PROVE EditorLock'
  BY <1>3 DEF SubmitCommand, EditorAt, inputVars, turnVars, arrivals, loopVars, PromptTyped, Editor,
         EditorLock
<1>4. ASSUME Retain PROVE EditorLock'
  BY <1>4 DEF Retain, inputVars, arrivals, loopVars, turnVars, PromptTyped, Editor, EditorLock
<1>5. ASSUME Retained PROVE EditorLock'
  BY <1>5 DEF Retained, EditorAt, inputVars, turnVars, arrivals, loopVars, PromptTyped, Editor,
         EditorLock
<1>6. ASSUME Admit PROVE EditorLock'
  BY <1>6, InputActions DEF Admit, EditorAt, turnVars, arrivals, loopVars, Begins, Transition, Free,
     PromptTyped,
         Editor, EditorLock
<1>7. ASSUME Admitted PROVE EditorLock'
  BY <1>7, InputActions DEF Admitted, EditorAt, arrivals, loopVars, Commits, Free, PromptTyped, Editor,
     EditorLock
<1>8. NothingToRecall =>
        UNCHANGED <<lock, editor>>
  BY DEF NothingToRecall, RecallAt, inputVars, arrivals, loopVars, turnVars
<1>9. ASSUME Recall PROVE EditorLock'
  <2>1. lock = Free /\ lock'.by = "recall"
    BY <1>9, InputActions DEF Begins, Transition
  <2>2. UNCHANGED editor
    BY <1>9 DEF Recall, RecallAt, arrivals, loopVars, turnVars
  <2> QED
    BY <2>1, <2>2 DEF EditorLock, Free
<1>10. ASSUME Recalled PROVE EditorLock'
  <2>1. lock.by = "recall" /\ lock' = Free
    BY <1>10, InputActions DEF Commits
  <2>2. UNCHANGED editor
    BY <1>10 DEF Recalled, RecallAt, arrivals, loopVars, turnVars
  <2> QED
    BY <2>1, <2>2 DEF EditorLock, Free
<1>11. (\E x \in Escapes : RequestInterrupt(x)) \/ (\E x \in Escapes : QueueInterrupt(x))
        \/ (\E p \in Peers : QueueIncoming(p)) \/ (\E p \in Peers : TakeIncoming(p)) =>
        UNCHANGED <<lock, editor>>
  BY DEF RequestInterrupt, QueueInterrupt, QueueIncoming, TakeIncoming, Comes, inputVars,
         promptVars, loopVars, turnVars, StopOn
<1>12. RunCommand \/ CommandRun \/ StartPeers \/ StartReady \/ ClaimOldest \/ Wake \/ Accept
        \/ NothingForInterrupt \/ Finalize \/ Barrier \/ Context \/ Break \/ Record \/ Stopped =>
        UNCHANGED <<lock, editor>>
  BY DEF RunCommand, CommandRun, StartPeers, StartReady, ClaimOldest, Wake, Accept,
         NothingForInterrupt, Finalize, Barrier, Context, Break, Record, Stopped, LoopAt,
         inputVars, promptVars, arrivals, turnVars, Apply
<1>13. ASSUME NothingToClaim PROVE EditorLock'
  BY <1>13 DEF NothingToClaim, Open, inputVars, LoopAt, Unlocked, Free, PromptTyped, Editor,
         EditorLock
<1>14. ASSUME Claim PROVE EditorLock'
  <2>1. lock = Free /\ lock'.by = "loop"
    BY <1>14, InputActions DEF Begins, Transition
  <2>2. UNCHANGED editor
    BY <1>14 DEF Claim, LoopAt
  <2> QED
    BY <2>1, <2>2 DEF EditorLock, Free
<1>15. ASSUME Claimed PROVE EditorLock'
  <2>1. lock.by = "loop" /\ lock' = Free
    BY <1>15, InputActions DEF Commits
  <2>2. UNCHANGED editor
    BY <1>15 DEF Claimed, LoopAt
  <2> QED
    BY <2>1, <2>2 DEF EditorLock, Free
<1>16. ASSUME ClaimedTooLate PROVE EditorLock'
  BY <1>16, InputActions DEF ClaimedTooLate, Open, LoopAt, Commits, Free, PromptTyped, Editor, EditorLock
<1>17. ASSUME Await PROVE EditorLock'
  BY <1>17 DEF Await, Open, inputVars, LoopAt, PromptTyped, Editor, EditorLock
<1>18. ASSUME ClaimAll PROVE EditorLock'
  <2>1. lock = Free /\ lock'.by = "loop"
    BY <1>18, InputActions DEF Begins, Transition
  <2>2. UNCHANGED editor
    BY <1>18 DEF ClaimAll, LoopAt
  <2> QED
    BY <2>1, <2>2 DEF EditorLock, Free
<1>19. ASSUME ClaimedAll PROVE EditorLock'
  <2>1. lock.by = "loop" /\ lock' = Free
    BY <1>19, InputActions DEF Commits
  <2>2. UNCHANGED editor
    BY <1>19 DEF ClaimedAll, Apply, promptVars, arrivals
  <2> QED
    BY <2>1, <2>2 DEF EditorLock, Free
<1>20. ASSUME Submitted PROVE EditorLock'
  BY <1>20 DEF Submitted, LoopAt, inputVars, Closed, DoneInv, PromptTyped, Editor, EditorLock
<1>21. Forward \/ StartTurn \/ StoreItems \/ ItemCommitted \/ CallTools \/ ToolsDone
        \/ BoundaryPassed \/ Proceed \/ Answer \/ CancelTurn \/ EndTurn =>
        UNCHANGED <<lock, editor>>
  BY DEF Forward, StartTurn, StoreItems, ItemCommitted, CallTools, ToolsDone, BoundaryPassed,
         Proceed, Answer, CancelTurn, EndTurn, TurnAt, inputVars, TurnOnly, promptVars, arrivals,
         loopVars
<1>22. ASSUME Mark PROVE EditorLock'
  <2>1. lock = Free /\ lock'.by = "turn"
    BY <1>22, InputActions DEF Begins, Transition
  <2>2. UNCHANGED editor
    BY <1>22 DEF Mark, TurnAt, TurnOnly, promptVars, arrivals, loopVars
  <2> QED
    BY <2>1, <2>2 DEF EditorLock, Free
<1>23. ASSUME Marked PROVE EditorLock'
  <2>1. lock.by = "turn" /\ lock' = Free
    BY <1>23, InputActions DEF Commits
  <2>2. UNCHANGED editor
    BY <1>23 DEF Marked, TurnAt, TurnOnly, promptVars, arrivals, loopVars
  <2> QED
    BY <2>1, <2>2 DEF EditorLock, Free
<1>24. ChildStore =>
        UNCHANGED <<lock, editor>>
  BY DEF ChildStore, ChildOnly, inputVars, promptVars, arrivals, loopVars, turnVars
<1>25. ASSUME ChildMark PROVE EditorLock'
  <2>1. lock = Free /\ lock'.by = "child"
    BY <1>25, InputActions DEF Begins, Transition
  <2>2. UNCHANGED editor
    BY <1>25 DEF ChildMark, ChildOnly, promptVars, arrivals, loopVars, turnVars
  <2> QED
    BY <2>1, <2>2 DEF EditorLock, Free
<1>26. ASSUME ChildMarked PROVE EditorLock'
  <2>1. lock.by = "child" /\ lock' = Free
    BY <1>26, InputActions DEF Commits
  <2>2. UNCHANGED editor
    BY <1>26 DEF ChildMarked, ChildOnly, promptVars, arrivals, loopVars, turnVars
  <2> QED
    BY <2>1, <2>2 DEF EditorLock, Free
<1>27. Up \/ Escape \/ ChildStops \/ (\E p \in Peers : Arrive(p)) =>
        UNCHANGED <<lock, editor>>
  BY DEF Up, Escape, ChildStops, Arrive, Outside, RecallAt, inputVars, StopOn, promptVars,
         loopVars, ChildOnly, turnVars, Comes, arrivals
<1>28. ASSUME Enter PROVE EditorLock'
  BY <1>28 DEF Enter, Outside, inputVars, arrivals, loopVars, turnVars, Comes, PromptTyped, Editor,
         EditorLock
<1>29. ASSUME Stop PROVE EditorLock'
  BY <1>29 DEF Stop, Outside, turnVars, StopOn, inputVars, loopVars, Comes, PromptTyped, Editor,
         EditorLock
<1>30. UNCHANGED vars => UNCHANGED <<lock, editor>>
  BY DEF vars, inputVars, promptVars, arrivals, loopVars, turnVars
<1> QED
  BY <1>1, <1>2, <1>3, <1>4, <1>5, <1>6, <1>7, <1>8, <1>9, <1>10, <1>11, <1>12, <1>13, <1>14,
     <1>15, <1>16, <1>17, <1>18, <1>19, <1>20, <1>21, <1>22, <1>23, <1>24, <1>25, <1>26, <1>27,
     <1>28, <1>29, <1>30
     DEF Next, Prompt, RecallStep, ArrivalStep, LoopStep, TurnStep, ChildStep, FromOutside, Rest

\* Recalling all that waits holds the lock until it is recalled.
LEMMA RecallLockKept ==
  ASSUME RecallLock, [Next]_vars
  PROVE  RecallLock'
<1>1. UNCHANGED <<lock, recall, entries>> => RecallLock'
  BY DEF RecallLock, Pending
<1>2. HubStep => UNCHANGED <<lock, recall, entries>>
  BY DEF HubStep, HubOnly, inputVars, promptVars, arrivals, loopVars, turnVars
<1>3. SubmitCommand \/ Retain \/ Retained =>
        UNCHANGED <<lock, recall, entries>>
  BY DEF SubmitCommand, Retain, Retained, EditorAt, inputVars, turnVars, arrivals, loopVars
<1>4. ASSUME Admit PROVE RecallLock'
  <2>1. lock = Free /\ lock'.by = "editor" /\ UNCHANGED entries
    BY <1>4, InputActions DEF Begins, Transition
  <2>2. UNCHANGED recall
    BY <1>4 DEF Admit, EditorAt, turnVars, arrivals, loopVars
  <2> QED
    BY <2>1, <2>2 DEF RecallLock, Free, Pending
<1>5. ASSUME Admitted PROVE RecallLock'
  <2>1. lock.by = "editor" /\ lock' = Free
    BY <1>5, InputActions DEF Commits
  <2>2. UNCHANGED recall
    BY <1>5 DEF Admitted, EditorAt, arrivals, loopVars
  <2> QED
    BY <2>1, <2>2 DEF RecallLock, Free
<1>6. ASSUME Recall PROVE RecallLock'
  BY <1>6, InputActions DEF Recall, RecallAt, arrivals, loopVars, turnVars, Begins, Transition, Free,
     Pending,
         RecallLock
<1>7. ASSUME NothingToRecall PROVE RecallLock'
  BY <1>7 DEF NothingToRecall, RecallAt, inputVars, arrivals, loopVars, turnVars, Unlocked, Free,
         RecallLock, Pending
<1>8. ASSUME Recalled PROVE RecallLock'
  BY <1>8, InputActions DEF Recalled, RecallAt, arrivals, loopVars, turnVars, Commits, Free, RecallLock,
     Pending
<1>9. (\E x \in Escapes : RequestInterrupt(x)) \/ (\E x \in Escapes : QueueInterrupt(x))
        \/ (\E p \in Peers : QueueIncoming(p)) \/ (\E p \in Peers : TakeIncoming(p)) =>
        UNCHANGED <<lock, recall, entries>>
  BY DEF RequestInterrupt, QueueInterrupt, QueueIncoming, TakeIncoming, Comes, inputVars,
         promptVars, loopVars, turnVars, StopOn
<1>10. RunCommand \/ CommandRun \/ StartPeers \/ StartReady \/ ClaimOldest \/ NothingToClaim
        \/ Await \/ Wake \/ Accept \/ NothingForInterrupt \/ Finalize \/ Barrier \/ Context
        \/ Submitted \/ Break \/ Record \/ Stopped =>
        UNCHANGED <<lock, recall, entries>>
  BY DEF RunCommand, CommandRun, StartPeers, StartReady, ClaimOldest, NothingToClaim, Await,
         Wake, Accept, NothingForInterrupt, Finalize, Barrier, Context, Submitted, Break, Record,
         Stopped, LoopAt, inputVars, Open, promptVars, arrivals, turnVars, Apply
<1>11. ASSUME Claim PROVE RecallLock'
  <2>1. lock = Free /\ lock'.by = "loop" /\ UNCHANGED entries
    BY <1>11, InputActions DEF Begins, Transition
  <2>2. UNCHANGED recall
    BY <1>11 DEF Claim, LoopAt
  <2> QED
    BY <2>1, <2>2 DEF RecallLock, Free, Pending
<1>12. ASSUME Claimed PROVE RecallLock'
  <2>1. lock.by = "loop" /\ lock' = Free
    BY <1>12, InputActions DEF Commits
  <2>2. UNCHANGED recall
    BY <1>12 DEF Claimed, LoopAt
  <2> QED
    BY <2>1, <2>2 DEF RecallLock, Free
<1>13. ASSUME ClaimedTooLate PROVE RecallLock'
  <2>1. lock.by = "loop" /\ lock' = Free
    BY <1>13, InputActions DEF Commits
  <2>2. UNCHANGED recall
    BY <1>13 DEF ClaimedTooLate, Open, LoopAt
  <2> QED
    BY <2>1, <2>2 DEF RecallLock, Free
<1>14. ASSUME ClaimAll PROVE RecallLock'
  <2>1. lock = Free /\ lock'.by = "loop" /\ UNCHANGED entries
    BY <1>14, InputActions DEF Begins, Transition
  <2>2. UNCHANGED recall
    BY <1>14 DEF ClaimAll, LoopAt
  <2> QED
    BY <2>1, <2>2 DEF RecallLock, Free, Pending
<1>15. ASSUME ClaimedAll PROVE RecallLock'
  <2>1. lock.by = "loop" /\ lock' = Free
    BY <1>15, InputActions DEF Commits
  <2>2. UNCHANGED recall
    BY <1>15 DEF ClaimedAll, Apply, promptVars, arrivals
  <2> QED
    BY <2>1, <2>2 DEF RecallLock, Free
<1>16. Forward \/ StartTurn \/ StoreItems \/ ItemCommitted \/ CallTools \/ ToolsDone
        \/ BoundaryPassed \/ Proceed \/ Answer \/ CancelTurn \/ EndTurn =>
        UNCHANGED <<lock, recall, entries>>
  BY DEF Forward, StartTurn, StoreItems, ItemCommitted, CallTools, ToolsDone, BoundaryPassed,
         Proceed, Answer, CancelTurn, EndTurn, TurnAt, inputVars, TurnOnly, promptVars, arrivals,
         loopVars
<1>17. ASSUME Mark PROVE RecallLock'
  <2>1. lock = Free /\ lock'.by = "turn" /\ UNCHANGED entries
    BY <1>17, InputActions DEF Begins, Transition
  <2>2. UNCHANGED recall
    BY <1>17 DEF Mark, TurnAt, TurnOnly, promptVars, arrivals, loopVars
  <2> QED
    BY <2>1, <2>2 DEF RecallLock, Free, Pending
<1>18. ASSUME Marked PROVE RecallLock'
  <2>1. lock.by = "turn" /\ lock' = Free
    BY <1>18, InputActions DEF Commits
  <2>2. UNCHANGED recall
    BY <1>18 DEF Marked, TurnAt, TurnOnly, promptVars, arrivals, loopVars
  <2> QED
    BY <2>1, <2>2 DEF RecallLock, Free
<1>19. ChildStore =>
        UNCHANGED <<lock, recall, entries>>
  BY DEF ChildStore, ChildOnly, inputVars, promptVars, arrivals, loopVars, turnVars
<1>20. ASSUME ChildMark PROVE RecallLock'
  <2>1. lock = Free /\ lock'.by = "child" /\ UNCHANGED entries
    BY <1>20, InputActions DEF Begins, Transition
  <2>2. UNCHANGED recall
    BY <1>20 DEF ChildMark, ChildOnly, promptVars, arrivals, loopVars, turnVars
  <2> QED
    BY <2>1, <2>2 DEF RecallLock, Free, Pending
<1>21. ASSUME ChildMarked PROVE RecallLock'
  <2>1. lock.by = "child" /\ lock' = Free
    BY <1>21, InputActions DEF Commits
  <2>2. UNCHANGED recall
    BY <1>21 DEF ChildMarked, ChildOnly, promptVars, arrivals, loopVars, turnVars
  <2> QED
    BY <2>1, <2>2 DEF RecallLock, Free
<1>22. Enter \/ Escape \/ Stop \/ ChildStops \/ (\E p \in Peers : Arrive(p)) =>
        UNCHANGED <<lock, recall, entries>>
  BY DEF Enter, Escape, Stop, ChildStops, Arrive, Outside, inputVars, arrivals, loopVars,
         turnVars, StopOn, promptVars, ChildOnly, Comes
<1>23. ASSUME Up PROVE RecallLock'
  BY <1>23 DEF Up, Outside, RecallAt, inputVars, Comes, arrivals, loopVars, turnVars, RecallLock,
         Pending
<1>24. UNCHANGED vars => UNCHANGED <<lock, recall, entries>>
  BY DEF vars, inputVars, promptVars, arrivals, loopVars, turnVars
<1> QED
  BY <1>1, <1>2, <1>3, <1>4, <1>5, <1>6, <1>7, <1>8, <1>9, <1>10, <1>11, <1>12, <1>13, <1>14,
     <1>15, <1>16, <1>17, <1>18, <1>19, <1>20, <1>21, <1>22, <1>23, <1>24
     DEF Next, Prompt, RecallStep, ArrivalStep, LoopStep, TurnStep, ChildStep, FromOutside, Rest

\* A background agent holds it for what it was given first.
LEMMA ChildLockKept ==
  ASSUME child \in Child, TurnTyped, ChildLock, [Next]_vars
  PROVE  ChildLock'
<1>1. UNCHANGED <<lock, child>> => ChildLock'
  BY DEF ChildLock
<1>2. HubStep => UNCHANGED <<lock, child>>
  BY DEF HubStep, HubOnly, inputVars, promptVars, arrivals, loopVars, turnVars
<1>3. SubmitCommand \/ Retain \/ Retained =>
        UNCHANGED <<lock, child>>
  BY DEF SubmitCommand, Retain, Retained, EditorAt, inputVars, turnVars, arrivals, loopVars
<1>4. ASSUME Admit PROVE ChildLock'
  <2>1. lock = Free /\ lock'.by = "editor" /\ UNCHANGED entries
    BY <1>4, InputActions DEF Begins, Transition
  <2>2. UNCHANGED child
    BY <1>4 DEF Admit, EditorAt, turnVars, arrivals, loopVars
  <2> QED
    BY <2>1, <2>2 DEF ChildLock, Free
<1>5. ASSUME Admitted PROVE ChildLock'
  <2>1. lock.by = "editor" /\ lock' = Free
    BY <1>5, InputActions DEF Commits
  <2>2. UNCHANGED child
    BY <1>5 DEF Admitted, EditorAt, arrivals, loopVars
  <2> QED
    BY <2>1, <2>2 DEF ChildLock, Free
<1>6. NothingToRecall =>
        UNCHANGED <<lock, child>>
  BY DEF NothingToRecall, RecallAt, inputVars, arrivals, loopVars, turnVars
<1>7. ASSUME Recall PROVE ChildLock'
  <2>1. lock = Free /\ lock'.by = "recall" /\ UNCHANGED entries
    BY <1>7, InputActions DEF Begins, Transition
  <2>2. UNCHANGED child
    BY <1>7 DEF Recall, RecallAt, arrivals, loopVars, turnVars
  <2> QED
    BY <2>1, <2>2 DEF ChildLock, Free
<1>8. ASSUME Recalled PROVE ChildLock'
  <2>1. lock.by = "recall" /\ lock' = Free
    BY <1>8, InputActions DEF Commits
  <2>2. UNCHANGED child
    BY <1>8 DEF Recalled, RecallAt, arrivals, loopVars, turnVars
  <2> QED
    BY <2>1, <2>2 DEF ChildLock, Free
<1>9. (\E x \in Escapes : RequestInterrupt(x)) \/ (\E x \in Escapes : QueueInterrupt(x))
        \/ (\E p \in Peers : QueueIncoming(p)) \/ (\E p \in Peers : TakeIncoming(p)) =>
        UNCHANGED <<lock, child>>
  BY DEF RequestInterrupt, QueueInterrupt, QueueIncoming, TakeIncoming, Comes, inputVars,
         promptVars, loopVars, turnVars, StopOn
<1>10. RunCommand \/ CommandRun \/ StartPeers \/ StartReady \/ ClaimOldest \/ NothingToClaim
        \/ Await \/ Wake \/ Accept \/ NothingForInterrupt \/ Finalize \/ Barrier \/ Context
        \/ Submitted \/ Break \/ Record \/ Stopped =>
        UNCHANGED <<lock, child>>
  BY DEF RunCommand, CommandRun, StartPeers, StartReady, ClaimOldest, NothingToClaim, Await,
         Wake, Accept, NothingForInterrupt, Finalize, Barrier, Context, Submitted, Break, Record,
         Stopped, LoopAt, inputVars, Open, promptVars, arrivals, turnVars, Apply
<1>11. ASSUME Claim PROVE ChildLock'
  <2>1. lock = Free /\ lock'.by = "loop" /\ UNCHANGED entries
    BY <1>11, InputActions DEF Begins, Transition
  <2>2. UNCHANGED child
    BY <1>11 DEF Claim, LoopAt
  <2> QED
    BY <2>1, <2>2 DEF ChildLock, Free
<1>12. ASSUME Claimed PROVE ChildLock'
  <2>1. lock.by = "loop" /\ lock' = Free
    BY <1>12, InputActions DEF Commits
  <2>2. UNCHANGED child
    BY <1>12 DEF Claimed, LoopAt
  <2> QED
    BY <2>1, <2>2 DEF ChildLock, Free
<1>13. ASSUME ClaimedTooLate PROVE ChildLock'
  <2>1. lock.by = "loop" /\ lock' = Free
    BY <1>13, InputActions DEF Commits
  <2>2. UNCHANGED child
    BY <1>13 DEF ClaimedTooLate, Open, LoopAt
  <2> QED
    BY <2>1, <2>2 DEF ChildLock, Free
<1>14. ASSUME ClaimAll PROVE ChildLock'
  <2>1. lock = Free /\ lock'.by = "loop" /\ UNCHANGED entries
    BY <1>14, InputActions DEF Begins, Transition
  <2>2. UNCHANGED child
    BY <1>14 DEF ClaimAll, LoopAt
  <2> QED
    BY <2>1, <2>2 DEF ChildLock, Free
<1>15. ASSUME ClaimedAll PROVE ChildLock'
  <2>1. lock.by = "loop" /\ lock' = Free
    BY <1>15, InputActions DEF Commits
  <2>2. UNCHANGED child
    BY <1>15 DEF ClaimedAll, Apply, promptVars, arrivals
  <2> QED
    BY <2>1, <2>2 DEF ChildLock, Free
<1>16. StartTurn \/ StoreItems \/ ItemCommitted \/ CallTools \/ ToolsDone \/ BoundaryPassed
        \/ Proceed \/ Answer \/ CancelTurn \/ EndTurn =>
        UNCHANGED <<lock, child>>
  BY DEF StartTurn, StoreItems, ItemCommitted, CallTools, ToolsDone, BoundaryPassed, Proceed,
         Answer, CancelTurn, EndTurn, TurnOnly, inputVars, TurnAt, promptVars, arrivals,
         loopVars
<1>17. ASSUME Forward PROVE ChildLock'
  <2>1. UNCHANGED lock
    BY <1>17 DEF Forward, inputVars
  <2>2. CASE child' = child
    BY <2>1, <2>2 DEF ChildLock
  <2>3. CASE child' = [child EXCEPT !.queue = Append(child.queue, fg.ids)]
    <3>1. child.queue \in Seq(SUBSET Inputs) /\ fg.ids \in SUBSET Inputs
      BY DEF Child, TurnTyped, Turn
    <3>2. Append(child.queue, fg.ids) # << >>
      BY <3>1, AppendProperties
    <3>3. child.queue # << >> => Head(Append(child.queue, fg.ids)) = Head(child.queue)
      BY <3>1
    <3>4. child'.at = child.at /\ child'.queue = Append(child.queue, fg.ids)
      BY <2>3 DEF Child
    <3> QED
      BY <2>1, <3>2, <3>3, <3>4 DEF ChildLock
  <2> QED
    BY <1>17, <2>2, <2>3 DEF Forward
<1>18. ASSUME Mark PROVE ChildLock'
  <2>1. lock = Free /\ lock'.by = "turn" /\ UNCHANGED entries
    BY <1>18, InputActions DEF Begins, Transition
  <2>2. UNCHANGED child
    BY <1>18 DEF Mark, TurnAt, TurnOnly, promptVars, arrivals, loopVars
  <2> QED
    BY <2>1, <2>2 DEF ChildLock, Free
<1>19. ASSUME Marked PROVE ChildLock'
  <2>1. lock.by = "turn" /\ lock' = Free
    BY <1>19, InputActions DEF Commits
  <2>2. UNCHANGED child
    BY <1>19 DEF Marked, TurnAt, TurnOnly, promptVars, arrivals, loopVars
  <2> QED
    BY <2>1, <2>2 DEF ChildLock, Free
<1>20. ASSUME ChildStore PROVE ChildLock'
  <2>1. UNCHANGED lock /\ child.at = "idle" /\ child.queue # << >> /\ child'.at = "mark"
        /\ child'.queue = child.queue
    BY <1>20 DEF ChildStore, inputVars, Child
  <2> QED
    BY <2>1 DEF ChildLock
<1>21. ASSUME ChildMark PROVE ChildLock'
  <2>1. lock = Free /\ lock' = Transition("child", "delivered", Head(child.queue), "child", given + 1)
    BY <1>21, InputActions DEF Begins
  <2>2. child.queue # << >> /\ child'.at = "marking" /\ child'.queue = child.queue
    BY <1>21 DEF ChildMark, ChildLock, Child
  <2> QED
    BY <2>1, <2>2 DEF ChildLock, Transition
<1>22. ASSUME ChildMarked PROVE ChildLock'
  <2>1. lock' = Free /\ child'.at = "idle"
    BY <1>22, InputActions DEF ChildMarked, Commits
  <2> QED
    BY <2>1 DEF ChildLock, Free
<1>23. Enter \/ Up \/ Escape \/ Stop \/ (\E p \in Peers : Arrive(p)) =>
        UNCHANGED <<lock, child>>
  BY DEF Enter, Up, Escape, Stop, Arrive, Outside, inputVars, arrivals, loopVars, turnVars,
         RecallAt, StopOn, promptVars, Comes
<1>24. ASSUME ChildStops PROVE ChildLock'
  <2>1. UNCHANGED lock /\ child.at \in {"idle", "mark"} /\ child'.at = "gone"
    BY <1>24 DEF ChildStops, inputVars, Child
  <2> QED
    BY <2>1 DEF ChildLock
<1>25. UNCHANGED vars => UNCHANGED <<lock, child>>
  BY DEF vars, inputVars, promptVars, arrivals, loopVars, turnVars
<1> QED
  BY <1>1, <1>2, <1>3, <1>4, <1>5, <1>6, <1>7, <1>8, <1>9, <1>10, <1>11, <1>12, <1>13, <1>14,
     <1>15, <1>16, <1>17, <1>18, <1>19, <1>20, <1>21, <1>22, <1>23, <1>24, <1>25
     DEF Next, Prompt, RecallStep, ArrivalStep, LoopStep, TurnStep, ChildStep, FromOutside, Rest

\* The loop holds it for what it claims, which goes on waiting until then.
LEMMA LoopLockKept ==
  ASSUME InputTyped, main \in Loop, LoopLock, [Next]_vars
  PROVE  LoopLock'
<1>1. UNCHANGED <<lock, main, entries>> => LoopLock'
  BY DEF LoopLock, Pending
<1>2. HubStep => UNCHANGED <<lock, main, entries>>
  BY DEF HubStep, HubOnly, inputVars, promptVars, arrivals, loopVars, turnVars
<1>3. SubmitCommand \/ Retain \/ Retained =>
        UNCHANGED <<lock, main, entries>>
  BY DEF SubmitCommand, Retain, Retained, EditorAt, inputVars, turnVars, arrivals, loopVars
<1>4. ASSUME Admit PROVE LoopLock'
  <2>1. lock = Free /\ lock'.by = "editor" /\ UNCHANGED entries
    BY <1>4, InputActions DEF Begins, Transition
  <2>2. UNCHANGED main
    BY <1>4 DEF Admit, EditorAt, turnVars, arrivals, loopVars
  <2> QED
    BY <2>1, <2>2 DEF LoopLock, Free
<1>5. ASSUME Admitted PROVE LoopLock'
  <2>1. lock.by = "editor" /\ lock' = Free
    BY <1>5, InputActions DEF Commits
  <2>2. UNCHANGED main
    BY <1>5 DEF Admitted, EditorAt, arrivals, loopVars
  <2> QED
    BY <2>1, <2>2 DEF LoopLock, Free
<1>6. NothingToRecall =>
        UNCHANGED <<lock, main, entries>>
  BY DEF NothingToRecall, RecallAt, inputVars, arrivals, loopVars, turnVars
<1>7. ASSUME Recall PROVE LoopLock'
  <2>1. lock = Free /\ lock'.by = "recall" /\ UNCHANGED entries
    BY <1>7, InputActions DEF Begins, Transition
  <2>2. UNCHANGED main
    BY <1>7 DEF Recall, RecallAt, arrivals, loopVars, turnVars
  <2> QED
    BY <2>1, <2>2 DEF LoopLock, Free
<1>8. ASSUME Recalled PROVE LoopLock'
  <2>1. lock.by = "recall" /\ lock' = Free
    BY <1>8, InputActions DEF Commits
  <2>2. UNCHANGED main
    BY <1>8 DEF Recalled, RecallAt, arrivals, loopVars, turnVars
  <2> QED
    BY <2>1, <2>2 DEF LoopLock, Free
<1>9. (\E x \in Escapes : RequestInterrupt(x)) \/ (\E x \in Escapes : QueueInterrupt(x))
        \/ (\E p \in Peers : QueueIncoming(p)) \/ (\E p \in Peers : TakeIncoming(p)) =>
        UNCHANGED <<lock, main, entries>>
  BY DEF RequestInterrupt, QueueInterrupt, QueueIncoming, TakeIncoming, Comes, inputVars,
         promptVars, loopVars, turnVars, StopOn
<1>10. ASSUME RunCommand PROVE LoopLock'
  <2>1. main.at \in {"top"} /\ UNCHANGED lock
    BY <1>10 DEF RunCommand, inputVars, Deciding
  <2>2. main'.at \in {"command"}
    BY <1>10, LoopAtType DEF RunCommand, LoopPlaces
  <2> QED
    BY <2>1, <2>2 DEF LoopLock
<1>11. ASSUME CommandRun PROVE LoopLock'
  <2>1. main.at \in {"command"} /\ UNCHANGED lock
    BY <1>11 DEF CommandRun, inputVars
  <2>2. main'.at \in {"top", "stopping"}
    BY <1>11, LoopAtType DEF CommandRun, LoopPlaces
  <2> QED
    BY <2>1, <2>2 DEF LoopLock
<1>12. ASSUME StartPeers PROVE LoopLock'
  <2>1. main.at \in {"top"} /\ UNCHANGED lock
    BY <1>12 DEF StartPeers, inputVars, Deciding
  <2>2. main'.at \in {"top"}
    BY <1>12, LoopAtType DEF StartPeers, LoopPlaces
  <2> QED
    BY <2>1, <2>2 DEF LoopLock
<1>13. ASSUME StartReady PROVE LoopLock'
  <2>1. main.at \in {"top"} /\ UNCHANGED lock
    BY <1>13 DEF StartReady, inputVars, Deciding
  <2>2. main'.at \in {"top"}
    BY <1>13, LoopAtType DEF StartReady, LoopPlaces
  <2> QED
    BY <2>1, <2>2 DEF LoopLock
<1>14. ASSUME ClaimOldest PROVE LoopLock'
  <2>1. main.at \in {"top"} /\ UNCHANGED lock
    BY <1>14 DEF ClaimOldest, inputVars, Deciding
  <2>2. main'.at \in {"claim"}
    BY <1>14, LoopAtType DEF ClaimOldest, LoopPlaces
  <2> QED
    BY <2>1, <2>2 DEF LoopLock
<1>15. ASSUME NothingToClaim PROVE LoopLock'
  <2>1. main.at \in {"claim"} /\ UNCHANGED lock
    BY <1>15 DEF NothingToClaim, inputVars
  <2>2. main'.at \in {"wait"}
    BY <1>15, LoopAtType DEF NothingToClaim, LoopPlaces, Open
  <2> QED
    BY <2>1, <2>2 DEF LoopLock
<1>16. ASSUME Claim PROVE LoopLock'
  <2> DEFINE i == Oldest(Pending)
  <2>1. lock' = Transition("loop", "claimed", {i}, entries[i].to, given + 1) /\ UNCHANGED entries
    BY <1>16, InputActions DEF Begins
  <2>2. i \in Pending /\ \A j \in Pending : entries[i].seq <= entries[j].seq
    BY <1>16, OldestIsPending DEF Claim
  <2> HIDE DEF i
  <2>3. main'.at = "claiming"
    BY <1>16, LoopAtType DEF Claim, LoopPlaces
  <2>4. lock'.by = "loop" /\ lock'.kind = "claimed" /\ lock'.ids = {i} /\ lock'.to = entries[i].to
    BY <2>1 DEF Transition
  <2>5. Pending' = Pending
    BY <2>1 DEF Pending
  <2> QED
    BY <2>1, <2>2, <2>3, <2>4, <2>5 DEF LoopLock
<1>17. ASSUME Claimed PROVE LoopLock'
  <2>1. lock' = Free
    BY <1>17, InputActions DEF Commits
  <2>2. main'.at \in {"top"}
    BY <1>17, LoopAtType DEF Claimed, LoopPlaces
  <2> QED
    BY <2>1, <2>2 DEF LoopLock, Free
<1>18. ASSUME ClaimedTooLate PROVE LoopLock'
  <2>1. lock' = Free
    BY <1>18, InputActions DEF Commits
  <2>2. main'.at \in {"wait"}
    BY <1>18, LoopAtType DEF ClaimedTooLate, LoopPlaces, Open
  <2> QED
    BY <2>1, <2>2 DEF LoopLock, Free
<1>19. ASSUME Await PROVE LoopLock'
  <2>1. main.at \in {"top"} /\ UNCHANGED lock
    BY <1>19 DEF Await, inputVars
  <2>2. main'.at \in {"wait"}
    BY <1>19, LoopAtType DEF Await, LoopPlaces, Open
  <2> QED
    BY <2>1, <2>2 DEF LoopLock
<1>20. ASSUME Wake PROVE LoopLock'
  <2>1. main.at = "wait" /\ UNCHANGED lock
    BY <1>20 DEF Wake, inputVars
  <2>2. main'.at \in {"finalize", NextPhase(Done)}
    BY <1>20 DEF Wake, Loop
  <2> QED
    BY <2>1, <2>2, NextPhaseType DEF LoopLock
<1>21. ASSUME Accept PROVE LoopLock'
  <2>1. main.at = "accept" /\ UNCHANGED lock
    BY <1>21 DEF Accept, inputVars
  <2>2. main'.at \in {"claimAll", NextPhase(main.done \ {"interrupt"})}
    BY <1>21 DEF Accept, Loop
  <2> QED
    BY <2>1, <2>2, NextPhaseType DEF LoopLock
<1>22. ASSUME NothingForInterrupt PROVE LoopLock'
  <2>1. main.at = "claimAll" /\ UNCHANGED lock
    BY <1>22 DEF NothingForInterrupt, inputVars
  <2>2. main'.at \in {"finalize", NextPhase(main.done)}
    BY <1>22 DEF NothingForInterrupt, Loop, Apply, Unlocked
  <2> QED
    BY <2>1, <2>2, NextPhaseType DEF LoopLock
<1>23. ASSUME ClaimAll PROVE LoopLock'
  <2>1. lock' = Transition("loop", "claimed", Pending, main.now.to, given + 1) /\ UNCHANGED entries
    BY <1>23, InputActions DEF Begins
  <2>2. main' = [main EXCEPT !.at = "claimingAll"]
    BY <1>23 DEF ClaimAll, LoopAt
  <2>3. main'.at = "claimingAll" /\ main'.now = main.now
    BY <2>2 DEF Loop
  <2>4. lock'.by = "loop" /\ lock'.kind = "claimed" /\ lock'.ids = Pending /\ lock'.to = main.now.to
    BY <2>1 DEF Transition
  <2>5. Pending' = Pending
    BY <2>1 DEF Pending
  <2> QED
    BY <2>1, <2>3, <2>4, <2>5 DEF LoopLock
<1>24. ASSUME ClaimedAll PROVE LoopLock'
  <2>1. lock' = Free
    BY <1>24, InputActions DEF Commits
  <2>2. main'.at \in {"finalize", NextPhase(main.done)}
    BY <1>24 DEF ClaimedAll, Apply, Loop
  <2> QED
    BY <2>1, <2>2, NextPhaseType DEF LoopLock, Free
<1>25. ASSUME Finalize PROVE LoopLock'
  <2>1. main.at = "finalize" /\ UNCHANGED lock
    BY <1>25 DEF Finalize, inputVars
  <2>2. main'.at = "barrier"
    BY <1>25 DEF Finalize, Loop
  <2> QED
    BY <2>1, <2>2, NextPhaseType DEF LoopLock
<1>26. ASSUME Barrier PROVE LoopLock'
  <2>1. main.at = "barrier" /\ UNCHANGED lock
    BY <1>26 DEF Barrier, inputVars
  <2>2. main'.at \in {"context", "finalize", NextPhase(main.done)}
    BY <1>26 DEF Barrier, Loop
  <2> QED
    BY <2>1, <2>2, NextPhaseType DEF LoopLock
<1>27. ASSUME Context PROVE LoopLock'
  <2>1. main.at = "context" /\ UNCHANGED lock /\ LoopAt(NextPhase(main.done))
    BY <1>27 DEF Context, inputVars
  <2>2. NextPhase(main.done) \in {"accept", "input", "top"}
    BY NextPhaseType
  <2>3. main'.at = NextPhase(main.done)
    BY <2>1, <2>2, LoopAtType DEF LoopPlaces
  <2> QED
    BY <2>1, <2>2, <2>3 DEF LoopLock
<1>28. ASSUME Submitted PROVE LoopLock'
  <2>1. main.at \in {"input"} /\ UNCHANGED lock
    BY <1>28 DEF Submitted, inputVars
  <2>2. main'.at \in {"command", "top"}
    BY <1>28, LoopAtType DEF Submitted, LoopPlaces
  <2> QED
    BY <2>1, <2>2 DEF LoopLock
<1>29. ASSUME Break PROVE LoopLock'
  <2>1. main.at \in {"wait", "top"} /\ UNCHANGED lock
    BY <1>29 DEF Break, inputVars
  <2>2. main'.at \in {"stopping"}
    BY <1>29, LoopAtType DEF Break, LoopPlaces
  <2> QED
    BY <2>1, <2>2 DEF LoopLock
<1>30. ASSUME Record PROVE LoopLock'
  <2>1. main.at = "stopping" /\ UNCHANGED lock
    BY <1>30 DEF Record, inputVars
  <2>2. main'.at = "recording"
    BY <1>30 DEF Record, Loop
  <2> QED
    BY <2>1, <2>2, NextPhaseType DEF LoopLock
<1>31. ASSUME Stopped PROVE LoopLock'
  <2>1. main.at \in {"recording"} /\ UNCHANGED lock
    BY <1>31 DEF Stopped, inputVars
  <2>2. main'.at \in {"stopped"}
    BY <1>31, LoopAtType DEF Stopped, LoopPlaces
  <2> QED
    BY <2>1, <2>2 DEF LoopLock
<1>32. Forward \/ StartTurn \/ StoreItems \/ ItemCommitted \/ CallTools \/ ToolsDone
        \/ BoundaryPassed \/ Proceed \/ Answer \/ CancelTurn \/ EndTurn =>
        UNCHANGED <<lock, main, entries>>
  BY DEF Forward, StartTurn, StoreItems, ItemCommitted, CallTools, ToolsDone, BoundaryPassed,
         Proceed, Answer, CancelTurn, EndTurn, TurnAt, inputVars, TurnOnly, promptVars, arrivals,
         loopVars
<1>33. ASSUME Mark PROVE LoopLock'
  <2>1. lock = Free /\ lock'.by = "turn" /\ UNCHANGED entries
    BY <1>33, InputActions DEF Begins, Transition
  <2>2. UNCHANGED main
    BY <1>33 DEF Mark, TurnAt, TurnOnly, promptVars, arrivals, loopVars
  <2> QED
    BY <2>1, <2>2 DEF LoopLock, Free
<1>34. ASSUME Marked PROVE LoopLock'
  <2>1. lock.by = "turn" /\ lock' = Free
    BY <1>34, InputActions DEF Commits
  <2>2. UNCHANGED main
    BY <1>34 DEF Marked, TurnAt, TurnOnly, promptVars, arrivals, loopVars
  <2> QED
    BY <2>1, <2>2 DEF LoopLock, Free
<1>35. ChildStore =>
        UNCHANGED <<lock, main, entries>>
  BY DEF ChildStore, ChildOnly, inputVars, promptVars, arrivals, loopVars, turnVars
<1>36. ASSUME ChildMark PROVE LoopLock'
  <2>1. lock = Free /\ lock'.by = "child" /\ UNCHANGED entries
    BY <1>36, InputActions DEF Begins, Transition
  <2>2. UNCHANGED main
    BY <1>36 DEF ChildMark, ChildOnly, promptVars, arrivals, loopVars, turnVars
  <2> QED
    BY <2>1, <2>2 DEF LoopLock, Free
<1>37. ASSUME ChildMarked PROVE LoopLock'
  <2>1. lock.by = "child" /\ lock' = Free
    BY <1>37, InputActions DEF Commits
  <2>2. UNCHANGED main
    BY <1>37 DEF ChildMarked, ChildOnly, promptVars, arrivals, loopVars, turnVars
  <2> QED
    BY <2>1, <2>2 DEF LoopLock, Free
<1>38. Enter \/ Up \/ Escape \/ Stop \/ ChildStops \/ (\E p \in Peers : Arrive(p)) =>
        UNCHANGED <<lock, main, entries>>
  BY DEF Enter, Up, Escape, Stop, ChildStops, Arrive, Outside, inputVars, arrivals, loopVars,
         turnVars, RecallAt, StopOn, promptVars, ChildOnly, Comes
<1>39. UNCHANGED vars => UNCHANGED <<lock, main, entries>>
  BY DEF vars, inputVars, promptVars, arrivals, loopVars, turnVars
<1> QED
  BY <1>1, <1>2, <1>3, <1>4, <1>5, <1>6, <1>7, <1>8, <1>9, <1>10, <1>11, <1>12, <1>13, <1>14,
     <1>15, <1>16, <1>17, <1>18, <1>19, <1>20, <1>21, <1>22, <1>23, <1>24, <1>25, <1>26, <1>27,
     <1>28, <1>29, <1>30, <1>31, <1>32, <1>33, <1>34, <1>35, <1>36, <1>37, <1>38, <1>39
     DEF Next, Prompt, RecallStep, ArrivalStep, LoopStep, TurnStep, ChildStep, FromOutside, Rest

\* A turn holds it for the inputs that it marks as delivered.
LEMMA TurnLockKept ==
  ASSUME fg \in Turn, TurnLock, [Next]_vars
  PROVE  TurnLock'
<1>1. UNCHANGED <<lock, fg>> => TurnLock'
  BY DEF TurnLock
<1>2. HubStep => UNCHANGED <<lock, fg>>
  BY DEF HubStep, HubOnly, inputVars, promptVars, arrivals, loopVars, turnVars
<1>3. SubmitCommand \/ Retain \/ Retained =>
        UNCHANGED <<lock, fg>>
  BY DEF SubmitCommand, Retain, Retained, EditorAt, inputVars, turnVars, arrivals, loopVars
<1>4. ASSUME Admit PROVE TurnLock'
  <2>1. lock = Free /\ lock'.by = "editor" /\ UNCHANGED entries
    BY <1>4, InputActions DEF Begins, Transition
  <2>2. UNCHANGED fg
    BY <1>4 DEF Admit, EditorAt, turnVars, arrivals, loopVars
  <2> QED
    BY <2>1, <2>2 DEF TurnLock, Free
<1>5. ASSUME Admitted PROVE TurnLock'
  <2>1. lock.by = "editor" /\ lock' = Free
    BY <1>5, InputActions DEF Commits
  <2>2. fg'.at = fg.at
    BY <1>5, TurnHalts DEF SameTurn
  <2> QED
    BY <2>1, <2>2 DEF TurnLock, Free
<1>6. NothingToRecall =>
        UNCHANGED <<lock, fg>>
  BY DEF NothingToRecall, RecallAt, inputVars, arrivals, loopVars, turnVars
<1>7. ASSUME Recall PROVE TurnLock'
  <2>1. lock = Free /\ lock'.by = "recall" /\ UNCHANGED entries
    BY <1>7, InputActions DEF Begins, Transition
  <2>2. UNCHANGED fg
    BY <1>7 DEF Recall, RecallAt, arrivals, loopVars, turnVars
  <2> QED
    BY <2>1, <2>2 DEF TurnLock, Free
<1>8. ASSUME Recalled PROVE TurnLock'
  <2>1. lock.by = "recall" /\ lock' = Free
    BY <1>8, InputActions DEF Commits
  <2>2. UNCHANGED fg
    BY <1>8 DEF Recalled, RecallAt, arrivals, loopVars, turnVars
  <2> QED
    BY <2>1, <2>2 DEF TurnLock, Free
<1>9. (\E x \in Escapes : RequestInterrupt(x)) \/ (\E p \in Peers : TakeIncoming(p)) =>
        UNCHANGED <<lock, fg>>
  BY DEF RequestInterrupt, TakeIncoming, Comes, inputVars, promptVars, loopVars, turnVars
<1>10. ASSUME NEW x \in Escapes, QueueInterrupt(x) PROVE TurnLock'
  <2>1. fg'.at = fg.at /\ fg'.ids = fg.ids
    BY <1>10, TurnHalts DEF SameTurn
  <2>2. UNCHANGED lock
    BY <1>10 DEF QueueInterrupt, Comes, StopOn, inputVars, promptVars
  <2> QED
    BY <2>1, <2>2 DEF TurnLock
<1>11. ASSUME NEW p \in Peers, QueueIncoming(p) PROVE TurnLock'
  <2>1. fg'.at = fg.at /\ fg'.ids = fg.ids
    BY <1>11, TurnHalts DEF SameTurn
  <2>2. UNCHANGED lock
    BY <1>11 DEF QueueIncoming, Comes, StopOn, inputVars, promptVars, loopVars
  <2> QED
    BY <2>1, <2>2 DEF TurnLock
<1>12. RunCommand \/ CommandRun \/ ClaimOldest \/ NothingToClaim \/ Await \/ Accept \/ Finalize
        \/ Barrier \/ Context \/ Submitted \/ Break \/ Record \/ Stopped =>
        UNCHANGED <<lock, fg>>
  BY DEF RunCommand, CommandRun, ClaimOldest, NothingToClaim, Await, Accept, Finalize, Barrier,
         Context, Submitted, Break, Record, Stopped, LoopAt, inputVars, Open, promptVars,
         arrivals, turnVars
<1>13. ASSUME StartPeers PROVE TurnLock'
  <2>1. fg.at = "none" /\ UNCHANGED lock
    BY <1>13 DEF StartPeers, Deciding, inputVars
  <2>2. fg'.at = "created"
    BY <1>13 DEF StartPeers, NewTurn, NoTurn
  <2> QED
    BY <2>1, <2>2 DEF TurnLock
<1>14. ASSUME StartReady PROVE TurnLock'
  <2>1. fg.at = "none" /\ UNCHANGED lock
    BY <1>14 DEF StartReady, Deciding, inputVars
  <2>2. fg'.at = "created"
    BY <1>14 DEF StartReady, NewTurn, NoTurn
  <2> QED
    BY <2>1, <2>2 DEF TurnLock
<1>15. ASSUME Claim PROVE TurnLock'
  <2>1. lock = Free /\ lock'.by = "loop" /\ UNCHANGED entries
    BY <1>15, InputActions DEF Begins, Transition
  <2>2. UNCHANGED fg
    BY <1>15 DEF Claim, LoopAt
  <2> QED
    BY <2>1, <2>2 DEF TurnLock, Free
<1>16. ASSUME Claimed PROVE TurnLock'
  <2>1. lock.by = "loop" /\ lock' = Free
    BY <1>16, InputActions DEF Commits
  <2>2. fg'.at = "created"
    BY <1>16 DEF Claimed, NewTurn, NoTurn
  <2> QED
    BY <2>1, <2>2 DEF TurnLock, Free
<1>17. ASSUME ClaimedTooLate PROVE TurnLock'
  <2>1. lock.by = "loop" /\ lock' = Free
    BY <1>17, InputActions DEF Commits
  <2>2. UNCHANGED fg
    BY <1>17 DEF ClaimedTooLate, Open, LoopAt
  <2> QED
    BY <2>1, <2>2 DEF TurnLock, Free
<1>18. ASSUME Wake PROVE TurnLock'
  <2>1. UNCHANGED lock
    BY <1>18 DEF Wake, inputVars
  <2>2. fg' = fg \/ (fg.at = "ended" /\ fg' = NoTurn)
    BY <1>18 DEF Wake, Done
  <2> QED
    BY <2>1, <2>2 DEF TurnLock, NoTurn
<1>19. ASSUME NothingForInterrupt PROVE TurnLock'
  <2>1. fg'.at = fg.at /\ fg'.ids = fg.ids
    BY <1>19, TurnHalts DEF SameTurn
  <2>2. UNCHANGED lock
    BY <1>19 DEF NothingForInterrupt, inputVars
  <2> QED
    BY <2>1, <2>2 DEF TurnLock
<1>20. ASSUME ClaimAll PROVE TurnLock'
  <2>1. lock = Free /\ lock'.by = "loop" /\ UNCHANGED entries
    BY <1>20, InputActions DEF Begins, Transition
  <2>2. UNCHANGED fg
    BY <1>20 DEF ClaimAll, LoopAt
  <2> QED
    BY <2>1, <2>2 DEF TurnLock, Free
<1>21. ASSUME ClaimedAll PROVE TurnLock'
  <2>1. lock.by = "loop" /\ lock' = Free
    BY <1>21, InputActions DEF Commits
  <2>2. fg'.at = fg.at
    BY <1>21, TurnHalts DEF SameTurn
  <2> QED
    BY <2>1, <2>2 DEF TurnLock, Free
<1>22. ASSUME Forward PROVE TurnLock'
  <2>1. fg.at = "created" /\ UNCHANGED lock
    BY <1>22 DEF Forward, inputVars
  <2>2. fg'.at \in {"ended"}
    BY <1>22, TurnAtMoves DEF Forward, TurnPlaces
  <2> QED
    BY <2>1, <2>2 DEF TurnLock
<1>23. ASSUME StartTurn PROVE TurnLock'
  <2>1. fg.at = "created" /\ UNCHANGED lock
    BY <1>23 DEF StartTurn, inputVars
  <2>2. fg'.at = "starting"
    BY <1>23 DEF StartTurn, Turn
  <2> QED
    BY <2>1, <2>2 DEF TurnLock
<1>24. ASSUME StoreItems PROVE TurnLock'
  <2>1. fg.at = "starting" /\ UNCHANGED lock /\ \E k : PublishCommit(k)
    BY <1>24 DEF StoreItems, inputVars
  <2>2. fg'.at \in {"committing", "model", "mark"}
    BY <2>1 DEF PublishCommit, Turn
  <2> QED
    BY <2>1, <2>2 DEF TurnLock
<1>25. ASSUME ItemCommitted PROVE TurnLock'
  <2>1. fg.at = "committing" /\ UNCHANGED lock /\ \E k : PublishCommit(k)
    BY <1>25 DEF ItemCommitted, inputVars
  <2>2. fg'.at \in {"committing", "model", "mark"}
    BY <2>1 DEF PublishCommit, Turn
  <2> QED
    BY <2>1, <2>2 DEF TurnLock
<1>26. ASSUME Mark PROVE TurnLock'
  <2>1. lock' = Transition("turn", "delivered", fg.ids, "main", given + 1)
    BY <1>26, InputActions DEF Begins
  <2>2. fg'.at = "marking" /\ fg'.ids = fg.ids
    BY <1>26, TurnAtMoves DEF Mark, TurnPlaces
  <2> QED
    BY <2>1, <2>2 DEF TurnLock, Transition
<1>27. ASSUME Marked PROVE TurnLock'
  <2>1. lock' = Free
    BY <1>27, InputActions DEF Commits
  <2>2. fg'.at \in {"closing", "model"}
    BY <1>27, TurnAtMoves DEF Marked, TurnPlaces
  <2> QED
    BY <2>1, <2>2 DEF TurnLock, Free
<1>28. ASSUME CallTools PROVE TurnLock'
  <2>1. fg.at = "model" /\ UNCHANGED lock
    BY <1>28 DEF CallTools, inputVars
  <2>2. fg'.at = "tools"
    BY <1>28 DEF CallTools, Turn
  <2> QED
    BY <2>1, <2>2 DEF TurnLock
<1>29. ASSUME ToolsDone PROVE TurnLock'
  <2>1. fg.at = "tools" /\ UNCHANGED lock
    BY <1>29 DEF ToolsDone, inputVars
  <2>2. fg'.at = "boundary"
    BY <1>29 DEF ToolsDone, Turn
  <2> QED
    BY <2>1, <2>2 DEF TurnLock
<1>30. ASSUME BoundaryPassed PROVE TurnLock'
  <2>1. fg.at = "boundary" /\ UNCHANGED lock
    BY <1>30 DEF BoundaryPassed, inputVars
  <2>2. fg'.at \in {"hook"}
    BY <1>30, TurnAtMoves DEF BoundaryPassed, TurnPlaces
  <2> QED
    BY <2>1, <2>2 DEF TurnLock
<1>31. ASSUME Proceed PROVE TurnLock'
  <2>1. fg.at = "hook" /\ UNCHANGED lock
    BY <1>31 DEF Proceed, inputVars
  <2>2. fg'.at \in {"closing", "model"}
    BY <1>31, TurnAtMoves DEF Proceed, TurnPlaces
  <2> QED
    BY <2>1, <2>2 DEF TurnLock
<1>32. ASSUME Answer PROVE TurnLock'
  <2>1. fg.at = "model" /\ UNCHANGED lock
    BY <1>32 DEF Answer, inputVars
  <2>2. fg'.at \in {"closing"}
    BY <1>32, TurnAtMoves DEF Answer, TurnPlaces
  <2> QED
    BY <2>1, <2>2 DEF TurnLock
<1>33. ASSUME CancelTurn PROVE TurnLock'
  <2>1. fg.at # "marking" /\ UNCHANGED lock
    BY <1>33 DEF CancelTurn, inputVars
  <2>2. fg'.at \in {"closing", "ended"}
    BY <1>33, TurnAtMoves DEF CancelTurn, TurnPlaces
  <2> QED
    BY <2>1, <2>2 DEF TurnLock
<1>34. ASSUME EndTurn PROVE TurnLock'
  <2>1. fg.at = "closing" /\ UNCHANGED lock
    BY <1>34 DEF EndTurn, inputVars
  <2>2. fg'.at \in {"ended"}
    BY <1>34, TurnAtMoves DEF EndTurn, TurnPlaces
  <2> QED
    BY <2>1, <2>2 DEF TurnLock
<1>35. ChildStore =>
        UNCHANGED <<lock, fg>>
  BY DEF ChildStore, ChildOnly, inputVars, promptVars, arrivals, loopVars, turnVars
<1>36. ASSUME ChildMark PROVE TurnLock'
  <2>1. lock = Free /\ lock'.by = "child" /\ UNCHANGED entries
    BY <1>36, InputActions DEF Begins, Transition
  <2>2. UNCHANGED fg
    BY <1>36 DEF ChildMark, ChildOnly, promptVars, arrivals, loopVars, turnVars
  <2> QED
    BY <2>1, <2>2 DEF TurnLock, Free
<1>37. ASSUME ChildMarked PROVE TurnLock'
  <2>1. lock.by = "child" /\ lock' = Free
    BY <1>37, InputActions DEF Commits
  <2>2. UNCHANGED fg
    BY <1>37 DEF ChildMarked, ChildOnly, promptVars, arrivals, loopVars, turnVars
  <2> QED
    BY <2>1, <2>2 DEF TurnLock, Free
<1>38. Enter \/ Up \/ ChildStops \/ (\E p \in Peers : Arrive(p)) =>
        UNCHANGED <<lock, fg>>
  BY DEF Enter, Up, ChildStops, Arrive, Outside, inputVars, arrivals, loopVars, turnVars,
         RecallAt, ChildOnly, promptVars, Comes
<1>39. ASSUME Escape PROVE TurnLock'
  <2>1. fg'.at = fg.at /\ fg'.ids = fg.ids
    BY <1>39, TurnHalts DEF SameTurn
  <2>2. UNCHANGED lock
    BY <1>39 DEF Escape, Outside, StopOn, inputVars, promptVars, loopVars, Comes
  <2> QED
    BY <2>1, <2>2 DEF TurnLock
<1>40. ASSUME Stop PROVE TurnLock'
  <2>1. fg'.at = fg.at /\ fg'.ids = fg.ids
    BY <1>40, TurnHalts DEF SameTurn
  <2>2. UNCHANGED lock
    BY <1>40 DEF Stop, Outside, turnVars, StopOn, inputVars, loopVars, Comes
  <2> QED
    BY <2>1, <2>2 DEF TurnLock
<1>41. UNCHANGED vars => UNCHANGED <<lock, fg>>
  BY DEF vars, inputVars, promptVars, arrivals, loopVars, turnVars
<1> QED
  BY <1>1, <1>2, <1>3, <1>4, <1>5, <1>6, <1>7, <1>8, <1>9, <1>10, <1>11, <1>12, <1>13, <1>14,
     <1>15, <1>16, <1>17, <1>18, <1>19, <1>20, <1>21, <1>22, <1>23, <1>24, <1>25, <1>26, <1>27,
     <1>28, <1>29, <1>30, <1>31, <1>32, <1>33, <1>34, <1>35, <1>36, <1>37, <1>38, <1>39, <1>40,
     <1>41
     DEF Next, Prompt, RecallStep, ArrivalStep, LoopStep, TurnStep, ChildStep, FromOutside, Rest

\* The lock is kept by all of them.
LEMMA LockKept ==
  ASSUME TypeOK, LockInv, DoneInv, [Next]_vars
  PROVE  LockInv'
<1>1. PromptTyped /\ InputTyped /\ TurnTyped /\ fg \in Turn /\ main \in Loop /\ child \in Child
  BY DEF TypeOK, TurnTyped, LoopTyped
<1> QED
  BY <1>1, EditorLockKept, RecallLockKept, LoopLockKept, TurnLockKept, ChildLockKept DEF LockInv

-----------------------------------------------------------------------------
(* The transition that is on its way.                                      *)

\* An event is on its way that was not.
Adds(w) == Posted(w) \/ Filled(w)

\* What is announced besides the transitions of the coordinator.
Tells == \E w : w.kind \notin LockKinds /\ (w.kind = "other" => w.ids = {}) /\ Adds(w)

\* The lock changes only when a transition begins or is made.
HubOfLock ==
  \/ UNCHANGED lock /\ (UNCHANGED hubVars \/ Took \/ GaveUp(editor.place) \/ Passed
                          \/ (\E w \in wire : Settled(w)) \/ Tells)
  \/ Commits /\ UNCHANGED hubVars
  \/ Begins(lock') /\ lock' # Free /\ lock'.kind \in LockKinds
       /\ Adds(Event(lock'.at, lock'.kind, lock'.ids, lock'.to))

\* A transition is announced when it begins, and over before it takes effect.
LEMMA LockOnHub ==
  ASSUME [Next]_vars
  PROVE  HubOfLock
<1>1. UNCHANGED <<lock, hubVars>> => HubOfLock
  BY DEF HubOfLock
<1>2. ASSUME Deliver /\ HubOnly PROVE HubOfLock
  <2>1. UNCHANGED lock
    BY <1>2 DEF HubOnly, inputVars
  <2> QED
    BY <1>2, <2>1, DeliverMoves DEF HubOfLock
<1>3. ASSUME PassDropped /\ HubOnly PROVE HubOfLock
  <2>1. UNCHANGED lock
    BY <1>3 DEF HubOnly, inputVars
  <2> QED
    BY <1>3, <2>1, PassMoves DEF HubOfLock
<1>4. Retained =>
        UNCHANGED <<lock, hubVars>>
  BY DEF Retained, EditorAt, inputVars, turnVars, arrivals, loopVars
<1>5. ASSUME SubmitCommand PROVE HubOfLock
  <2>1. UNCHANGED lock
    BY <1>5 DEF SubmitCommand, inputVars
  <2> QED
    BY <1>5, <2>1, HubActions DEF HubOfLock
<1>6. ASSUME Retain PROVE HubOfLock
  <2>1. UNCHANGED lock
    BY <1>6 DEF Retain, inputVars
  <2>2. Filled(Other(editor.place, editor.to))
    BY <1>6, HubActions
  <2> QED
    BY <2>1, <2>2 DEF HubOfLock, Tells, Adds, Other, Event, LockKinds
<1>7. ASSUME Admit PROVE HubOfLock
  <2>1. Begins(Transition("editor", "buffered", {editor.id}, editor.to, editor.place))
    BY <1>7, InputActions
  <2>2. Filled(Event(editor.place, "buffered", {editor.id}, editor.to))
    BY <1>7, HubActions
  <2>3. Event(lock'.at, lock'.kind, lock'.ids, lock'.to) = Event(editor.place, "buffered", {editor.id},
  editor.to)
    BY <2>1 DEF Begins, Transition, Event
  <2>4. Begins(lock') /\ lock' # Free /\ lock'.kind \in LockKinds
    BY <2>1 DEF Begins, Transition, Free, LockKinds
  <2> QED
    BY <2>2, <2>3, <2>4 DEF HubOfLock, Adds
<1>8. ASSUME Admitted PROVE HubOfLock
  <2>1. UNCHANGED hubVars
    BY <1>8 DEF Admitted
  <2> QED
    BY <1>8, <2>1, InputActions DEF HubOfLock
<1>9. NothingToRecall =>
        UNCHANGED <<lock, hubVars>>
  BY DEF NothingToRecall, RecallAt, inputVars, arrivals, loopVars, turnVars
<1>10. ASSUME Recall PROVE HubOfLock
  <2>1. Begins(Transition("recall", "recalled", Pending, "main", given + 1))
    BY <1>10, InputActions
  <2>2. Posted(Event(given + 1, "recalled", Pending, "main"))
    BY <1>10, HubActions
  <2>3. Event(lock'.at, lock'.kind, lock'.ids, lock'.to) = Event(given + 1, "recalled", Pending, "main")
    BY <2>1 DEF Begins, Transition, Event
  <2>4. Begins(lock') /\ lock' # Free /\ lock'.kind \in LockKinds
    BY <2>1 DEF Begins, Transition, Free, LockKinds
  <2> QED
    BY <2>2, <2>3, <2>4 DEF HubOfLock, Adds
<1>11. ASSUME Recalled PROVE HubOfLock
  <2>1. UNCHANGED hubVars
    BY <1>11 DEF Recalled
  <2> QED
    BY <1>11, <2>1, InputActions DEF HubOfLock
<1>12. (\E x \in Escapes : QueueInterrupt(x)) \/ (\E p \in Peers : QueueIncoming(p))
        \/ (\E p \in Peers : TakeIncoming(p)) =>
        UNCHANGED <<lock, hubVars>>
  BY DEF QueueInterrupt, QueueIncoming, TakeIncoming, Comes, StopOn, inputVars, promptVars,
         loopVars, turnVars
<1>13. ASSUME NEW x \in Escapes, RequestInterrupt(x) PROVE HubOfLock
  <2>1. UNCHANGED lock
    BY <1>13 DEF RequestInterrupt, inputVars
  <2>2. Posted(Other(given + 1, "main"))
    BY <1>13, HubActions
  <2> QED
    BY <2>1, <2>2 DEF HubOfLock, Tells, Adds, Other, Event, LockKinds
<1>14. RunCommand \/ CommandRun \/ StartPeers \/ StartReady \/ ClaimOldest \/ NothingToClaim
        \/ Await \/ Wake \/ Accept \/ NothingForInterrupt \/ Barrier \/ Context \/ Submitted
        \/ Break \/ Stopped =>
        UNCHANGED <<lock, hubVars>>
  BY DEF RunCommand, CommandRun, StartPeers, StartReady, ClaimOldest, NothingToClaim, Await,
         Wake, Accept, NothingForInterrupt, Barrier, Context, Submitted, Break, Stopped, LoopAt,
         inputVars, Open, promptVars, arrivals, turnVars, Apply
<1>15. ASSUME Claim PROVE HubOfLock
  <2>1. Begins(Transition("loop", "claimed", {Oldest(Pending)}, entries[Oldest(Pending)].to, given + 1))
    BY <1>15, InputActions
  <2>2. Posted(Event(given + 1, "claimed", {Oldest(Pending)}, entries[Oldest(Pending)].to))
    BY <1>15, HubActions
  <2>3. Event(lock'.at, lock'.kind, lock'.ids, lock'.to) = Event(given + 1, "claimed",
  {Oldest(Pending)}, entries[Oldest(Pending)].to)
    BY <2>1 DEF Begins, Transition, Event
  <2>4. Begins(lock') /\ lock' # Free /\ lock'.kind \in LockKinds
    BY <2>1 DEF Begins, Transition, Free, LockKinds
  <2> QED
    BY <2>2, <2>3, <2>4 DEF HubOfLock, Adds
<1>16. ASSUME Claimed PROVE HubOfLock
  <2>1. UNCHANGED hubVars
    BY <1>16 DEF Claimed
  <2> QED
    BY <1>16, <2>1, InputActions DEF HubOfLock
<1>17. ASSUME ClaimedTooLate PROVE HubOfLock
  <2>1. UNCHANGED hubVars
    BY <1>17 DEF ClaimedTooLate
  <2> QED
    BY <1>17, <2>1, InputActions DEF HubOfLock
<1>18. ASSUME ClaimAll PROVE HubOfLock
  <2>1. Begins(Transition("loop", "claimed", Pending, main.now.to, given + 1))
    BY <1>18, InputActions
  <2>2. Posted(Event(given + 1, "claimed", Pending, main.now.to))
    BY <1>18, HubActions
  <2>3. Event(lock'.at, lock'.kind, lock'.ids, lock'.to) = Event(given + 1, "claimed", Pending,
  main.now.to)
    BY <2>1 DEF Begins, Transition, Event
  <2>4. Begins(lock') /\ lock' # Free /\ lock'.kind \in LockKinds
    BY <2>1 DEF Begins, Transition, Free, LockKinds
  <2> QED
    BY <2>2, <2>3, <2>4 DEF HubOfLock, Adds
<1>19. ASSUME ClaimedAll PROVE HubOfLock
  <2>1. UNCHANGED hubVars
    BY <1>19 DEF ClaimedAll, Apply
  <2> QED
    BY <1>19, <2>1, InputActions DEF HubOfLock
<1>20. ASSUME Finalize PROVE HubOfLock
  <2>1. UNCHANGED lock
    BY <1>20 DEF Finalize, inputVars
  <2>2. Posted(Other(given + 1, "main"))
    BY <1>20, HubActions
  <2> QED
    BY <2>1, <2>2 DEF HubOfLock, Tells, Adds, Other, Event, LockKinds
<1>21. ASSUME Record PROVE HubOfLock
  <2>1. UNCHANGED lock
    BY <1>21 DEF Record, inputVars
  <2>2. Posted(Other(given + 1, "main"))
    BY <1>21, HubActions
  <2> QED
    BY <2>1, <2>2 DEF HubOfLock, Tells, Adds, Other, Event, LockKinds
<1>22. Forward \/ StartTurn \/ CallTools \/ ToolsDone \/ BoundaryPassed \/ Proceed \/ Answer
        \/ EndTurn =>
        UNCHANGED <<lock, hubVars>>
  BY DEF Forward, StartTurn, CallTools, ToolsDone, BoundaryPassed, Proceed, Answer, EndTurn,
         TurnAt, inputVars, TurnOnly, promptVars, arrivals, loopVars
<1>23. ASSUME StoreItems PROVE HubOfLock
  <2>1. UNCHANGED lock
    BY <1>23 DEF StoreItems, inputVars
  <2>2. UNCHANGED hubVars \/ Posted(Committed(1))
    BY <1>23, HubActions
  <2> QED
    BY <2>1, <2>2 DEF HubOfLock, Tells, Adds, Other, Event, LockKinds, Committed
<1>24. ASSUME ItemCommitted PROVE HubOfLock
  <2>1. UNCHANGED lock
    BY <1>24 DEF ItemCommitted, inputVars
  <2>2. UNCHANGED hubVars \/ Posted(Committed(fg.k + 1))
    BY <1>24, HubActions
  <2> QED
    BY <2>1, <2>2 DEF HubOfLock, Tells, Adds, Other, Event, LockKinds, Committed
<1>25. ASSUME Mark PROVE HubOfLock
  <2>1. Begins(Transition("turn", "delivered", fg.ids, "main", given + 1))
    BY <1>25, InputActions
  <2>2. Posted(Event(given + 1, "delivered", fg.ids, "main"))
    BY <1>25, HubActions
  <2>3. Event(lock'.at, lock'.kind, lock'.ids, lock'.to) = Event(given + 1, "delivered", fg.ids, "main")
    BY <2>1 DEF Begins, Transition, Event
  <2>4. Begins(lock') /\ lock' # Free /\ lock'.kind \in LockKinds
    BY <2>1 DEF Begins, Transition, Free, LockKinds
  <2> QED
    BY <2>2, <2>3, <2>4 DEF HubOfLock, Adds
<1>26. ASSUME Marked PROVE HubOfLock
  <2>1. UNCHANGED hubVars
    BY <1>26 DEF Marked
  <2> QED
    BY <1>26, <2>1, InputActions DEF HubOfLock
<1>27. ASSUME CancelTurn PROVE HubOfLock
  <2>1. UNCHANGED lock
    BY <1>27 DEF CancelTurn, inputVars
  <2>2. UNCHANGED hubVars \/ \E w \in wire : Settled(w)
    BY <1>27, HubActions
  <2> QED
    BY <2>1, <2>2 DEF HubOfLock, Tells, Adds, Other, Event, LockKinds
<1>28. ASSUME ChildStore PROVE HubOfLock
  <2>1. UNCHANGED lock
    BY <1>28 DEF ChildStore, inputVars
  <2>2. Posted(Event(given + 1, "committed", Head(child.queue), "child"))
    BY <1>28, HubActions
  <2> QED
    BY <2>1, <2>2 DEF HubOfLock, Tells, Adds, Other, Event, LockKinds
<1>29. ASSUME ChildMark PROVE HubOfLock
  <2>1. Begins(Transition("child", "delivered", Head(child.queue), "child", given + 1))
    BY <1>29, InputActions
  <2>2. Posted(Event(given + 1, "delivered", Head(child.queue), "child"))
    BY <1>29, HubActions
  <2>3. Event(lock'.at, lock'.kind, lock'.ids, lock'.to) = Event(given + 1, "delivered",
  Head(child.queue), "child")
    BY <2>1 DEF Begins, Transition, Event
  <2>4. Begins(lock') /\ lock' # Free /\ lock'.kind \in LockKinds
    BY <2>1 DEF Begins, Transition, Free, LockKinds
  <2> QED
    BY <2>2, <2>3, <2>4 DEF HubOfLock, Adds
<1>30. ASSUME ChildMarked PROVE HubOfLock
  <2>1. UNCHANGED hubVars
    BY <1>30 DEF ChildMarked
  <2> QED
    BY <1>30, <2>1, InputActions DEF HubOfLock
<1>31. Up \/ Escape \/ Stop \/ ChildStops =>
        UNCHANGED <<lock, hubVars>>
  BY DEF Up, Escape, Stop, ChildStops, Outside, RecallAt, inputVars, StopOn, promptVars,
         loopVars, turnVars, ChildOnly, Comes, arrivals
<1>32. ASSUME Enter PROVE HubOfLock
  <2>1. UNCHANGED lock
    BY <1>32 DEF Enter, inputVars
  <2> QED
    BY <1>32, <2>1, HubActions DEF HubOfLock
<1>33. ASSUME NEW p \in Peers, Arrive(p) PROVE HubOfLock
  <2>1. UNCHANGED lock
    BY <1>33 DEF Arrive, inputVars
  <2>2. Posted(Other(given + 1, "main"))
    BY <1>33, HubActions
  <2> QED
    BY <2>1, <2>2 DEF HubOfLock, Tells, Adds, Other, Event, LockKinds
<1>34. UNCHANGED vars => UNCHANGED <<lock, hubVars>>
  BY DEF vars, inputVars, promptVars, arrivals, loopVars, turnVars
<1> QED
  BY <1>1, <1>2, <1>3, <1>4, <1>5, <1>6, <1>7, <1>8, <1>9, <1>10, <1>11, <1>12, <1>13, <1>14,
     <1>15, <1>16, <1>17, <1>18, <1>19, <1>20, <1>21, <1>22, <1>23, <1>24, <1>25, <1>26, <1>27,
     <1>28, <1>29, <1>30, <1>31, <1>32, <1>33, <1>34
     DEF Next, Prompt, RecallStep, ArrivalStep, LoopStep, TurnStep, ChildStep, FromOutside, Rest, HubStep

\* Every transition on its way is still that of the lock, once.
LEMMA WireKept ==
  ASSUME HubTyped, InputTyped, HubInv, WireInv, HubOfLock
  PROVE  WireInv'
<1>1. given \in Nat /\ next \in Nat /\ wire \subseteq Marks /\ (lock = Free \/ lock \in Holding)
  BY DEF HubTyped, InputTyped
<1>2. lock \in Holding => lock # Free /\ lock.at \in Nat /\ lock.kind \in LockKinds
  BY DEF Holding, Free, LockKinds
<1>3. Announced.at = lock.at /\ Announced.kind = lock.kind
  BY DEF Announced, Event
<1>4. "other" \notin LockKinds
  BY DEF LockKinds
<1>5. ASSUME UNCHANGED lock PROVE Announced' = Announced
  BY <1>5 DEF Announced
<1>6. CASE UNCHANGED lock /\ UNCHANGED hubVars
  BY <1>5, <1>6 DEF WireInv, hubVars, Over
<1>7. CASE UNCHANGED lock /\ Took
  BY <1>1, <1>2, <1>5, <1>7 DEF WireInv, Took, Over
<1>8. CASE UNCHANGED lock /\ GaveUp(editor.place)
  BY <1>5, <1>8 DEF WireInv, GaveUp, Over
<1>9. CASE UNCHANGED lock /\ Passed
  BY <1>1, <1>2, <1>5, <1>9 DEF WireInv, Passed, Over
<1>10. ASSUME NEW w \in wire, UNCHANGED lock, Settled(w) PROVE WireInv'
  BY <1>1, <1>2, <1>3, <1>5, <1>10 DEF WireInv, Settled, Over
<1>11. ASSUME NEW w, UNCHANGED lock, w.kind \notin LockKinds, w.kind = "other"
      => w.ids = {}, Adds(w) PROVE WireInv'
  BY <1>1, <1>2, <1>4, <1>5, <1>11 DEF WireInv, Adds, Posted, Filled, Over
<1>12. CASE Commits /\ UNCHANGED hubVars
  <2>1. lock # Free /\ lock' = Free /\ next > lock.at /\ UNCHANGED <<wire, next, given>>
    BY <1>12 DEF Commits, Over, hubVars
  <2>2. Announced \notin wire
    BY <1>1, <1>2, <1>3, <2>1 DEF HubInv
  <2> QED
    BY <2>1, <2>2 DEF WireInv
<1>13. CASE Begins(lock') /\ lock' # Free /\ lock'.kind \in LockKinds
             /\ Adds(Event(lock'.at, lock'.kind, lock'.ids, lock'.to))
  <2> DEFINE w == Event(lock'.at, lock'.kind, lock'.ids, lock'.to)
  <2>1. w = Announced' /\ w.at = lock'.at /\ w.kind = lock'.kind
    BY DEF Announced, Event
  <2>2. lock = Free /\ wire' = wire \cup {w} /\ w.at <= given'
    BY <1>1, <1>13 DEF Begins, Adds, Posted, Filled, HubInv
  <2>3. \A v \in wire : v.kind \notin LockKinds
    BY <2>2 DEF WireInv
  <2> HIDE DEF w
  <2> QED
    BY <1>4, <1>13, <2>1, <2>2, <2>3 DEF WireInv
<1> QED
  BY <1>6, <1>7, <1>8, <1>9, <1>10, <1>11, <1>12, <1>13 DEF HubOfLock, Tells

-----------------------------------------------------------------------------
(* The editor and the inputs that are known.                               *)

\* What a transition finds when it takes effect.
LEMMA LockFits ==
  ASSUME InputTyped, PromptTyped, EditorInv, LockInv, CarriersInv, child \in Child, lock # Free
  PROVE  /\ lock \in Holding
         /\ lock.kind = "buffered" =>
              /\ lock.by = "editor" /\ editor.at = "admitting" /\ editor.id \in Inputs
                   /\ ~Known(editor.id)
              /\ editor.id = typed /\ lock.ids = {editor.id} /\ lock.to = editor.to
                   /\ lock.at = editor.place
         /\ lock.by = "editor" => lock.kind = "buffered"
         /\ lock.kind \in {"recalled", "claimed"} => lock.ids \subseteq Pending
         /\ lock.kind = "delivered" => Taken(lock.ids, lock.to)
<1>1. lock \in Holding /\ lock.by \in Owners
  BY DEF InputTyped, Holding
<1>2. CASE lock.by = "editor"
  <2>1. editor.at = "admitting" /\ lock = Transition("editor", "buffered", {editor.id}, editor.to,
        editor.place)
    BY <1>2 DEF LockInv, EditorLock
  <2>2. lock.kind = "buffered" /\ lock.ids = {editor.id} /\ lock.to = editor.to /\ lock.at = editor.place
    BY <2>1 DEF Transition
  <2>3. editor.id = typed /\ typed \in Inputs /\ ~Known(typed)
    BY <2>1 DEF EditorInv, Submitting
  <2> QED
    BY <1>1, <1>2, <2>1, <2>2, <2>3
<1>3. CASE lock.by = "recall"
  BY <1>1, <1>3 DEF LockInv, RecallLock
<1>4. CASE lock.by = "loop"
  BY <1>1, <1>4 DEF LockInv, LoopLock
<1>5. CASE lock.by = "turn"
  <2>1. lock.kind = "delivered" /\ lock.ids = fg.ids /\ lock.to = "main" /\ fg.at = "marking"
    BY <1>5 DEF LockInv, TurnLock
  <2>2. Taken(fg.ids, "main")
    BY <2>1 DEF CarriersInv, TurnCarries, AfterStore
  <2> QED
    BY <1>1, <1>5, <2>1, <2>2
<1>6. CASE lock.by = "child"
  <2>1. lock.kind = "delivered" /\ lock.ids = Head(child.queue) /\ lock.to = "child"
        /\ child.queue # << >>
    BY <1>6 DEF LockInv, ChildLock
  <2>2. child.queue \in Seq(SUBSET Inputs) => Len(child.queue) \in Nat /\ 1 \in 1..Len(child.queue)
        /\ Head(child.queue) = child.queue[1]
    BY <2>1
  <2>3. child \in Child => Taken(Head(child.queue), "child")
    BY <2>2 DEF CarriersInv, ChildCarries, Child
  <2> QED
    BY <1>1, <1>6, <2>1, <2>3
<1> QED
  BY <1>1, <1>2, <1>3, <1>4, <1>5, <1>6 DEF Owners

\* No transition but an admission makes an input known.
LEMMA KnownSame ==
  ASSUME InputTyped, PromptTyped, EditorInv, LockInv, CarriersInv, child \in Child, InputMove,
         Commits => lock.by # "editor", NEW i \in Inputs
  PROVE  (Known(i)' <=> Known(i)) /\ entries'[i].seq = entries[i].seq
<1>1. CASE entries' = entries
  BY <1>1 DEF Known
<1>2. CASE Commits
  <2>1. lock.kind \in {"recalled", "claimed", "delivered"} /\ lock \in Holding
    BY <1>2, LockFits DEF Commits, Holding, LockKinds
  <2>2. i \in lock.ids => Known(i)
    BY <1>2, <2>1, LockFits DEF Commits, Pending, Taken, Known
  <2>3. entries'[i] = IF i \notin lock.ids THEN entries[i]
                      ELSE CASE lock.kind = "recalled"  -> [entries[i] EXCEPT !.status = "recalled"]
                             [] lock.kind = "claimed"   -> [entries[i] EXCEPT !.status = "claimed",
                                   !.to = lock.to]
                             [] lock.kind = "delivered" -> [entries[i] EXCEPT !.status = "delivered"]
    BY <1>2, <2>1 DEF Commits, After
  <2>4. entries[i] \in Entry
    BY DEF InputTyped
  <2> QED
    BY <2>1, <2>2, <2>3, <2>4 DEF Known, Entry
<1> QED
  BY <1>1, <1>2 DEF InputMove, Begins, inputVars

\* An Enter keeps its place until it is admitted, retained or given up.
LEMMA PlaceReserved ==
  ASSUME PromptTyped, (editor.at = "accepted" => editor.place \in reserved), [Next]_vars
  PROVE  (editor.at = "accepted" => editor.place \in reserved)'
<1>1. UNCHANGED <<editor, reserved>> => (editor.at = "accepted" => editor.place \in reserved)'
  BY DEF PromptTyped
<1>2. ASSUME Deliver /\ HubOnly PROVE (editor.at = "accepted" => editor.place \in reserved)'
  <2>1. UNCHANGED <<editor, reserved>>
    BY <1>2, DeliverMoves DEF HubOnly, promptVars, Settled, Passed
  <2> QED
    BY <2>1
<1>3. ASSUME PassDropped /\ HubOnly PROVE (editor.at = "accepted" => editor.place \in reserved)'
  <2>1. UNCHANGED <<editor, reserved>>
    BY <1>3, PassMoves DEF HubOnly, promptVars, Settled, Passed
  <2> QED
    BY <2>1
<1>4. ASSUME SubmitCommand PROVE (editor.at = "accepted" => editor.place \in reserved)'
  <2>1. editor'.at # "accepted"
    BY <1>4 DEF SubmitCommand, EditorAt, inputVars, turnVars, arrivals, loopVars, PromptTyped, Editor
  <2> QED
    BY <2>1
<1>5. ASSUME Retain PROVE (editor.at = "accepted" => editor.place \in reserved)'
  <2>1. editor'.at # "accepted"
    BY <1>5 DEF Retain, inputVars, arrivals, loopVars, turnVars, PromptTyped, Editor
  <2> QED
    BY <2>1
<1>6. ASSUME Retained PROVE (editor.at = "accepted" => editor.place \in reserved)'
  <2>1. editor'.at # "accepted" \/ (editor' = editor /\ UNCHANGED hubVars)
    BY <1>6 DEF Retained, EditorAt, inputVars, turnVars, arrivals, loopVars, PromptTyped, Editor, Closed
  <2> QED
    BY <2>1 DEF hubVars
<1>7. ASSUME Admit PROVE (editor.at = "accepted" => editor.place \in reserved)'
  <2>1. editor'.at # "accepted"
    BY <1>7 DEF Admit, EditorAt, turnVars, arrivals, loopVars, PromptTyped, Editor
  <2> QED
    BY <2>1
<1>8. ASSUME Admitted PROVE (editor.at = "accepted" => editor.place \in reserved)'
  <2>1. editor'.at # "accepted" \/ (editor' = editor /\ UNCHANGED hubVars)
    BY <1>8 DEF Admitted, EditorAt, arrivals, loopVars, PromptTyped, Editor, Closed
  <2> QED
    BY <2>1 DEF hubVars
<1>9. NothingToRecall \/ Recalled =>
        UNCHANGED <<editor, reserved>>
  BY DEF NothingToRecall, Recalled, RecallAt, hubVars, inputVars, arrivals, loopVars, turnVars
<1>10. ASSUME Recall PROVE (editor.at = "accepted" => editor.place \in reserved)'
  <2>1. UNCHANGED editor
    BY <1>10 DEF Recall, RecallAt, arrivals, loopVars, turnVars
  <2>2. UNCHANGED reserved
    BY <1>10, HubActions DEF Posted, Settled, hubVars
  <2> QED
    BY <2>1, <2>2
<1>11. (\E x \in Escapes : QueueInterrupt(x)) \/ (\E p \in Peers : QueueIncoming(p))
        \/ (\E p \in Peers : TakeIncoming(p)) =>
        UNCHANGED <<editor, reserved>>
  BY DEF QueueInterrupt, QueueIncoming, TakeIncoming, Comes, StopOn, hubVars, inputVars,
         promptVars, loopVars, turnVars
<1>12. ASSUME NEW x \in Escapes, RequestInterrupt(x) PROVE (editor.at = "accepted"
      => editor.place \in reserved)'
  <2>1. UNCHANGED editor
    BY <1>12 DEF RequestInterrupt, Comes, inputVars, promptVars, loopVars, turnVars
  <2>2. UNCHANGED reserved
    BY <1>12, HubActions DEF Posted, Settled, hubVars
  <2> QED
    BY <2>1, <2>2
<1>13. RunCommand \/ CommandRun \/ StartPeers \/ StartReady \/ ClaimOldest \/ Claimed \/ Wake
        \/ Accept \/ NothingForInterrupt \/ ClaimedAll \/ Barrier \/ Context \/ Break \/ Stopped =>
        UNCHANGED <<editor, reserved>>
  BY DEF RunCommand, CommandRun, StartPeers, StartReady, ClaimOldest, Claimed, Wake, Accept,
         NothingForInterrupt, ClaimedAll, Barrier, Context, Break, Stopped, LoopAt, hubVars,
         inputVars, promptVars, arrivals, turnVars, Apply
<1>14. ASSUME NothingToClaim PROVE (editor.at = "accepted" => editor.place \in reserved)'
  <2>1. editor'.at # "accepted" \/ (editor' = editor /\ UNCHANGED hubVars)
    BY <1>14 DEF NothingToClaim, Open, inputVars, LoopAt, PromptTyped, Editor, Closed
  <2> QED
    BY <2>1 DEF hubVars
<1>15. ASSUME Claim PROVE (editor.at = "accepted" => editor.place \in reserved)'
  <2>1. UNCHANGED editor
    BY <1>15 DEF Claim, LoopAt
  <2>2. UNCHANGED reserved
    BY <1>15, HubActions DEF Posted, Settled, hubVars
  <2> QED
    BY <2>1, <2>2
<1>16. ASSUME ClaimedTooLate PROVE (editor.at = "accepted" => editor.place \in reserved)'
  <2>1. editor'.at # "accepted" \/ (editor' = editor /\ UNCHANGED hubVars)
    BY <1>16 DEF ClaimedTooLate, Open, LoopAt, PromptTyped, Editor, Closed
  <2> QED
    BY <2>1 DEF hubVars
<1>17. ASSUME Await PROVE (editor.at = "accepted" => editor.place \in reserved)'
  <2>1. editor'.at # "accepted" \/ (editor' = editor /\ UNCHANGED hubVars)
    BY <1>17 DEF Await, Open, inputVars, LoopAt, PromptTyped, Editor, Closed
  <2> QED
    BY <2>1 DEF hubVars
<1>18. ASSUME ClaimAll PROVE (editor.at = "accepted" => editor.place \in reserved)'
  <2>1. UNCHANGED editor
    BY <1>18 DEF ClaimAll, LoopAt
  <2>2. UNCHANGED reserved
    BY <1>18, HubActions DEF Posted, Settled, hubVars
  <2> QED
    BY <2>1, <2>2
<1>19. ASSUME Finalize PROVE (editor.at = "accepted" => editor.place \in reserved)'
  <2>1. UNCHANGED editor
    BY <1>19 DEF Finalize, inputVars, promptVars, arrivals, turnVars
  <2>2. UNCHANGED reserved
    BY <1>19, HubActions DEF Posted, Settled, hubVars
  <2> QED
    BY <2>1, <2>2
<1>20. ASSUME Submitted PROVE (editor.at = "accepted" => editor.place \in reserved)'
  <2>1. editor'.at # "accepted" \/ (editor' = editor /\ UNCHANGED hubVars)
    BY <1>20 DEF Submitted, LoopAt, inputVars, PromptTyped, Editor, Closed
  <2> QED
    BY <2>1 DEF hubVars
<1>21. ASSUME Record PROVE (editor.at = "accepted" => editor.place \in reserved)'
  <2>1. UNCHANGED editor
    BY <1>21 DEF Record, inputVars, promptVars, arrivals, turnVars
  <2>2. UNCHANGED reserved
    BY <1>21, HubActions DEF Posted, Settled, hubVars
  <2> QED
    BY <2>1, <2>2
<1>22. Forward \/ StartTurn \/ Marked \/ CallTools \/ ToolsDone \/ BoundaryPassed \/ Proceed
        \/ Answer \/ EndTurn =>
        UNCHANGED <<editor, reserved>>
  BY DEF Forward, StartTurn, Marked, CallTools, ToolsDone, BoundaryPassed, Proceed, Answer,
         EndTurn, TurnAt, hubVars, inputVars, TurnOnly, promptVars, arrivals, loopVars
<1>23. ASSUME StoreItems PROVE (editor.at = "accepted" => editor.place \in reserved)'
  <2>1. UNCHANGED editor
    BY <1>23 DEF StoreItems, TurnOnly, inputVars, promptVars, arrivals, loopVars
  <2>2. UNCHANGED reserved
    BY <1>23, HubActions DEF Posted, Settled, hubVars
  <2> QED
    BY <2>1, <2>2
<1>24. ASSUME ItemCommitted PROVE (editor.at = "accepted" => editor.place \in reserved)'
  <2>1. UNCHANGED editor
    BY <1>24 DEF ItemCommitted, TurnOnly, inputVars, promptVars, arrivals, loopVars
  <2>2. UNCHANGED reserved
    BY <1>24, HubActions DEF Posted, Settled, hubVars
  <2> QED
    BY <2>1, <2>2
<1>25. ASSUME Mark PROVE (editor.at = "accepted" => editor.place \in reserved)'
  <2>1. UNCHANGED editor
    BY <1>25 DEF Mark, TurnAt, TurnOnly, promptVars, arrivals, loopVars
  <2>2. UNCHANGED reserved
    BY <1>25, HubActions DEF Posted, Settled, hubVars
  <2> QED
    BY <2>1, <2>2
<1>26. ASSUME CancelTurn PROVE (editor.at = "accepted" => editor.place \in reserved)'
  <2>1. UNCHANGED editor
    BY <1>26 DEF CancelTurn, TurnAt, inputVars, TurnOnly, promptVars, arrivals, loopVars
  <2>2. UNCHANGED reserved
    BY <1>26, HubActions DEF Posted, Settled, hubVars
  <2> QED
    BY <2>1, <2>2
<1>27. ChildMarked =>
        UNCHANGED <<editor, reserved>>
  BY DEF ChildMarked, ChildOnly, hubVars, promptVars, arrivals, loopVars, turnVars
<1>28. ASSUME ChildStore PROVE (editor.at = "accepted" => editor.place \in reserved)'
  <2>1. UNCHANGED editor
    BY <1>28 DEF ChildStore, ChildOnly, inputVars, promptVars, arrivals, loopVars, turnVars
  <2>2. UNCHANGED reserved
    BY <1>28, HubActions DEF Posted, Settled, hubVars
  <2> QED
    BY <2>1, <2>2
<1>29. ASSUME ChildMark PROVE (editor.at = "accepted" => editor.place \in reserved)'
  <2>1. UNCHANGED editor
    BY <1>29 DEF ChildMark, ChildOnly, promptVars, arrivals, loopVars, turnVars
  <2>2. UNCHANGED reserved
    BY <1>29, HubActions DEF Posted, Settled, hubVars
  <2> QED
    BY <2>1, <2>2
<1>30. Up \/ Escape \/ ChildStops =>
        UNCHANGED <<editor, reserved>>
  BY DEF Up, Escape, ChildStops, Outside, RecallAt, hubVars, inputVars, StopOn, promptVars,
         loopVars, ChildOnly, Comes, arrivals, turnVars
<1>31. ASSUME Enter PROVE (editor.at = "accepted" => editor.place \in reserved)'
  <2>1. PICK what \in Kinds, a \in Agents :
          editor' = [at |-> "accepted", id |-> typed + 1, to |-> a, place |-> given + 1]
    BY <1>31 DEF Enter
  <2>2. editor'.place = given + 1
    BY <2>1
  <2>3. reserved' = reserved \cup {given + 1}
    BY <1>31, HubActions DEF Took
  <2> QED
    BY <2>2, <2>3
<1>32. ASSUME Stop PROVE (editor.at = "accepted" => editor.place \in reserved)'
  <2>1. editor'.at # "accepted" \/ (editor' = editor /\ UNCHANGED hubVars)
    BY <1>32 DEF Stop, Outside, turnVars, StopOn, inputVars, loopVars, Comes, PromptTyped, Editor, Closed
  <2> QED
    BY <2>1 DEF hubVars
<1>33. ASSUME NEW p \in Peers, Arrive(p) PROVE (editor.at = "accepted" => editor.place \in reserved)'
  <2>1. UNCHANGED editor
    BY <1>33 DEF Arrive, Outside, inputVars, promptVars, loopVars, turnVars, Comes
  <2>2. UNCHANGED reserved
    BY <1>33, HubActions DEF Posted, Settled, hubVars
  <2> QED
    BY <2>1, <2>2
<1>34. UNCHANGED vars => UNCHANGED <<editor, reserved>>
  BY DEF vars, hubVars, inputVars, promptVars, arrivals, loopVars, turnVars
<1> QED
  BY <1>1, <1>2, <1>3, <1>4, <1>5, <1>6, <1>7, <1>8, <1>9, <1>10, <1>11, <1>12, <1>13, <1>14,
     <1>15, <1>16, <1>17, <1>18, <1>19, <1>20, <1>21, <1>22, <1>23, <1>24, <1>25, <1>26, <1>27,
     <1>28, <1>29, <1>30, <1>31, <1>32, <1>33, <1>34
     DEF Next, Prompt, RecallStep, ArrivalStep, LoopStep, TurnStep, ChildStep, FromOutside, Rest, HubStep

\* The inputs that are known, and the one that is being submitted.
Orderly ==
  /\ Submitting =>
       /\ editor.id = typed /\ typed \in Inputs /\ ~Known(typed) /\ editor.place <= given
       /\ \A i \in Inputs : Known(i) => entries[i].seq < editor.place
  /\ \A i \in Inputs : Known(i) => i <= typed /\ entries[i].seq <= given
  /\ \A i, j \in Inputs : Known(i) /\ Known(j) /\ i < j => entries[i].seq < entries[j].seq

\* Inputs become known in the order of their Enters.
LEMMA OrderlyKept ==
  ASSUME HubTyped, HubInv, PromptTyped, InputTyped, child \in Child, EditorInv, LockInv, LockInv',
  CarriersInv, HubMove, InputMove, Orderly, [Next]_vars
  PROVE  Orderly'
<1>1. ASSUME Commits => lock.by # "editor", typed' = typed,
             ~Submitting' \/ editor' = editor
      PROVE  Orderly'
  <2>1. \A i \in Inputs : (Known(i)' <=> Known(i)) /\ entries'[i].seq = entries[i].seq
        /\ entries[i].seq \in Nat
    BY <1>1, KnownSame DEF InputTyped, Entry
  <2>2. given <= given' /\ given \in Nat /\ given' \in Nat /\ editor.place \in Nat
    BY OrderGrows, HubKept DEF HubTyped, PromptTyped, Editor
  <2> QED
    BY <1>1, <2>1, <2>2 DEF Orderly, Submitting
<1>2. given <= given' /\ given \in Nat /\ given' \in Nat /\ \A i \in Inputs : entries[i].seq \in Nat
  BY OrderGrows, HubKept DEF HubTyped, InputTyped, Entry
<1>0. UNCHANGED <<editor, typed>> => Orderly'
  <2>1. UNCHANGED editor /\ Commits => lock.by # "editor"
    BY DEF Commits, LockInv, EditorLock, Free
  <2> QED
    BY <1>1, <2>1
<1>3. HubStep => UNCHANGED <<editor, typed>>
  BY DEF HubStep, HubOnly, inputVars, promptVars, arrivals, loopVars, turnVars
<1>4. ASSUME SubmitCommand PROVE Orderly'
  <2>1. ~Submitting' /\ typed' = typed
    BY <1>4 DEF SubmitCommand, EditorAt, inputVars, turnVars, arrivals, loopVars, PromptTyped, Editor,
       Closed, Submitting
  <2>2. Commits => lock.by # "editor"
    BY <1>4, InputActions DEF SubmitCommand, EditorAt, inputVars, turnVars, arrivals, loopVars, Commits,
       Free, EditorLock, LockInv
  <2> QED
    BY <1>1, <2>1, <2>2
<1>5. ASSUME Retain PROVE Orderly'
  <2>1. ~Submitting' /\ typed' = typed
    BY <1>5 DEF Retain, inputVars, arrivals, loopVars, turnVars, PromptTyped, Editor, Closed, Submitting
  <2>2. Commits => lock.by # "editor"
    BY <1>5, InputActions DEF Retain, inputVars, arrivals, loopVars, turnVars, Commits, Free,
       EditorLock, LockInv
  <2> QED
    BY <1>1, <2>1, <2>2
<1>6. ASSUME Retained PROVE Orderly'
  <2>1. ~Submitting' /\ typed' = typed
    BY <1>6 DEF Retained, EditorAt, inputVars, turnVars, arrivals, loopVars, PromptTyped, Editor,
       Closed, Submitting
  <2>2. Commits => lock.by # "editor"
    BY <1>6, InputActions DEF Retained, EditorAt, inputVars, turnVars, arrivals, loopVars, Commits,
       Free, EditorLock, LockInv
  <2> QED
    BY <1>1, <2>1, <2>2
<1>7. ASSUME Admit PROVE Orderly'
  <2>1. editor'.at = "admitting" /\ editor'.id = editor.id /\ editor'.place = editor.place /\ Submitting
        /\ UNCHANGED <<typed, entries>>
    BY <1>7, InputActions DEF Admit, EditorAt, PromptTyped, Editor, Submitting, Begins
  <2> QED
    BY <1>1, <1>2, <2>1 DEF Orderly, Submitting, Known, HubTyped, PromptTyped, Editor
<1>8. ASSUME Admitted PROVE Orderly'
  <2>1. ~Submitting' /\ typed' = typed /\ editor.at = "admitting" /\ UNCHANGED given
    BY <1>8 DEF Admitted, EditorAt, PromptTyped, Editor, Submitting, hubVars
  <2>2. lock # Free /\ lock.by = "editor" /\ entries' = After(lock)
    BY <1>8, InputActions DEF Commits
  <2>3. lock.kind = "buffered" /\ lock.ids = {typed} /\ lock.at = editor.place /\ typed \in Inputs
    BY <2>2, LockFits
  <2>4. \A i \in Inputs : entries'[i] = IF i = typed THEN [status |-> "pending", seq |-> editor.place,
        to |-> lock.to]
                                        ELSE entries[i]
    BY <2>2, <2>3 DEF After
  <2>5. \A i \in Inputs : i \in Nat /\ entries[i].seq \in Nat
    BY InputsAssumption DEF InputTyped, Entry
  <2>6. typed \in Nat /\ given \in Nat /\ editor.place \in Nat
    BY DEF PromptTyped, HubTyped, Editor
  <2>7. \A i \in Inputs : IF i = typed THEN Known(i)' /\ entries'[i].seq = editor.place
                           ELSE (Known(i)' <=> Known(i)) /\ entries'[i].seq = entries[i].seq
    BY <2>4 DEF Known
  <2>8. Submitting
    BY <2>1 DEF Submitting
  <2> QED
    BY <2>1, <2>5, <2>6, <2>7, <2>8 DEF Orderly
<1>9. Recall \/ NothingToRecall \/ Recalled =>
        UNCHANGED <<editor, typed>>
  BY DEF Recall, NothingToRecall, Recalled, RecallAt, inputVars, arrivals, loopVars, turnVars
<1>10. (\E x \in Escapes : RequestInterrupt(x)) \/ (\E x \in Escapes : QueueInterrupt(x))
        \/ (\E p \in Peers : QueueIncoming(p)) \/ (\E p \in Peers : TakeIncoming(p)) =>
        UNCHANGED <<editor, typed>>
  BY DEF RequestInterrupt, QueueInterrupt, QueueIncoming, TakeIncoming, Comes, inputVars,
         promptVars, loopVars, turnVars, StopOn
<1>11. RunCommand \/ CommandRun \/ StartPeers \/ StartReady \/ ClaimOldest \/ Claim \/ Claimed
        \/ Wake \/ Accept \/ NothingForInterrupt \/ ClaimAll \/ ClaimedAll \/ Finalize
        \/ Barrier \/ Context \/ Break \/ Record \/ Stopped =>
        UNCHANGED <<editor, typed>>
  BY DEF RunCommand, CommandRun, StartPeers, StartReady, ClaimOldest, Claim, Claimed, Wake,
         Accept, NothingForInterrupt, ClaimAll, ClaimedAll, Finalize, Barrier, Context, Break,
         Record, Stopped, LoopAt, inputVars, promptVars, arrivals, turnVars, Apply
<1>12. ASSUME NothingToClaim PROVE Orderly'
  <2>1. (~Submitting' \/ editor' = editor) /\ typed' = typed
    BY <1>12 DEF NothingToClaim, Open, inputVars, LoopAt, PromptTyped, Editor, Closed, Submitting
  <2>2. Commits => lock.by # "editor"
    BY <1>12, InputActions DEF NothingToClaim, Open, inputVars, LoopAt, Commits, Free, EditorLock,
       LockInv
  <2> QED
    BY <1>1, <2>1, <2>2
<1>13. ASSUME ClaimedTooLate PROVE Orderly'
  <2>1. (~Submitting' \/ editor' = editor) /\ typed' = typed
    BY <1>13 DEF ClaimedTooLate, Open, LoopAt, PromptTyped, Editor, Closed, Submitting
  <2>2. Commits => lock.by # "editor"
    BY <1>13, InputActions DEF ClaimedTooLate, Open, LoopAt, Commits, Free, EditorLock, LockInv
  <2> QED
    BY <1>1, <2>1, <2>2
<1>14. ASSUME Await PROVE Orderly'
  <2>1. (~Submitting' \/ editor' = editor) /\ typed' = typed
    BY <1>14 DEF Await, Open, inputVars, LoopAt, PromptTyped, Editor, Closed, Submitting
  <2>2. Commits => lock.by # "editor"
    BY <1>14, InputActions DEF Await, Open, inputVars, LoopAt, Commits, Free, EditorLock, LockInv
  <2> QED
    BY <1>1, <2>1, <2>2
<1>15. ASSUME Submitted PROVE Orderly'
  <2>1. ~Submitting' /\ typed' = typed
    BY <1>15 DEF Submitted, LoopAt, inputVars, PromptTyped, Editor, Closed, Submitting
  <2>2. Commits => lock.by # "editor"
    BY <1>15, InputActions DEF Submitted, LoopAt, inputVars, Commits, Free, EditorLock, LockInv
  <2> QED
    BY <1>1, <2>1, <2>2
<1>16. Forward \/ StartTurn \/ StoreItems \/ ItemCommitted \/ Mark \/ Marked \/ CallTools
        \/ ToolsDone \/ BoundaryPassed \/ Proceed \/ Answer \/ CancelTurn \/ EndTurn =>
        UNCHANGED <<editor, typed>>
  BY DEF Forward, StartTurn, StoreItems, ItemCommitted, Mark, Marked, CallTools, ToolsDone,
         BoundaryPassed, Proceed, Answer, CancelTurn, EndTurn, TurnAt, inputVars, TurnOnly,
         promptVars, arrivals, loopVars
<1>17. ChildStore \/ ChildMark \/ ChildMarked =>
        UNCHANGED <<editor, typed>>
  BY DEF ChildStore, ChildMark, ChildMarked, ChildOnly, inputVars, promptVars, arrivals,
         loopVars, turnVars
<1>18. Up \/ Escape \/ ChildStops \/ (\E p \in Peers : Arrive(p)) =>
        UNCHANGED <<editor, typed>>
  BY DEF Up, Escape, ChildStops, Arrive, Outside, RecallAt, inputVars, StopOn, promptVars,
         loopVars, ChildOnly, turnVars, Comes, arrivals
<1>19. ASSUME Enter PROVE Orderly'
  <2>1. PICK what \in Kinds, a \in Agents :
          editor' = [at |-> "accepted", id |-> typed + 1, to |-> a, place |-> given + 1]
    BY <1>19 DEF Enter
  <2>2. typed' = typed + 1 /\ typed + 1 \in Inputs /\ given' = given + 1 /\ UNCHANGED entries
    BY <1>19, HubActions DEF Enter, inputVars, Took
  <2>3. editor'.id = typed + 1 /\ editor'.place = given + 1
    BY <2>1
  <2>4. \A i \in Inputs : i \in Nat /\ entries[i].seq \in Nat
    BY InputsAssumption DEF InputTyped, Entry
  <2>5. typed \in Nat /\ given \in Nat
    BY DEF PromptTyped, HubTyped
  <2>6. \A i \in Inputs : (Known(i)' <=> Known(i)) /\ entries'[i] = entries[i]
    BY <2>2 DEF Known
  <2>7. \A i \in Inputs : Known(i) => i <= typed /\ entries[i].seq <= given
    BY DEF Orderly
  <2>8. ~Known(typed + 1)
    BY <2>2, <2>5, <2>7
  <2>9. \A i, j \in Inputs : Known(i)' /\ Known(j)' /\ i < j => entries'[i].seq < entries'[j].seq
    BY <2>6 DEF Orderly
  <2>10. \A i \in Inputs : Known(i)' => i <= typed' /\ entries'[i].seq <= given'
        /\ entries'[i].seq < editor'.place
    BY <2>2, <2>3, <2>4, <2>5, <2>6, <2>7
  <2>11. PICK t \in Inputs : t = typed + 1
    BY <2>2
  <2>12. typed' = t /\ editor'.id = t /\ editor'.place = given' /\ given' \in Nat
    BY <2>2, <2>3, <2>5, <2>11
  <2>13. ~Known(t)'
    BY <2>6, <2>8, <2>11
  <2>14. editor'.id = typed' /\ typed' \in Inputs /\ editor'.place <= given'
    BY <2>12
  <2>15. entries'[typed'].status = "absent"
    BY <2>12, <2>13 DEF Known
  <2> QED
    BY <2>9, <2>10, <2>14, <2>15 DEF Orderly, Known
<1>20. ASSUME Stop PROVE Orderly'
  <2>1. (~Submitting' \/ editor' = editor) /\ typed' = typed
    BY <1>20 DEF Stop, Outside, turnVars, StopOn, inputVars, loopVars, Comes, PromptTyped, Editor,
       Closed, Submitting
  <2>2. Commits => lock.by # "editor"
    BY <1>20, InputActions DEF Stop, Outside, turnVars, StopOn, inputVars, loopVars, Comes, Commits,
       Free, EditorLock, LockInv
  <2> QED
    BY <1>1, <2>1, <2>2
<1>21. UNCHANGED vars => UNCHANGED <<editor, typed>>
  BY DEF vars, inputVars, promptVars, arrivals, loopVars, turnVars
<1> QED
  BY <1>0, <1>3, <1>4, <1>5, <1>6, <1>7, <1>8, <1>9, <1>10, <1>11, <1>12, <1>13, <1>14, <1>15,
     <1>16, <1>17, <1>18, <1>19, <1>20, <1>21
     DEF Next, Prompt, RecallStep, ArrivalStep, LoopStep, TurnStep, ChildStep, FromOutside, Rest

\* The known inputs keep their places, and what is submitted comes last.
LEMMA EditorKept ==
  ASSUME TypeOK, HubInv, EditorInv, LockInv, LockInv', CarriersInv, HubMove, InputMove, [Next]_vars
  PROVE  EditorInv'
<1>1. HubTyped /\ PromptTyped /\ InputTyped /\ child \in Child
  BY DEF TypeOK
<1>2. Orderly /\ (editor.at = "accepted" => editor.place \in reserved)
  BY DEF EditorInv, Orderly
<1>3. Orderly'
  BY <1>1, <1>2, OrderlyKept
<1>4. (editor.at = "accepted" => editor.place \in reserved)'
  BY <1>1, <1>2, PlaceReserved
<1> QED
  BY <1>3, <1>4 DEF EditorInv, Orderly

-----------------------------------------------------------------------------
(* Places.                                                                 *)

\* What a queue without its first element, or with one more, has.
LEMMA TailElements ==
  ASSUME NEW S, NEW s \in Seq(S), s # << >>
  PROVE  /\ Head(s) = s[1] /\ 1 \in 1..Len(s) /\ Head(s) \in S /\ Tail(s) \in Seq(S)
         /\ \A n \in 1..Len(Tail(s)) : n + 1 \in 1..Len(s) /\ Tail(s)[n] = s[n + 1]
         /\ \A n \in 1..Len(s) : n = 1 \/ (n - 1 \in 1..Len(Tail(s)) /\ Tail(s)[n - 1] = s[n])
<1>1. Len(s) \in Nat /\ Len(s) # 0
  BY LenProperties
<1>2. Tail(s) \in Seq(S) /\ Len(Tail(s)) = Len(s) - 1 /\ Head(s) = s[1] /\ Head(s) \in S
  BY HeadTailProperties
<1>3. \A n \in 1..Len(Tail(s)) : Tail(s)[n] = s[n + 1]
  BY <1>1, HeadTailProperties
<1> QED
  BY <1>1, <1>2, <1>3

\* The elements of a sequence with one more.
LEMMA AppendElements ==
  ASSUME NEW S, NEW s \in Seq(S), NEW e \in S
  PROVE  /\ \A n \in 1..Len(s) : n \in 1..Len(Append(s, e)) /\ Append(s, e)[n] = s[n]
         /\ \A n \in 1..Len(Append(s, e)) : (n \in 1..Len(s) /\ Append(s, e)[n] = s[n])
              \/ Append(s, e)[n] = e
         /\ Len(s) + 1 \in 1..Len(Append(s, e)) /\ Append(s, e)[Len(s) + 1] = e
<1>1. Len(s) \in Nat /\ Len(Append(s, e)) = Len(s) + 1
  BY AppendProperties, LenProperties
<1>2. \A n \in 1..Len(s) : Append(s, e)[n] = s[n]
  BY AppendProperties
<1>3. Append(s, e)[Len(s) + 1] = e
  BY AppendProperties
<1> QED
  BY <1>1, <1>2, <1>3

\* The places of what follows the first are among those there were.
LEMMA TailPlaces ==
  ASSUME NEW S, NEW s \in Seq(S), s # << >>
  PROVE  Head(s).place \in PlacesOf(s) /\ PlacesOf(Tail(s)) \subseteq PlacesOf(s)
  BY TailElements DEF PlacesOf

\* One more element brings its own place and no other.
LEMMA AppendPlaces ==
  ASSUME NEW S, NEW s \in Seq(S), NEW e \in S
  PROVE  PlacesOf(Append(s, e)) \subseteq PlacesOf(s) \cup {e.place}
  BY AppendElements DEF PlacesOf

\* An interrupt the loop is busy with stays what it is.
NowKept == /\ Interrupting' => Interrupting /\ main'.now = main.now
           /\ Finalizing' => Finalizing

\* A step that does not concern an interrupt leaves it alone.
LEMMA NowMoves ==
  ASSUME main \in Loop, [Next]_vars
  PROVE  NowKept \/ Wake \/ Accept \/ NothingForInterrupt \/ ClaimedAll \/ Barrier
<1>1. UNCHANGED <<main>> => NowKept \/ Wake \/ Accept \/ NothingForInterrupt \/ ClaimedAll \/ Barrier
  BY DEF NowKept, Interrupting, Finalizing
<1>2. HubStep => UNCHANGED <<main>>
  BY DEF HubStep, HubOnly, inputVars, promptVars, arrivals, loopVars, turnVars
<1>3. SubmitCommand \/ Retain \/ Retained \/ Admit \/ Admitted =>
        UNCHANGED <<main>>
  BY DEF SubmitCommand, Retain, Retained, Admit, Admitted, EditorAt, inputVars, turnVars,
         arrivals, loopVars
<1>4. Recall \/ NothingToRecall \/ Recalled =>
        UNCHANGED <<main>>
  BY DEF Recall, NothingToRecall, Recalled, RecallAt, inputVars, arrivals, loopVars, turnVars
<1>5. (\E x \in Escapes : RequestInterrupt(x)) \/ (\E x \in Escapes : QueueInterrupt(x))
        \/ (\E p \in Peers : QueueIncoming(p)) \/ (\E p \in Peers : TakeIncoming(p)) =>
        UNCHANGED <<main>>
  BY DEF RequestInterrupt, QueueInterrupt, QueueIncoming, TakeIncoming, Comes, inputVars,
         promptVars, loopVars, turnVars, StopOn
<1>6. ASSUME RunCommand PROVE NowKept \/ Wake \/ Accept \/ NothingForInterrupt \/ ClaimedAll \/ Barrier
  <2>1. main'.at \in {"command"}
    BY <1>6, LoopAtType DEF RunCommand, LoopPlaces
  <2> QED
    BY <2>1 DEF NowKept, Interrupting, Finalizing
<1>7. ASSUME CommandRun PROVE NowKept \/ Wake \/ Accept \/ NothingForInterrupt \/ ClaimedAll \/ Barrier
  <2>1. main'.at \in {"top", "stopping"}
    BY <1>7, LoopAtType DEF CommandRun, LoopPlaces
  <2> QED
    BY <2>1 DEF NowKept, Interrupting, Finalizing
<1>8. ASSUME StartPeers PROVE NowKept \/ Wake \/ Accept \/ NothingForInterrupt \/ ClaimedAll \/ Barrier
  <2>1. main'.at \in {"top"}
    BY <1>8, LoopAtType DEF StartPeers, LoopPlaces
  <2> QED
    BY <2>1 DEF NowKept, Interrupting, Finalizing
<1>9. ASSUME StartReady PROVE NowKept \/ Wake \/ Accept \/ NothingForInterrupt \/ ClaimedAll \/ Barrier
  <2>1. main'.at \in {"top"}
    BY <1>9, LoopAtType DEF StartReady, LoopPlaces
  <2> QED
    BY <2>1 DEF NowKept, Interrupting, Finalizing
<1>10. ASSUME ClaimOldest PROVE NowKept \/ Wake \/ Accept \/ NothingForInterrupt \/ ClaimedAll \/ Barrier
  <2>1. main'.at \in {"claim"}
    BY <1>10, LoopAtType DEF ClaimOldest, LoopPlaces
  <2> QED
    BY <2>1 DEF NowKept, Interrupting, Finalizing
<1>11. ASSUME NothingToClaim PROVE NowKept \/ Wake \/ Accept \/ NothingForInterrupt \/ ClaimedAll
      \/ Barrier
  <2>1. main'.at \in {"wait"}
    BY <1>11, LoopAtType DEF NothingToClaim, LoopPlaces, Open
  <2> QED
    BY <2>1 DEF NowKept, Interrupting, Finalizing
<1>12. ASSUME Claim PROVE NowKept \/ Wake \/ Accept \/ NothingForInterrupt \/ ClaimedAll \/ Barrier
  <2>1. main'.at \in {"claiming"}
    BY <1>12, LoopAtType DEF Claim, LoopPlaces
  <2> QED
    BY <2>1 DEF NowKept, Interrupting, Finalizing
<1>13. ASSUME Claimed PROVE NowKept \/ Wake \/ Accept \/ NothingForInterrupt \/ ClaimedAll \/ Barrier
  <2>1. main'.at \in {"top"}
    BY <1>13, LoopAtType DEF Claimed, LoopPlaces
  <2> QED
    BY <2>1 DEF NowKept, Interrupting, Finalizing
<1>14. ASSUME ClaimedTooLate PROVE NowKept \/ Wake \/ Accept \/ NothingForInterrupt \/ ClaimedAll
      \/ Barrier
  <2>1. main'.at \in {"wait"}
    BY <1>14, LoopAtType DEF ClaimedTooLate, LoopPlaces, Open
  <2> QED
    BY <2>1 DEF NowKept, Interrupting, Finalizing
<1>15. ASSUME Await PROVE NowKept \/ Wake \/ Accept \/ NothingForInterrupt \/ ClaimedAll \/ Barrier
  <2>1. main'.at \in {"wait"}
    BY <1>15, LoopAtType DEF Await, LoopPlaces, Open
  <2> QED
    BY <2>1 DEF NowKept, Interrupting, Finalizing
<1>16. ASSUME Wake PROVE NowKept \/ Wake \/ Accept \/ NothingForInterrupt \/ ClaimedAll \/ Barrier
  BY <1>16
<1>17. ASSUME Accept PROVE NowKept \/ Wake \/ Accept \/ NothingForInterrupt \/ ClaimedAll \/ Barrier
  BY <1>17
<1>18. ASSUME NothingForInterrupt PROVE NowKept \/ Wake \/ Accept \/ NothingForInterrupt
      \/ ClaimedAll \/ Barrier
  BY <1>18
<1>19. ASSUME ClaimAll PROVE NowKept \/ Wake \/ Accept \/ NothingForInterrupt \/ ClaimedAll \/ Barrier
  <2>1. main.at = "claimAll" /\ main' = [main EXCEPT !.at = "claimingAll"]
    BY <1>19 DEF ClaimAll, LoopAt
  <2>2. main'.at = "claimingAll" /\ main'.now = main.now
    BY <2>1 DEF Loop
  <2> QED
    BY <2>1, <2>2 DEF NowKept, Interrupting, Finalizing
<1>20. ASSUME ClaimedAll PROVE NowKept \/ Wake \/ Accept \/ NothingForInterrupt \/ ClaimedAll \/ Barrier
  BY <1>20
<1>21. ASSUME Finalize PROVE NowKept \/ Wake \/ Accept \/ NothingForInterrupt \/ ClaimedAll \/ Barrier
  <2>1. main.at = "finalize" /\ main'.at = "barrier" /\ main'.now = main.now
    BY <1>21 DEF Finalize, Loop
  <2> QED
    BY <2>1 DEF NowKept, Interrupting, Finalizing
<1>22. ASSUME Barrier PROVE NowKept \/ Wake \/ Accept \/ NothingForInterrupt \/ ClaimedAll \/ Barrier
  BY <1>22
<1>23. ASSUME Context PROVE NowKept \/ Wake \/ Accept \/ NothingForInterrupt \/ ClaimedAll \/ Barrier
  <2>1. NextPhase(main.done) \in {"accept", "input", "top"} /\ LoopAt(NextPhase(main.done))
    BY <1>23, NextPhaseType DEF Context
  <2>2. main'.at = NextPhase(main.done)
    BY <2>1, LoopAtType DEF LoopPlaces
  <2> QED
    BY <2>1, <2>2 DEF NowKept, Interrupting, Finalizing
<1>24. ASSUME Submitted PROVE NowKept \/ Wake \/ Accept \/ NothingForInterrupt \/ ClaimedAll \/ Barrier
  <2>1. main'.at \in {"command", "top"}
    BY <1>24, LoopAtType DEF Submitted, LoopPlaces
  <2> QED
    BY <2>1 DEF NowKept, Interrupting, Finalizing
<1>25. ASSUME Break PROVE NowKept \/ Wake \/ Accept \/ NothingForInterrupt \/ ClaimedAll \/ Barrier
  <2>1. main'.at \in {"stopping"}
    BY <1>25, LoopAtType DEF Break, LoopPlaces
  <2> QED
    BY <2>1 DEF NowKept, Interrupting, Finalizing
<1>26. ASSUME Record PROVE NowKept \/ Wake \/ Accept \/ NothingForInterrupt \/ ClaimedAll \/ Barrier
  <2>1. main'.at = "recording"
    BY <1>26 DEF Record, Loop
  <2> QED
    BY <2>1 DEF NowKept, Interrupting, Finalizing
<1>27. ASSUME Stopped PROVE NowKept \/ Wake \/ Accept \/ NothingForInterrupt \/ ClaimedAll \/ Barrier
  <2>1. main'.at \in {"stopped"}
    BY <1>27, LoopAtType DEF Stopped, LoopPlaces
  <2> QED
    BY <2>1 DEF NowKept, Interrupting, Finalizing
<1>28. Forward \/ StartTurn \/ StoreItems \/ ItemCommitted \/ Mark \/ Marked \/ CallTools
        \/ ToolsDone \/ BoundaryPassed \/ Proceed \/ Answer \/ CancelTurn \/ EndTurn =>
        UNCHANGED <<main>>
  BY DEF Forward, StartTurn, StoreItems, ItemCommitted, Mark, Marked, CallTools, ToolsDone,
         BoundaryPassed, Proceed, Answer, CancelTurn, EndTurn, TurnAt, inputVars, TurnOnly,
         promptVars, arrivals, loopVars
<1>29. ChildStore \/ ChildMark \/ ChildMarked =>
        UNCHANGED <<main>>
  BY DEF ChildStore, ChildMark, ChildMarked, ChildOnly, inputVars, promptVars, arrivals,
         loopVars, turnVars
<1>30. Enter \/ Up \/ Escape \/ Stop \/ ChildStops \/ (\E p \in Peers : Arrive(p)) =>
        UNCHANGED <<main>>
  BY DEF Enter, Up, Escape, Stop, ChildStops, Arrive, Outside, inputVars, arrivals, loopVars,
         turnVars, RecallAt, StopOn, promptVars, ChildOnly, Comes
<1>31. UNCHANGED vars => UNCHANGED <<main>>
  BY DEF vars, inputVars, promptVars, arrivals, loopVars, turnVars
<1> QED
  BY <1>1, <1>2, <1>3, <1>4, <1>5, <1>6, <1>7, <1>8, <1>9, <1>10, <1>11, <1>12, <1>13, <1>14,
     <1>15, <1>16, <1>17, <1>18, <1>19, <1>20, <1>21, <1>22, <1>23, <1>24, <1>25, <1>26, <1>27,
     <1>28, <1>29, <1>30, <1>31
     DEF Next, Prompt, RecallStep, ArrivalStep, LoopStep, TurnStep, ChildStep, FromOutside, Rest

\* Applying an interrupt makes no new place for one.
LEMMA ApplyPlaces ==
  ASSUME LoopTyped, main.at \in {"claimAll", "claimingAll"}, NEW ids \in SUBSET Inputs, Apply(ids)
  PROVE  RequestPlaces' \subseteq RequestPlaces
<1> DEFINE now == [main.now EXCEPT !.ids = ids]
<1>1. now \in Interrupts /\ now.place = main.now.place /\ main.now.place \in RequestPlaces
  BY DEF LoopTyped, Loop, Interrupts, RequestPlaces, BusyPlaces, Interrupting
<1>2. CASE Hits(now)
  <2>1. settling' = Append(settling, now) /\ main'.at = NextPhase(main.done)
        /\ UNCHANGED <<escape, interrupts>>
    BY <1>2 DEF Apply, LoopTyped, Loop, arrivals
  <2> HIDE DEF now
  <2>2. PlacesOf(settling') \subseteq PlacesOf(settling) \cup {main.now.place}
    BY <1>1, <2>1, AppendPlaces DEF LoopTyped
  <2>3. ~Interrupting'
    BY <2>1, NextPhaseType DEF Interrupting
  <2> QED
    BY <1>1, <2>1, <2>2, <2>3 DEF RequestPlaces, BusyPlaces, PostedPlaces
<1>3. CASE ~Hits(now)
  <2>1. main'.now = now /\ UNCHANGED <<escape, interrupts, settling>>
    BY <1>3 DEF Apply, LoopTyped, Loop, arrivals
  <2> HIDE DEF now
  <2> QED
    BY <1>1, <2>1 DEF RequestPlaces, BusyPlaces, PostedPlaces
<1> QED
  BY <1>2, <1>3

\* A request keeps its place until it is settled.
LEMMA RequestPlacesMove ==
  ASSUME InputTyped, ArrivalsTyped, LoopTyped, QueuesTyped, RequestedInv, [Next]_vars
  PROVE  RequestPlaces' \subseteq RequestPlaces \/ \E x \in Escapes : RequestInterrupt(x)
<1>0. NowKept \/ Wake \/ Accept \/ NothingForInterrupt \/ ClaimedAll \/ Barrier
  BY NowMoves DEF LoopTyped
<1>1. UNCHANGED <<escape, interrupts, settling>> /\ NowKept => RequestPlaces' \subseteq RequestPlaces
      \/ \E x \in Escapes : RequestInterrupt(x)
  BY DEF RequestPlaces, BusyPlaces, PostedPlaces, NowKept
<1>2. HubStep => UNCHANGED <<escape, interrupts, settling>>
  BY DEF HubStep, HubOnly, inputVars, promptVars, arrivals, loopVars, turnVars
<1>3. SubmitCommand \/ Retain \/ Retained \/ Admit \/ Admitted =>
        UNCHANGED <<escape, interrupts, settling>>
  BY DEF SubmitCommand, Retain, Retained, Admit, Admitted, EditorAt, inputVars, turnVars,
         arrivals, loopVars
<1>4. Recall \/ NothingToRecall \/ Recalled =>
        UNCHANGED <<escape, interrupts, settling>>
  BY DEF Recall, NothingToRecall, Recalled, RecallAt, inputVars, arrivals, loopVars, turnVars
<1>5. (\E p \in Peers : QueueIncoming(p)) \/ (\E p \in Peers : TakeIncoming(p)) =>
        UNCHANGED <<escape, interrupts, settling>>
  BY DEF QueueIncoming, TakeIncoming, Comes, StopOn, inputVars, promptVars, loopVars, turnVars
<1>6. ASSUME NEW x \in Escapes, RequestInterrupt(x) PROVE RequestPlaces' \subseteq RequestPlaces
      \/ \E y \in Escapes : RequestInterrupt(y)
  BY <1>6
<1>7. ASSUME NEW x \in Escapes, QueueInterrupt(x) PROVE RequestPlaces' \subseteq RequestPlaces
      \/ \E y \in Escapes : RequestInterrupt(y)
  <2> DEFINE r == [turn |-> escape[x].turn, to |-> escape[x].to, place |-> escape[x].place, ids |-> {}]
  <2>1. escape[x].at = "posted" /\ escape' = [escape EXCEPT ![x] = Handed]
        /\ interrupts' = Append(interrupts, r)
        /\ UNCHANGED <<main, settling>>
    BY <1>7 DEF QueueInterrupt, FirstAt
  <2>2. escape[x] \in Request
    BY <1>7 DEF ArrivalsTyped
  <2>3. r \in Interrupts /\ r.place = escape[x].place
    BY <2>2 DEF Interrupts, Request
  <2> HIDE DEF r
  <2>4. PlacesOf(interrupts') \subseteq PlacesOf(interrupts) \cup {escape[x].place}
    BY <2>1, <2>3, AppendPlaces DEF QueuesTyped
  <2>5. \A y \in Escapes : escape'[y].at = "posted" => escape[y].at = "posted"
        /\ escape'[y].place = escape[y].place
    BY <2>1 DEF ArrivalsTyped, Handed
  <2>6. PostedPlaces' \subseteq PostedPlaces /\ escape[x].place \in PostedPlaces
    BY <2>1, <2>5 DEF PostedPlaces
  <2>7. BusyPlaces' = BusyPlaces /\ PlacesOf(settling') = PlacesOf(settling)
    BY <2>1 DEF BusyPlaces, Interrupting
  <2> QED
    BY <2>4, <2>6, <2>7 DEF RequestPlaces
<1>8. RunCommand \/ CommandRun \/ StartPeers \/ StartReady \/ ClaimOldest \/ NothingToClaim
        \/ Claim \/ Claimed \/ ClaimedTooLate \/ Await \/ ClaimAll \/ Finalize \/ Context
        \/ Submitted \/ Break \/ Record \/ Stopped =>
        UNCHANGED <<escape, interrupts, settling>>
  BY DEF RunCommand, CommandRun, StartPeers, StartReady, ClaimOldest, NothingToClaim, Claim,
         Claimed, ClaimedTooLate, Await, ClaimAll, Finalize, Context, Submitted, Break, Record,
         Stopped, LoopAt, inputVars, Open, promptVars, arrivals, turnVars
<1>9. ASSUME Wake PROVE RequestPlaces' \subseteq RequestPlaces \/ \E x \in Escapes : RequestInterrupt(x)
  <2>1. UNCHANGED <<escape, interrupts>>
    BY <1>9 DEF Wake
  <2>2. CASE "fg" \in Done /\ settling # << >>
    <3>1. main'.now = Head(settling) /\ settling' = Tail(settling)
      BY <1>9, <2>2 DEF Wake, Loop, LoopTyped
    <3>2. Head(settling).place \in PlacesOf(settling) /\ PlacesOf(settling') \subseteq PlacesOf(settling)
      BY <2>2, <3>1, TailPlaces DEF QueuesTyped
    <3> QED
      BY <2>1, <3>1, <3>2 DEF RequestPlaces, BusyPlaces, PostedPlaces
  <2>3. CASE ~("fg" \in Done /\ settling # << >>)
    <3>1. main'.at = NextPhase(Done) /\ UNCHANGED settling
      BY <1>9, <2>3 DEF Wake, Loop, LoopTyped
    <3>2. ~Interrupting'
      BY <3>1, NextPhaseType DEF Interrupting
    <3> QED
      BY <2>1, <3>1, <3>2 DEF RequestPlaces, BusyPlaces, PostedPlaces
  <2> QED
    BY <2>2, <2>3
<1>10. ASSUME Accept PROVE RequestPlaces' \subseteq RequestPlaces
      \/ \E x \in Escapes : RequestInterrupt(x)
  <2>1. UNCHANGED <<escape, settling>> /\ interrupts' = Tail(interrupts) /\ interrupts # << >>
    BY <1>10 DEF Accept, arrivals, RequestedInv
  <2>2. Head(interrupts).place \in PlacesOf(interrupts)
        /\ PlacesOf(interrupts') \subseteq PlacesOf(interrupts)
    BY <2>1, TailPlaces DEF QueuesTyped
  <2>3. main'.at = NextPhase(main.done \ {"interrupt"}) \/ main'.now = Head(interrupts)
    BY <1>10 DEF Accept, Loop, LoopTyped
  <2>4. ~Interrupting' \/ main'.now = Head(interrupts)
    BY <2>3, NextPhaseType DEF Interrupting
  <2> QED
    BY <2>1, <2>2, <2>4 DEF RequestPlaces, BusyPlaces, PostedPlaces
<1>11. ASSUME NothingForInterrupt PROVE RequestPlaces' \subseteq RequestPlaces
      \/ \E x \in Escapes : RequestInterrupt(x)
  <2>1. main.at \in {"claimAll", "claimingAll"} /\ Apply({})
    BY <1>11 DEF NothingForInterrupt
  <2> QED
    BY <2>1, ApplyPlaces DEF InputTyped, Holding, Free
<1>12. ASSUME ClaimedAll PROVE RequestPlaces' \subseteq RequestPlaces
      \/ \E x \in Escapes : RequestInterrupt(x)
  <2>1. main.at \in {"claimAll", "claimingAll"} /\ Apply(lock.ids)
    BY <1>12 DEF ClaimedAll
  <2> QED
    BY <2>1, ApplyPlaces DEF InputTyped, Holding, Free
<1>13. ASSUME Barrier PROVE RequestPlaces' \subseteq RequestPlaces
      \/ \E x \in Escapes : RequestInterrupt(x)
  <2>1. UNCHANGED <<escape, interrupts>>
    BY <1>13 DEF Barrier
  <2>2. CASE settling # << >> /\ fg.at = "none"
    <3>1. settling' = Tail(settling) /\ main'.now = Head(settling)
      BY <1>13, <2>2 DEF Barrier, Loop, LoopTyped
    <3>2. Head(settling).place \in PlacesOf(settling) /\ PlacesOf(settling') \subseteq PlacesOf(settling)
      BY <2>2, <3>1, TailPlaces DEF QueuesTyped
    <3> QED
      BY <2>1, <3>1, <3>2 DEF RequestPlaces, BusyPlaces, PostedPlaces
  <2>3. CASE ~(settling # << >> /\ fg.at = "none")
    <3>1. main'.at \in {"context", NextPhase(main.done)} /\ UNCHANGED settling
      BY <1>13, <2>3 DEF Barrier, Loop, LoopTyped
    <3>2. ~Interrupting'
      BY <3>1, NextPhaseType DEF Interrupting
    <3> QED
      BY <2>1, <3>1, <3>2 DEF RequestPlaces, BusyPlaces, PostedPlaces
  <2> QED
    BY <2>2, <2>3
<1>14. Forward \/ StartTurn \/ StoreItems \/ ItemCommitted \/ Mark \/ Marked \/ CallTools
        \/ ToolsDone \/ BoundaryPassed \/ Proceed \/ Answer \/ CancelTurn \/ EndTurn =>
        UNCHANGED <<escape, interrupts, settling>>
  BY DEF Forward, StartTurn, StoreItems, ItemCommitted, Mark, Marked, CallTools, ToolsDone,
         BoundaryPassed, Proceed, Answer, CancelTurn, EndTurn, TurnAt, inputVars, TurnOnly,
         promptVars, arrivals, loopVars
<1>15. ChildStore \/ ChildMark \/ ChildMarked =>
        UNCHANGED <<escape, interrupts, settling>>
  BY DEF ChildStore, ChildMark, ChildMarked, ChildOnly, inputVars, promptVars, arrivals,
         loopVars, turnVars
<1>16. Enter \/ Up \/ Stop \/ ChildStops \/ (\E p \in Peers : Arrive(p)) =>
        UNCHANGED <<escape, interrupts, settling>>
  BY DEF Enter, Up, Stop, ChildStops, Arrive, Outside, inputVars, arrivals, loopVars, turnVars,
         RecallAt, StopOn, ChildOnly, promptVars, Comes
<1>17. ASSUME Escape PROVE RequestPlaces' \subseteq RequestPlaces
      \/ \E x \in Escapes : RequestInterrupt(x)
  <2>1. PICK x \in Escapes :
          escape[x].at = "none" /\ \E r : r.at = "pressed" /\ escape' = [escape EXCEPT ![x] = r]
    BY <1>17 DEF Escape
  <2>2. PostedPlaces' = PostedPlaces
    BY <2>1 DEF PostedPlaces, ArrivalsTyped
  <2>3. UNCHANGED <<interrupts, settling, main>>
    BY <1>17 DEF Escape, loopVars
  <2> QED
    BY <2>2, <2>3 DEF RequestPlaces, BusyPlaces, Interrupting
<1>18. UNCHANGED vars => UNCHANGED <<escape, interrupts, settling>>
  BY DEF vars, inputVars, promptVars, arrivals, loopVars, turnVars
<1> QED
  BY <1>0, <1>1, <1>2, <1>3, <1>4, <1>5, <1>6, <1>7, <1>8, <1>9, <1>10, <1>11, <1>12, <1>13, <1>14,
     <1>15, <1>16, <1>17, <1>18
     DEF Next, Prompt, RecallStep, ArrivalStep, LoopStep, TurnStep, ChildStep, FromOutside, Rest

\* Only an Enter takes a place for an input.
LEMMA InputPlacesMove ==
  ASSUME HubTyped, InputTyped, PromptTyped, child \in Child, EditorInv, LockInv, LockInv', CarriersInv,
  InputMove, [Next]_vars
  PROVE  InputPlaces' \subseteq InputPlaces \/ Enter
<1>1. ASSUME Commits => lock.by # "editor", ~Submitting' \/ editor' = editor
      PROVE  InputPlaces' \subseteq InputPlaces
  <2>1. \A i \in Inputs : (Known(i)' <=> Known(i)) /\ entries'[i].seq = entries[i].seq
    BY <1>1, KnownSame
  <2> QED
    BY <1>1, <2>1 DEF InputPlaces, Submitting
<1>0. UNCHANGED <<editor, typed>> => InputPlaces' \subseteq InputPlaces
  <2>1. UNCHANGED editor /\ Commits => lock.by # "editor"
    BY DEF Commits, LockInv, EditorLock, Free
  <2> QED
    BY <1>1, <2>1
<1>2. HubStep => UNCHANGED <<editor, typed>>
  BY DEF HubStep, HubOnly, inputVars, promptVars, arrivals, loopVars, turnVars
<1>3. ASSUME SubmitCommand PROVE InputPlaces' \subseteq InputPlaces \/ Enter
  <2>1. ~Submitting'
    BY <1>3 DEF SubmitCommand, EditorAt, inputVars, turnVars, arrivals, loopVars, PromptTyped, Editor,
       Closed, Submitting
  <2>2. Commits => lock.by # "editor"
    BY <1>3, InputActions DEF SubmitCommand, EditorAt, inputVars, turnVars, arrivals, loopVars, Commits,
       Free, EditorLock, LockInv
  <2> QED
    BY <1>1, <2>1, <2>2
<1>4. ASSUME Retain PROVE InputPlaces' \subseteq InputPlaces \/ Enter
  <2>1. ~Submitting'
    BY <1>4 DEF Retain, inputVars, arrivals, loopVars, turnVars, PromptTyped, Editor, Closed, Submitting
  <2>2. Commits => lock.by # "editor"
    BY <1>4, InputActions DEF Retain, inputVars, arrivals, loopVars, turnVars, Commits, Free,
       EditorLock, LockInv
  <2> QED
    BY <1>1, <2>1, <2>2
<1>5. ASSUME Retained PROVE InputPlaces' \subseteq InputPlaces \/ Enter
  <2>1. ~Submitting'
    BY <1>5 DEF Retained, EditorAt, inputVars, turnVars, arrivals, loopVars, PromptTyped, Editor,
       Closed, Submitting
  <2>2. Commits => lock.by # "editor"
    BY <1>5, InputActions DEF Retained, EditorAt, inputVars, turnVars, arrivals, loopVars, Commits,
       Free, EditorLock, LockInv
  <2> QED
    BY <1>1, <2>1, <2>2
<1>6. ASSUME Admit PROVE InputPlaces' \subseteq InputPlaces \/ Enter
  <2>1. editor'.at = "admitting" /\ editor'.place = editor.place /\ Submitting /\ UNCHANGED entries
    BY <1>6, InputActions DEF Admit, EditorAt, PromptTyped, Editor, Submitting, Begins
  <2> QED
    BY <2>1 DEF InputPlaces, Submitting, Known
<1>7. ASSUME Admitted PROVE InputPlaces' \subseteq InputPlaces \/ Enter
  <2>1. ~Submitting' /\ Submitting
    BY <1>7 DEF Admitted, EditorAt, PromptTyped, Editor, Submitting
  <2>2. lock # Free /\ lock.by = "editor" /\ entries' = After(lock)
    BY <1>7, InputActions DEF Commits
  <2>3. lock.kind = "buffered" /\ lock.ids = {typed} /\ lock.at = editor.place
    BY <2>2, LockFits
  <2>4. \A i \in Inputs : entries'[i] = IF i = typed THEN [status |-> "pending", seq |-> editor.place,
        to |-> lock.to]
                                        ELSE entries[i]
    BY <2>2, <2>3 DEF After
  <2>5. \A i \in Inputs : entries'[i].seq = editor.place \/ entries'[i] = entries[i]
    BY <2>4
  <2> QED
    BY <2>1, <2>5 DEF InputPlaces, Known
<1>8. Recall \/ NothingToRecall \/ Recalled =>
        UNCHANGED <<editor, typed>>
  BY DEF Recall, NothingToRecall, Recalled, RecallAt, inputVars, arrivals, loopVars, turnVars
<1>9. (\E x \in Escapes : RequestInterrupt(x)) \/ (\E x \in Escapes : QueueInterrupt(x))
        \/ (\E p \in Peers : QueueIncoming(p)) \/ (\E p \in Peers : TakeIncoming(p)) =>
        UNCHANGED <<editor, typed>>
  BY DEF RequestInterrupt, QueueInterrupt, QueueIncoming, TakeIncoming, Comes, inputVars,
         promptVars, loopVars, turnVars, StopOn
<1>10. RunCommand \/ CommandRun \/ StartPeers \/ StartReady \/ ClaimOldest \/ Claim \/ Claimed
        \/ Wake \/ Accept \/ NothingForInterrupt \/ ClaimAll \/ ClaimedAll \/ Finalize
        \/ Barrier \/ Context \/ Break \/ Record \/ Stopped =>
        UNCHANGED <<editor, typed>>
  BY DEF RunCommand, CommandRun, StartPeers, StartReady, ClaimOldest, Claim, Claimed, Wake,
         Accept, NothingForInterrupt, ClaimAll, ClaimedAll, Finalize, Barrier, Context, Break,
         Record, Stopped, LoopAt, inputVars, promptVars, arrivals, turnVars, Apply
<1>11. ASSUME NothingToClaim PROVE InputPlaces' \subseteq InputPlaces \/ Enter
  <2>1. (~Submitting' \/ editor' = editor)
    BY <1>11 DEF NothingToClaim, Open, inputVars, LoopAt, PromptTyped, Editor, Closed, Submitting
  <2>2. Commits => lock.by # "editor"
    BY <1>11, InputActions DEF NothingToClaim, Open, inputVars, LoopAt, Commits, Free, EditorLock,
       LockInv
  <2> QED
    BY <1>1, <2>1, <2>2
<1>12. ASSUME ClaimedTooLate PROVE InputPlaces' \subseteq InputPlaces \/ Enter
  <2>1. (~Submitting' \/ editor' = editor)
    BY <1>12 DEF ClaimedTooLate, Open, LoopAt, PromptTyped, Editor, Closed, Submitting
  <2>2. Commits => lock.by # "editor"
    BY <1>12, InputActions DEF ClaimedTooLate, Open, LoopAt, Commits, Free, EditorLock, LockInv
  <2> QED
    BY <1>1, <2>1, <2>2
<1>13. ASSUME Await PROVE InputPlaces' \subseteq InputPlaces \/ Enter
  <2>1. (~Submitting' \/ editor' = editor)
    BY <1>13 DEF Await, Open, inputVars, LoopAt, PromptTyped, Editor, Closed, Submitting
  <2>2. Commits => lock.by # "editor"
    BY <1>13, InputActions DEF Await, Open, inputVars, LoopAt, Commits, Free, EditorLock, LockInv
  <2> QED
    BY <1>1, <2>1, <2>2
<1>14. ASSUME Submitted PROVE InputPlaces' \subseteq InputPlaces \/ Enter
  <2>1. ~Submitting'
    BY <1>14 DEF Submitted, LoopAt, inputVars, PromptTyped, Editor, Closed, Submitting
  <2>2. Commits => lock.by # "editor"
    BY <1>14, InputActions DEF Submitted, LoopAt, inputVars, Commits, Free, EditorLock, LockInv
  <2> QED
    BY <1>1, <2>1, <2>2
<1>15. Forward \/ StartTurn \/ StoreItems \/ ItemCommitted \/ Mark \/ Marked \/ CallTools
        \/ ToolsDone \/ BoundaryPassed \/ Proceed \/ Answer \/ CancelTurn \/ EndTurn =>
        UNCHANGED <<editor, typed>>
  BY DEF Forward, StartTurn, StoreItems, ItemCommitted, Mark, Marked, CallTools, ToolsDone,
         BoundaryPassed, Proceed, Answer, CancelTurn, EndTurn, TurnAt, inputVars, TurnOnly,
         promptVars, arrivals, loopVars
<1>16. ChildStore \/ ChildMark \/ ChildMarked =>
        UNCHANGED <<editor, typed>>
  BY DEF ChildStore, ChildMark, ChildMarked, ChildOnly, inputVars, promptVars, arrivals,
         loopVars, turnVars
<1>17. Up \/ Escape \/ ChildStops \/ (\E p \in Peers : Arrive(p)) =>
        UNCHANGED <<editor, typed>>
  BY DEF Up, Escape, ChildStops, Arrive, Outside, RecallAt, inputVars, StopOn, promptVars,
         loopVars, ChildOnly, turnVars, Comes, arrivals
<1>18. ASSUME Enter PROVE InputPlaces' \subseteq InputPlaces \/ Enter
  BY <1>18
<1>19. ASSUME Stop PROVE InputPlaces' \subseteq InputPlaces \/ Enter
  <2>1. (~Submitting' \/ editor' = editor)
    BY <1>19 DEF Stop, Outside, turnVars, StopOn, inputVars, loopVars, Comes, PromptTyped, Editor,
       Closed, Submitting
  <2>2. Commits => lock.by # "editor"
    BY <1>19, InputActions DEF Stop, Outside, turnVars, StopOn, inputVars, loopVars, Comes, Commits,
       Free, EditorLock, LockInv
  <2> QED
    BY <1>1, <2>1, <2>2
<1>20. UNCHANGED vars => UNCHANGED <<editor, typed>>
  BY DEF vars, inputVars, promptVars, arrivals, loopVars, turnVars
<1> QED
  BY <1>0, <1>2, <1>3, <1>4, <1>5, <1>6, <1>7, <1>8, <1>9, <1>10, <1>11, <1>12, <1>13, <1>14,
     <1>15, <1>16, <1>17, <1>18, <1>19, <1>20
     DEF Next, Prompt, RecallStep, ArrivalStep, LoopStep, TurnStep, ChildStep, FromOutside, Rest

\* The messages that have come, with the places they have.
SamePeers == \A p \in Peers : (peer'[p].at # "none" <=> peer[p].at # "none")
      /\ peer'[p].place = peer[p].place

\* A message keeps its place for good.
LEMMA PeersMove ==
  ASSUME ArrivalsTyped, [Next]_vars
  PROVE  SamePeers \/ \E p \in Peers : Arrive(p)
<1>1. UNCHANGED <<peer>> => SamePeers \/ \E p \in Peers : Arrive(p)
  BY DEF SamePeers
<1>2. HubStep => UNCHANGED <<peer>>
  BY DEF HubStep, HubOnly, inputVars, promptVars, arrivals, loopVars, turnVars
<1>3. SubmitCommand \/ Retain \/ Retained \/ Admit \/ Admitted =>
        UNCHANGED <<peer>>
  BY DEF SubmitCommand, Retain, Retained, Admit, Admitted, EditorAt, inputVars, turnVars,
         arrivals, loopVars
<1>4. Recall \/ NothingToRecall \/ Recalled =>
        UNCHANGED <<peer>>
  BY DEF Recall, NothingToRecall, Recalled, RecallAt, inputVars, arrivals, loopVars, turnVars
<1>5. (\E x \in Escapes : RequestInterrupt(x)) \/ (\E x \in Escapes : QueueInterrupt(x)) =>
        UNCHANGED <<peer>>
  BY DEF RequestInterrupt, QueueInterrupt, Comes, inputVars, promptVars, loopVars, turnVars,
         StopOn
<1>6. ASSUME NEW p \in Peers, QueueIncoming(p) PROVE SamePeers \/ \E q \in Peers : Arrive(q)
  <2>1. \A q \in Peers : (peer'[q].at # "none" <=> peer[q].at # "none") /\ peer'[q].place = peer[q].place
    BY <1>6 DEF QueueIncoming, ArrivalsTyped, Incoming
  <2> QED
    BY <2>1 DEF SamePeers
<1>7. ASSUME NEW p \in Peers, TakeIncoming(p) PROVE SamePeers \/ \E q \in Peers : Arrive(q)
  <2>1. \A q \in Peers : (peer'[q].at # "none" <=> peer[q].at # "none") /\ peer'[q].place = peer[q].place
    BY <1>7 DEF TakeIncoming, ArrivalsTyped, Incoming
  <2> QED
    BY <2>1 DEF SamePeers
<1>8. RunCommand \/ CommandRun \/ StartReady \/ ClaimOldest \/ NothingToClaim \/ Claim
        \/ Claimed \/ ClaimedTooLate \/ Await \/ Accept \/ NothingForInterrupt \/ ClaimAll
        \/ ClaimedAll \/ Finalize \/ Context \/ Submitted \/ Break \/ Record \/ Stopped =>
        UNCHANGED <<peer>>
  BY DEF RunCommand, CommandRun, StartReady, ClaimOldest, NothingToClaim, Claim, Claimed,
         ClaimedTooLate, Await, Accept, NothingForInterrupt, ClaimAll, ClaimedAll, Finalize,
         Context, Submitted, Break, Record, Stopped, LoopAt, inputVars, Open, promptVars,
         arrivals, turnVars, Apply
<1>9. ASSUME StartPeers PROVE SamePeers \/ \E p \in Peers : Arrive(p)
  <2>1. PICK S \in SUBSET Held : peer' = [p \in Peers |-> IF p \in S THEN [peer[p] EXCEPT !.at = "given"] ELSE peer[p]]
    BY <1>9 DEF StartPeers
  <2>2. \A q \in Peers : (peer'[q].at # "none" <=> peer[q].at # "none") /\ peer'[q].place = peer[q].place
    BY <2>1 DEF Held, ArrivalsTyped, Incoming
  <2> QED
    BY <2>2 DEF SamePeers
<1>10. ASSUME Wake PROVE SamePeers \/ \E p \in Peers : Arrive(p)
  <2>1. \A q \in Peers : (peer'[q].at # "none" <=> peer[q].at # "none") /\ peer'[q].place = peer[q].place
    BY <1>10 DEF Wake, ArrivalsTyped, Incoming
  <2> QED
    BY <2>1 DEF SamePeers
<1>11. ASSUME Barrier PROVE SamePeers \/ \E p \in Peers : Arrive(p)
  <2>1. \A q \in Peers : (peer'[q].at # "none" <=> peer[q].at # "none") /\ peer'[q].place = peer[q].place
    BY <1>11 DEF Barrier, ArrivalsTyped, Incoming
  <2> QED
    BY <2>1 DEF SamePeers
<1>12. Forward \/ StartTurn \/ StoreItems \/ ItemCommitted \/ Mark \/ Marked \/ CallTools
        \/ ToolsDone \/ BoundaryPassed \/ Proceed \/ Answer \/ CancelTurn \/ EndTurn =>
        UNCHANGED <<peer>>
  BY DEF Forward, StartTurn, StoreItems, ItemCommitted, Mark, Marked, CallTools, ToolsDone,
         BoundaryPassed, Proceed, Answer, CancelTurn, EndTurn, TurnAt, inputVars, TurnOnly,
         promptVars, arrivals, loopVars
<1>13. ChildStore \/ ChildMark \/ ChildMarked =>
        UNCHANGED <<peer>>
  BY DEF ChildStore, ChildMark, ChildMarked, ChildOnly, inputVars, promptVars, arrivals,
         loopVars, turnVars
<1>14. Enter \/ Up \/ Escape \/ Stop \/ ChildStops =>
        UNCHANGED <<peer>>
  BY DEF Enter, Up, Escape, Stop, ChildStops, Outside, inputVars, arrivals, loopVars, turnVars,
         RecallAt, StopOn, promptVars, ChildOnly, Comes
<1>15. ASSUME NEW p \in Peers, Arrive(p) PROVE SamePeers \/ \E q \in Peers : Arrive(q)
  BY <1>15
<1>16. UNCHANGED vars => UNCHANGED <<peer>>
  BY DEF vars, inputVars, promptVars, arrivals, loopVars, turnVars
<1> QED
  BY <1>1, <1>2, <1>3, <1>4, <1>5, <1>6, <1>7, <1>8, <1>9, <1>10, <1>11, <1>12, <1>13, <1>14,
     <1>15, <1>16
     DEF Next, Prompt, RecallStep, ArrivalStep, LoopStep, TurnStep, ChildStep, FromOutside, Rest

\* The places of the interrupts are numbers.
LEMMA RequestPlacesType ==
  ASSUME TypeOK
  PROVE  \A n \in RequestPlaces : n \in Int
<1>1. \A x \in Escapes : escape[x].place \in Nat
  BY DEF TypeOK, ArrivalsTyped, Request
<1>2. \A s \in Seq(Interrupts) : \A n \in 1..Len(s) : s[n] \in Interrupts
  BY ElementOfSeq
<1>3. \A r \in Interrupts : r.place \in Nat
  BY DEF Interrupts
<1>4. interrupts \in Seq(Interrupts) /\ settling \in Seq(Interrupts) /\ main.now \in Interrupts
  BY DEF TypeOK, LoopTyped, Loop
<1> QED
  BY <1>1, <1>2, <1>3, <1>4 DEF RequestPlaces, PlacesOf, PostedPlaces, BusyPlaces

\* No input, interrupt or message takes the place of another.
LEMMA PlacesKept ==
  ASSUME TypeOK, HubInv, RequestedInv, EditorInv, EditorInv', LockInv, LockInv', CarriersInv, HubMove,
  InputMove, PlacesInv, [Next]_vars
  PROVE  PlacesInv'
<1>1. HubTyped /\ InputTyped /\ PromptTyped /\ ArrivalsTyped /\ LoopTyped /\ QueuesTyped
      /\ child \in Child
  BY DEF TypeOK, LoopTyped, QueuesTyped
<1>2. given \in Nat /\ given' \in Nat /\ given <= given'
  BY <1>1, HubKept, OrderGrows DEF HubTyped
<1>3. \A n \in InputPlaces : n <= given
  BY DEF InputPlaces, EditorInv
<1>4. /\ \A n \in RequestPlaces : n <= given /\ n \notin InputPlaces
      /\ \A p \in Peers : peer[p].at # "none" =>
           peer[p].place <= given /\ peer[p].place \notin InputPlaces
                 /\ peer[p].place \notin RequestPlaces
      /\ \A p, q \in Peers : peer[p].at # "none" /\ peer[q].at # "none"
           /\ peer[p].place = peer[q].place => p = q
  BY DEF PlacesInv, Came
<1>5. \A p \in Peers : peer[p].place \in Nat
  BY <1>1 DEF ArrivalsTyped, Incoming
<1>6. ASSUME /\ \A n \in RequestPlaces' : n <= given' /\ n \notin InputPlaces'
             /\ \A p \in Peers : peer'[p].at # "none" =>
                  peer'[p].place <= given' /\ peer'[p].place \notin InputPlaces'
                        /\ peer'[p].place \notin RequestPlaces'
             /\ \A p, q \in Peers : peer'[p].at # "none" /\ peer'[q].at # "none"
                  /\ peer'[p].place = peer'[q].place => p = q
      PROVE  PlacesInv'
  BY <1>6 DEF PlacesInv, Came
<1>7. CASE Enter
  <2>1. given' = given + 1 /\ UNCHANGED <<escape, interrupts, settling, main, peer>>
    BY <1>7, HubActions DEF Enter, arrivals, loopVars, Took
  <2>2. PICK what \in Kinds, a \in Agents :
          editor' = [at |-> "accepted", id |-> typed + 1, to |-> a, place |-> given + 1]
    BY <1>7 DEF Enter
  <2>3. editor'.place = given + 1 /\ UNCHANGED entries
    BY <1>7, <2>2 DEF Enter, inputVars
  <2>4. InputPlaces' \subseteq InputPlaces \cup {given + 1}
    BY <2>3 DEF InputPlaces, Known
  <2>5. RequestPlaces' = RequestPlaces
    BY <2>1 DEF RequestPlaces, PlacesOf, PostedPlaces, BusyPlaces, Interrupting
  <2>6. \A n \in RequestPlaces : n # given + 1 /\ n <= given'
    BY <1>2, <1>4, <2>1, RequestPlacesType
  <2>7. \A p \in Peers : peer[p].at # "none" => peer[p].place # given + 1 /\ peer[p].place <= given'
    BY <1>2, <1>4, <1>5, <2>1
  <2> QED
    BY <1>4, <1>6, <2>1, <2>4, <2>5, <2>6, <2>7
<1>8. ASSUME ~Enter, NEW x \in Escapes, RequestInterrupt(x) PROVE PlacesInv'
  <2>1. given' = given + 1
    BY <1>8, HubActions DEF Posted
  <2>2. UNCHANGED <<interrupts, settling, main, peer>>
        /\ escape' = [escape EXCEPT ![x] = [@ EXCEPT !.at = "posted", !.place = given + 1]]
    BY <1>8 DEF RequestInterrupt, loopVars
  <2>3. \A y \in Escapes : escape'[y].place = given + 1 \/ escape'[y] = escape[y]
    BY <1>1, <2>2 DEF ArrivalsTyped, Request
  <2>4. PostedPlaces' \subseteq PostedPlaces \cup {given + 1}
    BY <2>3 DEF PostedPlaces
  <2>5. RequestPlaces' \subseteq RequestPlaces \cup {given + 1}
    BY <2>2, <2>4 DEF RequestPlaces, PlacesOf, BusyPlaces, Interrupting
  <2>6. InputPlaces' \subseteq InputPlaces
    BY <1>1, <1>8, InputPlacesMove
  <2>7. \A n \in RequestPlaces : n <= given'
    BY <1>2, <1>4, <2>1, RequestPlacesType
  <2>8. given + 1 \notin InputPlaces
    BY <1>2, <1>3
  <2>9. \A p \in Peers : peer[p].at # "none" => peer[p].place # given + 1 /\ peer[p].place <= given'
    BY <1>2, <1>4, <1>5, <2>1
  <2>10. given + 1 <= given'
    BY <1>2, <2>1
  <2> QED
    BY <1>4, <1>6, <2>2, <2>5, <2>6, <2>7, <2>8, <2>9, <2>10
<1>9. ASSUME ~Enter, NEW p \in Peers, Arrive(p) PROVE PlacesInv'
  <2>1. given' = given + 1
    BY <1>9, HubActions DEF Posted
  <2>2. UNCHANGED <<interrupts, settling, main, escape>>
        /\ peer' = [peer EXCEPT ![p] = [at |-> "posted", place |-> given + 1]]
    BY <1>9 DEF Arrive, loopVars
  <2>3. \A q \in Peers : IF q = p THEN peer'[q].place = given + 1 ELSE peer'[q] = peer[q]
    BY <1>1, <2>2 DEF ArrivalsTyped
  <2>4. RequestPlaces' = RequestPlaces
    BY <2>2 DEF RequestPlaces, PlacesOf, PostedPlaces, BusyPlaces, Interrupting
  <2>5. InputPlaces' \subseteq InputPlaces
    BY <1>1, <1>9, InputPlacesMove
  <2>6. \A n \in RequestPlaces : n <= given' /\ n # given + 1
    BY <1>2, <1>4, <2>1, RequestPlacesType
  <2>7. given + 1 \notin InputPlaces
    BY <1>2, <1>3
  <2>8. \A q \in Peers : peer[q].at # "none" => peer[q].place # given + 1 /\ peer[q].place <= given'
    BY <1>2, <1>4, <1>5, <2>1
  <2>9. given + 1 <= given'
    BY <1>2, <2>1
  <2> QED
    BY <1>4, <1>6, <2>3, <2>4, <2>5, <2>6, <2>7, <2>8, <2>9
<1>10. CASE ~Enter /\ ~(\E x \in Escapes : RequestInterrupt(x)) /\ ~(\E p \in Peers : Arrive(p))
  <2>1. InputPlaces' \subseteq InputPlaces /\ RequestPlaces' \subseteq RequestPlaces /\ SamePeers
    BY <1>1, <1>10, InputPlacesMove, RequestPlacesMove, PeersMove
  <2>2. \A n \in RequestPlaces : n <= given'
    BY <1>2, <1>4, RequestPlacesType
  <2>3. \A p \in Peers : peer[p].at # "none" => peer[p].place <= given'
    BY <1>2, <1>4, <1>5
  <2> QED
    BY <1>4, <1>6, <2>1, <2>2, <2>3 DEF SamePeers
<1> QED
  BY <1>7, <1>8, <1>9, <1>10

-----------------------------------------------------------------------------
(* Who carries the inputs.                                                 *)

\* A claimed input stays claimed, for the same agent.
TakenStays ==
  \A i \in Inputs : entries[i].status \in {"claimed", "delivered"} =>
    entries'[i].status \in {"claimed", "delivered"} /\ entries'[i].to = entries[i].to

\* What is taken stays taken, by the same agent.
LEMMA TakenIsTaken ==
  ASSUME InputTyped, PromptTyped, EditorInv, LockInv, CarriersInv, child \in Child, InputMove
  PROVE  TakenStays
<1>1. CASE entries' = entries
  BY <1>1 DEF TakenStays
<1>2. CASE Commits
  <2>1. lock \in Holding /\ lock.kind \in LockKinds
    BY <1>2, LockFits DEF Commits, Holding
  <2> SUFFICES ASSUME NEW i \in Inputs, entries[i].status \in {"claimed", "delivered"}
               PROVE  entries'[i].status \in {"claimed", "delivered"} /\ entries'[i].to = entries[i].to
    BY DEF TakenStays
  <2>2. i \in lock.ids => lock.kind = "delivered"
    BY <1>2, <2>1, LockFits DEF Commits, Pending, Known, LockKinds
  <2>3. entries'[i] = entries[i] \/ entries'[i] = [entries[i] EXCEPT !.status = "delivered"]
    BY <1>2, <2>2 DEF Commits, After
  <2>4. entries[i] \in Entry
    BY DEF InputTyped
  <2> QED
    BY <2>3, <2>4 DEF Entry
<1> QED
  BY <1>1, <1>2 DEF InputMove, Begins, inputVars

\* What is taken for an agent stays taken for it.
LEMMA TakenPrimed ==
  ASSUME TakenStays, NEW ids \in SUBSET Inputs, NEW a, Taken(ids, a)
  PROVE  Taken(ids, a)'
  BY DEF TakenStays, Taken

\* What a transition of the loop takes.
LEMMA LockIsTaken ==
  ASSUME InputTyped, lock.kind = "claimed", Commits
  PROVE  \A i \in lock.ids : i \in Inputs /\ entries'[i].status = "claimed" /\ entries'[i].to = lock.to
<1>1. lock \in Holding
  BY DEF InputTyped, Commits
<1> QED
  BY <1>1 DEF Commits, After, InputTyped, Holding, Entry

\* An input is in two pieces of a conversation when it is in one.
LEMMA StoredInConcat ==
  ASSUME NEW s \in Seq(Items), NEW t \in Seq(Items), NEW i
  PROVE  (\E n \in 1..Len(s \o t) : (s \o t)[n] = <<"input", i>>) <=>
           (\E n \in 1..Len(s) : s[n] = <<"input", i>>) \/ (\E n \in 1..Len(t) : t[n] = <<"input", i>>)
<1> DEFINE x == <<"input", i>>
<1> HIDE DEF x
<1>1. /\ Len(s) \in Nat /\ Len(t) \in Nat /\ Len(s \o t) = Len(s) + Len(t)
      /\ \A n \in 1..(Len(s) + Len(t)) : (s \o t)[n] = IF n <= Len(s) THEN s[n] ELSE t[n - Len(s)]
  BY ConcatProperties, LenProperties
<1>2. ASSUME NEW n \in 1..Len(s), s[n] = x PROVE n \in 1..Len(s \o t) /\ (s \o t)[n] = x
  BY <1>1, <1>2
<1>3. ASSUME NEW n \in 1..Len(t), t[n] = x PROVE Len(s) + n \in 1..Len(s \o t)
      /\ (s \o t)[Len(s) + n] = x
  BY <1>1, <1>3
<1>4. ASSUME NEW n \in 1..Len(s \o t), (s \o t)[n] = x
      PROVE  (n \in 1..Len(s) /\ s[n] = x) \/ (n - Len(s) \in 1..Len(t) /\ t[n - Len(s)] = x)
  BY <1>1, <1>4
<1>5. (\E n \in 1..Len(s \o t) : (s \o t)[n] = x) <=>
        (\E n \in 1..Len(s) : s[n] = x) \/ (\E n \in 1..Len(t) : t[n] = x)
  BY <1>2, <1>3, <1>4
<1> QED
  BY <1>5 DEF x

\* Items that carry some inputs have exactly those.
LEMMA CarriedItems ==
  ASSUME NEW items \in Seq(Items), NEW ids \in SUBSET Inputs, Carries(items, ids), NEW i \in Inputs
  PROVE  (\E n \in 1..Len(items) : items[n] = <<"input", i>>) <=> i \in ids
<1>1. InputOf(<<"input", i>>) = {i}
  BY DEF InputOf
<1> QED
  BY <1>1 DEF Carries

\* The conversation loses no input; or it does not change at all.
StoredGrows == \A i \in Inputs : Stored(i) => Stored(i)'
StoredSame  == \A i \in Inputs : Stored(i)' <=> Stored(i)

\* Only a turn stores inputs, those it was given.
LEMMA StoredMoves ==
  ASSUME TypeOK, EditorInv, PlacesInv, CarriersInv, [Next]_vars
  PROVE  StoredSame \/ StoreItems
<1>1. UNCHANGED <<conv>> => StoredSame \/ StoreItems
  BY DEF StoredSame, Stored
<1>2. HubStep => UNCHANGED <<conv>>
  BY DEF HubStep, HubOnly, inputVars, promptVars, arrivals, loopVars, turnVars
<1>3. SubmitCommand \/ Retain \/ Retained \/ Admit \/ Admitted =>
        UNCHANGED <<conv>>
  BY DEF SubmitCommand, Retain, Retained, Admit, Admitted, EditorAt, inputVars, turnVars,
         arrivals, loopVars
<1>4. Recall \/ NothingToRecall \/ Recalled =>
        UNCHANGED <<conv>>
  BY DEF Recall, NothingToRecall, Recalled, RecallAt, inputVars, arrivals, loopVars, turnVars
<1>5. (\E x \in Escapes : RequestInterrupt(x)) \/ (\E x \in Escapes : QueueInterrupt(x))
        \/ (\E p \in Peers : QueueIncoming(p)) \/ (\E p \in Peers : TakeIncoming(p)) =>
        UNCHANGED <<conv>>
  BY DEF RequestInterrupt, QueueInterrupt, QueueIncoming, TakeIncoming, Comes, inputVars,
         promptVars, loopVars, turnVars, StopOn
<1>6. RunCommand \/ CommandRun \/ StartPeers \/ StartReady \/ ClaimOldest \/ NothingToClaim
        \/ Claim \/ Claimed \/ ClaimedTooLate \/ Await \/ Wake \/ Accept \/ NothingForInterrupt
        \/ ClaimAll \/ ClaimedAll \/ Finalize \/ Context \/ Submitted \/ Break \/ Record
        \/ Stopped =>
        UNCHANGED <<conv>>
  BY DEF RunCommand, CommandRun, StartPeers, StartReady, ClaimOldest, NothingToClaim, Claim,
         Claimed, ClaimedTooLate, Await, Wake, Accept, NothingForInterrupt, ClaimAll, ClaimedAll,
         Finalize, Context, Submitted, Break, Record, Stopped, LoopAt, inputVars, Open,
         promptVars, arrivals, turnVars, Apply
<1>7. ASSUME Barrier PROVE StoredSame \/ StoreItems
  <2>1. PICK items \in Seq(Items) :
          /\ Carries(items, main.now.ids)
          /\ conv' = (IF main.now.ids = {} /\ main.now.to = "main" THEN conv \o items ELSE conv)
    BY <1>7, BarrierGives
  <2>2. CASE conv' = conv
    BY <2>2 DEF StoredSame, Stored
  <2>3. CASE main.now.ids = {} /\ conv' = conv \o items
    <3>1. ASSUME NEW i \in Inputs PROVE Stored(i)' <=> Stored(i)
      <4>1. ~\E n \in 1..Len(items) : items[n] = <<"input", i>>
        BY <2>1, <2>3, CarriedItems
      <4>2. conv \in Seq(Items)
        BY DEF TypeOK
      <4>3. (\E n \in 1..Len(conv \o items) : (conv \o items)[n] = <<"input", i>>) <=>
              (\E n \in 1..Len(conv) : conv[n] = <<"input", i>>)
                    \/ (\E n \in 1..Len(items) : items[n] = <<"input", i>>)
        BY <4>2, StoredInConcat
      <4> QED
        BY <2>3, <4>1, <4>3 DEF Stored
    <3> QED
      BY <3>1 DEF StoredSame
  <2> QED
    BY <2>1, <2>2, <2>3
<1>8. Forward \/ StartTurn \/ ItemCommitted \/ Mark \/ Marked \/ CallTools \/ ToolsDone
        \/ BoundaryPassed \/ Proceed \/ Answer \/ CancelTurn =>
        UNCHANGED <<conv>>
  BY DEF Forward, StartTurn, ItemCommitted, Mark, Marked, CallTools, ToolsDone, BoundaryPassed,
         Proceed, Answer, CancelTurn, TurnAt, inputVars, TurnOnly, promptVars, arrivals,
         loopVars
<1>9. ASSUME StoreItems PROVE StoredSame \/ StoreItems
  BY <1>9
<1>10. ASSUME EndTurn PROVE StoredSame \/ StoreItems
  <2>1. conv' = Append(conv, <<"turn", fg.turn>>) /\ <<"turn", fg.turn>> \in Items
    BY <1>10 DEF EndTurn, TypeOK, TurnTyped, Turn, Items
  <2>2. \A i : <<"turn", fg.turn>> # <<"input", i>>
    OBVIOUS
  <2>3. ASSUME NEW i \in Inputs PROVE Stored(i)' <=> Stored(i)
    <3>1. conv \in Seq(Items)
      BY DEF TypeOK
    <3>2. /\ \A n \in 1..Len(conv) : n \in 1..Len(conv') /\ conv'[n] = conv[n]
          /\ \A n \in 1..Len(conv') : (n \in 1..Len(conv) /\ conv'[n] = conv[n])
               \/ conv'[n] = <<"turn", fg.turn>>
      BY <2>1, <3>1, AppendElements
    <3> QED
      BY <2>2, <3>2 DEF Stored
  <2> QED
    BY <2>3 DEF StoredSame
<1>11. ChildStore \/ ChildMark \/ ChildMarked =>
        UNCHANGED <<conv>>
  BY DEF ChildStore, ChildMark, ChildMarked, ChildOnly, inputVars, promptVars, arrivals,
         loopVars, turnVars
<1>12. Enter \/ Up \/ Escape \/ Stop \/ ChildStops \/ (\E p \in Peers : Arrive(p)) =>
        UNCHANGED <<conv>>
  BY DEF Enter, Up, Escape, Stop, ChildStops, Arrive, Outside, inputVars, arrivals, loopVars,
         turnVars, RecallAt, StopOn, promptVars, ChildOnly, Comes
<1>13. UNCHANGED vars => UNCHANGED <<conv>>
  BY DEF vars, inputVars, promptVars, arrivals, loopVars, turnVars
<1> QED
  BY <1>1, <1>2, <1>3, <1>4, <1>5, <1>6, <1>7, <1>8, <1>9, <1>10, <1>11, <1>12, <1>13
     DEF Next, Prompt, RecallStep, ArrivalStep, LoopStep, TurnStep, ChildStep, FromOutside, Rest

\* A turn that stores its items stores its inputs, and no other.
LEMMA ItemsStored ==
  ASSUME TypeOK, CarriersInv, StoreItems
  PROVE  \A i \in Inputs : Stored(i)' <=> Stored(i) \/ i \in fg.ids
<1>1. conv' = conv \o fg.items /\ conv \in Seq(Items) /\ fg.items \in Seq(Items)
      /\ fg.ids \in SUBSET Inputs
  BY DEF StoreItems, TypeOK, TurnTyped, Turn
<1>2. Carries(fg.items, fg.ids)
  BY DEF CarriersInv, TurnCarries, StoreItems
<1>3. ASSUME NEW i \in Inputs PROVE Stored(i)' <=> Stored(i) \/ i \in fg.ids
  <2>1. (\E n \in 1..Len(fg.items) : fg.items[n] = <<"input", i>>) <=> i \in fg.ids
    BY <1>1, <1>2, CarriedItems
  <2>2. (\E n \in 1..Len(conv \o fg.items) : (conv \o fg.items)[n] = <<"input", i>>) <=>
          (\E n \in 1..Len(conv) : conv[n] = <<"input", i>>)
                \/ (\E n \in 1..Len(fg.items) : fg.items[n] = <<"input", i>>)
    BY <1>1, StoredInConcat
  <2> QED
    BY <1>1, <2>1, <2>2 DEF Stored
<1> QED
  BY <1>3

\* A stored input stays stored.
LEMMA StoredStays ==
  ASSUME TypeOK, EditorInv, PlacesInv, CarriersInv, [Next]_vars
  PROVE  StoredGrows
  BY StoredMoves, ItemsStored DEF StoredGrows, StoredSame

\* The conversation still has only what was claimed for the main agent.
LEMMA ConvCarriesKept ==
  ASSUME TypeOK, EditorInv, PlacesInv, LockInv, CarriersInv, InputMove, [Next]_vars
  PROVE  ConvCarries'
<1>1. TakenStays
  BY TakenIsTaken DEF TypeOK
<1>2. ASSUME NEW i \in Inputs, Stored(i) \/ (StoreItems /\ i \in fg.ids) PROVE Taken({i}, "main")'
  <2>1. Taken({i}, "main")
    BY <1>2 DEF CarriersInv, ConvCarries, TurnCarries, StoreItems, Taken
  <2> QED
    BY <1>1, <2>1, TakenPrimed
<1> QED
  BY <1>2, StoredMoves, ItemsStored DEF ConvCarries, StoredSame

\* A turn that goes on carries what it carried.
LEMMA TurnGoesOn ==
  ASSUME fg \in Turn, TakenStays, StoredGrows, TurnCarries, fg'.ids = fg.ids, fg'.to = fg.to,
         \/ fg'.at = fg.at /\ fg'.items = fg.items
         \/ fg'.at \in AfterStore \ {"committing"} /\ fg.at \in AfterStore
         \/ fg'.at = "starting" /\ fg.at = "created" /\ fg.to = "main" /\ fg'.items = fg.items
         \/ fg'.at = "committing" /\ fg.at = "committing" /\ fg'.items = fg.items
  PROVE  TurnCarries'
<1>1. fg.ids \subseteq Inputs
  BY DEF Turn
<1>2. \A i \in fg'.ids : entries'[i].status \in {"claimed", "delivered"} /\ entries'[i].to = fg'.to
  BY <1>1 DEF TurnCarries, Taken, TakenStays
<1>3. fg'.at \in AfterStore => \A i \in fg.ids : Stored(i)'
  BY <1>1 DEF TurnCarries, StoredGrows, AfterStore
<1> QED
  BY <1>2, <1>3 DEF TurnCarries, AfterStore, Taken

\* A turn that is over carries nothing.
LEMMA TurnIsOver ==
  ASSUME fg'.ids = {}, fg'.at \in {"none", "ended", "closing"}
  PROVE  TurnCarries'
  BY DEF TurnCarries, Taken, AfterStore

\* A new turn carries what was claimed for it.
LEMMA TurnIsNew ==
  ASSUME NEW ids \in SUBSET Inputs, NEW to \in Agents, NEW items \in Seq(Items), fg' = NewTurn(ids, to,
  items),
         Carries(items, ids), \A i \in ids : entries'[i].status \in {"claimed", "delivered"}
               /\ entries'[i].to = to
  PROVE  TurnCarries'
<1>1. fg'.at = "created" /\ fg'.ids = ids /\ fg'.to = to /\ fg'.items = items
  BY NewTurnType
<1> QED
  BY <1>1 DEF TurnCarries, Taken, AfterStore

\* The foreground turn carries what was claimed for its agent.
LEMMA TurnCarriesKept ==
  ASSUME TypeOK, EditorInv, PlacesInv, LockInv, CarriersInv, TakenStays, StoredGrows, [Next]_vars
  PROVE  TurnCarries'
<1>1. UNCHANGED <<fg>> => TurnCarries'
  BY TurnGoesOn DEF TypeOK, TurnTyped, CarriersInv
<1>2. HubStep => UNCHANGED <<fg>>
  BY DEF HubStep, HubOnly, inputVars, promptVars, arrivals, loopVars, turnVars
<1>3. SubmitCommand \/ Retain \/ Retained \/ Admit =>
        UNCHANGED <<fg>>
  BY DEF SubmitCommand, Retain, Retained, Admit, EditorAt, inputVars, turnVars, arrivals,
         loopVars
<1>4. ASSUME Admitted PROVE TurnCarries'
  <2>1. SameTurn
    BY <1>4, TurnHalts DEF TypeOK, TurnTyped
  <2> QED
    BY <2>1, TurnGoesOn DEF SameTurn, TypeOK, TurnTyped, CarriersInv
<1>5. Recall \/ NothingToRecall \/ Recalled =>
        UNCHANGED <<fg>>
  BY DEF Recall, NothingToRecall, Recalled, RecallAt, inputVars, arrivals, loopVars, turnVars
<1>6. (\E x \in Escapes : RequestInterrupt(x)) \/ (\E p \in Peers : TakeIncoming(p)) =>
        UNCHANGED <<fg>>
  BY DEF RequestInterrupt, TakeIncoming, Comes, inputVars, promptVars, loopVars, turnVars
<1>7. ASSUME NEW x \in Escapes, QueueInterrupt(x) PROVE TurnCarries'
  <2>1. SameTurn
    BY <1>7, TurnHalts DEF TypeOK, TurnTyped
  <2> QED
    BY <2>1, TurnGoesOn DEF SameTurn, TypeOK, TurnTyped, CarriersInv
<1>8. ASSUME NEW p \in Peers, QueueIncoming(p) PROVE TurnCarries'
  <2>1. SameTurn
    BY <1>8, TurnHalts DEF TypeOK, TurnTyped
  <2> QED
    BY <2>1, TurnGoesOn DEF SameTurn, TypeOK, TurnTyped, CarriersInv
<1>9. RunCommand \/ CommandRun \/ ClaimOldest \/ NothingToClaim \/ Claim \/ ClaimedTooLate
        \/ Await \/ Accept \/ ClaimAll \/ Finalize \/ Barrier \/ Context \/ Submitted \/ Break
        \/ Record \/ Stopped =>
        UNCHANGED <<fg>>
  BY DEF RunCommand, CommandRun, ClaimOldest, NothingToClaim, Claim, ClaimedTooLate, Await,
         Accept, ClaimAll, Finalize, Barrier, Context, Submitted, Break, Record, Stopped, LoopAt,
         inputVars, Open, promptVars, arrivals, turnVars
<1>10. ASSUME StartPeers PROVE TurnCarries'
  <2>1. PICK items \in Seq(Items) : fg' = NewTurn({}, "main", items) /\ Carries(items, {})
    BY <1>10, PeersGiven
  <2> QED
    BY <2>1, TurnIsNew DEF Agents
<1>11. ASSUME StartReady PROVE TurnCarries'
  <2>1. ready # << >> /\ fg' = NewTurn(Head(ready).ids, Head(ready).to, Head(ready).items)
    BY <1>11 DEF StartReady
  <2>2. Head(ready) = ready[1] /\ 1 \in 1..Len(ready) /\ Head(ready) \in Claims
    BY <2>1, TailElements DEF TypeOK
  <2>3. Taken(Head(ready).ids, Head(ready).to) /\ Carries(Head(ready).items, Head(ready).ids)
    BY <2>2 DEF CarriersInv, ReadyCarries
  <2>4. Head(ready).ids \in SUBSET Inputs /\ Head(ready).to \in Agents
        /\ Head(ready).items \in Seq(Items)
    BY <2>2 DEF Claims
  <2>5. \A i \in Head(ready).ids : entries'[i].status \in {"claimed", "delivered"}
        /\ entries'[i].to = Head(ready).to
    BY <2>3, <2>4 DEF Taken, TakenStays
  <2> QED
    BY <2>1, <2>3, <2>4, <2>5, TurnIsNew
<1>12. ASSUME Claimed PROVE TurnCarries'
  <2>1. PICK items \in Seq(Items) : fg' = NewTurn(lock.ids, lock.to, items) /\ Carries(items, lock.ids)
    BY <1>12, OldestGiven
  <2>2. lock.kind = "claimed" /\ Commits
    BY <1>12, InputActions DEF LockInv, LoopLock
  <2>3. \A i \in lock.ids : i \in Inputs /\ entries'[i].status = "claimed" /\ entries'[i].to = lock.to
    BY <2>2, LockIsTaken DEF TypeOK
  <2>4. lock.to \in Agents
    BY DEF TypeOK, InputTyped, Holding, Free, Agents
  <2> QED
    BY <2>1, <2>3, <2>4, TurnIsNew
<1>13. ASSUME Wake PROVE TurnCarries'
  <2>1. fg' = fg \/ fg' = NoTurn
    BY <1>13 DEF Wake
  <2> QED
    BY <2>1, TurnGoesOn, TurnIsOver DEF NoTurn, TypeOK, TurnTyped, CarriersInv
<1>14. ASSUME NothingForInterrupt PROVE TurnCarries'
  <2>1. SameTurn
    BY <1>14, TurnHalts DEF TypeOK, TurnTyped
  <2> QED
    BY <2>1, TurnGoesOn DEF SameTurn, TypeOK, TurnTyped, CarriersInv
<1>15. ASSUME ClaimedAll PROVE TurnCarries'
  <2>1. SameTurn
    BY <1>15, TurnHalts DEF TypeOK, TurnTyped
  <2> QED
    BY <2>1, TurnGoesOn DEF SameTurn, TypeOK, TurnTyped, CarriersInv
<1>16. ASSUME Forward PROVE TurnCarries'
  <2>1. TurnAt("ended")
    BY <1>16 DEF Forward
  <2> QED
    BY <2>1, TurnAtMoves, TurnIsOver, TurnGoesOn DEF TurnTyped, TurnPlaces, TypeOK, CarriersInv,
       AfterStore
<1>17. ASSUME StartTurn PROVE TurnCarries'
  <2>1. fg.at = "created" /\ fg.to = "main" /\ fg'.at = "starting" /\ fg'.ids = fg.ids
        /\ fg'.to = fg.to /\ fg'.items = fg.items
    BY <1>17 DEF StartTurn, TypeOK, TurnTyped, Turn
  <2> QED
    BY <2>1, TurnGoesOn DEF TypeOK, TurnTyped, CarriersInv, AfterStore
<1>18. ASSUME StoreItems PROVE TurnCarries'
  <2>1. PICK k \in Nat \ {0} : PublishCommit(k)
    BY <1>18 DEF StoreItems, TypeOK, TurnTyped, Turn
  <2>2. fg'.ids = fg.ids /\ fg'.to = fg.to /\ (fg'.at \in {"mark", "model"} \/ (fg'.at = "committing"
        /\ fg'.items = fg.items))
    <3>1. fg \in Turn /\ given \in Nat
      BY DEF TypeOK, TurnTyped, HubTyped
    <3>2. Len(fg.items) \in Nat
      BY <3>1, LenProperties DEF Turn
    <3> QED
      BY <2>1, <3>1, <3>2, PublishMoves
  <2>3. fg.ids \subseteq Inputs /\ fg.at = "starting"
    BY <1>18 DEF StoreItems, TypeOK, TurnTyped, Turn
  <2>4. \A i \in fg.ids : Stored(i)'
    BY <1>18, <2>3, ItemsStored
  <2>5. \A i \in fg'.ids : entries'[i].status \in {"claimed", "delivered"} /\ entries'[i].to = fg'.to
    BY <2>2, <2>3 DEF TurnCarries, Taken, TakenStays, CarriersInv
  <2> QED
    BY <2>2, <2>3, <2>4, <2>5 DEF TurnCarries, AfterStore, Taken, CarriersInv
<1>19. ASSUME ItemCommitted PROVE TurnCarries'
  <2>1. PICK k \in Nat \ {0} : PublishCommit(k)
    BY <1>19 DEF ItemCommitted, TypeOK, TurnTyped, Turn
  <2>2. fg'.ids = fg.ids /\ fg'.to = fg.to /\ (fg'.at \in {"mark", "model"} \/ (fg'.at = "committing"
        /\ fg'.items = fg.items))
    <3>1. fg \in Turn /\ given \in Nat
      BY DEF TypeOK, TurnTyped, HubTyped
    <3>2. Len(fg.items) \in Nat
      BY <3>1, LenProperties DEF Turn
    <3> QED
      BY <2>1, <3>1, <3>2, PublishMoves
  <2>3. fg.at = "committing"
    BY <1>19 DEF ItemCommitted
  <2> QED
    BY <2>2, <2>3, TurnGoesOn DEF TypeOK, TurnTyped, CarriersInv, AfterStore
<1>20. ASSUME Mark PROVE TurnCarries'
  <2>1. TurnAt("marking") /\ fg.at = "mark"
    BY <1>20 DEF Mark
  <2> QED
    BY <2>1, TurnAtMoves, TurnIsOver, TurnGoesOn DEF TurnTyped, TurnPlaces, TypeOK, CarriersInv,
       AfterStore
<1>21. ASSUME Marked PROVE TurnCarries'
  <2>1. (TurnAt("closing") \/ TurnAt("model")) /\ fg.at = "marking"
    BY <1>21 DEF Marked
  <2> QED
    BY <2>1, TurnAtMoves, TurnIsOver, TurnGoesOn DEF TurnTyped, TurnPlaces, TypeOK, CarriersInv,
       AfterStore
<1>22. ASSUME CallTools PROVE TurnCarries'
  <2>1. fg.at = "model" /\ fg'.at = "tools" /\ fg'.ids = fg.ids /\ fg'.to = fg.to /\ fg'.items = fg.items
    BY <1>22 DEF CallTools, TypeOK, TurnTyped, Turn
  <2> QED
    BY <2>1, TurnGoesOn DEF TypeOK, TurnTyped, CarriersInv, AfterStore
<1>23. ASSUME ToolsDone PROVE TurnCarries'
  <2>1. fg.at = "tools" /\ fg'.at = "boundary" /\ fg'.ids = fg.ids /\ fg'.to = fg.to
        /\ fg'.items = fg.items
    BY <1>23 DEF ToolsDone, TypeOK, TurnTyped, Turn
  <2> QED
    BY <2>1, TurnGoesOn DEF TypeOK, TurnTyped, CarriersInv, AfterStore
<1>24. ASSUME BoundaryPassed PROVE TurnCarries'
  <2>1. TurnAt("hook") /\ fg.at = "boundary"
    BY <1>24 DEF BoundaryPassed
  <2> QED
    BY <2>1, TurnAtMoves, TurnIsOver, TurnGoesOn DEF TurnTyped, TurnPlaces, TypeOK, CarriersInv,
       AfterStore
<1>25. ASSUME Proceed PROVE TurnCarries'
  <2>1. (TurnAt("closing") \/ TurnAt("model")) /\ fg.at = "hook"
    BY <1>25 DEF Proceed
  <2> QED
    BY <2>1, TurnAtMoves, TurnIsOver, TurnGoesOn DEF TurnTyped, TurnPlaces, TypeOK, CarriersInv,
       AfterStore
<1>26. ASSUME Answer PROVE TurnCarries'
  <2>1. TurnAt("closing")
    BY <1>26 DEF Answer
  <2> QED
    BY <2>1, TurnAtMoves, TurnIsOver, TurnGoesOn DEF TurnTyped, TurnPlaces, TypeOK, CarriersInv,
       AfterStore
<1>27. ASSUME CancelTurn PROVE TurnCarries'
  <2>1. TurnAt("closing") \/ TurnAt("ended")
    BY <1>27 DEF CancelTurn
  <2> QED
    BY <2>1, TurnAtMoves, TurnIsOver, TurnGoesOn DEF TurnTyped, TurnPlaces, TypeOK, CarriersInv,
       AfterStore
<1>28. ASSUME EndTurn PROVE TurnCarries'
  <2>1. TurnAt("ended")
    BY <1>28 DEF EndTurn
  <2> QED
    BY <2>1, TurnAtMoves, TurnIsOver, TurnGoesOn DEF TurnTyped, TurnPlaces, TypeOK, CarriersInv,
       AfterStore
<1>29. ChildStore \/ ChildMark \/ ChildMarked =>
        UNCHANGED <<fg>>
  BY DEF ChildStore, ChildMark, ChildMarked, ChildOnly, inputVars, promptVars, arrivals,
         loopVars, turnVars
<1>30. Enter \/ Up \/ ChildStops \/ (\E p \in Peers : Arrive(p)) =>
        UNCHANGED <<fg>>
  BY DEF Enter, Up, ChildStops, Arrive, Outside, inputVars, arrivals, loopVars, turnVars,
         RecallAt, ChildOnly, promptVars, Comes
<1>31. ASSUME Escape PROVE TurnCarries'
  <2>1. SameTurn
    BY <1>31, TurnHalts DEF TypeOK, TurnTyped
  <2> QED
    BY <2>1, TurnGoesOn DEF SameTurn, TypeOK, TurnTyped, CarriersInv
<1>32. ASSUME Stop PROVE TurnCarries'
  <2>1. SameTurn
    BY <1>32, TurnHalts DEF TypeOK, TurnTyped
  <2> QED
    BY <2>1, TurnGoesOn DEF SameTurn, TypeOK, TurnTyped, CarriersInv
<1>33. UNCHANGED vars => UNCHANGED <<fg>>
  BY DEF vars, inputVars, promptVars, arrivals, loopVars, turnVars
<1> QED
  BY <1>1, <1>2, <1>3, <1>4, <1>5, <1>6, <1>7, <1>8, <1>9, <1>10, <1>11, <1>12, <1>13, <1>14,
     <1>15, <1>16, <1>17, <1>18, <1>19, <1>20, <1>21, <1>22, <1>23, <1>24, <1>25, <1>26, <1>27,
     <1>28, <1>29, <1>30, <1>31, <1>32, <1>33
     DEF Next, Prompt, RecallStep, ArrivalStep, LoopStep, TurnStep, ChildStep, FromOutside, Rest

\* A claim that is ready stays what it is.
LEMMA ReadyStays ==
  ASSUME TypeOK, CarriersInv, TakenStays, NEW n \in 1..Len(ready)
  PROVE  /\ \A i \in ready[n].ids : entries'[i].status \in {"claimed", "delivered"}
              /\ entries'[i].to = ready[n].to
         /\ Carries(ready[n].items, ready[n].ids)
<1>1. ready[n] \in Claims
  BY ElementOfSeq DEF TypeOK
<1>2. ready[n].ids \subseteq Inputs
  BY <1>1 DEF Claims
<1> QED
  BY <1>2 DEF CarriersInv, ReadyCarries, Taken, TakenStays

\* So do the claims that are ready.
LEMMA ReadyCarriesKept ==
  ASSUME TypeOK, EditorInv, PlacesInv, LockInv, CarriersInv, TakenStays, StoredGrows, [Next]_vars
  PROVE  ReadyCarries'
<1>1. UNCHANGED <<ready>> => ReadyCarries'
  BY ReadyStays DEF ReadyCarries, Taken
<1>2. HubStep => UNCHANGED <<ready>>
  BY DEF HubStep, HubOnly, inputVars, promptVars, arrivals, loopVars, turnVars
<1>3. SubmitCommand \/ Retain \/ Retained \/ Admit \/ Admitted =>
        UNCHANGED <<ready>>
  BY DEF SubmitCommand, Retain, Retained, Admit, Admitted, EditorAt, inputVars, turnVars,
         arrivals, loopVars
<1>4. Recall \/ NothingToRecall \/ Recalled =>
        UNCHANGED <<ready>>
  BY DEF Recall, NothingToRecall, Recalled, RecallAt, inputVars, arrivals, loopVars, turnVars
<1>5. (\E x \in Escapes : RequestInterrupt(x)) \/ (\E x \in Escapes : QueueInterrupt(x))
        \/ (\E p \in Peers : QueueIncoming(p)) \/ (\E p \in Peers : TakeIncoming(p)) =>
        UNCHANGED <<ready>>
  BY DEF RequestInterrupt, QueueInterrupt, QueueIncoming, TakeIncoming, Comes, inputVars,
         promptVars, loopVars, turnVars, StopOn
<1>6. RunCommand \/ CommandRun \/ StartPeers \/ ClaimOldest \/ NothingToClaim \/ Claim
        \/ Claimed \/ ClaimedTooLate \/ Await \/ Wake \/ Accept \/ NothingForInterrupt
        \/ ClaimAll \/ ClaimedAll \/ Finalize \/ Context \/ Submitted \/ Break \/ Record
        \/ Stopped =>
        UNCHANGED <<ready>>
  BY DEF RunCommand, CommandRun, StartPeers, ClaimOldest, NothingToClaim, Claim, Claimed,
         ClaimedTooLate, Await, Wake, Accept, NothingForInterrupt, ClaimAll, ClaimedAll,
         Finalize, Context, Submitted, Break, Record, Stopped, LoopAt, inputVars, Open,
         promptVars, arrivals, turnVars, Apply
<1>7. ASSUME StartReady PROVE ReadyCarries'
  <2>1. ready # << >> /\ ready' = Tail(ready)
    BY <1>7 DEF StartReady
  <2>2. \A n \in 1..Len(ready') : n + 1 \in 1..Len(ready) /\ ready'[n] = ready[n + 1]
    BY <2>1, TailElements DEF TypeOK
  <2> QED
    BY <2>2, ReadyStays DEF ReadyCarries, Taken
<1>8. ASSUME Barrier PROVE ReadyCarries'
  <2>1. PICK items \in Seq(Items) :
          /\ Carries(items, main.now.ids)
          /\ ready' = (IF main.now.ids = {} THEN ready
                       ELSE Append(ready, [ids |-> main.now.ids, to |-> main.now.to, items |-> items]))
    BY <1>8, BarrierGives
  <2> DEFINE c == [ids |-> main.now.ids, to |-> main.now.to, items |-> items]
  <2>2. main.now.ids \in SUBSET Inputs /\ main.now.to \in Agents
    BY DEF TypeOK, LoopTyped, Loop, Interrupts
  <2>3. c \in Claims /\ c.ids = main.now.ids /\ c.to = main.now.to /\ c.items = items
    BY <2>2 DEF Claims
  <2>4. Taken(main.now.ids, main.now.to)
    BY <1>8 DEF Barrier, CarriersInv, InterruptCarries, Finalizing
  <2>5. \A i \in c.ids : entries'[i].status \in {"claimed", "delivered"} /\ entries'[i].to = c.to
    BY <2>2, <2>3, <2>4 DEF Taken, TakenStays
  <2>6. ready' = ready \/ ready' = Append(ready, c)
    BY <2>1
  <2>7. Carries(c.items, c.ids)
    BY <2>1, <2>3
  <2> HIDE DEF c
  <2>8. \A n \in 1..Len(ready') : (n \in 1..Len(ready) /\ ready'[n] = ready[n]) \/ ready'[n] = c
    BY <2>3, <2>6, AppendElements DEF TypeOK
  <2>9. \A n \in 1..Len(ready') :
          /\ \A i \in ready'[n].ids : entries'[i].status \in {"claimed", "delivered"}
               /\ entries'[i].to = ready'[n].to
          /\ Carries(ready'[n].items, ready'[n].ids)
    BY <2>5, <2>7, <2>8, ReadyStays
  <2> QED
    BY <2>9 DEF ReadyCarries, Taken
<1>9. Forward \/ StartTurn \/ StoreItems \/ ItemCommitted \/ Mark \/ Marked \/ CallTools
        \/ ToolsDone \/ BoundaryPassed \/ Proceed \/ Answer \/ CancelTurn \/ EndTurn =>
        UNCHANGED <<ready>>
  BY DEF Forward, StartTurn, StoreItems, ItemCommitted, Mark, Marked, CallTools, ToolsDone,
         BoundaryPassed, Proceed, Answer, CancelTurn, EndTurn, TurnAt, inputVars, TurnOnly,
         promptVars, arrivals, loopVars
<1>10. ChildStore \/ ChildMark \/ ChildMarked =>
        UNCHANGED <<ready>>
  BY DEF ChildStore, ChildMark, ChildMarked, ChildOnly, inputVars, promptVars, arrivals,
         loopVars, turnVars
<1>11. Enter \/ Up \/ Escape \/ Stop \/ ChildStops \/ (\E p \in Peers : Arrive(p)) =>
        UNCHANGED <<ready>>
  BY DEF Enter, Up, Escape, Stop, ChildStops, Arrive, Outside, inputVars, arrivals, loopVars,
         turnVars, RecallAt, StopOn, promptVars, ChildOnly, Comes
<1>12. UNCHANGED vars => UNCHANGED <<ready>>
  BY DEF vars, inputVars, promptVars, arrivals, loopVars, turnVars
<1> QED
  BY <1>1, <1>2, <1>3, <1>4, <1>5, <1>6, <1>7, <1>8, <1>9, <1>10, <1>11, <1>12
     DEF Next, Prompt, RecallStep, ArrivalStep, LoopStep, TurnStep, ChildStep, FromOutside, Rest

\* An interrupt keeps the inputs it was given.
LEMMA InterruptStays ==
  ASSUME TypeOK, CarriersInv, TakenStays, NEW n \in 1..Len(settling)
  PROVE  /\ settling[n] \in Interrupts /\ settling[n].to = "main"
         /\ \A i \in settling[n].ids : entries'[i].status \in {"claimed", "delivered"}
              /\ entries'[i].to = "main"
<1>1. settling[n] \in Interrupts
  BY ElementOfSeq DEF TypeOK, LoopTyped
<1>2. settling[n].ids \subseteq Inputs
  BY <1>1 DEF Interrupts
<1> QED
  BY <1>1, <1>2 DEF CarriersInv, InterruptCarries, Taken, TakenStays

\* An applied interrupt carries the inputs it has claimed.
LEMMA ApplyCarries ==
  ASSUME TypeOK, CarriersInv, TakenStays, NEW ids \in SUBSET Inputs, Apply(ids),
         \A i \in ids : entries'[i].status \in {"claimed", "delivered"} /\ entries'[i].to = main.now.to
  PROVE  InterruptCarries'
<1> DEFINE now == [main.now EXCEPT !.ids = ids]
<1>1. now \in Interrupts /\ now.ids = ids /\ now.to = main.now.to
  BY DEF TypeOK, LoopTyped, Loop, Interrupts
<1>2. CASE Hits(now)
  <2>1. settling' = Append(settling, now) /\ main'.at = NextPhase(main.done) /\ main.now.to = "main"
    BY <1>1, <1>2 DEF Apply, TypeOK, LoopTyped, Loop, Hits
  <2> HIDE DEF now
  <2>2. \A n \in 1..Len(settling') : (n \in 1..Len(settling) /\ settling'[n] = settling[n])
        \/ settling'[n] = now
    BY <1>1, <2>1, AppendElements DEF TypeOK, LoopTyped
  <2>3. \A n \in 1..Len(settling') : /\ settling'[n].to = "main"
          /\ \A i \in settling'[n].ids : entries'[i].status \in {"claimed", "delivered"}
               /\ entries'[i].to = "main"
    BY <1>1, <2>1, <2>2, InterruptStays
  <2>4. ~Finalizing'
    BY <2>1, NextPhaseType DEF Finalizing
  <2> QED
    BY <2>3, <2>4 DEF InterruptCarries, Taken
<1>3. CASE ~Hits(now)
  <2>1. main'.now = now /\ UNCHANGED settling
    BY <1>3 DEF Apply, TypeOK, LoopTyped, Loop
  <2>2. main'.now.ids = ids /\ main'.now.to = main.now.to
    BY <1>1, <2>1
  <2>3. \A i \in main'.now.ids : entries'[i].status \in {"claimed", "delivered"}
        /\ entries'[i].to = main'.now.to
    BY <2>2
  <2> HIDE DEF now
  <2> QED
    BY <2>1, <2>3, InterruptStays DEF InterruptCarries, Taken
<1> QED
  BY <1>2, <1>3

\* An interrupt carries what was claimed for its agent.
LEMMA InterruptCarriesKept ==
  ASSUME TypeOK, EditorInv, PlacesInv, LockInv, CarriersInv, TakenStays, StoredGrows, [Next]_vars
  PROVE  InterruptCarries'
<1>0. NowKept \/ Wake \/ Accept \/ NothingForInterrupt \/ ClaimedAll \/ Barrier
  BY NowMoves DEF TypeOK, LoopTyped
<1>1. UNCHANGED settling /\ NowKept => InterruptCarries'
  <2> SUFFICES ASSUME UNCHANGED settling, NowKept PROVE InterruptCarries'
    OBVIOUS
  <2>1. Finalizing' => Finalizing /\ main'.now = main.now
    BY DEF NowKept, Finalizing, Interrupting
  <2>2. main.now.ids \subseteq Inputs
    BY DEF TypeOK, LoopTyped, Loop, Interrupts
  <2>3. Finalizing' => \A i \in main'.now.ids : entries'[i].status \in {"claimed", "delivered"}
        /\ entries'[i].to = main'.now.to
    BY <2>1, <2>2 DEF CarriersInv, InterruptCarries, Taken, TakenStays
  <2> QED
    BY <2>3, InterruptStays DEF InterruptCarries, Taken
<1>2. HubStep => UNCHANGED settling
  BY DEF HubStep, HubOnly, inputVars, promptVars, arrivals, loopVars, turnVars
<1>3. SubmitCommand \/ Retain \/ Retained \/ Admit \/ Admitted =>
        UNCHANGED settling
  BY DEF SubmitCommand, Retain, Retained, Admit, Admitted, EditorAt, inputVars, turnVars,
         arrivals, loopVars
<1>4. Recall \/ NothingToRecall \/ Recalled =>
        UNCHANGED settling
  BY DEF Recall, NothingToRecall, Recalled, RecallAt, inputVars, arrivals, loopVars, turnVars
<1>5. (\E x \in Escapes : RequestInterrupt(x)) \/ (\E x \in Escapes : QueueInterrupt(x))
        \/ (\E p \in Peers : QueueIncoming(p)) \/ (\E p \in Peers : TakeIncoming(p)) =>
        UNCHANGED settling
  BY DEF RequestInterrupt, QueueInterrupt, QueueIncoming, TakeIncoming, Comes, inputVars,
         promptVars, loopVars, turnVars, StopOn
<1>6. RunCommand \/ CommandRun \/ StartPeers \/ StartReady \/ ClaimOldest \/ NothingToClaim
        \/ Claim \/ Claimed \/ ClaimedTooLate \/ Await \/ ClaimAll \/ Finalize \/ Context
        \/ Submitted \/ Break \/ Record \/ Stopped =>
        UNCHANGED settling
  BY DEF RunCommand, CommandRun, StartPeers, StartReady, ClaimOldest, NothingToClaim, Claim,
         Claimed, ClaimedTooLate, Await, ClaimAll, Finalize, Context, Submitted, Break, Record,
         Stopped, LoopAt, inputVars, Open, promptVars, arrivals, turnVars
<1>7. ASSUME Wake PROVE InterruptCarries'
  <2>2. CASE "fg" \in Done /\ settling # << >>
    <3>1. main'.now = Head(settling) /\ settling' = Tail(settling)
      BY <1>7, <2>2 DEF Wake, Loop, LoopTyped, TypeOK
    <3>2. 1 \in 1..Len(settling) /\ Head(settling) = settling[1]
          /\ \A n \in 1..Len(settling') : n + 1 \in 1..Len(settling) /\ settling'[n] = settling[n + 1]
      BY <2>2, <3>1, TailElements DEF TypeOK, LoopTyped
    <3>3. main'.now.to = "main"
          /\ \A i \in main'.now.ids : entries'[i].status \in {"claimed", "delivered"}
               /\ entries'[i].to = "main"
      BY <3>1, <3>2, InterruptStays
    <3>4. \A n \in 1..Len(settling') : /\ settling'[n].to = "main"
            /\ \A i \in settling'[n].ids : entries'[i].status \in {"claimed", "delivered"}
                 /\ entries'[i].to = "main"
      BY <3>2, InterruptStays
    <3> QED
      BY <3>3, <3>4 DEF InterruptCarries, Taken
  <2>3. CASE ~("fg" \in Done /\ settling # << >>)
    <3>1. main'.at \in {NextPhase(Done)} /\ UNCHANGED settling
      BY <1>7, <2>3 DEF Wake, Loop, LoopTyped, TypeOK
    <3>2. ~Finalizing'
      BY <3>1, NextPhaseType DEF Finalizing
    <3> QED
      BY <3>1, <3>2, InterruptStays DEF InterruptCarries, Taken
  <2> QED
    BY <2>2, <2>3
<1>8. ASSUME Accept PROVE InterruptCarries'
  <2>1. main'.at \in {"claimAll", NextPhase(main.done \ {"interrupt"})} /\ UNCHANGED settling
    BY <1>8 DEF Accept, Loop, LoopTyped, TypeOK
  <2>2. ~Finalizing'
    BY <2>1, NextPhaseType DEF Finalizing
  <2> QED
    BY <2>1, <2>2, InterruptStays DEF InterruptCarries, Taken
<1>9. ASSUME NothingForInterrupt PROVE InterruptCarries'
  BY <1>9, ApplyCarries DEF NothingForInterrupt
<1>10. ASSUME ClaimedAll PROVE InterruptCarries'
  <2>1. Apply(lock.ids) /\ Commits
    BY <1>10, InputActions DEF ClaimedAll
  <2>2. lock.kind = "claimed" /\ lock.to = main.now.to
    BY <1>10 DEF ClaimedAll, LockInv, LoopLock
  <2>3. \A i \in lock.ids : i \in Inputs /\ entries'[i].status = "claimed" /\ entries'[i].to = lock.to
    BY <2>1, <2>2, LockIsTaken DEF TypeOK
  <2> QED
    BY <2>1, <2>2, <2>3, ApplyCarries
<1>11. ASSUME Barrier PROVE InterruptCarries'
  <2>2. CASE settling # << >> /\ fg.at = "none"
    <3>1. main'.now = Head(settling) /\ settling' = Tail(settling)
      BY <1>11, <2>2 DEF Barrier, Loop, LoopTyped, TypeOK
    <3>2. 1 \in 1..Len(settling) /\ Head(settling) = settling[1]
          /\ \A n \in 1..Len(settling') : n + 1 \in 1..Len(settling) /\ settling'[n] = settling[n + 1]
      BY <2>2, <3>1, TailElements DEF TypeOK, LoopTyped
    <3>3. main'.now.to = "main"
          /\ \A i \in main'.now.ids : entries'[i].status \in {"claimed", "delivered"}
               /\ entries'[i].to = "main"
      BY <3>1, <3>2, InterruptStays
    <3>4. \A n \in 1..Len(settling') : /\ settling'[n].to = "main"
            /\ \A i \in settling'[n].ids : entries'[i].status \in {"claimed", "delivered"}
                 /\ entries'[i].to = "main"
      BY <3>2, InterruptStays
    <3> QED
      BY <3>3, <3>4 DEF InterruptCarries, Taken
  <2>3. CASE ~(settling # << >> /\ fg.at = "none")
    <3>1. main'.at \in {"context", NextPhase(main.done)} /\ UNCHANGED settling
      BY <1>11, <2>3 DEF Barrier, Loop, LoopTyped, TypeOK
    <3>2. ~Finalizing'
      BY <3>1, NextPhaseType DEF Finalizing
    <3> QED
      BY <3>1, <3>2, InterruptStays DEF InterruptCarries, Taken
  <2> QED
    BY <2>2, <2>3
<1>12. Forward \/ StartTurn \/ StoreItems \/ ItemCommitted \/ Mark \/ Marked \/ CallTools
        \/ ToolsDone \/ BoundaryPassed \/ Proceed \/ Answer \/ CancelTurn \/ EndTurn =>
        UNCHANGED settling
  BY DEF Forward, StartTurn, StoreItems, ItemCommitted, Mark, Marked, CallTools, ToolsDone,
         BoundaryPassed, Proceed, Answer, CancelTurn, EndTurn, TurnAt, inputVars, TurnOnly,
         promptVars, arrivals, loopVars
<1>13. ChildStore \/ ChildMark \/ ChildMarked =>
        UNCHANGED settling
  BY DEF ChildStore, ChildMark, ChildMarked, ChildOnly, inputVars, promptVars, arrivals,
         loopVars, turnVars
<1>14. Enter \/ Up \/ Escape \/ Stop \/ ChildStops \/ (\E p \in Peers : Arrive(p)) =>
        UNCHANGED settling
  BY DEF Enter, Up, Escape, Stop, ChildStops, Arrive, Outside, inputVars, arrivals, loopVars,
         turnVars, RecallAt, StopOn, promptVars, ChildOnly, Comes
<1>15. UNCHANGED vars => UNCHANGED settling
  BY DEF vars, inputVars, promptVars, arrivals, loopVars, turnVars
<1> QED
  BY <1>0, <1>1, <1>2, <1>3, <1>4, <1>5, <1>6, <1>7, <1>8, <1>9, <1>10, <1>11, <1>12, <1>13, <1>14,
     <1>15
     DEF Next, Prompt, RecallStep, ArrivalStep, LoopStep, TurnStep, ChildStep, FromOutside, Rest

\* What the child has been given stays claimed for it.
LEMMA ChildStays ==
  ASSUME TypeOK, CarriersInv, TakenStays, NEW n \in 1..Len(child.queue)
  PROVE  \A i \in child.queue[n] : entries'[i].status \in {"claimed", "delivered"}
        /\ entries'[i].to = "child"
<1>1. child.queue[n] \subseteq Inputs
  BY ElementOfSeq DEF TypeOK, Child
<1> QED
  BY <1>1 DEF CarriersInv, ChildCarries, Taken, TakenStays

\* A background agent is given what was claimed for it.
LEMMA ChildCarriesKept ==
  ASSUME TypeOK, EditorInv, PlacesInv, LockInv, CarriersInv, TakenStays, StoredGrows, [Next]_vars
  PROVE  ChildCarries'
<1>1. UNCHANGED <<child>> => ChildCarries'
  BY ChildStays DEF ChildCarries, Taken
<1>2. HubStep => UNCHANGED <<child>>
  BY DEF HubStep, HubOnly, inputVars, promptVars, arrivals, loopVars, turnVars
<1>3. SubmitCommand \/ Retain \/ Retained \/ Admit \/ Admitted =>
        UNCHANGED <<child>>
  BY DEF SubmitCommand, Retain, Retained, Admit, Admitted, EditorAt, inputVars, turnVars,
         arrivals, loopVars
<1>4. Recall \/ NothingToRecall \/ Recalled =>
        UNCHANGED <<child>>
  BY DEF Recall, NothingToRecall, Recalled, RecallAt, inputVars, arrivals, loopVars, turnVars
<1>5. (\E x \in Escapes : RequestInterrupt(x)) \/ (\E x \in Escapes : QueueInterrupt(x))
        \/ (\E p \in Peers : QueueIncoming(p)) \/ (\E p \in Peers : TakeIncoming(p)) =>
        UNCHANGED <<child>>
  BY DEF RequestInterrupt, QueueInterrupt, QueueIncoming, TakeIncoming, Comes, inputVars,
         promptVars, loopVars, turnVars, StopOn
<1>6. RunCommand \/ CommandRun \/ StartPeers \/ StartReady \/ ClaimOldest \/ NothingToClaim
        \/ Claim \/ Claimed \/ ClaimedTooLate \/ Await \/ Wake \/ Accept \/ NothingForInterrupt
        \/ ClaimAll \/ ClaimedAll \/ Finalize \/ Barrier \/ Context \/ Submitted \/ Break
        \/ Record \/ Stopped =>
        UNCHANGED <<child>>
  BY DEF RunCommand, CommandRun, StartPeers, StartReady, ClaimOldest, NothingToClaim, Claim,
         Claimed, ClaimedTooLate, Await, Wake, Accept, NothingForInterrupt, ClaimAll, ClaimedAll,
         Finalize, Barrier, Context, Submitted, Break, Record, Stopped, LoopAt, inputVars, Open,
         promptVars, arrivals, turnVars, Apply
<1>7. StartTurn \/ StoreItems \/ ItemCommitted \/ Mark \/ Marked \/ CallTools \/ ToolsDone
        \/ BoundaryPassed \/ Proceed \/ Answer \/ CancelTurn \/ EndTurn =>
        UNCHANGED <<child>>
  BY DEF StartTurn, StoreItems, ItemCommitted, Mark, Marked, CallTools, ToolsDone,
         BoundaryPassed, Proceed, Answer, CancelTurn, EndTurn, TurnOnly, inputVars, TurnAt,
         promptVars, arrivals, loopVars
<1>8. ASSUME Forward PROVE ChildCarries'
  <2>1. fg.to = "child" /\ (child'.queue = child.queue \/ child'.queue = Append(child.queue, fg.ids))
    BY <1>8 DEF Forward, TypeOK, Child
  <2>2. fg.ids \in SUBSET Inputs /\ child.queue \in Seq(SUBSET Inputs)
    BY DEF TypeOK, TurnTyped, Turn, Child
  <2>3. \A i \in fg.ids : entries'[i].status \in {"claimed", "delivered"} /\ entries'[i].to = "child"
    BY <2>1, <2>2 DEF CarriersInv, TurnCarries, Taken, TakenStays
  <2>4. \A n \in 1..Len(child'.queue) : (n \in 1..Len(child.queue)
        /\ child'.queue[n] = child.queue[n]) \/ child'.queue[n] = fg.ids
    BY <2>1, <2>2, AppendElements
  <2> QED
    BY <2>3, <2>4, ChildStays DEF ChildCarries, Taken
<1>9. ASSUME ChildStore PROVE ChildCarries'
  <2>1. child'.queue = child.queue
    BY <1>9 DEF ChildStore, TypeOK, Child
  <2> QED
    BY <2>1, ChildStays DEF ChildCarries, Taken
<1>10. ASSUME ChildMark PROVE ChildCarries'
  <2>1. child'.queue = child.queue
    BY <1>10 DEF ChildMark, TypeOK, Child
  <2> QED
    BY <2>1, ChildStays DEF ChildCarries, Taken
<1>11. ASSUME ChildMarked PROVE ChildCarries'
  <2>1. child'.queue = Tail(child.queue) /\ child.queue # << >>
    BY <1>11 DEF ChildMarked, LockInv, ChildLock
  <2>2. \A n \in 1..Len(child'.queue) : n + 1 \in 1..Len(child.queue)
        /\ child'.queue[n] = child.queue[n + 1]
    BY <2>1, TailElements DEF TypeOK, Child
  <2> QED
    BY <2>2, ChildStays DEF ChildCarries, Taken
<1>12. Enter \/ Up \/ Escape \/ Stop \/ (\E p \in Peers : Arrive(p)) =>
        UNCHANGED <<child>>
  BY DEF Enter, Up, Escape, Stop, Arrive, Outside, inputVars, arrivals, loopVars, turnVars,
         RecallAt, StopOn, promptVars, Comes
<1>13. ASSUME ChildStops PROVE ChildCarries'
  <2>1. child'.queue = child.queue
    BY <1>13 DEF ChildStops, TypeOK, Child
  <2> QED
    BY <2>1, ChildStays DEF ChildCarries, Taken
<1>14. UNCHANGED vars => UNCHANGED <<child>>
  BY DEF vars, inputVars, promptVars, arrivals, loopVars, turnVars
<1> QED
  BY <1>1, <1>2, <1>3, <1>4, <1>5, <1>6, <1>7, <1>8, <1>9, <1>10, <1>11, <1>12, <1>13, <1>14
     DEF Next, Prompt, RecallStep, ArrivalStep, LoopStep, TurnStep, ChildStep, FromOutside, Rest

\* A commit that is announced now is one of a stored input.
Fresh(w) ==
  w.kind = "committed" =>
    \A i \in w.ids : /\ entries'[i].status \in {"claimed", "delivered"} /\ entries'[i].to = w.to
                     /\ w.to = "main" => Stored(i)'

\* The commits on their way are those of stored inputs.
LEMMA WireStays ==
  ASSUME TypeOK, CarriersInv, TakenStays, StoredGrows, \A w \in wire' : w \in wire \/ Fresh(w)
  PROVE  WireCarries'
<1>1. ASSUME NEW w \in wire PROVE Fresh(w)
  <2>1. w.ids \subseteq Inputs
    BY DEF TypeOK, HubTyped, Marks
  <2> QED
    BY <2>1 DEF Fresh, CarriersInv, WireCarries, Taken, TakenStays, StoredGrows
<1>2. \A w \in wire' : Fresh(w)
  BY <1>1
<1> QED
  BY <1>2 DEF Fresh, WireCarries, Taken

\* So are the messages on their way to the journal.
LEMMA WireCarriesKept ==
  ASSUME TypeOK, EditorInv, PlacesInv, LockInv, CarriersInv, TakenStays, StoredGrows, [Next]_vars
  PROVE  WireCarries'
<1>1. UNCHANGED <<wire>> => WireCarries'
  BY WireStays
<1>2. ASSUME Deliver /\ HubOnly PROVE WireCarries'
  <2>1. wire' \subseteq wire
    BY <1>2, DeliverMoves DEF Settled
  <2> QED
    BY <2>1, WireStays
<1>3. ASSUME PassDropped /\ HubOnly PROVE WireCarries'
  <2>1. UNCHANGED wire
    BY <1>3, PassMoves DEF Passed
  <2> QED
    BY <2>1, WireStays
<1>4. Retained \/ Admitted =>
        UNCHANGED <<wire>>
  BY DEF Retained, Admitted, EditorAt, hubVars, inputVars, turnVars, arrivals, loopVars
<1>5. ASSUME SubmitCommand PROVE WireCarries'
  <2>1. UNCHANGED wire
    BY <1>5, HubActions DEF Took, GaveUp
  <2> QED
    BY <2>1, WireStays
<1>6. ASSUME Retain PROVE WireCarries'
  <2>1. \A w \in wire' : w \in wire \/ w.kind # "committed"
    BY <1>6, HubActions DEF Posted, Filled, Event, Other
  <2> QED
    BY <2>1, WireStays DEF Fresh
<1>7. ASSUME Admit PROVE WireCarries'
  <2>1. \A w \in wire' : w \in wire \/ w.kind # "committed"
    BY <1>7, HubActions DEF Posted, Filled, Event, Other
  <2> QED
    BY <2>1, WireStays DEF Fresh
<1>8. NothingToRecall \/ Recalled =>
        UNCHANGED <<wire>>
  BY DEF NothingToRecall, Recalled, RecallAt, hubVars, inputVars, arrivals, loopVars, turnVars
<1>9. ASSUME Recall PROVE WireCarries'
  <2>1. \A w \in wire' : w \in wire \/ w.kind # "committed"
    BY <1>9, HubActions DEF Posted, Filled, Event, Other
  <2> QED
    BY <2>1, WireStays DEF Fresh
<1>10. (\E x \in Escapes : QueueInterrupt(x)) \/ (\E p \in Peers : QueueIncoming(p))
        \/ (\E p \in Peers : TakeIncoming(p)) =>
        UNCHANGED <<wire>>
  BY DEF QueueInterrupt, QueueIncoming, TakeIncoming, Comes, StopOn, hubVars, inputVars,
         promptVars, loopVars, turnVars
<1>11. ASSUME NEW x \in Escapes, RequestInterrupt(x) PROVE WireCarries'
  <2>1. \A w \in wire' : w \in wire \/ w.kind # "committed"
    BY <1>11, HubActions DEF Posted, Filled, Event, Other
  <2> QED
    BY <2>1, WireStays DEF Fresh
<1>12. RunCommand \/ CommandRun \/ StartPeers \/ StartReady \/ ClaimOldest \/ NothingToClaim
        \/ Claimed \/ ClaimedTooLate \/ Await \/ Wake \/ Accept \/ NothingForInterrupt
        \/ ClaimedAll \/ Barrier \/ Context \/ Submitted \/ Break \/ Stopped =>
        UNCHANGED <<wire>>
  BY DEF RunCommand, CommandRun, StartPeers, StartReady, ClaimOldest, NothingToClaim, Claimed,
         ClaimedTooLate, Await, Wake, Accept, NothingForInterrupt, ClaimedAll, Barrier, Context,
         Submitted, Break, Stopped, LoopAt, hubVars, inputVars, Open, promptVars, arrivals,
         turnVars, Apply
<1>13. ASSUME Claim PROVE WireCarries'
  <2>1. \A w \in wire' : w \in wire \/ w.kind # "committed"
    BY <1>13, HubActions DEF Posted, Filled, Event, Other
  <2> QED
    BY <2>1, WireStays DEF Fresh
<1>14. ASSUME ClaimAll PROVE WireCarries'
  <2>1. \A w \in wire' : w \in wire \/ w.kind # "committed"
    BY <1>14, HubActions DEF Posted, Filled, Event, Other
  <2> QED
    BY <2>1, WireStays DEF Fresh
<1>15. ASSUME Finalize PROVE WireCarries'
  <2>1. \A w \in wire' : w \in wire \/ w.kind # "committed"
    BY <1>15, HubActions DEF Posted, Filled, Event, Other
  <2> QED
    BY <2>1, WireStays DEF Fresh
<1>16. ASSUME Record PROVE WireCarries'
  <2>1. \A w \in wire' : w \in wire \/ w.kind # "committed"
    BY <1>16, HubActions DEF Posted, Filled, Event, Other
  <2> QED
    BY <2>1, WireStays DEF Fresh
<1>17. Forward \/ StartTurn \/ Marked \/ CallTools \/ ToolsDone \/ BoundaryPassed \/ Proceed
        \/ Answer \/ EndTurn =>
        UNCHANGED <<wire>>
  BY DEF Forward, StartTurn, Marked, CallTools, ToolsDone, BoundaryPassed, Proceed, Answer,
         EndTurn, TurnAt, hubVars, inputVars, TurnOnly, promptVars, arrivals, loopVars
<1>18. ASSUME StoreItems PROVE WireCarries'
  <2>1. fg.at = "starting" /\ fg \in Turn /\ 1 \in Nat /\ 1 <= 1
    BY <1>18 DEF StoreItems, TypeOK, TurnTyped, Turn
  <2>2. Len(fg.items) \in Nat
    BY <2>1, LenProperties DEF Turn
  <2>3. CASE 1 > Len(fg.items)
    <3>1. UNCHANGED wire
      BY <1>18, <2>3, HubActions DEF hubVars
    <3> QED
      BY <3>1, WireStays
  <2>4. CASE 1 \in 1..Len(fg.items)
    <3>1. \A w \in wire' : w \in wire \/ w = Committed(1)
      BY <1>18, <2>1, <2>2, <2>4, HubActions DEF Posted
    <3>2. InputOf(fg.items[1]) \subseteq fg.ids /\ fg.ids \subseteq Inputs
      BY <2>1, <2>4 DEF CarriersInv, TurnCarries, Carries, Turn
    <3>3. \A i \in fg.ids : entries'[i].status \in {"claimed", "delivered"} /\ entries'[i].to = "main"
      BY <2>1, <3>2 DEF CarriersInv, TurnCarries, Taken, TakenStays, AfterStore
    <3>4. \A i \in fg.ids : Stored(i)'
      BY <1>18, <2>1, <3>2, ItemsStored DEF CarriersInv, TurnCarries, AfterStore, StoredGrows
    <3>5. Fresh(Committed(1))
      BY <3>2, <3>3, <3>4 DEF Fresh, Committed, Event
    <3> QED
      BY <3>1, <3>5, WireStays
  <2> QED
    BY <2>1, <2>2, <2>3, <2>4
<1>19. ASSUME ItemCommitted PROVE WireCarries'
  <2>1. fg.at = "committing" /\ fg \in Turn /\ fg.k + 1 \in Nat /\ 1 <= fg.k + 1
    BY <1>19 DEF ItemCommitted, TypeOK, TurnTyped, Turn
  <2>2. Len(fg.items) \in Nat
    BY <2>1, LenProperties DEF Turn
  <2>3. CASE fg.k + 1 > Len(fg.items)
    <3>1. UNCHANGED wire
      BY <1>19, <2>3, HubActions DEF hubVars
    <3> QED
      BY <3>1, WireStays
  <2>4. CASE fg.k + 1 \in 1..Len(fg.items)
    <3>1. \A w \in wire' : w \in wire \/ w = Committed(fg.k + 1)
      BY <1>19, <2>1, <2>2, <2>4, HubActions DEF Posted
    <3>2. InputOf(fg.items[fg.k + 1]) \subseteq fg.ids /\ fg.ids \subseteq Inputs
      BY <2>1, <2>4 DEF CarriersInv, TurnCarries, Carries, Turn
    <3>3. \A i \in fg.ids : entries'[i].status \in {"claimed", "delivered"} /\ entries'[i].to = "main"
      BY <2>1, <3>2 DEF CarriersInv, TurnCarries, Taken, TakenStays, AfterStore
    <3>4. \A i \in fg.ids : Stored(i)'
      BY <1>19, <2>1, <3>2, ItemsStored DEF CarriersInv, TurnCarries, AfterStore, StoredGrows
    <3>5. Fresh(Committed(fg.k + 1))
      BY <3>2, <3>3, <3>4 DEF Fresh, Committed, Event
    <3> QED
      BY <3>1, <3>5, WireStays
  <2> QED
    BY <2>1, <2>2, <2>3, <2>4
<1>20. ASSUME Mark PROVE WireCarries'
  <2>1. \A w \in wire' : w \in wire \/ w.kind # "committed"
    BY <1>20, HubActions DEF Posted, Filled, Event, Other
  <2> QED
    BY <2>1, WireStays DEF Fresh
<1>21. ASSUME CancelTurn PROVE WireCarries'
  <2>1. wire' \subseteq wire
    BY <1>21, HubActions DEF Settled, hubVars
  <2> QED
    BY <2>1, WireStays
<1>22. ChildMarked =>
        UNCHANGED <<wire>>
  BY DEF ChildMarked, ChildOnly, hubVars, promptVars, arrivals, loopVars, turnVars
<1>23. ASSUME ChildStore PROVE WireCarries'
  <2>1. \A w \in wire' : w \in wire \/ w = Event(given + 1, "committed", Head(child.queue), "child")
    BY <1>23, HubActions DEF Posted
  <2>2. child.queue # << >> /\ child.queue \in Seq(SUBSET Inputs)
    BY <1>23 DEF ChildStore, TypeOK, Child
  <2>3. Head(child.queue) = child.queue[1] /\ 1 \in 1..Len(child.queue)
    BY <2>2, TailElements
  <2>4. \A i \in Head(child.queue) : entries'[i].status \in {"claimed", "delivered"}
        /\ entries'[i].to = "child"
    BY <2>3, ChildStays
  <2>5. Fresh(Event(given + 1, "committed", Head(child.queue), "child"))
    BY <2>4 DEF Fresh, Event
  <2> QED
    BY <2>1, <2>5, WireStays
<1>24. ASSUME ChildMark PROVE WireCarries'
  <2>1. \A w \in wire' : w \in wire \/ w.kind # "committed"
    BY <1>24, HubActions DEF Posted, Filled, Event, Other
  <2> QED
    BY <2>1, WireStays DEF Fresh
<1>25. Up \/ Escape \/ Stop \/ ChildStops =>
        UNCHANGED <<wire>>
  BY DEF Up, Escape, Stop, ChildStops, Outside, RecallAt, hubVars, inputVars, StopOn, promptVars,
         loopVars, turnVars, ChildOnly, Comes, arrivals
<1>26. ASSUME Enter PROVE WireCarries'
  <2>1. UNCHANGED wire
    BY <1>26, HubActions DEF Took, GaveUp
  <2> QED
    BY <2>1, WireStays
<1>27. ASSUME NEW p \in Peers, Arrive(p) PROVE WireCarries'
  <2>1. \A w \in wire' : w \in wire \/ w.kind # "committed"
    BY <1>27, HubActions DEF Posted, Filled, Event, Other
  <2> QED
    BY <2>1, WireStays DEF Fresh
<1>28. UNCHANGED vars => UNCHANGED <<wire>>
  BY DEF vars, hubVars, inputVars, promptVars, arrivals, loopVars, turnVars
<1> QED
  BY <1>1, <1>2, <1>3, <1>4, <1>5, <1>6, <1>7, <1>8, <1>9, <1>10, <1>11, <1>12, <1>13, <1>14,
     <1>15, <1>16, <1>17, <1>18, <1>19, <1>20, <1>21, <1>22, <1>23, <1>24, <1>25, <1>26, <1>27,
     <1>28
     DEF Next, Prompt, RecallStep, ArrivalStep, LoopStep, TurnStep, ChildStep, FromOutside, Rest, HubStep

\* Whoever has an input still has what was claimed for it.
LEMMA CarriersKept ==
  ASSUME TypeOK, EditorInv, PlacesInv, LockInv, CarriersInv, InputMove, [Next]_vars
  PROVE  CarriersInv'
<1>1. TakenStays
  BY TakenIsTaken DEF TypeOK
<1>2. StoredGrows
  BY StoredStays
<1> QED
  BY <1>1, <1>2, TurnCarriesKept, ReadyCarriesKept, InterruptCarriesKept, ChildCarriesKept,
     ConvCarriesKept,
     WireCarriesKept DEF CarriersInv

-----------------------------------------------------------------------------
(* The core of the invariant, and with it the types.                       *)

\* The part of the invariant that the types of the operators need.
Core ==
  /\ TypeOK /\ HubInv /\ LockInv /\ WireInv /\ EditorInv /\ PlacesInv /\ CarriersInv
  /\ RequestedInv /\ DoneInv

\* Types, the numbering and the shape of a step, together.
LEMMA TypeKept ==
  ASSUME Core, [Next]_vars
  PROVE  TypeOK' /\ HubInv' /\ HubMove /\ InputMove
<1> USE DEF Core
<1>1. HubMove /\ InputMove
  BY HubMoves, InputMoves
<1>2. HubTyped' /\ HubInv'
  BY <1>1, HubKept DEF TypeOK
<1>3. InputTyped' /\ PromptTyped'
  BY <1>1, InputKept, PromptTypeKept DEF TypeOK
<1>4. ArrivalsTyped'
  BY ArrivalTypesKept DEF TypeOK
<1>5. main' \in Loop /\ QueuesTyped'
  BY LoopTypeKept, QueueTypesKept DEF TypeOK, LoopTyped, QueuesTyped
<1>6. LoopTyped'
  BY <1>5 DEF LoopTyped, QueuesTyped
<1>7. TurnTyped' /\ ready' \in Seq(Claims) /\ conv' \in Seq(Items)
  BY TurnTypeKept, ReadyTypeKept, ConvTypeKept DEF TypeOK
<1>8. child' \in Child
  BY ChildTypeKept DEF TypeOK
<1>9. restored' \in Found
  BY RestoredMoves, RestoredKept DEF TypeOK, HubTyped
<1> QED
  BY <1>1, <1>2, <1>3, <1>4, <1>6, <1>7, <1>8, <1>9 DEF TypeOK

\* The core of the invariant holds after every step.
LEMMA CoreKept ==
  ASSUME Core, [Next]_vars
  PROVE  Core'
<1>1. TypeOK' /\ HubInv' /\ HubMove /\ InputMove
  BY TypeKept
<1>2. LockInv'
  BY LockKept DEF Core
<1>3. WireInv'
  BY LockOnHub, WireKept DEF Core, TypeOK
<1>4. EditorInv'
  BY <1>1, <1>2, EditorKept DEF Core
<1>5. PlacesInv'
  BY <1>1, <1>2, <1>4, PlacesKept DEF Core
<1>6. CarriersInv'
  BY <1>1, CarriersKept DEF Core
<1>7. RequestedInv' /\ DoneInv'
  BY RequestedKept, DoneKept DEF Core, TypeOK, LoopTyped, QueuesTyped
<1> QED
  BY <1>1, <1>2, <1>3, <1>4, <1>5, <1>6, <1>7 DEF Core

\* It holds of a new session and of one that resumes another.
LEMMA CoreInitially ==
  ASSUME Init
  PROVE  Core
<1>1. /\ typed \in Nat /\ keys \in Int /\ keys >= -1 /\ given = typed /\ next = typed + 1
      /\ wire = {} /\ reserved = {} /\ dropped = {} /\ lock = Free
  BY BoundsAssumption DEF Init, InitInput
<1>2. /\ entries = [i \in Inputs |->
                      IF i <= typed THEN [status |-> "pending", seq |-> i, to |-> "main"] ELSE Absent]
      /\ restored = [status |-> [i \in Inputs |-> IF i <= typed THEN "pending" ELSE "unknown"],
                     to |-> [i \in Inputs |-> "main"], messages |-> {}, failed |-> FALSE]
  BY DEF Init, InitInput
<1>3. \A i \in Inputs : i \in Nat
  BY InputsAssumption
<1>4. /\ editor.at = "closed" /\ editor \in Editor /\ recall = "none" /\ stop = "none" /\ inbox = "none"
      /\ interrupts = << >> /\ settling = << >> /\ ready = << >> /\ conv = << >> /\ interrupted = {}
      /\ turns = 0 /\ early = {} /\ kind = [i \in Inputs |-> "message"]
  BY DEF Init, Closed, Editor, Agents
<1>5. main.at = "top" /\ main.done = {} /\ main \in Loop
  <2>1. main = [at |-> "top", done |-> {}, now |-> NoInterrupt, place |-> 0]
    BY DEF Init, Asleep
  <2> QED
    BY <2>1 DEF Loop, NoInterrupt, Interrupts, Agents
<1>6. fg = NoTurn /\ fg \in Turn
  BY DEF Init, NoTurn, Turn, Agents
<1>7. /\ \A x \in Escapes : escape[x].at = "none"
      /\ \A p \in Peers : peer[p].at = "none"
      /\ escape \in [Escapes -> Request] /\ peer \in [Peers -> Incoming]
  BY DEF Init, Request, Incoming, Agents
<1>8. child = [at |-> "idle", queue |-> << >>] /\ child \in Child
  BY DEF Init, Child
<1>9. HubTyped /\ HubInv
  BY <1>1 DEF HubTyped, HubInv
<1>10. InputTyped
  BY <1>1, <1>2, <1>3 DEF InputTyped, Entry, Statuses, Agents, Absent
<1>11. PromptTyped /\ ArrivalsTyped /\ LoopTyped /\ TurnTyped
  BY <1>1, <1>4, <1>5, <1>6, <1>7 DEF PromptTyped, ArrivalsTyped, LoopTyped, TurnTyped, Kinds
<1>12. restored \in Found
  BY <1>2 DEF Found, Statuses, Agents
<1>13. TypeOK
  BY <1>4, <1>8, <1>9, <1>10, <1>11, <1>12 DEF TypeOK
<1>14. \A i \in Inputs : /\ entries[i].status = (IF i <= typed THEN "pending" ELSE "absent")
                         /\ Known(i) => i <= typed /\ entries[i].seq = i
  BY <1>2 DEF Absent, Known
<1>15. LockInv /\ WireInv
  BY <1>1, <1>4, <1>5, <1>6, <1>8
     DEF LockInv, EditorLock, RecallLock, LoopLock, TurnLock, ChildLock, Free, NoTurn, WireInv
<1>16. EditorInv
  BY <1>1, <1>3, <1>4, <1>14 DEF EditorInv, Submitting
<1>17. Came = {} /\ RequestPlaces = {}
  <2>1. \A s : s = << >> => PlacesOf(s) = {}
    BY DEF PlacesOf
  <2> QED
    BY <1>4, <1>5, <1>7, <2>1 DEF Came, RequestPlaces, PostedPlaces, BusyPlaces, Interrupting
<1>18. PlacesInv
  BY <1>17 DEF PlacesInv
<1>19. \A i \in Inputs : ~Stored(i)
  BY <1>4 DEF Stored
<1>20. CarriersInv
  BY <1>1, <1>4, <1>5, <1>6, <1>8, <1>19
     DEF CarriersInv, TurnCarries, ReadyCarries, InterruptCarries, ChildCarries, ConvCarries,
     WireCarries, Taken,
         NoTurn, AfterStore, Finalizing
<1>21. RequestedInv /\ DoneInv
  BY <1>5 DEF RequestedInv, DoneInv, Awake
<1> QED
  BY <1>9, <1>13, <1>15, <1>16, <1>18, <1>20, <1>21 DEF Core

\* The coordinator, the loop, the turn and the queues between them agree.
THEOREM CoreHolds == Spec => []Core
<1>1. Init => Core
  BY CoreInitially
<1>2. Core /\ [Next]_vars => Core'
  BY CoreKept
<1> QED
  BY <1>1, <1>2, PTL DEF Spec

\* Every variable of the session has its type.
THEOREM TypeCorrect == Spec => []TypeOK
<1>1. Core => TypeOK
  BY DEF Core
<1> QED
  BY <1>1, CoreHolds, PTL

=============================================================================
