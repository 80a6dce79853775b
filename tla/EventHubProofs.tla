--------------------------- MODULE EventHubProofs ---------------------------
(***************************************************************************)
(* The order SessionEventHub promises, for any number of clients and       *)
(* subscribers.                                                            *)
(*                                                                         *)
(* Each place of the order is, at any time, in one of these stages: not    *)
(* given out (above seq), reserved, discarded, pending, being delivered    *)
(* (next), or behind next.  HubInv says that the stages are disjoint, that *)
(* subscribers have only what is behind next or being delivered, and that  *)
(* what is behind next was received by everyone it was owed to unless its  *)
(* delivery was cancelled.                                                 *)
(***************************************************************************)
EXTENDS EventHub, TLAPS

Has(s, n) == \E i \in 1..Len(got[s]) : got[s][i] = n

\* The places that are reserved, discarded or pending are distinct.
PlacesOK ==
  /\ reserved \cap discarded = {}
  /\ \A p \in pending : /\ p.seq \in next..seq
                        /\ p.seq \notin reserved /\ p.seq \notin discarded
  /\ \A p, q \in pending : p.seq = q.seq => p = q

\* The place being delivered is none of them any more.
CurrentOK ==
  delivering => /\ next <= seq
                /\ next \notin reserved /\ next \notin discarded
                /\ \A p \in pending : p.seq # next

\* Subscribers have what is behind next, and perhaps the current event.
ReceivedOK ==
  \A s \in Subscribers : \A i \in 1..Len(got[s]) :
    got[s][i] < next \/ (delivering /\ got[s][i] = next /\ s \notin todo)

\* Who is owed a publication: whoever it is pending for or being delivered
\* to, and everyone has what is behind next unless it was cancelled.
OwingOK ==
  /\ \A o \in owed : o[1] <= seq /\ o[1] \notin reserved /\ o[1] \notin discarded
  /\ \A p \in pending : \A s \in Subscribers : <<p.seq, s>> \in owed => s \in p.to
  /\ \A n \in Nat, s \in Subscribers : <<n, s>> \in owed =>
       /\ n < next => n \in aborted \/ Has(s, n)
       /\ delivering /\ n = next => s \in todo \/ Has(s, n)
       /\ ~delivering /\ n >= next => \E p \in pending : p.seq = n
       /\ delivering /\ n > next => \E p \in pending : p.seq = n

\* A publication has one verdict, given when next passes it.
BooksOK ==
  /\ \A n \in settled : n < next
  /\ \A n \in aborted : n < next
  /\ settled \cap aborted = {}

\* What a client that is through, or waits, has done.
ClientsOK ==
  \A c \in Clients :
    /\ pc[c] \in {"idle", "reserved"} => op[c] = "none"
    /\ pc[c] = "waiting" => op[c] = "wait"
    /\ pc[c] = "result" => op[c] = "publish"
    /\ pc[c] = "done" /\ op[c] = "publish" => mine[c] \in settled
    /\ pc[c] = "done" /\ op[c] = "wait" => mine[c] < next

HubInv ==
  /\ TypeOK /\ PlacesOK /\ CurrentOK /\ ReceivedOK /\ OneOrder
  /\ OwingOK /\ BooksOK /\ ClientsOK

\* HubInv without what it says of the clients.
OrderInv ==
  /\ PlacesOK /\ CurrentOK /\ ReceivedOK /\ OneOrder /\ OwingOK /\ BooksOK

-----------------------------------------------------------------------------

\* The invariant holds of a hub nobody has used.
LEMMA HubInvInit == Init => HubInv
<1> SUFFICES ASSUME Init PROVE HubInv
  OBVIOUS
<1>1. TypeOK
  <2>1. pc \in [Clients -> Places] /\ got \in [Subscribers -> Seq(Nat)]
    BY DEF Init, Places
  <2>2. delivering \in BOOLEAN /\ failed \in BOOLEAN
    BY DEF Init
  <2> QED
    BY <2>1, <2>2, Zenon, SMT DEF Init, TypeOK
<1>2. PlacesOK /\ CurrentOK /\ BooksOK
  BY DEF Init, PlacesOK, CurrentOK, BooksOK
<1>3. ReceivedOK /\ OneOrder
  BY DEF Init, ReceivedOK, OneOrder
<1>4. OwingOK /\ ClientsOK
  BY DEF Init, OwingOK, ClientsOK
<1> QED
  BY <1>1, <1>2, <1>3, <1>4 DEF HubInv

\* A step that leaves the order, the deliveries and what was received alone
\* leaves the invariant of the order alone.
LEMMA StillOrder ==
  ASSUME OrderInv, UNCHANGED <<seq, reserved, discarded, next, pending, delivering, todo,
                               settled, aborted, got, owed>>
  PROVE  OrderInv'
<1>1. PlacesOK' /\ CurrentOK' /\ BooksOK'
  BY DEF OrderInv, PlacesOK, CurrentOK, BooksOK
<1>2. ReceivedOK' /\ OneOrder'
  BY DEF OrderInv, ReceivedOK, OneOrder
<1>3. OwingOK'
  BY DEF OrderInv, OwingOK, Has
<1> QED
  BY <1>1, <1>2, <1>3 DEF OrderInv

\* Raising the top of a range keeps what is in it.
LEMMA RangeGrows ==
  ASSUME NEW a \in Nat, NEW b \in Nat, NEW d \in Nat, a \in 1..(b + 1), b <= d
  PROVE  a \in 1..(d + 1)
  OBVIOUS

\* A client that asks for something changes the order only by reserving.
LEMMA AskStep ==
  ASSUME HubInv, NEW c \in Clients, Ask(c)
  PROVE  HubInv'
<1> USE DEF HubInv
<1>1. CASE Reserve(c)
  <2> USE <1>1 DEF Reserve, Become, drainVars, history
  <2>1. TypeOK'
    BY DEF TypeOK, Places
  <2>2. PlacesOK' /\ CurrentOK' /\ BooksOK'
    BY DEF TypeOK, PlacesOK, CurrentOK, BooksOK
  <2>3. ReceivedOK' /\ OneOrder'
    BY DEF ReceivedOK, OneOrder
  <2>4. OwingOK'
    BY DEF TypeOK, OwingOK, Has
  <2>5. ClientsOK'
    BY DEF TypeOK, ClientsOK
  <2> QED
    BY <2>1, <2>2, <2>3, <2>4, <2>5
<1>2. CASE Publish(c) \/ Discard(c) \/ Wait(c)
  <2>1. /\ UNCHANGED <<hubVars, drainVars, history>>
        /\ \/ pc' = [pc EXCEPT ![c] = "lock"] /\ mine' = mine
           \/ pc' = [pc EXCEPT ![c] = "lock"] /\ mine' = [mine EXCEPT ![c] = seq]
    BY <1>2 DEF Publish, Discard, Wait, Become
  <2>2. \E o \in {"publish", "discard", "wait"} : op' = [op EXCEPT ![c] = o]
    BY <1>2 DEF Publish, Discard, Wait
  <2>3. TypeOK'
    <3>1. pc' \in [Clients -> Places] /\ mine' \in [Clients -> Nat]
      BY <2>1 DEF TypeOK, Places
    <3>2. op' \in [Clients -> {"none", "publish", "discard", "wait"}]
      BY <2>2 DEF TypeOK
    <3> QED
      BY <2>1, <3>1, <3>2 DEF TypeOK, hubVars, drainVars, history
  <2>4. OrderInv'
    BY <2>1, StillOrder DEF OrderInv, hubVars, drainVars, history
  <2>5. ClientsOK'
    <3>1. pc[c] # "lock" /\ pc' = [pc EXCEPT ![c] = "lock"]
      BY <1>2, <2>1 DEF Publish, Discard, Wait
    <3>2. \A d \in Clients : d # c => pc'[d] = pc[d] /\ op'[d] = op[d] /\ mine'[d] = mine[d]
      BY <2>1, <2>2 DEF TypeOK
    <3> QED
      BY <2>1, <3>1, <3>2 DEF TypeOK, ClientsOK, hubVars, drainVars, history
  <2> QED
    BY <2>3, <2>4, <2>5 DEF OrderInv
<1> QED
  BY <1>1, <1>2 DEF Ask

\* Claiming a place makes it pending; discarding it gives it up.
LEMMA AcquireStep ==
  ASSUME HubInv, NEW c \in Clients, Acquire(c)
  PROVE  HubInv'
<1> USE DEF HubInv
<1>1. CASE AcquireToPublish(c)
  <2> DEFINE n == Claim(c)
             new == [seq |-> n, to |-> live]
  <2>0. /\ n \in next..seq' /\ seq' \in {seq, seq + 1} /\ n \notin reserved' /\ n \notin discarded
        /\ reserved' = reserved \ {n} /\ (n \in reserved \/ n = seq + 1)
        /\ pending' = pending \cup {new} /\ owed' = owed \cup ({n} \X live)
        /\ \A p \in pending : p.seq # n
        /\ delivering => n # next
        /\ UNCHANGED <<discarded, next, live, delivering, todo, settled, aborted, failed, op, got>>
    BY <1>1 DEF AcquireToPublish, Claim, TypeOK, PlacesOK, CurrentOK, drainVars, Publication
  <2>a. new.seq = n /\ new.to = live /\ n \in Nat
    BY <2>0 DEF TypeOK
  <2> HIDE DEF n, new
  <2>1. TypeOK'
    <3>1. pending' \subseteq Publication
      BY <2>0, <2>a DEF new, TypeOK, Publication
    <3>2. /\ seq' \in Nat /\ next' \in 1..(seq' + 1)
          /\ reserved' \subseteq next'..seq' /\ discarded' \subseteq next'..seq'
      <4>1. /\ seq \in Nat /\ seq' \in Nat /\ seq <= seq'
            /\ next' = next /\ next \in Nat /\ 1 <= next /\ next <= seq + 1
        BY <2>0, <2>a DEF TypeOK
      <4>2. /\ reserved' \subseteq next..seq /\ discarded' \subseteq next..seq
        BY <2>0 DEF TypeOK
      <4>3. reserved' \subseteq next'..seq' /\ discarded' \subseteq next'..seq'
        <5> SUFFICES ASSUME NEW x, x \in next..seq PROVE x \in next'..seq'
          BY <4>2
        <5> QED
          BY <4>1
      <4>4. next' \in 1..(seq' + 1)
        <5>1. next \in 1..(seq' + 1)
          BY <4>1, RangeGrows DEF TypeOK
        <5> QED
          BY <4>1, <5>1
      <4> QED
        BY <4>1, <4>3, <4>4, Zenon
    <3>4. owed' \subseteq Nat \X Subscribers
      BY <2>0, <2>a DEF TypeOK
    <3>3. /\ pc' \in [Clients -> Places] /\ mine' \in [Clients -> Nat]
      BY <1>1, <2>a DEF AcquireToPublish, Become, TypeOK, Places, n
    <3> QED
      BY <2>0, <3>1, <3>2, <3>3, <3>4 DEF TypeOK
  <2>2. PlacesOK' /\ CurrentOK' /\ BooksOK'
    <3>1. PlacesOK'
      <4>1. reserved' \cap discarded' = {}
        BY <2>0 DEF PlacesOK
      <4>2. ASSUME NEW p \in pending'
            PROVE  /\ p.seq \in next'..seq'
                   /\ p.seq \notin reserved' /\ p.seq \notin discarded'
        <5>1. CASE p \in pending
          <6>1. p.seq \in next..seq /\ p.seq \notin reserved /\ p.seq \notin discarded
            BY <5>1 DEF PlacesOK
          <6>2. seq \in Nat /\ next \in Nat
            BY DEF TypeOK
          <6> QED
            BY <2>0, <6>1, <6>2
        <5>2. CASE p = new
          BY <2>0, <2>a, <5>2
        <5> QED
          BY <2>0, <5>1, <5>2
      <4>3. ASSUME NEW p \in pending', NEW q \in pending', p.seq = q.seq PROVE p = q
        <5>1. CASE p \in pending /\ q \in pending
          BY <4>3, <5>1 DEF PlacesOK
        <5>2. CASE p = new \/ q = new
          BY <2>0, <2>a, <4>3, <5>2
        <5> QED
          BY <2>0, <5>1, <5>2
      <4> QED
        BY <4>1, <4>2, <4>3 DEF PlacesOK
    <3>2. CurrentOK'
      BY <2>0, <2>a DEF TypeOK, CurrentOK
    <3>3. BooksOK'
      BY <2>0 DEF BooksOK
    <3> QED
      BY <3>1, <3>2, <3>3
  <2>3. ReceivedOK' /\ OneOrder'
    BY <2>0 DEF ReceivedOK, OneOrder
  <2>4. OwingOK'
    <3>1. \A o \in owed' : o[1] <= seq' /\ o[1] \notin reserved' /\ o[1] \notin discarded'
      BY <2>0 DEF TypeOK, OwingOK
    <3>2. \A s \in Subscribers : <<n, s>> \notin owed
      BY <2>0 DEF TypeOK, OwingOK
    <3>3. \A p \in pending' : \A s \in Subscribers : <<p.seq, s>> \in owed' => s \in p.to
      BY <2>0, <2>a, <3>2 DEF TypeOK, OwingOK
    <3>4. ASSUME NEW m \in Nat, NEW s \in Subscribers, <<m, s>> \in owed'
          PROVE  /\ m < next' => m \in aborted' \/ Has(s, m)'
                 /\ delivering' /\ m = next' => s \in todo' \/ Has(s, m)'
                 /\ ~delivering' /\ m >= next' => \E p \in pending' : p.seq = m
                 /\ delivering' /\ m > next' => \E p \in pending' : p.seq = m
      <4>1. CASE m = n
        BY <2>0, <2>a, <4>1 DEF TypeOK
      <4>2. CASE m # n
        BY <2>0, <3>4, <4>2 DEF TypeOK, OwingOK, Has
      <4> QED
        BY <4>1, <4>2
    <3> QED
      BY <3>1, <3>3, <3>4 DEF OwingOK
  <2>5. ClientsOK'
    BY <1>1, <2>0 DEF AcquireToPublish, Become, TypeOK, ClientsOK
  <2> QED
    BY <2>1, <2>2, <2>3, <2>4, <2>5
<1>2. CASE AcquireToDiscard(c)
  <2> USE <1>2 DEF AcquireToDiscard, Become, drainVars, history
  <2>1. TypeOK'
    BY DEF TypeOK, Places
  <2>2. PlacesOK' /\ CurrentOK' /\ BooksOK'
    BY DEF TypeOK, PlacesOK, CurrentOK, BooksOK
  <2>3. ReceivedOK' /\ OneOrder'
    BY DEF ReceivedOK, OneOrder
  <2>4. OwingOK'
    BY DEF TypeOK, OwingOK, Has
  <2>5. ClientsOK'
    BY DEF TypeOK, ClientsOK
  <2> QED
    BY <2>1, <2>2, <2>3, <2>4, <2>5
<1>3. CASE AcquireToWait(c)
  <2> USE <1>3 DEF AcquireToWait, Become, hubVars, drainVars, history
  <2>1. TypeOK'
    BY DEF TypeOK, Places
  <2>2. OrderInv'
    BY StillOrder DEF OrderInv
  <2>3. ClientsOK'
    BY DEF TypeOK, ClientsOK
  <2> QED
    BY <2>1, <2>2, <2>3 DEF OrderInv
<1> QED
  BY <1>1, <1>2, <1>3 DEF Acquire

-----------------------------------------------------------------------------

\* Passing over a discarded place.
LEMMA SkipStep ==
  ASSUME HubInv, NEW c \in Clients, DrainSkip(c)
  PROVE  HubInv'
<1> USE DEF HubInv, DrainSkip, drainVars, clientVars, history
<1>0. next <= seq /\ next \in Nat /\ seq \in Nat /\ next \in discarded
  BY DEF TypeOK
<1>1. TypeOK'
  BY <1>0 DEF TypeOK, PlacesOK
<1>2. PlacesOK' /\ CurrentOK' /\ BooksOK'
  BY <1>0 DEF TypeOK, PlacesOK, CurrentOK, BooksOK
<1>3. ReceivedOK' /\ OneOrder'
  BY <1>0 DEF TypeOK, ReceivedOK, OneOrder
<1>4. OwingOK'
  BY <1>0 DEF TypeOK, OwingOK, Has
<1>5. ClientsOK'
  BY <1>0 DEF TypeOK, ClientsOK
<1> QED
  BY <1>1, <1>2, <1>3, <1>4, <1>5

\* Handing a publication to its subscribers.
LEMMA TakeStep ==
  ASSUME HubInv, NEW c \in Clients, DrainTake(c)
  PROVE  HubInv'
<1> USE DEF HubInv
<1>0. PICK p \in pending : p.seq = next /\ pending' = pending \ {p} /\ todo' = p.to
  BY DEF DrainTake
<1>1. /\ ~delivering /\ delivering' /\ next \notin discarded
      /\ UNCHANGED <<seq, reserved, discarded, next, live, settled, aborted, failed, pc, op,
                     mine, got, owed>>
  BY DEF DrainTake, clientVars, history
<1>2. TypeOK'
  <2>1. delivering' \in BOOLEAN
    BY <1>1, Zenon
  <2>2. pending' \subseteq Publication /\ todo' \subseteq Subscribers
    BY <1>0 DEF TypeOK, Publication
  <2>3. /\ seq' \in Nat /\ next' \in 1..(seq' + 1)
        /\ reserved' \subseteq next'..seq' /\ discarded' \subseteq next'..seq'
        /\ live' \subseteq Subscribers
        /\ settled' \subseteq Nat /\ aborted' \subseteq Nat
        /\ pc' \in [Clients -> Places]
        /\ op' \in [Clients -> {"none", "publish", "discard", "wait"}]
        /\ mine' \in [Clients -> Nat]
        /\ got' \in [Subscribers -> Seq(Nat)]
        /\ owed' \subseteq Nat \X Subscribers
    BY <1>1 DEF TypeOK
  <2>4. failed' \in BOOLEAN
    BY <1>1 DEF TypeOK
  <2> QED
    BY <2>1, <2>2, <2>3, <2>4, Zenon DEF TypeOK
<1>3. PlacesOK' /\ CurrentOK' /\ BooksOK'
  BY <1>0, <1>1 DEF TypeOK, PlacesOK, CurrentOK, BooksOK
<1>4. ReceivedOK' /\ OneOrder'
  BY <1>0, <1>1 DEF TypeOK, ReceivedOK, OneOrder
<1>5. OwingOK'
  <2>1. /\ \A o \in owed' : o[1] <= seq' /\ o[1] \notin reserved' /\ o[1] \notin discarded'
        /\ \A q \in pending' : \A s \in Subscribers : <<q.seq, s>> \in owed' => s \in q.to
    BY <1>0, <1>1 DEF OwingOK
  <2>2. ASSUME NEW m \in Nat, NEW s \in Subscribers, <<m, s>> \in owed'
        PROVE  /\ m < next' => m \in aborted' \/ Has(s, m)'
               /\ delivering' /\ m = next' => s \in todo' \/ Has(s, m)'
               /\ ~delivering' /\ m >= next' => \E q \in pending' : q.seq = m
               /\ delivering' /\ m > next' => \E q \in pending' : q.seq = m
    <3>1. m < next => m \in aborted \/ Has(s, m)'
      BY <1>1, <2>2 DEF OwingOK, Has
    <3>2. m = next => s \in todo'
      BY <1>0, <1>1, <2>2 DEF OwingOK
    <3>3. m > next => \E q \in pending' : q.seq = m
      <4>1. ASSUME m > next PROVE m >= next /\ m # next
        BY <4>1 DEF TypeOK
      <4>2. ASSUME m > next PROVE \E q \in pending : q.seq = m
        BY <1>1, <2>2, <4>1, <4>2 DEF OwingOK
      <4> QED
        BY <1>0, <4>1, <4>2
    <3>4. next' = next /\ aborted' = aborted /\ delivering'
      BY <1>1
    <3> QED
      BY <3>1, <3>2, <3>3, <3>4, Zenon
  <2> QED
    BY <2>1, <2>2 DEF OwingOK
<1>6. ClientsOK'
  BY <1>1 DEF ClientsOK
<1> QED
  BY <1>2, <1>3, <1>4, <1>5, <1>6

\* Settling a publication nobody is subscribed to.
LEMMA UnheardStep ==
  ASSUME HubInv, NEW c \in Clients, DrainUnheard(c)
  PROVE  HubInv'
<1> USE DEF HubInv
<1>0. PICK p \in pending : p.seq = next /\ p.to = {} /\ pending' = pending \ {p}
  BY DEF DrainUnheard
<1>1. /\ ~delivering /\ next \notin discarded /\ next' = next + 1
      /\ settled' = settled \cup {next}
      /\ UNCHANGED <<seq, reserved, discarded, live, delivering, todo, aborted, failed, pc, op,
                     mine, got, owed>>
  BY DEF DrainUnheard, clientVars, history
<1>a. /\ next \in Nat /\ seq \in Nat /\ next <= seq /\ next \notin reserved /\ 1 <= next
  BY <1>0 DEF PlacesOK, TypeOK
<1>2. TypeOK'
  BY <1>0, <1>1, <1>a DEF TypeOK, Publication
<1>3. PlacesOK' /\ CurrentOK' /\ BooksOK'
  BY <1>0, <1>1, <1>a DEF TypeOK, PlacesOK, CurrentOK, BooksOK
<1>4. ReceivedOK' /\ OneOrder'
  BY <1>0, <1>1, <1>a DEF TypeOK, ReceivedOK, OneOrder
<1>5. OwingOK'
  <2>1. /\ \A o \in owed' : o[1] <= seq' /\ o[1] \notin reserved' /\ o[1] \notin discarded'
        /\ \A q \in pending' : \A s \in Subscribers : <<q.seq, s>> \in owed' => s \in q.to
    BY <1>0, <1>1 DEF OwingOK
  <2>2. ASSUME NEW m \in Nat, NEW s \in Subscribers, <<m, s>> \in owed'
        PROVE  /\ m < next' => m \in aborted' \/ Has(s, m)'
               /\ delivering' /\ m = next' => s \in todo' \/ Has(s, m)'
               /\ ~delivering' /\ m >= next' => \E q \in pending' : q.seq = m
               /\ delivering' /\ m > next' => \E q \in pending' : q.seq = m
    <3>1. CASE m < next
      BY <1>1, <1>a, <2>2, <3>1 DEF OwingOK, Has
    <3>2. CASE m = next
      BY <1>0, <1>1, <1>a, <2>2, <3>2 DEF OwingOK
    <3>3. CASE m > next
      BY <1>0, <1>1, <1>a, <2>2, <3>3 DEF OwingOK
    <3> QED
      <4>1. m < next \/ m = next \/ m > next
        BY <1>a
      <4>2. QED
        BY <3>1, <3>2, <3>3, <4>1, Zenon
  <2> QED
    BY <2>1, <2>2 DEF OwingOK
<1>6. ClientsOK'
  BY <1>1, <1>a DEF ClientsOK, TypeOK
<1> QED
  BY <1>2, <1>3, <1>4, <1>5, <1>6

\* A subscriber finishes with the current event.
LEMMA ReceiveStep ==
  ASSUME HubInv, NEW s \in Subscribers, Receive(s)
  PROVE  HubInv'
<1> USE DEF HubInv
<1>0. /\ delivering /\ delivering' /\ s \in todo /\ todo' = todo \ {s} /\ next \in Nat
      /\ got' = [got EXCEPT ![s] = Append(got[s], next)]
      /\ UNCHANGED <<seq, reserved, discarded, next, pending, live, settled, aborted, failed,
                     pc, op, mine, owed>>
  BY DEF Receive, TypeOK, hubVars, clientVars
<1>1. /\ Len(got'[s]) = Len(got[s]) + 1 /\ Len(got[s]) \in Nat
      /\ \A i \in 1..Len(got[s]) : got'[s][i] = got[s][i]
      /\ got'[s][Len(got[s]) + 1] = next
      /\ \A t \in Subscribers \ {s} : got'[t] = got[t]
  BY <1>0 DEF TypeOK
<1>2. \A i \in 1..Len(got[s]) : got[s][i] < next
  BY <1>0 DEF ReceivedOK
<1>3. TypeOK'
  <2>1. got' \in [Subscribers -> Seq(Nat)] /\ todo' \subseteq Subscribers
    BY <1>0 DEF TypeOK
  <2>2. delivering' \in BOOLEAN
    BY <1>0, Zenon
  <2>3. /\ seq' \in Nat /\ next' \in 1..(seq' + 1)
        /\ reserved' \subseteq next'..seq' /\ discarded' \subseteq next'..seq'
        /\ pending' \subseteq Publication
        /\ live' \subseteq Subscribers
        /\ settled' \subseteq Nat /\ aborted' \subseteq Nat
        /\ pc' \in [Clients -> Places]
        /\ op' \in [Clients -> {"none", "publish", "discard", "wait"}]
        /\ mine' \in [Clients -> Nat]
        /\ owed' \subseteq Nat \X Subscribers
    BY <1>0 DEF TypeOK
  <2>4. failed' \in BOOLEAN
    BY <1>0 DEF TypeOK
  <2> QED
    BY <2>1, <2>2, <2>3, <2>4, Zenon DEF TypeOK
<1>4. PlacesOK' /\ CurrentOK' /\ BooksOK' /\ ClientsOK'
  BY <1>0 DEF PlacesOK, CurrentOK, BooksOK, ClientsOK
<1>5. ReceivedOK'
  BY <1>0, <1>1, <1>2 DEF ReceivedOK
<1>6. OneOrder'
  BY <1>0, <1>1, <1>2 DEF OneOrder
<1>7. OwingOK'
  <2>1. ASSUME NEW n \in Nat, NEW t \in Subscribers, Has(t, n)
        PROVE  Has(t, n)'
    BY <1>1, <2>1 DEF Has
  <2>2. Has(s, next)'
    BY <1>0, <1>1 DEF Has
  <2>3. /\ \A o \in owed' : o[1] <= seq' /\ o[1] \notin reserved' /\ o[1] \notin discarded'
        /\ \A q \in pending' : \A t \in Subscribers : <<q.seq, t>> \in owed' => t \in q.to
    BY <1>0 DEF OwingOK
  <2>4. ASSUME NEW m \in Nat, NEW t \in Subscribers, <<m, t>> \in owed'
        PROVE  /\ m < next' => m \in aborted' \/ Has(t, m)'
               /\ delivering' /\ m = next' => t \in todo' \/ Has(t, m)'
               /\ ~delivering' /\ m >= next' => \E q \in pending' : q.seq = m
               /\ delivering' /\ m > next' => \E q \in pending' : q.seq = m
    <3>1. m < next' => m \in aborted' \/ Has(t, m)'
      BY <1>0, <2>1, <2>4 DEF OwingOK
    <3>2. m = next' => t \in todo' \/ Has(t, m)'
      BY <1>0, <2>1, <2>2, <2>4 DEF OwingOK
    <3>3. m > next' => \E q \in pending' : q.seq = m
      BY <1>0, <2>4 DEF OwingOK
    <3> QED
      BY <1>0, <3>1, <3>2, <3>3, Zenon
  <2> QED
    BY <2>3, <2>4 DEF OwingOK
<1> QED
  BY <1>3, <1>4, <1>5, <1>6, <1>7

\* A delivery is over: everyone owed the event has it, or it was cancelled.
LEMMA DoneStep ==
  ASSUME HubInv, NEW c \in Clients, DrainDelivered(c) \/ DrainCancelled(c)
  PROVE  HubInv'
<1> USE DEF HubInv
<1>1. /\ delivering /\ ~delivering' /\ delivering' = FALSE /\ todo' = {} /\ next' = next + 1
      /\ UNCHANGED <<seq, reserved, discarded, pending, live, pc, op, mine, got, owed>>
  BY DEF DrainDelivered, DrainCancelled, clientVars, history
<1>2. \/ todo = {} /\ settled' = settled \cup {next} /\ aborted' = aborted
      \/ aborted' = aborted \cup {next} /\ settled' = settled
  BY DEF DrainDelivered, DrainCancelled
<1>a. /\ next \in Nat /\ seq \in Nat /\ 1 <= next /\ next <= seq
      /\ next \notin reserved /\ next \notin discarded /\ \A p \in pending : p.seq # next
  BY <1>1 DEF TypeOK, CurrentOK
<1>3. TypeOK'
  <2>1. delivering' \in BOOLEAN
    BY <1>1, Zenon
  <2>2. failed' \in BOOLEAN
    <3>1. failed' = failed \/ failed' = TRUE
      BY DEF DrainDelivered, DrainCancelled, clientVars, history
    <3> QED
      BY <3>1, Zenon DEF TypeOK
  <2>3. /\ seq' \in Nat /\ next' \in 1..(seq' + 1)
        /\ reserved' \subseteq next'..seq' /\ discarded' \subseteq next'..seq'
    BY <1>1, <1>a DEF TypeOK
  <2>4. /\ pending' \subseteq Publication
        /\ live' \subseteq Subscribers /\ todo' \subseteq Subscribers
        /\ settled' \subseteq Nat /\ aborted' \subseteq Nat
        /\ pc' \in [Clients -> Places]
        /\ op' \in [Clients -> {"none", "publish", "discard", "wait"}]
        /\ mine' \in [Clients -> Nat]
        /\ got' \in [Subscribers -> Seq(Nat)]
        /\ owed' \subseteq Nat \X Subscribers
    BY <1>1, <1>2, <1>a DEF TypeOK
  <2> QED
    BY <2>1, <2>2, <2>3, <2>4, Zenon DEF TypeOK
<1>4. PlacesOK'
  BY <1>1, <1>a DEF TypeOK, PlacesOK
<1>5. CurrentOK'
  BY <1>1, Zenon DEF CurrentOK
<1>6. BooksOK'
  <2>1. next \notin settled /\ next \notin aborted
    BY <1>a DEF BooksOK
  <2>2. \A n \in Nat : n < next \/ n = next => n < next + 1
    BY <1>a
  <2>3. settled \subseteq Nat /\ aborted \subseteq Nat
    BY DEF TypeOK
  <2> QED
    BY <1>1, <1>2, <1>a, <2>1, <2>2, <2>3 DEF BooksOK
<1>7. ReceivedOK'
  <2>1. ASSUME NEW s \in Subscribers, NEW i \in 1..Len(got[s])
        PROVE  got[s][i] < next + 1
    <3>1. got[s][i] \in Nat
      BY DEF TypeOK
    <3> QED
      BY <3>1, <1>a DEF ReceivedOK
  <2> QED
    BY <1>1, <2>1 DEF ReceivedOK
<1>8. OneOrder'
  BY <1>1 DEF OneOrder
<1>9. OwingOK'
  <2>1. /\ \A o \in owed' : o[1] <= seq' /\ o[1] \notin reserved' /\ o[1] \notin discarded'
        /\ \A q \in pending' : \A s \in Subscribers : <<q.seq, s>> \in owed' => s \in q.to
    BY <1>1 DEF OwingOK
  <2>2. ASSUME NEW m \in Nat, NEW s \in Subscribers, <<m, s>> \in owed'
        PROVE  /\ m < next' => m \in aborted' \/ Has(s, m)'
               /\ delivering' /\ m = next' => s \in todo' \/ Has(s, m)'
               /\ ~delivering' /\ m >= next' => \E q \in pending' : q.seq = m
               /\ delivering' /\ m > next' => \E q \in pending' : q.seq = m
    <3>1. /\ m < next => m \in aborted \/ Has(s, m)
          /\ m = next => s \in todo \/ Has(s, m)
          /\ m > next => \E q \in pending : q.seq = m
      BY <1>1, <2>2 DEF OwingOK
    <3>2. Has(s, m) => Has(s, m)'
      BY <1>1 DEF Has
    <3>3. m < next' => m \in aborted' \/ Has(s, m)'
      BY <1>1, <1>2, <1>a, <3>1, <3>2
    <3>4. m >= next' => \E q \in pending' : q.seq = m
      BY <1>1, <1>a, <3>1
    <3> QED
      BY <1>1, <3>3, <3>4, Zenon
  <2> QED
    BY <2>1, <2>2 DEF OwingOK
<1>10. ClientsOK'
  BY <1>1, <1>2, <1>a DEF TypeOK, ClientsOK
<1> QED
  BY <1>3, <1>4, <1>5, <1>6, <1>7, <1>8, <1>9, <1>10

\* The drainer leaves, and with it whoever it wakes; a client returns,
\* raises or is cancelled; a subscriber leaves.
LEMMA LeaveStep ==
  ASSUME HubInv,
         \/ \E c \in Clients : DrainEnd(c) \/ Return(c) \/ Raise(c) \/ Cancel(c)
         \/ \E s \in Subscribers : Unsubscribe(s)
         \/ UNCHANGED vars
  PROVE  HubInv'
<1> USE DEF HubInv
<1>1. /\ UNCHANGED <<seq, reserved, discarded, next, pending, delivering, todo,
                     settled, aborted, got, owed>>
      /\ UNCHANGED <<op, mine>>
      /\ live' \subseteq Subscribers
      /\ failed' = failed \/ failed' = FALSE
  BY DEF DrainEnd, Return, Raise, Cancel, Unsubscribe, Become, TypeOK, hubVars, drainVars,
         clientVars, history, vars
<1>2. OrderInv'
  BY <1>1, StillOrder DEF OrderInv
<1>3. /\ pc' \in [Clients -> Places]
      /\ \A d \in Clients :
           \/ pc'[d] = pc[d]
           \/ pc'[d] = "cancelled"
           \/ pc'[d] = "result" /\ op[d] = "publish"
           \/ pc'[d] = "waiting" /\ op[d] = "wait"
           \/ pc'[d] = "done" /\ op[d] = "discard"
           \/ pc'[d] = "done" /\ op[d] = "publish" /\ mine[d] \in settled
           \/ pc'[d] = "done" /\ op[d] = "wait" /\ mine[d] < next
           \/ pc'[d] = "done" /\ op[d] = "none"
  <2>1. ASSUME NEW c \in Clients, DrainEnd(c)
        PROVE  <1>3!1 /\ <1>3!2
    <3>1. pc' \in [Clients -> Places]
      BY <2>1 DEF DrainEnd, AfterDrain, TypeOK, Places
    <3>2. ASSUME NEW d \in Clients, d # c
          PROVE  pc'[d] = pc[d] \/ (pc[d] = "waiting" /\ next > mine[d] /\ pc'[d] = "done")
      BY <2>1, <3>2 DEF DrainEnd
    <3>3. \/ pc'[c] = "cancelled"
          \/ pc'[c] = "result" /\ op[c] = "publish"
          \/ pc'[c] = "waiting" /\ op[c] = "wait"
          \/ pc'[c] = "done" /\ op[c] # "publish" /\ (op[c] = "wait" => ~(next <= mine[c]))
      BY <2>1 DEF DrainEnd, AfterDrain, TypeOK
    <3>4. next \in Nat /\ \A d \in Clients :
            mine[d] \in Nat /\ op[d] \in {"none", "publish", "discard", "wait"}
      BY DEF TypeOK
    <3>5. \A d \in Clients : pc[d] = "waiting" => op[d] = "wait"
      BY DEF ClientsOK
    <3> QED
      BY <3>1, <3>2, <3>3, <3>4, <3>5
  <2>2. ASSUME NEW c \in Clients, Return(c) \/ Raise(c) \/ Cancel(c)
        PROVE  <1>3!1 /\ <1>3!2
    BY <2>2 DEF Return, Raise, Cancel, Become, TypeOK, Places, ClientsOK
  <2>3. ASSUME UNCHANGED vars \/ \E s \in Subscribers : Unsubscribe(s)
        PROVE  <1>3!1 /\ <1>3!2
    BY <2>3 DEF Unsubscribe, clientVars, vars, TypeOK
  <2> QED
    BY <2>1, <2>2, <2>3
<1>4. TypeOK'
  <2>1. failed' \in BOOLEAN /\ delivering' \in BOOLEAN
    BY <1>1 DEF TypeOK
  <2> QED
    BY <1>1, <1>3, <2>1 DEF TypeOK
<1>5. ClientsOK'
  BY <1>1, <1>3 DEF ClientsOK
<1> QED
  BY <1>2, <1>4, <1>5 DEF OrderInv

-----------------------------------------------------------------------------

\* Every step of the hub keeps the invariant.
LEMMA HubInvNext == HubInv /\ [Next]_vars => HubInv'
<1> SUFFICES ASSUME HubInv, [Next]_vars PROVE HubInv'
  OBVIOUS
<1>1. ASSUME NEW c \in Clients,
             Ask(c) \/ Acquire(c) \/ Drain(c) \/ DrainCancelled(c)
               \/ Return(c) \/ Raise(c) \/ Cancel(c)
      PROVE  HubInv'
  BY <1>1, AskStep, AcquireStep, SkipStep, TakeStep, UnheardStep, DoneStep, LeaveStep DEF Drain
<1>2. ASSUME NEW s \in Subscribers, Receive(s) \/ Unsubscribe(s)
      PROVE  HubInv'
  BY <1>2, ReceiveStep, LeaveStep
<1>3. CASE Rest \/ UNCHANGED vars
  BY <1>3, LeaveStep DEF Rest
<1> QED
  BY <1>1, <1>2, <1>3 DEF Next

\* HubInv holds in every state of the hub.
THEOREM HubInvariant == Spec => []HubInv
  BY HubInvInit, HubInvNext, PTL DEF Spec

\* Every subscriber receives the events in the order of their sequence
\* numbers and none of them twice, and no event overtakes a reserved place,
\* whoever delivers, leaves or is cancelled (runtime.py, SessionEventHub).
THEOREM HubKeepsOneOrder == Spec => [](OneOrder /\ NotOvertaken)
<1>1. HubInv => OneOrder
  BY DEF HubInv
<1>2. HubInv => NotOvertaken
  <2> SUFFICES ASSUME HubInv, NEW r \in reserved, NEW s \in Subscribers,
                      NEW i \in 1..Len(got[s])
               PROVE  got[s][i] < r
    BY DEF NotOvertaken
  <2>1. /\ r \in next..seq /\ next \in Nat /\ seq \in Nat /\ got[s][i] \in Nat
        /\ delivering => r # next
    BY DEF HubInv, TypeOK, CurrentOK
  <2>2. got[s][i] < next \/ (delivering /\ got[s][i] = next)
    BY DEF HubInv, ReceivedOK
  <2> QED
    BY <2>1, <2>2
<1> QED
  BY <1>1, <1>2, HubInvariant, PTL

\* publish returns only when everyone it was owed to has the event, and
\* wait_through_current_sequence only when everything before it is settled.
THEOREM HubKeepsItsPromises == Spec => [](ReturnedMeansReceived /\ BoundaryReached)
<1>1. HubInv => ReturnedMeansReceived
  <2> SUFFICES ASSUME HubInv, NEW c \in Clients, pc[c] = "done", op[c] = "publish",
                      NEW s \in Subscribers, <<mine[c], s>> \in owed
               PROVE  Has(s, mine[c])
    BY DEF ReturnedMeansReceived, Has
  <2>1. mine[c] \in settled /\ mine[c] < next /\ mine[c] \notin aborted /\ mine[c] \in Nat
    BY DEF HubInv, ClientsOK, BooksOK, TypeOK
  <2> QED
    BY <2>1 DEF HubInv, OwingOK
<1>2. HubInv => BoundaryReached
  <2> SUFFICES ASSUME HubInv, NEW c \in Clients, pc[c] = "done", op[c] = "wait"
               PROVE  /\ next > mine[c]
                      /\ \A n \in 1..mine[c] : n \notin reserved /\ \A p \in pending : p.seq # n
                      /\ \A o \in owed : o[1] <= mine[c] =>
                           o[1] \in aborted \/ \E i \in 1..Len(got[o[2]]) : got[o[2]][i] = o[1]
    BY DEF BoundaryReached
  <2>1. mine[c] < next /\ mine[c] \in Nat /\ next \in Nat
    BY DEF HubInv, ClientsOK, TypeOK
  <2>2. \A n \in 1..mine[c] : n \notin reserved /\ \A p \in pending : p.seq # n
    BY <2>1 DEF HubInv, TypeOK, PlacesOK
  <2>3. ASSUME NEW o \in owed, o[1] <= mine[c]
        PROVE  o[1] \in aborted \/ \E i \in 1..Len(got[o[2]]) : got[o[2]][i] = o[1]
    <3>1. o = <<o[1], o[2]>> /\ o[1] \in Nat /\ o[2] \in Subscribers
      BY DEF HubInv, TypeOK
    <3>2. o[1] < next
      BY <2>1, <2>3, <3>1
    <3> QED
      BY <3>1, <3>2 DEF HubInv, OwingOK, Has
  <2> QED
    BY <2>1, <2>2, <2>3
<1> QED
  BY <1>1, <1>2, HubInvariant, PTL

-----------------------------------------------------------------------------
(* The hub is an EventOrder.                                               *)

\* The places with an event, while nothing is delivered and while something is.
LEMMA FilledIs ==
  /\ delivering = FALSE => Filled = {p.seq : p \in pending}
  /\ delivering = TRUE => Filled = {p.seq : p \in pending} \cup {next}
  BY DEF Filled

\* They are the same places while none of these changes.
LEMMA FilledStays ==
  ASSUME UNCHANGED <<pending, delivering, next>>
  PROVE  Filled' = Filled
  BY DEF Filled

\* A place is filled, whether it was reserved or not; or it is given up.
LEMMA AcquireIsOrder ==
  ASSUME HubInv, NEW c \in Clients, AcquireToPublish(c) \/ AcquireToDiscard(c)
  PROVE  Order!Next
<1>0. TypeOK /\ UNCHANGED <<delivering, next>>
  BY DEF HubInv, AcquireToPublish, AcquireToDiscard, drainVars
<1>1. CASE AcquireToPublish(c)
  <2> DEFINE n == Claim(c)
  <2>1. /\ pending' = pending \cup {[seq |-> n, to |-> live]}
        /\ reserved' = reserved \ {n}
        /\ UNCHANGED discarded
        /\ mine[c] # 0 => mine[c] \in reserved /\ n = mine[c] /\ seq' = seq
        /\ mine[c] = 0 => n = seq + 1 /\ seq' = seq + 1
    BY <1>1 DEF AcquireToPublish, Claim
  <2> HIDE DEF n
  <2>2. Filled' = Filled \cup {n}
    <3> DEFINE e == [seq |-> n, to |-> live]
    <3>1. e.seq = n /\ pending' = pending \cup {e}
      BY <2>1
    <3> HIDE DEF e
    <3>2. {p.seq : p \in pending'} = {p.seq : p \in pending} \cup {n}
      BY <3>1
    <3> QED
      BY <1>0, <3>2 DEF Filled
  <2>3. CASE mine[c] # 0
    <3>1. n \in reserved /\ Order!Fill(n)
      BY <1>0, <2>1, <2>2, <2>3 DEF Order!Fill
    <3> QED
      BY <3>1 DEF Order!Next
  <2>4. CASE mine[c] = 0
    <3>1. seq + 1 \notin reserved
      BY <1>0 DEF TypeOK
    <3>2. reserved' = reserved
      BY <2>1, <2>4, <3>1
    <3>3. Order!Place
      BY <1>0, <2>1, <2>2, <2>4, <3>2 DEF Order!Place
    <3> QED
      BY <3>3 DEF Order!Next
  <2> QED
    BY <2>3, <2>4
<1>2. CASE AcquireToDiscard(c)
  <2>1. /\ mine[c] \in reserved /\ reserved' = reserved \ {mine[c]}
        /\ discarded' = discarded \cup {mine[c]}
        /\ UNCHANGED <<seq, pending>>
    BY <1>2 DEF AcquireToDiscard
  <2>2. Order!Drop(mine[c])
    BY <1>0, <2>1, FilledStays DEF Order!Drop
  <2> QED
    BY <2>1, <2>2 DEF Order!Next
<1> QED
  BY <1>1, <1>2

\* The drainer takes an event up where the order stands, and passes a place
\* when its event is over or it was given up.
LEMMA DrainIsOrder ==
  ASSUME HubInv, NEW c \in Clients, Drain(c) \/ DrainCancelled(c)
  PROVE  Order!Next \/ UNCHANGED Order!vars
<1>0. TypeOK /\ PlacesOK /\ CurrentOK
  BY DEF HubInv
<1> DEFINE places == {p.seq : p \in pending}
<1>1. CASE DrainSkip(c)
  <2>0. delivering = FALSE
    BY <1>0, <1>1 DEF DrainSkip, TypeOK
  <2>1. /\ next \in discarded /\ discarded' = discarded \ {next} /\ next' = next + 1
        /\ UNCHANGED <<seq, reserved, pending, delivering>>
    BY <1>1 DEF DrainSkip, drainVars
  <2>2. Filled' = Filled
    BY <2>0, <2>1 DEF Filled
  <2>3. Order!Skip
    BY <2>1, <2>2 DEF Order!Skip
  <2> QED
    BY <2>3 DEF Order!Next
<1>2. CASE DrainTake(c)
  <2>1. PICK p \in pending : p.seq = next /\ pending' = pending \ {p}
    BY <1>2 DEF DrainTake
  <2>2. /\ delivering = FALSE /\ delivering' = TRUE
        /\ UNCHANGED <<seq, reserved, discarded, next>>
    BY <1>0, <1>2 DEF DrainTake, TypeOK
  <2>3. Filled = places
    BY <2>2 DEF Filled
  <2>4. Filled' = {q.seq : q \in pending \ {p}} \cup {next}
    BY <2>1, <2>2 DEF Filled
  <2>5. Filled' = Filled
    BY <2>1, <2>3, <2>4
  <2> QED
    BY <2>2, <2>5 DEF Order!vars
<1>3. CASE DrainUnheard(c)
  <2>1. PICK p \in pending : p.seq = next /\ pending' = pending \ {p}
    BY <1>3 DEF DrainUnheard
  <2>2. /\ delivering = FALSE /\ delivering' = FALSE /\ next' = next + 1
        /\ UNCHANGED <<seq, reserved, discarded>>
    BY <1>0, <1>3 DEF DrainUnheard, TypeOK
  <2>3. Filled = places /\ Filled' = {q.seq : q \in pending \ {p}}
    BY <2>1, <2>2 DEF Filled
  <2>4. \A q \in pending \ {p} : q.seq # next
    BY <1>0, <2>1 DEF PlacesOK
  <2>5. next \in Filled /\ Filled' = Filled \ {next}
    BY <2>1, <2>3, <2>4
  <2>6. Order!Settle
    BY <2>2, <2>5 DEF Order!Settle
  <2> QED
    BY <2>6 DEF Order!Next
<1>4. CASE DrainDelivered(c) \/ DrainCancelled(c)
  <2>1. /\ delivering = TRUE /\ delivering' = FALSE /\ next' = next + 1
        /\ UNCHANGED <<seq, reserved, discarded, pending>>
    BY <1>0, <1>4 DEF DrainDelivered, DrainCancelled, TypeOK
  <2>2. Filled = places \cup {next} /\ Filled' = places
    BY <2>1 DEF Filled
  <2>3. next \notin places
    BY <1>0, <2>1 DEF CurrentOK
  <2>4. next \in Filled /\ Filled' = Filled \ {next}
    BY <2>2, <2>3
  <2>5. Order!Settle
    BY <2>1, <2>4 DEF Order!Settle
  <2> QED
    BY <2>5 DEF Order!Next
<1>5. CASE DrainEnd(c)
  <2>1. UNCHANGED <<seq, reserved, discarded, next, pending, delivering>>
    BY <1>5 DEF DrainEnd, hubVars
  <2> QED
    BY <2>1, FilledStays DEF Order!vars
<1> QED
  BY <1>1, <1>2, <1>3, <1>4, <1>5 DEF Drain

\* SessionEventHub is an EventOrder for any number of clients: its locks, its
\* queue of publications and the delivery under way come down to places that
\* are filled or given up once, and passed in order (runtime.py:300-435).
THEOREM HubIsAnOrder == Spec => KeepsTheOrder
<1>1. Init => Order!Init
  BY DEF Init, Order!Init, Filled
<1>2. HubInv /\ [Next]_vars => [Order!Next]_(Order!vars)
  <2> SUFFICES ASSUME HubInv, [Next]_vars
               PROVE  Order!Next \/ UNCHANGED Order!vars
    OBVIOUS
  <2>1. ASSUME NEW c \in Clients, Ask(c)
        PROVE  Order!Next \/ UNCHANGED Order!vars
    <3>1. CASE Reserve(c)
      <4>1. /\ seq' = seq + 1 /\ reserved' = reserved \cup {seq + 1}
            /\ UNCHANGED <<discarded, next, pending, delivering>>
        BY <3>1 DEF Reserve, drainVars
      <4>2. Order!Reserve
        BY <4>1, FilledStays DEF Order!Reserve
      <4> QED
        BY <4>2 DEF Order!Next
    <3>2. CASE Publish(c) \/ Discard(c) \/ Wait(c)
      <4>1. UNCHANGED <<seq, reserved, discarded, next, pending, delivering>>
        BY <3>2 DEF Publish, Discard, Wait, hubVars, drainVars
      <4> QED
        BY <4>1, FilledStays DEF Order!vars
    <3> QED
      BY <2>1, <3>1, <3>2 DEF Ask
  <2>2. ASSUME NEW c \in Clients,
               AcquireToWait(c) \/ Return(c) \/ Raise(c) \/ Cancel(c)
        PROVE  UNCHANGED Order!vars
    <3>1. UNCHANGED <<seq, reserved, discarded, next, pending, delivering>>
      BY <2>2 DEF AcquireToWait, Return, Raise, Cancel, hubVars, drainVars
    <3> QED
      BY <3>1, FilledStays DEF Order!vars
  <2>3. ASSUME NEW s \in Subscribers, Receive(s) \/ Unsubscribe(s)
        PROVE  UNCHANGED Order!vars
    <3>1. UNCHANGED <<seq, reserved, discarded, next, pending, delivering>>
      BY <2>3 DEF Receive, Unsubscribe, hubVars, drainVars
    <3> QED
      BY <3>1, FilledStays DEF Order!vars
  <2>4. CASE Rest \/ UNCHANGED vars
    <3>1. UNCHANGED <<seq, reserved, discarded, next, pending, delivering>>
      BY <2>4 DEF Rest, vars
    <3> QED
      BY <3>1, FilledStays DEF Order!vars
  <2> QED
    BY <2>1, <2>2, <2>3, <2>4, AcquireIsOrder, DrainIsOrder DEF Next, Acquire
<1> QED
  BY <1>1, <1>2, HubInvariant, PTL DEF Spec, KeepsTheOrder, Order!Spec

=============================================================================
