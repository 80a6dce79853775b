------------------------ MODULE BackgroundAgentProofs ------------------------
(***************************************************************************)
(* What holds of a background agent with any number of callers, peers,     *)
(* updates and detached calls: stopping it is final, the parent is told of *)
(* each turn once, and each note reaches the history once or is kept.      *)
(***************************************************************************)
EXTENDS BackgroundAgentProperties, NaturalsLemmas, FiniteSetTheorems

\* A stopped agent has no turn, or one that is being cancelled.  This is what
\* makes StopIsFinal inductive: a turn's own steps look at the cancellation
\* only, never at the flag.
StopCancels == stopping /\ TurnLive => cancelling

\* The invariant holds before the agent has done anything.
LEMMA StopCancelsInit == Init => StopCancels
  BY DEF Init, StopCancels, TurnLive

\* A step of the runner: only TakePrompt makes a turn live, and an agent that
\* is stopping does not take it.
LEMMA RunnerKeepsStop ==
  ASSUME StopCancels, RunnerStep \/ ReportFails
  PROVE  StopCancels' /\ (stopping => turn' \in {turn, "closing", "done", "none"})
<1>1. CASE RunnerBegins
  BY <1>1 DEF RunnerBegins, StopCancels, TurnLive, turnVars, userVars
<1>2. CASE TakeStop
  BY <1>2 DEF TakeStop, StopCancels, TurnLive, turnVars
<1>3. CASE TakeUpdate
  BY <1>3 DEF TakeUpdate, StopCancels, TurnLive, turnVars, userVars
<1>4. CASE TakePrompt
  BY <1>4 DEF TakePrompt, StopCancels, userVars
<1>5. CASE UpdateDone
  BY <1>5 DEF UpdateDone, StopCancels, TurnLive
<1>6. CASE TurnOver
  BY <1>6 DEF TurnOver, StopCancels, TurnLive
<1>7. CASE Reported
  BY <1>7 DEF Reported, StopCancels, TurnLive, turnVars, userVars
<1>8. CASE Delivered
  BY <1>8 DEF Delivered, StopCancels, TurnLive, turnVars
<1>9. CASE Close
  BY <1>9 DEF Close, StopCancels, TurnLive, turnVars, userVars
<1>10. CASE Finish
  BY <1>10 DEF Finish, StopCancels, TurnLive, turnVars
<1>11. CASE PeerClosed
  BY <1>11 DEF PeerClosed, StopCancels, TurnLive, turnVars, userVars
<1>12. CASE RunnerHit
  BY <1>12 DEF RunnerHit, StopCancels, TurnLive
<1>13. CASE ReportFails
  BY <1>13 DEF ReportFails, StopCancels, TurnLive, turnVars
<1> QED
  BY <1>1, <1>2, <1>3, <1>4, <1>5, <1>6, <1>7, <1>8, <1>9, <1>10, <1>11, <1>12, <1>13
     DEF RunnerStep

\* A step of the turn: those that would get further need a turn that is not
\* being cancelled, which a stopped agent does not have.
LEMMA TurnKeepsStop ==
  ASSUME StopCancels, TurnStep \/ TurnChoice
  PROVE  StopCancels' /\ (stopping => turn' \in {turn, "closing", "done", "none"})
<1> USE DEF StopCancels, TurnLive, TurnRuns, UnchangedAroundTurn, userVars
<1>1. CASE TurnBegins
  BY <1>1 DEF TurnBegins
<1>2. CASE TurnInput
  BY <1>2 DEF TurnInput
<1>3. CASE TurnDrain
  BY <1>3 DEF TurnDrain
<1>4. CASE TurnAppend
  BY <1>4 DEF TurnAppend
<1>5. CASE TurnFinishes
  BY <1>5 DEF TurnFinishes
<1>6. CASE TurnCut
  BY <1>6 DEF TurnCut
<1>7. CASE TurnUnwinds
  BY <1>7 DEF TurnUnwinds
<1>8. CASE TurnCloses
  BY <1>8 DEF TurnCloses
<1>9. CASE TurnDetaches
  BY <1>9 DEF TurnDetaches, turnVars
<1>10. CASE TurnAgain
  BY <1>10 DEF TurnAgain
<1>11. CASE TurnAppendFails
  BY <1>11 DEF TurnAppendFails
<1>12. CASE TurnEnds
  BY <1>12 DEF TurnEnds
<1> QED
  BY <1>1, <1>2, <1>3, <1>4, <1>5, <1>6, <1>7, <1>8, <1>9, <1>10, <1>11, <1>12
     DEF TurnStep, TurnChoice

\* A step of a client: whoever sets the flag cancels the turn with it.
LEMMA ClientKeepsStop ==
  ASSUME StopCancels, Clients
  PROVE  StopCancels' /\ (stopping => turn' \in {turn, "closing", "done", "none"})
<1> USE DEF StopCancels, TurnLive
<1>1. CASE SendLocally
  BY <1>1 DEF SendLocally, turnVars
<1>2. CASE SendMessage
  BY <1>2 DEF SendMessage, turnVars
<1>3. CASE WaitIdle
  BY <1>3 DEF WaitIdle, turnVars
<1>4. CASE LookAgain
  BY <1>4 DEF LookAgain, turnVars
<1>5. CASE InterruptTurn
  BY <1>5 DEF InterruptTurn, CancelTurn, userVars
<1>6. CASE StopAgent
  BY <1>6 DEF StopAgent, CancelTurn
<1>7. CASE StopLocally
  BY <1>7 DEF StopLocally, CancelTurn
<1>8. CASE CancelAgain
  BY <1>8 DEF CancelAgain, turnVars, userVars
<1> QED
  BY <1>1, <1>2, <1>3, <1>4, <1>5, <1>6, <1>7, <1>8 DEF Clients

\* Every step keeps the invariant, and the promise.
LEMMA StepKeepsStop ==
  ASSUME StopCancels, [Next]_vars
  PROVE  StopCancels' /\ (stopping => turn' \in {turn, "closing", "done", "none"})
<1>1. CASE RunnerStep \/ ReportFails
  BY <1>1, RunnerKeepsStop
<1>2. CASE TurnStep \/ TurnChoice
  BY <1>2, TurnKeepsStop
<1>3. CASE Clients
  BY <1>3, ClientKeepsStop
<1>4. CASE TaskStep
  BY <1>4 DEF TaskStep, StopCancels, TurnLive, turnVars, userVars
<1>5. CASE Rest \/ UNCHANGED vars
  BY <1>5 DEF Rest, vars, StopCancels, TurnLive, turnVars, userVars
<1> QED
  BY <1>1, <1>2, <1>3, <1>4, <1>5 DEF Next

\* A stopped agent has no turn that is not being cancelled.
THEOREM StoppedMeansCancelled == Spec => []StopCancels
<1>1. Init => StopCancels
  BY StopCancelsInit
<1>2. StopCancels /\ [Next]_vars => StopCancels'
  BY StepKeepsStop
<1> QED
  BY <1>1, <1>2, PTL DEF Spec

\* Once an agent is told to stop, by a peer or by its own process, no turn
\* begins and the current one gets no further.
THEOREM StoppingIsFinal == Spec => StopIsFinal
<1>1. StopCancels /\ [Next]_vars
        => [stopping => turn' \in {turn, "closing", "done", "none"}]_vars
  BY StepKeepsStop
<1> QED
  BY <1>1, StoppedMeansCancelled, PTL DEF Spec, StopIsFinal

-----------------------------------------------------------------------------
(* Where the inputs and the notes are.                                     *)

\* v is in s; v is not in s twice.
In(s, v)   == \E i \in 1..Len(s) : s[i] = v
Lone(s, v) == \A i, j \in 1..Len(s) : s[i] = v /\ s[j] = v => i = j

\* What an input is in the inbox.
ItemOf(x) == IF x \in Updates THEN Update(x) ELSE Prompt(x)

\* The runner has the kind of input in hand that it works on.
HandInv ==
  /\ runner = "update" => item.kind = "update"
  /\ TurnLive => item.kind \in {"prompt", "note"}

\* The runner owes the parent at most the turn it is about to report.
CountInv ==
  /\ runner \in {"created", "get", "update", "deliver"} => reports = turns
  /\ runner \in {"turn", "report"} => turns = reports + 1
  /\ reports <= turns /\ turns <= reports + 1

\* An input is in one place at most, and while it is there its sender waits.
SenderInv ==
  \A x \in Inputs :
    /\ Lone(inbox, ItemOf(x))
    /\ In(inbox, ItemOf(x)) => sent[x] = "queued"
    /\ runner \in {"update", "turn"} /\ item = ItemOf(x) =>
         sent[x] = "queued" /\ ~In(inbox, ItemOf(x))

InHand(t) == turn \in {"created", "starting"} /\ item = Note(t)

\* A note is posted when its call settles, and is in one place at most.
NoteAt(t) ==
  /\ Lone(queue, t) /\ Lone(inbox, Note(t)) /\ Lone(taken, t) /\ Lone(history, t)
  /\ In(queue, t)         => ~In(inbox, Note(t)) /\ ~In(taken, t) /\ ~In(history, t) /\ ~InHand(t)
  /\ In(inbox, Note(t))   => ~In(taken, t) /\ ~In(history, t) /\ ~InHand(t)
  /\ In(taken, t)         => ~In(history, t) /\ ~InHand(t)
  /\ In(history, t)       => ~InHand(t)
  /\ In(queue, t) \/ In(inbox, Note(t)) \/ In(taken, t) \/ In(history, t) \/ InHand(t)
       => task[t] = "settled"

NoteInv == \A t \in Tasks : NoteAt(t)

\* What is queued is for a turn to drain, and was not collected by hand.
QueueInv ==
  /\ taken # << >> => turn = "append"
  /\ queue # << >> => depth > 0 \/ ~listening
  /\ \A t \in Tasks : In(queue, t) => t \notin collected

AgentInv == TypeOK /\ HandInv /\ CountInv /\ SenderInv /\ NoteInv /\ QueueInv

-----------------------------------------------------------------------------
(* Sequences.                                                              *)

\* Nothing is in an empty sequence.
LEMMA InEmpty == \A v : ~In(<< >>, v) /\ Lone(<< >>, v)
BY DEF In, Lone

\* One more entry.
LEMMA InAppend ==
  ASSUME NEW S, NEW s \in Seq(S), NEW x \in S, NEW v
  PROVE  /\ In(Append(s, x), v) <=> In(s, v) \/ x = v
         /\ Lone(s, v) /\ (x = v => ~In(s, v)) => Lone(Append(s, x), v)
<1> DEFINE a == Append(s, x)
<1>1. /\ Len(a) = Len(s) + 1 /\ a[Len(s) + 1] = x /\ Len(s) \in Nat
      /\ \A i \in 1..Len(s) : a[i] = s[i]
  OBVIOUS
<1> HIDE DEF a
<1>2. \A i \in 1..Len(a) : i \in 1..Len(s) \/ i = Len(s) + 1
  BY <1>1
<1>3. In(a, v) <=> In(s, v) \/ x = v
  BY <1>1, <1>2 DEF In
<1>4. Lone(s, v) /\ (x = v => ~In(s, v)) => Lone(a, v)
  BY <1>1, <1>2 DEF In, Lone
<1> QED
  BY <1>3, <1>4 DEF a

\* One sequence after another.
LEMMA InConcat ==
  ASSUME NEW S, NEW s \in Seq(S), NEW t \in Seq(S), NEW v
  PROVE  /\ In(s \o t, v) <=> In(s, v) \/ In(t, v)
         /\ Lone(s, v) /\ Lone(t, v) /\ ~(In(s, v) /\ In(t, v)) => Lone(s \o t, v)
<1> DEFINE a == s \o t
<1>1. /\ Len(a) = Len(s) + Len(t) /\ Len(s) \in Nat /\ Len(t) \in Nat
      /\ \A i \in 1..Len(s) : a[i] = s[i]
      /\ \A i \in 1..Len(t) : a[Len(s) + i] = t[i]
  OBVIOUS
<1> HIDE DEF a
<1>2. ASSUME NEW i \in 1..Len(a)
      PROVE  \/ i \in 1..Len(s) /\ a[i] = s[i]
             \/ i - Len(s) \in 1..Len(t) /\ a[i] = t[i - Len(s)]
  <2>1. CASE i <= Len(s)
    BY <1>1, <2>1
  <2>2. CASE i > Len(s)
    <3>1. i - Len(s) \in 1..Len(t) /\ Len(s) + (i - Len(s)) = i
      BY <1>1, <2>2
    <3> QED
      BY <1>1, <3>1
  <2> QED
    BY <1>1, <2>1, <2>2
<1>3. In(a, v) <=> In(s, v) \/ In(t, v)
  <2>1. In(a, v) => In(s, v) \/ In(t, v)
    BY <1>2 DEF In
  <2>2. In(s, v) => In(a, v)
    BY <1>1 DEF In
  <2>3. ASSUME NEW i \in 1..Len(t), t[i] = v PROVE In(a, v)
    <3>1. Len(s) + i \in 1..Len(a) /\ a[Len(s) + i] = v
      BY <1>1, <2>3
    <3> QED
      BY <3>1 DEF In
  <2> QED
    BY <2>1, <2>2, <2>3 DEF In
<1>4. ASSUME Lone(s, v), Lone(t, v), ~(In(s, v) /\ In(t, v)) PROVE Lone(a, v)
  <2> SUFFICES ASSUME NEW i \in 1..Len(a), NEW j \in 1..Len(a), a[i] = v, a[j] = v PROVE i = j
    BY DEF Lone
  <2>1. CASE i \in 1..Len(s) /\ a[i] = s[i] /\ j \in 1..Len(s) /\ a[j] = s[j]
    BY <1>4, <2>1 DEF Lone
  <2>2. CASE /\ i - Len(s) \in 1..Len(t) /\ a[i] = t[i - Len(s)]
             /\ j - Len(s) \in 1..Len(t) /\ a[j] = t[j - Len(s)]
    <3>1. i - Len(s) = j - Len(s)
      BY <1>4, <2>2 DEF Lone
    <3> QED
      BY <1>1, <3>1
  <2>3. (i \in 1..Len(s) /\ a[i] = s[i]) \/ (j \in 1..Len(s) /\ a[j] = s[j]) => In(s, v)
    BY DEF In
  <2>4. \/ i - Len(s) \in 1..Len(t) /\ a[i] = t[i - Len(s)]
        \/ j - Len(s) \in 1..Len(t) /\ a[j] = t[j - Len(s)]
        => In(t, v)
    BY DEF In
  <2> QED
    BY <1>2, <1>4, <2>1, <2>2, <2>3, <2>4
<1> QED
  BY <1>3, <1>4 DEF a

\* One entry less.
LEMMA InTail ==
  ASSUME NEW S, NEW s \in Seq(S), s # << >>, NEW v
  PROVE  /\ Tail(s) \in Seq(S) /\ Head(s) \in S
         /\ In(Tail(s), v) => In(s, v)
         /\ Head(s) = v => In(s, v)
         /\ Lone(s, v) => Lone(Tail(s), v) /\ (Head(s) = v => ~In(Tail(s), v))
<1> DEFINE r == Tail(s)
           h == Head(s)
<1>1. /\ r \in Seq(S) /\ h \in S /\ Len(r) = Len(s) - 1 /\ Len(s) \in Nat /\ Len(s) > 0 /\ h = s[1]
      /\ \A i \in 1..Len(r) : r[i] = s[i + 1] /\ i + 1 \in 1..Len(s) /\ i + 1 # 1
      /\ 1 \in 1..Len(s)
  OBVIOUS
<1> HIDE DEF r, h
<1>2. In(r, v) => In(s, v)
  BY <1>1 DEF In
<1>3. h = v => In(s, v)
  BY <1>1 DEF In
<1>4. ASSUME Lone(s, v) PROVE Lone(r, v)
  <2> SUFFICES ASSUME NEW i \in 1..Len(r), NEW j \in 1..Len(r), r[i] = v, r[j] = v PROVE i = j
    BY DEF Lone
  <2>1. i + 1 = j + 1
    BY <1>1, <1>4 DEF Lone
  <2> QED
    BY <1>1, <2>1
<1>5. Lone(s, v) /\ h = v => ~In(r, v)
  BY <1>1 DEF In, Lone
<1> QED
  BY <1>1, <1>2, <1>3, <1>4, <1>5 DEF r, h

\* What the listener hears of a queue.
LEMMA InHeard ==
  ASSUME NEW s \in Seq(Tasks)
  PROVE  /\ Heard(s) \in Seq(Items)
         /\ \A t : /\ In(Heard(s), Note(t)) <=> In(s, t)
                   /\ Lone(s, t) => Lone(Heard(s), Note(t))
         /\ \A v : v.kind # "note" => ~In(Heard(s), v) /\ Lone(Heard(s), v)
<1>1. /\ Len(s) \in Nat /\ Heard(s) = [i \in 1..Len(s) |-> Note(s[i])]
      /\ \A i \in 1..Len(s) : s[i] \in Tasks
  BY DEF Heard
<1>2. \A t \in Tasks : Note(t) \in Items
  BY DEF Items
<1>3. Heard(s) \in Seq(Items) /\ Len(Heard(s)) = Len(s) /\ \A i \in 1..Len(s) : Heard(s)[i] = Note(s[i])
  BY <1>1, <1>2
<1>4. \A t, u : Note(t) = Note(u) => t = u
  <2>1. \A t : Note(t).id = t
    BY DEF Note
  <2> QED
    BY <2>1
<1>5. \A t : Note(t).kind = "note"
  BY DEF Note
<1>6. \A t : (In(Heard(s), Note(t)) <=> In(s, t)) /\ (Lone(s, t) => Lone(Heard(s), Note(t)))
  BY <1>3, <1>4 DEF In, Lone
<1>7. \A v : v.kind # "note" => ~In(Heard(s), v) /\ Lone(Heard(s), v)
  BY <1>3, <1>5 DEF In, Lone
<1> QED
  BY <1>3, <1>6, <1>7

\* One of the positions in a set of them is the k-th.
LEMMA KthPosition ==
  ASSUME NEW n \in Nat, NEW K \in SUBSET (1..n), NEW k \in 1..Cardinality(K)
  PROVE  \E i \in K : Cardinality({j \in K : j <= i}) = k
<1> DEFINE below(i) == {j \in K : j <= i}
           T == {i \in Nat : k <= Cardinality(below(i))}
<1>0. \A j \in K : j \in Nat /\ 1 <= j /\ j <= n
  OBVIOUS
<1>1. IsFiniteSet(K)
  <2>1. IsFiniteSet(1..n)
    BY FS_Interval
  <2> QED
    BY <2>1, FS_Subset
<1>2. \A i \in Nat : IsFiniteSet(below(i)) /\ Cardinality(below(i)) \in Nat
  <2> TAKE i \in Nat
  <2>1. below(i) \in SUBSET K
    OBVIOUS
  <2>2. IsFiniteSet(below(i))
    BY <1>1, <2>1, FS_Subset
  <2> QED
    BY <2>2, FS_CardinalityType
<1>3. Cardinality(K) \in Nat /\ k \in Nat /\ k >= 1
  BY <1>1, FS_CardinalityType
<1>4. n \in T
  <2>1. below(n) = K
    BY <1>0
  <2> QED
    BY <1>3, <2>1
<1>5. PICK m \in T : \A i \in T : m <= i
  <2>1. T \subseteq Nat /\ T # {}
    BY <1>4
  <2> QED
    BY <2>1, LeastElement
<1>6. m # 0
  <2>0. \A j \in K : ~(j <= 0)
    BY <1>0
  <2>1. below(0) = {}
    BY <2>0
  <2>2. Cardinality(below(0)) = 0
    BY <2>1, FS_EmptySet
  <2> QED
    BY <1>3, <2>2
<1>7. m \in Nat /\ m - 1 \in Nat /\ ~(k <= Cardinality(below(m - 1)))
  <2>1. m \in Nat /\ m - 1 \in Nat /\ ~(m <= m - 1)
    BY <1>6
  <2>2. m - 1 \notin T
    BY <1>5, <2>1
  <2> QED
    BY <2>1, <2>2
<1>8. k <= Cardinality(below(m))
  OBVIOUS
<1>9. m \in K
  <2> SUFFICES ASSUME m \notin K PROVE FALSE
    OBVIOUS
  <2>1. \A j \in K : j <= m <=> j <= m - 1
    BY <1>0, <1>7
  <2>2. below(m) = below(m - 1)
    BY <2>1
  <2> QED
    BY <1>7, <1>8, <2>2
<1>10. Cardinality(below(m)) = Cardinality(below(m - 1)) + 1
  <2>0. /\ \A j \in K : j <= m <=> j <= m - 1 \/ j = m
        /\ m <= m /\ ~(m <= m - 1)
    BY <1>0, <1>7
  <2>1. below(m) = below(m - 1) \cup {m} /\ m \notin below(m - 1)
    BY <1>9, <2>0
  <2>2. IsFiniteSet(below(m - 1))
    BY <1>2, <1>7
  <2> HIDE DEF below
  <2> QED
    BY <2>1, <2>2, FS_AddElement
<1>11. Cardinality(below(m)) = k
  <2>1. PICK a : a = Cardinality(below(m))
    OBVIOUS
  <2>2. PICK b : b = Cardinality(below(m - 1))
    OBVIOUS
  <2>3. b \in Nat
    BY <1>2, <1>7, <2>2
  <2>4. a = b + 1 /\ k <= a /\ ~(k <= b)
    BY <1>7, <1>8, <1>10, <2>1, <2>2
  <2> QED
    BY <1>3, <2>1, <2>3, <2>4
<1> QED
  BY <1>9, <1>11

\* What is left of a sequence without one of its values.
LEMMA InWithout ==
  ASSUME NEW S, NEW s \in Seq(S), NEW x
  PROVE  /\ Without(s, x) \in Seq(S)
         /\ s = << >> => Without(s, x) = << >>
         /\ \A v : /\ In(Without(s, x), v) => In(s, v) /\ v # x
                   /\ Lone(s, v) => Lone(Without(s, x), v)
<1> DEFINE kept == {i \in 1..Len(s) : s[i] # x}
           n == Cardinality(kept)
           pos(k) == CHOOSE i \in kept : Cardinality({j \in kept : j <= i}) = k
           w == Without(s, x)
<1>1. w = [k \in 1..n |-> s[pos(k)]]
  BY DEF Without
<1>2. n \in Nat /\ (s = << >> => n = 0)
  <2>1. IsFiniteSet(1..Len(s)) /\ kept \in SUBSET (1..Len(s))
    BY FS_Interval
  <2>2. IsFiniteSet(kept)
    BY <2>1, FS_Subset
  <2>3. s = << >> => kept = {}
    OBVIOUS
  <2> QED
    BY <2>2, <2>3, FS_CardinalityType, FS_EmptySet
<1>3. ASSUME NEW k \in 1..n
      PROVE  pos(k) \in kept /\ Cardinality({j \in kept : j <= pos(k)}) = k
  <2>1. Len(s) \in Nat /\ kept \in SUBSET (1..Len(s))
    OBVIOUS
  <2>2. \E i \in kept : Cardinality({j \in kept : j <= i}) = k
    BY <2>1, KthPosition
  <2> QED
    BY <2>2
<1>5. ASSUME NEW k \in 1..n PROVE pos(k) \in 1..Len(s) /\ s[pos(k)] # x
  <2>1. pos(k) \in kept
    BY <1>3
  <2> HIDE DEF pos, n
  <2> QED
    BY <2>1
<1> HIDE DEF kept, n, pos, w
<1>4. \A k, l \in 1..n : pos(k) = pos(l) => k = l
  BY <1>3
<1>6. w \in Seq(S) /\ Len(w) = n /\ \A k \in 1..n : w[k] = s[pos(k)]
  BY <1>1, <1>2, <1>5
<1>7. s = << >> => w = << >>
  BY <1>2, <1>6
<1>8. \A v : In(w, v) => In(s, v) /\ v # x
  BY <1>5, <1>6 DEF In
<1>9. ASSUME NEW v, Lone(s, v) PROVE Lone(w, v)
  <2> SUFFICES ASSUME NEW k \in 1..n, NEW l \in 1..n, w[k] = v, w[l] = v PROVE k = l
    BY <1>6 DEF Lone
  <2>1. pos(k) = pos(l)
    BY <1>5, <1>6, <1>9 DEF Lone
  <2> QED
    BY <1>4, <2>1
<1> QED
  BY <1>6, <1>7, <1>8, <1>9 DEF w

-----------------------------------------------------------------------------
(* Every variable keeps its kind.                                          *)

\* What the ids of an item tell of it.
LEMMA ItemKinds ==
  /\ \A x \in Inputs : /\ ItemOf(x) \in Items /\ ItemOf(x).id = x
                       /\ ItemOf(x).kind \in {"prompt", "update"}
                       /\ \A v \in Items : v.id = x => v = ItemOf(x)
                       /\ \A t : ItemOf(x) # Note(t)
                       /\ ItemOf(x) # Stop
  /\ \A t \in Tasks : /\ Note(t) \in Items /\ Note(t).id = t
                      /\ \A v \in Items : v.id = t => v = Note(t)
                      /\ Note(t) # Stop /\ Note(t).kind = "note"
  /\ \A v \in Items : v.kind \in {"prompt", "note", "update"} => v.id \in Ids
  /\ \A v \in Items : v.kind = "update" => v.id \in Updates
  /\ \A p \in Prompts : Prompt(p) = ItemOf(p)
  /\ \A m \in Messages : Prompt(m) = ItemOf(m)
  /\ \A u \in Updates : Update(u) = ItemOf(u)
  /\ Stop \in Items /\ Prompt(FirstTask) \in Items
<1> USE DEF Note, Update, Prompt, Stop
<1>1. \A v \in Items : \/ \E t \in Tasks : v = Note(t)
                       \/ \E u \in Updates : v = Update(u)
                       \/ \E p \in Prompts \cup Messages \cup {FirstTask} : v = Prompt(p)
                       \/ v = Stop
  BY DEF Items
<1>2. \A x \in Inputs : ItemOf(x) \in Items /\ ItemOf(x).id = x /\ ItemOf(x).kind \in {"prompt", "update"}
  BY DEF ItemOf, Items, Inputs
<1>3. ASSUME NEW x \in Inputs, NEW v \in Items, v.id = x PROVE v = ItemOf(x)
  BY <1>1, <1>3, BackgroundAssumption DEF ItemOf, Inputs
<1>4. \A x \in Inputs : (\A t : ItemOf(x) # Note(t)) /\ ItemOf(x) # Stop
  <2>1. \A t : Note(t).kind = "note" /\ Stop.kind = "stop"
    OBVIOUS
  <2> HIDE DEF Note, Stop
  <2> QED BY <1>2, <2>1
<1>5. \A t \in Tasks : Note(t) \in Items /\ Note(t).id = t
  BY DEF Items
<1>6. ASSUME NEW t \in Tasks, NEW v \in Items, v.id = t PROVE v = Note(t)
  BY <1>1, <1>6, BackgroundAssumption DEF Inputs
<1>7. \A t \in Tasks : Note(t) # Stop /\ Note(t).kind = "note"
  <2>1. \A t : Note(t).kind = "note" /\ Stop.kind = "stop"
    OBVIOUS
  <2> HIDE DEF Note, Stop
  <2> QED BY <2>1
<1>8. \A v \in Items : v.kind \in {"prompt", "note", "update"} => v.id \in Ids
  BY <1>1 DEF Ids, Inputs
<1>9. \A v \in Items : v.kind = "update" => v.id \in Updates
  BY <1>1
<1>10. /\ \A p \in Prompts : Prompt(p) = ItemOf(p)
       /\ \A m \in Messages : Prompt(m) = ItemOf(m)
       /\ \A u \in Updates : Update(u) = ItemOf(u)
  BY BackgroundAssumption DEF ItemOf
<1>11. Stop \in Items /\ Prompt(FirstTask) \in Items
  BY DEF Items
<1> QED
  BY <1>2, <1>3, <1>4, <1>5, <1>6, <1>7, <1>8, <1>9, <1>10, <1>11, Zenon

\* Before the agent has done anything.
LEMMA AgentInit == Init => AgentInv
<1> SUFFICES ASSUME Init PROVE AgentInv
  OBVIOUS
<1>1. TypeOK
  <2>1. sent \in [Inputs -> {"absent", "unsent", "refused", "queued", "returned", "error"}]
    BY DEF Init
  <2>2. inbox \in Seq(Items) /\ item \in Items
    BY ItemKinds DEF Init
  <2>3. queue \in Seq(Tasks) /\ taken \in Seq(Tasks) /\ history \in Seq(Ids)
    BY DEF Init
  <2>4. /\ depth = IF InScope THEN 1 ELSE 0
        /\ task \in [Tasks -> {"none", "running", "finished", "settled"}]
        /\ turn # "none" <=> runner = "turn"
    BY DEF Init, InScope
  <2>5. /\ listening \in BOOLEAN /\ busy \in BOOLEAN /\ hit \in BOOLEAN
        /\ cancelling \in BOOLEAN /\ stopping \in BOOLEAN /\ collected \subseteq Tasks
    BY Zenon DEF Init
  <2>6. kills \in 0..3 /\ turns \in Nat /\ reports \in Nat
    BY DEF Init
  <2>7. runner = "created" /\ turn = "none" /\ outcome = "none" /\ idler = "none"
    BY DEF Init
  <2> QED
    BY <2>1, <2>2, <2>3, <2>4, <2>5, <2>6, <2>7 DEF TypeOK
<1>2. HandInv /\ CountInv
  BY DEF Init, HandInv, CountInv, TurnLive
<1>3. inbox[1].id = FirstTask /\ Len(inbox) = 1
  BY DEF Init, Prompt
<1>4. \A v : v.id # FirstTask => ~In(inbox, v)
  BY <1>3 DEF In
<1>5. \A v : Lone(inbox, v)
  BY <1>3 DEF Lone
<1>6. SenderInv
  BY <1>4, <1>5, ItemKinds, BackgroundAssumption DEF Init, SenderInv
<1>7. NoteInv
  BY <1>4, <1>5, ItemKinds, InEmpty, BackgroundAssumption DEF Init, NoteInv, NoteAt, InHand
<1>8. QueueInv
  BY InEmpty DEF Init, QueueInv
<1> QED
  BY <1>1, <1>2, <1>6, <1>7, <1>8 DEF AgentInv

\* What a step of a call and its bucket leaves of the types.
LEMMA TaskTypes == ASSUME TypeOK, TaskStep PROVE TypeOK'
<1>1. PICK t \in Tasks : TaskEnds(t) \/ TaskSettles(t) \/ Describe(t)
  BY DEF TaskStep
<1>2. Note(t) \in Items
  BY ItemKinds
<1>3. queue' \in Seq(Tasks) /\ inbox' \in Seq(Items)
  <2>1. queue \in Seq(Tasks) /\ inbox \in Seq(Items)
    BY DEF TypeOK
  <2>2. Append(queue, t) \in Seq(Tasks) /\ Append(inbox, Note(t)) \in Seq(Items)
        /\ Without(queue, t) \in Seq(Tasks)
    BY <1>2, <2>1, InWithout
  <2> QED
    BY <1>1, <2>1, <2>2 DEF TaskEnds, TaskSettles, Describe, Post, Retract, bucket
<1>4. task' \in [Tasks -> {"none", "running", "finished", "settled"}] /\ collected' \subseteq Tasks
      /\ UNCHANGED <<depth, listening>>
  BY <1>1 DEF TypeOK, TaskEnds, TaskSettles, Describe, bucket
<1> QED
  BY <1>3, <1>4 DEF TaskStep, TypeOK, InScope, runnerVars, turnVars, userVars, countVars

\* The senders' fates keep their kinds when some are released.
LEMMA ReleaseTypes ==
  ASSUME TypeOK, NEW ids, Release(ids)
  PROVE  sent' \in [Inputs -> {"absent", "unsent", "refused", "queued", "returned", "error"}]
BY DEF TypeOK, Release

\* A step of the runner.
LEMMA RunnerTypes == ASSUME TypeOK, HandInv, RunnerStep \/ ReportFails PROVE TypeOK'
<1> USE DEF TypeOK, InScope, noteVars, bucket, runnerVars, turnVars, userVars, countVars
<1>0. runner = "update" => Append(history, item.id) \in Seq(Ids)
  <2>1. item \in Items /\ history \in Seq(Ids)
    OBVIOUS
  <2>2. runner = "update" => item.id \in Ids
    BY <2>1, ItemKinds DEF HandInv
  <2> HIDE DEF TypeOK
  <2> QED
    BY <2>1, <2>2
<1>1. inbox # << >> => Head(inbox) \in Items /\ Tail(inbox) \in Seq(Items)
  BY InTail
<1>2. WakeIdler => idler' \in {"none", "waiting", "woken", "returned"}
  BY DEF WakeIdler
<1>3. CASE RunnerBegins
  BY <1>3 DEF RunnerBegins
<1>4. CASE TakeStop
  BY <1>1, <1>4, ReleaseTypes DEF TakeStop, Took
<1>5. CASE TakeUpdate
  BY <1>1, <1>5 DEF TakeUpdate, Took
<1>6. CASE TakePrompt
  <2>1. item' \in Items /\ inbox' \in Seq(Items) /\ turns' \in Nat
    BY <1>1, <1>6 DEF TakePrompt, Took
  <2>2. /\ turn' = "created" /\ runner' = "turn" /\ depth = 0
        /\ cancelling' \in BOOLEAN /\ outcome' = "none" /\ busy' \in BOOLEAN
    BY <1>6 DEF TakePrompt, Took
  <2>3. UNCHANGED <<queue, depth, listening, task, collected, hit, kills, taken, history,
                    stopping, sent, idler, reports>>
    BY <1>6 DEF TakePrompt
  <2> QED
    BY <2>1, <2>2, <2>3
<1>7. CASE UpdateDone
  <2>1. history' \in Seq(Ids)
    BY <1>0, <1>7 DEF UpdateDone
  <2>2. sent' \in [Inputs -> {"absent", "unsent", "refused", "queued", "returned", "error"}]
    BY <1>7, ReleaseTypes DEF UpdateDone
  <2> QED
    BY <1>2, <1>7, <2>1, <2>2 DEF UpdateDone
<1>8. CASE TurnOver
  <2>1. sent' \in [Inputs -> {"absent", "unsent", "refused", "queued", "returned", "error"}]
    BY <1>8, ReleaseTypes DEF TurnOver
  <2>2. runner' \in {"close", "report", "deliver"} /\ reports' \in Nat
    BY <1>8 DEF TurnOver
  <2> QED
    BY <1>2, <1>8, <2>1, <2>2 DEF TurnOver
<1>9. CASE Reported
  BY <1>9 DEF Reported
<1>10. CASE Delivered
  BY <1>2, <1>10 DEF Delivered
<1>11. CASE Close
  BY <1>11 DEF Close
<1>12. CASE Finish
  <2>1. sent' \in [Inputs -> {"absent", "unsent", "refused", "queued", "returned", "error"}]
    BY <1>12, ReleaseTypes DEF Finish
  <2>2. inbox' \in Seq(Items) /\ queue' \in Seq(Tasks)
    BY <1>12 DEF Finish, DiscardBucket
  <2> QED
    BY <1>2, <1>12, <2>1, <2>2 DEF Finish, DiscardBucket
<1>13. CASE PeerClosed
  BY <1>13 DEF PeerClosed
<1>14. CASE RunnerHit
  <2>1. history' \in Seq(Ids)
    BY <1>0, <1>14 DEF RunnerHit
  <2>2. idler' \in {"none", "waiting", "woken", "returned"}
    BY <1>2, <1>14 DEF RunnerHit
  <2>3. turn = "none" /\ runner' \in {"dead", "publish", "close"}
    BY <1>14 DEF RunnerHit
  <2> QED
    BY <1>14, <2>1, <2>2, <2>3 DEF RunnerHit
<1>15. CASE ReportFails
  BY <1>2, <1>15 DEF ReportFails
<1> QED
  BY <1>3, <1>4, <1>5, <1>6, <1>7, <1>8, <1>9, <1>10, <1>11, <1>12, <1>13, <1>14, <1>15
     DEF RunnerStep

\* A step of the turn.
LEMMA TurnTypes == ASSUME TypeOK, HandInv, TurnStep \/ TurnChoice PROVE TypeOK'
<1> USE DEF TypeOK, InScope, noteVars, bucket, runnerVars, turnVars, userVars, countVars,
            UnchangedAroundTurn
<1>0. turn = "starting" => Append(history, item.id) \in Seq(Ids)
  <2>1. item \in Items /\ history \in Seq(Ids)
    OBVIOUS
  <2>2. turn = "starting" => item.id \in Ids
    BY <2>1, ItemKinds DEF HandInv, TurnLive
  <2> HIDE DEF TypeOK
  <2> QED
    BY <2>1, <2>2
<1>1. inbox \o Heard(queue) \in Seq(Items) /\ << >> \in Seq(Tasks)
  <2>1. inbox \in Seq(Items) /\ Heard(queue) \in Seq(Items)
    BY InHeard
  <2> HIDE DEF TypeOK
  <2> QED
    BY <2>1
<1>2. LeaveScope => inbox' \in Seq(Items) /\ queue' \in Seq(Tasks)
                    /\ depth' = 0 /\ listening' = listening
  <2>1. inbox \in Seq(Items) /\ queue \in Seq(Tasks) /\ (depth = 0 \/ depth = 1)
    OBVIOUS
  <2> HIDE DEF TypeOK
  <2>2. LeaveScope => depth' = 0 /\ listening' = listening
    BY <2>1 DEF LeaveScope
  <2>3. LeaveScope => \/ inbox' = inbox \o Heard(queue) /\ queue' = << >>
                      \/ inbox' = inbox /\ queue' = queue
    BY Zenon DEF LeaveScope
  <2> QED
    BY <1>1, <2>1, <2>2, <2>3
<1>3. history \o taken \in Seq(Ids)
  <2>1. taken \in Seq(Ids)
    BY DEF Ids
  <2> QED BY <2>1
<1>4. turn # "none" => runner = "turn"
  OBVIOUS
<1>5. CASE TurnBegins
  BY <1>5 DEF TurnBegins
<1>6. CASE TurnInput
  <2>1. history' \in Seq(Ids) /\ inbox' \in Seq(Items) /\ queue' \in Seq(Tasks)
    BY <1>0, <1>6 DEF TurnInput, EnterScope
  <2>2. depth' = IF InScope' THEN 1 ELSE 0
    BY <1>6 DEF TurnInput, EnterScope
  <2>3. turn' \in {"top", "finishing"} /\ listening' = listening /\ outcome' \in {outcome, "failed"}
    BY <1>6 DEF TurnInput, EnterScope
  <2> QED
    BY <1>6, <2>1, <2>2, <2>3 DEF TurnInput
<1>7. CASE TurnDrain
  BY <1>7 DEF TurnDrain
<1>8. CASE TurnAppend
  BY <1>3, <1>8 DEF TurnAppend
<1>9. CASE TurnFinishes
  BY <1>9 DEF TurnFinishes
<1>10. CASE TurnCut
  <2>1. history' \in Seq(Ids)
    BY <1>0, <1>10 DEF TurnCut
  <2> QED BY <1>10, <2>1 DEF TurnCut
<1>11. CASE TurnUnwinds
  <2>1. history' \in Seq(Ids)
    BY <1>3, <1>11 DEF TurnUnwinds
  <2> QED BY <1>2, <1>11, <2>1 DEF TurnUnwinds
<1>12. CASE TurnCloses
  BY <1>12 DEF TurnCloses
<1>13. CASE TurnDetaches
  BY <1>13 DEF TurnDetaches, Detach
<1>14. CASE TurnAgain
  BY <1>14 DEF TurnAgain
<1>15. CASE TurnAppendFails
  BY <1>2, <1>15 DEF TurnAppendFails
<1>16. CASE TurnEnds
  BY <1>2, <1>16 DEF TurnEnds
<1> QED
  BY <1>5, <1>6, <1>7, <1>8, <1>9, <1>10, <1>11, <1>12, <1>13, <1>14, <1>15, <1>16
     DEF TurnStep, TurnChoice

\* A step of a client.
LEMMA ClientTypes == ASSUME TypeOK, Clients PROVE TypeOK'
<1> USE DEF TypeOK, InScope, noteVars, bucket, runnerVars, turnVars, userVars, countVars
<1>1. ASSUME NEW x \in Inputs, NEW i \in Items, Admit(x, i)
      PROVE  /\ sent' \in [Inputs -> {"absent", "unsent", "refused", "queued", "returned", "error"}]
             /\ inbox' \in Seq(Items)
  <2>1. /\ sent \in [Inputs -> {"absent", "unsent", "refused", "queued", "returned", "error"}]
        /\ inbox \in Seq(Items)
    OBVIOUS
  <2> HIDE DEF TypeOK
  <2>2. Append(inbox, i) \in Seq(Items)
    BY <2>1
  <2> QED
    BY <1>1, <2>1, <2>2 DEF Admit
<1>2. CASE SendLocally
  <2>1. /\ sent' \in [Inputs -> {"absent", "unsent", "refused", "queued", "returned", "error"}]
        /\ inbox' \in Seq(Items)
    <3> HIDE DEF TypeOK
    <3>1. PICK x \in Inputs : Admit(x, ItemOf(x))
      BY <1>2, ItemKinds DEF SendLocally, Inputs
    <3>2. ItemOf(x) \in Items
      BY ItemKinds
    <3> QED
      BY <1>1, <3>1, <3>2
  <2> QED BY <1>2, <2>1 DEF SendLocally
<1>3. CASE SendMessage
  <2>1. /\ sent' \in [Inputs -> {"absent", "unsent", "refused", "queued", "returned", "error"}]
        /\ inbox' \in Seq(Items)
    <3> HIDE DEF TypeOK
    <3>1. PICK x \in Inputs : Admit(x, ItemOf(x))
      BY <1>3, ItemKinds DEF SendMessage, Inputs
    <3>2. ItemOf(x) \in Items
      BY ItemKinds
    <3> QED
      BY <1>1, <3>1, <3>2
  <2> QED BY <1>3, <2>1 DEF SendMessage
<1>4. CASE WaitIdle
  BY <1>4 DEF WaitIdle
<1>5. CASE LookAgain
  BY <1>5 DEF LookAgain
<1>6. CASE InterruptTurn
  BY <1>6 DEF InterruptTurn, CancelTurn, TurnLive
<1>7. CASE StopAgent
  BY <1>7, ItemKinds DEF StopAgent, CancelTurn, TurnLive
<1>8. CASE StopLocally
  BY <1>8, ItemKinds DEF StopLocally, CancelTurn, TurnLive, CancelRunner
<1>9. CASE CancelAgain
  BY <1>9 DEF CancelAgain, CancelRunner
<1> QED
  BY <1>2, <1>3, <1>4, <1>5, <1>6, <1>7, <1>8, <1>9 DEF Clients

\* Every step keeps the kinds.
LEMMA StepTypes == ASSUME TypeOK, HandInv, [Next]_vars PROVE TypeOK'
<1>1. CASE Rest \/ UNCHANGED vars
  BY <1>1 DEF Rest, TypeOK, InScope, vars, noteVars, bucket, runnerVars, turnVars, userVars, countVars
<1> QED
  BY <1>1, TaskTypes, RunnerTypes, TurnTypes, ClientTypes DEF Next

-----------------------------------------------------------------------------
(* What is in hand, and what the parent has been told.                     *)

\* The runner keeps hold of the right kind of input: while one is in hand
\* nothing else takes from the inbox.
LEMMA HandStep == ASSUME TypeOK, HandInv, [Next]_vars PROVE HandInv'
<1> USE DEF HandInv, TurnLive, noteVars, runnerVars, turnVars, userVars, countVars
<1>0. turn # "none" <=> runner = "turn"
  BY DEF TypeOK
<1>1. CASE RunnerStep \/ ReportFails
  <2>1. CASE TakeStop \/ TakeUpdate \/ TakePrompt
    BY <1>0, <2>1 DEF TakeStop, TakeUpdate, TakePrompt, Took
  <2>2. CASE ~(TakeStop \/ TakeUpdate \/ TakePrompt)
    <3>1. item' = item /\ (runner' = "update" => runner = "update")
          /\ (turn' = turn \/ turn' = "none")
      BY <1>1, <2>2 DEF RunnerStep, RunnerBegins, UpdateDone, TurnOver, Reported, Delivered, Close,
         Finish, PeerClosed, RunnerHit, ReportFails
    <3> QED
      BY <3>1
  <2> QED
    BY <2>1, <2>2
<1>2. CASE TurnStep \/ TurnChoice
  <2>1. item' = item /\ runner' = runner /\ TurnLive
    BY <1>2 DEF TurnStep, TurnChoice, TurnBegins, TurnInput, TurnDrain, TurnAppend, TurnFinishes, TurnCut,
         TurnUnwinds, TurnCloses, TurnDetaches, TurnAgain, TurnAppendFails, TurnEnds, InScope,
         UnchangedAroundTurn
  <2> QED
    BY <2>1
<1>3. CASE Clients \/ TaskStep \/ Rest \/ UNCHANGED vars
  <2>1. UNCHANGED <<item, runner, turn>>
    BY <1>3 DEF Clients, SendLocally, SendMessage, WaitIdle, LookAgain, InterruptTurn, StopAgent,
         StopLocally, CancelAgain, TaskStep, Rest, vars
  <2> QED
    BY <2>1
<1> QED
  BY <1>1, <1>2, <1>3 DEF Next

\* The parent is never owed more than one report, and owed none when the
\* runner looks for the next input.
LEMMA CountStep == ASSUME TypeOK, CountInv, [Next]_vars PROVE CountInv'
<1> USE DEF CountInv, noteVars, runnerVars, turnVars, userVars, countVars
<1>0. turns \in Nat /\ reports \in Nat /\ (turn # "none" <=> runner = "turn")
  BY DEF TypeOK
<1>1. CASE RunnerStep \/ ReportFails
  <2>1. CASE TakePrompt
    BY <1>0, <2>1 DEF TakePrompt, Took
  <2>2. CASE TurnOver
    <3>1. runner = "turn" /\ turns' = turns
          /\ \/ runner' \in {"close", "report"} /\ reports' = reports
             \/ runner' = "deliver" /\ reports' = reports + 1
      BY <2>2 DEF TurnOver
    <3> QED
      BY <1>0, <3>1
  <2>3. CASE Reported
    BY <1>0, <2>3 DEF Reported
  <2>4. CASE ~(TakePrompt \/ TurnOver \/ Reported)
    <3>1. /\ UNCHANGED <<turns, reports>>
          /\ \/ runner' \in {"close", "publish", "leave", "gone", "dead"}
             \/ /\ runner' \in {"get", "update"}
                /\ runner \in {"created", "get", "update", "deliver"}
      BY <1>1, <2>4 DEF RunnerStep, RunnerBegins, TakeStop, TakeUpdate, Took, UpdateDone, Delivered, Close,
         Finish, PeerClosed, RunnerHit, ReportFails
    <3> QED
      BY <3>1
  <2> QED
    BY <2>1, <2>2, <2>3, <2>4
<1>2. CASE TurnStep \/ TurnChoice
  <2>1. UNCHANGED <<runner, turns, reports>>
    BY <1>2 DEF TurnStep, TurnChoice, TurnBegins, TurnInput, TurnDrain, TurnAppend, TurnFinishes, TurnCut,
         TurnUnwinds, TurnCloses, TurnDetaches, TurnAgain, TurnAppendFails, TurnEnds,
         UnchangedAroundTurn
  <2> QED
    BY <2>1
<1>3. CASE Clients \/ TaskStep \/ Rest \/ UNCHANGED vars
  <2>1. UNCHANGED <<runner, turns, reports>>
    BY <1>3 DEF Clients, SendLocally, SendMessage, WaitIdle, LookAgain, InterruptTurn, StopAgent,
         StopLocally, CancelAgain, TaskStep, Rest, vars
  <2> QED
    BY <2>1
<1> QED
  BY <1>1, <1>2, <1>3 DEF Next

-----------------------------------------------------------------------------
(* Where an input is, and what its sender knows.                           *)

\* A step that neither takes from the inbox nor adds to it, and tells nobody.
LEMMA SenderStill ==
  ASSUME SenderInv, UNCHANGED <<inbox, item, sent>>,
         runner' \in {"update", "turn"} => runner' = runner
  PROVE  SenderInv'
BY DEF SenderInv

\* One more item in the inbox: a new input, whose sender waits from now on, or
\* something else than an input.
LEMMA SenderGets ==
  ASSUME TypeOK, SenderInv, NEW i \in Items, inbox' = Append(inbox, i), UNCHANGED <<item, runner>>,
         \A x \in Inputs : /\ sent'[x] = IF i = ItemOf(x) THEN "queued" ELSE sent[x]
                           /\ i = ItemOf(x) => sent[x] = "unsent"
  PROVE  SenderInv'
<1> SUFFICES ASSUME NEW x \in Inputs
             PROVE  /\ Lone(inbox', ItemOf(x))
                    /\ In(inbox', ItemOf(x)) => sent'[x] = "queued"
                    /\ runner' \in {"update", "turn"} /\ item' = ItemOf(x) =>
                         sent'[x] = "queued" /\ ~In(inbox', ItemOf(x))
  BY DEF SenderInv
<1>1. inbox \in Seq(Items)
  BY DEF TypeOK
<1>2. /\ In(inbox', ItemOf(x)) <=> In(inbox, ItemOf(x)) \/ i = ItemOf(x)
      /\ Lone(inbox, ItemOf(x)) /\ (i = ItemOf(x) => ~In(inbox, ItemOf(x))) => Lone(inbox', ItemOf(x))
  BY <1>1, InAppend
<1> QED
  BY <1>2 DEF SenderInv

\* The runner takes the next item, and answers its sender if it does not work
\* on it.
LEMMA SenderTaken ==
  ASSUME TypeOK, SenderInv, TakeStop \/ TakeUpdate \/ TakePrompt
  PROVE  SenderInv'
<1> SUFFICES ASSUME NEW x \in Inputs
             PROVE  /\ Lone(inbox', ItemOf(x))
                    /\ In(inbox', ItemOf(x)) => sent'[x] = "queued"
                    /\ runner' \in {"update", "turn"} /\ item' = ItemOf(x) =>
                         sent'[x] = "queued" /\ ~In(inbox', ItemOf(x))
  BY DEF SenderInv
<1>1. inbox \in Seq(Items) /\ inbox # << >> /\ inbox' = Tail(inbox) /\ item' = Head(inbox)
  BY DEF TypeOK, TakeStop, TakeUpdate, TakePrompt, Took
<1>2. /\ In(inbox', ItemOf(x)) => In(inbox, ItemOf(x))
      /\ item' = ItemOf(x) => In(inbox, ItemOf(x))
      /\ Lone(inbox, ItemOf(x)) => Lone(inbox', ItemOf(x)) /\ (item' = ItemOf(x) => ~In(inbox', ItemOf(x)))
      /\ item' \in Items
  BY <1>1, InTail
<1>3. CASE TakeStop
  <2>1. sent'[x] = sent[x] \/ item'.id = x
    BY <1>3 DEF TakeStop, Release
  <2>2. item'.id = x => item' = ItemOf(x)
    BY <1>2, ItemKinds
  <2>3. runner' = "close"
    BY <1>3 DEF TakeStop
  <2> QED
    BY <1>2, <2>1, <2>2, <2>3 DEF SenderInv
<1>4. CASE TakeUpdate \/ TakePrompt
  <2>1. sent' = sent
    BY <1>4 DEF TakeUpdate, TakePrompt, userVars
  <2> QED
    BY <1>2, <2>1 DEF SenderInv
<1> QED
  BY <1>3, <1>4

\* The runner is done with the item in hand.
LEMMA SenderAnswered ==
  ASSUME TypeOK, SenderInv, UpdateDone \/ TurnOver
  PROVE  SenderInv'
<1> SUFFICES ASSUME NEW x \in Inputs
             PROVE  /\ Lone(inbox', ItemOf(x))
                    /\ In(inbox', ItemOf(x)) => sent'[x] = "queued"
                    /\ runner' \in {"update", "turn"} /\ item' = ItemOf(x) =>
                         sent'[x] = "queued" /\ ~In(inbox', ItemOf(x))
  BY DEF SenderInv
<1>1. inbox' = inbox /\ item \in Items /\ runner \in {"update", "turn"} /\ runner' \notin {"update", "turn"}
  BY DEF TypeOK, UpdateDone, TurnOver, noteVars
<1>2. sent'[x] = sent[x] \/ item.id = x
  <2>1. sent \in [Inputs -> {"absent", "unsent", "refused", "queued", "returned", "error"}]
    BY DEF TypeOK
  <2> QED
    BY <2>1 DEF UpdateDone, TurnOver, Release
<1>3. item.id = x => item = ItemOf(x)
  BY <1>1, ItemKinds
<1> QED
  BY <1>1, <1>2, <1>3 DEF SenderInv

\* Everything else the runner does.
LEMMA SenderRunner ==
  ASSUME TypeOK, SenderInv, RunnerStep \/ ReportFails
  PROVE  SenderInv'
<1>1. CASE TakeStop \/ TakeUpdate \/ TakePrompt
  BY <1>1, SenderTaken
<1>2. CASE UpdateDone \/ TurnOver
  BY <1>2, SenderAnswered
<1>3. CASE Finish
  <2>1. inbox' = << >> /\ runner' = "leave"
    BY <1>3 DEF Finish
  <2>2. \A x : Lone(inbox', ItemOf(x)) /\ ~In(inbox', ItemOf(x))
    BY <2>1, InEmpty
  <2> QED
    BY <2>1, <2>2 DEF SenderInv
<1>4. CASE RunnerBegins \/ Reported \/ Delivered \/ Close \/ PeerClosed \/ RunnerHit \/ ReportFails
  <2>1. UNCHANGED <<inbox, item, sent>> /\ runner' \notin {"update", "turn"}
    BY <1>4 DEF RunnerBegins, Reported, Delivered, Close, PeerClosed, RunnerHit, ReportFails,
       noteVars, userVars
  <2> QED
    BY <2>1, SenderStill
<1> QED
  BY <1>1, <1>2, <1>3, <1>4 DEF RunnerStep

\* The turn only hands notes back to the inbox.
LEMMA SenderTurn ==
  ASSUME TypeOK, SenderInv, TurnStep \/ TurnChoice
  PROVE  SenderInv'
<1>1. UNCHANGED <<item, sent, runner>>
  BY DEF TurnStep, TurnChoice, TurnBegins, TurnInput, TurnDrain, TurnAppend, TurnFinishes, TurnCut,
     TurnUnwinds, TurnCloses, TurnDetaches, TurnAgain, TurnAppendFails, TurnEnds,
     UnchangedAroundTurn, runnerVars, userVars
<1>2. inbox' = inbox \/ inbox' = inbox \o Heard(queue)
  BY DEF TurnStep, TurnChoice, TurnBegins, TurnInput, TurnDrain, TurnAppend, TurnFinishes, TurnCut,
     TurnUnwinds, TurnCloses, TurnDetaches, TurnAgain, TurnAppendFails, TurnEnds,
     UnchangedAroundTurn, noteVars, Detach, EnterScope, LeaveScope
<1>3. inbox \in Seq(Items) /\ Heard(queue) \in Seq(Items)
  BY InHeard DEF TypeOK
<1>4. CASE inbox' = inbox
  BY <1>1, <1>4, SenderStill
<1>5. CASE inbox' = inbox \o Heard(queue)
  <2> SUFFICES ASSUME NEW x \in Inputs
               PROVE  /\ Lone(inbox', ItemOf(x))
                      /\ In(inbox', ItemOf(x)) => sent'[x] = "queued"
                      /\ runner' \in {"update", "turn"} /\ item' = ItemOf(x) =>
                           sent'[x] = "queued" /\ ~In(inbox', ItemOf(x))
    BY DEF SenderInv
  <2>1. ~In(Heard(queue), ItemOf(x)) /\ Lone(Heard(queue), ItemOf(x))
    <3>1. ItemOf(x).kind # "note" /\ queue \in Seq(Tasks)
      BY ItemKinds DEF TypeOK
    <3> QED
      BY <3>1, InHeard
  <2>2. /\ In(inbox', ItemOf(x)) <=> In(inbox, ItemOf(x)) \/ In(Heard(queue), ItemOf(x))
        /\ Lone(inbox, ItemOf(x)) /\ Lone(Heard(queue), ItemOf(x))
             /\ ~(In(inbox, ItemOf(x)) /\ In(Heard(queue), ItemOf(x))) => Lone(inbox', ItemOf(x))
    BY <1>3, <1>5, InConcat
  <2> QED
    BY <1>1, <2>1, <2>2 DEF SenderInv
<1> QED
  BY <1>2, <1>4, <1>5

\* Whoever sends an input waits for it from then on, or is refused.
LEMMA SenderSends ==
  ASSUME TypeOK, SenderInv, SendLocally \/ SendMessage
  PROVE  SenderInv'
<1>1. UNCHANGED <<item, runner>>
  BY DEF SendLocally, SendMessage, runnerVars
<1>2. PICK x \in Inputs : sent[x] = "unsent" /\ Admit(x, ItemOf(x))
  BY ItemKinds DEF SendLocally, SendMessage, Inputs
<1>3. sent \in [Inputs -> {"absent", "unsent", "refused", "queued", "returned", "error"}]
  BY DEF TypeOK
<1>4. \A y \in Inputs : ItemOf(x) = ItemOf(y) => x = y
  BY ItemKinds
<1>5. CASE stopping
  <2>1. inbox' = inbox /\ \A y \in Inputs : sent'[y] = sent[y] \/ y = x
    BY <1>2, <1>3, <1>5 DEF Admit
  <2>2. ~In(inbox, ItemOf(x)) /\ ~(runner \in {"update", "turn"} /\ item = ItemOf(x))
    BY <1>2 DEF SenderInv
  <2> QED
    BY <1>1, <2>1, <2>2 DEF SenderInv
<1>6. CASE ~stopping
  <2>1. inbox' = Append(inbox, ItemOf(x))
        /\ \A y \in Inputs : sent'[y] = IF ItemOf(x) = ItemOf(y) THEN "queued" ELSE sent[y]
    BY <1>2, <1>3, <1>4, <1>6 DEF Admit
  <2>2. ItemOf(x) \in Items
    BY ItemKinds
  <2> QED
    BY <1>1, <1>2, <1>4, <2>1, <2>2, SenderGets
<1> QED
  BY <1>5, <1>6

\* Every step keeps track of the inputs.
LEMMA SenderStep == ASSUME TypeOK, SenderInv, [Next]_vars PROVE SenderInv'
<1>1. CASE SendLocally \/ SendMessage
  BY <1>1, SenderSends
<1>2. CASE StopAgent \/ StopLocally
  <2>1. UNCHANGED <<item, runner, sent>> /\ inbox' = Append(inbox, Stop)
    BY <1>2 DEF StopAgent, StopLocally, runnerVars
  <2>2. Stop \in Items /\ \A x \in Inputs : Stop # ItemOf(x)
    BY ItemKinds
  <2> QED
    BY <2>1, <2>2, SenderGets
<1>3. CASE TaskStep
  <2>1. UNCHANGED <<item, runner, sent>>
    BY <1>3 DEF TaskStep, runnerVars, userVars
  <2>2. PICK t \in Tasks : TaskEnds(t) \/ TaskSettles(t) \/ Describe(t)
    BY <1>3 DEF TaskStep
  <2>3. inbox' = inbox \/ inbox' = Append(inbox, Note(t))
    BY <2>2 DEF TaskEnds, TaskSettles, Describe, Post
  <2>4. Note(t) \in Items /\ \A x \in Inputs : Note(t) # ItemOf(x)
    BY ItemKinds
  <2> QED
    BY <2>1, <2>3, <2>4, SenderGets, SenderStill
<1>4. CASE WaitIdle \/ LookAgain \/ InterruptTurn \/ CancelAgain \/ Rest \/ UNCHANGED vars
  <2>1. UNCHANGED <<inbox, item, sent, runner>>
    BY <1>4 DEF WaitIdle, LookAgain, InterruptTurn, CancelAgain, Rest, vars, noteVars, runnerVars, userVars
  <2> QED
    BY <2>1, SenderStill
<1> QED
  BY <1>1, <1>2, <1>3, <1>4, SenderRunner, SenderTurn DEF Next, Clients

-----------------------------------------------------------------------------
(* Where a note is.                                                        *)

\* A step that does not touch the notes.
LEMMA NoteStill ==
  ASSUME NoteInv, QueueInv, UNCHANGED <<queue, depth, listening, inbox, task, collected, taken, history>>,
         \A t : InHand(t)' => InHand(t), turn = "append" => turn' = "append"
  PROVE  NoteInv' /\ QueueInv'
<1>1. ASSUME NEW t \in Tasks PROVE NoteAt(t)'
  BY DEF NoteInv, NoteAt
<1>2. QueueInv'
  BY DEF QueueInv
<1> QED
  BY <1>1, <1>2 DEF NoteInv

\* A call ends, is announced, or collected by hand.
LEMMA NoteTask ==
  ASSUME TypeOK, NoteInv, QueueInv, TaskStep
  PROVE  NoteInv' /\ QueueInv'
<1>1. PICK u \in Tasks : TaskEnds(u) \/ TaskSettles(u) \/ Describe(u)
  BY DEF TaskStep
<1>2. UNCHANGED <<item, turn, taken, history>> /\ \A t : InHand(t)' <=> InHand(t)
  BY DEF TaskStep, turnVars, runnerVars, InHand
<1>3. queue \in Seq(Tasks) /\ inbox \in Seq(Items) /\ Note(u) \in Items
      /\ task \in [Tasks -> {"none", "running", "finished", "settled"}]
      /\ (depth = 0 \/ depth > 0)
  BY ItemKinds DEF TypeOK
<1>4. \A t \in Tasks : Note(u) = Note(t) => t = u
  BY ItemKinds
<1>5. CASE TaskEnds(u)
  <2>1. UNCHANGED <<queue, depth, listening, inbox, collected>>
    BY <1>5 DEF TaskEnds, bucket
  <2>2. \A t \in Tasks : task[t] = "settled" => task'[t] = "settled"
    BY <1>3, <1>5 DEF TaskEnds
  <2>3. ASSUME NEW t \in Tasks PROVE NoteAt(t)'
    BY <1>2, <2>1, <2>2 DEF NoteInv, NoteAt
  <2> QED
    BY <1>2, <2>1, <2>3 DEF NoteInv, QueueInv
<1>6. CASE TaskSettles(u)
  <2>1. /\ UNCHANGED <<depth, listening, collected>> /\ task[u] = "finished"
        /\ \/ UNCHANGED <<queue, inbox>>
           \/ depth = 0 /\ listening /\ inbox' = Append(inbox, Note(u)) /\ queue' = queue
           \/ /\ ~(depth = 0 /\ listening) /\ queue' = Append(queue, u) /\ inbox' = inbox
              /\ u \notin collected
    BY <1>6 DEF TaskSettles, Post
  <2>2. task'[u] = "settled" /\ \A t \in Tasks : t # u => task'[t] = task[t]
    BY <1>3, <1>6 DEF TaskSettles
  <2>3. \A t \in Tasks :
          /\ In(Append(queue, u), t) <=> In(queue, t) \/ u = t
          /\ Lone(queue, t) /\ (u = t => ~In(queue, t)) => Lone(Append(queue, u), t)
          /\ In(Append(inbox, Note(u)), Note(t)) <=> In(inbox, Note(t)) \/ Note(u) = Note(t)
          /\ Lone(inbox, Note(t)) /\ (Note(u) = Note(t) => ~In(inbox, Note(t)))
               => Lone(Append(inbox, Note(u)), Note(t))
    BY <1>3, InAppend
  <2>4. ASSUME NEW t \in Tasks PROVE NoteAt(t)'
    <3>1. NoteAt(t) /\ (t = u => task[t] # "settled")
      BY <2>1 DEF NoteInv
    <3>2. CASE UNCHANGED <<queue, inbox>>
      BY <1>2, <2>1, <2>2, <3>1, <3>2 DEF NoteAt
    <3>3. CASE inbox' = Append(inbox, Note(u)) /\ queue' = queue
      BY <1>2, <1>4, <2>1, <2>2, <2>3, <3>1, <3>3 DEF NoteAt
    <3>4. CASE queue' = Append(queue, u) /\ inbox' = inbox
      BY <1>2, <2>1, <2>2, <2>3, <3>1, <3>4 DEF NoteAt
    <3> QED
      BY <2>1, <3>2, <3>3, <3>4
  <2>5. QueueInv'
    <3>0. queue' = queue \/ (queue' = Append(queue, u) /\ u \notin collected)
      BY <2>1
    <3>1. \A t \in Tasks : In(queue', t) => In(queue, t) \/ (t = u /\ u \notin collected)
      <4> TAKE t \in Tasks
      <4>1. In(Append(queue, u), t) <=> In(queue, t) \/ u = t
        BY <2>3
      <4> QED
        BY <3>0, <4>1
    <3>2. queue' = queue \/ ~(depth = 0 /\ listening)
      BY <2>1
    <3>3. queue' # << >> => depth > 0 \/ ~listening
      <4>1. depth = 0 \/ depth > 0
        BY <1>3
      <4>2. queue # << >> => depth > 0 \/ ~listening
        BY DEF QueueInv
      <4> QED
        BY <3>2, <4>1, <4>2, Zenon
    <3> QED
      BY <1>2, <2>1, <3>1, <3>3 DEF QueueInv
  <2> QED
    BY <2>4, <2>5 DEF NoteInv
<1>7. CASE Describe(u)
  <2>1. UNCHANGED <<depth, listening, inbox, task>> /\ queue' = Without(queue, u)
        /\ collected' = collected \cup {u}
    BY <1>7 DEF Describe, Retract
  <2>2. /\ queue = << >> => queue' = << >>
        /\ \A t \in Tasks : /\ In(queue', t) => In(queue, t) /\ t # u
                            /\ Lone(queue, t) => Lone(queue', t)
    BY <1>3, <2>1, InWithout
  <2>3. ASSUME NEW t \in Tasks PROVE NoteAt(t)'
    BY <1>2, <2>1, <2>2 DEF NoteInv, NoteAt
  <2>4. QueueInv'
    BY <1>2, <2>1, <2>2 DEF QueueInv
  <2> QED
    BY <2>3, <2>4 DEF NoteInv
<1> QED
  BY <1>1, <1>5, <1>6, <1>7

\* The runner takes the next item, which may be a note.
LEMMA NoteTaken ==
  ASSUME TypeOK, NoteInv, QueueInv, TakeStop \/ TakeUpdate \/ TakePrompt
  PROVE  NoteInv' /\ QueueInv'
<1>1. inbox \in Seq(Items) /\ inbox # << >> /\ inbox' = Tail(inbox) /\ item' = Head(inbox)
      /\ turn = "none" /\ turn' \in {"none", "created"}
      /\ UNCHANGED <<queue, depth, listening, task, collected, taken, history>>
  BY DEF TypeOK, TakeStop, TakeUpdate, TakePrompt, Took, turnVars, bucket
<1>2. \A t : /\ In(inbox', Note(t)) => In(inbox, Note(t))
             /\ item' = Note(t) => In(inbox, Note(t))
             /\ Lone(inbox, Note(t)) => Lone(inbox', Note(t)) /\ (item' = Note(t) => ~In(inbox', Note(t)))
  BY <1>1, InTail
<1>3. ASSUME NEW t \in Tasks PROVE NoteAt(t)'
  BY <1>1, <1>2 DEF NoteInv, NoteAt, InHand
<1>4. QueueInv'
  BY <1>1 DEF QueueInv
<1> QED
  BY <1>3, <1>4 DEF NoteInv

\* A context update goes into the history; it is not a note.
LEMMA NoteUpdated ==
  ASSUME TypeOK, HandInv, NoteInv, QueueInv, UpdateDone \/ RunnerHit
  PROVE  NoteInv' /\ QueueInv'
<1>1. UNCHANGED <<queue, depth, listening, inbox, task, collected, taken, item, turn>>
  BY DEF UpdateDone, RunnerHit, noteVars, bucket
<1>2. CASE history' = history
  BY <1>1, <1>2, NoteStill DEF InHand
<1>3. CASE runner = "update" /\ history' = Append(history, item.id)
  <2>1. item.id \in Updates /\ item.id \in Ids /\ history \in Seq(Ids)
    BY <1>3, ItemKinds DEF TypeOK, HandInv
  <2>2. \A t \in Tasks : t # item.id
    BY <2>1, BackgroundAssumption DEF Inputs
  <2>3. \A t : /\ In(history', t) <=> In(history, t) \/ item.id = t
               /\ Lone(history, t) /\ (item.id = t => ~In(history, t)) => Lone(history', t)
    BY <1>3, <2>1, InAppend
  <2>4. ASSUME NEW t \in Tasks PROVE NoteAt(t)'
    BY <1>1, <2>2, <2>3 DEF NoteInv, NoteAt, InHand
  <2>5. QueueInv'
    BY <1>1 DEF QueueInv
  <2> QED
    BY <2>4, <2>5 DEF NoteInv
<1> QED
  BY <1>2, <1>3 DEF UpdateDone, RunnerHit

\* A step of the runner.
LEMMA NoteRunner ==
  ASSUME TypeOK, HandInv, NoteInv, QueueInv, RunnerStep \/ ReportFails
  PROVE  NoteInv' /\ QueueInv'
<1>1. CASE TakeStop \/ TakeUpdate \/ TakePrompt
  BY <1>1, NoteTaken
<1>2. CASE UpdateDone \/ RunnerHit
  BY <1>2, NoteUpdated
<1>3. CASE Finish
  <2>1. inbox' = << >> /\ queue' = << >> /\ UNCHANGED <<task, collected, item, turn, taken, history>>
    BY <1>3 DEF Finish, DiscardBucket, turnVars
  <2>2. \A v : ~In(queue', v) /\ Lone(queue', v) /\ ~In(inbox', v) /\ Lone(inbox', v)
    BY <2>1, InEmpty
  <2>3. ASSUME NEW t \in Tasks PROVE NoteAt(t)'
    BY <2>1, <2>2 DEF NoteInv, NoteAt, InHand
  <2>4. QueueInv'
    BY <2>1, <2>2 DEF QueueInv
  <2> QED
    BY <2>3, <2>4 DEF NoteInv
<1>4. CASE RunnerBegins \/ TurnOver \/ Reported \/ Delivered \/ Close \/ PeerClosed \/ ReportFails
  <2>1. /\ UNCHANGED <<queue, depth, listening, inbox, task, collected, taken, history, item>>
        /\ turn' = turn \/ (turn = "done" /\ turn' = "none")
    <3> USE DEF noteVars, bucket, turnVars
    <3>1. CASE TurnOver
      BY <3>1 DEF TurnOver
    <3>2. CASE RunnerBegins \/ Reported \/ Close \/ PeerClosed
      BY <3>2 DEF RunnerBegins, Reported, Close, PeerClosed
    <3>3. CASE Delivered \/ ReportFails
      BY <3>3 DEF Delivered, ReportFails
    <3> QED
      BY <1>4, <3>1, <3>2, <3>3
  <2> QED
    BY <2>1, NoteStill DEF InHand
<1> QED
  BY <1>1, <1>2, <1>3, <1>4 DEF RunnerStep

\* The turn stores its input, or loses it.
LEMMA NoteInput ==
  ASSUME TypeOK, HandInv, NoteInv, QueueInv, TurnInput \/ TurnCut
  PROVE  NoteInv' /\ QueueInv'
<1>1. UNCHANGED <<queue, listening, inbox, task, collected, taken, item>>
      /\ turn \in {"created", "starting", "finishing"} /\ turn' \in {"top", "finishing", "done"}
      /\ (depth > 0 => depth' > 0)
  BY DEF TypeOK, InScope, TurnInput, TurnCut, EnterScope, UnchangedAroundTurn, noteVars, bucket, runnerVars
<1>2. taken = << >> /\ \A t : ~InHand(t)'
  BY <1>1 DEF QueueInv, InHand
<1>3. QueueInv'
  BY <1>1, <1>2 DEF QueueInv
<1>4. CASE history' = history
  <2>1. ASSUME NEW t \in Tasks PROVE NoteAt(t)'
    BY <1>1, <1>2, <1>4 DEF NoteInv, NoteAt
  <2> QED
    BY <1>3, <2>1 DEF NoteInv
<1>5. CASE turn = "starting" /\ history' = Append(history, item.id)
  <2>1. item \in Items /\ item.id \in Ids /\ history \in Seq(Ids)
    BY <1>5, ItemKinds DEF TypeOK, HandInv, TurnLive
  <2>2. \A t \in Tasks : item.id = t => InHand(t)
    BY <1>5, <2>1, ItemKinds DEF InHand
  <2>3. \A t : /\ In(history', t) <=> In(history, t) \/ item.id = t
               /\ Lone(history, t) /\ (item.id = t => ~In(history, t)) => Lone(history', t)
    BY <1>5, <2>1, InAppend
  <2>4. ASSUME NEW t \in Tasks PROVE NoteAt(t)'
    BY <1>1, <1>2, <2>2, <2>3 DEF NoteInv, NoteAt
  <2> QED
    BY <1>3, <2>4 DEF NoteInv
<1> QED
  BY <1>4, <1>5 DEF TurnInput, TurnCut

\* The turn drains the queue.
LEMMA NoteDrain ==
  ASSUME TypeOK, NoteInv, QueueInv, TurnDrain
  PROVE  NoteInv' /\ QueueInv'
<1>1. UNCHANGED <<depth, listening, inbox, task, collected, history, item>>
      /\ turn = "top" /\ taken' = queue /\ queue' = << >>
      /\ turn' = IF queue = << >> THEN "work" ELSE "append"
  BY DEF TurnDrain, UnchangedAroundTurn, runnerVars
<1>2. taken = << >> /\ \A v : ~In(queue', v) /\ Lone(queue', v) /\ ~In(taken, v)
  BY <1>1, InEmpty DEF QueueInv
<1>3. ASSUME NEW t \in Tasks PROVE NoteAt(t)'
  <2>1. ~InHand(t) /\ ~InHand(t)'
    BY <1>1 DEF InHand
  <2> QED
    BY <1>1, <1>2, <2>1 DEF NoteInv, NoteAt
<1>4. QueueInv'
  BY <1>1, <1>2 DEF QueueInv
<1> QED
  BY <1>3, <1>4 DEF NoteInv

\* What was drained goes into the history, and what is queued to the
\* listener when the scope is left.
LEMMA NoteMoves ==
  ASSUME TypeOK, NoteInv, QueueInv,
         UNCHANGED <<listening, task, collected, item>>,
         \/ history' = history
         \/ history' = history \o taken,
         \/ taken' = << >>
         \/ taken' = taken /\ history' = history /\ turn # "append",
         \/ UNCHANGED <<queue, inbox, depth>>
         \/ LeaveScope,
         InScope, turn' \notin {"created", "starting"}
  PROVE  NoteInv' /\ QueueInv'
<1>1. queue \in Seq(Tasks) /\ inbox \in Seq(Items) /\ taken \in Seq(Ids) /\ history \in Seq(Ids)
      /\ Heard(queue) \in Seq(Items)
  <2>1. Tasks \subseteq Ids /\ queue \in Seq(Tasks) /\ taken \in Seq(Tasks)
    BY DEF TypeOK, Ids
  <2>2. taken \in Seq(Ids)
    BY <2>1
  <2>3. Heard(queue) \in Seq(Items)
    BY <2>1, InHeard
  <2> QED
    BY <2>1, <2>2, <2>3 DEF TypeOK
<1>2. \A t : ~InHand(t) /\ ~InHand(t)'
  BY DEF InScope, InHand
<1>3. taken' = << >>
  BY DEF QueueInv
<1>4. \A t : /\ In(history', t) <=> In(history, t) \/ (history' # history /\ In(taken, t))
             /\ Lone(history, t) /\ Lone(taken, t) /\ ~(In(history, t) /\ In(taken, t)) => Lone(history', t)
  <2>1. CASE history' = history
    BY <2>1
  <2>2. CASE history' # history /\ history' = history \o taken
    BY <1>1, <2>2, InConcat
  <2> QED
    BY <2>1, <2>2
<1>5. \/ UNCHANGED <<queue, inbox, depth>>
      \/ queue' = queue /\ inbox' = inbox /\ ~listening
      \/ queue' = << >> /\ inbox' = inbox \o Heard(queue)
  <2>1. depth = 0 \/ depth = 1
    BY DEF TypeOK
  <2>2. LeaveScope => depth' = 0
    BY <2>1 DEF LeaveScope
  <2> QED
    BY <2>2 DEF LeaveScope
<1>6. \A t : ~In(taken', t) /\ Lone(taken', t)
  BY <1>3, InEmpty
<1>7. CASE queue' = queue /\ inbox' = inbox
  <2>1. ASSUME NEW t \in Tasks PROVE NoteAt(t)'
    BY <1>2, <1>4, <1>6, <1>7 DEF NoteInv, NoteAt
  <2>2. QueueInv'
    BY <1>3, <1>5, <1>6, <1>7 DEF QueueInv
  <2> QED
    BY <2>1, <2>2 DEF NoteInv
<1>8. CASE queue' = << >> /\ inbox' = inbox \o Heard(queue)
  <2>1. \A t : ~In(queue', t) /\ Lone(queue', t)
    BY <1>8, InEmpty
  <2>2. \A t : /\ In(inbox', Note(t)) <=> In(inbox, Note(t)) \/ In(queue, t)
               /\ Lone(inbox, Note(t)) /\ Lone(queue, t) /\ ~(In(inbox, Note(t)) /\ In(queue, t))
                    => Lone(inbox', Note(t))
    <3> TAKE t
    <3>1. /\ In(inbox', Note(t)) <=> In(inbox, Note(t)) \/ In(Heard(queue), Note(t))
          /\ Lone(inbox, Note(t)) /\ Lone(Heard(queue), Note(t))
                /\ ~(In(inbox, Note(t)) /\ In(Heard(queue), Note(t))) => Lone(inbox', Note(t))
      BY <1>1, <1>8, InConcat
    <3>2. (In(Heard(queue), Note(t)) <=> In(queue, t)) /\ (Lone(queue, t) => Lone(Heard(queue), Note(t)))
      BY <1>1, InHeard
    <3> QED
      BY <3>1, <3>2
  <2>3. ASSUME NEW t \in Tasks PROVE NoteAt(t)'
    BY <1>2, <1>4, <1>6, <2>1, <2>2 DEF NoteInv, NoteAt
  <2>4. QueueInv'
    BY <1>3, <1>8, <2>1 DEF QueueInv
  <2> QED
    BY <2>3, <2>4 DEF NoteInv
<1> QED
  BY <1>5, <1>7, <1>8

\* A step of the turn.
LEMMA NoteTurn ==
  ASSUME TypeOK, HandInv, NoteInv, QueueInv, TurnStep \/ TurnChoice
  PROVE  NoteInv' /\ QueueInv'
<1> USE DEF UnchangedAroundTurn, noteVars, bucket, runnerVars, turnVars
<1>1. CASE TurnInput \/ TurnCut
  BY <1>1, NoteInput
<1>2. CASE TurnDrain
  BY <1>2, NoteDrain
<1>3. CASE TurnAppend \/ TurnUnwinds \/ TurnEnds \/ TurnAppendFails
  <2>1. /\ UNCHANGED <<listening, task, collected, item>>
        /\ InScope /\ turn' \notin {"created", "starting"}
    BY <1>3 DEF TurnAppend, TurnUnwinds, TurnEnds, TurnAppendFails, LeaveScope, InScope
  <2>2. /\ history' = history \/ history' = history \o taken
        /\ taken' = << >> \/ (taken' = taken /\ history' = history /\ turn # "append")
        /\ UNCHANGED <<queue, inbox, depth>> \/ LeaveScope
    <3>1. CASE TurnAppend
      BY <3>1 DEF TurnAppend
    <3>2. CASE TurnUnwinds
      BY <3>2 DEF TurnUnwinds
    <3>3. CASE TurnEnds
      BY <3>3 DEF TurnEnds
    <3>4. CASE TurnAppendFails
      BY <3>4 DEF TurnAppendFails
    <3> QED
      BY <1>3, <3>1, <3>2, <3>3, <3>4
  <2> QED
    BY <2>1, <2>2, NoteMoves
<1>4. CASE TurnBegins \/ TurnFinishes \/ TurnCloses \/ TurnAgain
  <2>1. /\ UNCHANGED <<queue, depth, listening, inbox, task, collected, taken, history, item>>
        /\ turn' \in {"created", "starting"} => turn \in {"created", "starting"}
        /\ turn # "append"
    BY <1>4 DEF TurnBegins, TurnFinishes, TurnCloses, TurnAgain
  <2> QED
    BY <2>1, NoteStill DEF InHand
<1>5. CASE TurnDetaches
  <2>1. PICK u \in Tasks : Detach(u)
    BY <1>5 DEF TurnDetaches
  <2>2. UNCHANGED <<queue, depth, listening, inbox, collected, taken, history, item, turn>>
        /\ task[u] = "none"
    BY <1>5, <2>1 DEF TurnDetaches, Detach
  <2>3. \A t \in Tasks : task[t] = "settled" => task'[t] = "settled"
    BY <2>1 DEF TypeOK, Detach
  <2>4. ASSUME NEW t \in Tasks PROVE NoteAt(t)'
    BY <2>2, <2>3 DEF NoteInv, NoteAt, InHand
  <2>5. QueueInv'
    BY <2>2 DEF QueueInv
  <2> QED
    BY <2>4, <2>5 DEF NoteInv
<1> QED
  BY <1>1, <1>2, <1>3, <1>4, <1>5 DEF TurnStep, TurnChoice

\* A client may add to the inbox, but no notes.
LEMMA NoteClients ==
  ASSUME TypeOK, NoteInv, QueueInv, Clients
  PROVE  NoteInv' /\ QueueInv'
<1>1. UNCHANGED <<queue, depth, listening, task, collected, taken, history, item, turn>>
  BY DEF Clients, SendLocally, SendMessage, WaitIdle, LookAgain, InterruptTurn, StopAgent,
     StopLocally, CancelAgain, noteVars, bucket, runnerVars, turnVars
<1>2. PICK i \in Items : (\A t : i # Note(t)) /\ (inbox' = inbox \/ inbox' = Append(inbox, i))
  <2>1. CASE SendLocally \/ SendMessage
    <3>1. PICK x \in Inputs : Admit(x, ItemOf(x))
      BY <2>1, ItemKinds DEF SendLocally, SendMessage, Inputs
    <3>2. ItemOf(x) \in Items /\ \A t : ItemOf(x) # Note(t)
      BY ItemKinds
    <3> QED
      BY <3>1, <3>2 DEF Admit
  <2>2. \A t : Stop # Note(t)
    <3>1. \A t : Stop.kind = "stop" /\ Note(t).kind = "note"
      BY DEF Stop, Note
    <3> QED
      BY <3>1
  <2>3. CASE ~(SendLocally \/ SendMessage)
    <3>1. inbox' = inbox \/ inbox' = Append(inbox, Stop)
      BY <2>3 DEF Clients, WaitIdle, LookAgain, InterruptTurn, StopAgent, StopLocally, CancelAgain, noteVars
    <3> QED
      BY <2>2, <3>1, ItemKinds
  <2> QED
    BY <2>1, <2>3
<1>3. \A t : (In(inbox', Note(t)) <=> In(inbox, Note(t))) /\ (Lone(inbox, Note(t)) => Lone(inbox', Note(t)))
  <2>1. inbox \in Seq(Items)
    BY DEF TypeOK
  <2>2. \A t : /\ In(Append(inbox, i), Note(t)) <=> In(inbox, Note(t)) \/ i = Note(t)
               /\ Lone(inbox, Note(t)) /\ (i = Note(t) => ~In(inbox, Note(t)))
                    => Lone(Append(inbox, i), Note(t))
    BY <2>1, InAppend
  <2>3. inbox' = inbox \/ inbox' = Append(inbox, i)
    BY <1>2
  <2>4. CASE inbox' = inbox
    BY <2>4
  <2>5. CASE inbox' = Append(inbox, i)
    <3> TAKE t
    <3>1. i # Note(t)
      BY <1>2
    <3> QED
      BY <2>2, <2>5, <3>1
  <2> QED
    BY <2>3, <2>4, <2>5
<1>4. ASSUME NEW t \in Tasks PROVE NoteAt(t)'
  BY <1>1, <1>3 DEF NoteInv, NoteAt, InHand
<1>5. QueueInv'
  BY <1>1 DEF QueueInv
<1> QED
  BY <1>4, <1>5 DEF NoteInv

\* Every step keeps track of the notes.
LEMMA NoteStep ==
  ASSUME TypeOK, HandInv, NoteInv, QueueInv, [Next]_vars
  PROVE  NoteInv' /\ QueueInv'
<1>1. CASE Rest \/ UNCHANGED vars
  <2>1. UNCHANGED vars
    BY <1>1 DEF Rest
  <2> QED
    BY <2>1, NoteStill DEF vars, noteVars, bucket, runnerVars, turnVars, InHand
<1> QED
  BY <1>1, NoteTask, NoteRunner, NoteTurn, NoteClients DEF Next

-----------------------------------------------------------------------------
(* What follows.                                                           *)

\* The invariant holds in every state the agent reaches.
THEOREM AgentInvariant == Spec => []AgentInv
<1>1. AgentInv /\ [Next]_vars => AgentInv'
  BY StepTypes, HandStep, CountStep, SenderStep, NoteStep DEF AgentInv
<1> QED
  BY <1>1, AgentInit, PTL DEF Spec

\* The parent is told of every turn exactly once before the next one starts,
\* and nobody who waits for an input is released while it is in the inbox or
\* its turn is running.
THEOREM TurnsAreReported == Spec => []ReportedThenReleased
<1>1. AgentInv => ReportedThenReleased
  <2> SUFFICES ASSUME AgentInv PROVE ReportedThenReleased
    OBVIOUS
  <2> USE DEF AgentInv
  <2>1. reports <= turns /\ turns <= reports + 1 /\ (runner = "get" => reports = turns)
    BY DEF CountInv
  <2>2. ASSUME NEW x \in Inputs, sent[x] = "returned"
        PROVE  (\A i \in 1..Len(inbox) : inbox[i].id # x) /\ ~(TurnLive /\ item.id = x)
    <3>1. ~In(inbox, ItemOf(x)) /\ ~(runner = "turn" /\ item = ItemOf(x))
      BY <2>2 DEF SenderInv
    <3>2. inbox \in Seq(Items) /\ item \in Items /\ (TurnLive => runner = "turn")
      BY DEF TypeOK, TurnLive
    <3>3. \A i \in 1..Len(inbox) : inbox[i] \in Items
      BY <3>2
    <3> QED
      BY <3>1, <3>2, <3>3, ItemKinds DEF In
  <2> QED
    BY <2>1, <2>2 DEF ReportedThenReleased
<1> QED
  BY <1>1, AgentInvariant, PTL

\* The completion of a detached call is in one place at most, and what is
\* queued is for a turn to drain and was not collected by hand.
THEOREM NotesAreReadOnce == Spec => []NotesReachTheTurnOnce
<1>1. AgentInv => NotesReachTheTurnOnce
  <2> SUFFICES ASSUME AgentInv PROVE NotesReachTheTurnOnce
    OBVIOUS
  <2> USE DEF AgentInv
  <2>1. ASSUME NEW t \in Tasks PROVE Cardinality(Slots(t)) <= 1
    <3>1. NoteAt(t)
      BY DEF NoteInv
    <3>2. \A s \in Slots(t) :
            \/ \E i \in 1..Len(queue) : s = <<"queue", i>> /\ queue[i] = t
            \/ \E i \in 1..Len(inbox) : s = <<"inbox", i>> /\ inbox[i] = Note(t)
            \/ \E i \in 1..Len(taken) : s = <<"taken", i>> /\ taken[i] = t
            \/ \E i \in 1..Len(history) : s = <<"history", i>> /\ history[i] = t
            \/ s = <<"item", 0>> /\ InHand(t)
      BY DEF Slots, InHand
    <3>3. \A r, s \in Slots(t) : r = s
      <4> TAKE r, s \in Slots(t)
      <4>1. CASE \E i \in 1..Len(queue) : r = <<"queue", i>> /\ queue[i] = t
        BY <3>1, <3>2, <4>1 DEF NoteAt, In, Lone
      <4>2. CASE \E i \in 1..Len(inbox) : r = <<"inbox", i>> /\ inbox[i] = Note(t)
        BY <3>1, <3>2, <4>2 DEF NoteAt, In, Lone
      <4>3. CASE \E i \in 1..Len(taken) : r = <<"taken", i>> /\ taken[i] = t
        BY <3>1, <3>2, <4>3 DEF NoteAt, In, Lone
      <4>4. CASE \E i \in 1..Len(history) : r = <<"history", i>> /\ history[i] = t
        BY <3>1, <3>2, <4>4 DEF NoteAt, In, Lone
      <4>5. CASE r = <<"item", 0>> /\ InHand(t)
        BY <3>1, <3>2, <4>5 DEF NoteAt, In
      <4> QED
        BY <3>2, <4>1, <4>2, <4>3, <4>4, <4>5
    <3>4. CASE Slots(t) = {}
      BY <3>4, FS_EmptySet
    <3>5. CASE Slots(t) # {}
      <4>1. PICK s : s \in Slots(t)
        BY <3>5
      <4>2. Slots(t) = {s}
        BY <3>3, <4>1
      <4>3. Cardinality({s}) = 1
        BY FS_Singleton
      <4> QED
        BY <4>2, <4>3
    <3> QED
      BY <3>4, <3>5
  <2>2. queue # << >> => depth > 0 \/ ~listening
    BY DEF QueueInv
  <2>3. \A i \in 1..Len(queue) : queue[i] \notin collected
    <3>1. queue \in Seq(Tasks)
      BY DEF TypeOK
    <3> QED
      BY <3>1 DEF QueueInv, In
  <2> QED
    BY <2>1, <2>2, <2>3 DEF NotesReachTheTurnOnce
<1> QED
  BY <1>1, AgentInvariant, PTL

-----------------------------------------------------------------------------
(* How a note is lost.                                                     *)

\* Taking one value out of a sequence leaves the others in it.
LEMMA WithoutKeeps ==
  ASSUME NEW S, NEW s \in Seq(S), NEW x, NEW v, In(s, v), v # x
  PROVE  In(Without(s, x), v)
<1> DEFINE kept == {i \in 1..Len(s) : s[i] # x}
           n == Cardinality(kept)
           below(i) == {j \in kept : j <= i}
           pos(k) == CHOOSE i \in kept : Cardinality(below(i)) = k
           w == Without(s, x)
<1>1. w = [k \in 1..n |-> s[pos(k)]]
  BY DEF Without
<1>2. PICK i \in kept : s[i] = v
  BY DEF In
<1>3. IsFiniteSet(kept) /\ \A j \in kept : j \in Nat
  <2>1. IsFiniteSet(1..Len(s)) /\ kept \in SUBSET (1..Len(s)) /\ Len(s) \in Nat
    BY FS_Interval
  <2> QED
    BY <2>1, FS_Subset
<1>4. n \in Nat
  BY <1>3, FS_CardinalityType
<1>5. ASSUME NEW j \in kept
      PROVE  /\ IsFiniteSet(below(j)) /\ Cardinality(below(j)) \in Nat
             /\ Cardinality(below(j)) <= n
  <2>1. below(j) \in SUBSET kept
    OBVIOUS
  <2> HIDE DEF below, kept
  <2> QED
    BY <1>3, <2>1, FS_Subset, FS_CardinalityType
<1>6. ASSUME NEW j \in kept, NEW l \in kept, Cardinality(below(j)) = Cardinality(below(l)), j <= l
      PROVE  j = l
  <2>1. below(j) \in SUBSET below(l)
    BY <1>3, <1>6
  <2>2. below(j) = below(l)
    <3> HIDE DEF below
    <3> QED
      BY <1>5, <1>6, <2>1, FS_Subset
  <2>3. l \in below(l)
    BY <1>3
  <2>4. l <= j
    BY <2>2, <2>3
  <2> QED
    BY <1>3, <1>6, <2>4
<1>7. PICK k : k = Cardinality(below(i))
  OBVIOUS
<1>8. k \in 1..n
  <2>1. i \in below(i)
    BY <1>3
  <2>2. IsFiniteSet(below(i)) /\ k \in Nat /\ k <= n
    BY <1>5, <1>7
  <2>3. k # 0
    <3> HIDE DEF below
    <3> QED
      BY <1>7, <2>1, <2>2, FS_EmptySet
  <2> QED
    BY <1>4, <2>2, <2>3
<1>9. pos(k) \in kept /\ Cardinality(below(pos(k))) = k
  <2>1. \E j \in kept : Cardinality(below(j)) = k
    BY <1>7
  <2> QED
    BY <2>1
<1>10. pos(k) = i
  <2> HIDE DEF pos, below
  <2>1. i <= pos(k) \/ pos(k) <= i
    BY <1>3, <1>9
  <2> QED
    BY <1>6, <1>7, <1>9, <2>1
<1>11. Len(w) = n /\ w[k] = v
  <2> HIDE DEF pos, kept, w, n
  <2>1. Len(w) = n
    BY <1>1, <1>4
  <2> QED
    BY <1>1, <1>2, <1>8, <1>10, <2>1
<1> HIDE DEF w, n
<1>12. In(w, v)
  BY <1>8, <1>11 DEF In
<1> QED
  BY <1>12 DEF w

\* What is in a sequence is at its head or further on.
LEMMA InHeadOrTail ==
  ASSUME NEW S, NEW s \in Seq(S), s # << >>, NEW v, In(s, v)
  PROVE  Head(s) = v \/ In(Tail(s), v)
<1>1. PICK i \in 1..Len(s) : s[i] = v
  BY DEF In
<1>2. CASE i = 1
  BY <1>1, <1>2
<1>3. CASE i # 1
  <2>1. i - 1 \in 1..Len(Tail(s)) /\ Tail(s)[i - 1] = s[i]
    BY <1>3
  <2> QED
    BY <1>1, <2>1 DEF In
<1> QED
  BY <1>2, <1>3

\* The note is somewhere.
Somewhere(t) ==
  In(queue, t) \/ In(inbox, Note(t)) \/ In(taken, t) \/ In(history, t) \/ InHand(t)

\* What may happen to a note that is.
Lost(t) ==
  \/ cancelling
  \/ turn \in {"starting", "append"} /\ turn' = "finishing"
  \/ t \in collected'
  \/ runner = "get" /\ stopping
  \/ runner' = "leave"

\* A step that takes nothing away.
LEMMA NothingLost ==
  ASSUME NEW t, Somewhere(t),
         UNCHANGED <<queue, inbox, taken, history>>, InHand(t) => InHand(t)'
  PROVE  Somewhere(t)'
BY DEF Somewhere

\* A call that ends loses no note, and one that is monitored only its own.
LEMMA LostByTask ==
  ASSUME TypeOK, NEW t \in Tasks, Somewhere(t), TaskStep
  PROVE  Somewhere(t)' \/ Lost(t)
<1>1. PICK u \in Tasks : TaskEnds(u) \/ TaskSettles(u) \/ Describe(u)
  BY DEF TaskStep
<1>2. UNCHANGED <<item, turn, taken, history>> /\ (InHand(t)' <=> InHand(t))
  BY DEF TaskStep, turnVars, runnerVars, InHand
<1>3. queue \in Seq(Tasks) /\ inbox \in Seq(Items) /\ Note(u) \in Items
  BY ItemKinds DEF TypeOK
<1>4. CASE TaskEnds(u)
  BY <1>2, <1>4, NothingLost DEF TaskEnds, bucket
<1>5. CASE TaskSettles(u)
  <2>1. /\ queue' = queue \/ queue' = Append(queue, u)
        /\ inbox' = inbox \/ inbox' = Append(inbox, Note(u))
    BY <1>5 DEF TaskSettles, Post
  <2>2. In(queue, t) => In(queue', t)
    <3>1. In(Append(queue, u), t) <=> In(queue, t) \/ u = t
      BY <1>3, InAppend
    <3> QED
      BY <2>1, <3>1
  <2>3. In(inbox, Note(t)) => In(inbox', Note(t))
    <3>1. In(Append(inbox, Note(u)), Note(t)) <=> In(inbox, Note(t)) \/ Note(u) = Note(t)
      BY <1>3, InAppend
    <3> QED
      BY <2>1, <3>1
  <2> QED
    BY <1>2, <2>2, <2>3 DEF Somewhere
<1>6. CASE Describe(u)
  <2>1. queue' = Without(queue, u) /\ inbox' = inbox /\ u \in collected'
    BY <1>6 DEF Describe, Retract
  <2>2. CASE t = u
    BY <2>1, <2>2 DEF Lost
  <2>3. CASE t # u
    <3>1. In(queue, t) => In(queue', t)
      BY <1>3, <2>1, <2>3, WithoutKeeps
    <3> QED
      BY <1>2, <2>1, <3>1 DEF Somewhere
  <2> QED
    BY <2>2, <2>3
<1> QED
  BY <1>1, <1>4, <1>5, <1>6

\* The runner loses what it takes while it is stopping, and everything when
\* it leaves.
LEMMA LostByRunner ==
  ASSUME TypeOK, HandInv, NEW t \in Tasks, Somewhere(t), RunnerStep \/ ReportFails
  PROVE  Somewhere(t)' \/ Lost(t)
<1>1. CASE TakeStop \/ TakeUpdate \/ TakePrompt
  <2>1. inbox \in Seq(Items) /\ inbox # << >> /\ inbox' = Tail(inbox) /\ item' = Head(inbox)
        /\ runner = "get" /\ turn = "none" /\ UNCHANGED <<queue, taken, history>>
    BY <1>1 DEF TypeOK, TakeStop, TakeUpdate, TakePrompt, Took, turnVars, bucket
  <2>2. In(inbox, Note(t)) => item' = Note(t) \/ In(inbox', Note(t))
    BY <2>1, InHeadOrTail
  <2>3. ~InHand(t)
    BY <2>1 DEF InHand
  <2>4. CASE item' = Note(t)
    <3>1. item'.kind = "note"
      BY <2>4, ItemKinds
    <3>2. CASE TakePrompt
      BY <2>4, <3>2 DEF TakePrompt, Somewhere, InHand
    <3>3. CASE TakeStop
      BY <2>1, <3>1, <3>3 DEF TakeStop, Lost
    <3>4. ~TakeUpdate
      BY <3>1 DEF TakeUpdate
    <3> QED
      BY <1>1, <3>2, <3>3, <3>4
  <2>5. CASE item' # Note(t)
    BY <2>1, <2>2, <2>3, <2>5 DEF Somewhere
  <2> QED
    BY <2>4, <2>5
<1>2. CASE UpdateDone \/ RunnerHit
  <2>1. /\ UNCHANGED <<queue, inbox, taken, item, turn>>
        /\ history' = history \/ (runner = "update" /\ history' = Append(history, item.id))
    BY <1>2 DEF UpdateDone, RunnerHit, noteVars
  <2>2. In(history, t) => In(history', t)
    <3>1. runner = "update" => item.id \in Ids
      BY ItemKinds DEF HandInv, TypeOK
    <3>2. history \in Seq(Ids)
      BY DEF TypeOK
    <3>3. runner = "update" => (In(Append(history, item.id), t) <=> In(history, t) \/ item.id = t)
      BY <3>1, <3>2, InAppend
    <3> QED
      BY <2>1, <3>3
  <2> QED
    BY <2>1, <2>2 DEF Somewhere, InHand
<1>3. CASE Finish
  BY <1>3 DEF Finish, Lost
<1>4. CASE RunnerBegins \/ TurnOver \/ Reported \/ Delivered \/ Close \/ PeerClosed \/ ReportFails
  <2>1. /\ UNCHANGED <<queue, inbox, taken, history, item>>
        /\ turn' = turn \/ turn = "done"
    <3> USE DEF noteVars, turnVars
    <3>1. CASE TurnOver
      BY <3>1 DEF TurnOver
    <3>2. CASE RunnerBegins \/ Reported \/ Close \/ PeerClosed
      BY <3>2 DEF RunnerBegins, Reported, Close, PeerClosed
    <3>3. CASE Delivered \/ ReportFails
      BY <3>3 DEF Delivered, ReportFails
    <3> QED
      BY <1>4, <3>1, <3>2, <3>3
  <2>2. InHand(t) => InHand(t)'
    BY <2>1 DEF InHand
  <2> QED
    BY <2>1, <2>2, NothingLost
<1> QED
  BY <1>1, <1>2, <1>3, <1>4 DEF RunnerStep

\* The turn hands its notes on, unless it is cancelled or cannot store them.
LEMMA LostByTurn ==
  ASSUME TypeOK, HandInv, QueueInv, NEW t \in Tasks, Somewhere(t), TurnStep \/ TurnChoice
  PROVE  Somewhere(t)' \/ Lost(t)
<1> USE DEF UnchangedAroundTurn, noteVars, bucket, runnerVars, turnVars
<1>1. CASE TurnCut \/ TurnUnwinds \/ TurnAppendFails
  BY <1>1 DEF TurnCut, TurnUnwinds, TurnAppendFails, Lost
<1>2. CASE TurnInput
  <2>1. UNCHANGED <<queue, inbox, taken>> /\ turn = "starting"
        /\ \/ history' = Append(history, item.id)
           \/ history' = history /\ turn' = "finishing"
    BY <1>2 DEF TurnInput, EnterScope
  <2>2. item.id \in Ids /\ history \in Seq(Ids) /\ (InHand(t) => item.id = t)
    BY <2>1, ItemKinds DEF TypeOK, HandInv, TurnLive, InHand
  <2>3. CASE history' = Append(history, item.id)
    <3>1. In(history', t) <=> In(history, t) \/ item.id = t
      BY <2>2, <2>3, InAppend
    <3> QED
      BY <2>1, <2>2, <3>1 DEF Somewhere
  <2>4. CASE turn' = "finishing"
    BY <2>1, <2>4 DEF Lost
  <2> QED
    BY <2>1, <2>3, <2>4
<1>3. CASE TurnDrain
  <2>1. taken' = queue /\ UNCHANGED <<inbox, history>> /\ turn = "top"
    BY <1>3 DEF TurnDrain
  <2>2. ~In(taken, t) /\ ~InHand(t)
    BY <2>1, InEmpty DEF QueueInv, InHand
  <2> QED
    BY <2>1, <2>2 DEF Somewhere
<1>4. CASE TurnAppend
  <2>1. history' = history \o taken /\ UNCHANGED <<queue, inbox>> /\ turn = "append"
    BY <1>4 DEF TurnAppend
  <2>2. taken \in Seq(Ids) /\ history \in Seq(Ids)
    <3>1. Tasks \subseteq Ids /\ taken \in Seq(Tasks)
      BY DEF TypeOK, Ids
    <3>2. taken \in Seq(Ids)
      BY <3>1
    <3> QED
      BY <3>2 DEF TypeOK
  <2>3. In(history', t) <=> In(history, t) \/ In(taken, t)
    BY <2>1, <2>2, InConcat
  <2> QED
    BY <2>1, <2>3 DEF Somewhere, InHand
<1>5. CASE TurnEnds
  <2>1. UNCHANGED <<taken, history>> /\ LeaveScope /\ turn = "work"
    BY <1>5 DEF TurnEnds
  <2>2. UNCHANGED <<queue, inbox>> \/ inbox' = inbox \o Heard(queue)
    BY <2>1 DEF LeaveScope
  <2>3. In(inbox \o Heard(queue), Note(t)) <=> In(inbox, Note(t)) \/ In(queue, t)
    <3>1. queue \in Seq(Tasks) /\ inbox \in Seq(Items)
      BY DEF TypeOK
    <3>2. Heard(queue) \in Seq(Items) /\ (In(Heard(queue), Note(t)) <=> In(queue, t))
      BY <3>1, InHeard
    <3>3. In(inbox \o Heard(queue), Note(t)) <=> In(inbox, Note(t)) \/ In(Heard(queue), Note(t))
      BY <3>1, <3>2, InConcat
    <3> QED
      BY <3>2, <3>3
  <2> QED
    BY <2>1, <2>2, <2>3 DEF Somewhere, InHand
<1>6. CASE TurnBegins \/ TurnFinishes \/ TurnCloses \/ TurnAgain \/ TurnDetaches
  <2>1. /\ UNCHANGED <<queue, inbox, taken, history, item>>
        /\ turn \in {"created", "starting"} => turn' \in {"created", "starting"}
    BY <1>6 DEF TurnBegins, TurnFinishes, TurnCloses, TurnAgain, TurnDetaches, Detach
  <2>2. InHand(t) => InHand(t)'
    BY <2>1 DEF InHand
  <2> QED
    BY <2>1, <2>2, NothingLost
<1> QED
  BY <1>1, <1>2, <1>3, <1>4, <1>5, <1>6 DEF TurnStep, TurnChoice

\* A client only adds to the inbox.
LEMMA LostByClients ==
  ASSUME TypeOK, NEW t \in Tasks, Somewhere(t), Clients
  PROVE  Somewhere(t)'
<1>1. UNCHANGED <<queue, taken, history, item, turn>>
  BY DEF Clients, SendLocally, SendMessage, WaitIdle, LookAgain, InterruptTurn, StopAgent,
     StopLocally, CancelAgain, noteVars, bucket, runnerVars, turnVars
<1>2. PICK i \in Items : inbox' = inbox \/ inbox' = Append(inbox, i)
  <2>1. CASE SendLocally \/ SendMessage
    <3>1. PICK x \in Inputs : Admit(x, ItemOf(x))
      BY <2>1, ItemKinds DEF SendLocally, SendMessage, Inputs
    <3>2. ItemOf(x) \in Items
      BY ItemKinds
    <3> QED
      BY <3>1, <3>2 DEF Admit
  <2>2. CASE ~(SendLocally \/ SendMessage)
    <3>1. inbox' = inbox \/ inbox' = Append(inbox, Stop)
      BY <2>2 DEF Clients, WaitIdle, LookAgain, InterruptTurn, StopAgent, StopLocally, CancelAgain, noteVars
    <3> QED
      BY <3>1, ItemKinds
  <2> QED
    BY <2>1, <2>2
<1>3. In(inbox, Note(t)) => In(inbox', Note(t))
  <2>1. inbox \in Seq(Items)
    BY DEF TypeOK
  <2>2. In(Append(inbox, i), Note(t)) <=> In(inbox, Note(t)) \/ i = Note(t)
    BY <2>1, InAppend
  <2> QED
    BY <1>2, <2>2
<1> QED
  BY <1>1, <1>3 DEF Somewhere, InHand

\* A note that was posted is lost only to a cancelled turn, to a store that
\* fails, to someone who collects the result by hand, or with the agent.
THEOREM NotesAreNotLost == Spec => NotesSurvive
<1>1. ASSUME AgentInv, [Next]_vars, NEW t \in Tasks, Slots(t) # {}, Slots(t)' = {} PROVE Lost(t)
  <2>1. Somewhere(t)
    BY <1>1 DEF Slots, Somewhere, In, InHand
  <2>2. ~Somewhere(t)'
    <3>1. Somewhere(t)' => Slots(t)' # {}
      <4>1. \A i \in 1..Len(queue') : queue'[i] = t => <<"queue", i>> \in Slots(t)'
        BY DEF Slots
      <4>2. \A i \in 1..Len(inbox') : inbox'[i] = Note(t) => <<"inbox", i>> \in Slots(t)'
        BY DEF Slots
      <4>3. \A i \in 1..Len(taken') : taken'[i] = t => <<"taken", i>> \in Slots(t)'
        BY DEF Slots
      <4>4. \A i \in 1..Len(history') : history'[i] = t => <<"history", i>> \in Slots(t)'
        BY DEF Slots
      <4>5. InHand(t)' => <<"item", 0>> \in Slots(t)'
        BY DEF Slots, InHand
      <4> QED
        BY <4>1, <4>2, <4>3, <4>4, <4>5 DEF Somewhere, In
    <3> QED
      BY <1>1, <3>1
  <2>3. CASE Rest \/ UNCHANGED vars
    BY <2>1, <2>2, <2>3, NothingLost DEF Rest, vars, noteVars, bucket, runnerVars, turnVars, InHand
  <2> QED
    BY <1>1, <2>1, <2>2, <2>3, LostByTask, LostByRunner, LostByTurn, LostByClients
       DEF AgentInv, Next
<1>2. AgentInv /\ [Next]_vars
        => [\A t \in Tasks : Slots(t) # {} /\ Slots(t)' = {} =>
              \/ cancelling
              \/ turn \in {"starting", "append"} /\ turn' = "finishing"
              \/ t \in collected'
              \/ runner = "get" /\ stopping
              \/ runner' = "leave"]_vars
  BY <1>1 DEF Lost
<1> QED
  BY <1>2, AgentInvariant, PTL DEF Spec, NotesSurvive

=============================================================================
