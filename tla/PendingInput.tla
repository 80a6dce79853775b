---------------------------- MODULE PendingInput ----------------------------
(***************************************************************************)
(* PendingInputCoordinator (axio_repl/_coordinator.py): what the user has  *)
(* submitted and no agent has stored yet.  Every transition is published   *)
(* through the session's event hub before it takes effect, and the         *)
(* coordinator's lock is held until it does.                               *)
(*                                                                         *)
(* The hub is the EventOrder that EventHub implements; wire says what the  *)
(* filled places hold.  A journal subscribes to it, and restored is what   *)
(* materialize_recovery (axio_repl/_recovery.py) would make of the events  *)
(* it has received: a fold, kept up event by event.                        *)
(*                                                                         *)
(* The definitions with an owner o are the steps a user of the coordinator *)
(* takes; module Foreground says who takes them and when.                  *)
(***************************************************************************)
EXTENDS Integers, FiniteSets

CONSTANT Inputs       \* submissions, numbered in the order of their Enter

ASSUME InputsAssumption == Inputs \subseteq Nat /\ IsFiniteSet(Inputs)

Agents == {"main", "child"}

VARIABLES
  given, reserved, dropped, next,  \* the hub, see EventOrder
  wire,     \* the events published and not delivered: [at, kind, ids, to]
  entries,  \* PendingInputState.entries
  lock,     \* _lock: the transition being published, or Free
  restored  \* what recovery would make of the journal

hubVars   == <<given, reserved, dropped, next, wire>>
inputVars == <<entries, lock>>

Order == INSTANCE EventOrder WITH filled <- {w.at : w \in wire}

\* PendingUserEntry
Statuses == {"absent", "pending", "recalled", "claimed", "delivered"}
Entry == [status : Statuses, seq : Nat, to : Agents]
Absent == [status |-> "absent", seq |-> 0, to |-> "main"]

Free == [by |-> "nobody", kind |-> "none", ids |-> {}, to |-> "main", at |-> 0]

\* A session that resumes another starts with the inputs 1 to k, which it has
\* admitted before anything else.
InitInput(k) ==
  LET Old(i) == i <= k IN
  /\ wire = {} /\ reserved = {} /\ dropped = {}
  /\ given = k /\ next = k + 1
  /\ entries = [i \in Inputs |-> IF Old(i) THEN [status |-> "pending", seq |-> i, to |-> "main"] ELSE Absent]
  /\ lock = Free
  /\ restored = [status |-> [i \in Inputs |-> IF Old(i) THEN "pending" ELSE "unknown"],
                 to |-> [i \in Inputs |-> "main"], messages |-> {}, failed |-> FALSE]

-----------------------------------------------------------------------------
(* The hub and the journal.                                                *)

Event(n, kind, ids, to) == [at |-> n, kind |-> kind, ids |-> ids, to |-> to]

\* reserve_sequence, discard_reserved_sequence
TakePlace == UNCHANGED wire /\ Order!Reserve

GiveUpPlace(n) == UNCHANGED wire /\ Order!Drop(n)

\* publish: what the caller gets is over when the order has passed its place.
Post(kind, ids, to) ==
  /\ wire' = wire \cup {Event(given + 1, kind, ids, to)}
  /\ Order!Place

\* publish(..., reserved_seq)
PostReserved(n, kind, ids, to) ==
  /\ wire' = wire \cup {Event(n, kind, ids, to)}
  /\ Order!Fill(n)

Over(n) == next > n

\* The state an input must be in for each event about it, and the state it is
\* in afterwards (_require_input_status, _confirm_claimed_input_commit).
Requires(kind) ==
  CASE kind = "buffered" -> {"unknown"}
    [] kind \in {"recalled", "claimed"} -> {"pending"}
    [] kind \in {"delivered", "committed"} -> {"claimed", "delivered"}
    [] OTHER -> {}

Becomes(kind) ==
  CASE kind = "buffered" -> "pending"
    [] kind = "committed" -> "delivered"
    [] OTHER -> kind

Fits(r, w, i) ==
  /\ r.status[i] \in Requires(w.kind)
  /\ w.kind = "committed" /\ r.status[i] = "claimed" => r.to[i] = w.to

RecoverMutant(r, w) ==      \* a committed message does not settle its input
  [status   |-> [i \in Inputs |-> IF i \in w.ids /\ w.kind # "committed" THEN Becomes(w.kind) ELSE r.status[i]],
   to       |-> [i \in Inputs |-> IF i \in w.ids THEN w.to ELSE r.to[i]],
   messages |-> IF w.kind = "committed" /\ w.to = "main" THEN r.messages \cup w.ids ELSE r.messages,
   failed   |-> r.failed \/ \E i \in w.ids : ~Fits(r, w, i)]

\* materialize_recovery, one record: an event that does not fit is an error,
\* a committed message settles the input it came from.
Recover(r, w) ==
  [status   |-> [i \in Inputs |-> IF i \in w.ids THEN Becomes(w.kind) ELSE r.status[i]],
   to       |-> [i \in Inputs |-> IF i \in w.ids THEN w.to ELSE r.to[i]],
   messages |-> IF w.kind = "committed" /\ w.to = "main" THEN r.messages \cup w.ids ELSE r.messages,
   failed   |-> r.failed \/ \E i \in w.ids : ~Fits(r, w, i)]

\* The next event is delivered: the journal has it, the publisher may go on.
Deliver ==
  /\ \E w \in wire :
       /\ w.at = next
       /\ wire' = wire \ {w}
       /\ restored' = Recover(restored, w)
  /\ Order!Settle

\* The publisher that was delivering it was cancelled: the journal may not.
Forget(kind) ==
  /\ \E w \in wire :
       /\ w.at = next /\ w.kind = kind
       /\ wire' = wire \ {w}
  /\ Order!Settle
  /\ UNCHANGED restored

PassDropped == UNCHANGED <<wire, restored>> /\ Order!Skip

-----------------------------------------------------------------------------
(* The reducer.                                                            *)

Pending == {i \in Inputs : entries[i].status = "pending"}

PendingFor(a) == {i \in Pending : entries[i].to = a}

Oldest(S) == CHOOSE i \in S : \A j \in S : entries[i].seq <= entries[j].seq

\* admit, recall_all, _claim, mark_delivered: the entries after a transition.
After(t) ==
  [i \in Inputs |->
     IF i \notin t.ids THEN entries[i]
     ELSE CASE t.kind = "buffered"  -> [status |-> "pending", seq |-> t.at, to |-> t.to]
            [] t.kind = "recalled"  -> [entries[i] EXCEPT !.status = "recalled"]
            [] t.kind = "claimed"   -> [entries[i] EXCEPT !.status = "claimed", !.to = t.to]
            [] t.kind = "delivered" -> [entries[i] EXCEPT !.status = "delivered"]]

-----------------------------------------------------------------------------
(* The coordinator.                                                        *)

Unlocked == lock = Free

Transition(o, kind, ids, to, n) == [by |-> o, kind |-> kind, ids |-> ids, to |-> to, at |-> n]

\* admit with the place the key press reserved
BeginAdmit(o, i, to, n) ==
  /\ Unlocked
  /\ lock' = Transition(o, "buffered", {i}, to, n)
  /\ PostReserved(n, "buffered", {i}, to)
  /\ UNCHANGED entries

\* recall_all, claim_oldest, claim_all_for_interrupt, mark_delivered
Begin(o, kind, ids, to) ==
  /\ Unlocked
  /\ lock' = Transition(o, kind, ids, to, given + 1)
  /\ Post(kind, ids, to)
  /\ UNCHANGED entries

\* _await_publication has its envelope: cancelled or not, the state follows.
Commit(o) ==
  /\ lock.by = o /\ Over(lock.at)
  /\ entries' = After(lock)
  /\ lock' = Free

=============================================================================
