---------------------------- MODULE StoreLedger -----------------------------
(***************************************************************************)
(* What a conversation store owes its callers (axio/context.py): every     *)
(* call changes the sessions as a whole or not at all, and at most once.   *)
(*                                                                         *)
(* store holds, for each session, its messages and its token count; called *)
(* lists the calls that were ever made, and story those that took effect,  *)
(* in the order in which they did.                                         *)
(***************************************************************************)
EXTENDS Naturals, SequencesExt

CONSTANT Before     \* the sessions at the start

VARIABLES store, called, story

\* What a call leaves of the sessions.  A fork copies the messages behind what
\* its fresh session has, which is nothing.
Effect(call, sessions) ==
    LET s == call.session
    IN CASE call.op = "append" ->
              [sessions EXCEPT ![s].messages = @ \o call.messages]
         [] call.op = "clear" ->
              [sessions EXCEPT ![s] = [messages |-> <<>>, tokens |-> 0]]
         [] call.op = "fork" ->
              [sessions EXCEPT ![call.to] = sessions[s]]
         [] call.op = "set" ->
              [sessions EXCEPT ![s].tokens = call.tokens]
         [] call.op = "add" ->
              [sessions EXCEPT ![s].tokens = @ + call.tokens]

Init ==
    /\ store = Before
    /\ called = <<>>
    /\ story = <<>>

Ask ==
    /\ Len(called') = Len(called) + 1
    /\ IsPrefix(called, called')
    /\ UNCHANGED <<store, story>>

TakeEffect ==
    /\ \E n \in DOMAIN called \ ToSet(story) :
         /\ store' = Effect(called[n], store)
         /\ story' = Append(story, n)
    /\ UNCHANGED called

Next == Ask \/ TakeEffect

Spec == Init /\ [][Next]_<<store, called, story>>

=============================================================================
