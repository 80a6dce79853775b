----------------------------- MODULE ToolCalls ------------------------------
(***************************************************************************)
(* ToolCallRegistry (axio_repl/_tool_calls.py): the ordinals under which   *)
(* the screen shows a session's tool calls and their results.  A registry  *)
(* is a record; every operator is one method.  A key is the agent, the     *)
(* turn and the provider's id of a call.                                   *)
(***************************************************************************)
EXTENDS Integers, Functions, TLC

NoCalls == [active |-> << >>, deferred |-> << >>, next |-> 1]

Without(f, keys) == Restrict(f, DOMAIN f \ keys)

Allocate(c, key, name) ==
  [c EXCEPT !.active = (key :> [ordinal |-> c.next, name |-> name]) @@ @,
            !.next = @ + 1]

\* start: a call that is already known keeps its ordinal.
StartCall(c, key, name) ==
  IF key \in DOMAIN c.active THEN c ELSE Allocate(c, key, name)

\* result: the call it answers, or a call made up for an orphan.
Orphan(c, key) == key \notin DOMAIN c.active
AnsweredByName(c, key, name) ==  \* mutant: another name is another call
  IF Orphan(c, key) \/ c.active[key].name # name THEN Allocate(c, key, name) ELSE c

Answered(c, key, name) == IF Orphan(c, key) THEN Allocate(c, key, name) ELSE c
Mismatch(c, key, name) == ~ Orphan(c, key) /\ c.active[key].name # name

CompleteCall(c, key) == [c EXCEPT !.active = Without(@, {key})]

\* defer: the ordinal outlives its interrupted turn ...
DeferCall(c, key) ==
  IF Orphan(c, key) THEN c
  ELSE [c EXCEPT !.active = Without(@, {key}),
                 !.deferred = (key :> c.active[key]) @@ @]

\* ... until the deferred result takes it.
TakeDeferred(c, key) == [c EXCEPT !.deferred = Without(@, {key})]

DiscardTurnCalls(c, agent, turn) ==
  [c EXCEPT !.active = Without(@, {k \in DOMAIN @ : k.agent = agent /\ k.turn = turn})]
DiscardAgentCalls(c, agent) ==
  [c EXCEPT !.active = Without(@, {k \in DOMAIN @ : k.agent = agent})]

=============================================================================
