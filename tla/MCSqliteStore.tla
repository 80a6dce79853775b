--------------------------- MODULE MCSqliteStore ----------------------------
(***************************************************************************)
(* Two tasks on one connection: an agent whose store compacts itself, and  *)
(* another one that has a store of the same session and one of its own.    *)
(* The compaction and a caller may each make a fork.                       *)
(***************************************************************************)
EXTENDS SqliteStoreProperties

CONSTANTS agent, other, main, side, spare, another

TheTasks == {agent, other}
TheSessions == {main, side, spare, another}
TheBound == (agent :> {main}) @@ (other :> {main, side})

\* A history with a call in it: the boundary for one kept message would fall
\* between the call and its result.
TheBefore ==
  [s \in TheSessions |->
     [messages |-> IF s = main
                   THEN <<[kind |-> "text", id |-> 101], [kind |-> "call", id |-> 102],
                          [kind |-> "result", id |-> 102]>>
                   ELSE <<>>,
      tokens |-> 0]]

\* Which of the two unused ids a fork is given makes no difference.
Symmetry == Permutations({spare, another})

=============================================================================
