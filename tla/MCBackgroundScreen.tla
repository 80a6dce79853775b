------------------------- MODULE MCBackgroundScreen -------------------------
(***************************************************************************)
(* An instance of BackgroundScreen for TLC: one session of prose, one of   *)
(* actions.                                                                *)
(***************************************************************************)
EXTENDS BackgroundScreen

None == [k \in Kinds |-> 0]

\* Prose; what the user does meanwhile; many calls at once; odd events and
\* other modes; the ends of calls, turns and agents; a change of focus.
MCPlans ==
  {[None EXCEPT !["turn"] = 2, !["text"] = 3, !["toggle"] = 1, !["insert"] = 1, !["reason"] = 1],
   [None EXCEPT !["turn"] = 2, !["text"] = 2, !["focus"] = 1, !["cut"] = 1, !["toggle"] = 1],
   [None EXCEPT !["turn"] = 2, !["call"] = 3, !["result"] = 3],
   [None EXCEPT !["turn"] = 1, !["call"] = 2, !["result"] = 2, !["odd"] = 1, !["output"] = 1,
                !["toggle"] = 1, !["input"] = 1],
   [None EXCEPT !["turn"] = 2, !["call"] = 2, !["result"] = 1, !["cut"] = 1, !["stop"] = 1],
   [None EXCEPT !["turn"] = 2, !["call"] = 2, !["result"] = 1, !["focus"] = 1, !["toggle"] = 1]}
\* A result of a line, and one whose frame has to be cut.
MCBodySizes == {1, 3}

\* The two agents play the same part, and so do the ids.
Symmetry == Permutations(Agents) \cup Permutations(Ids)

=============================================================================
