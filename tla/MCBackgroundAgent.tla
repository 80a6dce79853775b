-------------------------- MODULE MCBackgroundAgent --------------------------
(***************************************************************************)
(* Instances of BackgroundAgent for TLC.                                   *)
(***************************************************************************)
EXTENDS BackgroundAgentProperties, TLC

\* Besides the first task one input arrives, of any kind: it waits in the
\* inbox while the first turn runs, and the detached call of either turn adds
\* a third.
OneComes == Init /\ Cardinality({x \in Inputs : sent[x] = "unsent"}) = 1

FairOneComes == OneComes /\ [][Next]_vars /\ Fairness

=============================================================================
