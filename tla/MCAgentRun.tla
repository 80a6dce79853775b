----------------------------- MODULE MCAgentRun -----------------------------
(***************************************************************************)
(* Instances of AgentRun for TLC.                                          *)
(***************************************************************************)
EXTENDS AgentRunProperties, TLC

\* Calls are interchangeable: no definition tells one from another.
Symmetry == Permutations(Calls)

=============================================================================
