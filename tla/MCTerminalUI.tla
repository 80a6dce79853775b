---------------------------- MODULE MCTerminalUI ----------------------------
(***************************************************************************)
(* An instance of TerminalUI for TLC.                                      *)
(***************************************************************************)
EXTENDS TerminalUI, TLC

=============================================================================
