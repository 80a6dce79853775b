----------------------------- MODULE EventOrder -----------------------------
(***************************************************************************)
(* What a session's event hub promises (SessionEventHub, runtime.py): the  *)
(* places of one order are given out one by one, some of them before there *)
(* is anything to put there, and they are passed strictly in that order,   *)
(* each only once it is filled or given up.                                *)
(*                                                                         *)
(* EventHub implements this; the REPL's coordinator (module Foreground) is *)
(* built on it.                                                            *)
(***************************************************************************)
EXTENDS Naturals

VARIABLES
  given,    \* the last place given out
  reserved, \* places given to a key press that has published nothing yet
  filled,   \* places with an event that is not delivered yet
  dropped,  \* reserved places that were given up and are not passed yet
  next      \* the place the order stands at

vars == <<given, reserved, filled, dropped, next>>

Init ==
  /\ given = 0 /\ next = 1
  /\ reserved = {} /\ filled = {} /\ dropped = {}

\* reserve_sequence
Reserve ==
  /\ given' = given + 1
  /\ reserved' = reserved \cup {given + 1}
  /\ UNCHANGED <<filled, dropped, next>>

\* publish without a reserved place
Place ==
  /\ given' = given + 1
  /\ filled' = filled \cup {given + 1}
  /\ UNCHANGED <<reserved, dropped, next>>

\* publish with one
Fill(n) ==
  /\ n \in reserved
  /\ reserved' = reserved \ {n}
  /\ filled' = filled \cup {n}
  /\ UNCHANGED <<given, dropped, next>>

\* discard_reserved_sequence
Drop(n) ==
  /\ n \in reserved
  /\ reserved' = reserved \ {n}
  /\ dropped' = dropped \cup {n}
  /\ UNCHANGED <<given, filled, next>>

\* The event of the place the order stands at is over: delivered, or given up
\* because the publisher that was delivering it was cancelled.
Settle ==
  /\ next \in filled
  /\ filled' = filled \ {next}
  /\ next' = next + 1
  /\ UNCHANGED <<given, reserved, dropped>>

\* A place that was given up is passed over.
Skip ==
  /\ next \in dropped
  /\ dropped' = dropped \ {next}
  /\ next' = next + 1
  /\ UNCHANGED <<given, reserved, filled>>

Next ==
  \/ Reserve \/ Place \/ Settle \/ Skip
  \/ \E n \in reserved : Fill(n) \/ Drop(n)

Spec == Init /\ [][Next]_vars

=============================================================================
