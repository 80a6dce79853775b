---------------------------- MODULE ProviderStream ----------------------------
(***************************************************************************)
(* What a transport promises the agent loop of one call of stream(): the   *)
(* event contract of the transports' guide.  One IterationStart first,     *)
(* every argument fragment under the id of a call that was started, every  *)
(* call started once, one IterationEnd last; or an exception after any     *)
(* number of these, and nothing more.                                      *)
(***************************************************************************)
EXTENDS Naturals, SequencesExt

VARIABLES said,   \* the events the caller has received
          over    \* "open", "ended" (IterationEnd), "raised" or "left" (the caller went)

vars == <<said, over>>

\* A sequence of events one turn may consist of.
WellFormed(events) ==
    \A i \in DOMAIN events :
        /\ (events[i].event = "IterationStart") <=> (i = 1)
        /\ events[i].event = "IterationEnd" => i = Len(events)
        /\ events[i].event = "ToolUseStart" =>
             \A j \in 1..(i - 1) : ~(events[j].event = "ToolUseStart" /\ events[j].id = events[i].id)
        /\ events[i].event = "ToolInputDelta" =>
             \E j \in 1..(i - 1) : events[j].event = "ToolUseStart" /\ events[j].id = events[i].id

Ended(events) == events # <<>> /\ Last(events).event = "IterationEnd"

Init == said = <<>> /\ over = "open"

\* The transport hands over what one payload became.
Say == /\ over = "open"
       /\ IsStrictPrefix(said, said')
       /\ WellFormed(said')
       /\ over' = IF Ended(said') THEN "ended" ELSE "open"

\* The transport raises, after the events that came before the failure.
Raise == /\ over = "open"
         /\ IsPrefix(said, said')
         /\ WellFormed(said') /\ ~Ended(said')
         /\ over' = "raised"

\* The caller closes the stream.
Leave == over = "open" /\ over' = "left" /\ UNCHANGED said

Next == Say \/ Raise \/ Leave

Spec == Init /\ [][Next]_vars
=============================================================================
