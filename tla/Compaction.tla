----------------------------- MODULE Compaction -----------------------------
(***************************************************************************)
(* What compact_context makes of a history (axio/compaction.py): a summary *)
(* of the old messages, an acknowledgement, and the recent ones verbatim.  *)
(*                                                                         *)
(* A message is a record with its kind and its id.  A summary carries the  *)
(* messages it stands for; what a provider writes about them is left out.  *)
(***************************************************************************)
EXTENDS Integers, SequencesExt

Summary(old) == [kind |-> "summary", id |-> 0, of |-> old]
Acknowledgement == [kind |-> "ack", id |-> 0, of |-> <<>>]

\* Stops at the first boundary it tries, wherever that is.
SafeBoundaryMutant(history, keep) == Len(history) - keep

\* _find_safe_boundary: walks down from the wanted split while the first kept
\* message would be a result, so that no result is kept without its call.
SafeBoundary(history, keep) ==
    LET wanted == Len(history) - keep
        down[split \in 0..Len(history)] ==
            IF split > 0 /\ history[split + 1].kind = "result" THEN down[split - 1] ELSE split
    IN IF wanted > 0 THEN down[wanted] ELSE wanted

\* compact_context gives up (None) on a history too short to split.
TooShort(history, keep) == SafeBoundary(history, keep) <= 0

\* The list compact_context returns when the summary succeeds.
Compacted(history, keep) ==
    LET split == SafeBoundary(history, keep)
    IN <<Summary(SubSeq(history, 1, split)), Acknowledgement>>
         \o SubSeq(history, split + 1, Len(history))

=============================================================================
