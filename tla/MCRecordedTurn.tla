--------------------------- MODULE MCRecordedTurn ---------------------------
(***************************************************************************)
(* A turn of two rounds with a queue that can overflow.                    *)
(***************************************************************************)
EXTENDS RecordedTurn

=============================================================================
