---------------------------- MODULE MCForeground ----------------------------
(* Instances of Foreground.                                                *)
EXTENDS Foreground, TLC

CONSTANTS p1, x1, x2

Typed == 1..4
OneInput == {1}
OnePeer == {p1}
TwoEscapes == {x1, x2}
Interchangeable == Permutations(Escapes)

=============================================================================
