------------------------------ MODULE MCClient ------------------------------
(* A few runs and two replays side by side. *)
EXTENDS Client, TLC
CONSTANTS p1, p2
MCSlots == {p1, p2}
Symmetry == Permutations(MCSlots)
=============================================================================
