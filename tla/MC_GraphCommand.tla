--------------------------- MODULE MC_GraphCommand ---------------------------
(* Model values and symmetry for checking GraphCommand. *)
EXTENDS GraphCommand, TLC

CONSTANTS n1, n2, g1, g2

MCNames == {n1, n2}
NameSymmetry == Permutations(MCNames)
=============================================================================
