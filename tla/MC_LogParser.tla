---------------------------- MODULE MC_LogParser ----------------------------
(* Model values and symmetry for checking LogParser. *)
EXTENDS LogParser, TLC

CONSTANTS n1, n2

MCNames == {n1, n2}
NameSymmetry == Permutations(MCNames)
=============================================================================
