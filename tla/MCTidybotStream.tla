--------------------------- MODULE MCTidybotStream --------------------------
(* Small instances of TidybotStream for TLC. *)
EXTENDS TidybotStream, TLC

CONSTANTS c1, c2
CallerSymmetry == Permutations(Callers)
============================================================================
