--------------------------- MODULE MCTempOutput ---------------------------
(***************************************************************************)
(* Three runs on one output. They differ by their kind only, so they are   *)
(* interchangeable.                                                        *)
(***************************************************************************)
EXTENDS TempOutput, TLC

Symmetry == Permutations(Runs)

=============================================================================
