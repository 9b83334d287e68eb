--------------------------- MODULE MCWindowCache ---------------------------
(* Small plans for WindowCache: a video rendition larger than all the      *)
(* others together, as in the field.                                       *)
EXTENDS WindowCache, TLC

MCBytes == [n \in Windows |-> [t \in Tracks |-> IF t \in Video THEN 5 ELSE 1]]
MCNoCap      == <<0>>
MCOneThenTwo == <<1, 2>>
MCBudgets    == {0, 7, -1}
Symmetry == Permutations(Requests)
=============================================================================
