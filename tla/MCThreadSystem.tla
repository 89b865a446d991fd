--------------------------- MODULE MCThreadSystem ---------------------------
(* Values for checking ThreadSystem. *)
EXTENDS ThreadSystem, TLC

InitValuesValue == {-1, 0, 1}
Interchangeable ==
  Permutations(Ids \ {Main}) \cup Permutations(Recs) \cup Permutations(Handles)
=============================================================================
