-------------------------- MODULE MCFilteredTable --------------------------
(* Model checking of FilteredTable: two kinds of entries, peeking at one row on each side. *)
EXTENDS FilteredTable, TLC

KindSymmetry == Permutations(Kinds)
=============================================================================
