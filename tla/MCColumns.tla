----------------------------- MODULE MCColumns -----------------------------
(* Model checking of Columns: two windows, three columns, whose default order is not that of *)
(* the model, and up to three changes.                                                       *)
EXTENDS Columns
ThreeWidths == [c \in 0..2 |-> 100]
ShiftedOrder == <<0, 2, 1>>
SameWindows == Permutations(Windows)
=============================================================================
