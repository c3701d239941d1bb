-------------------------- MODULE MCFilteredSource --------------------------
(* Model checking of FilteredSource: items with and without a string of their own, siblings *)
(* on two levels, and a path of three items; one entry asked for at a time.                 *)
EXTENDS FilteredSource

SmallStrings == {<<2>>, <<1>>, <<1, 1, 1>>}
=============================================================================
