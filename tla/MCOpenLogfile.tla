---------------------------- MODULE MCOpenLogfile ----------------------------
(* Model checking of OpenLogfile: plain files of up to six lines in packages of two, and exports  *)
(* of up to two rows whose message stands before another field, with texts that hold, end in or   *)
(* begin with a line end or a part of a separator.                                                *)
EXTENDS OpenLogfile

SmallFiles == UNION {[1..n -> BOOLEAN] : n \in 0..6}
SomeTexts == {<<>>, <<" ", "-">>, <<"x", "\n", "-">>, <<" ", "-", " ", "-", " ">>}
TwoNumbers == <<"1", "2">>
=============================================================================
