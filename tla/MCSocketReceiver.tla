-------------------------- MODULE MCSocketReceiver --------------------------
(* Model checking of SocketReceiver: a header of two bytes, so that it can be cut, and  *)
(* payload sizes below, at and above the limit.                                         *)
EXTENDS SocketReceiver

PayloadSizes == {0, 1, 3, 4}
=============================================================================
