--------------------------- MODULE MCLivePipeline ---------------------------
(* Model checking of LivePipeline: two peers, so that entries wait behind those of another,  *)
(* and messages longer than the limit of the table, as long and shorter.                     *)
EXTENDS LivePipeline
=============================================================================
