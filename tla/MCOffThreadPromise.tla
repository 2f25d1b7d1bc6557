------------------------- MODULE MCOffThreadPromise -------------------------
(* OffThreadPromise for TLC: no symmetry, the run checks liveness.         *)
EXTENDS OffThreadPromise

=============================================================================
