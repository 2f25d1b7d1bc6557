-------------------------- MODULE MCGCParallelTask --------------------------
(* GCParallelTask for TLC: no symmetry, the run checks liveness.           *)
EXTENDS GCParallelTask

=============================================================================
