-------------------------- MODULE MCIncrementalGC ---------------------------
(* IncrementalGC for TLC: the atoms zone and one other zone.               *)
EXTENDS IncrementalGC
=============================================================================
