----------------------------- MODULE MCWasmModule -----------------------------
(* WasmModule for TLC: no symmetry, the runs check liveness.               *)
EXTENDS WasmModule

=============================================================================
