--------------------------- MODULE MCCircuitBreaker -------------------------
(* Small instances of CircuitBreaker.  Threads are model values; no symmetry, *)
(* because the runs check liveness.                                           *)
EXTENDS CircuitBreaker
=============================================================================
