----------------------------- MODULE MCOutbound -----------------------------
(* A small instance of Outbound.  Callers are model values, and so is Nobody; *)
(* no symmetry, because the run checks liveness.                              *)
EXTENDS Outbound
=============================================================================
