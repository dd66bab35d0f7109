--------------------------- MODULE MCServiceToken ---------------------------
(* Small instances of ServiceToken.  Callers are model values; no symmetry, *)
(* because the run checks liveness.                                         *)
EXTENDS ServiceToken
=============================================================================
