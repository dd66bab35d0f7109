--------------------------- MODULE MCBackground ---------------------------
(* Small instances of Background: two units, two handlers of which one      *)
(* enqueues tasks, one worker.                                              *)
EXTENDS Background, TLC
Symmetry == Permutations(Units)
=============================================================================
