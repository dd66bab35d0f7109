------------------------ MODULE MCGenerateSnowflake ------------------------
(* Small instances of GenerateSnowflake. *)
EXTENDS GenerateSnowflake, TLC

Symmetry == Permutations(Calls)
=============================================================================
