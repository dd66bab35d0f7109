------------------------ MODULE MCSnowflakeGenerator ------------------------
(* A small instance of SnowflakeGenerator: two bits for each of the lower *)
(* fields.                                                                *)
EXTENDS SnowflakeGenerator
=============================================================================
