-------------------------------- MODULE MCReport --------------------------------
(* Report for TLC: the bounds are those of the configuration. *)
EXTENDS Report, TLC
===============================================================================
