----------------------------- MODULE MCWritePhase ------------------------------
(* WritePhase for TLC: tasks and paths are interchangeable. *)
EXTENDS WritePhase, TLC

Symmetry == Permutations(Tasks) \union Permutations(Files)
===============================================================================
