---------------------------- MODULE MCCollaboration ----------------------------
(* Collaboration for TLC: symmetric model values for workflows and tasks. *)
EXTENDS Collaboration, TLC

Symmetry == Permutations(Workflows) \union Permutations(Tasks)
===============================================================================
