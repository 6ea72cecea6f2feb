------------------------------ MODULE MCTaskQueue ------------------------------
(* TaskQueue for TLC: symmetric model values for the task ids and the chats. *)
EXTENDS TaskQueue, TLC

Symmetry == Permutations(Tasks \ Legacy) \union Permutations(Chats)
===============================================================================
