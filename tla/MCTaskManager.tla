---------------------------- MODULE MCTaskManager ----------------------------
(* Instances of TaskManager for TLC. *)
EXTENDS TaskManager, TLC

Symmetry == Permutations(Tasks) \cup Permutations(Requests)
=============================================================================
