---------------------------- MODULE MCWorkerPool ----------------------------
(* Instances of WorkerPool for TLC. *)
EXTENDS WorkerPoolRefinement, TLC

PoolSymmetry == Permutations(Workers) \cup Permutations(Tasks)
=============================================================================
