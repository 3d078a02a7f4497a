------------------------------ MODULE MCJobQueue ------------------------------
(* JobQueue on a small instance.                                               *)
EXTENDS JobQueue, TLC

Symmetry == Permutations(Worker)
================================================================================
