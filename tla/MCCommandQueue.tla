-------------------------- MODULE MCCommandQueue --------------------------
(* CommandQueue for TLC: the API requests are interchangeable.             *)
EXTENDS CommandQueue, TLC

Symmetry == Permutations(Task)
=============================================================================
