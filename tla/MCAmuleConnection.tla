-------------------------- MODULE MCAmuleConnection --------------------------
(* AmuleConnection for TLC: interchangeable threads. *)
EXTENDS AmuleConnection, TLC

Symmetry == Permutations(Threads)
=============================================================================
