-------------------------- MODULE MCSearchPipeline --------------------------
(* SearchPipeline for TLC: interchangeable threads and queries. *)
EXTENDS SearchPipeline, TLC

Symmetry == Permutations(Threads) \cup Permutations(Queries)
=============================================================================
