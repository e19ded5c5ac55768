---------------------------- MODULE MCKadSession ----------------------------
(* KadSession for TLC: interchangeable threads and timer objects. *)
EXTENDS KadSession, TLC

Symmetry == Permutations(Threads) \cup Permutations(Timers)
=============================================================================
