---------------------------- MODULE MCEd2kSession ----------------------------
(* Ed2kSession for TLC: interchangeable threads and timer objects. *)
EXTENDS Ed2kSession, TLC

Symmetry == Permutations(Threads) \cup Permutations(Timers)
=============================================================================
