-------------------------- MODULE MCTorrentService --------------------------
(* TorrentService for TLC: interchangeable threads and files. *)
EXTENDS TorrentService, TLC

Symmetry == Permutations(Threads) \cup Permutations(Hashes)
=============================================================================
