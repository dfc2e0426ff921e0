-------------------------- MODULE MC_ArtifactDigest --------------------------
(* Small instances of ArtifactDigest for TLC.                              *)
EXTENDS ArtifactDigest, TLC

(* Threads and files are interchangeable.                                  *)
Symmetry == Permutations(Threads) \cup Permutations(Files)
===============================================================================
