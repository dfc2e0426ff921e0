------------------------------- MODULE MC_Search -------------------------------
(* Small instances of Search for TLC.                                      *)
EXTENDS Search, TLC

(* Providers and corpora are interchangeable.                              *)
Symmetry == Permutations(Providers) \cup Permutations(Corpora)
===============================================================================
