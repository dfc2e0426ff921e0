-------------------------- MODULE MC_ProviderBinding --------------------------
(* Small instances of ProviderBinding for TLC.                             *)
EXTENDS ProviderBinding, TLC

(* Models, texts and builds are interchangeable.                           *)
Symmetry == Permutations(Models) \cup Permutations(Texts) \cup Permutations(Builds)
===============================================================================
