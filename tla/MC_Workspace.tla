----------------------------- MODULE MC_Workspace -----------------------------
(* Small instances of Workspace for TLC.                                   *)
EXTENDS Workspace, TLC

(* Imports are interchangeable, and builds are.                            *)
Symmetry == Permutations(Imports) \cup Permutations(Builds)
===============================================================================
