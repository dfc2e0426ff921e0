--------------------------- MODULE MC_SnapshotStore ---------------------------
(* Small instances of SnapshotStore for TLC.                               *)
EXTENDS SnapshotStore, TLC

(* Builds and requests are interchangeable: no action tells two apart.     *)
Symmetry == Permutations(Builds) \cup Permutations(Requests)
===============================================================================
