------------------------ MODULE MC_CalibratedEvaluation ------------------------
(* Small instances of CalibratedEvaluation for TLC.                        *)
EXTENDS CalibratedEvaluation, TLC

(* Models, corpora and query sets are interchangeable.                     *)
Symmetry == Permutations(Models) \cup Permutations(Corpora) \cup Permutations(QuerySets)
===============================================================================
