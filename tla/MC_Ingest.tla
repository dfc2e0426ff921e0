------------------------------- MODULE MC_Ingest -------------------------------
(* Small instances of Ingest for TLC.                                      *)
EXTENDS Ingest

CONSTANTS p1, p2, a

(* A manifest of text a lists the file spec, another one lists none.       *)
SpecsOf == [t \in Texts |-> IF t = a THEN {"spec"} ELSE {}]

(* The registry is configured after the directories, or before them.       *)
Configurations == {<<p1, p2, Registry>>, <<Registry, p1, p2>>}

(* Both directories hold the same package at first.                        *)
AllOfA == {[f \in Files |-> a]}
================================================================================
