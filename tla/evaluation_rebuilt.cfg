SPECIFICATION Spec
CONSTANTS
  Models = {m1, m2}
  Corpora = {c1, c2}
  QuerySets = {q1, q2}
  None = None
  MaxSnapshots = 3
  DevQueries = 2
  TestQueries = 1
  CalibratesAlone = FALSE
SYMMETRY Symmetry
INVARIANT
  ReportCalibratedHere
