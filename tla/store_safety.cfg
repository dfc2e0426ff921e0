SPECIFICATION Spec
CONSTANTS
  Builds = {b1, b2, b3}
  Requests = {r1, r2}
  MaxReads = 2
  None = None
  Torn = Torn
SYMMETRY Symmetry
INVARIANTS
  TypeOK
  ActiveComplete
  OneSnapshotPerRequest
  RollbackAtMostOne
PROPERTY PublishedImmutable
