SPECIFICATION Spec
CONSTANTS
  Imports = {i1, i2, i3}
  Builds = {b1, b2}
  None = None
  Torn = Torn
  ImportsAlone = FALSE
SYMMETRY Symmetry
INVARIANT
  FailedImportPreserves
CHECK_DEADLOCK FALSE
