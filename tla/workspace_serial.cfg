SPECIFICATION Spec
CONSTANTS
  Imports = {i1, i2, i3}
  Builds = {b1, b2}
  None = None
  Torn = Torn
  ImportsAlone = TRUE
SYMMETRY Symmetry
INVARIANTS
  TypeOK
  FailedImportPreserves
  BuildsReadSuccess
PROPERTY ImplementsRegister
CHECK_DEADLOCK FALSE
