SPECIFICATION Spec
CONSTANTS
  Models = {m1, m2, m3}
  Texts = {t1, t2}
  Builds = {b1, b2}
  Queries = {q1}
  None = None
  MayRevert = TRUE
SYMMETRY Symmetry
INVARIANT
  IndexUnmixed
