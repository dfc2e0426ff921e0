SPECIFICATION Spec
CONSTANTS
  Threads = {t1, t2}
  Files = {f, g}
  None = None
  MaxWrites = 2
SYMMETRY Symmetry
INVARIANTS
  TypeOK
  DigestTrue
