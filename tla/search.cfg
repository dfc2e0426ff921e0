SPECIFICATION Spec
CONSTANTS
  Providers = {m1, m2}
  Corpora = {c1, c2}
  Records = {1, 2, 3}
  DevQueries = {n1, n2, p1, p2}
  Negatives = {n1, n2}
  None = None
  MaxHits = 3
  MaxScore = 2
  TopK = 2
  LimitNum = 1
  LimitDen = 2
  MaxPublications = 1
  MaxCalibrations = 1
SYMMETRY Symmetry
INVARIANTS
  TypeOK
  RankingFair
  DegradedIsLexical
  StrengthFollowsSimilarity
  ThresholdOptimal
  NegativesBounded
