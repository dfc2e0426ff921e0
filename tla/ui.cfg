SPECIFICATION FairSpec
CONSTANTS
  Records = {a, b, c}
  None = None
  CompareLimit = 2
  MaxSnapshots = 2
  MaxSearches = 2
  MaxClicks = 3
INVARIANTS
  TypeOK
  DetailCurrent
  ComparedCurrent
  ComparedLimited
PROPERTIES
  SearchEnabledAgain
  SlotsSettle
CHECK_DEADLOCK FALSE
