SPECIFICATION Spec
CONSTANTS
  Paths = {p1, p2}
  Files = {"manifest", "spec"}
  Manifest = "manifest"
  Subdirectories = {{"spec"}}
  Versions = {v1}
  Texts = {a, b}
  a = a
  Specs <- SpecsOf
  Absent = Absent
  MaxListed = 2
  Bad = Bad
  None = None
  Registry = Registry
  p1 = p1
  p2 = p2
  Sources <- Configurations
  Originals <- AllOfA
  MaxChanges = 2
INVARIANTS
  TypeOK
  DigestedIsValid
  ImportAccounted
  StableVerdict
  VerdictWitnessed
PROPERTY
  CallsEnd
CHECK_DEADLOCK FALSE
