SPECIFICATION FairSpec
CONSTANTS
  Builds = {b1, b2}
  Requests = {r1}
  MaxReads = 2
  None = None
  Torn = Torn
PROPERTIES
  ImplementsRegister
  BuildTerminates
  RequestTerminates
