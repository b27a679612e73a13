CONSTANTS
  c1 = c1  c2 = c2
  a1 = a1  a2 = a2
  plain = plain  dotted = dotted
  Clients = {c1, c2}
  Scheduler = scheduler
  Databases <- MCOneConnection
  Names <- MCNames
  FilePart <- MCFilePart
  Inputs <- MCInputs
  Default <- MCDefault
  Horizon = 1
  MaxCrashes = 1
  Absent = absent  Cut = cut  Torn = torn
  None = none
SPECIFICATION Spec
INVARIANTS
  SettingsStay
  FailureIsReported
PROPERTY RunKeepsItsDumps
SYMMETRY MCSymmetry
CHECK_DEADLOCK FALSE
