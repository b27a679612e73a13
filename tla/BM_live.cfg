CONSTANTS
  c1 = c1  c2 = c2
  a1 = a1  a2 = a2
  plain = plain  dotted = dotted
  Clients = {c1, c2}
  Scheduler = scheduler
  Databases <- MCOneDatabase
  Names <- MCNames
  FilePart <- MCFilePart
  Inputs <- MCInputs
  Default <- MCDefault
  Horizon = 1
  MaxCrashes = 0
  Absent = absent  Cut = cut  Torn = torn
  None = none
SPECIFICATION Spec
PROPERTY DueIsRun
CHECK_DEADLOCK FALSE
