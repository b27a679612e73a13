CONSTANTS
  r1 = r1
  r2 = r2
  r3 = r3
  i1 = i1
  tA = tA
  tB = tB
  c1 = c1
  c2 = c2
  k1 = k1
  Requests = {r1, r2}
  SessionIds = {i1}
  Targets = {tA, tB}
  Conns = {c1}
  Cancels = {}
  Scripts <- MCOneWrite
  Anonymous = FALSE
  Cleaner = cleaner
  None = none
SPECIFICATION FairSpec
PROPERTIES
  Answered
  IdleIsEvicted
