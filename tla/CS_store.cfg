CONSTANTS
  r1 = r1  r2 = r2  r3 = r3
  i1 = i1  i2 = i2
  eA = eA  eB = eB
  Requests = {r1, r2}
  Ids = {i1, i2}
  Edits = {eA, eB}
  Mixed = mixed
  Boot = boot
  MaxCrashes = 2
  None = none
SPECIFICATION Spec
SYMMETRY MCSymmetry
INVARIANTS
  SecretsEncrypted
PROPERTY StoreSpec
CHECK_DEADLOCK FALSE
