SPECIFICATION Spec
CONSTANTS
  Requests = {r1, r2, r3}
  Uploads = {u1}
  PartNumbers = {n1, n2}
  Keys = {k1}
  Faults = {}
  None = None
  Old = Old
  Stray = Stray
SYMMETRY Symmetry
INVARIANTS
  CompletedPartsExist
