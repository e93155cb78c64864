SPECIFICATION Spec
CONSTANTS
  Requests = {r1, r2, r3}
  Keys = {k1, k2}
  MaxChunks = 1
  Ops = {"put", "copy"}
  Faults = {}
  None = None
SYMMETRY Symmetry
INVARIANTS
  CopyPreservesBytes

