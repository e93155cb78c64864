SPECIFICATION Spec
CONSTANTS
  Requests = {r1, r2, r3}
  Keys = {k1, k2}
  MaxChunks = 2
  Ops = {"put", "delete", "get"}
  Faults = {"source", "meta", "crash"}
  None = None
SYMMETRY Symmetry
INVARIANTS
  NoDangling
PROPERTIES
  ImplementsPromise
