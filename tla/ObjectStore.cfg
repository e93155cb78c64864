SPECIFICATION Spec
CONSTANTS
  Requests = {r1, r2, r3}
  Keys = {k1, k2}
  MaxChunks = 2
  Ops = {"put", "copy", "delete", "get"}
  Faults = {"source", "meta", "reply"}
  None = None
SYMMETRY Symmetry
INVARIANTS
  TypeOK
  StoredObjectsReadable
  NoSilentLeak
PROPERTIES
  BrokenReadsAreOvertaken
