SPECIFICATION Spec
CONSTANTS
  Requests = {r1, r2, r3}
  Uploads = {u1}
  PartNumbers = {n1, n2}
  Keys = {k1}
  Faults = {"source", "meta", "reply", "crash"}
  None = None
  Old = Old
  Stray = Stray
SYMMETRY Symmetry
INVARIANTS
  TypeOK
  CompletedObjectsReadable
  NoPartLost
  RecordedPartsKept
  NoSilentLeak
