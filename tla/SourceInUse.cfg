\* A source is deleted that an object copied to another bucket lies on.
CONSTANTS
  Requests = {r1, r2}
  Owner = owner
  Guest = guest
  Sources = {s1, s2}
  Buckets = {b1, b2}
  Home = b1
  Ops = {"copy", "deleteBucket", "deleteSource"}
  Faults = {}
  Stray = stray
  None = None
SPECIFICATION Spec
INVARIANT SourcesInUseStay
