SPECIFICATION Spec
CONSTANTS
  Callers = {c1}
  Threshold = 5
  Recovery = 2
  Retries = {3}
INVARIANTS
  HalfOpenIsProbed
