SPECIFICATION Spec
CONSTANTS
  Callers = {c1, c2, c3}
  Threshold = 3
  Recovery = 2
  Retries = {0, 1, 2}
INVARIANTS
  TypeOK
  ClosedBelowThreshold
  ProbeDecidedWithoutRetries
PROPERTIES
  RecoveredSourceReadmitted
