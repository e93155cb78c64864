\* Bodies of up to four bytes in chunks of one or two, over three sources of
\* weight one or two, with every fault, read back in every range.
CONSTANTS
  NumSources = 3
  MaxBody = 4
  ChunkSizes = {1, 2}
  MaxWeight = 2
  Faults = {"source", "timeout", "client", "body", "leave", "meta", "corrupt"}
SPECIFICATION Spec
INVARIANTS
  TypeOK
  CommittedWhole
  ProportionalPicks
  ExactAnswer
  NoWrongByte
PROPERTIES
  FailoverExhausts
  FailedUploadsClean
  EveryRequestEnds
