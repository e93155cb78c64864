\* Two requests out of every operation, on two buckets and two sources.
CONSTANTS
  Requests = {r1, r2}
  Owner = owner
  Guest = guest
  Sources = {s1, s2}
  Buckets = {b1, b2}
  Home = b1
  Ops = {"createBucket", "deleteBucket", "deleteSource", "put", "copy",
         "deleteObject", "download", "deleteFiles", "share", "unshare",
         "read", "grant", "setRole", "revoke"}
  Faults = {"meta", "reply", "source"}
  Stray = stray
  None = None
SPECIFICATION Spec
SYMMETRY Symmetry
INVARIANTS
  TypeOK
  BucketSourcesExist
  DeletionIsComplete
  NoStrayChunks
  LinksResolve
  FilesReadable
PROPERTIES
  RetryableDeletion
  OnlyAuthorizedEffects
