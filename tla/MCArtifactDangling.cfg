\* An upload reuses an orphan that a garbage collection is about to delete.
CONSTANTS
  a1 = a1
  a2 = a2
  c1 = c1
  c2 = c2
  Artifacts = {a1, a2}
  Chunks = {c1, c2}
  ChunksOf <- MCChunksOf
  Uploaders = {u1, u2}
  Collectors = {g1}
  NoArtifact = NoArtifact
  Retention = 2
  ScanTime = 1
  MaxTime = 4
SYMMETRY UploadSymmetry
SPECIFICATION StoreSpec
PROPERTIES
  FinalizedStaysReadable
CHECK_DEADLOCK FALSE
