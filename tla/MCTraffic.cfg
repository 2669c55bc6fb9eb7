SPECIFICATION MCSpec
CONSTANTS
    Handles = {h1, h2}
    Values <- MCValues
    Valid <- MCValid
    Traceless <- MCTraceless
    MaxRevision = 1
    ChunkLen = 1
    MaxBatch = 2
    MaxUploadId = 2
    MaxCalls = 3
INVARIANTS
  WireExact
  ListsExact
PROPERTIES
  UploadWhole
CHECK_DEADLOCK FALSE
