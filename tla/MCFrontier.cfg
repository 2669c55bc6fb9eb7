SPECIFICATION Spec
CONSTANTS
  Slots = {0, 1}
  Generations = {1, 2}
  MaxEpoch = 3
  MaxBatch = 2
  MaxLength = 2
  StageIds = {s1}
  NoStage = NoStage
  NoView = NoView
  MaxUploadEpoch = 2
CONSTRAINT Workload
INVARIANTS
  TypeOK
  StoreSound
  UploadAccounted
  ViewSound
PROPERTY SnapshotSpec
CHECK_DEADLOCK FALSE
