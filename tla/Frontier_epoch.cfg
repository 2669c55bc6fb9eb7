SPECIFICATION Spec
CONSTANTS
  Slots = {0}
  Generations = {1}
  MaxEpoch = 2
  MaxBatch = 1
  MaxLength = 1
  StageIds = {s1}
  NoStage = NoStage
  NoView = NoView
INVARIANT CommittedEpochNewest
CHECK_DEADLOCK FALSE
