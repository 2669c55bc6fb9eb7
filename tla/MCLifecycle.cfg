SPECIFICATION MCSpec
CONSTANTS
  MixtureSlots = {1, 2}
  TurfSlots = {1, 2}
  MaxGeneration = 1
  MaxTurfNeighbors = 1
  RevisionWrap = 1
  ReplacesLive = FALSE
  FailingBatches = FALSE
  BatchSlots = {1, 2, 3}
  BatchNeighbors = 2
  MaxBatch = 2
INVARIANTS
  HandlesCurrent
  TurfsExact
  GraphFresh
  BatchApplied
PROPERTIES
  StageSeesFixedWorld
