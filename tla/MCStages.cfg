SPECIFICATION MCSpec
CONSTANTS
  Mixtures = {"m1", "m2", "m3"}
  Immutable = {"m3"}
  NoMixture = "none"
  Home <- RowHome
  GasNeighbors <- RowEdges
  Frontiers <- RowFrontiers
  Kinds = {"ProcessTurfs", "React"}
  MaxTokens = 5
  MaxCommands = 1
  MaxRevision = 3
  MaxEvents = 1
  MaxContinuations = 1
INVARIANTS
  GasStagesSound
PROPERTIES
  AtomicSpec
  RevisionTellsContents
  StagesEnd
  HeatStagesSound
  StorageIsMap
CHECK_DEADLOCK FALSE
