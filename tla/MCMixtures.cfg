SPECIFICATION MCSpec
CONSTANTS
  None = None
  NonFinite = NonFinite
  MaxGasSlots = 5
  BurnScale = 2
  F32Exact = 3
  F32Max = 8
  Mixtures = {m1}
  GasBatches <- MCGasBatches
  ReactionBatches <- MCReactionBatches
  MaxMoles = 2
  MinimumCalculated = 2
  Supplied = {0, 1}
  MaxTemperature = 1
  MaxRevision = 1
  MaxEvents = 3
  Overflows = TRUE
  Limits = {1, 3}
  MaxPasses = 2
  Handles = {m1, m2}
  Gases = {1, 2}
  SpecificHeat <- MCSpecificHeat
  Accuracy = 2
  MinimumMoles = 4
  FloatMax = 20
  RevisionMax = 2
  MinimumTemperature = 2
  Ratios <- MCRatios
  Amounts = {3, 7}
  Deltas <- MCDeltas
  Temperatures = {2, 6}
  Heats <- MCHeats
  Volumes = {0, 2}
  Capacities = {0, 8}
  InitialMoles = {0, 7}
  MaxCommands = 2
INVARIANTS
  PassOrdered
PROPERTIES
  CommandsConserve
  UploadFresh
  AnnouncedReactable
CHECK_DEADLOCK FALSE
