SPECIFICATION ServiceSpec
CONSTANTS
  Mixtures = {0}
  Turfs = {0}
  Generations = {1, 2}
  MaxContinuations = 1
  MaxGeneration = 2
  MaxSlots = 1
  None = None
  MaxCallbacks = 2
  MaxTransactions = 2
  Timeout = 1
  MaxNative = 1
  MaxNow = 1
  MaxIds = 2
  MaxSequence = 3
  ClientReplaces = TRUE
INVARIANT NothingStranded
CHECK_DEADLOCK FALSE
