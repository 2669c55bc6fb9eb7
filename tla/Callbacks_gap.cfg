SPECIFICATION ServiceSpec
CONSTANTS
  Mixtures = {0}
  Turfs = {0}
  Generations = {1}
  MaxContinuations = 2
  MaxGeneration = 2
  MaxSlots = 2
  None = None
  MaxCallbacks = 3
  MaxTransactions = 2
  Timeout = 1
  MaxNative = 1
  MaxNow = 2
  MaxIds = 2
  MaxSequence = 3
  ClientReplaces = FALSE
INVARIANT BatchesAccepted
CHECK_DEADLOCK FALSE
