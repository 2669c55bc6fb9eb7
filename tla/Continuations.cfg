SPECIFICATION Spec
CONSTANTS
  Mixtures = {0, 1}
  Turfs = {0, 1}
  Generations = {1, 2}
  MaxContinuations = 2
  MaxGeneration = 2
  MaxSlots = 3
  None = None
INVARIANTS
  TypeOK
  TableSound
  ContinuationsCurrent
PROPERTY TokensSingleUse
CHECK_DEADLOCK FALSE
