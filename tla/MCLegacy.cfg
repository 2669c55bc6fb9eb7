SPECIFICATION MCSpec
CONSTANTS
  Objects = {o1, o2, o3}
  Turfs = {t1, t2}
  MaxSlots = 5
  MaxSpare = 2
  MaxNested = 2
  Senders = {"thread"}
  Sizes = {1, 2}
  MaxItems = 2
  MaxBytes = 3
  MaxQueued = 4
  MaxWorlds = 2
INVARIANTS
  HeatThreadSound
  LocksSound
  ChannelSound
PROPERTIES
  SlotsSound
  LegacyEnds
CHECK_DEADLOCK FALSE
