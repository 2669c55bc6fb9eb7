SPECIFICATION MCSpec
CONSTANTS
  Strays = {s1, s2}
  Ops = {"echo", "drain", "batch", "command", "telemetry", "shutdown"}
  MaxCalls = 3
  None = None
  NonFinite = NonFinite
  mixture = mixture
INVARIANTS
  NoOrphan
  AnswersMatch
PROPERTIES
  FailsClosed
  CallsEnd
  ReactionsEnd
CHECK_DEADLOCK FALSE
