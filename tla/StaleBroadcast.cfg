SPECIFICATION Spec
CONSTANTS
  Callers = {c1, c2}
  MaxConns = 1
  MaxSessions = 2
  MaxScripts = 2
  MaxBatches = 2
INVARIANT BroadcastIsCurrent
CHECK_DEADLOCK FALSE
