SPECIFICATION Spec
CONSTANTS
  Keys = {k1, k2}
  Callers = {c1, c2}
  Rate = 1
  Cost = 1
  Capacity = 2
  TTL = 3
  CleanupInterval = 2
  CleanupCalls = 3
  MaxPause = 1
  MaxTime = 6
SYMMETRY Alike
INVARIANTS
  TypeOK
  HeldIsCurrent
PROPERTIES
  ImplementsRateLimit
CHECK_DEADLOCK FALSE
