CONSTANTS
  Devnodes = {d1, d2}
  None = None
  Base = 1
  Cap = 3
  FastAttempts = 3
  Slow = 5
  HealthyRun = 4
SPECIFICATION Spec
INVARIANTS
  RecoversInTime
PROPERTIES
  QuietWhenBroken
  ImplementsOwnership
