CONSTANTS
  Keys = {k1, k2}
  Levels = {80, 79}
  None = None
  PerSecond = 2
  MaxPublishes = 5
  MaxStamp = 2
  MaxFaults = 2
SPECIFICATION Spec
SYMMETRY Symmetry
INVARIANTS
  MirroredWhenIdle
  PathsNeverReused
  FollowersInSync
PROPERTIES
  ServedBeforeListed
CHECK_DEADLOCK FALSE
