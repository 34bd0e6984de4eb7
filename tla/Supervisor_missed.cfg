CONSTANTS
  Devnodes = {d1}
  Keys = {k1}
  None = None
  EventCap = 1
  DoneCap = 1
  MaxSpawns = 2
  MaxChanges = 1
  MaxFaults = 0
SPECIFICATION Spec
INVARIANTS
  NothingMissed
CHECK_DEADLOCK FALSE
