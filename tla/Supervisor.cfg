CONSTANTS
  Devnodes = {d1, d2}
  Keys = {k1}
  None = None
  EventCap = 1
  DoneCap = 1
  MaxSpawns = 6
  MaxChanges = 3
  MaxFaults = 1
SPECIFICATION FairSpec
INVARIANTS
  TypeOK
  SingleOwner
  EntryHasOwner
  RefsCountGuards
  NothingStranded
PROPERTIES
  ImplementsOwnership
  Converges
CHECK_DEADLOCK FALSE
