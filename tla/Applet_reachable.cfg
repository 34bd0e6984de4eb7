CONSTANTS
  Keys = {k1}
  Levels = {80}
  None = None
  PerSecond = 1
  MaxPublishes = 1
  MaxStamp = 1
  MaxFaults = 1
SPECIFICATION AppletSpec
INVARIANTS
  NoneIsUnreachable
CHECK_DEADLOCK FALSE
