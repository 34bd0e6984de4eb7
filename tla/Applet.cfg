CONSTANTS
  Keys = {k1}
  Levels = {80}
  None = None
  PerSecond = 1
  MaxPublishes = 3
  MaxStamp = 0
  MaxFaults = 1
SPECIFICATION AppletFairSpec
INVARIANTS
  ShowsWhatIsServed
  SkipsOnlyVanished
PROPERTIES
  NeverFalselyDown
  ShowsEventually
CHECK_DEADLOCK FALSE
