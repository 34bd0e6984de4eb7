CONSTANTS
  Keys = {k1, k2}
  Fields = {mv}
  Deadband <- DeadbandOfTwo
  Readings <- CreepingReadings
  None = None
  StaleAfter = 2
  ResumeGrace = 1
  MaxRefs = 1
  MaxNow = 6
  MaxAsleep = 1
SPECIFICATION Spec
SYMMETRY Symmetry
INVARIANTS
  TypeOK
  PublishedIsInner
  ConnectedIsFresh
  ResumeNoticed
  DisconnectStamped
  PublishedWithinDeadband
PROPERTIES
  DroppedOnlyWhenSilent
  NoJitter
CHECK_DEADLOCK FALSE
