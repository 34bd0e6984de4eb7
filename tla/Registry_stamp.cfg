CONSTANTS
  Keys = {k1}
  Fields = {mv}
  Deadband <- DeadbandOfTwo
  Readings <- OneReading
  None = None
  StaleAfter = 2
  ResumeGrace = 1
  MaxRefs = 1
  MaxNow = 8
  MaxAsleep = 5
SPECIFICATION Spec
INVARIANTS
  StampIsLastKnownGood
CHECK_DEADLOCK FALSE
