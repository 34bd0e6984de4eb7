CONSTANTS
  Keys = {k1}
  Nodes = {n1}
  KeyOf <- ToOneKey
  Fields = {mv}
  Deadband <- Deadbands
  Readings <- OneReading
  None = None
  StaleAfter = 5
  ResumeGrace = 4
  DrainSleep = 1
  MarkInterval = 2
  Margin = 1
  MaxErrors = 2
  QueueCap = 2
  MaxRefs = 1
  MaxNow = 11
  MaxAsleep = 1
  MaxFaults = 2
SPECIFICATION ReaderSpec
INVARIANTS
  NothingDropped
  NoSpinning
  HeardInTime
PROPERTIES
  AliveStaysConnected
  GivesUpSlowly
CHECK_DEADLOCK FALSE
