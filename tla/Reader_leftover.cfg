CONSTANTS
  Keys = {k1}
  Nodes = {n1}
  KeyOf <- ToOneKey
  Fields = {mv}
  Deadband <- Deadbands
  Readings <- OneReading
  None = None
  StaleAfter = 5
  ResumeGrace = 4
  DrainSleep = 1
  MarkInterval = 2
  Margin = 1
  MaxErrors = 3
  QueueCap = 2
  MaxRefs = 1
  MaxNow = 14
  MaxAsleep = 1
  MaxFaults = 0
SPECIFICATION ReaderSpec
INVARIANTS
  DeadIsNoticed
CHECK_DEADLOCK FALSE
