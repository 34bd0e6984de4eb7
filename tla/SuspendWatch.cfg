CONSTANTS
  Base = 1
  Cap = 12
  Healthy = 12
  MaxFailures = 10
  MaxSleeps = 2
SPECIFICATION FairSpec
INVARIANTS
  StopsOnlyAfterBackoff
  ReconnectsInTime
PROPERTIES
  StopsWithoutBus
  ResumesAreHandled
