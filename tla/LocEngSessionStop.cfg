SPECIFICATION Spec
CONSTANTS
  Aiding = {eph}
  MaxCalls = 2
  MaxCrashes = 1
  MaxReports = 0
CHECK_DEADLOCK FALSE
INVARIANTS
  StopMeansStopped
