SPECIFICATION Spec
CONSTANTS
  Clients = {c1, c2}
  MaxStarts = 2
  MaxTime = 4
  TicksPerSec = 2
  None = None
CHECK_DEADLOCK FALSE
INVARIANTS
  NoEarlyExpire
