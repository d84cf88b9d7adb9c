SPECIFICATION MCSpec
CONSTANTS
  Clients = {c1, c2}
  MaxStarts = 2
  MaxTime = 4
  TicksPerSec = 2
  None = None
  Items = {a, b, c, d, e}
  Ranks = {1, 2, 3}
  Null = Null
CHECK_DEADLOCK FALSE
INVARIANTS
  TimersAreKept
  SoonestIsArmed
PROPERTIES
  EveryTimerEnds
  IsPriorityQueue
