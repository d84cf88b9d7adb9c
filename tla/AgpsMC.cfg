SPECIFICATION MCSpec
CONSTANTS
  Subs = {s1, s2}
  Kind = "ATL"
  FreedMatch = FALSE
  MaxQ = 4
  MaxFw = 2
  MaxRestarts = 1
  DSClients = {d1, d2}
  MaxRequests = 2
CHECK_DEADLOCK FALSE
INVARIANTS
  PendingIsAnswered
  OpenMeansAcquired
  NoClientForgotten
PROPERTIES
  EveryClientAnswered
  DataCallIsSettled
