SPECIFICATION Spec
CONSTANTS
  Subs = {s1}
  Kind = "ATL"
  FreedMatch = FALSE
  MaxQ = 4
  MaxFw = 3
  MaxRestarts = 0
INVARIANTS
  NoOrphanConnection
