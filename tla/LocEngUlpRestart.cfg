SPECIFICATION Spec
CONSTANTS
  Modes = {"MSB", "STANDALONE"}
  MaxProxies = 0
  MaxAsks = 3
  MaxSsr = 1
CHECK_DEADLOCK FALSE
INVARIANT ModeSurvivesRestart
