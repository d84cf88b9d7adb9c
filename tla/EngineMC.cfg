SPECIFICATION MCSpec
CONSTANTS
  Aiding = {eph}
  MaxCalls = 3
  MaxCrashes = 1
  MaxReports = 1
  Conf = {"SUPL_VER"}
  Servers = {"SUPL"}
  MaxVal = 2
  MaxChanges = 2
  MaxRestarts = 1
  Daemons = {"QUIPC", "GPSONE_DAEMON"}
  MaxMessages = 3
  Modes = {"MSB", "STANDALONE"}
  MaxProxies = 1
  MaxAsks = 3
  MaxSsr = 1
CHECK_DEADLOCK FALSE
INVARIANTS
  WantedIsInSession
  NoOrphanFix
  EngineEndIsSeen
  SettingsReachModem
  SessionFollows
PROPERTIES
  WantedIsServed
  ServedAndJoined
