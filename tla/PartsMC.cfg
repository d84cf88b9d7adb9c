SPECIFICATION MCSpec
CONSTANTS
  Adapters = {a1, a2, a3}
  MAX_ADAPTERS = 2
  Events = {"POSITION", "NI"}
  MaxCalls = 3
  MaxEvents = 1
  Prns = {32, 65}
  MaxSvs = 5
  MaxReports = 3
  Scancodes = {"C", "Z", "UP"}
  MaxKeys = 2
  MaxTorch = 2
  Limit = 2
  MaxChanges = 2
  Alphas = {0, 150}
  Times = {1, 300}
  Levels = {0, 255}
  NumCameras = 2
  MaxStrings = 3
  MaxOpens = 2
  Slots = 2
  SizeOf = 5
  MaxData = 2
  MaxAsked = 1
  MaxInits = 2
  Table = {"SUPL_HOST", "CAPABILITIES"}
  LogTable = {"DEBUG_LEVEL"}
  Unknown = {"OTHER"}
  MaxLines = 4
CHECK_DEADLOCK FALSE
INVARIANTS
  ModemIsSetUp
  DeliveredOnce
  SentencesAreRight
  EachGestureOnce
  TorchAgrees
  GesturesAreWatched
  LedFollowsPriority
  StringsAreSafe
  DataIsPassedOn
  InputIsTaken
