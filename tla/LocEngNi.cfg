SPECIFICATION FairSpec
CONSTANTS
  Requests = {1, 2, 3}
  Emergency = {2}
  MaxRestarts = 1
  UserChoices = {"ACCEPT"}
  NULL = NULL
CHECK_DEADLOCK FALSE
INVARIANTS
  OneAnswerEach
  BlockHasOneOwner
  NoLostResponse
PROPERTIES
  ClearedIsNotAnswered
  EveryRequestEnds
