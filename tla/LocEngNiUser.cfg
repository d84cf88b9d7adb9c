SPECIFICATION Spec
CONSTANTS
  Requests = {1, 2}
  Emergency = {}
  MaxRestarts = 0
  UserChoices = {"ACCEPT"}
  NULL = NULL
CHECK_DEADLOCK FALSE
INVARIANTS
  AnsweredByUser
