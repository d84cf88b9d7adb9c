SPECIFICATION FairSpec
CONSTANTS
  Msgs = {m1, m2, m3}
  NoMsg = NoMsg
CHECK_DEADLOCK FALSE
INVARIANTS
  HandledInOrder
  QuietAfterDestroy
  DeletedTaskHasNoMsgs
  DelegateIsSafe
PROPERTIES
  DestroyReturns
