SPECIFICATION FairSpec
CONSTANTS
  Msgs = {m1, m2, m3}
  Receivers = {r1, r2, r3}
  NoMsg = NoMsg
INVARIANTS
  NoLostWakeup
  FailsOnlyWhenUnblocked
PROPERTIES
  FifoSpec
  NobodyIsStuck
