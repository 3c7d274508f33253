SPECIFICATION FairSpec
CONSTANTS
  w1 = w1
  w2 = w2
  s1 = s1
  s2 = s2
  Writers = {w1, w2}
  Streams = {s1}
  StreamOf <- Shared
  Cancellable = {w1}
  MaxWindow = 1
  MaxFrame = 1
  InitConn = 1
  InitWindows = {0, 1}
  Increments = {1}
  Bodies = {2}
  MaxGrant = 1
INVARIANTS CreditInv NoLostWakeup CreditConserved
PROPERTY WritersReleased
CHECK_DEADLOCK FALSE
