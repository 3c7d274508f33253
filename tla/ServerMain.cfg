CONSTANTS
  Conns = {k1, k2}
  MaxStreams = 1
  MayStall = {k1}
  MaxConns = 1
  Idle = TRUE
  Calls = {"close", "shutdown", "timeout", "cancel"}
SPECIFICATION FairSpec
PROPERTIES DrainSound GracefulNeverCuts TotalsSound ShutdownReturns DeadConnForgotten
CHECK_DEADLOCK FALSE
