CONSTANTS
  Callers = {c1}
  Ops = {"close", "goaway", "graceful", "data"}
  Keepalive = TRUE
  Accepting = TRUE
  CanStall = TRUE
  MaxStreams = 1
  MaxPings = 1
  maxStreamID = 9
SPECIFICATION FairSpec
INVARIANT TeardownInv
PROPERTIES GoAwaysInOrder CloseCompletes EndNoticed
