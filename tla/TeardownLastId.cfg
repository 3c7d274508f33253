CONSTANTS
  Callers = {c1}
  Ops = {"close"}
  Keepalive = FALSE
  Accepting = TRUE
  CanStall = FALSE
  MaxStreams = 1
  MaxPings = 0
  maxStreamID = 9
SPECIFICATION Spec
INVARIANT LastIdCoversDelivered
