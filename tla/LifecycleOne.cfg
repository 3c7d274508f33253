SPECIFICATION FairSpec
CONSTANTS
  N = 1
  MaxConcurrent = 1
  QueueDepth = 1
  EventBuf = 1
  Budget = 1
  Blocks = {"good", "malformed", "oversized", "huge", "undecodable"}
  MaxFrames = 3
  MaxSends = 2
INVARIANTS
  EofIsLast HpackInSync
PROPERTIES
  ResetIsFinal TerminalLeaves
CHECK_DEADLOCK FALSE
