SPECIFICATION Spec
CONSTANTS
  N = 1
  MaxConcurrent = 1
  QueueDepth = 1
  EventBuf = 1
  Budget = 1
  Blocks = {"good", "malformed", "oversized", "huge", "undecodable"}
  MaxFrames = 4
  MaxSends = 2
INVARIANTS
  NoGapInBody
CHECK_DEADLOCK FALSE
