SPECIFICATION Spec
CONSTANTS
  N = 2
  MaxConcurrent = 1
  QueueDepth = 1
  EventBuf = 1
  Budget = 1
  Blocks = {"good", "oversized"}
  MaxFrames = 3
  MaxSends = 1
INVARIANT ReleasedOnce
CHECK_DEADLOCK FALSE
