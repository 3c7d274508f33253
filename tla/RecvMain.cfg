CONSTANTS
  Window = 3
  ConnWindow = 4
  recvWindowRefundThreshold = 2
  EventBuffer = 2
  MaxFrame = 2
  Body = 4
  Paddings = {0, 1}
  Limits = {3}
  ReadSizes = {1}
SPECIFICATION FairSpec
INVARIANTS NoFalseFlowError ConnCreditConserved BodyAsSent
PROPERTY UploadCompletes
CHECK_DEADLOCK FALSE
