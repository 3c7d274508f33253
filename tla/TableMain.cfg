CONSTANTS
  MaxClientId = 3
  MaxPushId = 4
  Limit = 1
  Settings <- TwoSettings
  Initial <- OpenSettings
  MaxSettings = 1
  noStreamLimit = 99
SPECIFICATION Spec
INVARIANT TableInv
PROPERTY PromisesLegal
CHECK_DEADLOCK FALSE
