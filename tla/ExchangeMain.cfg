SPECIFICATION FairSpec
CONSTANTS
  Inputs <- MCInputs
  Statuses = {103, 200, 404}
  MinSize = 2
  MaxCalls = 4
  AppErrors = {"app", "other"}
  MaxDuration = 31
  Services = {"a", "b"}
  Buffer = 2
  MaxUpdates = 4
INVARIANTS
  WellFormedResponse
  ResponseAsWritten
  Settled
  OneGrpcStatus
  ReceivedInOrder
  WatchCurrent
PROPERTIES
  EveryExchangeEnds
  WatchLearns
