\* Two keys for one bucket, two goroutines; two paths for one series, two requests at
\* a time, three in all.
SPECIFICATION ChainSpec
CONSTANTS
  Keys = {a, b}
  Callers = {g1, g2}
  Ids = {i1, i2, i3}
  NoId = none
  NoKey = nokey
  Cost = 2
  Burst = 2
  IdleTTL = 1
  maxTTL = 5
  maxBuckets = 1
  sweepEvery = 2
  Requests = {r1, r2}
  Stores <- MCStores
  Labels <- MCLabels
  OverflowLabel <- MCOverflow
  maxSeries = 1
  seriesTTL = 1
  eagerViewEntries = 1
  MaxStall = 1
  MaxRequests = 3
SYMMETRY Interchangeable
INVARIANTS
  MemoryBounded
  RequestsCounted
PROPERTY LimiterExact
