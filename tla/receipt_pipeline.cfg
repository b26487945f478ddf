SPECIFICATION PipeFairSpec
CONSTANTS
  w1 = w1
  k1 = k1
  s1 = s1
  s2 = s2
  p1 = p1
  newer = newer
  plain = plain
  again = again
  Worker <- MCWorker
  Collector <- MCCollector
  Source <- MCSource
  Path <- MCPath
  PathOf <- MCPathOf
  Request <- ImportRequest
  SourceOf <- ImportSourceOf
  Kind <- ImportKind
  NPasses = 0
  MaxAttempts = 2
  DeliveryLimit = 1
  MaxPublish = 1
  MaxCrash = 1
  MaxDisturb = 0
  MaxResultAttempts = 2
  ResultLimit = 1
  MaxStops = 0
  NoRequest = NoRequest
  NoCopy = NoCopy
  NoDelivery = NoDelivery
INVARIANTS
  Traceable
  CompletedByFreshRun
PROPERTIES
  KeepsPromise
CHECK_DEADLOCK FALSE
