SPECIFICATION CommandsSpec
CONSTANTS
  w1 = w1
  k1 = k1
  s1 = s1
  s2 = s2
  p1 = p1
  newer = newer
  plain = plain
  again = again
  Worker <- MCWorker
  Collector <- MCCollector
  Source <- ReplacedSource
  Path <- MCPath
  PathOf <- ReplacedPathOf
  Request <- CommandRequest
  SourceOf <- CommandSourceOf
  Kind <- CommandKind
  NPasses = 0
  MaxAttempts = 2
  DeliveryLimit = 1
  MaxPublish = 1
  MaxCrash = 1
  MaxDisturb = 1
  MaxResultAttempts = 2
  ResultLimit = 1
  MaxStops = 0
  NoRequest = NoRequest
  NoCopy = NoCopy
  NoDelivery = NoDelivery
  u1 = u1
  u2 = u2
  c1 = c1
  c2 = c2
  Setup <- MCSetups
  Legacy = Legacy
  Missing = Missing
  MaxVersion = 3
  MaxRows = 1
  MaxDeaths = 1
  References = {1, 2}
  Digests <- MCDigests
  Nowhere = Nowhere
  MaxChanges = 2
  MaxOcr = 2
  MaxImports = 1
  Callers <- MCCallers
  Paths <- MCPath
  Hashes <- MCDigests
  Orders <- MCOrders
  NoOrder = NoOrder
  MaxTries = 2
  MaxIngests = 3
  MaxEdits = 2
  Comparisons <- MCComparisons
  Blank = Blank
  MaxPurchases = 2
  q = q
  paid1 = paid1
  paid2 = paid2
  Sought <- MCSought
  Hits <- MCHits
  Answers <- MCAnswers
  Teams <- MCTeams
  ProviderOf <- MCProviderOf
  Vision <- MCVision
  Grows <- MCGrows
  NoHit = NoHit
  Threshold = 80
  ReadingBudget = 2
  MaxSuffixes = 1
  MaxCandidates = 2
INVARIANTS
  
  RollbackCopyKept
  WorkedOnce
  CompletedHasEvidence
  SafeMatch
  RecommendedOnEvidence
PROPERTIES
  RetiredIsRetained
CHECK_DEADLOCK FALSE
