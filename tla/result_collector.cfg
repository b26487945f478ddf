SPECIFICATION MCSpec
CONSTANTS
  k1 = k1
  k2 = k2
  s1 = s1
  p1 = p1
  plain = plain
  rebuild = rebuild
  Collector <- MCCollector
  Source <- MCSource
  Path <- MCPath
  PathOf <- MCPathOf
  Request <- MCRequest
  SourceOf <- MCSourceOf
  Kind <- MCKind
  Announcements <- SharedRun
  NPasses = 1
  MaxAttempts = 1
  MaxResultAttempts = 2
  ResultLimit = 1
  MaxStops = 1
  NoRequest = NoRequest
  NoDelivery = NoDelivery
SYMMETRY MCSymmetry
INVARIANTS
  NoResultLost
  AppliedOnce
CHECK_DEADLOCK FALSE
