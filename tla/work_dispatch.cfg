SPECIFICATION Spec
CONSTANTS
  w1 = w1
  w2 = w2
  s1 = s1
  s2 = s2
  p1 = p1
  fresh = fresh
  plain = plain
  again = again
  Worker <- MCWorker
  Source <- MCSource
  Path <- MCPath
  PathOf <- MCPathOf
  Request <- MCRequest
  SourceOf <- MCSourceOf
  Kind <- MCKind
  NPasses = 1
  MaxAttempts = 2
  DeliveryLimit = 1
  MaxPublish = 1
  MaxCrash = 1
  MaxDisturb = 1
  NoRequest = NoRequest
  NoCopy = NoCopy
SYMMETRY MCSymmetry
INVARIANTS
  TypeOK
  NoWorkLost
  
  PassesAfterRun
PROPERTIES
  NoWastedOcr
CHECK_DEADLOCK FALSE
