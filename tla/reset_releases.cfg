SPECIFICATION IntakeSpec
CONSTANTS
  a = a
  b = b
  p1 = p1
  p2 = p2
  Source <- OneSource
  Publisher <- MCPublisher
  MaxIntake = 1
  MaxReset = 1
  MaxFault = 0
  MaxRecord = 0
  NoPublisher = NoPublisher
  NoMessage = NoMessage
  NoReset = NoReset
PROPERTIES
  ResetReleases
CHECK_DEADLOCK FALSE
