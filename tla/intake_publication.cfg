SPECIFICATION IntakeSpec
CONSTANTS
  a = a
  b = b
  p1 = p1
  p2 = p2
  Source <- TwoSources
  Publisher <- MCPublisher
  MaxIntake = 2
  MaxReset = 1
  MaxFault = 1
  MaxRecord = 1
  NoPublisher = NoPublisher
  NoMessage = NoMessage
  NoReset = NoReset
SYMMETRY MCSymmetry
INVARIANTS
  OneCopyPerRelease
PROPERTIES
  CompletionKept
CHECK_DEADLOCK FALSE
