CONSTANTS
  f1 = f1
  f2 = f2
  bad = bad
  absent = absent
  k1 = k1
  Files <- MCFiles
  Account <- MCAccount
  Accounts <- MCAccounts
  Registered <- MCRegistered
  Keys <- MCKeys
  Contents <- MCContents
  Bad = bad
  Absent = absent
  MaxChanges = 3
  MaxFaults = 1
SPECIFICATION ImportSpec
INVARIANTS ImportedWhole BookedOnce
PROPERTIES ScanSettles
CHECK_DEADLOCK FALSE
