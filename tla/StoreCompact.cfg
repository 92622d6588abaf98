CONSTANTS
  k1 = k1
  k2 = k2
  k3 = k3
  Keys = {k1, k2}
  Values = {v1}
  Deleted = Deleted
  Torn = Torn
  Garbage = Garbage
  Ok = Ok
  Fail = Fail
  None = None
  MAXFILE = 3
  Bounds <- CompactBounds
  TmpOpens = {TRUE, FALSE}
  MaxCrashes = 0
  CrashAt = {}
  Overwrites = "any"
  WritesAfterTorn = TRUE
SPECIFICATION FairSpec
INVARIANTS TypeOK Presence FreshestWins
PROPERTY RebuildsFinish
CHECK_DEADLOCK FALSE
