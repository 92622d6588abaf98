CONSTANTS
  k1 = k1
  k2 = k2
  k3 = k3
  Keys = {k1, k2, k3}
  Values = {v1, v2}
  Deleted = Deleted
  Torn = Torn
  Garbage = Garbage
  Ok = Ok
  Fail = Fail
  None = None
  MAXFILE = 3
  Bounds <- LateRebuildBounds
  TmpOpens = {TRUE}
  MaxCrashes = 0
  CrashAt = {}
  Overwrites = "none"
  WritesAfterTorn = TRUE
SPECIFICATION Spec
INVARIANT SetsReadBack
CHECK_DEADLOCK FALSE
