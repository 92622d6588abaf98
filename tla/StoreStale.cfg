CONSTANTS
  k1 = k1
  k2 = k2
  k3 = k3
  Keys = {k1, k2}
  Values = {v1, v2}
  Deleted = Deleted
  Torn = Torn
  Garbage = Garbage
  Ok = Ok
  Fail = Fail
  None = None
  MAXFILE = 2
  Bounds <- StaleBounds
  TmpOpens = {TRUE}
  MaxCrashes = 0
  CrashAt = {}
  Overwrites = "any"
  WritesAfterTorn = TRUE
SPECIFICATION Spec
INVARIANT SetsReadBack
CHECK_DEADLOCK FALSE
