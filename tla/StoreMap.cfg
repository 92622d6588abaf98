CONSTANTS
  k1 = k1
  k2 = k2
  k3 = k3
  Keys = {k1, k2, k3}
  Values = {v1, v2}
  Deleted = Deleted
  Torn = Torn
  Garbage = Garbage
  Ok = Ok
  Fail = Fail
  None = None
  MAXFILE = 2
  Bounds <- MapBounds
  TmpOpens = {TRUE}
  MaxCrashes = 2
  CrashAt = {"ready", "lookup", "seek", "read", "check", "manNum", "manName", "append", "finish", "index"}
  Overwrites = "lastFile"
  WritesAfterTorn = FALSE
SPECIFICATION Spec
SYMMETRY Alike
 
PROPERTY ImplementsMap
CHECK_DEADLOCK FALSE
