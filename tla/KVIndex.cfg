CONSTANTS
  c1 = c1
  c2 = c2
  k1 = k1
  k2 = k2
  Clients = {c1, c2}
  Keys = {k1, k2}
  Values = {v1, v2}
  KeyUses <- OwnOrSharedKeys
  NoKey = NoKey
  Absent = Absent
  Ok = Ok
  Null = Null
  Error = Error
  End = End
  Dangling = Dangling
  CACHE_SIZE = 2
  InitialSize = 2
  MaxSets = 3
  MaxCrashes = 1
  MaxFaults = 1
SPECIFICATION Spec
SYMMETRY Alike
INVARIANTS TypeOK CacheCoherent Recoverable OnlySlot0Revived
PROPERTY ImplementsMap
CHECK_DEADLOCK FALSE
