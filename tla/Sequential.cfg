CONSTANTS
  k1 = k1
  k2 = k2
  k3 = k3
  letterA = letterA
  letterB = letterB
  Keys = {k1, k2, k3}
  Values <- ShortValues
  Absent = Absent
  End = End
  Dangling = Dangling
  NULL = NULL
  CACHE_SIZE = 2
  InitialSize = 2
  MaxFileSize = 16
  MAXCACHED = 2
SPECIFICATION SpecEither
INVARIANTS FreeListExact ValuesIntact CacheIsLru
CHECK_DEADLOCK FALSE
