CONSTANTS
  Keys = {k1, k2, k3, k4}
  Values = {1, 2}
  NoValue = 0
  Capacity = 3
  MaxCalls = 7
SPECIFICATION Spec
INVARIANTS CacheWellFormed KeepsMostRecent
CHECK_DEADLOCK FALSE
