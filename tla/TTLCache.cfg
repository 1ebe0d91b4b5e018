CONSTANTS
  k1 = k1
  k2 = k2
  k3 = k3
  v1 = v1
  None = None
  Keys = {k1, k2, k3}
  Values = {v1}
  TTLs = {0, 1}
  MaxEntries = 2
  CleanupOn = TRUE
  MaxTime = 2
SPECIFICATION Spec
PROPERTIES EvictsLeastRecentlyUsed RefinesExpiringMap
