SPECIFICATION BothSpec
CONSTANTS
  Procs = {p1, p2, p3}
  Keys = {k1, "None"}
  Reload = TRUE
  Interval = 1
  CanDrop = TRUE
  MaxTime = 4
  Requests = {"r1", "r2", "r3"}
  Targets <- MCTargets
  Headers <- MCHeaders
  MaxLength = 2
  Capacity = 1
  MaxRetries = 2
  ProxyKeys <- MCProxyKeys
INVARIANTS SingleFlight RateLimited NoReadBeforeLoad ProxyOrdered
PROPERTIES ReturnsUnlessOrphaned ProxySettles
CHECK_DEADLOCK FALSE
