SPECIFICATION MCSpec
CONSTANTS
  Procs = {p1, p2}
  Keys = {k1, "None"}
  Reload = TRUE
  Interval = 1
  CanDrop = TRUE
  MaxTime = 3
PROPERTIES CallReturns
CHECK_DEADLOCK FALSE
