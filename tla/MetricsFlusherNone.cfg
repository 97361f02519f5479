SPECIFICATION Spec
CONSTANTS
  Calls = {"c1", "c2", "c3"}
  Count <- MCCount
  MaxAttempts = 2
INVARIANTS NoneMeansSuccess
CHECK_DEADLOCK FALSE
