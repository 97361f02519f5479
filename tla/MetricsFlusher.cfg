SPECIFICATION Spec
CONSTANTS
  Calls = {"c1", "c2", "c3"}
  Count <- MCCount
  MaxAttempts = 2
INVARIANTS ShippingDisciplined ReturnsTemporaryFailures
PROPERTIES CallEnds
CHECK_DEADLOCK FALSE
