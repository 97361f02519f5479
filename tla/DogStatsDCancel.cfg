SPECIFICATION Spec
CONSTANTS
  Packets <- MCPackets
  Lines <- MCLines
  NonUtf8 <- MCNonUtf8
  QueueSize = 1
INVARIANTS NoReadDataLost
CHECK_DEADLOCK FALSE
