SPECIFICATION Spec
CONSTANTS
  s1 = s1
  s2 = s2
  t1 = t1
  tcp = tcp
  pipe = pipe
  Requests = {s1, s2, t1}
  Kind <- MCKind
  Via <- MCVia
  Transports = {tcp, pipe}
  ChannelSize = 1
INVARIANTS FlushedExactlyOnce ShutdownIsClean
PROPERTY ShutdownEnds
CHECK_DEADLOCK FALSE
