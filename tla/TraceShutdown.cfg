SPECIFICATION Spec
CONSTANTS
  refused = refused
  bad = bad
  small = small
  large = large
  Requests = {refused, bad, small, large}
  Payload <- MCPayload
  Verdict <- MCVerdict
  MaxPermits = 2
  ChannelSize = 1
  MaxContentSize = 10
  Envelope = 1
  Overhead = 1
  CanShutdown = TRUE
PROPERTY BufferedIsFlushed
CHECK_DEADLOCK FALSE
