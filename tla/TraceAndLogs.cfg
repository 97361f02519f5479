SPECIFICATION AllSpec
CONSTANTS
  refused = refused
  bad = bad
  small = small
  large = large
  Requests = {refused, bad, small, large}
  Payload <- MCPayload
  Verdict <- MCVerdict
  MaxPermits = 2
  ChannelSize = 1
  MaxContentSize = 10
  Envelope = 1
  Overhead = 1
  CanShutdown = TRUE
  Posts = {"r1", "r2", "r3", "r4"}
  Body <- MCBody
  Status <- MCStatus
  Entries = {"e1", "e2", "e3", "e4"}
  EntrySize <- MCSize
  MaxEntries = 2
  MaxContent = 10
  MaxLog = 6
  MaxAttempts = 2
  Extras = {"extra"}
INVARIANTS PermitsAccounted PiecesInOrder AcknowledgedAccounted
PROPERTIES FlushedUnlessAborted ExtrasTriedOnce EventuallySettled
CHECK_DEADLOCK FALSE
