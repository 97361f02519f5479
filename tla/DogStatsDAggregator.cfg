SPECIFICATION IntakeSpec
CONSTANTS
  Packets <- MCPackets
  Lines <- MCLines
  NonUtf8 <- MCNonUtf8
  QueueSize = 2
  ChannelSize = 2
  Samples <- MCSamples
  Context <- MCContext
  Kind <- MCKind
  Contexts <- MCContexts
  Size <- MCSize
  MaxContexts = 2
  MaxEntries = 2
  MaxBytes = 5
  Batches <- MCBatches
  MaxQueued = 3
  Flushers = {f1, f2}
  Getters = {g1}
INVARIANTS
  BufferBound
  InOrderNoLoss
  LossOnlyAfterCancel
  AccountedOnce
  FlushSeesEarlierInserts
PROPERTIES
  ImplementsLossyQueue
  CancelStops
  AcceptedIsProcessed
  FlushAnswered
CHECK_DEADLOCK FALSE
