SPECIFICATION AllSpec
CONSTANTS
  MaxBatchEntries = 3
  MaxBatchBytes = 6
  MetricSizes = {0, 1, 2, 3, 5, 6, 7}
  MaxMetrics = 5
  MaxEntries = 3
  MaxContent = 12
  MaxLog = 7
  Size <- EntrySize
  Sizes = {2, 3, 5, 7, 8}
  MaxInput = 5
  MaxContentSize = 10
  Envelope = 1
  Overhead = 1
  ChunkSizes = {1, 4, 9}
  MaxChunks = 4
  MaxPayloads = 2
  FlushEvery = 3
  InstanceEvery = 2
  CpuEvery = 1
  Setups <- LoopSetups
  MaxTime = 5
  MaxResets = 1
  Platforms <- ReporterPlatforms
  Interval = 3
  MaxReportAttempts = 2
  MaxClock = 7
  Conns = {"c1", "c2"}
  Requests <- IntakeRequests
  MaxRequests = 2
  MaxBodySize = 1
  MaxDecompressed = 2
  FailStatsFirstN = 1
  DumpNames = {"n"}
  MaxSuffix = 2
  Environments <- StartupEnvironments
  BucketDuration = 2
  NumBuckets = 2
  MaxRateIncrease <- OneAndAFifth
  FoldTo = 2
  Configs <- SamplerConfigs
  RescuePayloads <- ErrorPayloads
  ClockReadings = {0, 1, 2, 5, 12}
  MaxRescues = 4
  SignatureOf <- MCSignature
  SampledAt <- MCSampled
  Groups <- FieldGroups
  Raws <- RawValues
  Legacy <- LegacyFields
  Ambient <- AmbientOf
  Lines <- MCLines
  Namespaces <- MCNamespaces
  Letters <- MCLetters
  Words <- MCWords
  BaseTags <- MCBaseTags
  TagOrder <- MCTagOrder
  MaxTags = 3
  Times <- MCTimes
  MaxLines = 2
INVARIANTS
  MetricBatchesExact LogBatchesExact TraceBatchesExact LinesOfASeriesMeet
  SamplerKeepsBudget ManualDropStays AnsweredIsCaptured NoOrphans SummaryCountsHits
  ConfigurationSound StartupConsistent LoopKeepsTime ReportsAreRare
CHECK_DEADLOCK FALSE
