SPECIFICATION Spec
CONSTANTS
  NumRanks = 3
  ClusterOf <- TwoClusters
  ClusterOffset <- TwoOffsets
  ConsolePresent = FALSE
  Filters = {"b", "c"}
  HostOf <- ClustersHost
  Streams <- ClustersStreams
  EarlyExit = {"b"}
  EagerSends = FALSE
  MaxWrites <- OneEach
  FilterMem = 1
  RuntimeMem = 1
INVARIANTS
  MemoryBalanced
  ExitedRankIsNotNeeded
