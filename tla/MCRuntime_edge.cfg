SPECIFICATION FairSpec
CONSTANTS
  NumRanks = 2
  ClusterOf <- EdgeClusters
  ClusterOffset <- EdgeOffsets
  ConsolePresent = TRUE
  Filters = {"con", "b", "c"}
  HostOf <- EdgeHost
  Streams <- EdgeStreams
  EarlyExit = {"con"}
  EagerSends = FALSE
  MaxWrites <- EdgeWrites
  FilterMem = 1
  RuntimeMem = 1
INVARIANTS
  StreamsInOrder
  ExitedRankIsNotNeeded
  MemoryBalanced
PROPERTIES
  JobEnds
CHECK_DEADLOCK FALSE
