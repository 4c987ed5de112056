SPECIFICATION FairSpec
CONSTANTS
  NumRanks = 2
  ClusterOf <- OneCluster
  ClusterOffset <- OneOffset
  ConsolePresent = FALSE
  Filters = {"a", "b", "c"}
  HostOf <- PairHost
  Streams <- PairStreams
  EarlyExit = {}
  EagerSends = TRUE
  MaxWrites <- PairWrites
  FilterMem = 1
  RuntimeMem = 1
INVARIANTS
  QuietOnceAnnounced
  StreamsInOrder
PROPERTIES
  DeferredReceiveResumes
  ImplementsJobTermination
CHECK_DEADLOCK FALSE
