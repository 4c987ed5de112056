SPECIFICATION Spec
CONSTANTS
  NumRanks = 2
  ClusterOf <- OneCluster
  ClusterOffset <- OneOffset
  ConsolePresent = FALSE
  Filters = {"a", "b", "c", "d"}
  HostOf <- ZigzagHost
  Streams <- ZigzagStreams
  EarlyExit = {}
  EagerSends = FALSE
  MaxWrites <- ZigzagWrites
  FilterMem = 1
  RuntimeMem = 1
INVARIANTS
  DeferralNeverStallsJob
CHECK_DEADLOCK FALSE
