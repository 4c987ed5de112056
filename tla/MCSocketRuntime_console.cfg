SPECIFICATION FairSpec
CONSTANTS
  NumRanks = 2
  ConsolePresent = TRUE
  Filters = {"con", "b", "c", "d"}
  HostOf <- ConsoleHost
  Streams <- ConsoleStreams
  EarlyExit = {}
  MaxWrites <- ConsoleWrites
  FilterMem = 1
  RuntimeMem = 1
  WireCap = 1
INVARIANTS
  PacketsStayWhole
  EndOfStreamIsLast
  NothingMoreIsReceived
  RuntimeMemoryBalanced
  WritersMemoryBalanced
PROPERTY
  JobEnds
CHECK_DEADLOCK FALSE
