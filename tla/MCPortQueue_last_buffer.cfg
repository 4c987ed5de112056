SPECIFICATION Spec
CONSTANTS
  NumPorts = 1
  Writers = {"w"}
  Feeds <- OneFeed
  MaxPuts = 4
INVARIANT
  NullMeansAllRead
