SPECIFICATION FairSpec
CONSTANTS
  job = job
  Jobs = {job}
  NumClusters = 3
  Traffic <- MCTraffic
  MemThreshold = 3
  MaxSize = 2
  WireCap = 1
  MayCrash <- MCMayCrash
INVARIANTS
  OvershootBounded
  ChargesAreGivenBack
  CookieOutlivesUsers
  CleanupReadsBye
PROPERTIES
  ProxyIsEmptied
  ImplementsLinks
CHECK_DEADLOCK FALSE
