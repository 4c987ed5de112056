SPECIFICATION FairSpec
CONSTANTS
  NumPorts = 2
  Writers = {"v", "w"}
  Feeds <- TwoFeeds
  MaxPuts = 2
INVARIANTS
  NoLostWakeup
  EndMeansWritersGone
  SecondEndIsFinal
PROPERTY
  UpstreamExitIsNoticed
