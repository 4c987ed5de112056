SPECIFICATION FairSpec
CONSTANTS
  Size = 5
  Rounds = 2
  Backlog = 2
INVARIANTS
  MeshIsJoined
  BroadcastsAreHeardInOrder
PROPERTIES
  ImplementsBarrier
  AllGetThrough
CHECK_DEADLOCK FALSE
