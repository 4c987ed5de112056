SPECIFICATION Spec
CONSTANTS
  Names <- MCNames
  ConsoleName = "con"
  Composites <- MCComposites
  Wires <- MCWires
  Pools <- MCPools
  BindTargets = {1, 3}
  UserLabels = {8}
  Local <- MCLocal
  RemoteEntry <- MCRemoteEntry
  MaxCopies = 2
  MaxConnects = 2
  MaxCalls = 2
INVARIANTS
  ConnectionsAreComplete
  CopiesAreMade
  CopiesKnowTheirHost
  RuntimeAssumptions
  AssertionsHold
CHECK_DEADLOCK FALSE
