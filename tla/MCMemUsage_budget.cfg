SPECIFICATION FairSpec
CONSTANTS
  Waiters = {"console"}
  Pollers = {"mainloop"}
  SizesOf <- AnySizes
  Threshold = 4
  MaxCharges = 3
INVARIANTS
  WithinThreshold
  WaitsForRoomOnly
PROPERTIES
  AccumulateReturns
  DeferredBodyIsRead
CHECK_DEADLOCK FALSE
