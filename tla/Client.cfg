SPECIFICATION ClientSpec
CONSTANTS
  RetriesCount = 2
  Capacity = 1
  MaxSent = 3
  MaxTyped = 3
CHECK_DEADLOCK FALSE
INVARIANTS
  ClientTypeOK
  IncomingKept
  OutgoingKept
  DialsBounded
PROPERTIES
  GridlockStays
  LoopIsFreed
  ClientEnds
