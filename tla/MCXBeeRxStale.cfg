SPECIFICATION Spec
CONSTANTS
  Base = 8
  Start = 6
  MaxData = 3
  Addr = {a1, a2}
  Null = Null
  Payload <- MCPayload
  Handled = {1, 2}
  FaultSets <- StaleFaultSets
  MaxSent <- StaleMaxSent
  MaxChunk = 3
CHECK_DEADLOCK FALSE
INVARIANT CheckedIsAllocated
