SPECIFICATION Spec
CONSTANTS
  Base = 8
  Start = 6
  MaxData = 3
  Addr = {a1, a2, a3}
  Null = Null
  Payload <- MCPayload
  Handled = {1, 2}
  FaultSets <- MCFaultSets
  MaxSent <- MCMaxSent
  MaxChunk = 3
CHECK_DEADLOCK FALSE
INVARIANTS
  WriteInBounds
  PacketOwned
  NoLeak
PROPERTY LinkSpec
