SPECIFICATION MCSpec
CONSTANTS
  Device = {"bridge", "meter"}
  Irq = {TRUE, FALSE}
  Block = 2
  MaxIn = 2
  MaxOut = 2
  MaxErrors = 1
  MaxAttrs = 1
  Value = {0, 1, 2}
  Frames <- MCFrames
  Faults = {"crc", "eot"}
  Handled = {"Frame", "Ptec", "Tempo", "MotEtat"}
  Prompt = TRUE
  MaxSent = 3
  MaxChunk = 3
CHECK_DEADLOCK FALSE
INVARIANT ChangesReported
PROPERTIES
  BridgeLinks
  ArrivalsRead
  BridgeCallsReturn
  TinfoLink
