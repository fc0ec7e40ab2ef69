SPECIFICATION MCSpec
CONSTANTS
  Chosen = {"gpio", "i2cmem", "vector", "dlist", "pin", "blyss", "serialline", "modes", "leds", "xbeetx"}
  Pin = {1, 2}
  PwmPin = {2}
  Mode = {"input", "output", "pwm"}
  Port <- MCPort
  MaxUsers = 1
  MemSize = 8
  PageSize = 2
  Reach = 4
  Writes <- MCWrites
  Reads <- MCReads
  Value = {0, 1, 2}
  TryMax = 2
  MaxCalls = 4
  Element = {a, b, c, d, e}
  Growth = 2
  MaxSize = 4
  Copies = {TRUE, FALSE}
  Cell = {1, 2, 3, 4}
  Edges = {"none", "rising", "both"}
  GlobalChannels = {5, 10}
  Addresses = {2084, 63325}
  Channels = {1, 7}
  Seeds = {250}
  MaxSends = 2
  Bauds = {9600, 115200, 12345}
  DataBits = {7, 8, 9}
  Parities = {"none", "even", "odd", "space"}
  Stops = {1, 2, 3}
  Flows = {"none", "hardware", "software", "rs485 after send", "rs485 on send", "unknown"}
  Rs485Able = {TRUE, FALSE}
  PinMode = {"input", "output", "alt"}
  Pull = {"off", "up"}
  AskedMode = {"input", "output", "alt", "bad"}
  Setups <- MCSetups
  Out = {0, 3, 4}
  Led <- MCLed
  LedMode = {2, 3}
  Color <- MCColor
  Dimming = {300}
  Period = {41, 20000}
  MaxLedCalls = 4
  Base = 4
  Thread = {t1, t2}
  Block = {b1, b2}
  NoBlock = NoBlock
  Overhead <- MCOverhead
  Unit = 4
  MaxLen = 0
  Events = {"short", "error"}
CHECK_DEADLOCK FALSE
INVARIANTS
  ModesRestored
  PortsDrive
  ContainersKept
  HeardIsAsked
  LineAsAsked
  LedsAsAsked
  FrameIdsDiffer
  PacketFreedOnce
PROPERTIES
  MemorySpec
  ChangeSeen
  PinGivenBack
