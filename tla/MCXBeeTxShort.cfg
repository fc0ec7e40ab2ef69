SPECIFICATION Spec
CONSTANTS
  Base = 4
  Thread = {t1, t2}
  Block = {b1, b2}
  None = None
  Overhead <- MCOverhead
  Unit = 4
  MaxLen = 1
  Events = {"short"}
  MaxCalls = 2
CHECK_DEADLOCK FALSE
INVARIANT SentWhole
