SPECIFICATION Spec
CONSTANTS
  Timer = {t1, t2}
  Null = Null
  MaxEvents = 2
  ReadSize = 2
  Calls = {"Start", "SetCallback"}
  MaxExpired = 2
PROPERTY ExpirationServed
