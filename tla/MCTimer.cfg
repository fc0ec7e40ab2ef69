SPECIFICATION Spec
CONSTANTS
  Timer = {t1, t2}
  Null = Null
  MaxEvents = 2
  ReadSize = 2
  Calls = {"Delete", "Start", "Stop", "SetCallback", "UnsetCallback", "Wait"}
  MaxExpired = 2
SYMMETRY Symmetry
INVARIANTS
  ThreadSafe
  ServedOnce
