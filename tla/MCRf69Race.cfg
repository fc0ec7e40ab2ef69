SPECIFICATION Spec
CONSTANTS
  Me = me
  Peer = {p1, p2}
  Broadcast = all
  None = None
  Envs <- MCEnvs
  Retries = 2
  MaxCalls = 2
  MaxHeard = 2
CHECK_DEADLOCK FALSE
INVARIANT SentIsAsked
