SPECIFICATION Spec
CONSTANTS
  Size = 2
  Act <- MCAct
  Grp = {g1}
  EdgeChoices <- MCEdges
  Null = Null
  User = User
INVARIANTS
  HandlerDataLive
  NoHandlerAfterClear
  NoLeak
  EdgesAlternate
PROPERTIES
  EdgeKept
  SettledLevelServed
  CloseReturns
