SPECIFICATION Spec
CONSTANTS
  None = None
  p1 = p1
  p2 = p2
  t1 = t1
  t2 = t2
  Prompt = {p1, p2}
  UserMessage = {}
  Answer = {}
  Turn = {t1, t2}
  OriginOf <- MCOrigin
  PassRows = 2
  MaxQueued = 2
  Worlds <- MCWorlds
INVARIANT PendingTurnIsActive
CHECK_DEADLOCK FALSE
