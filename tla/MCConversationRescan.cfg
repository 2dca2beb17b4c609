SPECIFICATION FoldingSpec
CONSTANTS
  displayed = displayed
  other = other
  first = first
  second = second
  Thread = {displayed, other}
  Item = {first, second}
  ThreadOf <- MCThreadOf
  PassRows = 1
  Worlds <- MCWorlds
PROPERTY EveryRowReachesLatest
CHECK_DEADLOCK FALSE
