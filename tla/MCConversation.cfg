SPECIFICATION MCSpec
CONSTANTS
  Capacity = 3
  Message = {m1, m2}
  Empty = Empty
  displayed = displayed
  other = other
  first = first
  second = second
  Thread <- MCThread
  Item <- MCItem
  ThreadOf <- MCThreadOf
  Worlds <- MCWorlds
  PassRows = 1
INVARIANTS
  SlotDiscipline
  RoomIsKept
  WorkIsScheduled
PROPERTIES
  ImplementsFifo
  PresentsTheSelected
  SelectionCompletes
  RowsArrive
