SPECIFICATION MCSpec
CONSTANTS
  Node = {n1}
  Capacity = 2
  AckCapacity = 2
  PageSize = 1
  MaxRevision = 2
  MaxDeferred = 2
  None = None
  p1 = p1
  p2 = p2
  m1 = m1
  m2 = m2
  m8 = m8
  m9 = m9
  a1 = a1
  a8 = a8
  a9 = a9
  t1 = t1
  t2 = t2
  h = h
INVARIANTS
  RowsIntact
  AffectedReadable
  RetirementTracked
PROPERTIES
  EverythingIsDelivered
  RetiredIsReleased
