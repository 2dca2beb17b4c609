SPECIFICATION MCSpec
SYMMETRY NodeSymmetry
CONSTANTS
  Capacity = 3
  ReservedSlots = 1
  MaxRevision = 4
  thread = thread
  ask = ask
  later = later
  operation = operation
  again = again
  n1 = n1
  n2 = n2
  Nodes <- MCNodes
  IdOf <- MCIdOf
  KindOf <- MCKindOf
  Sources <- MCSources
  Relations = {"PendingInteraction", "PendingOperation"}
INVARIANTS
  NothingForgotten
  AuthorityArrivesInTime
  TerminalSlotFree
  HeadOvertakenOnce
  GraphIntact
  SessionIntact
PROPERTY EveryChangeReported
VIEW View
