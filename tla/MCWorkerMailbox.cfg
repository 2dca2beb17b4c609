SPECIFICATION MCSpec
CONSTANTS
  Capacity = 3
  MaxActions = 4
  first = first
  second = second
  third = third
  Requests <- MCRequests
  IdOf <- MCIdOf
  MaxGeneration = 3
  MaxAuthored = 2
INVARIANTS
  NothingLostByShutdown
  OpenIsActionable
  ResponsesAreKept
PROPERTIES
  EveryActionHandled
  ShutdownCompletes
  AnswersReachTheirRequest
  SubmittingEnds
