SPECIFICATION MCSpec
CONSTANTS
    Thread = {t1}
    MaxPrompts = 2
    Draft = Draft
    None = None
INVARIANTS
    WaitsAreReal
    RemovalIsAlone
PROPERTIES
    SentOnceInOrder
    EveryPromptSettles
CHECK_DEADLOCK FALSE
