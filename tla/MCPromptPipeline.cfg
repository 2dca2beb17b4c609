SPECIFICATION MCSpec
CONSTANTS
  Thread = {t1}
  Draft = {d1}
  MaxPrompts = 3
  None = None
  Recovery = Recovery
INVARIANTS
  SlotIsCarried
  QueueIsServed
  OneUnanswered
PROPERTIES
  SentOnceInOrder
  EveryPromptSettles
