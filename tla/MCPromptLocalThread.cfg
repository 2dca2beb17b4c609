SPECIFICATION MCSpec
CONSTANTS
  Thread = {t1}
  Draft = {d1}
  MaxPrompts = 3
  None = None
  Recovery = Recovery
INVARIANT NoTurnToLocalThread
