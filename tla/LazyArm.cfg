CONSTANTS
  Thread = {t1, t2}
  WeakMemory = TRUE
SPECIFICATION Spec
INVARIANT
  InfoFound
CHECK_DEADLOCK FALSE
