CONSTANTS
  Thread = {t1, t2, t3}
  WeakMemory = FALSE
SPECIFICATION FairSpec
INVARIANTS
  IndInv
PROPERTIES
  ImplementsThreadLocal
  AccessReturns
CHECK_DEADLOCK FALSE
