CONSTANTS
  Thread = {t1, t2}
  Ctx = {x1, x2}
  GL2 = {x2}
  Win = {w1, w2}
  Buf = {b1}
  Empty = {}
  Large = {}
  None = None
  W = 4
  WinSizes = {1, 2}
  MaxRef = 1
  Wraps = TRUE
  Posting = FALSE
  EglFails = FALSE
  CrossThread = FALSE
SYMMETRY Symmetry
SPECIFICATION Spec
INVARIANTS
  TypeOK
  CurrentAgrees
  WindowsKnowContext
  HandlesDistinct
PROPERTIES
  NamesKept
CHECK_DEADLOCK FALSE
