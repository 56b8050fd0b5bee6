CONSTANTS
  Thread = {t1, t2}
  Ctx = {x1}
  GL2 = {x1}
  Win = {w1}
  Buf = {b1, b2, b3}
  Empty = {b3}
  Large = {b2}
  None = None
  W = 4
  WinSizes = {0, 1, 2}
  MaxRef = 2
  Wraps = FALSE
  Posting = TRUE
  EglFails = TRUE
  CrossThread = FALSE
SYMMETRY Symmetry
SPECIFICATION Spec
INVARIANTS
  CurrentIsReal
  SurfaceFitsBuffer
  RefcountIsClients
  ShowsLastPosted
CHECK_DEADLOCK FALSE
