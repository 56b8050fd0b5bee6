CONSTANTS
  Chan = {c1}
  NoChan = NoChan
  InKernelGic = TRUE
  Thread = {t1, t2}
  NoThread = NoThread
  Readers = {t1, t2}
  Writers = {t1, t2}
  NonBlocking = {}
  Signalled = {}
  Faulting = {}
  ConnectResults = {"inprogress"}
  AsyncOutcomes = {"up", "refused"}
  Hangups = {c1}
SYMMETRY ThreadSymmetry
SPECIFICATION Spec
INVARIANTS
  CloseWakesSleepers
CHECK_DEADLOCK FALSE
