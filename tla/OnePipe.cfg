CONSTANTS
  Chan = {c1}
  NoChan = NoChan
  InKernelGic = TRUE
  Thread = {t1, t2}
  NoThread = NoThread
  Readers = {t1}
  Writers = {t2}
  NonBlocking = {}
  Signalled = {t1}
  Faulting = {t2}
  ConnectResults = {"complete", "inprogress", "error", "nosocket"}
  AsyncOutcomes = {"up", "refused"}
  Hangups = {c1}
SPECIFICATION Spec
INVARIANTS
  TypeOK
  NoLostWakeup
  CloseReported
  NoStaleChannel
  PendingServed
  IndInv
CHECK_DEADLOCK FALSE
