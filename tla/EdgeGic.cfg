CONSTANTS
  Chan = {c1}
  NoChan = NoChan
  InKernelGic = FALSE
  Thread = {t1}
  NoThread = NoThread
  Readers = {t1}
  Writers = {t1}
  NonBlocking = {}
  Signalled = {}
  Faulting = {}
  ConnectResults = {"complete", "inprogress"}
  AsyncOutcomes = {"up", "refused"}
  Hangups = {}
SPECIFICATION Spec
INVARIANTS
  ItemsRaiseIrq
CHECK_DEADLOCK FALSE
