CONSTANTS
  Chan = {c1, c2}
  NoChan = NoChan
  InKernelGic = TRUE
  Thread = {t1}
  NoThread = NoThread
  Readers = {t1}
  Writers = {t1}
  NonBlocking = {}
  Signalled = {}
  Faulting = {}
  ConnectResults = {"inprogress"}
  AsyncOutcomes = {"up", "refused"}
  Hangups = {c1, c2}
SYMMETRY ChanSymmetry
SPECIFICATION Spec
INVARIANTS
  NeverNullPipe
CHECK_DEADLOCK FALSE
