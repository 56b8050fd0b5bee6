CONSTANTS
  Chan = {c1}
  NoChan = NoChan
  InKernelGic = TRUE
  Thread = {t1}
  NoThread = NoThread
  Readers = {t1}
  Writers = {t1}
  NonBlocking = {}
  Signalled = {}
  Faulting = {}
  ConnectResults = {"inprogress"}
  AsyncOutcomes = {"up"}
  Hangups = {c1}
SPECIFICATION FairSpec
PROPERTIES
  ReaderWoken
CHECK_DEADLOCK FALSE
