CONSTANTS
  Chan = {c1}
  NoChan = NoChan
  InKernelGic = TRUE
  Thread = {t1, p1}
  NoThread = NoThread
  Readers = {t1}
  Writers = {t1}
  Pollers = {p1}
  PollIn = {p1}
  PollOut = {}
  NonBlocking = {}
  Signalled = {}
  Faulting = {}
  ConnectResults = {"inprogress"}
  AsyncOutcomes = {"up", "refused"}
  Hangups = {}
SPECIFICATION PollFairSpec
INVARIANTS
  PollTypeOK
  PollMissesNoClose
  MutexDiscipline
PROPERTIES
  ReaderServed
  WriterServed
  PollerSeesClose
CHECK_DEADLOCK FALSE
