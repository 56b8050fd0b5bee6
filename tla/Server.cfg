CONSTANTS
  Server = Server
  ExitConn = ExitConn
  NoConn = NoConn
  Obj = {Server, c1, c2}
  StartFails = TRUE
  AcceptFails = TRUE
  UnbindFails = TRUE
SPECIFICATION FairSpec
INVARIANTS
  TypeOK
  RenderingProtected
  StopAfterFinalize
  IndInv
PROPERTIES
  ClientServed
  StopReturns
CHECK_DEADLOCK FALSE
