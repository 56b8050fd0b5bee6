CONSTANTS
  Cap = 6
  MaxWrite = 3
  MaxRefused = 2
  Known <- MCKnown
  NeedsArgs <- MCNeedsArgs
SPECIFICATION Spec
INVARIANTS
  TypeOK
  ServiceAsInvited
  AcceptedIsKept
CHECK_DEADLOCK FALSE
