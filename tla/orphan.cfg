SPECIFICATION Spec
CONSTANTS
  MaxTid = 3
  ExitCodes <- MCExitCodes
  Garbage = {0, 255}
INVARIANT NoWriteAfterFree
CHECK_DEADLOCK FALSE
