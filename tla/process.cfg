SPECIFICATION Spec
CONSTANTS
  MaxTid = 4
  ExitCodes <- MCExitCodes
  Garbage = {0}
INVARIANTS
  RecordsSafe
  
  WaitersTold

  
CHECK_DEADLOCK FALSE
