SPECIFICATION CondSpec
CONSTANTS
  Threads = {0, 2, 3}
  initial_thread = 0
  idle_thread = 1
  Locks = {L1}
  CondLock = L1
  Semas = {W0, W2, W3}
  waiter <- MCwaiter
  IntrSemas = {}
  Priorities = {1, 2}
  PRI_MIN = 0
  PRI_DEFAULT = 1
  LOCK_SIZE = 8
  TIME_SLICE = 1
  MaxSleep = 1
  MaxValue = 1
  NULL = NULL
INVARIANTS
  CondSafe

  
CHECK_DEADLOCK FALSE
