SPECIFICATION FairSpec
CONSTANTS
  Threads = {0, 2, 3}
  initial_thread = 0
  idle_thread = 1
  Locks = {L1}
  Semas = {}
  IntrSemas = {}
  Priorities = {1}
  PRI_MIN = 0
  PRI_DEFAULT = 1
  LOCK_SIZE = 8
  TIME_SLICE = 2
  MaxSleep = 2
  MaxValue = 1
  NULL = NULL
PROPERTIES
  ReadyRuns
  SleepersWake
  ImplementsFairMutex
