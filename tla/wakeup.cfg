SPECIFICATION Spec
CONSTANTS
  Threads = {0, 2, 3}
  initial_thread = 0
  idle_thread = 1
  Locks = {}
  Semas = {S1, S2}
  IntrSemas = {S1}
  Priorities = {1, 2}
  PRI_MIN = 0
  PRI_DEFAULT = 2
  LOCK_SIZE = 8
  TIME_SLICE = 2
  MaxSleep = 2
  MaxValue = 2
  NULL = NULL
INVARIANTS
  NoLostWakeup
  NoOversleep
PROPERTIES
  NoEarlyWake
  TickRestoresOrder
