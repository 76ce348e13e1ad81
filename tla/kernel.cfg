SPECIFICATION KernelSpec
CONSTANTS
  Workers = {w1, w2}
  Nice <- MCNice
  F = 2
  TIMER_FREQ = 2
  RECALCU_FREQ = 1
  TIME_SLICE = 2
  Minute = 2
  PRI_DEFAULT = 1
  PRI_MAX = 3
  Callers = {c1, c2}
  bit_cnt = 4
  MaxRun = 2
  PageBytes = 6
  Header = 2
  MinBlock = 1
  PoolPages = 3
  MaxBlocks = 5
  Procs = {p1, p2}
  Kernel = no_process
  Executables <- MCExecutables
  UserPages = 3
  KernelPages = 5
  PGSIZE = 2
  PHYS_BASE = 10
  PerTable = 4
  Addresses = 16
  LastPage = 3
  MaxTid = 4
  Lines <- MCLines
  StackTop = 102
  StackSize = 50
  WORD_SIZE = 5
  ARGV_COUNTER = 2
  Key = {0, 1, 2, 3, 4}
  Item = {1, 2, 3, 4, 5, 6}
  HashOf <- MCHash
  MinBuckets = 1
  BEST_ELEMS_PER_BUCKET = 1
  Values = {1, 2, 3}
  MaxCnt = 5
  Half = 4
  Keys = {1, 2, 3}
  MaxLen = 4
INVARIANTS
  MlfqsSafe
  PagesSafe
  BlocksSafe
  SpacesSafe
  AllListSafe
  ArgsSafe
  
PROPERTIES
  
  ImplementsPool
  ImplementsTable
CHECK_DEADLOCK FALSE
