SPECIFICATION DevicesSpec
CONSTANTS
  Readers = {r1, r2}
  Writers = {w1}
  Byte = {b1, b2}
  Printed = {b1}
  INTQ_BUFSIZE = 3
  Users = {t1, t2}
  DiskSector = {s1, s2}
  Value = {v1, v2}
  Name = {"a", "b"}
  Handle = {h1, h2}
  Data = {0, 1}
  Zero = 0
  SectorCnt = 5
  Reserved = 2
  DirSlots = 2
  MaxSectors = 1
  MallocFails = {"root", "map", "disk_inode", "entry", "release"}
  MaxDown = 2
  Tables <- MCTables
  BlockSize = 6
  Sectors = 8
  MaxDepth = 3
INVARIANTS
  InputSafe
  ChannelSafe
  
  TypedRight
  PartitionsSafe
PROPERTIES
  QueuesAreFifos
  TransmitGoesOn
  CallsReturn
  
CHECK_DEADLOCK FALSE
