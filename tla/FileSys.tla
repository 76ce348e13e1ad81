------------------------------ MODULE FileSys ------------------------------
(* The file system: filesys.c, directory.c, inode.c, file.c, free-map.c.     *)
(* An operation holds file_system_lock, so what it does in memory is one     *)
(* step; what it writes to the disk reaches it write by write, and the       *)
(* machine can crash between two of them.  A malloc of an operation may fail,*)
(* but not those that read the directory.  Files and the directory keep the  *)
(* size they are created with.                                               *)
EXTENDS Integers, FiniteSets, Sequences, SequencesExt

CONSTANTS Name, Handle, Data,
          Zero,        \* what a sector of zeros holds
          SectorCnt,   \* sectors of the device
          Reserved,    \* of these: the free map, the root directory, their data
          DirSlots,    \* entries of the root directory
          MaxSectors,  \* bound: length of a file, in sectors
          MallocFails  \* bound: the places where memory may be short

NoName == ""      \* dir_add refuses it

ASSUME FileAssumption ==
  /\ SectorCnt \in Nat /\ Reserved \in 2..SectorCnt
  /\ DirSlots \in Nat /\ MaxSectors \in Nat
  /\ IsFiniteSet(Handle) /\ NoName \notin Name /\ Zero \in Data

VARIABLES disk,        \* on the device: free map, directory, inodes, data
          pending,     \* writes the running operation has still to make
          free_map,    \* sectors in use, in memory
          open_inodes, \* in-memory inodes, by sector
          handle,      \* the inode of each struct file
          lost         \* sectors in use that nothing leads to any more

fileVars == <<disk, pending, free_map, open_inodes, handle, lost>>

Sector == 0..SectorCnt - 1
NoSector == -1
Blank == [start |-> 0, len |-> 0]
NoInode == [cnt |-> 0, removed |-> FALSE]
NoEntry == [name |-> NoName, inode |-> NoSector]
Slot == 1..DirSlots
Run(start, cnt) == start..start + cnt - 1
DataOf(i) == Run(disk.inode[i].start, disk.inode[i].len)

\* The device after do_format.
FileInit ==
  /\ disk = [map |-> 0..Reserved - 1, dir |-> [s \in Slot |-> NoEntry],
             inode |-> [s \in Sector |-> Blank],
             data |-> [s \in Sector |-> Zero]]
  /\ pending = <<>> /\ free_map = disk.map
  /\ open_inodes = [s \in Sector |-> NoInode]
  /\ handle = [h \in Handle |-> NoSector]
  /\ lost = {}

-----------------------------------------------------------------------------
(* Writing.                                                                  *)

MapWrite(map) == <<[part |-> "map", at |-> 0, value |-> map]>>
InodeWrite(s, start, len) ==
  <<[part |-> "inode", at |-> s, value |-> [start |-> start, len |-> len]]>>
ZeroWrites(start, len) ==
  [i \in 1..len |-> [part |-> "data", at |-> start + i - 1, value |-> Zero]]
DirWrite(slot, e) == <<[part |-> "dir", at |-> slot, value |-> e]>>
\* What a sector that is not in use holds is forgotten: nothing reads it.
written(w) ==
  IF w.part = "map"
  THEN [disk EXCEPT !.map = w.value,
          !.inode = [s \in Sector |-> IF s \in w.value THEN @[s] ELSE Blank],
          !.data = [s \in Sector |-> IF s \in w.value THEN @[s] ELSE Zero]]
  ELSE [disk EXCEPT ![w.part][w.at] = w.value]
block_write ==
  /\ pending # <<>>
  /\ disk' = written(Head(pending)) /\ pending' = Tail(pending)
  /\ UNCHANGED <<free_map, open_inodes, handle, lost>>

(* The free map.  The map and the writes after a call.                       *)
Starts(map, cnt) ==
  { s \in Sector : s + cnt <= SectorCnt /\ Run(s, cnt) \cap map = {} }
Lowest(S) == CHOOSE s \in S : \A t \in S : s <= t
free_map_allocate_unwritten(map, cnt, fails) ==
  IF Starts(map, cnt) = {} \/ fails
  THEN [map |-> map, first |-> NoSector, writes |-> <<>>]
  ELSE LET s == Lowest(Starts(map, cnt))
       IN  [map |-> map \cup Run(s, cnt), first |-> s, writes |-> <<>>]
free_map_allocate(map, cnt, fails) ==
  IF Starts(map, cnt) = {} \/ fails
  THEN [map |-> map, first |-> NoSector, writes |-> <<>>]
  ELSE LET s == Lowest(Starts(map, cnt))
       IN  [map |-> map \cup Run(s, cnt), first |-> s,
            writes |-> MapWrite(map \cup Run(s, cnt))]
\* A release is not undone when the map cannot be written.
free_map_release(map, S, fails) ==
  [map |-> map \ S, writes |-> IF fails THEN <<>> ELSE MapWrite(map \ S)]

(* The root directory.                                                       *)
lookup(n) == { s \in Slot : disk.dir[s].name = n }
vacant == { s \in Slot : disk.dir[s] = NoEntry }

-----------------------------------------------------------------------------
(* Operations.  F holds the places where memory is short this time.          *)

Quiet == pending = <<>>
Does(writes, map) == pending' = writes /\ free_map' = map

\* filesys_create.  When no entry can be made the inode's sector is released,
\* the data sectors that inode_create allocated are not.
released_after(s, len, start) == {s}
filesys_create(n, len, F) ==
  LET a == free_map_allocate(free_map, 1, "map" \in F)
      b == free_map_allocate(a.map, len, "disk_inode" \in F)
      blank == b.writes \o InodeWrite(a.first, b.first, len)
                        \o ZeroWrites(b.first, len)
      canAdd == lookup(n) = {} /\ vacant # {} /\ "entry" \notin F
      undone == free_map_release(a.map, {a.first}, "release" \in F)
      notAdded == free_map_release(b.map, released_after(a.first, len, b.first),
                                   "release" \in F)
  IN
  /\ Quiet /\ "root" \notin F /\ a.first # NoSector
  /\ \/ b.first = NoSector
        /\ Does(a.writes \o undone.writes, undone.map) /\ UNCHANGED lost
     \/ b.first # NoSector /\ ~canAdd
        /\ Does(a.writes \o blank \o notAdded.writes, notAdded.map)
        /\ lost' = lost \cup Run(b.first, len)
     \/ b.first # NoSector /\ canAdd
        /\ Does(a.writes \o blank
                   \o DirWrite(Lowest(vacant), [name |-> n, inode |-> a.first]), b.map)
        /\ UNCHANGED lost
  /\ UNCHANGED <<disk, open_inodes, handle>>

inode_open(inode) == [inode EXCEPT !.cnt = @ + 1]
\* filesys_open: dir_lookup, inode_open, file_open.
filesys_open(h, n) ==
  /\ Quiet /\ handle[h] = NoSector /\ lookup(n) # {}
  /\ LET i == disk.dir[Lowest(lookup(n))].inode
     IN  /\ handle' = [handle EXCEPT ![h] = i]
         /\ open_inodes' = [open_inodes EXCEPT ![i] = inode_open(@)]
  /\ UNCHANGED <<disk, pending, free_map, lost>>

\* The last inode_close of a removed inode releases its sectors.
inode_closed_at_once(i, inode, prior, F) ==
  LET a == free_map_release(free_map, {i} \cup DataOf(i), FALSE)
  IN  IF inode.removed
      THEN /\ Does(prior \o a.writes, a.map)
           /\ open_inodes' = [open_inodes EXCEPT ![i] = inode]
      ELSE /\ Does(prior, free_map)
           /\ open_inodes' = [open_inodes EXCEPT ![i] = inode]
inode_closed(i, inode, prior, F) ==
  LET a == free_map_release(free_map, {i}, "release" \in F)
      b == free_map_release(a.map, DataOf(i), "release" \in F)
  IN  IF inode.cnt = 0 /\ inode.removed
      THEN /\ Does(prior \o a.writes \o b.writes, b.map)
           /\ open_inodes' = [open_inodes EXCEPT ![i] = NoInode]
      ELSE /\ Does(prior, free_map)
           /\ open_inodes' = [open_inodes EXCEPT ![i] = inode]

inode_close(inode) == [inode EXCEPT !.cnt = @ - 1]
file_close(h, F) ==
  LET i == handle[h] IN
  /\ Quiet /\ i # NoSector
  /\ handle' = [handle EXCEPT ![h] = NoSector]
  /\ inode_closed(i, inode_close(open_inodes[i]), <<>>, F)
  /\ UNCHANGED <<disk, lost>>

\* filesys_remove: the entry goes first, the sectors when nobody has the file
\* open.  Nothing happens when the entry cannot be written.
filesys_remove(n, F) ==
  LET found == lookup(n)
      i == disk.dir[Lowest(found)].inode
  IN  /\ Quiet /\ "root" \notin F /\ "entry" \notin F /\ found # {}
      /\ inode_closed(i, [open_inodes[i] EXCEPT !.removed = TRUE],
                      DirWrite(Lowest(found), NoEntry), F)
      /\ UNCHANGED <<disk, handle, lost>>

\* inode_write_at, one sector of the file.
file_write(h, s, v) ==
  /\ Quiet /\ handle[h] # NoSector /\ s \in DataOf(handle[h])
  /\ pending' = <<[part |-> "data", at |-> s, value |-> v]>>
  /\ UNCHANGED <<disk, free_map, open_inodes, handle, lost>>

\* The power fails, or goes off after filesys_done, and filesys_init reads the
\* free map: what was in memory is gone.
Reachable == LET inodes == { disk.dir[s].inode : s \in Slot } \ {NoSector}
             IN  inodes \cup UNION { DataOf(i) : i \in inodes }
restart ==
  /\ pending' = <<>> /\ free_map' = disk.map
  /\ open_inodes' = [s \in Sector |-> NoInode]
  /\ handle' = [h \in Handle |-> NoSector]
  /\ lost' = disk.map \ (0..Reserved - 1 \cup Reachable)
  /\ UNCHANGED disk

Shortages == {{}} \cup { {f} : f \in MallocFails }
FileNext ==
  \/ block_write \/ restart
  \/ \E F \in Shortages, n \in Name :
       \/ \E len \in 0..MaxSectors : filesys_create(n, len, F)
       \/ filesys_remove(n, F)
  \/ \E h \in Handle :
       \/ \E n \in Name : filesys_open(h, n)
       \/ \E F \in Shortages : file_close(h, F)
  \/ \E h \in Handle, s \in Sector, v \in Data : file_write(h, s, v)
FileSpec == FileInit /\ [][FileNext]_fileVars

-----------------------------------------------------------------------------
(* Properties.                                                               *)

FileTypeOK ==
  /\ disk.map \subseteq Sector
  /\ disk.dir \in [Slot -> [name : Name \cup {NoName}, inode : Sector \cup {NoSector}]]
  /\ disk.inode \in [Sector -> [start : Sector, len : 0..MaxSectors]]
  /\ disk.data \in [Sector -> Data]
  /\ free_map \subseteq Sector /\ lost \subseteq Sector
  /\ open_inodes \in [Sector -> [cnt : 0..Cardinality(Handle), removed : BOOLEAN]]
  /\ handle \in [Handle -> Sector \cup {NoSector}]

\* Whatever was written when the machine stopped, the device is consistent:
\* the sectors of each file in the directory are marked in use, and belong to
\* that file alone (filesys.c:46-59, inode.c:90-101, 171-185).
DiskConsistent ==
  LET sectors(s) == {disk.dir[s].inode} \cup DataOf(disk.dir[s].inode)
      entries == { s \in Slot : disk.dir[s] # NoEntry }
  IN  /\ 0..Reserved - 1 \cup Reachable \subseteq disk.map
      /\ \A s \in entries : sectors(s) \cap 0..Reserved - 1 = {}
      /\ \A s, t \in entries : s # t => sectors(s) \cap sectors(t) = {}

\* Said of dir_add: NAME "must not already" be in the directory
\* (directory.c:135-136), and relied on by every lookup.
NamesUnique ==
  \A s, t \in Slot :
    s # t /\ disk.dir[s] # NoEntry => disk.dir[s].name # disk.dir[t].name

\* In memory exactly the sectors of files are in use, of files in the directory
\* and removed ones that are still open, except those that a failed creation
\* left behind (filesys.c:54-55): nothing else leaks, nothing is freed early.
SectorsAccounted ==
  LET removed == { i \in Sector : open_inodes[i].removed }
  IN  Quiet => /\ free_map = 0..Reserved - 1 \cup Reachable \cup removed
                              \cup (UNION { DataOf(i) : i \in removed }) \cup lost
              /\ lost \cap Reachable = {}

\* An inode is open as often as files refer to it (inode.c:145-151, 171).
OpenCountsRight ==
  \A i \in Sector : open_inodes[i].cnt = Cardinality({ h \in Handle : handle[h] = i })

\* The safety of the file system, on the device after any stop and in memory.
FilesSafe ==
  /\ FileTypeOK /\ DiskConsistent /\ NamesUnique /\ SectorsAccounted /\ OpenCountsRight

\* The file system does what a table of names and files would (Files): an
\* operation takes effect when its directory entry or data are written.
InUse == ({ disk.dir[s].inode : s \in Slot } \cup { handle[h] : h \in Handle }) \ {NoSector}
Named == [n \in Name |-> IF lookup(n) = {} THEN NoSector
                         ELSE disk.dir[Lowest(lookup(n))].inode]
FileAt(i) == [x \in 1..disk.inode[i].len |-> disk.data[disk.inode[i].start + x - 1]]
Content == [i \in Sector |-> IF i \in InUse THEN FileAt(i) ELSE <<>>]
Abstract == INSTANCE Files WITH
  Id <- Sector, NoId <- NoSector,
  named <- Named, opened <- handle, content <- Content
ImplementsFiles == Abstract!FilesSpec
=============================================================================
