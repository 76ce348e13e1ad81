----------------------------- MODULE FileProofs -----------------------------
(* That the file system is consistent on the device at every stop, and in    *)
(* memory between operations, and does what Files promises: proofs about     *)
(* FileSys.                                                                  *)
EXTENDS FileSys, KernelLists_proofs, FiniteSetTheorems, TLAPS

-----------------------------------------------------------------------------
(* The inductive invariant.  d and r are the directory and the inodes that   *)
(* the device will hold when the pending writes have been made.              *)

Entry == [name : Name, inode : Sector] \cup {NoEntry}
InodeData == [start : Sector, len : 0..MaxSectors]
Write == [part : {"map"}, at : {0}, value : SUBSET Sector]
           \cup [part : {"inode"}, at : Sector, value : InodeData]
           \cup [part : {"data"}, at : Sector, value : Data]
           \cup [part : {"dir"}, at : Slot, value : Entry]
Disk == [map : SUBSET Sector, dir : [Slot -> Entry], inode : [Sector -> InodeData],
         data : [Sector -> Data]]

Kept == 0..Reserved - 1
\* The sectors of a file: its inode and its data.
SectorsOf(r, i) == {i} \cup Run(r[i].start, r[i].len)
Listed(d) == { d[s].inode : s \in Slot } \ {NoSector}
Removed == { i \in Sector : open_inodes[i].removed }
Owners(d) == Listed(d) \cup Removed
\* The files that a name or a handle leads to.
Led == Listed(disk.dir) \cup Removed

WellTyped ==
  /\ disk \in Disk /\ pending \in Seq(Write) /\ free_map \subseteq Sector
  /\ lost \subseteq Sector
  /\ open_inodes \in [Sector -> [cnt : Nat, removed : BOOLEAN]]
  /\ handle \in [Handle -> Sector \cup {NoSector}]

\* A directory without two entries of one name or one inode.
DirOK(d) == \A s, t \in Slot : s # t /\ d[s] # NoEntry =>
              d[s].name # d[t].name /\ d[s].inode # d[t].inode

\* Who uses the sectors that are in use in memory.
MemoryOK(d, r) ==
  /\ DirOK(d) /\ Listed(d) \cap Removed = {}
  /\ \A i, j \in Owners(d) : i # j => SectorsOf(r, i) \cap SectorsOf(r, j) = {}
  /\ \A i \in Owners(d) : SectorsOf(r, i) \cap (Kept \cup lost) = {}
  /\ lost \cap Kept = {}
  /\ \A x : x \in free_map <=> x \in Kept \/ x \in lost \/ \E i \in Owners(d) : x \in SectorsOf(r, i)
  /\ \A i \in Sector : /\ open_inodes[i].cnt # 0 => i \in Owners(d)
                       /\ open_inodes[i].removed => open_inodes[i].cnt # 0

\* What a stop of the machine would leave.
DiskOK ==
  /\ DirOK(disk.dir) /\ Kept \subseteq disk.map
  /\ \A i \in Listed(disk.dir) :
       SectorsOf(disk.inode, i) \subseteq disk.map /\ SectorsOf(disk.inode, i) \cap Kept = {}
  /\ \A i, j \in Listed(disk.dir) :
       i # j => SectorsOf(disk.inode, i) \cap SectorsOf(disk.inode, j) = {}

\* The pending writes lead from the device to d and r: an entry is taken away
\* first and added last, ...
DirWrites(d) ==
  /\ \A k \in DOMAIN pending : pending[k].part = "dir" =>
       /\ d[pending[k].at] = pending[k].value
       /\ pending[k].value = NoEntry => k = 1
       /\ pending[k].value # NoEntry => k = Len(pending) /\ disk.dir[pending[k].at] = NoEntry
       /\ \A j \in DOMAIN pending : pending[j].part = "dir" => j = k
  /\ \A s \in Slot : d[s] # disk.dir[s] =>
       \E k \in DOMAIN pending : pending[k].part = "dir" /\ pending[k].at = s
\* ... an inode is written before anything leads to it, ...
InodeWrites(d, r) ==
  /\ \A k \in DOMAIN pending : pending[k].part = "inode" =>
       /\ pending[k].at \notin Listed(disk.dir) \cup Removed
       /\ pending[k].at \in Owners(d) => pending[k].value = r[pending[k].at]
  /\ \A i \in Owners(d) : r[i] # disk.inode[i] =>
       \E k \in DOMAIN pending : pending[k].part = "inode" /\ pending[k].at = i
\* ... and a map that lacks sectors of a file is followed by another.
MapWrites(d, r) ==
  /\ \A k \in DOMAIN pending : pending[k].part = "map" =>
       /\ Kept \subseteq pending[k].value
       /\ \A i \in Owners(d) :
            /\ i \in pending[k].value
            /\ i \in Led => SectorsOf(r, i) \subseteq pending[k].value
            /\ \/ SectorsOf(r, i) \subseteq pending[k].value
               \/ k < Len(pending) /\ pending[k + 1].part = "map"
  /\ \A i \in Owners(d) :
       \/ SectorsOf(r, i) \subseteq disk.map
       \/ pending # <<>> /\ pending[1].part = "map"

World(d, r) ==
  MemoryOK(d, r) /\ DirWrites(d) /\ InodeWrites(d, r) /\ MapWrites(d, r)
FileInv ==
  /\ WellTyped /\ DiskOK /\ OpenCountsRight
  /\ \E d \in [Slot -> Entry], r \in [Sector -> InodeData] : World(d, r)


-----------------------------------------------------------------------------
(* What a write does to the device.                                          *)

\* Each write changes its part of the device, that of the map forgets what is
\* in sectors that are not in use.
LEMMA WriteIs ==
    ASSUME disk \in Disk, NEW w \in Write
    PROVE  /\ written(w) \in Disk
           /\ w.part = "map" =>
                /\ written(w).map = w.value /\ written(w).dir = disk.dir
                /\ \A s \in Sector : written(w).inode[s] =
                                       IF s \in w.value THEN disk.inode[s] ELSE Blank
           /\ w.part = "dir" =>
                /\ written(w).map = disk.map /\ written(w).inode = disk.inode
                /\ written(w).dir = [disk.dir EXCEPT ![w.at] = w.value]
           /\ w.part = "inode" =>
                /\ written(w).map = disk.map /\ written(w).dir = disk.dir
                /\ written(w).inode = [disk.inode EXCEPT ![w.at] = w.value]
           /\ w.part = "data" =>
                written(w).map = disk.map /\ written(w).dir = disk.dir
                  /\ written(w).inode = disk.inode
<1>1. CASE w.part = "map"
  <2>0. w.value \in SUBSET Sector
    BY <1>1 DEF Write
  <2>1. Blank \in InodeData /\ Zero \in Data
    <3>1. SectorCnt \in Nat /\ 2 <= SectorCnt /\ MaxSectors \in Nat /\ Zero \in Data
      BY FileAssumption
    <3>2. QED BY <3>1 DEF Blank, InodeData, Sector
  <2>2. QED BY <1>1, <2>0, <2>1 DEF written, Disk
<1>2. CASE w.part = "dir"
  <2>1. w.at \in Slot /\ w.value \in Entry
    BY <1>2 DEF Write
  <2>2. written(w) = [disk EXCEPT !.dir = [disk.dir EXCEPT ![w.at] = w.value]]
    BY <1>2, <2>1 DEF written, Disk
  <2>3. QED BY <1>2, <2>1, <2>2 DEF Disk
<1>3. CASE w.part = "inode"
  <2>1. w.at \in Sector /\ w.value \in InodeData
    BY <1>3 DEF Write
  <2>2. written(w) = [disk EXCEPT !.inode = [disk.inode EXCEPT ![w.at] = w.value]]
    BY <1>3, <2>1 DEF written, Disk
  <2>3. QED BY <1>3, <2>1, <2>2 DEF Disk
<1>4. CASE w.part = "data"
  <2>1. w.at \in Sector /\ w.value \in Data
    BY <1>4 DEF Write
  <2>2. written(w) = [disk EXCEPT !.data = [disk.data EXCEPT ![w.at] = w.value]]
    BY <1>4, <2>1 DEF written, Disk
  <2>3. QED BY <1>4, <2>1, <2>2 DEF Disk
<1>5. QED BY <1>1, <1>2, <1>3, <1>4 DEF Write

\* The pending writes once the first is made: what was at k + 1 is at k.
LEMMA FirstWritten ==
    ASSUME WellTyped, block_write
    PROVE  /\ Head(pending) = pending[1] /\ pending[1] \in Write
           /\ 1 \in DOMAIN pending /\ Len(pending) \in Nat
           /\ DOMAIN pending = 1..Len(pending)
           /\ Len(pending') = Len(pending) - 1 /\ DOMAIN pending' = 1..Len(pending) - 1
           /\ \A k \in DOMAIN pending' : pending'[k] = pending[k + 1] /\ k + 1 \in DOMAIN pending
           /\ pending' \in Seq(Write)
<1>1. pending \in Seq(Write) /\ pending # <<>> /\ pending' = Tail(pending)
  BY DEF WellTyped, block_write
<1>2. QED BY <1>1

\* An entry is taken just when it leads to an inode.
LEMMA EntryIs ==
    ASSUME NEW e \in Entry
    PROVE  (e # NoEntry <=> e.inode # NoSector) /\ (e # NoEntry => e.inode \in Sector)
<1>1. \A s \in Sector : s # NoSector
  BY DEF Sector, NoSector
<1>2. NoEntry.inode = NoSector
  BY DEF NoEntry
<1>3. CASE e = NoEntry
  BY <1>2, <1>3
<1>4. CASE e \in [name : Name, inode : Sector]
  BY <1>1, <1>2, <1>4
<1>5. QED BY <1>3, <1>4 DEF Entry

\* A write reaches the device.
LEMMA BlockWriteKeeps == ASSUME FileInv, block_write PROVE FileInv'
<1> DEFINE w == pending[1]
<1>1. PICK d \in [Slot -> Entry], r \in [Sector -> InodeData] : World(d, r)
  BY DEF FileInv
<1>2. /\ WellTyped /\ DiskOK /\ OpenCountsRight /\ disk \in Disk
      /\ UNCHANGED <<free_map, open_inodes, handle, lost>> /\ disk' = written(w)
  BY FirstWritten DEF FileInv, WellTyped, block_write
<1>3. /\ w \in Write /\ 1 \in DOMAIN pending /\ Len(pending) \in Nat
      /\ DOMAIN pending = 1..Len(pending)
      /\ Len(pending') = Len(pending) - 1 /\ DOMAIN pending' = 1..Len(pending) - 1
      /\ \A k \in DOMAIN pending' : pending'[k] = pending[k + 1] /\ k + 1 \in DOMAIN pending
      /\ pending' \in Seq(Write)
  BY <1>2, FirstWritten
<1>4. /\ disk' \in Disk
      /\ w.part = "map" =>
           /\ disk'.map = w.value /\ disk'.dir = disk.dir
           /\ \A s \in Sector : disk'.inode[s] = IF s \in w.value THEN disk.inode[s] ELSE Blank
      /\ w.part = "dir" =>
           /\ disk'.map = disk.map /\ disk'.inode = disk.inode
           /\ disk'.dir = [disk.dir EXCEPT ![w.at] = w.value]
      /\ w.part = "inode" =>
           /\ disk'.map = disk.map /\ disk'.dir = disk.dir
           /\ disk'.inode = [disk.inode EXCEPT ![w.at] = w.value]
      /\ w.part = "data" =>
           disk'.map = disk.map /\ disk'.dir = disk.dir /\ disk'.inode = disk.inode
  BY <1>2, <1>3, WriteIs
<1>5. WellTyped'
  BY <1>2, <1>3, <1>4 DEF WellTyped
<1>6. OpenCountsRight'
  BY <1>2 DEF OpenCountsRight
<1>7. Removed' = Removed /\ Owners(d)' = Owners(d) /\ MemoryOK(d, r)'
  BY <1>1, <1>2 DEF World, MemoryOK, Removed, Owners
<1> HIDE DEF w

<1>8. \A k \in DOMAIN pending : k # 1 => k - 1 \in DOMAIN pending' /\ pending'[k - 1] = pending[k]
  BY <1>3
<1>9. /\ DirWrites(d) /\ InodeWrites(d, r) /\ MapWrites(d, r) /\ MemoryOK(d, r)
      /\ \A s \in Slot : /\ disk.dir[s] # NoEntry <=> disk.dir[s].inode # NoSector
                         /\ d[s] # NoEntry <=> d[s].inode # NoSector
      /\ disk.dir \in [Slot -> Entry] /\ disk.inode \in [Sector -> InodeData]
  <2>1. disk.dir \in [Slot -> Entry] /\ disk.inode \in [Sector -> InodeData]
    BY <1>2 DEF Disk
  <2>2. QED BY <1>1, <2>1, EntryIs DEF World
<1>10. /\ \A i \in Listed(d) : i \in Owners(d)
       /\ \A i \in Listed(disk.dir) \cup Owners(d) : i \in Sector
  BY <1>9 DEF Listed, Owners, Removed, Entry, NoEntry, NoSector
<1>11. w.part = "dir" => disk'.dir = d /\ (Listed(d) \subseteq Listed(disk.dir) \/ Len(pending) = 1)
  <2> SUFFICES ASSUME w.part = "dir"
               PROVE  disk'.dir = d /\ (Listed(d) \subseteq Listed(disk.dir) \/ Len(pending) = 1)
    OBVIOUS
  <2>1. /\ d[w.at] = w.value /\ disk'.dir = [disk.dir EXCEPT ![w.at] = w.value]
        /\ w.value # NoEntry => Len(pending) = 1
        /\ \A s \in Slot : s # w.at => d[s] = disk.dir[s]
    BY <1>3, <1>4, <1>9 DEF DirWrites, w
  <2>2. disk'.dir = d
    BY <1>9, <2>1
  <2>3. w.value = NoEntry => Listed(d) \subseteq Listed(disk.dir)
    BY <1>9, <2>1 DEF Listed
  <2>4. QED BY <2>1, <2>2, <2>3
<1>12. DirWrites(d)'
  <2>1. CASE w.part = "dir"
    <3>1. \A k \in DOMAIN pending' : pending'[k].part # "dir"
      BY <1>3, <1>9, <2>1 DEF DirWrites, w
    <3>2. QED BY <1>11, <2>1, <3>1 DEF DirWrites
  <2>2. CASE w.part # "dir"
    <3>1. disk'.dir = disk.dir
      BY <1>3, <1>4, <2>2 DEF Write
    <3>2. \A k \in DOMAIN pending' : pending'[k].part = "dir" =>
            /\ d[pending'[k].at] = pending'[k].value
            /\ pending'[k].value = NoEntry => k = 1
            /\ pending'[k].value # NoEntry =>
                 k = Len(pending') /\ disk.dir[pending'[k].at] = NoEntry
            /\ \A j \in DOMAIN pending' : pending'[j].part = "dir" => j = k
      BY <1>3, <1>9 DEF DirWrites
    <3>3. \A s \in Slot : d[s] # disk.dir[s] =>
            \E k \in DOMAIN pending' : pending'[k].part = "dir" /\ pending'[k].at = s
      BY <1>8, <1>9, <2>2 DEF DirWrites, w
    <3>4. QED BY <3>1, <3>2, <3>3 DEF DirWrites
  <2>3. QED BY <2>1, <2>2
<1>13. InodeWrites(d, r)'
  <2>1. \A k \in DOMAIN pending' : pending'[k].part = "inode" =>
          /\ pending'[k].at \notin Listed(disk'.dir) \cup Removed
          /\ pending'[k].at \in Owners(d) => pending'[k].value = r[pending'[k].at]
    <3>1. \A k \in DOMAIN pending' : pending'[k].part = "inode" =>
            /\ pending'[k].at \notin Listed(disk.dir) \cup Removed
            /\ pending'[k].at \in Owners(d) => pending'[k].value = r[pending'[k].at]
      BY <1>3, <1>9 DEF InodeWrites
    <3>2. CASE w.part = "dir"
      BY <1>3, <1>11, <3>1, <3>2
    <3>3. CASE w.part # "dir"
      BY <1>3, <1>4, <3>1, <3>3 DEF Write
    <3>4. QED BY <3>2, <3>3
  <2>2. ASSUME NEW i \in Owners(d), r[i] # disk'.inode[i]
        PROVE  \E k \in DOMAIN pending' : pending'[k].part = "inode" /\ pending'[k].at = i
    <3>1. i \in Sector
      BY <1>10
    <3>2. r[i] # disk.inode[i] /\ ~(w.part = "inode" /\ w.at = i)
      <4>1. CASE w.part = "map"
        BY <1>3, <1>4, <1>9, <2>2, <3>1, <4>1 DEF MapWrites, w
      <4>2. CASE w.part = "inode"
        BY <1>3, <1>4, <1>9, <2>2, <3>1, <4>2 DEF InodeWrites, w
      <4>3. CASE w.part \in {"data", "dir"}
        BY <1>4, <2>2, <4>3
      <4>4. QED BY <1>3, <4>1, <4>2, <4>3 DEF Write
    <3>3. PICK k \in DOMAIN pending : pending[k].part = "inode" /\ pending[k].at = i
      BY <1>9, <3>2 DEF InodeWrites
    <3>4. QED BY <1>8, <3>2, <3>3 DEF w
  <2>3. QED BY <1>7, <2>1, <2>2 DEF InodeWrites
<1>14. MapWrites(d, r)'
  <2>1. ASSUME NEW k \in DOMAIN pending', pending'[k].part = "map"
        PROVE  /\ Kept \subseteq pending'[k].value
               /\ \A i \in Owners(d) :
                    /\ i \in pending'[k].value
                    /\ i \in Led' => SectorsOf(r, i) \subseteq pending'[k].value
                    /\ \/ SectorsOf(r, i) \subseteq pending'[k].value
                       \/ k < Len(pending') /\ pending'[k + 1].part = "map"
    <3>1. /\ Kept \subseteq pending'[k].value
          /\ \A i \in Owners(d) :
               /\ i \in pending'[k].value
               /\ i \in Led => SectorsOf(r, i) \subseteq pending'[k].value
               /\ \/ SectorsOf(r, i) \subseteq pending'[k].value
                  \/ k < Len(pending') /\ pending'[k + 1].part = "map"
      <4>1. pending[k + 1].part = "map" /\ k + 1 \in DOMAIN pending /\ k \in Nat
        BY <1>3, <2>1
      <4>2. /\ Kept \subseteq pending[k + 1].value
            /\ \A i \in Owners(d) :
               /\ i \in pending[k + 1].value
               /\ i \in Led => SectorsOf(r, i) \subseteq pending[k + 1].value
               /\ \/ SectorsOf(r, i) \subseteq pending[k + 1].value
                  \/ k + 1 < Len(pending) /\ pending[k + 1 + 1].part = "map"
        BY <1>9, <4>1 DEF MapWrites
      <4>3. k + 1 < Len(pending) => k < Len(pending') /\ pending'[k + 1] = pending[k + 1 + 1]
        BY <1>3, <4>1
      <4>4. QED BY <1>3, <4>2, <4>3
    <3>2. \A i \in Led' : i \in Led
      <4>1. CASE w.part = "dir"
        BY <1>3, <1>7, <1>11, <4>1 DEF Led
      <4>2. CASE w.part # "dir"
        BY <1>3, <1>4, <1>7, <4>2 DEF Write, Led
      <4>3. QED BY <4>1, <4>2
    <3>3. QED BY <3>1, <3>2
  <2>2. \A i \in Owners(d) :
          \/ SectorsOf(r, i) \subseteq disk'.map
          \/ pending' # <<>> /\ pending'[1].part = "map"
    <3>1. CASE w.part = "map"
      <4>1. \A i \in Owners(d) :
              \/ SectorsOf(r, i) \subseteq w.value
              \/ 1 < Len(pending) /\ pending[1 + 1].part = "map"
        BY <1>3, <1>9, <3>1 DEF MapWrites, w
      <4>2. 1 < Len(pending) => pending' # <<>> /\ pending'[1] = pending[1 + 1]
        BY <1>3
      <4>3. QED BY <1>4, <3>1, <4>1, <4>2
    <3>2. CASE w.part # "map"
      <4>1. disk'.map = disk.map
        BY <1>3, <1>4, <3>2 DEF Write
      <4>2. QED BY <1>9, <3>2, <4>1 DEF MapWrites, w
    <3>3. QED BY <3>1, <3>2
  <2>3. QED BY <1>7, <2>1, <2>2 DEF MapWrites
<1>15. DiskOK'
  <2>1. CASE w.part = "dir"
    <3>1. disk'.dir = d /\ disk'.inode = disk.inode /\ disk'.map = disk.map
      BY <1>4, <1>11, <2>1
    <3>2. \A i \in Listed(d) : r[i] = disk.inode[i]
      <4> SUFFICES ASSUME NEW i \in Listed(d), r[i] # disk.inode[i] PROVE FALSE
        OBVIOUS
      <4>1. PICK k \in DOMAIN pending : pending[k].part = "inode" /\ pending[k].at = i
        BY <1>9, <1>10 DEF InodeWrites
      <4>2. i \notin Listed(disk.dir)
        BY <1>9, <4>1 DEF InodeWrites
      <4>3. k # 1
        BY <2>1, <4>1 DEF w
      <4>4. QED BY <1>3, <1>11, <2>1, <4>2, <4>3
    <3>3. \A i \in Listed(d) : /\ SectorsOf(disk.inode, i) = SectorsOf(r, i)
                               /\ SectorsOf(r, i) \subseteq disk.map
      BY <1>9, <1>10, <2>1, <3>2 DEF SectorsOf, MapWrites, w
    <3>4. /\ DirOK(d) /\ Kept \subseteq disk.map
          /\ \A i, j \in Listed(d) : i # j => SectorsOf(r, i) \cap SectorsOf(r, j) = {}
          /\ \A i \in Listed(d) : SectorsOf(r, i) \cap Kept = {}
      BY <1>2, <1>9, <1>10 DEF MemoryOK, DiskOK
    <3>5. QED BY <3>1, <3>3, <3>4 DEF DiskOK
  <2>2. CASE w.part = "map"
    <3>1. disk'.dir = disk.dir /\ disk'.map = w.value
      BY <1>4, <2>2
    <3>2. \A s \in Slot : disk.dir[s] # NoEntry => d[s] = disk.dir[s]
      BY <1>3, <1>9, <2>2 DEF DirWrites, w
    <3>3. \A i \in Listed(disk.dir) : i \in Owners(d) /\ i \in Sector
      BY <1>9, <1>10, <3>2 DEF Listed
    <3>4. \A i \in Listed(disk.dir) : r[i] = disk.inode[i]
      BY <1>9, <3>3 DEF InodeWrites
    <3>5. /\ Kept \subseteq w.value
          /\ \A i \in Listed(disk.dir) : i \in w.value /\ SectorsOf(r, i) \subseteq w.value
      BY <1>3, <1>9, <2>2, <3>3 DEF MapWrites, w, Led
    <3>6. \A i \in Listed(disk.dir) :
            /\ SectorsOf(disk'.inode, i) = SectorsOf(disk.inode, i)
            /\ SectorsOf(disk.inode, i) = SectorsOf(r, i)
      BY <1>4, <2>2, <3>3, <3>4, <3>5 DEF SectorsOf
    <3>7. QED BY <1>2, <3>1, <3>5, <3>6 DEF DiskOK
  <2>3. CASE w.part \in {"inode", "data"}
    <3>1. disk'.dir = disk.dir /\ disk'.map = disk.map
      BY <1>4, <2>3
    <3>2. \A i \in Listed(disk.dir) : disk'.inode[i] = disk.inode[i]
      <4>1. CASE w.part = "data"
        BY <1>4, <4>1
      <4>2. CASE w.part = "inode"
        <5>1. w.at \notin Listed(disk.dir)
          BY <1>3, <1>9, <4>2 DEF InodeWrites, w
        <5>2. \A i \in Listed(disk.dir) : i \in Sector /\ i # w.at
          BY <1>10, <5>1
        <5>3. QED BY <1>4, <1>9, <4>2, <5>2
      <4>3. QED BY <2>3, <4>1, <4>2
    <3>3. \A i \in Listed(disk.dir) : SectorsOf(disk'.inode, i) = SectorsOf(disk.inode, i)
      BY <3>2 DEF SectorsOf
    <3>4. QED BY <1>2, <3>1, <3>3 DEF DiskOK
  <2>4. QED BY <1>3, <2>1, <2>2, <2>3 DEF Write
<1>16. World(d, r)'
  BY <1>7, <1>12, <1>13, <1>14 DEF World
<1>17. QED BY <1>5, <1>6, <1>15, <1>16 DEF FileInv

-----------------------------------------------------------------------------
(* What an operation finds, and what it may leave.                           *)

\* With nothing to write, the device holds what memory goes by.
LEMMA QuietWorld ==
    ASSUME FileInv, pending = <<>>
    PROVE  /\ MemoryOK(disk.dir, disk.inode)
           /\ disk.dir \in [Slot -> Entry] /\ disk.inode \in [Sector -> InodeData]
           /\ \A i \in Owners(disk.dir) : SectorsOf(disk.inode, i) \subseteq disk.map
<1>1. PICK d \in [Slot -> Entry], r \in [Sector -> InodeData] : World(d, r)
  BY DEF FileInv
<1>2. DOMAIN pending = {}
  OBVIOUS
<1>3. disk.dir \in [Slot -> Entry] /\ disk.inode \in [Sector -> InodeData]
  BY DEF FileInv, WellTyped, Disk
<1>4. d = disk.dir
  <2>1. \A s \in Slot : d[s] = disk.dir[s]
    BY <1>1, <1>2 DEF World, DirWrites
  <2>2. QED BY <1>3, <2>1
<1>5. \A i \in Owners(d) : r[i] = disk.inode[i]
  BY <1>1, <1>2 DEF World, InodeWrites
<1>6. \A i \in Owners(d) : SectorsOf(r, i) = SectorsOf(disk.inode, i)
  BY <1>5 DEF SectorsOf
<1>7. MemoryOK(d, r) /\ \A i \in Owners(d) : SectorsOf(r, i) \subseteq disk.map
  BY <1>1 DEF World, MapWrites
<1>8. MemoryOK(d, disk.inode)
  BY <1>6, <1>7 DEF MemoryOK
<1>9. QED BY <1>3, <1>4, <1>6, <1>7, <1>8

\* The same of the next state.
LEMMA QuietAgain ==
    ASSUME WellTyped', DiskOK', OpenCountsRight', pending' = <<>>,
           NEW d, NEW r, d = disk'.dir, r = disk'.inode, MemoryOK(d, r)',
           \A i \in Owners(d)' : SectorsOf(r, i) \subseteq disk'.map
    PROVE  FileInv'
<1>1. DOMAIN pending' = {}
  OBVIOUS
<1>2. d \in [Slot -> Entry] /\ r \in [Sector -> InodeData]
  BY DEF WellTyped, Disk
<1>3. DirWrites(d)' /\ InodeWrites(d, r)' /\ MapWrites(d, r)'
  BY <1>1 DEF DirWrites, InodeWrites, MapWrites
<1>4. World(d, r)'
  BY <1>3 DEF World
<1>5. QED BY <1>2, <1>4 DEF FileInv

\* A device that does not change stays consistent.
LEMMA DiskKept == ASSUME DiskOK, disk' = disk PROVE DiskOK'
BY DEF DiskOK

\* What leads to a sector.
LEMMA ReachableIs ==
    \A x : x \in Reachable <=> \E i \in Listed(disk.dir) : x \in SectorsOf(disk.inode, i)
BY DEF Reachable, Listed, SectorsOf, DataOf

\* The machine starts again with what is on the device.
LEMMA RestartKeeps == ASSUME FileInv, restart PROVE FileInv'
<1>0. PICK d, r : d = disk.dir /\ r = disk.inode
  OBVIOUS
<1>1. /\ disk' = disk /\ pending' = <<>> /\ free_map' = disk.map /\ disk \in Disk
      /\ open_inodes' = [s \in Sector |-> NoInode]
      /\ handle' = [h \in Handle |-> NoSector]
      /\ lost' = disk.map \ (Kept \cup Reachable)
      /\ WellTyped /\ DiskOK
  BY DEF FileInv, WellTyped, restart, Kept
<1>2. WellTyped'
  <2>1. NoInode \in [cnt : Nat, removed : BOOLEAN]
    BY DEF NoInode
  <2>2. free_map' \subseteq Sector /\ lost' \subseteq Sector /\ pending' \in Seq(Write)
    BY <1>1 DEF Disk
  <2>3. QED BY <1>1, <2>1, <2>2 DEF WellTyped
<1>3. OpenCountsRight'
  <2> SUFFICES ASSUME NEW i \in Sector
               PROVE  open_inodes'[i].cnt = Cardinality({ h \in Handle : handle'[h] = i })
    BY DEF OpenCountsRight
  <2>1. i # NoSector
    BY DEF Sector, NoSector
  <2>2. { h \in Handle : handle'[h] = i } = {}
    BY <1>1, <2>1
  <2>3. QED BY <1>1, <2>2, FS_EmptySet DEF NoInode
<1>4. Removed' = {}
  BY <1>1 DEF Removed, NoInode
<1>5. Owners(d)' = Listed(d)
  BY <1>4 DEF Owners
<1>6. MemoryOK(d, r)'
  <2>1. \A x : x \in lost' <=> /\ x \in disk.map /\ x \notin Kept
                              /\ \A i \in Listed(d) : x \notin SectorsOf(r, i)
    BY <1>0, <1>1, ReachableIs
  <2>2. \A i \in Sector : open_inodes'[i].cnt = 0 /\ open_inodes'[i].removed = FALSE
    BY <1>1 DEF NoInode
  <2>3. DirOK(d) /\ Kept \subseteq disk.map
    BY <1>0, <1>1 DEF DiskOK
  <2>4. /\ \A i \in Listed(d) : /\ SectorsOf(r, i) \subseteq disk.map
                                      /\ SectorsOf(r, i) \cap Kept = {}
        /\ \A i, j \in Listed(d) :
             i # j => SectorsOf(r, i) \cap SectorsOf(r, j) = {}
    BY <1>0, <1>1 DEF DiskOK
  <2>5. \A x : x \in free_map' <=> \/ x \in Kept \/ x \in lost'
                                   \/ \E i \in Listed(d) : x \in SectorsOf(r, i)
    BY <1>1, <2>1, <2>3, <2>4
  <2>6. \A i \in Listed(d) : SectorsOf(r, i) \cap (Kept \cup lost') = {}
    BY <2>1, <2>4
  <2>7. QED BY <1>4, <1>5, <2>1, <2>2, <2>3, <2>4, <2>5, <2>6 DEF MemoryOK
<1>7. DiskOK'
  BY <1>1, DiskKept
<1>8. \A i \in Listed(d) : SectorsOf(r, i) \subseteq disk.map
  BY <1>0, <1>1 DEF DiskOK
<1>9. QED BY <1>0, <1>1, <1>2, <1>3, <1>5, <1>6, <1>7, <1>8, QuietAgain

-----------------------------------------------------------------------------
(* Opening and closing.                                                      *)

\* A file refers to an inode more, ...
LEMMA CountsAdd ==
    ASSUME WellTyped, OpenCountsRight, NEW h \in Handle, NEW i \in Sector,
           handle[h] = NoSector, handle' = [handle EXCEPT ![h] = i],
           \A j \in Sector : open_inodes'[j].cnt =
                               IF j = i THEN open_inodes[j].cnt + 1 ELSE open_inodes[j].cnt
    PROVE  OpenCountsRight'
<1> SUFFICES ASSUME NEW j \in Sector
             PROVE  open_inodes'[j].cnt = Cardinality({ g \in Handle : handle'[g] = j })
  BY DEF OpenCountsRight
<1> DEFINE S == { g \in Handle : handle[g] = j }
<1>1. open_inodes[j].cnt = Cardinality(S) /\ i # NoSector /\ j # NoSector
  BY DEF OpenCountsRight, Sector, NoSector
<1>2. IsFiniteSet(S)
  BY FileAssumption, FS_Subset
<1>3. handle \in [Handle -> Sector \cup {NoSector}]
  BY DEF WellTyped
<1>4. CASE j = i
  <2>1. { g \in Handle : handle'[g] = j } = S \cup {h} /\ h \notin S
    BY <1>1, <1>3, <1>4
  <2> HIDE DEF S
  <2>2. Cardinality(S \cup {h}) = Cardinality(S) + 1
    BY <1>2, <2>1, FS_AddElement
  <2>3. QED BY <1>1, <1>4, <2>1, <2>2
<1>5. CASE j # i
  <2>1. { g \in Handle : handle'[g] = j } = S
    BY <1>1, <1>3, <1>5
  <2>2. QED BY <1>1, <1>5, <2>1
<1>6. QED BY <1>4, <1>5

\* ... or one less.
LEMMA CountsDrop ==
    ASSUME WellTyped, OpenCountsRight, NEW h \in Handle, NEW i \in Sector,
           handle[h] = i, handle' = [handle EXCEPT ![h] = NoSector],
           \A j \in Sector : open_inodes'[j].cnt =
                               IF j = i THEN open_inodes[j].cnt - 1 ELSE open_inodes[j].cnt
    PROVE  OpenCountsRight'
<1> SUFFICES ASSUME NEW j \in Sector
             PROVE  open_inodes'[j].cnt = Cardinality({ g \in Handle : handle'[g] = j })
  BY DEF OpenCountsRight
<1> DEFINE S == { g \in Handle : handle[g] = j }
<1>1. open_inodes[j].cnt = Cardinality(S) /\ i # NoSector /\ j # NoSector
  BY DEF OpenCountsRight, Sector, NoSector
<1>2. IsFiniteSet(S)
  BY FileAssumption, FS_Subset
<1>3. handle \in [Handle -> Sector \cup {NoSector}]
  BY DEF WellTyped
<1>4. CASE j = i
  <2>1. { g \in Handle : handle'[g] = j } = S \ {h} /\ h \in S
    BY <1>1, <1>3, <1>4
  <2> HIDE DEF S
  <2>2. Cardinality(S \ {h}) = Cardinality(S) - 1
    BY <1>2, <2>1, FS_RemoveElement
  <2>3. QED BY <1>1, <1>4, <2>1, <2>2
<1>5. CASE j # i
  <2>1. { g \in Handle : handle'[g] = j } = S
    BY <1>1, <1>3, <1>5
  <2>2. QED BY <1>1, <1>5, <2>1
<1>6. QED BY <1>4, <1>5

\* An inode that a file refers to is open.
LEMMA IsOpen ==
    ASSUME WellTyped, OpenCountsRight, NEW h \in Handle, handle[h] # NoSector
    PROVE  handle[h] \in Sector /\ open_inodes[handle[h]].cnt \in Nat \ {0}
<1> DEFINE i == handle[h]
           S == { g \in Handle : handle[g] = i }
<1>1. i \in Sector /\ open_inodes[i].cnt \in Nat
  BY DEF WellTyped
<1>2. open_inodes[i].cnt = Cardinality(S)
  BY <1>1 DEF OpenCountsRight
<1>3. IsFiniteSet(S) /\ h \in S
  BY FileAssumption, FS_Subset
<1> HIDE DEF S
<1>4. Cardinality(S) # 0
  BY <1>3, FS_EmptySet
<1>5. QED BY <1>1, <1>2, <1>4

\* The lowest of some slots.
LEMMA LowestSlot ==
    ASSUME NEW S \in SUBSET Slot, S # {}
    PROVE  Lowest(S) \in S
<1>1. S \in SUBSET Nat
  BY DEF Slot
<1>2. PICK m \in S : \A n \in S : m <= n
  BY <1>1, LeastOf
<1>3. QED BY <1>2 DEF Lowest

LEMMA OpenKeeps ==
    ASSUME FileInv, NEW h \in Handle, NEW n \in Name, filesys_open(h, n)
    PROVE  FileInv'
<1>0. PICK d, r : d = disk.dir /\ r = disk.inode
  OBVIOUS
<1> DEFINE e == disk.dir[Lowest(lookup(n))]
           i == e.inode
<1>1. /\ pending = <<>> /\ pending' = <<>> /\ UNCHANGED <<disk, free_map, lost>>
      /\ handle[h] = NoSector /\ handle' = [handle EXCEPT ![h] = i]
      /\ open_inodes' = [open_inodes EXCEPT ![i] = inode_open(@)]
      /\ WellTyped /\ DiskOK /\ OpenCountsRight
  BY DEF FileInv, filesys_open, Quiet
<1>2. /\ MemoryOK(d, r) /\ d \in [Slot -> Entry]
      /\ \A j \in Owners(d) : SectorsOf(r, j) \subseteq disk.map
  BY <1>0, <1>1, QuietWorld
<1>3. Lowest(lookup(n)) \in lookup(n)
  BY LowestSlot DEF lookup, filesys_open
<1>4. i \in Sector /\ i \in Listed(d)
  <2>1. Lowest(lookup(n)) \in Slot /\ e.name = n /\ e \in Entry
    BY <1>0, <1>2, <1>3 DEF lookup
  <2>2. e # NoEntry
    BY <2>1, FileAssumption DEF NoEntry
  <2>3. i \in Sector /\ i # NoSector
    BY <2>1, <2>2, EntryIs
  <2>4. QED BY <1>0, <2>1, <2>3 DEF Listed
<1> HIDE DEF i
<1>5. \A j \in Sector :
        /\ open_inodes'[j].cnt = IF j = i THEN open_inodes[j].cnt + 1 ELSE open_inodes[j].cnt
        /\ open_inodes'[j].removed = open_inodes[j].removed
        /\ open_inodes[j].cnt \in Nat
  BY <1>1, <1>4 DEF inode_open, WellTyped
<1>6. WellTyped'
  <2>1. open_inodes' \in [Sector -> [cnt : Nat, removed : BOOLEAN]]
    BY <1>1, <1>4 DEF inode_open, WellTyped
  <2>2. handle' \in [Handle -> Sector \cup {NoSector}]
    BY <1>1, <1>4 DEF WellTyped
  <2>3. QED BY <1>1, <2>1, <2>2 DEF WellTyped
<1>7. OpenCountsRight'
  BY <1>1, <1>4, <1>5, CountsAdd
<1>8. Removed' = Removed
  BY <1>5 DEF Removed
<1>9. Owners(d)' = Owners(d) /\ i \in Owners(d)
  BY <1>4, <1>8, <1>1 DEF Owners
<1>10. MemoryOK(d, r)'
  <2>1. \A j \in Sector : /\ open_inodes'[j].cnt # 0 => j \in Owners(d)
                          /\ open_inodes'[j].removed => open_inodes'[j].cnt # 0
    BY <1>2, <1>5, <1>9 DEF MemoryOK
  <2>2. QED BY <1>1, <1>2, <1>8, <1>9, <2>1 DEF MemoryOK
<1>11. DiskOK'
  BY <1>1, DiskKept
<1>12. QED BY <1>0, <1>1, <1>2, <1>6, <1>7, <1>9, <1>10, <1>11, QuietAgain

\* Writes that change neither the directory nor an inode: what the operation
\* leaves goes by what is on the device.
LEMMA NothingNew ==
    ASSUME WellTyped', DiskOK', OpenCountsRight',
           NEW d, NEW r, d = disk'.dir, r = disk'.inode, MemoryOK(d, r)',
           \A k \in DOMAIN pending' : pending'[k].part \in {"map", "data"},
           MapWrites(d, r)'
    PROVE  FileInv'
<1>1. d \in [Slot -> Entry] /\ r \in [Sector -> InodeData]
  BY DEF WellTyped, Disk
<1>2. \A k \in DOMAIN pending' : pending'[k].part # "dir" /\ pending'[k].part # "inode"
  OBVIOUS
<1>3. DirWrites(d)' /\ InodeWrites(d, r)'
  BY <1>2 DEF DirWrites, InodeWrites
<1>4. World(d, r)'
  BY <1>3 DEF World
<1>5. QED BY <1>1, <1>4 DEF FileInv

\* The maps written have the sectors of all files.
LEMMA AllMapped ==
    ASSUME NEW d, NEW r,
           \A k \in DOMAIN pending' : pending'[k].part = "map" =>
             /\ Kept \subseteq pending'[k].value
             /\ \A i \in Owners(d)' : SectorsOf(r, i) \subseteq pending'[k].value,
           \A i \in Owners(d)' : SectorsOf(r, i) \subseteq disk'.map
    PROVE  MapWrites(d, r)'
<1>1. \A i : i \in SectorsOf(r, i)
  BY DEF SectorsOf
<1>2. QED BY <1>1 DEF MapWrites

\* What closing an inode leaves: when it was removed and this was the last
\* close, the maps written last are without its sectors.
LEMMA ClosedIs ==
    ASSUME WellTyped, NEW i \in Sector, NEW inode, NEW prior \in Seq(Write), NEW F,
           inode_closed(i, inode, prior, F)
    PROVE  \/ /\ inode.cnt = 0 /\ inode.removed
              /\ free_map' = free_map \ SectorsOf(disk.inode, i)
              /\ open_inodes' = [open_inodes EXCEPT ![i] = NoInode]
              /\ pending' \in Seq(Write) /\ Len(prior) <= Len(pending')
              /\ \A k \in 1..Len(prior) : pending'[k] = prior[k]
              /\ \A k \in Len(prior) + 1..Len(pending') :
                   pending'[k].part = "map" /\ free_map' \subseteq pending'[k].value
           \/ /\ ~(inode.cnt = 0 /\ inode.removed)
              /\ free_map' = free_map /\ pending' = prior
              /\ open_inodes' = [open_inodes EXCEPT ![i] = inode]
<1> DEFINE a == free_map_release(free_map, {i}, "release" \in F)
           b == free_map_release(a.map, DataOf(i), "release" \in F)
           m == [part |-> "map", at |-> 0, value |-> a.map]
           z == [part |-> "map", at |-> 0, value |-> b.map]
<1>1. CASE ~(inode.cnt = 0 /\ inode.removed)
  BY <1>1 DEF inode_closed, Does
<1>2. CASE inode.cnt = 0 /\ inode.removed
  <2>1. /\ pending' = (prior \o a.writes) \o b.writes /\ free_map' = b.map
        /\ open_inodes' = [open_inodes EXCEPT ![i] = NoInode]
    BY <1>2 DEF inode_closed, Does
  <2>2. a.map = free_map \ {i} /\ b.map = a.map \ DataOf(i)
    BY DEF free_map_release
  <2>3. free_map' = free_map \ SectorsOf(disk.inode, i)
    BY <2>1, <2>2 DEF SectorsOf, DataOf
  <2>4. /\ "release" \in F => a.writes = <<>> /\ b.writes = <<>>
        /\ "release" \notin F => a.writes = <<m>> /\ b.writes = <<z>>
    BY DEF free_map_release, MapWrite
  <2>5. m \in Write /\ z \in Write
    <3>1. a.map \in SUBSET Sector /\ b.map \in SUBSET Sector
      BY <2>2 DEF WellTyped
    <3>2. QED BY <3>1 DEF Write
  <2>6. /\ m.part = "map" /\ free_map' \subseteq m.value
        /\ z.part = "map" /\ free_map' \subseteq z.value
    BY <2>1, <2>2
  <2> HIDE DEF a, b, m, z
  <2>7. CASE "release" \in F
    <3>1. pending' = (prior \o <<>>) \o <<>>
      BY <2>1, <2>4, <2>7
    <3>2. prior \o <<>> = prior
      OBVIOUS
    <3>3. pending' = prior /\ Len(prior) \in Nat
      BY <3>1, <3>2
    <3>4. QED BY <1>2, <2>1, <2>3, <3>3
  <2>8. CASE "release" \notin F
    <3>1. pending' = (prior \o <<m>>) \o <<z>>
      BY <2>1, <2>4, <2>8
    <3>2. /\ pending' \in Seq(Write) /\ Len(pending') = Len(prior) + 2 /\ Len(prior) \in Nat
          /\ \A k \in 1..Len(prior) : pending'[k] = prior[k]
          /\ pending'[Len(prior) + 1] = m /\ pending'[Len(prior) + 2] = z
      BY <2>5, <3>1
    <3>3. PICK n \in Nat : n = Len(prior)
      BY <3>2
    <3>4. \A k \in n + 1..n + 2 : k = n + 1 \/ k = n + 2
      OBVIOUS
    <3>5. \A k \in n + 1..n + 2 : pending'[k].part = "map" /\ free_map' \subseteq pending'[k].value
      BY <2>6, <3>2, <3>3, <3>4
    <3>6. Len(prior) + 1 = n + 1 /\ Len(pending') = n + 2 /\ Len(prior) <= Len(pending')
      BY <3>2, <3>3
    <3>7. \A k \in Len(prior) + 1..Len(pending') :
            pending'[k].part = "map" /\ free_map' \subseteq pending'[k].value
      BY <3>5, <3>6
    <3>8. QED BY <1>2, <2>1, <2>3, <3>2, <3>6, <3>7
  <2>9. QED BY <2>7, <2>8
<1>3. QED BY <1>1, <1>2

\* A file leaves the directory or is closed for the last time, and its sectors
\* are free.
LEMMA SectorsFreed ==
    ASSUME NEW d, NEW e, NEW r, NEW i, MemoryOK(d, r), i \in Owners(d),
           Owners(e)' = Owners(d) \ {i}, free_map' = free_map \ SectorsOf(r, i), lost' = lost,
           DirOK(e), Listed(e) \cap Removed' = {},
           \A j \in Sector : /\ open_inodes'[j].cnt # 0 => j \in Owners(d) \ {i}
                             /\ open_inodes'[j].removed => open_inodes'[j].cnt # 0
    PROVE  /\ MemoryOK(e, r)' /\ Kept \subseteq free_map'
           /\ \A j \in Owners(e)' : SectorsOf(r, j) \subseteq free_map'
<1>1. \A j \in Owners(d) : j # i => SectorsOf(r, j) \cap SectorsOf(r, i) = {}
  BY DEF MemoryOK
<1>2. SectorsOf(r, i) \cap (Kept \cup lost) = {}
  BY DEF MemoryOK
<1>3. \A x : x \in free_map' <=> \/ x \in Kept \/ x \in lost'
                                 \/ \E j \in Owners(e)' : x \in SectorsOf(r, j)
  BY <1>1, <1>2 DEF MemoryOK
<1>4. MemoryOK(e, r)'
  BY <1>3 DEF MemoryOK
<1>5. QED BY <1>3, <1>4

LEMMA CloseKeeps ==
    ASSUME FileInv, NEW h \in Handle, NEW F, file_close(h, F)
    PROVE  FileInv'
<1>0. PICK d, r : d = disk.dir /\ r = disk.inode
  OBVIOUS
<1> DEFINE i == handle[h]
           inode == inode_close(open_inodes[i])
<1>1. /\ pending = <<>> /\ UNCHANGED <<disk, lost>> /\ i # NoSector
      /\ handle' = [handle EXCEPT ![h] = NoSector]
      /\ inode_closed(i, inode, <<>>, F)
      /\ WellTyped /\ DiskOK /\ OpenCountsRight
  BY DEF FileInv, file_close, Quiet
<1>2. /\ MemoryOK(d, r) /\ d \in [Slot -> Entry]
      /\ \A j \in Owners(d) : SectorsOf(r, j) \subseteq disk.map
  BY <1>0, <1>1, QuietWorld
<1>3. /\ i \in Sector /\ open_inodes[i].cnt \in Nat \ {0} /\ open_inodes[i].removed \in BOOLEAN
      /\ inode \in [cnt : Nat, removed : BOOLEAN]
      /\ inode.cnt = open_inodes[i].cnt - 1 /\ inode.removed = open_inodes[i].removed
  <2>1. i \in Sector /\ open_inodes[i].cnt \in Nat \ {0}
    BY <1>1, IsOpen
  <2>2. open_inodes[i] \in [cnt : Nat, removed : BOOLEAN]
    BY <1>1, <2>1 DEF WellTyped
  <2>3. QED BY <2>1, <2>2 DEF inode_close
<1>4. i \in Owners(d)
  BY <1>2, <1>3 DEF MemoryOK
<1>5. handle[h] = i /\ handle' \in [Handle -> Sector \cup {NoSector}]
  BY <1>1 DEF WellTyped
<1>6. DiskOK'
  BY <1>1, DiskKept
<1>7. <<>> \in Seq(Write) /\ Len(<<>>) = 0
  OBVIOUS
<1> HIDE DEF i, inode
<1>8. ASSUME \A j \in Sector : open_inodes'[j].cnt =
               IF j = i THEN open_inodes[j].cnt - 1 ELSE open_inodes[j].cnt
      PROVE  OpenCountsRight'
  BY <1>1, <1>3, <1>5, <1>8, CountsDrop
<1>9. CASE inode.cnt = 0 /\ inode.removed
  <2>1. /\ free_map' = free_map \ SectorsOf(r, i)
        /\ open_inodes' = [open_inodes EXCEPT ![i] = NoInode]
        /\ pending' \in Seq(Write)
        /\ \A k \in 1..Len(pending') : pending'[k].part = "map" /\ free_map' \subseteq pending'[k].value
    <3>1. /\ free_map' = free_map \ SectorsOf(disk.inode, i)
          /\ open_inodes' = [open_inodes EXCEPT ![i] = NoInode]
          /\ pending' \in Seq(Write)
          /\ \A k \in Len(<<>>) + 1..Len(pending') :
               pending'[k].part = "map" /\ free_map' \subseteq pending'[k].value
      BY <1>1, <1>3, <1>7, <1>9, ClosedIs
    <3>2. QED BY <1>0, <1>7, <3>1
  <2>2. \A j \in Sector :
          open_inodes'[j] = IF j = i THEN NoInode ELSE open_inodes[j]
    BY <1>1, <1>3, <2>1 DEF WellTyped
  <2>3. WellTyped'
    <3>1. open_inodes' \in [Sector -> [cnt : Nat, removed : BOOLEAN]]
      BY <1>1, <1>3, <2>1 DEF WellTyped, NoInode
    <3>2. QED BY <1>1, <1>5, <2>1, <3>1 DEF WellTyped
  <2>4. OpenCountsRight'
    BY <1>3, <1>8, <1>9, <2>2 DEF NoInode
  <2>5. Removed' = Removed \ {i} /\ i \in Removed
    <3>1. NoInode.removed = FALSE
      BY DEF NoInode
    <3>2. \A j \in Sector : open_inodes'[j].removed <=> open_inodes[j].removed /\ j # i
      BY <1>3, <2>2, <3>1
    <3>3. open_inodes[i].removed
      BY <1>3, <1>9
    <3>4. QED BY <1>3, <3>2, <3>3 DEF Removed
  <2>6. i \notin Listed(d) /\ Listed(d) \cap Removed = {} /\ DirOK(d)
    BY <1>2, <2>5 DEF MemoryOK
  <2>7. Owners(d)' = Owners(d) \ {i}
    BY <2>5, <2>6 DEF Owners
  <2>8. \A j \in Sector : /\ open_inodes'[j].cnt # 0 => j \in Owners(d) \ {i}
                          /\ open_inodes'[j].removed => open_inodes'[j].cnt # 0
    BY <1>2, <2>2 DEF NoInode, MemoryOK
  <2>9. /\ MemoryOK(d, r)' /\ Kept \subseteq free_map'
        /\ \A j \in Owners(d)' : SectorsOf(r, j) \subseteq free_map'
    BY <1>1, <1>2, <1>4, <2>1, <2>5, <2>6, <2>7, <2>8, SectorsFreed
  <2>10. MapWrites(d, r)'
    BY <1>1, <1>2, <2>1, <2>7, <2>9, AllMapped
  <2>11. \A k \in DOMAIN pending' : pending'[k].part \in {"map", "data"}
    BY <2>1
  <2>12. QED BY <1>0, <1>1, <1>6, <2>3, <2>4, <2>9, <2>10, <2>11, NothingNew
<1>10. CASE ~(inode.cnt = 0 /\ inode.removed)
  <2>1. /\ free_map' = free_map /\ pending' = <<>>
        /\ open_inodes' = [open_inodes EXCEPT ![i] = inode]
    BY <1>1, <1>3, <1>7, <1>10, ClosedIs
  <2>2. \A j \in Sector : open_inodes'[j] = IF j = i THEN inode ELSE open_inodes[j]
    BY <1>1, <1>3, <2>1 DEF WellTyped
  <2>3. WellTyped'
    <3>1. open_inodes' \in [Sector -> [cnt : Nat, removed : BOOLEAN]]
      BY <1>1, <1>3, <2>1 DEF WellTyped
    <3>2. QED BY <1>1, <1>5, <2>1, <3>1 DEF WellTyped
  <2>4. OpenCountsRight'
    BY <1>3, <1>8, <2>2
  <2>5. Removed' = Removed
    BY <1>3, <2>2 DEF Removed
  <2>6. Owners(d)' = Owners(d)
    BY <2>5 DEF Owners
  <2>7. \A j \in Sector : /\ open_inodes'[j].cnt # 0 => j \in Owners(d)
                          /\ open_inodes'[j].removed => open_inodes'[j].cnt # 0
    BY <1>2, <1>3, <1>4, <1>10, <2>2 DEF MemoryOK
  <2>8. MemoryOK(d, r)'
    BY <1>1, <1>2, <2>1, <2>5, <2>6, <2>7 DEF MemoryOK
  <2>9. QED BY <1>0, <1>1, <1>2, <1>6, <2>1, <2>3, <2>4, <2>6, <2>8, QuietAgain
<1>11. QED BY <1>9, <1>10

\* A write of data.
LEMMA WriteKeeps ==
    ASSUME FileInv, NEW h \in Handle, NEW s \in Sector, NEW v \in Data, file_write(h, s, v)
    PROVE  FileInv'
<1>0. PICK d, r : d = disk.dir /\ r = disk.inode
  OBVIOUS
<1> DEFINE w == [part |-> "data", at |-> s, value |-> v]
<1>1. /\ pending = <<>> /\ UNCHANGED <<disk, free_map, open_inodes, handle, lost>>
      /\ pending' = <<w>> /\ WellTyped /\ DiskOK /\ OpenCountsRight
  BY DEF FileInv, file_write, Quiet
<1>2. /\ MemoryOK(d, r)
      /\ \A j \in Owners(d) : SectorsOf(r, j) \subseteq disk.map
  BY <1>0, <1>1, QuietWorld
<1>3. w \in Write /\ w.part = "data"
  BY DEF Write
<1> HIDE DEF w
<1>4. pending' \in Seq(Write) /\ \A k \in DOMAIN pending' : pending'[k].part = "data"
  BY <1>1, <1>3
<1>5. WellTyped' /\ OpenCountsRight' /\ DiskOK'
  BY <1>1, <1>4, DiskKept DEF WellTyped, OpenCountsRight
<1>6. Removed' = Removed /\ Owners(d)' = Owners(d)
  BY <1>1 DEF Removed, Owners
<1>7. MemoryOK(d, r)'
  BY <1>1, <1>2, <1>6 DEF MemoryOK
<1>8. MapWrites(d, r)'
  BY <1>1, <1>2, <1>4, <1>6, AllMapped
<1>9. QED BY <1>0, <1>1, <1>4, <1>5, <1>7, <1>8, NothingNew

-----------------------------------------------------------------------------
(* Removing and creating.                                                    *)

\* An entry is taken away: its inode leads to one slot.
LEMMA EntryGone ==
    ASSUME NEW d \in [Slot -> Entry], DirOK(d), NEW slot \in Slot, d[slot] # NoEntry,
           NEW e, e[slot] = NoEntry, \A s \in Slot : s # slot => e[s] = d[s]
    PROVE  /\ DirOK(e)
           /\ Listed(e) = Listed(d) \ {d[slot].inode} /\ d[slot].inode \in Listed(d)
<1>1. NoEntry \in Entry /\ NoEntry.inode = NoSector
  BY DEF Entry, NoEntry
<1>2. e[slot] = NoEntry /\ \A s \in Slot : s # slot => e[s] = d[s]
  OBVIOUS
<1>3. \A s \in Slot : d[s] # NoEntry <=> d[s].inode # NoSector
  BY EntryIs
<1>4. DirOK(e)
  <2> SUFFICES ASSUME NEW s \in Slot, NEW t \in Slot, s # t, e[s] # NoEntry
               PROVE  e[s].name # e[t].name /\ e[s].inode # e[t].inode
    BY DEF DirOK
  <2>1. s # slot /\ e[s] = d[s] /\ d[s] # NoEntry
    BY <1>2
  <2>2. CASE t = slot
    <3>1. e[t] = NoEntry /\ d[s].inode # NoSector
      BY <1>2, <1>3, <2>1, <2>2
    <3>2. d[s] \in [name : Name, inode : Sector]
      BY <2>1 DEF Entry
    <3>3. d[s].name # NoName
      BY <3>2, FileAssumption
    <3>4. QED BY <2>1, <3>1, <3>3 DEF NoEntry
  <2>3. CASE t # slot
    BY <1>2, <2>1, <2>3 DEF DirOK
  <2>4. QED BY <2>2, <2>3
<1>5. d[slot].inode # NoSector
  BY <1>3
<1>6. \A s \in Slot : s # slot => d[s].inode # d[slot].inode
  BY DEF DirOK
<1>7. \A i : i \in Listed(e) <=> i # NoSector /\ \E s \in Slot : s # slot /\ i = d[s].inode
  BY <1>1, <1>2 DEF Listed
<1>8. \A i : i \in Listed(d) <=> i # NoSector /\ \E s \in Slot : i = d[s].inode
  BY DEF Listed
<1>9. /\ Listed(e) = Listed(d) \ {d[slot].inode}
      /\ d[slot].inode \in Listed(d)
  BY <1>5, <1>6, <1>7, <1>8
<1>10. QED BY <1>2, <1>4, <1>9

\* The entry of a file is the first to be written, then the maps.
LEMMA RemoveKeeps ==
    ASSUME FileInv, NEW n \in Name, NEW F, filesys_remove(n, F)
    PROVE  FileInv'
<1>0. PICK d, r : d = disk.dir /\ r = disk.inode
  OBVIOUS
<1>a. PICK slot : slot = Lowest(lookup(n))
  OBVIOUS
<1>b. PICK i, e : i = disk.dir[slot].inode /\ e = [d EXCEPT ![slot] = NoEntry]
  OBVIOUS
<1> DEFINE inode == [open_inodes[i] EXCEPT !.removed = TRUE]
           prior == DirWrite(slot, NoEntry)
           w == [part |-> "dir", at |-> slot, value |-> NoEntry]
<1>1. /\ pending = <<>> /\ UNCHANGED <<disk, handle, lost>> /\ lookup(n) # {}
      /\ inode_closed(i, inode, prior, F)
      /\ WellTyped /\ DiskOK /\ OpenCountsRight
  BY <1>a, <1>b DEF FileInv, filesys_remove, Quiet
<1>2. /\ MemoryOK(d, r) /\ d \in [Slot -> Entry] /\ r \in [Sector -> InodeData]
      /\ \A j \in Owners(d) : SectorsOf(r, j) \subseteq disk.map
      /\ DirOK(d)
  BY <1>0, <1>1, QuietWorld DEF MemoryOK
<1>3. slot \in Slot /\ d[slot].name = n /\ d[slot] \in Entry
  <2>1. slot \in lookup(n)
    BY <1>1, <1>a, LowestSlot DEF lookup
  <2>2. QED BY <1>0, <1>2, <2>1 DEF lookup
<1>4. d[slot] # NoEntry
  BY <1>3, FileAssumption DEF NoEntry
<1>5. i = d[slot].inode /\ i \in Sector
  BY <1>0, <1>3, <1>4, <1>b, EntryIs
<1>6. /\ open_inodes[i] \in [cnt : Nat, removed : BOOLEAN]
      /\ inode \in [cnt : Nat, removed : BOOLEAN]
      /\ inode.cnt = open_inodes[i].cnt /\ inode.removed = TRUE
  BY <1>1, <1>5 DEF WellTyped
<1>7. w \in Write /\ w.part = "dir" /\ w.at = slot /\ w.value = NoEntry
  BY <1>3 DEF Write, Entry
<1>8. prior = <<w>> /\ prior \in Seq(Write) /\ Len(prior) = 1 /\ prior[1] = w
  BY <1>7 DEF DirWrite
<1> HIDE DEF inode, w
<1>9. /\ e \in [Slot -> Entry] /\ DirOK(e) /\ e[slot] = NoEntry
      /\ \A s \in Slot : s # slot => e[s] = d[s]
      /\ Listed(e) = Listed(d) \ {i} /\ i \in Listed(d)
  <2>1. /\ e \in [Slot -> Entry] /\ e[slot] = NoEntry
        /\ \A s \in Slot : s # slot => e[s] = d[s]
    BY <1>2, <1>3, <1>b DEF Entry
  <2>2. DirOK(e) /\ Listed(e) = Listed(d) \ {d[slot].inode} /\ d[slot].inode \in Listed(d)
    BY ONLY <1>2, <1>3, <1>4, <2>1, EntryGone
  <2>3. QED BY <1>5, <2>1, <2>2
<1> HIDE DEF prior
<1>10. i \in Owners(d) /\ ~open_inodes[i].removed
  <2>1. i \in Owners(d) /\ i \notin Removed
    BY <1>2, <1>9 DEF Owners, MemoryOK
  <2>2. QED BY <1>5, <2>1 DEF Removed
<1>11. DiskOK'
  BY <1>1, DiskKept
<1>12. ASSUME WellTyped', OpenCountsRight', MemoryOK(e, r)',
              1 <= Len(pending'), pending'[1] = w,
              \A k \in 2..Len(pending') :
                pending'[k].part = "map" /\ free_map' \subseteq pending'[k].value,
              Kept \subseteq free_map',
              \A j \in Owners(e)' : j \in Owners(d) /\ SectorsOf(r, j) \subseteq free_map'
       PROVE  FileInv'
  <2>1. pending' \in Seq(Write) /\ DOMAIN pending' = 1..Len(pending') /\ Len(pending') \in Nat
    BY <1>12 DEF WellTyped
  <2>2. \A k \in DOMAIN pending' : k = 1 \/ k \in 2..Len(pending')
    BY <2>1
  <2>3. DirWrites(e)'
    <3>1. \A k \in DOMAIN pending' : pending'[k].part = "dir" => k = 1
      BY <1>12, <2>2
    <3>2. 1 \in DOMAIN pending'
      BY <1>12, <2>1
    <3>3. /\ \A k \in DOMAIN pending' : pending'[k].part = "dir" =>
               /\ e[pending'[k].at] = pending'[k].value
               /\ pending'[k].value = NoEntry => k = 1
               /\ pending'[k].value # NoEntry =>
                    k = Len(pending') /\ disk'.dir[pending'[k].at] = NoEntry
               /\ \A j \in DOMAIN pending' : pending'[j].part = "dir" => j = k
          /\ \A s \in Slot : e[s] # disk'.dir[s] =>
               \E k \in DOMAIN pending' : pending'[k].part = "dir" /\ pending'[k].at = s
      BY <1>0, <1>1, <1>7, <1>9, <1>12, <3>1, <3>2
    <3>4. QED BY <3>3 DEF DirWrites
  <2>4. InodeWrites(e, r)'
    <3>1. \A k \in DOMAIN pending' : pending'[k].part # "inode"
      BY <1>7, <1>12, <2>2
    <3>2. QED BY <1>0, <1>1, <3>1 DEF InodeWrites
  <2>5. MapWrites(e, r)'
    <3>1. \A k \in DOMAIN pending' : pending'[k].part = "map" =>
            /\ Kept \subseteq pending'[k].value
            /\ \A j \in Owners(e)' : SectorsOf(r, j) \subseteq pending'[k].value
      BY <1>7, <1>12, <2>2
    <3>2. QED BY <1>1, <1>2, <1>12, <3>1, AllMapped
  <2>6. World(e, r)'
    BY <1>12, <2>3, <2>4, <2>5 DEF World
  <2>7. QED BY <1>2, <1>9, <1>11, <1>12, <2>6 DEF FileInv
<1>13. ASSUME \A j \in Sector : open_inodes'[j].cnt = open_inodes[j].cnt PROVE OpenCountsRight'
  BY <1>1, <1>13 DEF OpenCountsRight
<1>14. CASE inode.cnt = 0 /\ inode.removed
  <2>1. /\ free_map' = free_map \ SectorsOf(r, i)
        /\ open_inodes' = [open_inodes EXCEPT ![i] = NoInode]
        /\ pending' \in Seq(Write) /\ 1 <= Len(pending')
        /\ pending'[1] = w
        /\ \A k \in 2..Len(pending') : pending'[k].part = "map" /\ free_map' \subseteq pending'[k].value
    <3>1. /\ free_map' = free_map \ SectorsOf(disk.inode, i)
          /\ open_inodes' = [open_inodes EXCEPT ![i] = NoInode]
          /\ pending' \in Seq(Write) /\ Len(prior) <= Len(pending')
          /\ \A k \in 1..Len(prior) : pending'[k] = prior[k]
          /\ \A k \in Len(prior) + 1..Len(pending') :
               pending'[k].part = "map" /\ free_map' \subseteq pending'[k].value
      BY <1>1, <1>5, <1>8, <1>14, ClosedIs
    <3>2. QED BY <1>0, <1>8, <3>1
  <2>2. \A j \in Sector : open_inodes'[j] = IF j = i THEN NoInode ELSE open_inodes[j]
    BY <1>1, <1>5, <2>1 DEF WellTyped
  <2>3. NoInode.cnt = 0 /\ NoInode.removed = FALSE /\ NoInode \in [cnt : Nat, removed : BOOLEAN]
    BY DEF NoInode
  <2>4. WellTyped'
    <3>1. open_inodes' \in [Sector -> [cnt : Nat, removed : BOOLEAN]]
      BY <1>1, <1>5, <2>1, <2>3 DEF WellTyped
    <3>2. QED BY <1>1, <2>1, <3>1 DEF WellTyped
  <2>5. OpenCountsRight'
    BY <1>5, <1>6, <1>13, <1>14, <2>2, <2>3
  <2>6. Removed' = Removed
    BY <1>10, <2>2, <2>3 DEF Removed
  <2>7. Listed(d) \cap Removed = {}
    BY <1>2 DEF MemoryOK
  <2>8. Owners(e)' = Owners(d) \ {i} /\ Listed(e) \cap Removed' = {}
    BY <1>9, <2>6, <2>7 DEF Owners
  <2>9. \A j \in Sector : /\ open_inodes'[j].cnt # 0 => j \in Owners(d) \ {i}
                          /\ open_inodes'[j].removed => open_inodes'[j].cnt # 0
    BY <1>2, <2>2, <2>3 DEF MemoryOK
  <2>10. /\ MemoryOK(e, r)' /\ Kept \subseteq free_map'
         /\ \A j \in Owners(e)' : SectorsOf(r, j) \subseteq free_map'
    BY <1>1, <1>2, <1>9, <1>10, <2>1, <2>8, <2>9, SectorsFreed
  <2>11. QED BY <1>12, <2>1, <2>4, <2>5, <2>8, <2>10
<1>15. CASE ~(inode.cnt = 0 /\ inode.removed)
  <2>1. /\ free_map' = free_map /\ pending' = prior
        /\ open_inodes' = [open_inodes EXCEPT ![i] = inode]
    BY <1>1, <1>5, <1>8, <1>15, ClosedIs
  <2>2. \A j \in Sector : open_inodes'[j] = IF j = i THEN inode ELSE open_inodes[j]
    BY <1>1, <1>5, <2>1 DEF WellTyped
  <2>3. WellTyped'
    <3>1. open_inodes' \in [Sector -> [cnt : Nat, removed : BOOLEAN]]
      BY <1>1, <1>5, <1>6, <2>1 DEF WellTyped
    <3>2. QED BY <1>1, <1>8, <2>1, <3>1 DEF WellTyped
  <2>4. OpenCountsRight'
    BY <1>6, <1>13, <2>2
  <2>5. Removed' = Removed \cup {i}
    BY <1>5, <1>6, <2>2 DEF Removed
  <2>6. Listed(d) \cap Removed = {}
    BY <1>2 DEF MemoryOK
  <2>7. Owners(e)' = Owners(d) /\ Listed(e) \cap Removed' = {}
    BY <1>9, <1>10, <2>5, <2>6 DEF Owners
  <2>8. \A j \in Sector : /\ open_inodes'[j].cnt # 0 => j \in Owners(d)
                          /\ open_inodes'[j].removed => open_inodes'[j].cnt # 0
    BY <1>2, <1>6, <1>10, <1>15, <2>2 DEF MemoryOK
  <2>9. MemoryOK(e, r)'
    BY <1>1, <1>2, <1>9, <2>1, <2>7, <2>8 DEF MemoryOK
  <2>10. \A x : x \in free_map <=> x \in Kept \/ x \in lost \/ \E j \in Owners(d) : x \in SectorsOf(r, j)
    BY <1>2 DEF MemoryOK
  <2>11. Kept \subseteq free_map' /\ \A j \in Owners(e)' : SectorsOf(r, j) \subseteq free_map'
    BY <2>1, <2>7, <2>10
  <2>12. Len(pending') = 1 /\ pending'[1] = w
    BY <1>8, <2>1
  <2>13. QED BY <1>12, <2>3, <2>4, <2>7, <2>9, <2>11, <2>12
<1>16. QED BY <1>14, <1>15

\* The lowest of some sectors.
LEMMA LowestSector ==
    ASSUME NEW S \in SUBSET Sector, S # {}
    PROVE  Lowest(S) \in S
<1>1. S \in SUBSET Nat
  BY FileAssumption DEF Sector
<1>2. PICK m \in S : \A n \in S : m <= n
  BY <1>1, LeastOf
<1>3. QED BY <1>2 DEF Lowest

\* An allocation fails and changes nothing, or finds sectors that are free.
Allocation(map, cnt, a) ==
  \/ a = [map |-> map, first |-> NoSector, writes |-> <<>>]
  \/ /\ Starts(map, cnt) # {}
     /\ \E s : /\ s = Lowest(Starts(map, cnt))
               /\ a = [map |-> map \cup Run(s, cnt), first |-> s,
                       writes |-> MapWrite(map \cup Run(s, cnt))]
Allocated(map, cnt, a) ==
  /\ a.first = NoSector =>  a.map = map /\ a.writes = <<>>
  /\ a.first # NoSector =>
       /\ a.first \in Sector /\ a.map = map \cup Run(a.first, cnt)
       /\ Run(a.first, cnt) \subseteq Sector /\ Run(a.first, cnt) \cap map = {}
       /\ a.writes = <<[part |-> "map", at |-> 0, value |-> a.map]>>
LEMMA AllocatedIs ==
    ASSUME NEW map \in SUBSET Sector, NEW cnt \in Nat,
           NEW a, Allocation(map, cnt, a)
    PROVE  Allocated(map, cnt, a)
<1>1. CASE a = [map |-> map, first |-> NoSector, writes |-> <<>>]
  BY <1>1 DEF Allocated
<1>2. CASE /\ Starts(map, cnt) # {}
           /\ \E s : /\ s = Lowest(Starts(map, cnt))
                     /\ a = [map |-> map \cup Run(s, cnt), first |-> s,
                             writes |-> MapWrite(map \cup Run(s, cnt))]
  <2>1. PICK s : /\ s = Lowest(Starts(map, cnt))
                 /\ a = [map |-> map \cup Run(s, cnt), first |-> s,
                         writes |-> MapWrite(map \cup Run(s, cnt))]
    BY <1>2
  <2>2. s \in Starts(map, cnt)
    BY <1>2, <2>1, LowestSector DEF Starts
  <2>3. /\ s \in Sector /\ Run(s, cnt) \cap map = {} /\ Run(s, cnt) \subseteq Sector
        /\ s # NoSector
    BY <2>2, FileAssumption DEF Starts, Sector, Run, NoSector
  <2>4. QED BY <2>1, <2>3 DEF MapWrite, Allocated
<1>3. QED BY <1>1, <1>2 DEF Allocation

\* Some writes after others.
LEMMA Joined ==
    ASSUME NEW s \in Seq(Write), NEW t \in Seq(Write), NEW p, p = s \o t
    PROVE  /\ p \in Seq(Write) /\ Len(p) = Len(s) + Len(t)
           /\ \A k \in 1..Len(s) : p[k] = s[k]
           /\ \A k \in 1..Len(t) : p[Len(s) + k] = t[k]
OBVIOUS

ZeroAt(x) == [part |-> "data", at |-> x, value |-> Zero]
CreationOf(p, m, z, y, start, len, T) ==
  /\ p \in Seq(Write) /\ Len(p) = 3 + len + Len(T)
  /\ p[1] = m /\ p[2] = z /\ p[3] = y
  /\ \A k \in 4..3 + len : p[k] = ZeroAt(start + k - 4)
  /\ \A k \in 1..Len(T) : p[3 + len + k] = T[k]
\* The writes of a creation: two maps, the inode, its data, and perhaps one more.
LEMMA CreationWrites ==
    ASSUME NEW m \in Write, NEW z \in Write, NEW y \in Write, NEW start \in Sector,
           NEW len \in Nat, Run(start, len) \subseteq Sector, NEW T \in Seq(Write),
           NEW p, p = <<m>> \o (<<z>> \o <<y>> \o ZeroWrites(start, len)) \o T
    PROVE  CreationOf(p, m, z, y, start, len, T)
<1> DEFINE Z == ZeroWrites(start, len)
<1>1. Z \in Seq(Write) /\ Len(Z) = len /\ \A k \in 1..len : Z[k] = ZeroAt(start + k - 1)
  <2>1. \A k \in 1..len : [part |-> "data", at |-> start + k - 1, value |-> Zero] \in Write
    <3> SUFFICES ASSUME NEW k \in 1..len
                 PROVE  [part |-> "data", at |-> start + k - 1, value |-> Zero] \in Write
      OBVIOUS
    <3>1. start + k - 1 \in Run(start, len)
      BY FileAssumption DEF Run, Sector
    <3>2. QED BY <3>1, FileAssumption DEF Write
  <2>2. Z = [k \in 1..len |-> [part |-> "data", at |-> start + k - 1, value |-> Zero]]
    BY DEF ZeroWrites
  <2> HIDE DEF Z
  <2>3. Z \in [1..len -> Write]
    BY <2>1, <2>2
  <2>4. \A k \in 1..len : Z[k] = ZeroAt(start + k - 1)
    BY <2>2 DEF ZeroAt
  <2>5. QED BY <2>3, <2>4
<1> HIDE DEF Z
<1> DEFINE A == <<z>> \o <<y>>
           B == A \o Z
           C == <<m>> \o B
<1>2. A \in Seq(Write) /\ Len(A) = 2 /\ A[1] = z /\ A[2] = y
  OBVIOUS
<1> HIDE DEF A
<1>3. /\ B \in Seq(Write) /\ Len(B) = 2 + len /\ B[1] = z /\ B[2] = y
      /\ \A k \in 3..2 + len : B[k] = ZeroAt(start + (k - 2) - 1)
  <2>1. /\ B \in Seq(Write) /\ Len(B) = 2 + len
        /\ \A k \in 1..2 : B[k] = A[k]
        /\ \A k \in 1..len : B[2 + k] = Z[k]
    <3>0. B = A \o Z
      OBVIOUS
    <3>a. A \in Seq(Write) /\ Z \in Seq(Write)
      BY <1>1, <1>2
    <3> HIDE DEF B
    <3>1. /\ B \in Seq(Write) /\ Len(B) = Len(A) + Len(Z)
          /\ \A k \in 1..Len(A) : B[k] = A[k]
          /\ \A k \in 1..Len(Z) : B[Len(A) + k] = Z[k]
      BY ONLY <3>a, <3>0, Joined
    <3>2. QED BY <1>1, <1>2, <3>1
  <2> HIDE DEF B
  <2>2. \A k \in 3..2 + len : k - 2 \in 1..len /\ 2 + (k - 2) = k
    OBVIOUS
  <2>3. \A k \in 3..2 + len : B[k] = Z[k - 2]
    BY <2>1, <2>2
  <2>4. QED BY <1>1, <1>2, <2>1, <2>2, <2>3
<1> HIDE DEF B
<1>4. /\ C \in Seq(Write) /\ Len(C) = 3 + len /\ C[1] = m /\ C[2] = z /\ C[3] = y
      /\ \A k \in 4..3 + len : C[k] = ZeroAt(start + (k - 1 - 2) - 1)
  <2>1. /\ C \in Seq(Write) /\ Len(C) = 3 + len /\ C[1] = m
        /\ \A k \in 1..2 + len : C[1 + k] = B[k]
    <3>0. <<m>> \in Seq(Write) /\ Len(<<m>>) = 1 /\ <<m>>[1] = m /\ C = <<m>> \o B
      OBVIOUS
    <3> HIDE DEF C
    <3>1. /\ C \in Seq(Write) /\ Len(C) = Len(<<m>>) + Len(B)
          /\ \A k \in 1..Len(<<m>>) : C[k] = <<m>>[k]
          /\ \A k \in 1..Len(B) : C[Len(<<m>>) + k] = B[k]
      BY <1>3, <3>0, Joined
    <3>2. QED BY <1>3, <3>0, <3>1
  <2> HIDE DEF C
  <2>2. \A k \in 4..3 + len : k - 1 \in 3..2 + len /\ k - 1 \in 1..2 + len /\ 1 + (k - 1) = k
    OBVIOUS
  <2>3. \A k \in 4..3 + len : C[k] = B[k - 1]
    BY <2>1, <2>2
  <2>4. 1 \in 1..2 + len /\ 2 \in 1..2 + len /\ 1 + 1 = 2 /\ 1 + 2 = 3
    OBVIOUS
  <2>5. C[2] = B[1] /\ C[3] = B[2]
    BY <2>1, <2>4
  <2>6. QED BY <1>3, <2>1, <2>2, <2>3, <2>5
<1> HIDE DEF C
<1>5. p = C \o T
  BY DEF A, B, C, Z
<1>a. C \in Seq(Write)
  BY <1>4
<1>6. /\ p \in Seq(Write) /\ Len(p) = Len(C) + Len(T)
      /\ \A k \in 1..Len(C) : p[k] = C[k]
      /\ \A k \in 1..Len(T) : p[Len(C) + k] = T[k]
  BY ONLY <1>a, T \in Seq(Write), <1>5, Joined
<1>7. Len(T) \in Nat
  OBVIOUS
<1>8. /\ p \in Seq(Write) /\ Len(p) = 3 + len + Len(T)
      /\ \A k \in 1..3 + len : p[k] = C[k]
      /\ \A k \in 1..Len(T) : p[3 + len + k] = T[k]
  BY <1>4, <1>6
<1>9. 1 \in 1..3 + len /\ 2 \in 1..3 + len /\ 3 \in 1..3 + len
      /\ \A k \in 4..3 + len : k \in 1..3 + len
  OBVIOUS
<1>10. \A k \in 4..3 + len : start + (k - 1 - 2) - 1 = start + k - 4
  BY FileAssumption DEF Sector
<1>11. \A k \in 4..3 + len : p[k] = ZeroAt(start + k - 4)
  BY <1>4, <1>8, <1>9, <1>10
<1>12. QED BY <1>4, <1>8, <1>9, <1>11 DEF CreationOf

\* What a creation takes: a sector s for the inode, sectors R for the data.
Taken(s, start, len) ==
  /\ s \in Sector /\ s \notin free_map /\ start \in Sector
  /\ Run(start, len) \subseteq Sector /\ Run(start, len) \cap (free_map \cup {s}) = {}
MapOf(map) == [part |-> "map", at |-> 0, value |-> map]
InodeOf(s, start, len) ==
  [part |-> "inode", at |-> s, value |-> [start |-> start, len |-> len]]
EntryOf(slot, n, s) == [part |-> "dir", at |-> slot, value |-> [name |-> n, inode |-> s]]
\* Its writes, T the last.
Creation(s, start, len, T) ==
  <<MapOf(free_map \cup {s})>>
    \o (<<MapOf(free_map \cup {s} \cup Run(start, len))>> \o <<InodeOf(s, start, len)>>
          \o ZeroWrites(start, len)) \o T

\* A creation finds no sectors, or no room for an entry, or succeeds.
LEMMA CreateIs ==
    ASSUME WellTyped, NEW n \in Name, NEW len \in 0..MaxSectors, NEW F,
           filesys_create(n, len, F)
    PROVE  \/ /\ free_map' = free_map /\ lost' = lost /\ pending' \in Seq(Write)
              /\ \A k \in 1..Len(pending') :
                   pending'[k].part = "map" /\ free_map \subseteq pending'[k].value
           \/ \E s, start :
                /\ Taken(s, start, len)
                /\ \/ /\ free_map' = free_map \cup Run(start, len)
                      /\ lost' = lost \cup Run(start, len)
                      /\ \E T \in {<<>>, <<MapOf(free_map')>>} : pending' = Creation(s, start, len, T)
                   \/ /\ free_map' = free_map \cup {s} \cup Run(start, len) /\ lost' = lost
                      /\ lookup(n) = {} /\ vacant # {}
                      /\ pending' = Creation(s, start, len, <<EntryOf(Lowest(vacant), n, s)>>)
<1>1. PICK a : a = free_map_allocate(free_map, 1, "map" \in F)
  OBVIOUS
<1>2. PICK b : b = free_map_allocate(a.map, len, "disk_inode" \in F)
  OBVIOUS
<1> DEFINE undone == free_map_release(a.map, {a.first}, "release" \in F)
           notAdded == free_map_release(b.map, {a.first}, "release" \in F)
           blank == b.writes \o InodeWrite(a.first, b.first, len) \o ZeroWrites(b.first, len)
           canAdd == lookup(n) = {} /\ vacant # {} /\ "entry" \notin F
           added == DirWrite(Lowest(vacant), [name |-> n, inode |-> a.first])
<1>3. /\ a.first # NoSector
      /\ \/ /\ b.first = NoSector /\ lost' = lost
            /\ pending' = a.writes \o undone.writes /\ free_map' = undone.map
         \/ /\ b.first # NoSector /\ ~canAdd /\ lost' = lost \cup Run(b.first, len)
            /\ pending' = a.writes \o blank \o notAdded.writes /\ free_map' = notAdded.map
         \/ /\ b.first # NoSector /\ canAdd /\ lost' = lost
            /\ pending' = a.writes \o blank \o added /\ free_map' = b.map
  BY <1>1, <1>2 DEF filesys_create, Does, released_after
<1>4. /\ free_map \in SUBSET Sector /\ 1 \in Nat /\ len \in Nat
  BY FileAssumption DEF WellTyped
<1>5. /\ a.first \in Sector /\ a.map = free_map \cup Run(a.first, 1)
      /\ Run(a.first, 1) \subseteq Sector /\ Run(a.first, 1) \cap free_map = {}
      /\ a.writes = <<[part |-> "map", at |-> 0, value |-> a.map]>>
  <2>1. Allocation(free_map, 1, a)
    BY <1>1 DEF free_map_allocate, Allocation
  <2>2. a.first # NoSector
    BY <1>3
  <2>3. Allocated(free_map, 1, a)
    BY ONLY <1>4, <2>1, AllocatedIs
  <2>4. QED BY <2>2, <2>3 DEF Allocated
<1>6. Run(a.first, 1) = {a.first}
  BY <1>5, FileAssumption DEF Run, Sector
<1>7. /\ a.map = free_map \cup {a.first} /\ a.first \notin free_map /\ a.map \in SUBSET Sector
      /\ a.writes = <<MapOf(a.map)>>
  BY <1>4, <1>5, <1>6 DEF MapOf
<1>8. /\ undone.map = free_map
      /\ undone.writes \in {<<>>, <<MapOf(free_map)>>}
  <2>1. a.map \ {a.first} = free_map
    BY <1>7
  <2>2. QED BY <2>1 DEF free_map_release, MapWrite, MapOf
<1>9. CASE b.first = NoSector
  <2>1. lost' = lost /\ pending' = <<MapOf(a.map)>> \o undone.writes /\ free_map' = free_map
    BY <1>3, <1>7, <1>8, <1>9
  <2>2. MapOf(a.map) \in Write /\ MapOf(free_map) \in Write
    BY <1>4, <1>7 DEF MapOf, Write
  <2>3. /\ MapOf(a.map).part = "map" /\ free_map \subseteq MapOf(a.map).value
        /\ MapOf(free_map).part = "map" /\ free_map \subseteq MapOf(free_map).value
    BY <1>7 DEF MapOf
  <2> HIDE DEF undone
  <2>4. CASE undone.writes = <<>>
    <3>1. pending' = <<MapOf(a.map)>>
      BY <2>1, <2>4
    <3>2. pending' \in Seq(Write) /\ \A k \in 1..Len(pending') : pending'[k] = MapOf(a.map)
      BY <2>2, <3>1
    <3>3. QED BY <2>1, <2>3, <3>2
  <2>5. CASE undone.writes = <<MapOf(free_map)>>
    <3>1. PICK u, v : u = <<MapOf(a.map)>> /\ v = <<MapOf(free_map)>>
      OBVIOUS
    <3>2. /\ u \in Seq(Write) /\ Len(u) = 1 /\ u[1] = MapOf(a.map)
          /\ v \in Seq(Write) /\ Len(v) = 1 /\ v[1] = MapOf(free_map)
      BY <2>2, <3>1
    <3>3. pending' = u \o v
      BY <2>1, <2>5, <3>1
    <3>4. /\ pending' \in Seq(Write) /\ Len(pending') = 1 + 1
          /\ pending'[1] = u[1] /\ pending'[1 + 1] = v[1]
      <4>1. /\ pending' \in Seq(Write) /\ Len(pending') = Len(u) + Len(v)
            /\ \A k \in 1..Len(u) : pending'[k] = u[k]
            /\ \A k \in 1..Len(v) : pending'[Len(u) + k] = v[k]
        <5>1. u \in Seq(Write) /\ v \in Seq(Write)
          BY <3>2
        <5>2. QED BY ONLY <5>1, <3>3, Joined
      <4>2. QED BY <3>2, <4>1
    <3>5. \A k \in 1..Len(pending') : pending'[k] \in {MapOf(a.map), MapOf(free_map)}
      BY <3>2, <3>4
    <3>6. QED BY <2>1, <2>3, <3>4, <3>5
  <2>6. QED BY <1>8, <2>4, <2>5
<1>10. CASE b.first # NoSector
  <2>1. /\ b.first \in Sector /\ b.map = a.map \cup Run(b.first, len)
        /\ Run(b.first, len) \subseteq Sector /\ Run(b.first, len) \cap a.map = {}
        /\ b.writes = <<MapOf(b.map)>>
    <3>1. Allocation(a.map, len, b)
      BY <1>2 DEF free_map_allocate, Allocation
    <3>2. a.map \in SUBSET Sector /\ len \in Nat /\ b.first # NoSector
      BY <1>4, <1>7, <1>10
    <3>3. Allocated(a.map, len, b)
      BY ONLY <3>1, <3>2, AllocatedIs
    <3>4. QED BY <3>2, <3>3 DEF Allocated, MapOf
  <2>2. Taken(a.first, b.first, len)
    BY <1>5, <1>7, <2>1 DEF Taken
  <2>3. b.map = free_map \cup {a.first} \cup Run(b.first, len)
    BY <1>7, <2>1
  <2>4. blank = <<MapOf(b.map)>> \o <<InodeOf(a.first, b.first, len)>> \o ZeroWrites(b.first, len)
    BY <2>1 DEF InodeWrite, InodeOf
  <2>5. \A T : a.writes \o blank \o T = Creation(a.first, b.first, len, T)
    BY <1>7, <2>3, <2>4 DEF Creation
  <2>6. /\ notAdded.map = free_map \cup Run(b.first, len)
        /\ notAdded.writes \in {<<>>, <<MapOf(notAdded.map)>>}
    <3>1. b.map \ {a.first} = free_map \cup Run(b.first, len)
      BY <1>7, <2>1
    <3>2. QED BY <3>1 DEF free_map_release, MapWrite, MapOf
  <2>7. added = <<EntryOf(Lowest(vacant), n, a.first)>>
    BY DEF DirWrite, EntryOf
  <2> HIDE DEF notAdded, added, blank, undone
  <2>8. CASE canAdd
    <3>1. lost' = lost /\ pending' = a.writes \o blank \o added /\ free_map' = b.map
      BY <1>3, <1>10, <2>8
    <3>2. QED BY <2>2, <2>3, <2>5, <2>7, <2>8, <3>1
  <2>9. CASE ~canAdd
    <3>1. /\ lost' = lost \cup Run(b.first, len) /\ free_map' = notAdded.map
          /\ pending' = a.writes \o blank \o notAdded.writes
      BY <1>3, <1>10, <2>9
    <3>2. pending' = Creation(a.first, b.first, len, notAdded.writes)
      BY <2>5, <3>1
    <3>3. QED BY <2>2, <2>6, <3>1, <3>2
  <2>10. QED BY <2>8, <2>9
<1>11. QED BY <1>9, <1>10

\* The writes of a creation, one by one.
LEMMA CreationIs ==
    ASSUME WellTyped, NEW len \in 0..MaxSectors, NEW s, NEW start, Taken(s, start, len),
           NEW T \in Seq(Write), NEW p, p = Creation(s, start, len, T)
    PROVE  CreationOf(p, MapOf(free_map \cup {s}),
                      MapOf(free_map \cup {s} \cup Run(start, len)),
                      InodeOf(s, start, len), start, len, T)
<1>1. PICK m, z, y : /\ m = MapOf(free_map \cup {s})
                     /\ z = MapOf(free_map \cup {s} \cup Run(start, len))
                     /\ y = InodeOf(s, start, len)
  OBVIOUS
<1>2. /\ free_map \cup {s} \in SUBSET Sector
      /\ free_map \cup {s} \cup Run(start, len) \in SUBSET Sector
      /\ s \in Sector /\ start \in Sector /\ len \in Nat /\ Run(start, len) \subseteq Sector
  BY FileAssumption DEF WellTyped, Taken
<1>3. m \in Write /\ z \in Write
  BY <1>1, <1>2 DEF MapOf, Write
<1>4. y \in Write
  BY <1>1, <1>2 DEF InodeOf, Write, InodeData
<1>5. p = <<m>> \o (<<z>> \o <<y>> \o ZeroWrites(start, len)) \o T
  BY <1>1 DEF Creation
<1>6. CreationOf(p, m, z, y, start, len, T)
  BY ONLY <1>2, <1>3, <1>4, <1>5, T \in Seq(Write), CreationWrites
<1>7. QED BY <1>1, <1>6

\* Files have their sectors among those in use.
LEMMA InUseAre ==
    ASSUME NEW d, NEW r, MemoryOK(d, r)
    PROVE  /\ Kept \subseteq free_map /\ lost \subseteq free_map
           /\ \A i \in Owners(d) : i \in free_map /\ SectorsOf(r, i) \subseteq free_map
BY DEF MemoryOK, SectorsOf

\* A creation without room for the entry: the data sectors are lost.
LEMMA NotAddedKeeps ==
    ASSUME FileInv, pending = <<>>, UNCHANGED <<disk, open_inodes, handle>>,
           NEW len \in 0..MaxSectors, NEW s, NEW start, Taken(s, start, len),
           free_map' = free_map \cup Run(start, len), lost' = lost \cup Run(start, len),
           NEW T \in {<<>>, <<MapOf(free_map')>>}, pending' = Creation(s, start, len, T)
    PROVE  FileInv'
<1>0. PICK d, r : d = disk.dir /\ r = disk.inode
  OBVIOUS
<1>1. WellTyped /\ DiskOK /\ OpenCountsRight
  BY DEF FileInv
<1>2. /\ MemoryOK(d, r) /\ d \in [Slot -> Entry] /\ r \in [Sector -> InodeData]
      /\ \A j \in Owners(d) : SectorsOf(r, j) \subseteq disk.map
  BY <1>0, QuietWorld
<1>3. /\ Kept \subseteq free_map /\ lost \subseteq free_map
      /\ \A i \in Owners(d) : i \in free_map /\ SectorsOf(r, i) \subseteq free_map
  BY <1>2, InUseAre
<1>4. /\ s \in Sector /\ s \notin free_map /\ Run(start, len) \subseteq Sector
      /\ Run(start, len) \cap free_map = {} /\ len \in Nat
  BY FileAssumption DEF Taken
<1>5. free_map' \subseteq Sector /\ lost' \subseteq Sector
  BY <1>1, <1>4 DEF WellTyped
<1>6. /\ T \in Seq(Write)
      /\ \A k \in 1..Len(T) : T[k].part = "map" /\ T[k].value = free_map'
  <2>1. MapOf(free_map') \in Write
    BY <1>5 DEF MapOf, Write
  <2>2. MapOf(free_map').part = "map" /\ MapOf(free_map').value = free_map'
    BY DEF MapOf
  <2>3. CASE T = <<>>
    BY <2>3
  <2>4. CASE T = <<MapOf(free_map')>>
    <3>1. PICK z : z = MapOf(free_map')
      OBVIOUS
    <3>2. T = <<z>> /\ z \in Write /\ z.part = "map" /\ z.value = free_map'
      BY <2>1, <2>2, <2>4, <3>1
    <3>3. T \in Seq(Write) /\ Len(T) = 1 /\ T[1] = z
      BY ONLY <3>2
    <3>4. \A k \in 1..Len(T) : T[k] = z
      BY <3>3
    <3>5. QED BY ONLY <3>2, <3>3, <3>4
  <2>5. QED BY <2>3, <2>4
<1>7. PICK l \in Nat : l = Len(T)
  BY <1>6
<1>8. PICK p : p = pending'
  OBVIOUS
<1>9. /\ p \in Seq(Write) /\ Len(p) = 3 + len + Len(T)
      /\ p[1] = MapOf(free_map \cup {s})
      /\ p[2] = MapOf(free_map \cup {s} \cup Run(start, len))
      /\ p[3] = InodeOf(s, start, len)
      /\ \A k \in 4..3 + len : p[k] = ZeroAt(start + k - 4)
      /\ \A k \in 1..Len(T) : p[3 + len + k] = T[k]
  <2>1. p = Creation(s, start, len, T)
    BY <1>8
  <2>2. CreationOf(p, MapOf(free_map \cup {s}),
                   MapOf(free_map \cup {s} \cup Run(start, len)),
                   InodeOf(s, start, len), start, len, T)
    BY ONLY <1>1, <1>6, <2>1, Taken(s, start, len), len \in 0..MaxSectors, CreationIs
  <2>3. QED BY <2>2 DEF CreationOf
<1>10. \A k \in DOMAIN p :
         \/ p[k].part = "map" /\ free_map \subseteq p[k].value
         \/ p[k].part = "data"
         \/ p[k].part = "inode" /\ p[k].at = s
  <2> SUFFICES ASSUME NEW k \in DOMAIN p
               PROVE  \/ p[k].part = "map" /\ free_map \subseteq p[k].value
                      \/ p[k].part = "data"
                      \/ p[k].part = "inode" /\ p[k].at = s
    OBVIOUS
  <2>1. k \in 1..3 + len + l
    BY <1>7, <1>9
  <2>2. k = 1 \/ k = 2 \/ k = 3 \/ k \in 4..3 + len \/ k - (3 + len) \in 1..l
    BY <1>4, <2>1
  <2>3. CASE k = 1
    BY <1>9, <2>3 DEF MapOf
  <2>4. CASE k = 2
    BY <1>9, <2>4 DEF MapOf
  <2>5. CASE k = 3
    BY <1>9, <2>5 DEF InodeOf
  <2>6. CASE k \in 4..3 + len
    <3>1. p[k] = ZeroAt(start + k - 4)
      BY <1>9, <2>6
    <3>2. QED BY <3>1 DEF ZeroAt
  <2>7. CASE k - (3 + len) \in 1..l
    <3>1. 3 + len + (k - (3 + len)) = k
      BY <1>4, <2>1
    <3>2. p[k] = T[k - (3 + len)]
      BY <1>7, <1>9, <2>7, <3>1
    <3>3. p[k].part = "map" /\ p[k].value = free_map'
      BY <1>6, <1>7, <2>7, <3>2
    <3>4. QED BY <3>3
  <2>8. QED BY <2>2, <2>3, <2>4, <2>5, <2>6, <2>7
<1>11. WellTyped'
  BY <1>1, <1>5, <1>8, <1>9 DEF WellTyped
<1>12. DiskOK' /\ OpenCountsRight'
  BY <1>1, DiskKept DEF OpenCountsRight
<1>13. Removed' = Removed /\ Owners(d)' = Owners(d)
  BY DEF Removed, Owners
<1>14. MemoryOK(d, r)'
  <2>1. \A x : x \in free_map' <=> \/ x \in Kept \/ x \in lost'
                                   \/ \E j \in Owners(d) : x \in SectorsOf(r, j)
    BY <1>2 DEF MemoryOK
  <2>2. \A i \in Owners(d) : SectorsOf(r, i) \cap (Kept \cup lost') = {}
    <3>1. \A i \in Owners(d) : SectorsOf(r, i) \cap (Kept \cup lost) = {}
      BY <1>2 DEF MemoryOK
    <3>2. QED BY <1>3, <1>4, <3>1
  <2>3. lost' \cap Kept = {}
    <3>1. lost \cap Kept = {}
      BY <1>2 DEF MemoryOK
    <3>2. QED BY <1>3, <1>4, <3>1
  <2>4. QED BY <1>2, <1>13, <2>1, <2>2, <2>3 DEF MemoryOK
<1>15. DirWrites(d)'
  <2>1. \A k \in DOMAIN pending' : pending'[k].part # "dir"
    BY <1>8, <1>10
  <2>2. QED BY <1>0, <2>1 DEF DirWrites
<1>16. InodeWrites(d, r)'
  <2>1. s \notin Owners(d)
    BY <1>3, <1>4
  <2>2. s \notin Listed(disk.dir) \cup Removed
    BY <1>0, <2>1 DEF Owners
  <2>3. \A k \in DOMAIN pending' : pending'[k].part = "inode" => pending'[k].at = s
    BY <1>8, <1>10
  <2>4. QED BY <1>0, <1>13, <2>1, <2>2, <2>3 DEF InodeWrites
<1>17. MapWrites(d, r)'
  <2>1. \A k \in DOMAIN pending' : pending'[k].part = "map" =>
          /\ Kept \subseteq pending'[k].value
          /\ \A j \in Owners(d)' : SectorsOf(r, j) \subseteq pending'[k].value
    BY <1>3, <1>8, <1>10, <1>13
  <2>2. QED BY <1>2, <1>13, <2>1, AllMapped
<1>18. World(d, r)'
  BY <1>14, <1>15, <1>16, <1>17 DEF World
<1>19. QED BY <1>2, <1>11, <1>12, <1>18 DEF FileInv

\* A file comes to the directory: its entry is the last write.
LEMMA AddedKeeps ==
    ASSUME FileInv, pending = <<>>, UNCHANGED <<disk, open_inodes, handle, lost>>,
           NEW n \in Name, NEW len \in 0..MaxSectors, NEW s, NEW start, Taken(s, start, len),
           free_map' = free_map \cup {s} \cup Run(start, len),
           lookup(n) = {}, NEW slot \in vacant,
           pending' = Creation(s, start, len, <<EntryOf(slot, n, s)>>)
    PROVE  FileInv'
<1>0. PICK d, r : d = disk.dir /\ r = disk.inode
  OBVIOUS
<1>1. WellTyped /\ DiskOK /\ OpenCountsRight
  BY DEF FileInv
<1>2. /\ MemoryOK(d, r) /\ d \in [Slot -> Entry] /\ r \in [Sector -> InodeData]
      /\ \A j \in Owners(d) : SectorsOf(r, j) \subseteq disk.map
  BY <1>0, QuietWorld
<1>3. /\ Kept \subseteq free_map /\ lost \subseteq free_map
      /\ \A i \in Owners(d) : i \in free_map /\ SectorsOf(r, i) \subseteq free_map
  BY <1>2, InUseAre
<1>4. /\ s \in Sector /\ s \notin free_map /\ start \in Sector /\ Run(start, len) \subseteq Sector
      /\ Run(start, len) \cap free_map = {} /\ s \notin Run(start, len) /\ len \in Nat
      /\ s # NoSector
  BY FileAssumption DEF Taken, Sector, NoSector
<1>5. slot \in Slot /\ d[slot] = NoEntry /\ \A t \in Slot : d[t].name # n
  BY <1>0 DEF vacant, lookup
<1>6. PICK e, w : e = [name |-> n, inode |-> s] /\ w = EntryOf(slot, n, s)
  OBVIOUS
<1>7. /\ e \in Entry /\ e.name = n /\ e.inode = s /\ e # NoEntry
      /\ w \in Write /\ w.part = "dir" /\ w.at = slot /\ w.value = e
  <2>1. e \in Entry /\ e.name = n /\ e.inode = s
    BY <1>4, <1>6 DEF Entry
  <2>2. e # NoEntry
    BY <1>4, <2>1 DEF NoEntry
  <2>3. w = [part |-> "dir", at |-> slot, value |-> e]
    BY <1>6 DEF EntryOf
  <2>4. w \in Write
    BY <1>5, <2>1, <2>3 DEF Write
  <2>5. QED BY <2>1, <2>2, <2>3, <2>4
<1>8. PICK c, q : /\ c = [d EXCEPT ![slot] = e]
                  /\ q = [r EXCEPT ![s] = [start |-> start, len |-> len]]
  OBVIOUS
<1>9. /\ c \in [Slot -> Entry] /\ c[slot] = e
      /\ \A t \in Slot : t # slot => c[t] = d[t]
  BY <1>2, <1>5, <1>7, <1>8
<1>10. /\ q \in [Sector -> InodeData] /\ q[s] = [start |-> start, len |-> len]
       /\ \A i \in Sector : i # s => q[i] = r[i]
  <2>1. [start |-> start, len |-> len] \in InodeData
    BY <1>4 DEF InodeData
  <2>2. QED BY <1>2, <1>4, <1>8, <2>1
<1>11. SectorsOf(q, s) = {s} \cup Run(start, len)
  BY <1>10 DEF SectorsOf
<1>12. /\ Removed' = Removed /\ Listed(c) = Listed(d) \cup {s}
       /\ Owners(c)' = Owners(d) \cup {s} /\ s \notin Owners(d)
       /\ \A i \in Owners(d) : i \in Sector
  <2>1. Removed' = Removed
    BY DEF Removed
  <2>2. \A i : i \in Listed(c) <=> i \in Listed(d) \cup {s}
    <3>1. \A i : i \in Listed(c) <=> i # NoSector /\ \E t \in Slot : i = c[t].inode
      BY DEF Listed
    <3>2. \A i : i \in Listed(d) <=> i # NoSector /\ \E t \in Slot : i = d[t].inode
      BY DEF Listed
    <3>3. d[slot].inode = NoSector
      BY <1>5 DEF NoEntry
    <3>4. QED BY <1>4, <1>5, <1>7, <1>9, <3>1, <3>2, <3>3
  <2>3. s \notin Owners(d)
    BY <1>3, <1>4
  <2>4. \A i \in Owners(d) : i \in Sector
    BY <1>1, <1>3 DEF WellTyped
  <2>5. QED BY <2>1, <2>2, <2>3, <2>4 DEF Owners
<1>13. \A i \in Owners(d) : SectorsOf(q, i) = SectorsOf(r, i)
  BY <1>10, <1>12 DEF SectorsOf
<1>14. <<w>> \in Seq(Write) /\ Len(<<w>>) = 1 /\ <<w>>[1] = w
  BY <1>7
<1>15. PICK p : p = pending'
  OBVIOUS
<1>16. /\ p \in Seq(Write) /\ Len(p) = 4 + len
       /\ p[1] = MapOf(free_map \cup {s})
       /\ p[2] = MapOf(free_map')
       /\ p[3] = InodeOf(s, start, len)
       /\ \A k \in 4..3 + len : p[k] = ZeroAt(start + k - 4) /\ p[k].part = "data"
       /\ p[4 + len] = w
  <2>1. p = Creation(s, start, len, <<w>>)
    BY <1>6, <1>15
  <2>2. <<w>> \in Seq(Write)
    BY <1>14
  <2>3. CreationOf(p, MapOf(free_map \cup {s}),
                   MapOf(free_map \cup {s} \cup Run(start, len)),
                   InodeOf(s, start, len), start, len, <<w>>)
    BY ONLY <1>1, <2>1, <2>2, Taken(s, start, len), len \in 0..MaxSectors, CreationIs
  <2>4. PICK T : T = <<w>>
    OBVIOUS
  <2>5. /\ p \in Seq(Write) /\ Len(p) = 3 + len + Len(T)
        /\ p[1] = MapOf(free_map \cup {s})
        /\ p[2] = MapOf(free_map \cup {s} \cup Run(start, len))
        /\ p[3] = InodeOf(s, start, len)
        /\ \A k \in 4..3 + len : p[k] = ZeroAt(start + k - 4)
        /\ \A k \in 1..Len(T) : p[3 + len + k] = T[k]
    BY <2>3, <2>4 DEF CreationOf
  <2>6. Len(T) = 1 /\ T[1] = w
    BY <1>14, <2>4
  <2>7. 3 + len + 1 = 4 + len
    BY <1>4
  <2>8. p[3 + len + 1] = w
    BY <2>5, <2>6
  <2>9. QED BY <2>5, <2>6, <2>7, <2>8 DEF ZeroAt
<1>17. \A k \in DOMAIN p : /\ k \in 1..4 + len
                           /\ k = 1 \/ k = 2 \/ k = 3 \/ k \in 4..3 + len \/ k = 4 + len
  <2>1. DOMAIN p = 1..4 + len
    BY <1>16
  <2>2. QED BY <1>4, <2>1
<1>18. 1 \in DOMAIN p /\ 3 \in DOMAIN p /\ 4 + len \in DOMAIN p /\ 1 < Len(p)
  BY <1>4, <1>16
<1>19. /\ p[1].part = "map" /\ p[1].value = free_map \cup {s}
       /\ p[2].part = "map" /\ p[2].value = free_map'
       /\ p[3].part = "inode" /\ p[3].at = s /\ p[3].value = q[s]
  BY <1>10, <1>16 DEF MapOf, InodeOf
<1>20. WellTyped'
  <2>1. free_map' \subseteq Sector
    BY <1>1, <1>4 DEF WellTyped
  <2>2. QED BY <1>1, <1>15, <1>16, <2>1 DEF WellTyped
<1>21. DiskOK' /\ OpenCountsRight'
  BY <1>1, DiskKept DEF OpenCountsRight
<1>22. MemoryOK(c, q)'
  <2>1. DirOK(c)
    <3> SUFFICES ASSUME NEW t \in Slot, NEW u \in Slot, t # u, c[t] # NoEntry
                 PROVE  c[t].name # c[u].name /\ c[t].inode # c[u].inode
      BY DEF DirOK
    <3>1. \A x \in Slot : d[x] # NoEntry => d[x].inode \in Owners(d) /\ d[x].inode # s
      BY <1>2, <1>12, EntryIs DEF Listed, Owners
    <3>2. CASE t = slot
      <4>1. c[t] = e /\ c[u] = d[u] /\ d[u].name # n
        BY <1>5, <1>9, <3>2
      <4>2. d[u].inode # s
        BY <1>4, <3>1 DEF NoEntry
      <4>3. QED BY <1>7, <4>1, <4>2
    <3>3. CASE u = slot
      BY <1>5, <1>7, <1>9, <3>1, <3>3
    <3>4. CASE t # slot /\ u # slot
      <4>1. DirOK(d)
        BY <1>2 DEF MemoryOK
      <4>2. QED BY <1>9, <3>4, <4>1 DEF DirOK
    <3>5. QED BY <3>2, <3>3, <3>4
  <2>2. Listed(c) \cap Removed' = {}
    BY <1>2, <1>12 DEF MemoryOK, Owners
  <2>3. \A i \in Owners(d) : SectorsOf(q, i) \cap SectorsOf(q, s) = {}
    BY <1>3, <1>4, <1>11, <1>13
  <2>4. \A i, j \in Owners(d) \cup {s} : i # j => SectorsOf(q, i) \cap SectorsOf(q, j) = {}
    <3>1. \A i, j \in Owners(d) : i # j => SectorsOf(q, i) \cap SectorsOf(q, j) = {}
      BY <1>2, <1>13 DEF MemoryOK
    <3>2. QED BY <2>3, <3>1
  <2>5. \A i \in Owners(d) \cup {s} : SectorsOf(q, i) \cap (Kept \cup lost') = {}
    <3>1. \A i \in Owners(d) : SectorsOf(q, i) \cap (Kept \cup lost) = {}
      BY <1>2, <1>13 DEF MemoryOK
    <3>2. SectorsOf(q, s) \cap (Kept \cup lost) = {}
      BY <1>3, <1>4, <1>11
    <3>3. QED BY <3>1, <3>2
  <2>6. \A x : x \in free_map' <=> \/ x \in Kept \/ x \in lost'
                                   \/ \E i \in Owners(d) \cup {s} : x \in SectorsOf(q, i)
    <3>1. \A x : x \in free_map <=> \/ x \in Kept \/ x \in lost
                                    \/ \E i \in Owners(d) : x \in SectorsOf(q, i)
      BY <1>2, <1>13 DEF MemoryOK
    <3>2. \A x : x \in free_map' <=> x \in free_map \/ x \in SectorsOf(q, s)
      BY <1>11
    <3>3. QED BY <3>1, <3>2
  <2>7. lost' \cap Kept = {} /\ \A i \in Sector : /\ open_inodes'[i].cnt # 0 => i \in Owners(c)'
                                                  /\ open_inodes'[i].removed => open_inodes'[i].cnt # 0
    BY <1>2, <1>12 DEF MemoryOK
  <2>8. QED BY <1>12, <2>1, <2>2, <2>4, <2>5, <2>6, <2>7 DEF MemoryOK
<1>23. DirWrites(c)'
  <2>1. \A k \in DOMAIN p : p[k].part = "dir" => k = 4 + len
    BY <1>16, <1>17, <1>19
  <2>2. /\ \A k \in DOMAIN p : p[k].part = "dir" =>
             /\ c[p[k].at] = p[k].value
             /\ p[k].value = NoEntry => k = 1
             /\ p[k].value # NoEntry => k = Len(p) /\ disk'.dir[p[k].at] = NoEntry
             /\ \A j \in DOMAIN p : p[j].part = "dir" => j = k
        /\ \A t \in Slot : c[t] # disk'.dir[t] =>
             \E k \in DOMAIN p : p[k].part = "dir" /\ p[k].at = t
    BY <1>0, <1>5, <1>7, <1>9, <1>16, <1>18, <2>1
  <2>3. QED BY <1>15, <2>2 DEF DirWrites
<1>24. InodeWrites(c, q)'
  <2>1. \A k \in DOMAIN p : p[k].part = "inode" => p[k].at = s /\ p[k].value = q[s]
    BY <1>7, <1>16, <1>17, <1>19
  <2>2. s \notin Listed(disk.dir) \cup Removed
    BY <1>0, <1>12 DEF Owners
  <2>3. \A i \in Owners(d) \cup {s} : q[i] # disk.inode[i] => i = s
    BY <1>0, <1>10, <1>12
  <2>4. /\ \A k \in DOMAIN p : p[k].part = "inode" =>
             /\ p[k].at \notin Listed(disk'.dir) \cup Removed'
             /\ p[k].at \in Owners(c)' => p[k].value = q[p[k].at]
        /\ \A i \in Owners(c)' : q[i] # disk'.inode[i] =>
             \E k \in DOMAIN p : p[k].part = "inode" /\ p[k].at = i
    BY <1>12, <1>18, <1>19, <2>1, <2>2, <2>3
  <2>5. QED BY <1>15, <2>4 DEF InodeWrites
<1>25. MapWrites(c, q)'
  <2>1. \A k \in DOMAIN p : p[k].part = "map" => k = 1 \/ k = 2
    BY <1>7, <1>16, <1>17, <1>19
  <2>2. \A i \in Owners(d) \cup {s} : /\ i \in free_map \cup {s}
                                      /\ SectorsOf(q, i) \subseteq free_map'
                                      /\ i # s => SectorsOf(q, i) \subseteq free_map \cup {s}
    BY <1>3, <1>11, <1>13
  <2>3. s \notin Led'
    BY <1>0, <1>12 DEF Owners, Led
  <2>4. ASSUME NEW k \in DOMAIN p, p[k].part = "map"
        PROVE  /\ Kept \subseteq p[k].value
               /\ \A i \in Owners(d) \cup {s} :
                    /\ i \in p[k].value
                    /\ i \in Led' => SectorsOf(q, i) \subseteq p[k].value
                    /\ \/ SectorsOf(q, i) \subseteq p[k].value
                       \/ k < Len(p) /\ p[k + 1].part = "map"
    <3>1. CASE k = 1
      BY <1>3, <1>18, <1>19, <2>2, <2>3, <3>1
    <3>2. CASE k = 2
      BY <1>3, <1>19, <2>2, <3>2
    <3>3. QED BY <2>1, <2>4, <3>1, <3>2
  <2>5. p # <<>> /\ p[1].part = "map"
    BY <1>18, <1>19
  <2>6. QED BY <1>12, <1>15, <2>4, <2>5 DEF MapWrites
<1>26. World(c, q)'
  BY <1>22, <1>23, <1>24, <1>25 DEF World
<1>27. QED BY <1>9, <1>10, <1>20, <1>21, <1>26 DEF FileInv

LEMMA CreateKeeps ==
    ASSUME FileInv, NEW n \in Name, NEW len \in 0..MaxSectors, NEW F, filesys_create(n, len, F)
    PROVE  FileInv'
<1>1. /\ pending = <<>> /\ UNCHANGED <<disk, open_inodes, handle>>
      /\ WellTyped /\ DiskOK /\ OpenCountsRight
  BY DEF FileInv, filesys_create, Quiet
<1>2. CASE /\ free_map' = free_map /\ lost' = lost /\ pending' \in Seq(Write)
           /\ \A k \in 1..Len(pending') :
                pending'[k].part = "map" /\ free_map \subseteq pending'[k].value
  <2>0. PICK d, r : d = disk.dir /\ r = disk.inode
    OBVIOUS
  <2>1. MemoryOK(d, r) /\ \A j \in Owners(d) : SectorsOf(r, j) \subseteq disk.map
    BY <1>1, <2>0, QuietWorld
  <2>2. /\ Kept \subseteq free_map
        /\ \A i \in Owners(d) : i \in free_map /\ SectorsOf(r, i) \subseteq free_map
    BY <2>1, InUseAre
  <2>3. WellTyped' /\ DiskOK' /\ OpenCountsRight'
    BY <1>1, <1>2, DiskKept DEF WellTyped, OpenCountsRight
  <2>4. Removed' = Removed /\ Owners(d)' = Owners(d)
    BY <1>1 DEF Removed, Owners
  <2>5. MemoryOK(d, r)'
    BY <1>1, <1>2, <2>1, <2>4 DEF MemoryOK
  <2>6. \A k \in DOMAIN pending' : pending'[k].part = "map" /\ free_map \subseteq pending'[k].value
    BY <1>2
  <2>7. MapWrites(d, r)'
    BY <1>1, <2>1, <2>2, <2>4, <2>6, AllMapped
  <2>8. QED BY <1>1, <2>0, <2>3, <2>5, <2>6, <2>7, NothingNew
<1>3. ASSUME NEW s, NEW start, Taken(s, start, len),
             free_map' = free_map \cup Run(start, len), lost' = lost \cup Run(start, len),
             NEW T \in {<<>>, <<MapOf(free_map')>>}, pending' = Creation(s, start, len, T)
      PROVE  FileInv'
  BY <1>1, <1>3, NotAddedKeeps
<1>4. ASSUME NEW s, NEW start, Taken(s, start, len), lost' = lost,
             free_map' = free_map \cup {s} \cup Run(start, len),
             lookup(n) = {}, vacant # {},
             pending' = Creation(s, start, len, <<EntryOf(Lowest(vacant), n, s)>>)
      PROVE  FileInv'
  <2>1. PICK slot : slot = Lowest(vacant)
    OBVIOUS
  <2>2. slot \in vacant
    BY <1>4, <2>1, LowestSlot DEF vacant
  <2>3. UNCHANGED <<disk, open_inodes, handle, lost>>
    BY <1>1, <1>4
  <2>4. pending' = Creation(s, start, len, <<EntryOf(slot, n, s)>>)
    BY <1>4, <2>1
  <2>5. QED BY <1>1, <1>4, <2>2, <2>3, <2>4, AddedKeeps
<1>5. QED BY <1>1, <1>2, <1>3, <1>4, CreateIs

-----------------------------------------------------------------------------
(* The theorem.                                                              *)

LEMMA FilesStutter == ASSUME FileInv, UNCHANGED fileVars PROVE FileInv'
<1>1. PICK d \in [Slot -> Entry], r \in [Sector -> InodeData] : World(d, r)
  BY DEF FileInv
<1>2. /\ disk' = disk /\ pending' = pending /\ free_map' = free_map
      /\ open_inodes' = open_inodes /\ handle' = handle /\ lost' = lost
  BY DEF fileVars
<1>3. Removed' = Removed /\ Owners(d)' = Owners(d)
  BY <1>2 DEF Removed, Owners
<1>4. MemoryOK(d, r)'
  BY <1>1, <1>2, <1>3 DEF World, MemoryOK
<1>5. DirWrites(d)' /\ InodeWrites(d, r)' /\ MapWrites(d, r)'
  BY <1>1, <1>2, <1>3 DEF World, DirWrites, InodeWrites, MapWrites, Led
<1>6. WellTyped' /\ DiskOK' /\ OpenCountsRight'
  BY <1>2 DEF FileInv, WellTyped, DiskOK, OpenCountsRight
<1>7. World(d, r)'
  BY <1>4, <1>5 DEF World
<1>8. QED BY <1>1, <1>6, <1>7 DEF FileInv

\* After do_format the directory is empty.
LEMMA FilesBegin == FileInit => FileInv
<1> SUFFICES ASSUME FileInit PROVE FileInv
  OBVIOUS
<1>0. PICK d, r : d = disk.dir /\ r = disk.inode
  OBVIOUS
<1>1. /\ disk = [map |-> Kept, dir |-> [s \in Slot |-> NoEntry],
                 inode |-> [s \in Sector |-> Blank], data |-> [s \in Sector |-> Zero]]
      /\ pending = <<>> /\ free_map = disk.map /\ lost = {}
      /\ open_inodes = [s \in Sector |-> NoInode]
      /\ handle = [h \in Handle |-> NoSector]
  BY DEF FileInit, Kept
<1>2. /\ NoInode \in [cnt : Nat, removed : BOOLEAN]
      /\ NoInode.cnt = 0 /\ NoInode.removed = FALSE
      /\ NoEntry \in Entry /\ NoEntry.inode = NoSector /\ NoSector \notin Sector
      /\ Blank \in InodeData /\ Zero \in Data /\ Kept \subseteq Sector
  <2>1. /\ SectorCnt \in Nat /\ 2 <= SectorCnt /\ MaxSectors \in Nat /\ Zero \in Data
        /\ Reserved \in Nat /\ Reserved <= SectorCnt
    BY FileAssumption
  <2>2. Blank \in InodeData
    BY <2>1 DEF Blank, InodeData, Sector
  <2>3. Kept \subseteq Sector /\ NoSector \notin Sector
    BY <2>1 DEF Kept, Sector, NoSector
  <2>4. NoEntry \in Entry /\ NoEntry.inode = NoSector
    BY DEF NoEntry, Entry
  <2>5. QED BY <2>1, <2>2, <2>3, <2>4 DEF NoInode
<1>3. /\ d = [s \in Slot |-> NoEntry] /\ r = [s \in Sector |-> Blank]
      /\ disk.map = Kept /\ disk \in Disk
  BY <1>0, <1>1, <1>2 DEF Disk
<1>4. WellTyped
  BY <1>1, <1>2, <1>3 DEF WellTyped
<1>5. Listed(d) = {} /\ Removed = {} /\ Owners(d) = {} /\ DirOK(d)
  BY <1>1, <1>2, <1>3 DEF Listed, Removed, Owners, DirOK
<1>6. DiskOK
  BY <1>0, <1>3, <1>5 DEF DiskOK
<1>7. OpenCountsRight
  <2> SUFFICES ASSUME NEW i \in Sector
               PROVE  open_inodes[i].cnt = Cardinality({ h \in Handle : handle[h] = i })
    BY DEF OpenCountsRight
  <2>1. { h \in Handle : handle[h] = i } = {}
    BY <1>1, <1>2
  <2>2. QED BY <1>1, <1>2, <2>1, FS_EmptySet
<1>8. MemoryOK(d, r)
  BY <1>1, <1>2, <1>3, <1>5 DEF MemoryOK
<1>9. DOMAIN pending = {}
  BY <1>1
<1>10. DirWrites(d) /\ InodeWrites(d, r) /\ MapWrites(d, r)
  BY <1>0, <1>5, <1>9 DEF DirWrites, InodeWrites, MapWrites
<1>11. World(d, r)
  BY <1>8, <1>10 DEF World
<1>12. d \in [Slot -> Entry] /\ r \in [Sector -> InodeData]
  BY <1>2, <1>3
<1>13. QED BY <1>4, <1>6, <1>7, <1>11, <1>12 DEF FileInv

\* Every step keeps the invariant.
LEMMA FilesKeep == FileInv /\ [FileNext]_fileVars => FileInv'
<1> SUFFICES ASSUME FileInv, [FileNext]_fileVars PROVE FileInv'
  OBVIOUS
<1>1. CASE block_write
  BY <1>1, BlockWriteKeeps
<1>2. CASE restart
  BY <1>2, RestartKeeps
<1>3. CASE \E F \in Shortages, n \in Name, len \in 0..MaxSectors : filesys_create(n, len, F)
  BY <1>3, CreateKeeps
<1>4. CASE \E F \in Shortages, n \in Name : filesys_remove(n, F)
  BY <1>4, RemoveKeeps
<1>5. CASE \E h \in Handle, n \in Name : filesys_open(h, n)
  BY <1>5, OpenKeeps
<1>6. CASE \E h \in Handle, F \in Shortages : file_close(h, F)
  BY <1>6, CloseKeeps
<1>7. CASE \E h \in Handle, s \in Sector, v \in Data : file_write(h, s, v)
  BY <1>7, WriteKeeps
<1>8. CASE UNCHANGED fileVars
  BY <1>8, FilesStutter
<1>9. QED BY <1>1, <1>2, <1>3, <1>4, <1>5, <1>6, <1>7, <1>8 DEF FileNext

\* What the invariant says of the device and of memory.
LEMMA FilesAreSafe == FileInv => FilesSafe
<1> SUFFICES ASSUME FileInv PROVE FilesSafe
  OBVIOUS
<1>1. WellTyped /\ DiskOK /\ OpenCountsRight /\ disk \in Disk
  BY DEF FileInv, WellTyped
<1>2. \A s \in Slot : /\ disk.dir[s] \in Entry
                      /\ disk.dir[s] # NoEntry <=> disk.dir[s].inode # NoSector
  BY <1>1, EntryIs DEF Disk
<1>3. \A s \in Slot : disk.dir[s] # NoEntry => disk.dir[s].inode \in Listed(disk.dir)
  BY <1>2 DEF Listed
<1>4. FileTypeOK
  <2>1. /\ disk.map \subseteq Sector /\ disk.data \in [Sector -> Data]
        /\ disk.inode \in [Sector -> [start : Sector, len : 0..MaxSectors]]
    BY <1>1 DEF Disk, InodeData
  <2>2. disk.dir \in [Slot -> [name : Name \cup {NoName}, inode : Sector \cup {NoSector}]]
    <3>1. Entry \subseteq [name : Name \cup {NoName}, inode : Sector \cup {NoSector}]
      BY DEF Entry, NoEntry
    <3>2. disk.dir \in [Slot -> Entry]
      BY <1>1 DEF Disk
    <3>3. QED BY <3>1, <3>2
  <2>3. open_inodes \in [Sector -> [cnt : 0..Cardinality(Handle), removed : BOOLEAN]]
    <3>1. ASSUME NEW i \in Sector PROVE open_inodes[i].cnt \in 0..Cardinality(Handle)
      <4>1. open_inodes[i].cnt = Cardinality({ h \in Handle : handle[h] = i })
        BY <1>1 DEF OpenCountsRight
      <4>2. { h \in Handle : handle[h] = i } \subseteq Handle /\ IsFiniteSet(Handle)
        BY FileAssumption
      <4>3. Cardinality({ h \in Handle : handle[h] = i }) <= Cardinality(Handle)
        BY <4>2, FS_Subset
      <4>4. open_inodes[i].cnt \in Nat /\ Cardinality(Handle) \in Nat
        BY <1>1, <4>2, FS_CardinalityType DEF WellTyped
      <4>5. QED BY <4>1, <4>3, <4>4
    <3>2. QED BY <1>1, <3>1 DEF WellTyped
  <2>4. QED BY <1>1, <2>1, <2>2, <2>3 DEF FileTypeOK, WellTyped
<1>5. NamesUnique
  BY <1>1 DEF NamesUnique, DiskOK, DirOK
<1>6. DiskConsistent
  <2>1. 0..Reserved - 1 \cup Reachable \subseteq disk.map
    BY <1>1, ReachableIs DEF DiskOK, Kept
  <2>2. \A s \in Slot : disk.dir[s] # NoEntry =>
          {disk.dir[s].inode} \cup DataOf(disk.dir[s].inode) = SectorsOf(disk.inode, disk.dir[s].inode)
    BY DEF SectorsOf, DataOf
  <2>3. \A s \in Slot : disk.dir[s] # NoEntry =>
          SectorsOf(disk.inode, disk.dir[s].inode) \cap 0..Reserved - 1 = {}
    BY <1>1, <1>3 DEF DiskOK, Kept
  <2>4. \A s, t \in Slot : disk.dir[s] # NoEntry /\ disk.dir[t] # NoEntry /\ s # t =>
          SectorsOf(disk.inode, disk.dir[s].inode)
            \cap SectorsOf(disk.inode, disk.dir[t].inode) = {}
    BY <1>1, <1>3 DEF DiskOK, DirOK
  <2>5. QED BY <2>1, <2>2, <2>3, <2>4 DEF DiskConsistent
<1>7. SectorsAccounted
  <2> SUFFICES ASSUME Quiet
               PROVE  /\ free_map = 0..Reserved - 1 \cup Reachable \cup Removed
                                      \cup (UNION { DataOf(i) : i \in Removed }) \cup lost
                      /\ lost \cap Reachable = {}
    BY DEF SectorsAccounted, Removed
  <2>1. PICK d, r : d = disk.dir /\ r = disk.inode
    OBVIOUS
  <2>2. MemoryOK(d, r)
    BY <2>1, QuietWorld DEF Quiet
  <2>3. \A x : x \in free_map <=> \/ x \in Kept \/ x \in lost
                                  \/ \E i \in Owners(d) : x \in SectorsOf(r, i)
    BY <2>2 DEF MemoryOK
  <2>4. \A i \in Owners(d) : SectorsOf(r, i) \cap lost = {}
    BY <2>2 DEF MemoryOK
  <2>5. \A x : x \in Removed \cup (UNION { DataOf(i) : i \in Removed })
                 <=> \E i \in Removed : x \in SectorsOf(r, i)
    BY <2>1 DEF SectorsOf, DataOf
  <2>6. \A x : x \in Reachable <=> \E i \in Listed(d) : x \in SectorsOf(r, i)
    BY <2>1, ReachableIs
  <2>7. \A x : x \in free_map <=> \/ x \in 0..Reserved - 1 \/ x \in Reachable
                                  \/ x \in Removed \cup (UNION { DataOf(i) : i \in Removed })
                                  \/ x \in lost
    BY <2>3, <2>5, <2>6 DEF Owners, Kept
  <2>8. lost \cap Reachable = {}
    BY <2>4, <2>6 DEF Owners
  <2>9. PICK E : E = UNION { DataOf(i) : i \in Removed }
    OBVIOUS
  <2>10. \A x : x \in free_map <=> x \in 0..Reserved - 1 \cup Reachable \cup Removed \cup E \cup lost
    BY <2>7, <2>9
  <2>11. free_map = 0..Reserved - 1 \cup Reachable \cup Removed \cup E \cup lost
    BY ONLY <2>10
  <2>12. QED BY <2>8, <2>9, <2>11
<1>8. QED BY <1>1, <1>4, <1>5, <1>6, <1>7 DEF FilesSafe

\* At every stop the device is consistent, and between operations exactly the
\* sectors of files, and those that failed creations lost, are in use.
THEOREM FilesStaySafe == FileSpec => []FilesSafe
<1>1. QED BY FilesBegin, FilesKeep, FilesAreSafe, PTL DEF FileSpec

-----------------------------------------------------------------------------
(* What the file system promises (Files).  While an operation writes, a      *)
(* handle leads to a file that the directory lists or that was removed, ...  *)

HandlesLed == \A h \in Handle : handle[h] # NoSector => handle[h] \in Led
\* ... data are written to an open file, or are zeros for one still to come, ...
DataWrites ==
  \A k \in DOMAIN pending : pending[k].part = "data" =>
    \/ /\ Len(pending) = 1
       /\ \E h \in Handle : handle[h] # NoSector /\ pending[k].at \in DataOf(handle[h])
    \/ pending[k].value = Zero /\ \A i \in Led : pending[k].at \notin SectorsOf(disk.inode, i)
\* ... and when an entry comes to the directory, its file is of zeros.
Adds(k) == pending[k].part = "dir" /\ pending[k].value # NoEntry
Zeroed ==
  \A k \in DOMAIN pending : Adds(k) => \E run \in InodeData :
    /\ \A j \in DOMAIN pending : pending[j].part = "inode" =>
         pending[j].at = pending[k].value.inode /\ pending[j].value = run
    /\ \/ \E j \in DOMAIN pending : pending[j].part = "inode"
       \/ disk.inode[pending[k].value.inode] = run
    /\ Run(run.start, run.len) \subseteq Sector
    /\ \A x \in Run(run.start, run.len) :
         \/ disk.data[x] = Zero
         \/ \E j \in DOMAIN pending : pending[j].part = "data" /\ pending[j].at = x
AddsNothing == \A k \in DOMAIN pending : ~Adds(k)
PromiseInv == FileInv /\ HandlesLed /\ DataWrites /\ Zeroed

\* Without a pending addition, an open file is listed or was removed.
LEMMA HandlesLead == FileInv /\ AddsNothing => HandlesLed
<1> SUFFICES ASSUME FileInv, AddsNothing,
                    NEW h \in Handle, handle[h] # NoSector
             PROVE  handle[h] \in Led
  BY DEF HandlesLed
<1>1. PICK d \in [Slot -> Entry], r \in [Sector -> InodeData] : World(d, r)
  BY DEF FileInv
<1>2. handle[h] \in Sector /\ open_inodes[handle[h]].cnt # 0
  BY IsOpen DEF FileInv
<1>3. handle[h] \in Owners(d)
  BY <1>1, <1>2 DEF World, MemoryOK
<1>4. \A s \in Slot : d[s] # disk.dir[s] => d[s] = NoEntry
  BY <1>1 DEF World, DirWrites, Adds, AddsNothing
<1>5. \A s \in Slot : d[s].inode # NoSector => d[s] = disk.dir[s]
  BY <1>4 DEF NoEntry
<1>6. Listed(d) \subseteq Listed(disk.dir)
  BY <1>5 DEF Listed
<1>7. QED BY <1>3, <1>6 DEF Owners, Led

LEMMA HandlesLeadNext ==
    ASSUME FileInv', AddsNothing' PROVE HandlesLed'
BY HandlesLead, PTL

\* An operation that writes no data and adds no entry.
LEMMA CalmKeeps ==
    ASSUME FileInv',
           \A k \in DOMAIN pending' : \/ pending'[k].part \in {"map", "inode"}
                                      \/ pending'[k].part = "dir" /\ pending'[k].value = NoEntry
    PROVE  PromiseInv'
<1>1. \A k \in DOMAIN pending' : ~Adds(k)' /\ pending'[k].part # "data"
  BY DEF Adds
<1>2. DataWrites' /\ Zeroed'
  BY <1>1 DEF DataWrites, Zeroed
<1>3. HandlesLed'
  BY <1>1, HandlesLeadNext DEF AddsNothing
<1>4. QED BY <1>2, <1>3 DEF PromiseInv

\* While no entry is being written, the files that are led to have sectors of
\* their own, and no write but that of their data disturbs them.
LEMMA LedSafe ==
    ASSUME FileInv, \A k \in DOMAIN pending : k = 1 => pending[k].part # "dir"
    PROVE  /\ \A i \in Led : /\ i \in Sector
                             /\ \A k \in DOMAIN pending :
                                  /\ pending[k].part = "map" => SectorsOf(disk.inode, i) \subseteq pending[k].value
                                  /\ pending[k].part = "inode" => pending[k].at # i
           /\ \A i, j \in Led : i # j => SectorsOf(disk.inode, i) \cap SectorsOf(disk.inode, j) = {}
           /\ \A i \in Led : SectorsOf(disk.inode, i) \subseteq Sector
<1>1. PICK d \in [Slot -> Entry], r \in [Sector -> InodeData] : World(d, r)
  BY DEF FileInv
<1>2. /\ DirWrites(d) /\ InodeWrites(d, r) /\ MapWrites(d, r) /\ MemoryOK(d, r)
      /\ disk.dir \in [Slot -> Entry] /\ disk.inode \in [Sector -> InodeData]
  BY <1>1 DEF World, FileInv, WellTyped, Disk
<1>3. \A s \in Slot : disk.dir[s] # NoEntry => d[s] = disk.dir[s]
  BY <1>2 DEF DirWrites
<1>4. \A s \in Slot : disk.dir[s].inode # NoSector => d[s] = disk.dir[s]
  BY <1>3 DEF NoEntry
<1>5. Led \subseteq Owners(d)
  BY <1>4 DEF Led, Listed, Owners
<1>6. \A i \in Led : i \in Sector
  <2>1. \A i \in Listed(disk.dir) : i \in Sector
    BY <1>2, EntryIs DEF Listed, Entry, NoEntry
  <2>2. QED BY <2>1 DEF Led, Removed
<1>7. \A i \in Led : r[i] = disk.inode[i]
  BY <1>2, <1>5 DEF InodeWrites, Led
<1>8. \A i \in Led : SectorsOf(r, i) = SectorsOf(disk.inode, i)
  BY <1>7 DEF SectorsOf
<1>9. \A i \in Led, k \in DOMAIN pending :
        /\ pending[k].part = "map" => SectorsOf(disk.inode, i) \subseteq pending[k].value
        /\ pending[k].part = "inode" => pending[k].at # i
  BY <1>2, <1>5, <1>8 DEF InodeWrites, MapWrites, Led
<1>10. \A i, j \in Led : i # j => SectorsOf(disk.inode, i) \cap SectorsOf(disk.inode, j) = {}
  BY <1>2, <1>5, <1>8 DEF MemoryOK
<1>11. \A i \in Led : SectorsOf(disk.inode, i) \subseteq Sector
  <2>1. \A i \in Owners(d) : SectorsOf(r, i) \subseteq free_map /\ free_map \subseteq Sector
    BY <1>2 DEF MemoryOK, FileInv, WellTyped
  <2>2. QED BY <1>5, <1>8, <2>1
<1>12. QED BY <1>6, <1>9, <1>10, <1>11

\* What a write does to the data on the device.
LEMMA WrittenData ==
    ASSUME disk \in Disk, NEW w \in Write
    PROVE  /\ w.part = "map" => \A s \in Sector :
                written(w).data[s] = IF s \in w.value THEN disk.data[s] ELSE Zero
           /\ w.part \in {"dir", "inode"} => written(w).data = disk.data
           /\ w.part = "data" => /\ w.at \in Sector
                                 /\ written(w).data = [disk.data EXCEPT ![w.at] = w.value]
<1>1. CASE w.part = "map"
  BY <1>1 DEF written, Disk
<1>2. CASE w.part = "dir"
  <2>1. w.at \in Slot /\ w.value \in Entry
    BY <1>2 DEF Write
  <2>2. written(w) = [disk EXCEPT !.dir = [disk.dir EXCEPT ![w.at] = w.value]]
    BY <1>2, <2>1 DEF written, Disk
  <2>3. QED BY <1>2, <2>1, <2>2 DEF Disk
<1>3. CASE w.part = "inode"
  <2>1. w.at \in Sector /\ w.value \in InodeData
    BY <1>3 DEF Write
  <2>2. written(w) = [disk EXCEPT !.inode = [disk.inode EXCEPT ![w.at] = w.value]]
    BY <1>3, <2>1 DEF written, Disk
  <2>3. QED BY <1>3, <2>1, <2>2 DEF Disk
<1>4. CASE w.part = "data"
  <2>1. w.at \in Sector /\ w.value \in Data
    BY <1>4 DEF Write
  <2>2. written(w) = [disk EXCEPT !.data = [disk.data EXCEPT ![w.at] = w.value]]
    BY <1>4, <2>1 DEF written, Disk
  <2>3. QED BY <1>4, <2>1, <2>2 DEF Disk
<1>5. QED BY <1>1, <1>2, <1>3, <1>4 DEF Write

\* A write that is not of an entry leaves the files that are led to where they are.
LEMMA LedStay ==
    ASSUME FileInv, block_write, pending[1].part # "dir"
    PROVE  /\ disk'.dir = disk.dir /\ Led' = Led
           /\ \A i \in Led : disk'.inode[i] = disk.inode[i]
           /\ pending[1].part # "data" =>
                \A i \in Led : \A x \in SectorsOf(disk.inode, i) : disk'.data[x] = disk.data[x]
<1>1. WellTyped /\ disk \in Disk
  BY DEF FileInv, WellTyped
<1>2. PICK w \in Write : w = pending[1]
  BY <1>1, FirstWritten
<1>3. 1 \in DOMAIN pending /\ disk' = written(w) /\ open_inodes' = open_inodes
  BY <1>1, <1>2, FirstWritten DEF block_write
<1>4. \A i \in Led : /\ i \in Sector /\ i \in SectorsOf(disk.inode, i)
                     /\ SectorsOf(disk.inode, i) \subseteq Sector
                     /\ w.part = "map" => SectorsOf(disk.inode, i) \subseteq w.value
                     /\ w.part = "inode" => w.at # i
  BY <1>2, <1>3, LedSafe DEF SectorsOf
<1>5. disk.inode \in [Sector -> InodeData]
  BY <1>1 DEF Disk
<1>6. CASE w.part = "map"
  <2>1. /\ disk'.dir = disk.dir
        /\ \A s \in Sector : /\ disk'.inode[s] = IF s \in w.value THEN disk.inode[s] ELSE Blank
                             /\ disk'.data[s] = IF s \in w.value THEN disk.data[s] ELSE Zero
    BY <1>1, <1>3, <1>6, WriteIs, WrittenData
  <2>2. Led' = Led
    BY <1>3, <2>1 DEF Led, Removed
  <2>3. QED BY <1>4, <1>6, <2>1, <2>2
<1>7. CASE w.part = "inode"
  <2>1. /\ disk'.dir = disk.dir /\ disk'.data = disk.data
        /\ disk'.inode = [disk.inode EXCEPT ![w.at] = w.value]
    BY <1>1, <1>3, <1>7, WriteIs, WrittenData
  <2>2. Led' = Led
    BY <1>3, <2>1 DEF Led, Removed
  <2>3. QED BY <1>4, <1>5, <1>7, <2>1, <2>2
<1>8. CASE w.part = "data"
  <2>1. disk'.dir = disk.dir /\ disk'.inode = disk.inode
    BY <1>1, <1>3, <1>8, WriteIs
  <2>2. Led' = Led
    BY <1>3, <2>1 DEF Led, Removed
  <2>3. QED BY <1>2, <1>8, <2>1, <2>2
<1>9. QED BY <1>2, <1>6, <1>7, <1>8 DEF Write

\* An entry that is written.
LEMMA DirWritten ==
    ASSUME FileInv, block_write, NEW w, w = pending[1], w.part = "dir"
    PROVE  /\ disk'.inode = disk.inode /\ disk'.data = disk.data
           /\ w.at \in Slot /\ w.value \in Entry
           /\ disk'.dir = [disk.dir EXCEPT ![w.at] = w.value]
           /\ disk.dir \in [Slot -> Entry] /\ DirOK(disk'.dir)
           /\ w.value = NoEntry => Led' \subseteq Led
           /\ w.value # NoEntry =>
                pending' = <<>> /\ disk.dir[w.at] = NoEntry /\ w.value.inode \notin Led
           /\ AddsNothing'
<1>1. PICK d \in [Slot -> Entry], r \in [Sector -> InodeData] : World(d, r)
  BY DEF FileInv
<1>2. /\ DirWrites(d) /\ MemoryOK(d, r) /\ disk \in Disk /\ WellTyped
      /\ disk.dir \in [Slot -> Entry]
  BY <1>1 DEF World, FileInv, WellTyped, Disk
<1>3. /\ w \in Write /\ 1 \in DOMAIN pending /\ Len(pending) \in Nat
      /\ DOMAIN pending' = 1..Len(pending) - 1 /\ pending' \in Seq(Write)
      /\ Len(pending') = Len(pending) - 1
      /\ \A k \in DOMAIN pending' : pending'[k] = pending[k + 1] /\ k + 1 \in DOMAIN pending
  BY <1>2, FirstWritten
<1>4. disk' = written(w) /\ UNCHANGED <<open_inodes, handle>>
  BY <1>2, FirstWritten DEF block_write
<1>5. /\ disk'.inode = disk.inode /\ disk'.data = disk.data
      /\ disk'.dir = [disk.dir EXCEPT ![w.at] = w.value]
  BY <1>2, <1>3, <1>4, WriteIs, WrittenData
<1>6. w.at \in Slot /\ w.value \in Entry
  BY <1>3 DEF Write
<1>7. /\ d[w.at] = w.value
      /\ w.value # NoEntry => Len(pending) = 1 /\ disk.dir[w.at] = NoEntry
      /\ \A s \in Slot : s # w.at => d[s] = disk.dir[s]
      /\ \A j \in DOMAIN pending : pending[j].part = "dir" => j = 1
  BY <1>2, <1>3 DEF DirWrites
<1>8. disk'.dir = d /\ DirOK(d)
  BY <1>2, <1>5, <1>6, <1>7 DEF MemoryOK
<1>9. AddsNothing'
  <2>1. \A k \in DOMAIN pending' : pending'[k].part # "dir"
    BY <1>3, <1>7
  <2>2. QED BY <2>1 DEF AddsNothing, Adds
<1>10. Removed' = Removed
  BY <1>4 DEF Removed
<1>11. w.value = NoEntry => Led' \subseteq Led
  <2> SUFFICES ASSUME w.value = NoEntry PROVE Listed(d) \subseteq Listed(disk.dir)
    BY <1>8, <1>10 DEF Led
  <2>1. \A s \in Slot : d[s].inode # NoSector => d[s] = disk.dir[s]
    BY <1>6, <1>7 DEF NoEntry
  <2>2. QED BY <2>1 DEF Listed
<1>12. ASSUME w.value # NoEntry PROVE pending' = <<>> /\ w.value.inode \notin Led
  <2>1. pending' = <<>>
    BY <1>3, <1>7, <1>12
  <2>2. w.value.inode \in Sector /\ w.value.inode # NoSector
    BY <1>6, <1>12, EntryIs
  <2>3. w.value.inode \in Listed(d)
    BY <1>6, <1>7, <2>2 DEF Listed
  <2>4. w.value.inode \notin Removed
    BY <1>2, <2>3 DEF MemoryOK
  <2>5. \A s \in Slot : disk.dir[s].inode # w.value.inode
    <3> SUFFICES ASSUME NEW s \in Slot PROVE disk.dir[s].inode # w.value.inode
      OBVIOUS
    <3>1. CASE s = w.at
      BY <1>7, <1>12, <2>2, <3>1 DEF NoEntry
    <3>2. CASE s # w.at
      <4>1. d[w.at].inode # d[s].inode
        BY <1>6, <1>7, <1>8, <1>12, <3>2 DEF DirOK
      <4>2. QED BY <1>7, <3>2, <4>1
    <3>3. QED BY <3>1, <3>2
  <2>6. QED BY <2>1, <2>4, <2>5 DEF Led, Listed
<1>13. QED BY <1>2, <1>5, <1>6, <1>7, <1>8, <1>9, <1>11, <1>12

\* The inode of an entry to be added is in every map that is written before.
LEMMA AddedIs ==
    ASSUME FileInv, NEW k \in DOMAIN pending, Adds(k)
    PROVE  /\ pending[k].value.inode \in Sector
           /\ \A j \in DOMAIN pending : pending[j].part = "map" => pending[k].value.inode \in pending[j].value
<1>1. PICK d \in [Slot -> Entry], r \in [Sector -> InodeData] : World(d, r)
  BY DEF FileInv
<1>2. pending[k] \in Write
  BY DEF FileInv, WellTyped
<1>3. pending[k].at \in Slot /\ pending[k].value \in Entry /\ pending[k].value # NoEntry
  BY <1>2 DEF Write, Adds
<1>4. d[pending[k].at] = pending[k].value
  BY <1>1 DEF World, DirWrites, Adds
<1>5. pending[k].value.inode \in Sector /\ pending[k].value.inode # NoSector
  BY <1>3, EntryIs
<1>6. pending[k].value.inode \in Owners(d)
  BY <1>3, <1>4, <1>5 DEF Listed, Owners
<1>7. QED BY <1>1, <1>5, <1>6 DEF World, MapWrites

LEMMA BlockWritePromises == ASSUME PromiseInv, block_write PROVE PromiseInv'
<1>1. FileInv /\ HandlesLed /\ DataWrites /\ Zeroed /\ WellTyped /\ disk \in Disk
  BY DEF PromiseInv, FileInv, WellTyped
<1>2. FileInv'
  BY <1>1, BlockWriteKeeps
<1>3. PICK w : w = pending[1]
  OBVIOUS
<1>4. /\ w \in Write /\ 1 \in DOMAIN pending /\ Len(pending) \in Nat
      /\ DOMAIN pending = 1..Len(pending) /\ DOMAIN pending' = 1..Len(pending) - 1
      /\ \A k \in DOMAIN pending' : pending'[k] = pending[k + 1] /\ k + 1 \in DOMAIN pending
                                    /\ k + 1 # 1 /\ Len(pending) # 1
      /\ \A k \in DOMAIN pending : k # 1 => k - 1 \in DOMAIN pending' /\ pending'[k - 1] = pending[k]
  BY <1>1, <1>3, FirstWritten
<1>5. disk' = written(w) /\ UNCHANGED <<open_inodes, handle>>
  BY <1>1, <1>3, FirstWritten DEF block_write
<1>6. ASSUME NEW k \in DOMAIN pending', pending'[k].part = "data"
      PROVE  pending'[k].value = Zero /\ \A i \in Led : pending'[k].at \notin SectorsOf(disk.inode, i)
  BY <1>1, <1>4, <1>6 DEF DataWrites
<1>7. CASE w.part = "dir"
  <2>1. /\ disk'.inode = disk.inode /\ AddsNothing'
        /\ w.value = NoEntry => Led' \subseteq Led
        /\ w.value # NoEntry => pending' = <<>>
    BY <1>1, <1>3, <1>7, DirWritten
  <2>2. HandlesLed'
    BY <1>2, <2>1, HandlesLeadNext
  <2>3. Zeroed'
    BY <2>1 DEF AddsNothing, Zeroed
  <2>4. DataWrites'
    <3>1. \A k \in DOMAIN pending' : pending'[k].part = "data" =>
            pending'[k].value = Zero /\ \A i \in Led' : pending'[k].at \notin SectorsOf(disk'.inode, i)
      BY <1>6, <2>1
    <3>2. QED BY <3>1 DEF DataWrites
  <2>5. QED BY <1>2, <2>2, <2>3, <2>4 DEF PromiseInv
<1>8. CASE w.part # "dir"
  <2>1. Led' = Led /\ \A i \in Led : disk'.inode[i] = disk.inode[i]
    BY <1>1, <1>3, <1>8, LedStay
  <2>2. HandlesLed'
    BY <1>1, <1>5, <2>1 DEF HandlesLed
  <2>3. DataWrites'
    <3>1. \A i \in Led : SectorsOf(disk'.inode, i) = SectorsOf(disk.inode, i)
      BY <2>1 DEF SectorsOf
    <3>2. \A k \in DOMAIN pending' : pending'[k].part = "data" =>
            pending'[k].value = Zero /\ \A i \in Led' : pending'[k].at \notin SectorsOf(disk'.inode, i)
      BY <1>6, <2>1, <3>1
    <3>3. QED BY <3>2 DEF DataWrites
  <2>4. Zeroed'
    <3> SUFFICES ASSUME NEW k \in DOMAIN pending', Adds(k)'
                 PROVE  \E run \in InodeData :
                          /\ \A j \in DOMAIN pending' : pending'[j].part = "inode" =>
                               pending'[j].at = pending'[k].value.inode /\ pending'[j].value = run
                          /\ \/ \E j \in DOMAIN pending' : pending'[j].part = "inode"
                             \/ disk'.inode[pending'[k].value.inode] = run
                          /\ Run(run.start, run.len) \subseteq Sector
                          /\ \A x \in Run(run.start, run.len) :
                               \/ disk'.data[x] = Zero
                               \/ \E j \in DOMAIN pending' : pending'[j].part = "data" /\ pending'[j].at = x
      BY DEF Zeroed
    <3>1. PICK i : i = pending'[k].value.inode
      OBVIOUS
    <3>2. /\ k + 1 \in DOMAIN pending /\ Adds(k + 1) /\ pending[k + 1].value.inode = i
          /\ Len(pending) # 1
      BY <1>4, <3>1 DEF Adds
    <3>3. PICK run \in InodeData :
            /\ \A j \in DOMAIN pending : pending[j].part = "inode" =>
                 pending[j].at = i /\ pending[j].value = run
            /\ \/ \E j \in DOMAIN pending : pending[j].part = "inode"
               \/ disk.inode[i] = run
            /\ Run(run.start, run.len) \subseteq Sector
            /\ \A x \in Run(run.start, run.len) :
                 \/ disk.data[x] = Zero
                 \/ \E j \in DOMAIN pending : pending[j].part = "data" /\ pending[j].at = x
      BY <1>1, <3>2 DEF Zeroed
    <3>4. i \in Sector /\ (w.part = "map" => i \in w.value)
      BY <1>1, <1>3, <1>4, <3>2, AddedIs
    <3>5. \A j \in DOMAIN pending' : pending'[j].part = "inode" =>
            pending'[j].at = i /\ pending'[j].value = run
      BY <1>4, <3>3
    <3>6. (\E j \in DOMAIN pending' : pending'[j].part = "inode") \/ disk'.inode[i] = run
      <4>1. CASE w.part = "map"
        <5>1. \A s \in Sector : disk'.inode[s] = IF s \in w.value THEN disk.inode[s] ELSE Blank
          BY <1>1, <1>4, <1>5, <4>1, WriteIs
        <5>2. disk'.inode[i] = disk.inode[i]
          BY <3>4, <4>1, <5>1
        <5>3. QED BY <1>3, <1>4, <3>3, <4>1, <5>2
      <4>2. CASE w.part = "inode"
        <5>1. disk'.inode = [disk.inode EXCEPT ![w.at] = w.value] /\ w.at \in Sector
          BY <1>1, <1>4, <1>5, <4>2, WriteIs DEF Write
        <5>2. w.at = i /\ w.value = run /\ disk.inode \in [Sector -> InodeData]
          BY <1>1, <1>3, <1>4, <3>3, <4>2 DEF Disk
        <5>3. QED BY <5>1, <5>2
      <4>3. CASE w.part = "data"
        <5>1. disk'.inode = disk.inode
          BY <1>1, <1>4, <1>5, <4>3, WriteIs
        <5>2. QED BY <1>3, <1>4, <3>3, <4>3, <5>1
      <4>4. QED BY <1>4, <1>8, <4>1, <4>2, <4>3 DEF Write
    <3>7. \A x \in Run(run.start, run.len) :
            \/ disk'.data[x] = Zero
            \/ \E j \in DOMAIN pending' : pending'[j].part = "data" /\ pending'[j].at = x
      <4> SUFFICES ASSUME NEW x \in Run(run.start, run.len)
                   PROVE  \/ disk'.data[x] = Zero
                          \/ \E j \in DOMAIN pending' : pending'[j].part = "data" /\ pending'[j].at = x
        OBVIOUS
      <4>0. x \in Sector
        BY <3>3
      <4>a. ASSUME disk'.data[x] = disk.data[x], ~(w.part = "data" /\ w.at = x)
            PROVE  \/ disk'.data[x] = Zero
                   \/ \E j \in DOMAIN pending' : pending'[j].part = "data" /\ pending'[j].at = x
        <5>1. CASE disk.data[x] = Zero
          BY <4>a, <5>1
        <5>2. CASE \E j \in DOMAIN pending : pending[j].part = "data" /\ pending[j].at = x
          <6>1. PICK j \in DOMAIN pending : pending[j].part = "data" /\ pending[j].at = x
            BY <5>2
          <6>2. j # 1
            BY <1>3, <4>a, <6>1
          <6>3. QED BY <1>4, <6>1, <6>2
        <5>3. QED BY <3>3, <5>1, <5>2
      <4>1. CASE w.part = "map"
        <5>1. disk'.data[x] = IF x \in w.value THEN disk.data[x] ELSE Zero
          BY <1>1, <1>4, <1>5, <4>0, <4>1, WrittenData
        <5>2. QED BY <1>3, <1>4, <3>3, <4>1, <5>1
      <4>2. CASE w.part = "inode"
        <5>1. disk'.data = disk.data
          <6>1. w.part \in {"dir", "inode"}
            BY <4>2
          <6>2. QED BY <1>1, <1>4, <1>5, <6>1, WrittenData
        <5>2. QED BY <4>2, <4>a, <5>1
      <4>3. CASE w.part = "data"
        <5>1. disk'.data = [disk.data EXCEPT ![w.at] = w.value] /\ w.at \in Sector
          BY <1>1, <1>4, <1>5, <4>3, WrittenData
        <5>2. w.value = Zero /\ disk.data \in [Sector -> Data]
          BY <1>1, <1>3, <1>4, <3>2, <4>3 DEF DataWrites, Disk
        <5>3. CASE x = w.at
          BY <5>1, <5>2, <5>3
        <5>4. CASE x # w.at
          <6>1. disk'.data[x] = disk.data[x]
            <7>1. PICK data : data = disk.data
              OBVIOUS
            <7>2. data \in [Sector -> Data] /\ disk'.data = [data EXCEPT ![w.at] = w.value]
              BY <5>1, <5>2, <7>1
            <7>3. disk'.data[x] = data[x]
              BY <4>0, <5>4, <7>2
            <7>4. QED BY <7>1, <7>3
          <6>2. QED BY <4>a, <5>4, <6>1
        <5>5. QED BY <5>3, <5>4
      <4>4. QED BY <1>4, <1>8, <4>1, <4>2, <4>3 DEF Write
    <3>8. QED BY <3>1, <3>3, <3>5, <3>6, <3>7
  <2>5. QED BY <1>2, <2>2, <2>3, <2>4 DEF PromiseInv
<1>9. QED BY <1>7, <1>8

\* A machine that starts, an open or a close leave nothing to write but maps.
LEMMA QuietOnesPromise ==
    ASSUME PromiseInv,
           \/ restart
           \/ \E h \in Handle, n \in Name : filesys_open(h, n)
           \/ \E h \in Handle, F \in Shortages : file_close(h, F)
    PROVE  PromiseInv'
<1>1. FileInv /\ WellTyped
  BY DEF PromiseInv, FileInv
<1>2. CASE restart
  <2>1. pending' = <<>> /\ FileInv'
    BY <1>1, <1>2, RestartKeeps DEF restart
  <2>2. DOMAIN pending' = {}
    BY <2>1
  <2>3. QED BY <2>1, <2>2, CalmKeeps
<1>3. ASSUME NEW h \in Handle, NEW n \in Name, filesys_open(h, n) PROVE PromiseInv'
  <2>1. pending' = <<>> /\ FileInv'
    BY <1>1, <1>3, OpenKeeps DEF filesys_open, Quiet
  <2>2. DOMAIN pending' = {}
    BY <2>1
  <2>3. QED BY <2>1, <2>2, CalmKeeps
<1>4. ASSUME NEW h \in Handle, NEW F \in Shortages, file_close(h, F) PROVE PromiseInv'
  <2>1. FileInv'
    BY <1>1, <1>4, CloseKeeps
  <2>2. PICK i, inode, prior : /\ i = handle[h] /\ inode = inode_close(open_inodes[i]) /\ prior = <<>>
                               /\ i # NoSector /\ inode_closed(i, inode, prior, F)
    BY <1>4 DEF file_close
  <2>3. i \in Sector
    BY <1>1, <2>2 DEF WellTyped
  <2>4. prior \in Seq(Write) /\ Len(prior) = 0
    BY <2>2
  <2>5. \/ \A k \in Len(prior) + 1..Len(pending') : pending'[k].part = "map"
        \/ pending' = prior
    BY <1>1, <2>2, <2>3, <2>4, ClosedIs
  <2>6. pending' \in Seq(Write)
    BY <2>1 DEF FileInv, WellTyped
  <2>7. \A k \in DOMAIN pending' : pending'[k].part = "map"
    BY <2>2, <2>4, <2>5, <2>6
  <2>8. QED BY <2>1, <2>7, CalmKeeps
<1>5. QED BY <1>2, <1>3, <1>4

\* A removal writes an empty entry, then maps.
LEMMA RemovePromises ==
    ASSUME PromiseInv, NEW n \in Name, NEW F, filesys_remove(n, F)
    PROVE  PromiseInv'
<1>1. FileInv /\ WellTyped /\ DirOK(disk.dir) /\ disk.dir \in [Slot -> Entry]
  BY DEF PromiseInv, FileInv, DiskOK, WellTyped, Disk
<1>2. FileInv'
  BY <1>1, RemoveKeeps
<1>3. PICK slot : slot = Lowest(lookup(n))
  OBVIOUS
<1>4. PICK i, inode, w, prior :
        /\ i = disk.dir[slot].inode /\ inode = [open_inodes[i] EXCEPT !.removed = TRUE]
        /\ w = [part |-> "dir", at |-> slot, value |-> NoEntry] /\ prior = <<w>>
        /\ lookup(n) # {} /\ inode_closed(i, inode, prior, F)
  BY <1>3 DEF filesys_remove, DirWrite
<1>5. slot \in Slot /\ disk.dir[slot].name = n
  BY <1>3, <1>4, LowestSlot DEF lookup
<1>6. disk.dir[slot] # NoEntry /\ disk.dir[slot] \in Entry
  BY <1>1, <1>5, FileAssumption DEF NoEntry
<1>7. i \in Sector
  BY <1>4, <1>6, EntryIs
<1>8. w \in Write /\ w.part = "dir" /\ w.value = NoEntry
  BY <1>4, <1>5 DEF Write, Entry
<1>9. prior \in Seq(Write) /\ Len(prior) = 1 /\ prior[1] = w
  BY <1>4, <1>8
<1>10. \/ /\ \A k \in 1..Len(prior) : pending'[k] = prior[k]
          /\ \A k \in Len(prior) + 1..Len(pending') : pending'[k].part = "map"
       \/ pending' = prior
  BY <1>1, <1>4, <1>7, <1>9, ClosedIs
<1>11. pending' \in Seq(Write)
  BY <1>2 DEF FileInv, WellTyped
<1>12. \A k \in DOMAIN pending' : \/ pending'[k].part = "map"
                                  \/ pending'[k].part = "dir" /\ pending'[k].value = NoEntry
  <2>1. CASE pending' = prior
    BY <1>8, <1>9, <2>1
  <2>2. CASE /\ \A k \in 1..Len(prior) : pending'[k] = prior[k]
             /\ \A k \in Len(prior) + 1..Len(pending') : pending'[k].part = "map"
    <3>1. \A k \in DOMAIN pending' : k = 1 \/ k \in 2..Len(pending')
      BY <1>11
    <3>2. 1 \in 1..Len(prior) /\ Len(prior) + 1 = 2
      BY <1>9
    <3>3. QED BY <1>8, <1>9, <2>2, <3>1, <3>2
  <2>3. QED BY <1>10, <2>1, <2>2
<1>13. QED BY <1>2, <1>12, CalmKeeps

\* A write of data is to an open file.
LEMMA WritePromises ==
    ASSUME PromiseInv, NEW h \in Handle, NEW s \in Sector, NEW v \in Data, file_write(h, s, v)
    PROVE  PromiseInv'
<1>1. FileInv /\ HandlesLed /\ FileInv'
  BY WriteKeeps DEF PromiseInv
<1>2. PICK w : w = [part |-> "data", at |-> s, value |-> v]
  OBVIOUS
<1>3. /\ pending' = <<w>> /\ UNCHANGED <<disk, open_inodes, handle>>
      /\ handle[h] # NoSector /\ s \in DataOf(handle[h])
  BY <1>2 DEF file_write
<1>4. w.part = "data" /\ w.at = s
  BY <1>2
<1>5. Len(pending') = 1 /\ \A k \in DOMAIN pending' : pending'[k] = w
  BY <1>3
<1>6. DataWrites'
  <2>1. DataOf(handle[h])' = DataOf(handle[h])
    BY <1>3 DEF DataOf
  <2>2. QED BY <1>3, <1>4, <1>5, <2>1 DEF DataWrites
<1>7. Zeroed'
  BY <1>4, <1>5 DEF Zeroed, Adds
<1>8. HandlesLed'
  BY <1>1, <1>3 DEF HandlesLed, Led, Removed
<1>9. QED BY <1>1, <1>6, <1>7, <1>8 DEF PromiseInv

\* What a creation writes before the last, T.
LEMMA CreationParts ==
    ASSUME WellTyped, NEW len \in 0..MaxSectors, NEW s, NEW start, Taken(s, start, len),
           NEW T \in Seq(Write), NEW p, p = Creation(s, start, len, T)
    PROVE  /\ p \in Seq(Write)
           /\ \A k \in DOMAIN p : \/ p[k].part = "map"
                                  \/ p[k] = InodeOf(s, start, len)
                                  \/ \E x \in Run(start, len) : p[k] = ZeroAt(x)
                                  \/ \E j \in DOMAIN T : p[k] = T[j] /\ k = 3 + len + j
           /\ \E k \in DOMAIN p : p[k] = InodeOf(s, start, len)
           /\ \A x \in Run(start, len) : \E k \in DOMAIN p : p[k] = ZeroAt(x)
<1>a. PICK m, z : m = MapOf(free_map \cup {s}) /\ z = MapOf(free_map \cup {s} \cup Run(start, len))
  OBVIOUS
<1>1. /\ m = MapOf(free_map \cup {s}) /\ z = MapOf(free_map \cup {s} \cup Run(start, len))
      /\ m.part = "map" /\ z.part = "map"
  BY <1>a DEF MapOf
<1>2. CreationOf(p, m, z, InodeOf(s, start, len), start, len, T)
  <2>1. CreationOf(p, MapOf(free_map \cup {s}), MapOf(free_map \cup {s} \cup Run(start, len)),
                   InodeOf(s, start, len), start, len, T)
    BY CreationIs
  <2>2. QED BY <1>1, <2>1
<1>3. PICK l \in Nat : l = Len(T)
  OBVIOUS
<1>4. /\ p \in Seq(Write) /\ Len(p) = 3 + len + l
      /\ p[1] = m /\ p[2] = z /\ p[3] = InodeOf(s, start, len)
      /\ \A k \in 4..3 + len : p[k] = ZeroAt(start + k - 4)
      /\ \A k \in 1..l : p[3 + len + k] = T[k]
      /\ DOMAIN T = 1..l
  BY <1>2, <1>3 DEF CreationOf
<1>5. len \in Nat /\ start \in Nat
  BY FileAssumption DEF Taken, Sector
<1>6. DOMAIN p = 1..3 + len + l
  BY <1>4, <1>5
<1>7. ASSUME NEW k \in DOMAIN p
      PROVE  \/ p[k].part = "map"
             \/ p[k] = InodeOf(s, start, len)
             \/ \E x \in Run(start, len) : p[k] = ZeroAt(x)
             \/ \E j \in DOMAIN T : p[k] = T[j] /\ k = 3 + len + j
  <2>1. k = 1 \/ k = 2 \/ k = 3 \/ k \in 4..3 + len \/ k - (3 + len) \in 1..l
    BY <1>5, <1>6
  <2>2. CASE k \in 4..3 + len
    <3>1. start + k - 4 \in Run(start, len)
      BY <1>5, <2>2 DEF Run
    <3>2. p[k] = ZeroAt(start + k - 4)
      BY <1>4, <2>2
    <3>3. QED BY <3>1, <3>2
  <2>3. CASE k - (3 + len) \in 1..l
    <3>0. k = 3 + len + (k - (3 + len))
      BY <1>5, <1>6
    <3>1. PICK j \in 1..l : k = 3 + len + j
      BY <2>3, <3>0
    <3>2. p[k] = T[j] /\ j \in DOMAIN T
      BY <1>4, <3>1
    <3>3. QED BY <3>1, <3>2
  <2>4. QED BY <1>1, <1>4, <2>1, <2>2, <2>3
<1>8. ASSUME NEW x \in Run(start, len) PROVE \E k \in DOMAIN p : p[k] = ZeroAt(x)
  <2>1. PICK k \in 4..3 + len : start + k - 4 = x /\ k \in DOMAIN p
    <3>1. x - start + 4 \in 4..3 + len /\ start + (x - start + 4) - 4 = x
      BY <1>5 DEF Run
    <3>2. x - start + 4 \in DOMAIN p
      BY <1>5, <1>6, <3>1
    <3>3. QED BY <3>1, <3>2
  <2>2. QED BY <1>4, <2>1
<1>9. 3 \in DOMAIN p
  BY <1>5, <1>6
<1>10. QED BY <1>4, <1>7, <1>8, <1>9

\* The writes of a creation without its entry.
LEMMA CreationPromises ==
    ASSUME PromiseInv, FileInv', pending = <<>>, UNCHANGED <<disk, open_inodes, handle>>,
           NEW len \in 0..MaxSectors, NEW s, NEW start, Taken(s, start, len),
           NEW T \in Seq(Write), pending' = Creation(s, start, len, T),
           \A j \in DOMAIN T : \/ T[j].part = "map"
                               \/ /\ T[j].part = "dir" /\ T[j].value.inode = s
    PROVE  PromiseInv'
<1>1. FileInv /\ HandlesLed /\ WellTyped
  BY DEF PromiseInv, FileInv
<1>2. PICK p : p = pending'
  OBVIOUS
<1>3. /\ p \in Seq(Write)
      /\ \A k \in DOMAIN p : \/ p[k].part = "map"
                             \/ p[k] = InodeOf(s, start, len)
                             \/ \E x \in Run(start, len) : p[k] = ZeroAt(x)
                             \/ \E j \in DOMAIN T : p[k] = T[j] /\ k = 3 + len + j
      /\ \E k \in DOMAIN p : p[k] = InodeOf(s, start, len)
      /\ \A x \in Run(start, len) : \E k \in DOMAIN p : p[k] = ZeroAt(x)
  BY <1>1, <1>2, CreationParts
<1>4. PICK run : run = [start |-> start, len |-> len]
  OBVIOUS
<1>5. /\ run \in InodeData /\ run.start = start /\ run.len = len
      /\ Run(start, len) \subseteq Sector /\ Run(start, len) \cap free_map = {}
  BY <1>4 DEF InodeData, Taken
<1>6. /\ InodeOf(s, start, len).part = "inode" /\ InodeOf(s, start, len).at = s
      /\ InodeOf(s, start, len).value = run
  BY <1>4 DEF InodeOf
<1>7. \A x : ZeroAt(x).part = "data" /\ ZeroAt(x).at = x /\ ZeroAt(x).value = Zero
  BY DEF ZeroAt
<1>8. Led' = Led /\ HandlesLed'
  BY <1>1 DEF HandlesLed, Led, Removed
<1>9. DataWrites'
  <2>1. \A i \in Led : SectorsOf(disk.inode, i) \subseteq free_map
    <3>1. PICK d, r : d = disk.dir /\ r = disk.inode
      OBVIOUS
    <3>2. MemoryOK(d, r) /\ Led = Owners(d)
      BY <1>1, <3>1, QuietWorld DEF Led, Owners
    <3>3. QED BY <3>1, <3>2, InUseAre
  <2>2. \A k \in DOMAIN p : p[k].part = "data" => \E x \in Run(start, len) : p[k] = ZeroAt(x)
    BY <1>3, <1>6
  <2>3. \A k \in DOMAIN p : p[k].part = "data" =>
          p[k].value = Zero /\ \A i \in Led : p[k].at \notin SectorsOf(disk.inode, i)
    BY <1>5, <1>7, <2>1, <2>2
  <2>4. QED BY <1>2, <1>8, <2>3 DEF DataWrites
<1>10. Zeroed'
  <2>1. \A j \in DOMAIN p : p[j].part = "inode" => p[j].at = s /\ p[j].value = run
    BY <1>3, <1>6, <1>7
  <2>2. \E j \in DOMAIN p : p[j].part = "inode"
    BY <1>3, <1>6
  <2>3. \A x \in Run(run.start, run.len) : \E j \in DOMAIN p : p[j].part = "data" /\ p[j].at = x
    BY <1>3, <1>5, <1>7
  <2>4. \A k \in DOMAIN p : p[k].part = "dir" => p[k].value.inode = s
    BY <1>3, <1>6, <1>7
  <2>5. Run(run.start, run.len) \subseteq Sector
    BY <1>5
  <2>6. QED BY <1>2, <1>5, <2>1, <2>2, <2>3, <2>4, <2>5 DEF Zeroed, Adds
<1>11. QED BY <1>8, <1>9, <1>10 DEF PromiseInv

LEMMA CreatePromises ==
    ASSUME PromiseInv, NEW n \in Name, NEW len \in 0..MaxSectors, NEW F, filesys_create(n, len, F)
    PROVE  PromiseInv'
<1>1. /\ FileInv /\ FileInv' /\ WellTyped /\ WellTyped'
      /\ pending = <<>> /\ UNCHANGED <<disk, open_inodes, handle>>
  BY CreateKeeps DEF PromiseInv, FileInv, filesys_create, Quiet
<1>2. CASE \A k \in 1..Len(pending') : pending'[k].part = "map" /\ free_map \subseteq pending'[k].value
  <2>1. \A k \in DOMAIN pending' : pending'[k].part = "map"
    BY <1>1, <1>2 DEF WellTyped
  <2>2. QED BY <1>1, <2>1, CalmKeeps
<1>3. ASSUME NEW s, NEW start, Taken(s, start, len),
             NEW T \in {<<>>, <<MapOf(free_map')>>}, pending' = Creation(s, start, len, T)
      PROVE  PromiseInv'
  <2>1. PICK m : m = MapOf(free_map')
    OBVIOUS
  <2>2. m \in Write /\ m.part = "map"
    BY <1>1, <2>1 DEF MapOf, Write, WellTyped
  <2>3. T = <<>> \/ T = <<m>>
    BY <1>3, <2>1
  <2>4. T \in Seq(Write) /\ \A j \in DOMAIN T : T[j].part = "map"
    <3>1. CASE T = <<>>
      BY <3>1
    <3>2. CASE T = <<m>>
      <4>1. T \in Seq(Write) /\ DOMAIN T = {1} /\ T[1] = m
        BY <2>2, <3>2
      <4>2. QED BY <2>2, <4>1
    <3>3. QED BY <2>3, <3>1, <3>2
  <2>5. QED BY <1>1, <1>3, <2>4, CreationPromises
<1>4. ASSUME NEW s, NEW start, Taken(s, start, len), vacant # {},
             pending' = Creation(s, start, len, <<EntryOf(Lowest(vacant), n, s)>>)
      PROVE  PromiseInv'
  <2>1. PICK slot, w, T : slot = Lowest(vacant) /\ w = EntryOf(slot, n, s) /\ T = <<w>>
    OBVIOUS
  <2>2. slot \in Slot
    BY <1>4, <2>1, LowestSlot DEF vacant
  <2>3. w \in Write /\ w.part = "dir" /\ w.value.inode = s
    <3>1. [name |-> n, inode |-> s] \in Entry
      BY <1>4 DEF Entry, Taken
    <3>2. QED BY <2>1, <2>2, <3>1 DEF EntryOf, Write
  <2>4. T \in Seq(Write) /\ \A j \in DOMAIN T : T[j] = w
    BY <2>1, <2>3
  <2>5. pending' = Creation(s, start, len, T)
    BY <1>4, <2>1
  <2>6. \A j \in DOMAIN T : \/ T[j].part = "map"
                           \/ /\ T[j].part = "dir" /\ T[j].value.inode = s
    BY <2>3, <2>4
  <2>7. T \in Seq(Write) /\ Taken(s, start, len)
    BY <1>4, <2>4
  <2>8. QED BY <1>1, <2>5, <2>6, <2>7, CreationPromises
<1>5. QED BY <1>1, <1>2, <1>3, <1>4, CreateIs

-----------------------------------------------------------------------------
(* What is seen of the files: where a name leads, which files live, what is  *)
(* in them.                                                                  *)

NamesLead ==
  \A n \in Name : /\ \A s \in Slot : disk.dir[s].name = n => Named[n] = disk.dir[s].inode
                  /\ (\A s \in Slot : disk.dir[s].name # n) => Named[n] = NoSector
AliveOnes ==
  \A i \in Sector : i \in { Named[n] : n \in Name } \cup { handle[h] : h \in Handle } <=> i \in InUse
Seen == NamesLead /\ AliveOnes

LEMMA IsSeen == FileInv => Seen
<1> SUFFICES ASSUME FileInv PROVE Seen
  OBVIOUS
<1>1. DirOK(disk.dir) /\ disk.dir \in [Slot -> Entry]
  BY DEF FileInv, DiskOK, WellTyped, Disk
<1>2. \A n \in Name, s \in Slot : disk.dir[s].name = n => disk.dir[s] # NoEntry
  BY FileAssumption DEF NoEntry
<1>3. NamesLead
  <2> SUFFICES ASSUME NEW n \in Name
               PROVE  /\ \A s \in Slot : disk.dir[s].name = n => Named[n] = disk.dir[s].inode
                      /\ (\A s \in Slot : disk.dir[s].name # n) => Named[n] = NoSector
    BY DEF NamesLead
  <2>1. ASSUME NEW s \in Slot, disk.dir[s].name = n PROVE Named[n] = disk.dir[s].inode
    <3>1. lookup(n) # {} /\ lookup(n) \in SUBSET Slot
      BY <2>1 DEF lookup
    <3>2. PICK t : t = Lowest(lookup(n))
      OBVIOUS
    <3>3. t \in Slot /\ disk.dir[t].name = n
      BY <3>1, <3>2, LowestSlot DEF lookup
    <3>4. t = s
      BY <1>1, <1>2, <2>1, <3>3 DEF DirOK
    <3>5. QED BY <3>1, <3>2, <3>4 DEF Named
  <2>2. (\A s \in Slot : disk.dir[s].name # n) => Named[n] = NoSector
    BY DEF Named, lookup
  <2>3. QED BY <2>1, <2>2
<1>4. AliveOnes
  <2> SUFFICES ASSUME NEW i \in Sector
               PROVE  (\E n \in Name : i = Named[n]) \/ (\E h \in Handle : i = handle[h]) <=> i \in InUse
    BY DEF AliveOnes
  <2>1. i # NoSector
    BY DEF Sector, NoSector
  <2>2. ASSUME NEW n \in Name, i = Named[n] PROVE \E s \in Slot : disk.dir[s].inode = i
    BY <1>3, <2>1, <2>2 DEF NamesLead
  <2>3. ASSUME NEW s \in Slot, disk.dir[s].inode = i PROVE \E n \in Name : i = Named[n]
    <3>1. disk.dir[s] \in Entry /\ disk.dir[s] # NoEntry
      BY <1>1, <2>1, <2>3, EntryIs
    <3>2. disk.dir[s].name \in Name
      BY <3>1 DEF Entry
    <3>3. QED BY <1>3, <2>3, <3>2 DEF NamesLead
  <2>4. i \in InUse <=> (\E s \in Slot : disk.dir[s].inode = i) \/ (\E h \in Handle : i = handle[h])
    BY <2>1 DEF InUse
  <2>5. QED BY <2>2, <2>3, <2>4
<1>5. QED BY <1>3, <1>4 DEF Seen

LEMMA SeenNext == ASSUME FileInv' PROVE Seen'
BY IsSeen, PTL

\* Files in use are listed, or were removed and are open.
LEMMA InUseLed ==
    ASSUME FileInv, HandlesLed
    PROVE  InUse \subseteq Led /\ InUse \subseteq Sector
<1>1. disk.dir \in [Slot -> Entry] /\ handle \in [Handle -> Sector \cup {NoSector}]
  BY DEF FileInv, WellTyped, Disk
<1>2. \A s \in Slot : disk.dir[s].inode \in Sector \cup {NoSector}
  BY <1>1 DEF Entry, NoEntry
<1>3. \A i \in InUse : i \in Sector /\ i \in Led
  BY <1>1, <1>2 DEF InUse, Led, Listed, HandlesLed
<1>4. QED BY <1>3

\* A file whose sectors do not change.
LEMMA FileStays ==
    ASSUME NEW i, disk.inode[i] \in InodeData, disk'.inode[i] = disk.inode[i],
           \A x \in Run(disk.inode[i].start, disk.inode[i].len) : disk'.data[x] = disk.data[x]
    PROVE  FileAt(i)' = FileAt(i)
<1>1. PICK start \in Nat, len \in Nat : start = disk.inode[i].start /\ len = disk.inode[i].len
  BY FileAssumption DEF InodeData, Sector
<1>2. \A k \in 1..len : disk'.data[start + k - 1] = disk.data[start + k - 1]
  <2>1. \A k \in 1..len : start + k - 1 \in Run(start, len)
    BY DEF Run
  <2>2. QED BY <1>1, <2>1
<1>3. FileAt(i)' = [k \in 1..len |-> disk'.data[start + k - 1]]
  BY <1>1 DEF FileAt
<1>4. FileAt(i) = [k \in 1..len |-> disk.data[start + k - 1]]
  BY <1>1 DEF FileAt
<1>5. QED BY <1>2, <1>3, <1>4

\* Nothing of it changes.
LEMMA NothingSeen ==
    ASSUME disk'.dir = disk.dir, handle' = handle, \A i \in InUse : FileAt(i)' = FileAt(i)
    PROVE  Named' = Named /\ Content' = Content
<1>1. Named' = Named
  BY DEF Named, lookup
<1>2. InUse' = InUse
  BY DEF InUse
<1>3. Content' = Content
  BY <1>2 DEF Content
<1>4. QED BY <1>1, <1>3

\* Some files go, the others stay.
LEMMA SomeGo ==
    ASSUME FileInv', disk'.inode = disk.inode, disk'.data = disk.data, InUse' \subseteq InUse
    PROVE  Content' = Abstract!Kept
<1>1. AliveOnes'
  BY SeenNext DEF Seen
<1>2. \A i \in Sector : FileAt(i)' = FileAt(i)
  BY DEF FileAt
<1>3. Content' = [i \in Sector |-> IF i \in InUse' THEN FileAt(i) ELSE <<>>]
  BY <1>2 DEF Content
<1>4. Content' = [i \in Sector |-> IF i \in InUse' THEN Content[i] ELSE <<>>]
  BY <1>3 DEF Content
<1>5. \A i \in Sector : i \in Abstract!Alive(Named', handle') <=> i \in InUse'
  BY <1>1 DEF AliveOnes, Abstract!Alive
<1>6. QED BY <1>4, <1>5 DEF Abstract!Kept

-----------------------------------------------------------------------------
(* Each step is one of Files, or is not seen.                                *)

AsPromised == Abstract!FilesNext \/ UNCHANGED <<Named, handle, Content>>

\* A crash closes the files.
LEMMA RestartShows == ASSUME PromiseInv, restart PROVE Abstract!Crash
<1>1. /\ FileInv /\ HandlesLed /\ FileInv'
      /\ disk' = disk /\ handle' = [h \in Handle |-> NoSector]
  BY RestartKeeps DEF PromiseInv, restart
<1>2. Named' = Named
  BY <1>1 DEF Named, lookup
<1>3. InUse' \subseteq InUse
  BY <1>1 DEF InUse
<1>4. Content' = Abstract!Kept
  BY <1>1, <1>3, SomeGo
<1>5. QED BY <1>1, <1>2, <1>4 DEF Abstract!Crash

\* An open leads to the file of the name.
LEMMA OpenShows ==
    ASSUME PromiseInv, NEW h \in Handle, NEW n \in Name, filesys_open(h, n)
    PROVE  Abstract!Open(h, n)
<1>1. /\ FileInv /\ disk' = disk /\ handle[h] = NoSector
      /\ handle' = [handle EXCEPT ![h] = Named[n]] /\ lookup(n) # {}
  BY DEF PromiseInv, filesys_open, Named
<1>2. Named' = Named
  BY <1>1 DEF Named, lookup
<1>3. Named[n] \in { disk.dir[s].inode : s \in Slot } /\ handle \in [Handle -> Sector \cup {NoSector}]
  <2>1. NamesLead
    BY <1>1, IsSeen DEF Seen
  <2>2. QED BY <1>1, <2>1 DEF NamesLead, lookup, FileInv, WellTyped
<1>4. InUse' = InUse
  <2>1. \A i : (\E g \in Handle : i = handle'[g]) <=> i = Named[n] \/ \E g \in Handle \ {h} : i = handle[g]
    BY <1>1, <1>3
  <2>2. \A i : i # NoSector => ((\E g \in Handle : i = handle[g]) <=> \E g \in Handle \ {h} : i = handle[g])
    BY <1>1
  <2>3. \A i : i \in InUse' <=> i \in InUse
    BY <1>1, <1>3, <2>1, <2>2 DEF InUse
  <2>4. QED BY <2>3
<1>5. Content' = Content
  BY <1>1, <1>4 DEF Content, FileAt
<1>6. QED BY <1>1, <1>2, <1>5 DEF Abstract!Open

\* A close lets a file go that nothing leads to any more.
LEMMA CloseShows ==
    ASSUME PromiseInv, NEW h \in Handle, NEW F, file_close(h, F)
    PROVE  Abstract!Close(h)
<1>1. /\ FileInv /\ FileInv' /\ disk' = disk /\ handle' = [handle EXCEPT ![h] = NoSector]
      /\ handle \in [Handle -> Sector \cup {NoSector}]
  BY CloseKeeps DEF PromiseInv, FileInv, WellTyped, file_close
<1>2. Named' = Named
  BY <1>1 DEF Named, lookup
<1>3. InUse' \subseteq InUse
  BY <1>1 DEF InUse
<1>4. Content' = Abstract!Kept
  BY <1>1, <1>3, SomeGo
<1>5. QED BY <1>1, <1>2, <1>4 DEF Abstract!Close

\* What an operation still has to write is not seen.
LEMMA BeginsUnseen ==
    ASSUME disk' = disk, handle' = handle
    PROVE  UNCHANGED <<Named, handle, Content>>
<1>1. Named' = Named
  BY DEF Named, lookup
<1>2. Content' = Content
  BY DEF Content, FileAt, InUse
<1>3. QED BY <1>1, <1>2

\* The name goes when its entry is overwritten.
LEMMA RemovalShows ==
    ASSUME PromiseInv, block_write, NEW w, w = pending[1], w.part = "dir", w.value = NoEntry
    PROVE  AsPromised
<1>1. FileInv /\ HandlesLed /\ FileInv' /\ handle' = handle
  BY BlockWriteKeeps DEF PromiseInv, block_write
<1>2. /\ disk'.inode = disk.inode /\ disk'.data = disk.data /\ w.at \in Slot
      /\ disk'.dir = [disk.dir EXCEPT ![w.at] = NoEntry]
      /\ disk.dir \in [Slot -> Entry]
  BY <1>1, DirWritten
<1>3. NamesLead /\ NamesLead' /\ DirOK(disk.dir)
  BY <1>1, IsSeen, SeenNext DEF Seen, FileInv, DiskOK
<1>4. CASE disk.dir[w.at] = NoEntry
  <2>1. disk'.dir = disk.dir
    BY <1>2, <1>4
  <2>2. \A i \in InUse : FileAt(i)' = FileAt(i)
    BY <1>2 DEF FileAt
  <2>3. QED BY <1>1, <2>1, <2>2, NothingSeen DEF AsPromised
<1>5. CASE disk.dir[w.at] # NoEntry
  <2>1. PICK n \in Name : n = disk.dir[w.at].name
    BY <1>2, <1>5 DEF Entry
  <2>2. \A s \in Slot : s # w.at => disk'.dir[s] = disk.dir[s] /\ disk.dir[s].name # n
    BY <1>2, <1>3, <1>5, <2>1 DEF DirOK
  <2>3. disk'.dir[w.at] = NoEntry /\ NoEntry.name # n /\ \A m \in Name : NoEntry.name # m
    BY <1>2, FileAssumption DEF NoEntry
  <2>4. Named'[n] = NoSector
    <3>1. \A s \in Slot : disk'.dir[s].name # n
      BY <2>2, <2>3
    <3>2. QED BY <1>3, <3>1 DEF NamesLead
  <2>5. ASSUME NEW m \in Name, m # n PROVE Named'[m] = Named[m]
    <3>1. CASE \E s \in Slot : disk.dir[s].name = m
      <4>1. PICK s \in Slot : disk.dir[s].name = m
        BY <3>1
      <4>2. disk'.dir[s] = disk.dir[s]
        BY <2>1, <2>2, <2>5, <4>1
      <4>3. QED BY <1>3, <4>1, <4>2 DEF NamesLead
    <3>2. CASE \A s \in Slot : disk.dir[s].name # m
      <4>1. \A s \in Slot : disk'.dir[s].name # m
        BY <2>2, <2>3, <3>2
      <4>2. QED BY <1>3, <3>2, <4>1 DEF NamesLead
    <3>3. QED BY <3>1, <3>2
  <2>6. Named' = [Named EXCEPT ![n] = NoSector]
    <3>1. DOMAIN Named = Name /\ DOMAIN Named' = Name
      BY DEF Named
    <3>2. Named = [m \in Name |-> Named[m]] /\ Named' = [m \in Name |-> Named'[m]]
      BY DEF Named
    <3>3. QED BY <2>4, <2>5, <3>1, <3>2
  <2>7. InUse' \subseteq InUse
    <3>1. \A s \in Slot : disk'.dir[s].inode # NoSector => disk'.dir[s] = disk.dir[s]
      BY <2>2, <2>3 DEF NoEntry
    <3>2. QED BY <1>1, <3>1 DEF InUse
  <2>8. Content' = Abstract!Kept
    BY <1>1, <1>2, <2>7, SomeGo
  <2>9. Abstract!Remove(n)
    BY <1>1, <2>6, <2>8 DEF Abstract!Remove
  <2>10. QED BY <2>9 DEF AsPromised, Abstract!FilesNext
<1>6. QED BY <1>4, <1>5

\* The name comes when its entry is written, and leads to zeros.
LEMMA AdditionShows ==
    ASSUME PromiseInv, block_write, NEW w, w = pending[1], w.part = "dir", w.value # NoEntry
    PROVE  AsPromised
<1>1. FileInv /\ HandlesLed /\ Zeroed /\ FileInv' /\ handle' = handle /\ WellTyped
  BY BlockWriteKeeps DEF PromiseInv, block_write, FileInv
<1>2. /\ disk'.inode = disk.inode /\ disk'.data = disk.data /\ w.at \in Slot /\ w.value \in Entry
      /\ disk'.dir = [disk.dir EXCEPT ![w.at] = w.value]
      /\ disk.dir \in [Slot -> Entry] /\ DirOK(disk'.dir)
      /\ pending' = <<>> /\ disk.dir[w.at] = NoEntry /\ w.value.inode \notin Led
  BY <1>1, DirWritten
<1>3. NamesLead /\ NamesLead' /\ AliveOnes
  BY <1>1, IsSeen, SeenNext DEF Seen
<1>4. PICK n \in Name, i \in Sector : w.value.name = n /\ w.value.inode = i
  BY <1>2, EntryIs DEF Entry
<1>5. /\ disk'.dir[w.at] = w.value
      /\ \A s \in Slot : s # w.at => disk'.dir[s] = disk.dir[s] /\ disk.dir[s].name # n
      /\ NoEntry.name # n /\ \A m \in Name : NoEntry.name # m
  BY <1>2, <1>4, FileAssumption DEF DirOK, NoEntry
<1>6. Named[n] = NoSector /\ Named'[n] = i
  <2>1. \A s \in Slot : disk.dir[s].name # n
    BY <1>2, <1>5
  <2>2. QED BY <1>2, <1>3, <1>4, <1>5, <2>1 DEF NamesLead
<1>7. ASSUME NEW m \in Name, m # n PROVE Named'[m] = Named[m]
  <2>1. CASE \E s \in Slot : disk.dir[s].name = m
    <3>1. PICK s \in Slot : disk.dir[s].name = m
      BY <2>1
    <3>2. disk'.dir[s] = disk.dir[s]
      BY <1>2, <1>5, <3>1
    <3>3. QED BY <1>3, <3>1, <3>2 DEF NamesLead
  <2>2. CASE \A s \in Slot : disk.dir[s].name # m
    <3>1. \A s \in Slot : disk'.dir[s].name # m
      BY <1>4, <1>5, <1>7, <2>2
    <3>2. QED BY <1>3, <2>2, <3>1 DEF NamesLead
  <2>3. QED BY <2>1, <2>2
<1>8. Named' = [Named EXCEPT ![n] = i]
  <2>1. Named = [m \in Name |-> Named[m]] /\ Named' = [m \in Name |-> Named'[m]]
    BY DEF Named
  <2>2. QED BY <1>6, <1>7, <2>1
<1>9. i \notin InUse
  BY <1>1, <1>2, <1>4, InUseLed
<1>10. i \notin Abstract!Alive(Named, handle)
  BY <1>3, <1>4, <1>9 DEF AliveOnes, Abstract!Alive
<1>11. PICK run \in InodeData : run = disk.inode[i] /\ \A x \in Run(run.start, run.len) : disk.data[x] = Zero
  <2>1. 1 \in DOMAIN pending /\ Adds(1) /\ DOMAIN pending = {1}
    <3>1. 1 \in DOMAIN pending /\ DOMAIN pending = 1..Len(pending) /\ Len(pending) - 1 = 0 /\ Len(pending) \in Nat
      BY <1>1, <1>2, FirstWritten
    <3>2. PICK l \in Nat : l = Len(pending)
      BY <3>1
    <3>a. l = 1 /\ DOMAIN pending = 1..l
      BY <3>1, <3>2
    <3>b. DOMAIN pending = {1}
      BY ONLY <3>a
    <3>3. Adds(1)
      BY DEF Adds
    <3>4. QED BY <3>1, <3>b, <3>3
  <2>2. \A j \in DOMAIN pending : pending[j].part = "dir"
    BY <2>1
  <2>3. QED BY <1>1, <1>4, <2>1, <2>2 DEF Zeroed
<1>12. FileAt(i)' = [s \in 1..run.len |-> Zero] /\ run.len \in 0..MaxSectors
  <2>1. run.start \in Nat /\ run.len \in Nat /\ run.len \in 0..MaxSectors
    BY FileAssumption DEF InodeData, Sector
  <2>2. \A k \in 1..run.len : run.start + k - 1 \in Run(run.start, run.len)
    BY <2>1 DEF Run
  <2>3. \A k \in 1..run.len : disk.data[run.start + k - 1] = Zero
    BY <1>11, <2>2
  <2>4. FileAt(i)' = [k \in 1..run.len |-> disk.data[run.start + k - 1]]
    BY <1>2, <1>11 DEF FileAt
  <2>5. QED BY <2>1, <2>3, <2>4
<1>13. \A j \in Sector : j \in InUse' <=> j \in InUse \/ j = i
  <2>1. NoEntry.inode = NoSector /\ i # NoSector
    BY DEF NoEntry, NoSector, Sector
  <2>2. \A j : j # NoSector =>
          ((\E s \in Slot : j = disk'.dir[s].inode) <=> (\E s \in Slot : j = disk.dir[s].inode) \/ j = i)
    BY <1>2, <1>4, <1>5, <2>1
  <2>3. \A j : j \in InUse <=> /\ j # NoSector
                               /\ (\E s \in Slot : j = disk.dir[s].inode) \/ \E h \in Handle : j = handle[h]
    BY DEF InUse
  <2>4. \A j : j \in InUse' <=> /\ j # NoSector
                                /\ (\E s \in Slot : j = disk'.dir[s].inode) \/ \E h \in Handle : j = handle[h]
    BY <1>1 DEF InUse
  <2>5. QED BY <2>1, <2>2, <2>3, <2>4
<1>14. Content' = [Content EXCEPT ![i] = [s \in 1..run.len |-> Zero]]
  <2>1. \A j \in Sector : FileAt(j)' = FileAt(j)
    BY <1>2 DEF FileAt
  <2>2. Content' = [j \in Sector |-> IF j \in InUse' THEN FileAt(j)' ELSE <<>>]
    BY DEF Content
  <2>3. \A j \in Sector : j # i => Content'[j] = Content[j]
    BY <1>13, <2>1, <2>2 DEF Content
  <2>4. Content'[i] = [s \in 1..run.len |-> Zero]
    BY <1>12, <1>13, <2>2
  <2>5. Content = [j \in Sector |-> Content[j]] /\ Content' = [j \in Sector |-> Content'[j]]
    BY <2>2 DEF Content
  <2>6. QED BY <2>3, <2>4, <2>5
<1>15. Abstract!Create(n, i)
  BY <1>1, <1>6, <1>8, <1>10, <1>12, <1>14 DEF Abstract!Create
<1>16. QED BY <1>15 DEF AsPromised, Abstract!FilesNext

\* Data are written to one file, or are zeros of a file that is not seen yet.
LEMMA DataShow ==
    ASSUME PromiseInv, block_write, NEW w, w = pending[1], w.part = "data"
    PROVE  AsPromised
<1>1. /\ FileInv /\ HandlesLed /\ DataWrites /\ WellTyped /\ disk \in Disk
      /\ handle' = handle /\ disk' = written(w)
  BY FirstWritten DEF PromiseInv, block_write, FileInv, WellTyped
<1>2. w \in Write /\ 1 \in DOMAIN pending
  BY <1>1, FirstWritten
<1>3. /\ disk'.dir = disk.dir /\ disk'.inode = disk.inode /\ w.at \in Sector
      /\ disk'.data = [disk.data EXCEPT ![w.at] = w.value]
  BY <1>1, <1>2, WriteIs, WrittenData
<1>4. PICK inode, data : inode = disk.inode /\ data = disk.data
  OBVIOUS
<1>5. /\ inode \in [Sector -> InodeData] /\ data \in [Sector -> Data]
      /\ disk'.data = [data EXCEPT ![w.at] = w.value]
  BY <1>1, <1>3, <1>4 DEF Disk
<1>6. InUse \subseteq Led /\ InUse \subseteq Sector
  BY <1>1, InUseLed
<1>7. ASSUME NEW i \in InUse, w.at \notin SectorsOf(inode, i)
      PROVE  FileAt(i)' = FileAt(i)
  <2>1. i \in Sector /\ w.at \notin Run(inode[i].start, inode[i].len)
    BY <1>6, <1>7 DEF SectorsOf
  <2>2. Run(inode[i].start, inode[i].len) \subseteq Int
    BY DEF Run
  <2>3. \A x : x # w.at => disk'.data[x] = data[x]
    BY <1>5
  <2>4. \A x \in Run(disk.inode[i].start, disk.inode[i].len) : disk'.data[x] = disk.data[x]
    BY <1>4, <2>1, <2>3
  <2>5. disk.inode[i] \in InodeData /\ disk'.inode[i] = disk.inode[i]
    BY <1>3, <1>4, <1>5, <2>1
  <2>6. QED BY <2>4, <2>5, FileStays
<1>8. CASE \A i \in Led : w.at \notin SectorsOf(disk.inode, i)
  <2>1. \A i \in InUse : FileAt(i)' = FileAt(i)
    BY <1>4, <1>6, <1>7, <1>8
  <2>2. QED BY <1>1, <1>3, <2>1, NothingSeen DEF AsPromised
<1>9. ASSUME NEW h \in Handle, handle[h] # NoSector, w.at \in DataOf(handle[h])
      PROVE  AsPromised
  <2>1. PICK i : i = handle[h]
    OBVIOUS
  <2>2. i \in InUse /\ i \in Sector /\ i \in Led
    BY <1>1, <1>6, <1>9, <2>1 DEF InUse, HandlesLed
  <2>a. inode[i] \in InodeData
    BY <1>5, <2>2
  <2>3. PICK start \in Nat, len \in Nat : start = inode[i].start /\ len = inode[i].len
    BY <2>a, FileAssumption DEF InodeData, Sector
  <2>4. w.at \in Run(start, len)
    BY <1>4, <1>9, <2>1, <2>3 DEF DataOf
  <2>5. PICK s \in 1..len : w.at = start + s - 1
    <3>1. w.at - start + 1 \in 1..len /\ w.at = start + (w.at - start + 1) - 1
      BY <2>4 DEF Run
    <3>2. QED BY <3>1
  <2>6. FileAt(i) = [k \in 1..len |-> data[start + k - 1]]
    BY <1>4, <2>3 DEF FileAt
  <2>7. FileAt(i)' = [k \in 1..len |-> disk'.data[start + k - 1]]
    BY <1>3, <1>4, <2>3 DEF FileAt
  <2>8. FileAt(i)' = [FileAt(i) EXCEPT ![s] = w.value]
    <3>1. \A k \in 1..len : disk'.data[start + k - 1] = IF k = s THEN w.value ELSE data[start + k - 1]
      <4> SUFFICES ASSUME NEW k \in 1..len
                   PROVE  disk'.data[start + k - 1] = IF k = s THEN w.value ELSE data[start + k - 1]
        OBVIOUS
      <4>1. CASE k = s
        BY <1>3, <1>5, <2>5, <4>1
      <4>2. CASE k # s
        <5>1. start + k - 1 # w.at
          BY <2>5, <4>2
        <5>2. QED BY <1>5, <4>2, <5>1
      <4>3. QED BY <4>1, <4>2
    <3>2. QED BY <2>6, <2>7, <3>1
  <2>9. \A j \in InUse : j # i => FileAt(j)' = FileAt(j)
    <3>1. w.at \in SectorsOf(disk.inode, i)
      BY <1>4, <2>3, <2>4 DEF SectorsOf
    <3>2. \A j \in Led : j # i => SectorsOf(disk.inode, j) \cap SectorsOf(disk.inode, i) = {}
      BY <1>1, <2>2, LedSafe
    <3>3. QED BY <1>4, <1>6, <1>7, <3>1, <3>2
  <2>10. InUse' = InUse /\ Named' = Named
    BY <1>1, <1>3 DEF InUse, Named, lookup
  <2>11. Content' = [Content EXCEPT ![i][s] = w.value]
    <3>1. Content' = [j \in Sector |-> IF j \in InUse THEN FileAt(j)' ELSE <<>>]
      BY <2>10 DEF Content
    <3>2. \A j \in Sector : j # i => Content'[j] = Content[j]
      BY <2>9, <3>1 DEF Content
    <3>3. Content[i] = FileAt(i) /\ Content'[i] = [Content[i] EXCEPT ![s] = w.value]
      BY <2>2, <2>8, <3>1 DEF Content
    <3>4. Content = [j \in Sector |-> Content[j]] /\ Content' = [j \in Sector |-> Content'[j]]
      BY <3>1 DEF Content
    <3>5. QED BY <2>2, <3>2, <3>3, <3>4
  <2>12. s \in DOMAIN Content[i] /\ w.value \in Data
    <3>1. Content[i] = FileAt(i)
      BY <2>2 DEF Content
    <3>2. QED BY <1>2, <2>6, <3>1 DEF Write
  <2>13. Abstract!Write(handle[h], s, w.value)
    BY <1>1, <2>1, <2>10, <2>11, <2>12 DEF Abstract!Write
  <2>14. QED BY <1>9, <2>1, <2>12, <2>13 DEF AsPromised, Abstract!FilesNext
<1>10. QED BY <1>1, <1>2, <1>8, <1>9 DEF DataWrites

\* A write of a map or an inode is not seen.
LEMMA OtherWritesUnseen ==
    ASSUME PromiseInv, block_write, pending[1].part \in {"map", "inode"}
    PROVE  AsPromised
<1>1. FileInv /\ HandlesLed /\ handle' = handle
  BY DEF PromiseInv, block_write
<1>2. /\ disk'.dir = disk.dir
      /\ \A i \in Led : disk'.inode[i] = disk.inode[i]
      /\ \A i \in Led : \A x \in SectorsOf(disk.inode, i) : disk'.data[x] = disk.data[x]
  BY <1>1, LedStay
<1>3. InUse \subseteq Led /\ InUse \subseteq Sector
  BY <1>1, InUseLed
<1>4. disk.inode \in [Sector -> InodeData]
  BY <1>1 DEF FileInv, WellTyped, Disk
<1>5. ASSUME NEW i \in InUse PROVE FileAt(i)' = FileAt(i)
  <2>1. \A x \in Run(disk.inode[i].start, disk.inode[i].len) : disk'.data[x] = disk.data[x]
    BY <1>2, <1>3, <1>5 DEF SectorsOf
  <2>2. QED BY <1>2, <1>3, <1>4, <1>5, <2>1, FileStays
<1>6. QED BY <1>1, <1>2, <1>5, NothingSeen DEF AsPromised

LEMMA StepShows == PromiseInv /\ [FileNext]_fileVars => PromiseInv' /\ AsPromised
<1> SUFFICES ASSUME PromiseInv, [FileNext]_fileVars PROVE PromiseInv' /\ AsPromised
  OBVIOUS
<1>1. CASE block_write
  <2>1. PICK w : w = pending[1]
    OBVIOUS
  <2>2. w \in Write
    BY <1>1, <2>1, FirstWritten DEF PromiseInv, FileInv
  <2>3. w.part \in {"map", "inode"} => AsPromised
    BY <1>1, <2>1, OtherWritesUnseen
  <2>4. w.part = "data" => AsPromised
    BY <1>1, <2>1, DataShow
  <2>5. w.part = "dir" => AsPromised
    BY <1>1, <2>1, RemovalShows, AdditionShows
  <2>6. AsPromised
    BY <2>2, <2>3, <2>4, <2>5 DEF Write
  <2>7. QED BY <1>1, <2>6, BlockWritePromises
<1>2. CASE restart
  <2>1. Abstract!Crash
    BY <1>2, RestartShows
  <2>2. QED BY <1>2, <2>1, QuietOnesPromise DEF AsPromised, Abstract!FilesNext
<1>3. ASSUME NEW F \in Shortages, NEW n \in Name, NEW len \in 0..MaxSectors, filesys_create(n, len, F)
      PROVE  PromiseInv' /\ AsPromised
  <2>1. disk' = disk /\ handle' = handle
    BY <1>3 DEF filesys_create
  <2>2. AsPromised
    BY <2>1, BeginsUnseen DEF AsPromised
  <2>3. QED BY <1>3, <2>2, CreatePromises
<1>4. ASSUME NEW F \in Shortages, NEW n \in Name, filesys_remove(n, F)
      PROVE  PromiseInv' /\ AsPromised
  <2>1. disk' = disk /\ handle' = handle
    BY <1>4 DEF filesys_remove
  <2>2. AsPromised
    BY <2>1, BeginsUnseen DEF AsPromised
  <2>3. QED BY <1>4, <2>2, RemovePromises
<1>5. ASSUME NEW h \in Handle, NEW n \in Name, filesys_open(h, n) PROVE PromiseInv' /\ AsPromised
  <2>1. Abstract!Open(h, n)
    BY <1>5, OpenShows
  <2>2. QED BY <1>5, <2>1, QuietOnesPromise DEF AsPromised, Abstract!FilesNext
<1>6. ASSUME NEW h \in Handle, NEW F \in Shortages, file_close(h, F) PROVE PromiseInv' /\ AsPromised
  <2>1. Abstract!Close(h)
    BY <1>6, CloseShows
  <2>2. QED BY <1>6, <2>1, QuietOnesPromise DEF AsPromised, Abstract!FilesNext
<1>7. ASSUME NEW h \in Handle, NEW s \in Sector, NEW v \in Data, file_write(h, s, v)
      PROVE  PromiseInv' /\ AsPromised
  <2>1. disk' = disk /\ handle' = handle
    BY <1>7 DEF file_write
  <2>2. AsPromised
    BY <2>1, BeginsUnseen DEF AsPromised
  <2>3. QED BY <1>7, <2>2, WritePromises
<1>8. CASE UNCHANGED fileVars
  <2>1. /\ disk' = disk /\ pending' = pending /\ handle' = handle /\ open_inodes' = open_inodes
        /\ FileInv'
    BY <1>8, FilesStutter DEF fileVars, PromiseInv
  <2>2. AsPromised
    BY <2>1, BeginsUnseen DEF AsPromised
  <2>3. Led' = Led
    BY <2>1 DEF Led, Removed
  <2>4. HandlesLed'
    BY <2>1, <2>3 DEF PromiseInv, HandlesLed
  <2>5. DataWrites'
    BY <2>1, <2>3 DEF PromiseInv, DataWrites, DataOf
  <2>6. Zeroed'
    BY <2>1 DEF PromiseInv, Zeroed, Adds
  <2>7. QED BY <2>1, <2>2, <2>4, <2>5, <2>6 DEF PromiseInv
<1>9. QED BY <1>1, <1>2, <1>3, <1>4, <1>5, <1>6, <1>7, <1>8 DEF FileNext

\* At first there are no files.
LEMMA PromiseBegins == FileInit => PromiseInv /\ Abstract!FilesInit
<1> SUFFICES ASSUME FileInit PROVE PromiseInv /\ Abstract!FilesInit
  OBVIOUS
<1>1. /\ FileInv /\ pending = <<>> /\ handle = [h \in Handle |-> NoSector]
      /\ \A s \in Slot : disk.dir[s] = NoEntry
  BY FilesBegin DEF FileInit
<1>2. DOMAIN pending = {}
  BY <1>1
<1>3. PromiseInv
  BY <1>1, <1>2 DEF PromiseInv, HandlesLed, DataWrites, Zeroed
<1>4. NoEntry.inode = NoSector /\ \A n \in Name : NoEntry.name # n
  BY FileAssumption DEF NoEntry
<1>5. InUse = {}
  BY <1>1, <1>4 DEF InUse
<1>6. Content = [i \in Sector |-> <<>>]
  BY <1>5 DEF Content
<1>7. Named = [n \in Name |-> NoSector]
  BY <1>1, <1>4 DEF Named, lookup
<1>8. QED BY <1>1, <1>3, <1>6, <1>7 DEF Abstract!FilesInit

\* The file system does what Files promises: names lead to files, a write
\* changes one file, a removed file lives until it is closed, and a crash
\* between any two writes to the device loses nothing else (filesys.c,
\* directory.c, inode.c, free-map.c).
THEOREM FilesAsPromised == FileSpec => ImplementsFiles
<1>1. PromiseInv /\ [FileNext]_fileVars => [Abstract!FilesNext]_<<Named, handle, Content>>
  BY StepShows DEF AsPromised
<1>2. QED BY <1>1, PromiseBegins, StepShows, PTL DEF FileSpec, ImplementsFiles, Abstract!FilesSpec
=============================================================================
