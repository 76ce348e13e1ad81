----------------------------- MODULE Partitions -----------------------------
(* The scan of a disk's partition tables: devices/partition.c and            *)
(* block_register of block.c.  read_partition_table calls itself for an      *)
(* extended partition; every call of it that has not returned is a frame.    *)
EXTENDS Integers, Sequences, FiniteSets

CONSTANTS Tables,      \* partition tables sector 0 may hold
          BlockSize,   \* sectors of the device
          Sectors,     \* 2^32, the number of sector numbers
          MaxDepth     \* calls that fit in the kernel's stack and memory

\* Offsets and sizes are of 32 bits.
ASSUME PartitionAssumption ==
  /\ Sectors \in Nat /\ BlockSize \in 1..Sectors - 1 /\ MaxDepth \in Nat \ {0}
  /\ \A t \in Tables :
       LET E == { t.entries[i] : i \in DOMAIN t.entries }
       IN  /\ t.entries \in Seq(E)
           /\ \A e \in E : e.offset \in 0..Sectors - 1 /\ e.size \in 0..Sectors - 1

VARIABLES pt,           \* what sector 0 holds: a signature and the entries
          frames,       \* calls that run: sector, primary_extended_sector, i
          part_nr,
          partitions,   \* those given to block_register, in order
          overflow      \* the calls ran out of stack or memory

partVars == <<pt, frames, part_nr, partitions, overflow>>

Frame(sector, primary) == [sector |-> sector, primary |-> primary, i |-> 1]
\* A call returns at once for a sector past the end of the device, or when the
\* signature is wrong.  It reads sector 0, whatever sector it is called for.
returns_at_once(sector) == sector >= BlockSize \/ ~pt.signed

PartInit == /\ pt \in Tables
            /\ frames = IF returns_at_once(0) THEN <<>> ELSE <<Frame(0, 0)>>
            /\ part_nr = 0 /\ partitions = <<>> /\ overflow = FALSE

-----------------------------------------------------------------------------
top == frames[Len(frames)]
others == SubSeq(frames, 1, Len(frames) - 1)
advanced_top == Append(others, [top EXCEPT !.i = @ + 1])
entry == pt.entries[top.i]
Reading == frames # <<>> /\ ~overflow /\ top.i <= Len(pt.entries)
isEmpty(e) == e.size = 0 \/ e.type = "empty"

empty_partition ==
  /\ Reading /\ isEmpty(entry)
  /\ frames' = advanced_top /\ UNCHANGED <<pt, part_nr, partitions, overflow>>

\* In sector 0 the offset is a sector number, elsewhere it counts from the
\* extended partition that sector 0 names.
extended_partition ==
  LET sector == IF top.sector = 0 THEN entry.offset
                ELSE (entry.offset + top.primary) % Sectors
      primary == IF top.sector = 0 THEN entry.offset ELSE top.primary
  IN
  /\ Reading /\ ~isEmpty(entry) /\ entry.type = "extended"
  /\ IF returns_at_once(sector) THEN frames' = advanced_top /\ UNCHANGED overflow
     ELSE IF Len(frames) = MaxDepth THEN overflow' = TRUE /\ UNCHANGED frames
     ELSE frames' = Append(advanced_top, Frame(sector, primary)) /\ UNCHANGED overflow
  /\ UNCHANGED <<pt, part_nr, partitions>>

fits_unwrapped(start, size) == start < BlockSize /\ (start + size) % Sectors <= BlockSize
fits(start, size) == /\ start < BlockSize
                     /\ (start + size) % Sectors >= start
                     /\ (start + size) % Sectors <= BlockSize
\* Numbers are given to partitions that do not fit, too.
numbered(start, size) == part_nr + 1
found_partition ==
  LET start == (entry.offset + top.sector) % Sectors
      nr == numbered(start, entry.size)
  IN
  /\ Reading /\ ~isEmpty(entry) /\ entry.type # "extended"
  /\ part_nr' = nr
  /\ partitions' = IF ~fits(start, entry.size) THEN partitions
                   ELSE Append(partitions, [nr |-> nr, type |-> entry.type,
                                            start |-> start, size |-> entry.size])
  /\ frames' = advanced_top /\ UNCHANGED <<pt, overflow>>

returns ==
  /\ frames # <<>> /\ ~overflow /\ top.i > Len(pt.entries)
  /\ frames' = others /\ UNCHANGED <<pt, part_nr, partitions, overflow>>

PartNext == empty_partition \/ extended_partition \/ found_partition \/ returns
PartSpec == PartInit /\ [][PartNext]_partVars

-----------------------------------------------------------------------------
(* Properties.                                                               *)

\* Reads and writes of a registered partition stay on its device, whatever the
\* table says: its last sector is on the device, in numbers that do not wrap
\* (partition.c:165-172, 312-324).
PartitionsFit ==
  \A i \in DOMAIN partitions : LET p == partitions[i] IN
    p.size > 0 /\ p.start + p.size <= BlockSize

\* On a device without extended partitions the scan registers each entry that
\* fits, in the order of the table, under the number of its place among the
\* entries that are not empty (partition.c:132-146).
NoExtended == \A i \in DOMAIN pt.entries : pt.entries[i].type # "extended"
nonempty(n) == { k \in 1..n : ~isEmpty(pt.entries[k]) }
fitting(n) == { k \in nonempty(n) : pt.entries[k].offset + pt.entries[k].size <= BlockSize }
primary(k) == [nr |-> Cardinality(nonempty(k)), type |-> pt.entries[k].type,
               start |-> pt.entries[k].offset, size |-> pt.entries[k].size]
Registered(n) ==
  /\ { partitions[i] : i \in DOMAIN partitions } = { primary(k) : k \in fitting(n) }
  /\ \A i, j \in DOMAIN partitions : i < j => partitions[i].nr < partitions[j].nr
PrimariesRight ==
  NoExtended /\ frames = <<>> /\ pt.signed => Registered(Len(pt.entries))

\* What partition_scan registers lies on the device and is numbered right
\* (partition.c:132-146, 148-186).
PartitionsSafe ==
  /\ PartitionsFit /\ PrimariesRight
=============================================================================
