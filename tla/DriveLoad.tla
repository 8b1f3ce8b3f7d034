------------------------------ MODULE DriveLoad ------------------------------
(***************************************************************************)
(* TivoDrive::from_disk_image: what opening a drive reads, in order, and   *)
(* what it makes of it.  The first two bytes tell the byte order, in which *)
(* everything after them is read; the partition map gives the table of     *)
(* volumes (MFSVolumes), the header of the first of them the head of the   *)
(* zone list, and walking the list (ZoneMap) gives the zones whose sizes   *)
(* are summed up.  Every call of a read may fail on its own, and a read of *)
(* several blocks may also end early: the rest of its buffer is zeros.     *)
(*                                                                         *)
(* The table and the walk are the steps of MFSVolumes and of ZoneMap.      *)
(***************************************************************************)
EXTENDS SectorMap, SequencesExt

CONSTANTS
  Images,     \* the images considered
  WordSize    \* 2^32 in the code

ASSUME WordSizeAssumption == WordSize \in Nat \ {0}

VARIABLES
  image,                                       \* the image; never changes
  overflow_checks,                             \* the kind of build; never changes
  phase,                                       \* what is done next, or how it ended
  is_byte_swapped,
  partitions,                                  \* ApplePartitionMap
  scanned, volumes, wrapped, table_status,     \* MFSVolumes::new
  next_zonemap_ptr, backup_next_zonemap_ptr,   \* the cursor that from_iter consumes
  caller, zonemap, walk, walk_status,          \* Vec::from_iter
  inode_count

order == <<is_byte_swapped, partitions>>
table == <<scanned, volumes, wrapped, table_status>>
cursor == <<next_zonemap_ptr, backup_next_zonemap_ptr>>
zones == <<cursor, caller, zonemap, walk, walk_status>>
vars == <<image, overflow_checks, phase, order, table, zones, inode_count>>

Ended == {"loaded", "refused", "panicked"}

(* In the wrong order no block means anything, save a block of zeros. *)
InOrder(swapped, block) == IF swapped = image.swapped \/ block = ZeroBlock THEN block ELSE JunkBlock
Seen(swapped) ==
  [size   |-> image.size,
   blocks |-> [loc \in DOMAIN image.blocks |-> InOrder(swapped, image.blocks[loc])]]
Drive == [volumes |-> volumes, chain |-> image.chain, image |-> Seen(is_byte_swapped),
          failing |-> image.failing]

Table == INSTANCE MFSVolumes WITH
  PartitionMaps <- {}, QuerySectors <- {}, status <- table_status,
  answer <- [sector |-> 0, volume |-> 0, location |-> 0]

Zones == INSTANCE ZoneMap WITH
  Drives <- {}, drive <- Drive, yielded <- zonemap, from <- 0, sum <- 0,
  answer <- walk, status <- walk_status

(* An image: its two magic bytes, whether the rest of it is byte-swapped,
   the blocks 1 to 64, and then what SectorMap says of an image, with the
   list of zones written on it. *)
Partition == [kind : {"partition"}, type : {"MFS", "Ext2"},
              starting_sector : Nat, sector_size : Nat]
MapBlock == Partition \cup {JunkBlock, ZeroBlock}
IsImage(m) ==
  /\ m.magic \in {"1492", "9214", "other", "short"}
  /\ m.swapped \in BOOLEAN
  /\ m.map \in Seq(MapBlock)
  /\ m.size \in Nat
  /\ m.chain \in Seq(Zones!Link)
  /\ m.failing \in BOOLEAN   \* opening or reading it may fail
  /\ \A loc \in DOMAIN m.blocks :
       LET b == m.blocks[loc]
       IN  /\ b.kind = "zone" => b.zone \in Zones!Zone
           /\ b.kind = "header" => /\ b.next_zonemap_sector \in Nat
                                  /\ b.next_zonemap_backup_sector \in Nat

ASSUME ImagesAssumption == \A m \in Images : IsImage(m)

Init ==
  /\ image \in Images
  /\ overflow_checks \in BOOLEAN
  /\ phase = "open"
  /\ is_byte_swapped = FALSE
  /\ partitions = <<>>
  /\ scanned = 0 /\ volumes = <<>> /\ wrapped = FALSE /\ table_status = "building"
  /\ next_zonemap_ptr = 0 /\ backup_next_zonemap_ptr = 0
  /\ caller = "none" /\ zonemap = <<>> /\ walk_status = "ok"
  /\ walk = [op |-> "none", ok |-> FALSE, first |-> 0, last |-> 0, value |-> 0]
  /\ inode_count = 0

Fixed == UNCHANGED <<image, overflow_checks>>

-----------------------------------------------------------------------------
Open ==
  /\ phase = "open"
  /\ phase' = "order"
  /\ Fixed /\ UNCHANGED <<order, table, zones, inode_count>>

MfsPartitions == {i \in DOMAIN partitions : partitions[i].type = "MFS"}

(* An error of the open or of any read before the walk. *)
ReadFails ==
  /\ phase \in {"open", "order", "map", "header"}
  /\ phase = "header" => MfsPartitions # {}
  /\ image.failing
  /\ phase' = "refused"
  /\ Fixed /\ UNCHANGED <<order, table, zones, inode_count>>

(* Slip: the test is inverted. *)
OrderInverted ==
  /\ phase = "order"
  /\ image.magic \in {"1492", "9214"}
  /\ is_byte_swapped' = (image.magic = "1492")
  /\ phase' = "map"
  /\ Fixed /\ UNCHANGED <<partitions, table, zones, inode_count>>

CheckByteOrder ==
  /\ phase = "order"
  /\ image.magic \in {"1492", "9214"}
  /\ is_byte_swapped' = (image.magic = "9214")
  /\ phase' = "map"
  /\ Fixed /\ UNCHANGED <<partitions, table, zones, inode_count>>

NotATivoDrive ==
  /\ phase = "order"
  /\ image.magic \notin {"1492", "9214"}
  /\ phase' = "refused"
  /\ Fixed /\ UNCHANGED <<order, table, zones, inode_count>>

(* Slip: entries that do not parse are left out, those behind them kept. *)
SkipDamaged(blocks) == SelectSeq(blocks, LAMBDA b : b.kind = "partition")

(* fold_many_m_n takes entries up to the first that does not parse. *)
LeadingEntries(blocks) ==
  LET bad == {i \in DOMAIN blocks : blocks[i].kind # "partition"}
  IN  IF bad = {} THEN blocks
      ELSE SubSeq(blocks, 1, (CHOOSE i \in bad : \A j \in bad : i <= j) - 1)

(* What a read of the 64 blocks may leave in its buffer: all of them, or
   zeros from some block on. *)
Buffers ==
  LET all == [i \in DOMAIN image.map |-> InOrder(is_byte_swapped, image.map[i])]
      cut(n) == [i \in DOMAIN all |-> IF i <= n THEN all[i] ELSE ZeroBlock]
  IN  {cut(n) : n \in IF image.failing THEN 0..Len(all) ELSE {Len(all)}}

ReadPartitionMap ==
  /\ phase = "map"
  /\ \E buffer \in Buffers :
       LET parsed == LeadingEntries(buffer)
       IN  /\ partitions' = parsed
           /\ phase' = IF parsed = <<>> THEN "refused" ELSE "table"
  /\ Fixed /\ UNCHANGED <<is_byte_swapped, table, zones, inode_count>>

(* MFSVolumes::new, one partition per step. *)
BuildTable ==
  /\ phase = "table"
  /\ Fixed /\ UNCHANGED <<order, zones, inode_count>>
  /\ \/ /\ Table!SkipPartition \/ Table!AddVolume \/ Table!WrapVolume
        /\ UNCHANGED phase
     \/ Table!OverflowPanics /\ phase' = "panicked"
     \/ Table!FinishNew /\ phase' = "header"

(* app_region is found by an unwrapped `find`. *)
NoRegionPanics ==
  /\ phase = "header"
  /\ MfsPartitions = {}
  /\ phase' = "panicked"
  /\ Fixed /\ UNCHANGED <<order, table, zones, inode_count>>

Region == partitions[CHOOSE i \in MfsPartitions : \A j \in MfsPartitions : i <= j]
Header == BlockAt(Seen(is_byte_swapped), Region.starting_sector)

(* Slip: the header is unwrapped like the region. *)
BadHeaderPanics ==
  /\ phase = "header"
  /\ MfsPartitions # {}
  /\ Header.kind # "header"
  /\ phase' = "panicked"
  /\ Fixed /\ UNCHANGED <<order, table, zones, inode_count>>

BadHeader ==
  /\ phase = "header"
  /\ MfsPartitions # {}
  /\ Header.kind # "header"
  /\ phase' = "refused"
  /\ Fixed /\ UNCHANGED <<order, table, zones, inode_count>>

(* The header has the pointers of both cursors, raw_zonemap's, which is not
   read, and the one that from_iter starts to consume. *)
ReadHeader ==
  /\ phase = "header"
  /\ MfsPartitions # {}
  /\ Header.kind = "header"
  /\ next_zonemap_ptr' = Header.next_zonemap_sector
  /\ backup_next_zonemap_ptr' = Header.next_zonemap_backup_sector
  /\ caller' = "from_iter"
  /\ phase' = "walk"
  /\ Fixed /\ UNCHANGED <<order, table, zonemap, walk, walk_status, inode_count>>

(* One call of `next`, or from_iter has its vector. *)
Walk ==
  /\ phase = "walk"
  /\ Fixed /\ UNCHANGED <<order, table, inode_count>>
  /\ Zones!Step
  /\ phase' = IF walk_status' = "panicked" THEN "panicked"
              ELSE IF caller' = "none" THEN "count" ELSE "walk"

(* The sizes of the INode zones among those, summed up. *)
SizesOf(list) ==
  FoldLeft(LAMBDA acc, z : acc + (IF z.type = "INode" THEN z.size ELSE 0), 0, list)
InodeSizes == SizesOf(zonemap)

CountInodes ==
  /\ phase = "count"
  /\ InodeSizes < WordSize \/ ~overflow_checks
  /\ inode_count' = InodeSizes % WordSize
  /\ phase' = "loaded"
  /\ Fixed /\ UNCHANGED <<order, table, zones>>

CountOverflows ==
  /\ phase = "count"
  /\ InodeSizes >= WordSize /\ overflow_checks
  /\ phase' = "panicked"
  /\ Fixed /\ UNCHANGED <<order, table, zones, inode_count>>

Step ==
  \/ Open
  \/ ReadFails
  \/ CheckByteOrder
  \/ NotATivoDrive
  \/ ReadPartitionMap
  \/ BuildTable
  \/ NoRegionPanics
  \/ BadHeader
  \/ ReadHeader
  \/ Walk
  \/ CountInodes
  \/ CountOverflows

Spec == Init /\ [][Step]_vars

-----------------------------------------------------------------------------
(***************************************************************************)
(* Properties.                                                             *)
(***************************************************************************)

(* The volumes of a map, when no sum of their sizes wraps. *)
IsMfs(b) == b.kind = "partition" /\ b.type = "MFS"
MfsOf(map) == FoldLeft(LAMBDA acc, b : IF IsMfs(b) THEN Append(acc, b) ELSE acc, <<>>, map)
Sectors(parts) == FoldLeft(LAMBDA acc, b : acc + b.sector_size, 0, parts)
VolumesOf(map) ==
  LET mfs == MfsOf(map)
  IN  [k \in DOMAIN mfs |-> [disk_sector  |-> mfs[k].starting_sector,
                             sector_start |-> Sectors(SubSeq(mfs, 1, k - 1)),
                             sector_count |-> mfs[k].sector_size]]

WholeDrive == [volumes |-> VolumesOf(image.map), chain |-> image.chain,
               image |-> Seen(image.swapped), failing |-> image.failing]

(* A drive as the TiVo writes it, in either byte order, with one good copy
   of every zone. *)
Sound ==
  /\ image.magic = IF image.swapped THEN "9214" ELSE "1492"
  /\ LeadingEntries(image.map) = image.map
  /\ WholeDrive.volumes # <<>>
  /\ EndOf(Last(WholeDrive.volumes)) < WordSize
  /\ SizesOf(Zones!ListOf(WholeDrive)) < WordSize
  /\ LET head == BlockAt(WholeDrive.image, WholeDrive.volumes[1].disk_sector)
     IN  /\ head.kind = "header"
         /\ image.chain # <<>>
         /\ head.next_zonemap_sector = image.chain[1].ptr
         /\ head.next_zonemap_backup_sector = image.chain[1].backup
  /\ Zones!Survivable(WholeDrive)

(* While nothing fails a sound drive is loaded, whatever its byte order,
   the number and place of its volumes and the damaged copies: all of its
   map, all of its volumes, every zone, and the inodes of all of them. *)
SoundDriveLoads ==
  (~image.failing /\ Sound /\ phase \in Ended) =>
    /\ phase = "loaded"
    /\ partitions = image.map
    /\ volumes = VolumesOf(image.map)
    /\ zonemap = Zones!ListOf(WholeDrive)
    /\ inode_count = SizesOf(Zones!ListOf(WholeDrive))

(* Whatever fails on the way, a drive that loads is a part of the one that
   is there: its partitions are the first of the map, its volumes those of
   these partitions at their own sector numbers, and its zones the first of
   the list, short of a phantom zone for a block of zeros.  A later fault
   is not told from the end of the map or of the list. *)
FaultsOnlyShorten ==
  (phase = "loaded" /\ ~wrapped) =>
    /\ IsPrefix(partitions, image.map)
    /\ IsPrefix(volumes, VolumesOf(image.map))
    /\ (Zones!Represents(Drive) /\ image.chain # <<>>
          /\ Header.next_zonemap_sector = image.chain[1].ptr
          /\ Header.next_zonemap_backup_sector = image.chain[1].backup)
         => Zones!FollowsUpTo(Len(zonemap)) \/ Zones!EndsInPhantom

(* Loading panics for one of these reasons only: no partition that was read
   is an MFS partition, a pointer of the zone list is in no volume that was
   read, or a checked u32 sum overflowed.  A damaged magic, map entry or
   header is always an error that is reported. *)
LoadPanicJustified ==
  phase = "panicked" =>
    \/ MfsPartitions = {}
    \/ table_status = "panicked" /\ overflow_checks
    \/ walk_status = "panicked" /\ ~Zones!Mapped
    \/ InodeSizes >= WordSize /\ overflow_checks
=============================================================================
