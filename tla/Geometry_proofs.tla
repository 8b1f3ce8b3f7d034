-------------------------- MODULE Geometry_proofs --------------------------
(***************************************************************************)
(* Theorems about where things are: the table MFSVolumes::new builds, for  *)
(* every partition map, and the sectors MFSINodeIter reads, for every      *)
(* table of inodes, every volume set and every pattern of failing calls.   *)
(*                                                                         *)
(* The volume table only grows while it is built and only translations     *)
(* follow, so its invariant has three parts: the shape of the table, the   *)
(* last answer (it is the translation under the finished table), and the   *)
(* panic.                                                                  *)
(***************************************************************************)
EXTENDS MFSVolumes, INodeIter, SectorMap_proofs, FiniteSetTheorems

(* While the table is built there is no answer yet; later the answer is the
   current translation of a covered sector. *)
AnswerCurrent ==
  /\ status = "building" => answer = NoAnswer
  /\ (answer # NoAnswer /\ status = "ready") =>
       /\ Covering(volumes, answer.sector) # {}
       /\ answer.volume = VolumeIndex(volumes, answer.sector)
       /\ answer.location = SectorToDiskLocation(volumes, answer.sector)

(* The inductive invariant.  OneAfterAnother is Tiled made transitive, which an
   induction over the table would otherwise have to derive. *)
IInv ==
  /\ TypeOK
  /\ Tiled
  /\ ~wrapped => OneAfterAnother(volumes)
  /\ AnswerCurrent
  /\ PanicsJustified

-----------------------------------------------------------------------------
(* The partition being placed is a partition of the map. *)
LEMMA CurrentType ==
  ASSUME TypeOK, Scanning
  PROVE  Current \in Partition /\ scanned + 1 \in 0..Len(partitions)
<1>1. partitions \in Seq(Partition) /\ scanned + 1 \in 1..Len(partitions)
  BY PartitionMapsAssumption DEF TypeOK, Scanning
<1>2. QED BY <1>1 DEF Current

(* The place of the next volume. *)
LEMMA NextStartType ==
  ASSUME TypeOK
  PROVE  NextStart \in Nat
<1>1. CASE volumes = <<>>
  BY <1>1 DEF NextStart
<1>2. CASE volumes # <<>>
  <2>1. volumes[Len(volumes)] \in Volume
    BY <1>2 DEF TypeOK
  <2>2. QED BY <1>2, <2>1 DEF NextStart, EndOf, Volume
<1>3. QED BY <1>1, <1>2

(* Placing a volume keeps the table a sequence of volumes, with the new
   volume last. *)
LEMMA PlaceType ==
  ASSUME TypeOK, Scanning, NEW start \in Nat, Place(start)
  PROVE  /\ volumes' \in Seq(Volume)
         /\ Len(volumes') = Len(volumes) + 1
         /\ \A i \in DOMAIN volumes : volumes'[i] = volumes[i]
         /\ volumes'[Len(volumes) + 1].sector_start = start
<1> DEFINE v == [disk_sector  |-> Current.starting_sector,
                 sector_start |-> start,
                 sector_count |-> Current.sector_size]
<1>1. v \in Volume
  BY CurrentType, WordSizeAssumption DEF Partition, Volume
<1>2. volumes \in Seq(Volume) /\ volumes' = Append(volumes, v)
  BY DEF TypeOK, Place
<1> HIDE DEF v
<1>3. volumes'[Len(volumes) + 1] = v
  BY <1>1, <1>2
<1>4. /\ volumes' \in Seq(Volume)
      /\ Len(volumes') = Len(volumes) + 1
      /\ \A i \in DOMAIN volumes : volumes'[i] = volumes[i]
  BY <1>1, <1>2
<1>5. QED BY <1>3, <1>4 DEF v

-----------------------------------------------------------------------------
(* Every field keeps its type, whatever is asked of the table. *)
LEMMA TypeInductive == TypeOK /\ [Next]_vars => TypeOK'
<1> SUFFICES ASSUME TypeOK, [Next]_vars PROVE TypeOK'
  OBVIOUS
<1>1. CASE SkipPartition
  BY <1>1, CurrentType DEF SkipPartition, TypeOK
<1>2. CASE AddVolume
  <2>1. volumes' \in Seq(Volume)
    BY <1>2, PlaceType, NextStartType DEF AddVolume
  <2>2. QED BY <1>2, <2>1, CurrentType DEF AddVolume, TypeOK
<1>3. CASE WrapVolume
  <2>1. NextStart % WordSize \in Nat
    BY NextStartType, WordSizeAssumption
  <2>2. volumes' \in Seq(Volume)
    BY <1>3, <2>1, PlaceType DEF WrapVolume
  <2>3. QED BY <1>3, <2>2, CurrentType DEF WrapVolume, TypeOK
<1>4. CASE OverflowPanics
  BY <1>4 DEF OverflowPanics, TypeOK
<1>5. CASE FinishNew
  BY <1>5 DEF FinishNew, TypeOK
<1>6. ASSUME NEW s \in QuerySectors, Translate(s) PROVE TypeOK'
  <2>1. s \in Nat /\ volumes \in Seq(Volume)
    BY QuerySectorsAssumption DEF TypeOK
  <2>2. VolumeIndex(volumes, s) \in Nat
    BY <1>6, <2>1, VolumeIndexIsFirst DEF Translate
  <2>3. SectorToDiskLocation(volumes, s) \in Int
    BY <1>6, <2>1, DiskLocationType DEF Translate
  <2>4. QED BY <1>6, <2>1, <2>2, <2>3 DEF Translate, TypeOK
<1>7. ASSUME NEW s \in QuerySectors, TranslatePanics(s) PROVE TypeOK'
  BY <1>7, QuerySectorsAssumption DEF TranslatePanics, TypeOK, NoAnswer
<1>8. CASE UNCHANGED vars
  BY <1>8 DEF vars, TypeOK
<1>9. QED
  BY <1>1, <1>2, <1>3, <1>4, <1>5, <1>6, <1>7, <1>8 DEF Next

(* The empty table satisfies the invariant. *)
LEMMA InitEstablishes == Init => IInv
<1> SUFFICES ASSUME Init PROVE IInv
  OBVIOUS
<1>1. TypeOK
  <2>1. scanned \in 0..Len(partitions)
    BY PartitionMapsAssumption DEF Init
  <2>2. volumes \in Seq(Volume)
    BY DEF Init
  <2>3. answer \in [sector : Nat, volume : Nat, location : Int]
    BY DEF Init, NoAnswer
  <2>4. QED BY <2>1, <2>2, <2>3 DEF Init, TypeOK
<1>2. Tiled /\ OneAfterAnother(volumes)
  BY DEF Init, Tiled, Adjoining, OneAfterAnother
<1>3. AnswerCurrent /\ PanicsJustified
  BY DEF Init, AnswerCurrent, PanicsJustified
<1>4. QED BY <1>1, <1>2, <1>3 DEF IInv

(* A step that leaves the table alone preserves its shape. *)
LEMMA ShapeUnchanged ==
  ASSUME IInv, UNCHANGED <<volumes, wrapped>>
  PROVE  Tiled' /\ (~wrapped => OneAfterAnother(volumes))'
BY DEF IInv, Tiled, Adjoining, OneAfterAnother

(* A volume placed at the end of the last one keeps the table adjoining and
   in order. *)
LEMMA AddVolumeShape ==
  ASSUME IInv, AddVolume
  PROVE  Tiled' /\ (~wrapped => OneAfterAnother(volumes))'
<1> DEFINE n == Len(volumes)
<1>1. /\ TypeOK /\ Scanning /\ Place(NextStart) /\ wrapped' = wrapped
      /\ volumes \in Seq(Volume) /\ n \in Nat /\ DOMAIN volumes = 1..n
  BY DEF IInv, AddVolume, TypeOK
<1>2. /\ volumes' \in Seq(Volume)
      /\ Len(volumes') = n + 1
      /\ \A i \in 1..n : volumes'[i] = volumes[i]
      /\ volumes'[n + 1].sector_start = NextStart
  BY <1>1, NextStartType, PlaceType
<1>3. DOMAIN volumes' = 1..(n + 1)
  BY <1>2
<1>4. NextStart = IF n = 0 THEN 0 ELSE EndOf(volumes[n])
  BY <1>1 DEF NextStart
<1> SUFFICES ASSUME ~wrapped PROVE Adjoining(volumes') /\ OneAfterAnother(volumes')
  BY <1>1 DEF Tiled
<1>5. Adjoining(volumes) /\ OneAfterAnother(volumes)
  BY DEF IInv, Tiled
<1>6. Adjoining(volumes')
  <2> SUFFICES ASSUME NEW k \in 1..(n + 1)
               PROVE  volumes'[k].sector_start
                        = IF k = 1 THEN 0 ELSE EndOf(volumes'[k - 1])
    BY <1>3 DEF Adjoining
  <2>1. CASE k = n + 1
    <3>1. n # 0 => volumes'[k - 1] = volumes[n]
      BY <1>1, <1>2, <2>1
    <3>2. QED BY <1>1, <1>2, <1>4, <2>1, <3>1
  <2>2. CASE k \in 1..n
    <3>1. volumes[k].sector_start = IF k = 1 THEN 0 ELSE EndOf(volumes[k - 1])
      BY <1>1, <1>5, <2>2 DEF Adjoining
    <3>2. k # 1 => volumes'[k - 1] = volumes[k - 1]
      BY <1>1, <1>2, <2>2
    <3>3. volumes'[k] = volumes[k]
      BY <1>2, <2>2
    <3>4. QED BY <3>1, <3>2, <3>3
  <2>3. QED BY <1>1, <2>1, <2>2
<1>7. OneAfterAnother(volumes')
  <2> SUFFICES ASSUME NEW j \in 1..(n + 1), NEW k \in 1..(n + 1), j < k
               PROVE  EndOf(volumes'[j]) <= volumes'[k].sector_start
    BY <1>3 DEF OneAfterAnother
  <2>1. j \in 1..n /\ volumes'[j] = volumes[j]
    BY <1>1, <1>2
  <2>2. CASE k \in 1..n
    BY <1>1, <1>2, <1>5, <2>1, <2>2 DEF OneAfterAnother
  <2>3. CASE k = n + 1
    <3>1. volumes'[k].sector_start = EndOf(volumes[n]) /\ n \in 1..n
      BY <1>1, <1>2, <1>4, <2>1, <2>3
    <3>2. volumes[n] \in Volume /\ volumes[j] \in Volume
      BY <1>1, <2>1, <3>1
    <3>3. CASE j = n
      BY <2>1, <3>1, <3>2, <3>3 DEF EndOf, Volume
    <3>4. CASE j < n
      <4>1. EndOf(volumes[j]) <= volumes[n].sector_start
        BY <1>1, <1>5, <2>1, <3>1, <3>4 DEF OneAfterAnother
      <4>2. QED BY <2>1, <3>1, <3>2, <4>1, SMTT(30) DEF EndOf, Volume
    <3>5. j = n \/ j < n
      <4>1. n \in Nat /\ j \in 1..n
        BY <1>1, <2>1
      <4> HIDE DEF n
      <4>2. QED BY <4>1
    <3>6. QED BY <3>3, <3>4, <3>5
  <2>4. QED BY <1>1, <2>2, <2>3
<1>8. QED BY <1>6, <1>7

(* The last answer stays the translation under the finished table. *)
LEMMA AnswerInductive == IInv /\ [Next]_vars => AnswerCurrent'
<1> SUFFICES ASSUME IInv, [Next]_vars PROVE AnswerCurrent'
  OBVIOUS
<1>1. AnswerCurrent
  BY DEF IInv
<1>2. CASE SkipPartition \/ AddVolume \/ WrapVolume
  BY <1>1, <1>2 DEF SkipPartition, AddVolume, WrapVolume, Scanning, AnswerCurrent
<1>3. CASE OverflowPanics \/ FinishNew
  BY <1>1, <1>3 DEF OverflowPanics, FinishNew, Scanning, AnswerCurrent
<1>4. ASSUME NEW s \in QuerySectors, Translate(s) PROVE AnswerCurrent'
  BY <1>4 DEF Translate, AnswerCurrent
<1>5. ASSUME NEW s \in QuerySectors, TranslatePanics(s) PROVE AnswerCurrent'
  BY <1>5 DEF TranslatePanics, AnswerCurrent
<1>6. CASE UNCHANGED vars
  BY <1>1, <1>6 DEF vars, AnswerCurrent
<1>7. QED
  BY <1>2, <1>3, <1>4, <1>5, <1>6 DEF Next

(* A panic is a checked overflow or a sector beyond the volumes, because an
   adjoining table covers every sector up to its end. *)
LEMMA PanicInductive == IInv /\ [Next]_vars => PanicsJustified'
<1> SUFFICES ASSUME IInv, [Next]_vars PROVE PanicsJustified'
  OBVIOUS
<1>1. TypeOK /\ Tiled /\ PanicsJustified
  BY DEF IInv
<1>2. CASE SkipPartition \/ AddVolume \/ WrapVolume
  BY <1>2 DEF SkipPartition, AddVolume, WrapVolume, Scanning, PanicsJustified
<1>3. CASE OverflowPanics
  BY <1>3 DEF OverflowPanics, PanicsJustified, NextStart
<1>4. CASE FinishNew
  BY <1>4 DEF FinishNew, PanicsJustified
<1>5. ASSUME NEW s \in QuerySectors, Translate(s) PROVE PanicsJustified'
  BY <1>5 DEF Translate, PanicsJustified
<1>6. ASSUME NEW s \in QuerySectors, TranslatePanics(s) PROVE PanicsJustified'
  <2>1. /\ Covering(volumes, s) = {} /\ answer'.sector = s
        /\ UNCHANGED <<volumes, wrapped, overflow_checks>>
    BY <1>6 DEF TranslatePanics, NoAnswer
  <2>2. CASE wrapped \/ volumes = <<>>
    BY <2>1, <2>2 DEF PanicsJustified
  <2>3. CASE ~wrapped /\ volumes # <<>>
    <3>1. s \in Nat /\ volumes \in Seq(Volume) /\ Adjoining(volumes)
      BY <1>1, <2>3, QuerySectorsAssumption DEF TypeOK, Tiled
    <3>2. ~(s <= EndOf(volumes[Len(volumes)]))
      BY <2>1, <2>3, <3>1, AdjoiningCovers
    <3>3. volumes[Len(volumes)] \in Volume
      BY <2>3, <3>1
    <3>4. EndOf(volumes[Len(volumes)]) \in Nat
      BY <3>3 DEF EndOf, Volume
    <3>5. s > Total
      BY <2>3, <3>1, <3>2, <3>4 DEF Total
    <3>6. QED BY <2>1, <3>5 DEF PanicsJustified, Total
  <2>4. QED BY <2>2, <2>3
<1>7. CASE UNCHANGED vars
  BY <1>1, <1>7 DEF vars, PanicsJustified, NextStart, Total
<1>8. QED
  BY <1>2, <1>3, <1>4, <1>5, <1>6, <1>7 DEF Next

(* The shape of the table survives every step. *)
LEMMA ShapeInductive ==
  IInv /\ [Next]_vars => Tiled' /\ (~wrapped => OneAfterAnother(volumes))'
<1> SUFFICES ASSUME IInv, [Next]_vars
             PROVE  Tiled' /\ (~wrapped => OneAfterAnother(volumes))'
  OBVIOUS
<1>1. CASE AddVolume
  BY <1>1, AddVolumeShape
<1>2. CASE WrapVolume
  BY <1>2 DEF WrapVolume, Tiled
<1>3. CASE UNCHANGED <<volumes, wrapped>>
  BY <1>3, ShapeUnchanged
<1>4. CASE SkipPartition \/ OverflowPanics \/ FinishNew
  BY <1>3, <1>4 DEF SkipPartition, OverflowPanics, FinishNew
<1>5. ASSUME NEW s \in QuerySectors, Translate(s) \/ TranslatePanics(s)
      PROVE  UNCHANGED <<volumes, wrapped>>
  BY <1>5 DEF Translate, TranslatePanics
<1>6. CASE UNCHANGED vars
  BY <1>3, <1>6 DEF vars
<1>7. QED
  BY <1>1, <1>2, <1>3, <1>4, <1>5, <1>6 DEF Next

LEMMA Inductive == Spec => []IInv
<1>1. IInv /\ [Next]_vars => IInv'
  BY TypeInductive, ShapeInductive, AnswerInductive, PanicInductive DEF IInv
<1>2. QED BY InitEstablishes, <1>1, PTL DEF Spec

-----------------------------------------------------------------------------
(* Every reachable state of MFSVolumes is well typed: in particular every
   answer of sector_to_disk_location is a number, in debug builds and in
   release builds whose sums wrapped. *)
THEOREM TypeCorrect == Spec => []TypeOK
<1>1. IInv => TypeOK
  BY DEF IInv
<1>2. QED BY Inductive, <1>1, PTL

(* MFSVolumes::new tiles the MFS sectors: whatever the partition map, the
   volumes follow each other without a gap or an overlap. *)
THEOREM TiledAlways == Spec => []Tiled
<1>1. IInv => Tiled
  BY DEF IInv
<1>2. QED BY Inductive, <1>1, PTL

(* sector_to_disk_location sends every sector strictly inside a volume to
   the matching sector of that volume's partition. *)
THEOREM InteriorAlwaysGoesHome == Spec => []InteriorGoesHome
<1>1. IInv => InteriorGoesHome
  <2> SUFFICES ASSUME IInv, answer # NoAnswer, status = "ready", ~wrapped,
                      NEW k \in DOMAIN volumes,
                      Interior(volumes, k, answer.sector)
               PROVE  /\ answer.volume = k
                      /\ answer.location - volumes[k].disk_sector
                           = answer.sector - volumes[k].sector_start
    BY DEF InteriorGoesHome
  <2>1. volumes \in Seq(Volume) /\ answer.sector \in Nat /\ OneAfterAnother(volumes)
    BY DEF IInv, TypeOK
  <2>2. /\ VolumeIndex(volumes, answer.sector) = k
        /\ SectorToDiskLocation(volumes, answer.sector) - volumes[k].disk_sector
             = answer.sector - volumes[k].sector_start
    BY <2>1, InteriorFound DEF Interior
  <2>3. QED BY <2>2 DEF IInv, AnswerCurrent
<1>2. QED BY Inductive, <1>1, PTL

(* The inclusive bound always sends the first sector of a later volume to
   the sector after the end of an earlier partition. *)
THEOREM BoundaryAlwaysMisses == Spec => []BoundaryGoesToPredecessor
<1>1. IInv => BoundaryGoesToPredecessor
  <2> SUFFICES ASSUME IInv, answer # NoAnswer, status = "ready", ~wrapped,
                      NEW k \in (DOMAIN volumes) \ {1},
                      answer.sector = volumes[k].sector_start
               PROVE  /\ answer.volume < k
                      /\ answer.location = volumes[answer.volume].disk_sector
                                             + volumes[answer.volume].sector_count
    BY DEF BoundaryGoesToPredecessor
  <2>1. volumes \in Seq(Volume) /\ OneAfterAnother(volumes) /\ Adjoining(volumes)
    BY DEF IInv, TypeOK, Tiled
  <2>2. /\ answer.volume = VolumeIndex(volumes, answer.sector)
        /\ answer.location = SectorToDiskLocation(volumes, answer.sector)
    BY DEF IInv, AnswerCurrent
  <2>3. QED BY <2>1, <2>2, BoundaryFound
<1>2. QED BY Inductive, <1>1, PTL

(* The volume table panics only on a checked u32 overflow or for a sector
   past the end of the volumes. *)
THEOREM PanicsAlwaysJustified == Spec => []PanicsJustified
<1>1. IInv => PanicsJustified
  BY DEF IInv
<1>2. QED BY Inductive, <1>1, PTL

-----------------------------------------------------------------------------
(***************************************************************************)
(* MFSINodeIter.  Everything rests on one fact the code leaves implicit:   *)
(* next_inode_sector has moved two sectors for every inode that was        *)
(* returned, and for nothing else.                                         *)
(***************************************************************************)
(* The cursor counts the inodes returned. *)
Position == next_inode_sector = SlotSector(Len(yielded))

IterInv ==
  /\ IterTypeOK
  /\ Position
  /\ SlotsInOrder
  /\ \A n \in Nat : table.last_sector + 1 = SlotSector(n) => Len(yielded) <= n

-----------------------------------------------------------------------------
(* A block read from the table's image holds an inode record if it is one. *)
LEMMA BlockType ==
  ASSUME NEW t, IsTable(t), NEW loc, BlockAt(t.image, loc).kind = "inode"
  PROVE  BlockAt(t.image, loc).inode \in Inode
<1>1. CASE loc \in DOMAIN t.image.blocks
  BY <1>1 DEF BlockAt, IsTable
<1>2. CASE loc \notin DOMAIN t.image.blocks
  BY <1>2 DEF BlockAt, JunkBlock, ZeroBlock
<1>3. QED BY <1>1, <1>2

(* In the first volume the iterator, which does not rebase its sectors,
   looks where the sector is. *)
LEMMA LocationInFirstVolume ==
  ASSUME IsTable(table), table.volumes[1].sector_start = 0,
         NEW s \in Nat, Covers(table.volumes[1], s),
         Covers(table.volumes[1], table.first_sector)
  PROVE  Location(table, s) = SectorToDiskLocation(table.volumes, s)
<1> DEFINE vols == table.volumes
<1>1. vols \in Seq(Volume) /\ table.first_sector \in Nat /\ DOMAIN vols # {}
  BY DEF IsTable, Covering
<1>2. 1 \in DOMAIN vols /\ vols[1] \in Volume
  BY <1>1
<1>3. ASSUME NEW r \in Nat, Covers(vols[1], r)
      PROVE  VolumeIndex(vols, r) = 1
  <2>1. 1 \in Covering(vols, r)
    BY <1>2, <1>3 DEF Covering
  <2>2. VolumeIndex(vols, r) \in DOMAIN vols
    BY <1>1, <2>1, VolumeIndexIsFirst
  <2>3. VolumeIndex(vols, r) <= 1
    BY <1>1, <1>2, <1>3, <2>1, VolumeIndexIsFirst
  <2>4. QED BY <1>1, <2>2, <2>3
<1>4. VolumeIndex(vols, s) = 1 /\ VolumeIndex(vols, table.first_sector) = 1
  BY <1>1, <1>3
<1>5. vols[1].disk_sector \in Nat
  BY <1>2 DEF Volume
<1>6. QED
  BY <1>4, <1>5 DEF Location, SectorToDiskLocation, FindSectorVolume

(* A zone of n whole pairs has n slots. *)
LEMMA SlotsOfPairs ==
  ASSUME IsTable(table), NEW n \in 0..table.last_sector,
         table.last_sector + 1 = SlotSector(n)
  PROVE  Slots = 0..(n - 1) /\ Cardinality(Slots) = n
<1>1. table.first_sector \in Nat /\ table.last_sector \in Nat /\ n \in Nat
  BY DEF IsTable
<1>2. Slots = 0..(n - 1)
  BY <1>1 DEF Slots, SlotSector
<1>3. 0 \in Int /\ n - 1 \in Int
  BY <1>1
<1>4. Cardinality(0..(n - 1)) = IF 0 > n - 1 THEN 0 ELSE n - 1 - 0 + 1
  BY <1>3, FS_Interval
<1>5. QED BY <1>1, <1>2, <1>4

-----------------------------------------------------------------------------
LEMMA IterInitInv == IterInit => IterInv
<1> SUFFICES ASSUME IterInit PROVE IterInv
  OBVIOUS
<1>1. IsTable(table) /\ yielded = <<>> /\ next_inode_sector = table.first_sector
  BY TablesAssumption DEF IterInit
<1>2. table.first_sector \in Nat
  BY <1>1 DEF IsTable
<1>3. IterTypeOK
  BY <1>1, <1>2, LongWordAssumption DEF IterInit, IterTypeOK
<1>4. Position
  BY <1>1, <1>2 DEF Position, SlotSector
<1>5. SlotsInOrder
  BY <1>1 DEF SlotsInOrder
<1>6. QED BY <1>1, <1>3, <1>4, <1>5 DEF IterInv

(* Returning an inode: the only step that moves the cursor. *)
LEMMA YieldStep == IterInv /\ YieldInode => IterInv'
<1> SUFFICES ASSUME IterInv, YieldInode PROVE IterInv'
  OBVIOUS
<1> DEFINE n == Len(yielded)
<1>1. /\ IsTable(table) /\ next_inode_sector \in Nat /\ yielded \in Seq(Inode)
      /\ table.first_sector \in Nat /\ n \in Nat
      /\ next_inode_sector = table.first_sector + 2 * n
  BY DEF IterInv, IterTypeOK, Position, IsTable, SlotSector
<1>2. /\ table' = table
      /\ next_inode_sector' = next_inode_sector + 2
      /\ yielded' = Append(yielded, Block.inode)
  BY DEF YieldInode
<1>3. Block.inode \in Inode
  BY <1>1, BlockType DEF YieldInode, Block
<1>4. /\ yielded' \in Seq(Inode) /\ Len(yielded') = n + 1
      /\ \A i \in 1..n : yielded'[i] = yielded[i]
      /\ yielded'[n + 1] = Block.inode
  BY <1>1, <1>2, <1>3
<1>5. IterTypeOK'
  BY <1>1, <1>2, <1>4, SMTT(30) DEF IterInv, IterTypeOK, YieldInode
<1>6. Position'
  BY <1>1, <1>2, <1>4, SMTT(30) DEF Position, SlotSector
<1>7. SlotsInOrder'
  <2>1. SUFFICES ASSUME InFirstVolume', NEW i \in 1..(n + 1)
                 PROVE  /\ CopyAt(SlotSector(i - 1)).kind = "inode"
                        /\ CopyAt(SlotSector(i - 1)).inode = yielded'[i]
    BY <1>2, <1>4 DEF SlotsInOrder, CopyAt, SlotSector
  <2>2. /\ table.volumes[1].sector_start = 0
        /\ \A j \in 0..(n + 1) : Covers(table.volumes[1], SlotSector(j))
    BY <1>2, <1>4, <2>1 DEF InFirstVolume, SlotSector
  <2>3. CASE i \in 1..n
    <3>1. InFirstVolume
      BY <1>1, <2>2 DEF InFirstVolume
    <3>2. QED BY <1>4, <2>3, <3>1 DEF IterInv, SlotsInOrder
  <2>4. CASE i = n + 1
    <3>1. SlotSector(i - 1) = next_inode_sector
      BY <1>1, <2>4 DEF SlotSector
    <3>2. /\ Covers(table.volumes[1], next_inode_sector)
          /\ Covers(table.volumes[1], table.first_sector)
      BY <1>1, <2>2, SMTT(30) DEF SlotSector
    <3>3. Location(table, next_inode_sector)
            = SectorToDiskLocation(table.volumes, SlotSector(i - 1))
      BY <1>1, <2>2, <3>1, <3>2, LocationInFirstVolume
    <3>4. QED BY <1>4, <2>4, <3>3 DEF Block, CopyAt, YieldInode
  <2>5. QED BY <1>1, <2>3, <2>4
<1>8. ASSUME NEW m \in Nat, table.last_sector + 1 = SlotSector(m)
      PROVE  n + 1 <= m
  <2>1. n <= m
    BY <1>8 DEF IterInv
  <2>2. next_inode_sector # table.first_sector + 2 * m
    BY <1>8 DEF YieldInode, More, SlotSector
  <2>3. n # m
    BY <1>1, <2>2
  <2>4. QED BY <1>1, <2>1, <2>3
<1>9. QED
  BY <1>2, <1>4, <1>5, <1>6, <1>7, <1>8 DEF IterInv, SlotSector

(* A call of `len` or one that returns None moves nothing. *)
LEMMA IterOtherStep ==
  IterInv /\ (EndOfTable \/ ReadFails \/ Unparsable \/ CallLen \/ UNCHANGED iter_vars) => IterInv'
<1> SUFFICES ASSUME IterInv,
                    EndOfTable \/ ReadFails \/ Unparsable \/ CallLen \/ UNCHANGED iter_vars
             PROVE  IterInv'
  OBVIOUS
<1>1. UNCHANGED <<table, next_inode_sector, yielded>>
  BY DEF EndOfTable, ReadFails, Unparsable, AnswerNone, CallLen, iter_vars
<1>2. /\ next_inode_sector \in Nat /\ table.last_sector \in Nat /\ IsTable(table)
      /\ LongWord \in Nat \ {0} /\ len \in 0..(LongWord - 1)
  BY LongWordAssumption DEF IterInv, IterTypeOK, IsTable
<1>3. last_call' \in {"new", "some", "none", "len"} /\ iter_status' \in {"ok", "panicked"}
  BY DEF IterInv, IterTypeOK, EndOfTable, ReadFails, Unparsable, AnswerNone, CallLen, iter_vars
<1>4. len' \in 0..(LongWord - 1)
  <2>1. CASE len' = len
    BY <1>2, <2>1
  <2>2. CASE len' = ((table.last_sector - next_inode_sector) \div 2) % LongWord
    <3>1. (table.last_sector - next_inode_sector) \div 2 \in Int
      BY <1>2
    <3>2. QED BY <1>2, <2>2, <3>1
  <2>3. CASE len' = ((table.last_sector - next_inode_sector) % LongWord) \div 2
    <3> DEFINE r == (table.last_sector - next_inode_sector) % LongWord
    <3>1. r \in 0..(LongWord - 1)
      BY <1>2
    <3> HIDE DEF r
    <3>2. r \div 2 \in 0..(LongWord - 1)
      BY <1>2, <3>1
    <3>3. QED BY <2>3, <3>2 DEF r
  <2>4. QED
    BY <2>1, <2>2, <2>3
    DEF EndOfTable, ReadFails, Unparsable, AnswerNone, CallLen, iter_vars
<1>5. IterTypeOK'
  BY <1>1, <1>3, <1>4 DEF IterInv, IterTypeOK
<1>6. SlotsInOrder'
  BY <1>1 DEF IterInv, SlotsInOrder, InFirstVolume, CopyAt, SlotSector
<1>7. QED
  BY <1>1, <1>5, <1>6 DEF IterInv, Position, SlotSector

LEMMA IterInductive == IterSpec => []IterInv
<1>1. IterInv /\ [IterNext]_iter_vars => IterInv'
  BY YieldStep, IterOtherStep DEF IterNext, NextCall
<1>2. QED BY IterInitInv, <1>1, PTL DEF IterSpec

-----------------------------------------------------------------------------
(* Every reachable state of the iterator is well typed: it only returns
   inodes it has parsed, and `len` answers a usize. *)
THEOREM IterTypeCorrect == IterSpec => []IterTypeOK
<1>1. IterInv => IterTypeOK
  BY DEF IterInv
<1>2. QED BY IterInductive, <1>1, PTL

(* The inodes MFSINodeIter returns from a zone of the first volume are the
   slots of the zone in order, whichever calls failed in between. *)
THEOREM AlwaysInOrder == IterSpec => []SlotsInOrder
<1>1. IterInv => SlotsInOrder
  BY DEF IterInv
<1>2. QED BY IterInductive, <1>1, PTL

(* On a zone of whole pairs the inequality that ends the iteration is as
   good as a comparison: the iterator never leaves the zone. *)
THEOREM AlwaysInTable == IterSpec => []StaysInTable
<1>1. IterInv => StaysInTable
  <2>1. SUFFICES ASSUME IterInv, NEW n \in 0..table.last_sector,
                        table.last_sector + 1 = SlotSector(n)
                 PROVE  Len(yielded) <= Cardinality(Slots)
    BY DEF StaysInTable, Paired
  <2>2. IsTable(table) /\ n \in Nat
    BY <2>1 DEF IterInv, IterTypeOK, IsTable
  <2>3. Cardinality(Slots) = n
    BY <2>1, <2>2, SlotsOfPairs
  <2>4. Len(yielded) <= n
    BY <2>1, <2>2 DEF IterInv
  <2>5. QED BY <2>3, <2>4
<1>2. QED BY IterInductive, <1>1, PTL

-----------------------------------------------------------------------------
(* What None says.  The iterator stays where it answered None, so the reason
   it had then still holds: the zone is at its end, or the sector before it
   holds no inode. *)
NoneInv ==
  last_call = "none" /\ ~table.failing => ~More \/ Block.kind # "inode"

LEMMA NoneInductive == IterSpec => []NoneInv
<1>1. IterInit => NoneInv
  BY DEF IterInit, NoneInv
<1>2. NoneInv /\ [IterNext]_iter_vars => NoneInv'
  <2> SUFFICES ASSUME NoneInv, [IterNext]_iter_vars PROVE NoneInv'
    OBVIOUS
  <2>1. CASE EndOfTable
    BY <2>1 DEF EndOfTable, AnswerNone, NoneInv, More
  <2>2. CASE ReadFails
    BY <2>2 DEF ReadFails, AnswerNone, NoneInv
  <2>3. CASE Unparsable
    BY <2>3 DEF Unparsable, AnswerNone, NoneInv, Block, Location
  <2>4. CASE YieldInode
    BY <2>4 DEF YieldInode, NoneInv
  <2>5. CASE CallLen
    BY <2>5 DEF CallLen, NoneInv
  <2>6. CASE UNCHANGED iter_vars
    BY <2>6 DEF iter_vars, NoneInv, More, Block, Location
  <2>7. QED BY <2>1, <2>2, <2>3, <2>4, <2>5, <2>6 DEF IterNext, NextCall
<1>3. QED BY <1>1, <1>2, PTL DEF IterSpec

(* On an intact zone the iterator only answers None, I/O errors aside, once it
   has returned every slot: while one is left, the cursor is at its first
   copy, which is there to be read. *)
THEOREM NoneEndsTheTable == IterSpec => []NoneMeansAll
<1>1. IterInv /\ NoneInv => NoneMeansAll
  <2> SUFFICES ASSUME IterInv, NoneInv, last_call = "none", ~table.failing, Intact
               PROVE  Len(yielded) = Cardinality(Slots)
    BY DEF NoneMeansAll
  <2> DEFINE k == Len(yielded)
  <2>1. PICK n \in 0..table.last_sector : table.last_sector + 1 = SlotSector(n)
    BY DEF Intact, Paired
  <2>2. IsTable(table) /\ k \in Nat /\ n \in Nat /\ table.first_sector \in Nat
    BY DEF IterInv, IterTypeOK, IsTable
  <2>3. Slots = 0..(n - 1) /\ Cardinality(Slots) = n
    BY <2>1, <2>2, SlotsOfPairs
  <2>4. k <= n
    BY <2>1, <2>2 DEF IterInv
  <2>5. ASSUME k # n PROVE FALSE
    <3>1. k \in Slots
      BY <2>2, <2>3, <2>4, <2>5
    <3>2. next_inode_sector = SlotSector(k) /\ SlotSector(k) \in Nat
      BY <2>2 DEF IterInv, Position, SlotSector
    <3>3. More
      BY <2>1, <2>2, <2>5, <3>2 DEF More, SlotSector
    <3>4. /\ Covers(table.volumes[1], SlotSector(k))
          /\ Covers(table.volumes[1], table.first_sector)
          /\ table.volumes[1].sector_start = 0
      BY <2>2 DEF Intact, InFirstVolume, SlotSector
    <3>5. Location(table, SlotSector(k))
            = SectorToDiskLocation(table.volumes, SlotSector(k))
      BY <2>2, <3>2, <3>4, LocationInFirstVolume
    <3>6. Block = CopyAt(SlotSector(k))
      BY <3>2, <3>5 DEF Block, CopyAt
    <3>7. QED BY <3>1, <3>3, <3>6 DEF NoneInv, Intact
  <2>6. QED BY <2>3, <2>5
<1>2. QED BY IterInductive, NoneInductive, <1>1, PTL
=============================================================================
