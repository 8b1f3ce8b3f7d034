-------------------------- MODULE OvitTools_proofs --------------------------
(***************************************************************************)
(* Theorems about the command line tools, for every drive, every command   *)
(* and every hash.                                                         *)
(*                                                                         *)
(* The properties of OvitTools say of one command what those of its parts  *)
(* say of them.  What has to be shown is that each phase hands its state   *)
(* to the next one as that expects it: a list of the zones to the lookup,  *)
(* the first INode zone to the iterator, an inode to the listing.          *)
(***************************************************************************)
EXTENDS OvitTools, SectorMap_proofs, SequenceTheorems

Looked == INSTANCE FsidLookup_proofs WITH
  Drives <- {}, Queries <- {}, queried_fsid <- command.id, drive <- TivoDrive
Walked == INSTANCE ZoneMap_proofs WITH
  Drives <- {}, yielded <- walked, from <- 0, sum <- 0, answer <- found, status <- walk_status

(* The first n zones of the drive; a cursor that has returned them, and is
   at the next link or has a null pointer. *)
FirstZones(n) == [i \in 1..n |-> drive.chain[i].zone]
WalkedTo(n) ==
  /\ n \in 0..Len(drive.chain)
  /\ walked = FirstZones(n)
  /\ IF n < Len(drive.chain)
     THEN /\ next_zonemap_ptr = drive.chain[n + 1].ptr
          /\ backup_next_zonemap_ptr = drive.chain[n + 1].backup
     ELSE next_zonemap_ptr = 0

Before == {"arguments", "load", "zones"}
Phases == Before \cup {"loaded", "find", "rows", "lookup", "entries"} \cup Ended

WalkInv ==
  /\ walk_status = "ok"
  /\ phase = "zones" => caller = "from_iter" /\ \E n \in 0..Len(drive.chain) : WalkedTo(n)
  /\ phase = "find" =>
       /\ caller = "inode_iter"
       /\ \E n \in 0..Len(drive.chain) :
            WalkedTo(n) /\ \A i \in 1..n : drive.chain[i].zone.type # "INode"
  /\ phase \notin Before \cup Ended =>
       /\ \E n \in 0..Len(drive.chain) : zonemap = FirstZones(n)
       /\ ~drive.failing => zonemap = Zones!ListOf(drive)

RowsRight ==
  \A i \in DOMAIN rows : InSlot(i - 1) = [kind |-> "inode", inode |-> rows[i]]

RowsInv ==
  /\ rows \in Seq(Inode)
  /\ Len(rows) <= SlotCount
  /\ RowsRight
  /\ phase \in Before \cup {"loaded", "find"} => rows = <<>>
  /\ phase = "rows" =>
       walked[Len(walked)] = FirstZone /\ next_inode_sector = SlotSector(Len(rows))

NumberInv ==
  (command.name = "inode" /\ Numbered /\ FirstZone.first_sector = FirstInode
     /\ command.id < SlotCount)
  => \A shown \in found_inode : shown.inode = command.id

(* The table of `inodes` may end with so many rows: as asked for, at the end
   of the zone, or in front of a slot that holds no inode. *)
EndsAt(n) == n = command.id \/ n = SlotCount \/ InSlot(n).kind # "inode"

CountInv ==
  (~drive.failing /\ command.numeric
     /\ command.name \in Printers \cup Iterators) =>
    /\ phase \notin {"panicked", "lookup", "entries"}
    /\ phase \notin Before => zonemap = Zones!ListOf(drive)
    /\ command.name = "info" =>
         /\ phase = "rows" => rows = <<>>
         /\ phase = "done" => len + 1 = SlotCount
    /\ command.name = "inodes" =>
         /\ Len(rows) <= command.id
         /\ phase = "done" => EndsAt(Len(rows))

(* The inode that is shown for an fsid, and how the command goes on. *)
ShownFor(shown) ==
  /\ found_inode = {shown}
  /\ shown.fsid = command.id
  /\ phase = "entries" => shown.type = "Dir"
  /\ phase = "panicked" => shown.type = "Dir" /\ shown.listing # "ok"

FsidInv ==
  (~drive.failing /\ command.name = "fsid" /\ command.numeric) =>
    /\ phase \notin {"find", "rows"}
    /\ phase \in Before \cup {"loaded"} => pc = "hash"
    /\ phase \notin Before =>
         \A id \in Looked!Slots(TivoDrive) : Looked!Sought(id) =>
           /\ phase \in {"loaded", "lookup"} => Looked!OnTheWay(id)
           /\ phase \in {"entries"} \cup Ended => \E shown \in found_inode : ShownFor(shown)

(* The inductive invariant. *)
Base ==
  /\ IsDrive(drive)
  /\ command \in Command
  /\ phase \in Phases

IInv ==
  /\ Base
  /\ Sound => WalkInv /\ RowsInv /\ NumberInv /\ CountInv /\ FsidInv

-----------------------------------------------------------------------------
(* The number of inode sectors is a number. *)
LEMMA CountIsNat ==
  ASSUME zonemap \in Seq(Zones!Zone)
  PROVE  InodeCount \in Nat
<1>1. zonemap \in Seq(Walked!Zone)
  BY DEF Walked!Zone, Zones!Zone, Walked!ZoneType, Zones!ZoneType
<1>2. Walked!ZeroZone \in Walked!Zone
  BY DEF Walked!ZeroZone, Walked!Zone, Walked!ZoneType
<1>3. Walked!SizeSum(zonemap) \in Nat
  BY <1>1, <1>2, Walked!SumOfAppend, WordSizeAssumption DEF Walked!DrivesAssumption, Walked!WordSizeAssumption
<1>4. InodeCount = Walked!SizeSum(zonemap) % WordSize
  BY DEF InodeCount, Walked!SizeSum, FoldLeft, Walked!FoldLeft, MapThenFoldSet,
         Walked!MapThenFoldSet, Max, Walked!Max
<1>5. QED BY <1>3, <1>4, WordSizeAssumption

-----------------------------------------------------------------------------
(* The walk and the iterator see the volumes and the image as SectorMap has
   them. *)
LEMMA SameMap ==
  /\ \A vols, s : Zones!Covering(vols, s) = Covering(vols, s)
  /\ \A vols, s : Iter!Covering(vols, s) = Covering(vols, s)
  /\ \A vols, s : Zones!FindSectorVolume(vols, s) = FindSectorVolume(vols, s)
  /\ \A vols, s : Iter!FindSectorVolume(vols, s) = FindSectorVolume(vols, s)
  /\ \A vols, s : Zones!SectorToDiskLocation(vols, s) = SectorToDiskLocation(vols, s)
  /\ \A im, loc : Zones!BlockAt(im, loc) = BlockAt(im, loc)
  /\ \A im, loc : Iter!BlockAt(im, loc) = BlockAt(im, loc)
  /\ Zones!Volume = Volume
<1>1. \A vols, s : /\ Zones!Covering(vols, s) = Covering(vols, s)
                   /\ Iter!Covering(vols, s) = Covering(vols, s)
  BY DEF Zones!Covering, Covering, Iter!Covering, Zones!Covers, Covers, Iter!Covers,
         Zones!EndOf, EndOf, Iter!EndOf
<1>2. \A vols, s : /\ Zones!FindSectorVolume(vols, s) = FindSectorVolume(vols, s)
                   /\ Iter!FindSectorVolume(vols, s) = FindSectorVolume(vols, s)
  BY <1>1 DEF Zones!FindSectorVolume, FindSectorVolume, Iter!FindSectorVolume,
              Zones!VolumeIndex, VolumeIndex, Iter!VolumeIndex
<1>3. \A vols, s : Zones!SectorToDiskLocation(vols, s) = SectorToDiskLocation(vols, s)
  BY <1>2 DEF Zones!SectorToDiskLocation, SectorToDiskLocation
<1>4. \A im, loc : /\ Zones!BlockAt(im, loc) = BlockAt(im, loc)
                   /\ Iter!BlockAt(im, loc) = BlockAt(im, loc)
  BY DEF Zones!BlockAt, BlockAt, Iter!BlockAt, Zones!JunkBlock, JunkBlock, Iter!JunkBlock,
         Zones!ZeroBlock, ZeroBlock, Iter!ZeroBlock
<1>5. QED BY <1>1, <1>2, <1>3, <1>4 DEF Zones!Volume, Volume

LEMMA ChainTyped ==
  ASSUME IsDrive(drive)
  PROVE  /\ drive.chain \in Seq(Zones!Link) /\ Len(drive.chain) \in Nat
         /\ DOMAIN drive.chain = 1..Len(drive.chain)
         /\ \A i \in 1..Len(drive.chain) :
              /\ drive.chain[i].zone \in Zones!Zone
              /\ drive.chain[i].ptr \in Nat /\ drive.chain[i].backup \in Nat
              /\ drive.chain[i].zone.last_sector < LongWord
<1>1. drive.chain \in Seq(Zones!Link)
  BY DEF IsDrive, Zones!IsDrive
<1>2. \A i \in 1..Len(drive.chain) : drive.chain[i] \in Zones!Link
  BY <1>1
<1>3. QED BY <1>1, <1>2, SMTT(30) DEF IsDrive, Zones!Link

(* The n-th zone of a prefix of the list, and the prefix with one zone more. *)
LEMMA PrefixGrows ==
  ASSUME IsDrive(drive), NEW n \in 0..Len(drive.chain)
  PROVE  /\ FirstZones(n) \in Seq(Zones!Zone) /\ Len(FirstZones(n)) = n
         /\ n < Len(drive.chain) =>
              Append(FirstZones(n), drive.chain[n + 1].zone) = FirstZones(n + 1)
<1>1. Len(drive.chain) \in Nat /\ n \in Nat
  BY ChainTyped
<1>2. FirstZones(n) \in [1..n -> Zones!Zone]
  <2>1. \A i \in 1..n : drive.chain[i].zone \in Zones!Zone
    BY <1>1, ChainTyped
  <2>2. QED BY <2>1 DEF FirstZones
<1>3. FirstZones(n) \in Seq(Zones!Zone) /\ Len(FirstZones(n)) = n
  BY <1>1, <1>2
<1>4. ASSUME n < Len(drive.chain)
      PROVE  Append(FirstZones(n), drive.chain[n + 1].zone) = FirstZones(n + 1)
  <2> DEFINE s == FirstZones(n)
             z == drive.chain[n + 1].zone
             t == Append(s, z)
  <2>1. z \in Zones!Zone
    BY <1>1, <1>4, ChainTyped
  <2>2. n + 1 \in 0..Len(drive.chain)
    BY <1>1, <1>4
  <2>3. FirstZones(n + 1) \in Seq(Zones!Zone) /\ Len(FirstZones(n + 1)) = n + 1
    <3>1. \A i \in 1..(n + 1) : drive.chain[i].zone \in Zones!Zone
      BY <1>1, <2>2, ChainTyped
    <3>2. FirstZones(n + 1) \in [1..(n + 1) -> Zones!Zone]
      BY <3>1 DEF FirstZones
    <3>3. QED BY <1>1, <3>2
  <2>4. \A i \in 1..(n + 1) : FirstZones(n + 1)[i] = IF i = n + 1 THEN z ELSE s[i]
    BY <1>1 DEF FirstZones
  <2> HIDE DEF s, z
  <2>5. s \in Seq(Zones!Zone) /\ Len(s) = n
    BY <1>3 DEF s
  <2>6. /\ t \in Seq(Zones!Zone) /\ Len(t) = n + 1
        /\ \A i \in 1..(n + 1) : t[i] = IF i = n + 1 THEN z ELSE s[i]
    BY <1>1, <2>1, <2>5
  <2> HIDE DEF t
  <2>7. QED BY <2>3, <2>4, <2>6, SeqEqual DEF s, t, z
<1>5. QED BY <1>3, <1>4

-----------------------------------------------------------------------------
(* At a link of a drive that can be read, the cursor reads its zone from one
   of the copies. *)
LEMMA LinkRead ==
  ASSUME IsDrive(drive), Zones!Survivable(drive), NEW n, WalkedTo(n), n < Len(drive.chain)
  PROVE  /\ Zones!Mapped /\ next_zonemap_ptr # 0
         /\ \/ Zones!Primary = Zones!Intact(drive.chain[n + 1].zone)
            \/ /\ Zones!Primary = Zones!JunkBlock
               /\ Zones!Backup = Zones!Intact(drive.chain[n + 1].zone)
<1> DEFINE link == drive.chain[n + 1]
<1>1. n + 1 \in DOMAIN drive.chain
  BY ChainTyped DEF WalkedTo
<1>2. next_zonemap_ptr = link.ptr /\ backup_next_zonemap_ptr = link.backup
  BY DEF WalkedTo
<1>3. /\ link.ptr # 0
      /\ Zones!Covering(drive.volumes, link.ptr) # {}
      /\ Zones!Covering(drive.volumes, link.backup) # {}
  BY <1>1 DEF Zones!Survivable, Zones!Represents, Zones!Linked, Zones!AllMapped
<1>4. \/ Zones!CopyOf(drive, link.ptr) = Zones!Intact(link.zone)
      \/ /\ Zones!CopyOf(drive, link.ptr) = Zones!JunkBlock
         /\ Zones!CopyOf(drive, link.backup) = Zones!Intact(link.zone)
  BY <1>1 DEF Zones!Survivable
<1>5. QED
  BY <1>2, <1>3, <1>4 DEF Zones!Mapped, Zones!Primary, Zones!Backup, Zones!CopyOf

(* The zone has been returned: the cursor is at the next link. *)
LEMMA ZoneDelivered ==
  ASSUME IsDrive(drive), Zones!Survivable(drive), NEW n, WalkedTo(n), n < Len(drive.chain),
         Zones!Deliver(drive.chain[n + 1].zone)
  PROVE  n + 1 \in 0..Len(drive.chain) /\ WalkedTo(n + 1)'
<1> DEFINE link == drive.chain[n + 1]
<1>1. n + 1 \in DOMAIN drive.chain /\ Len(drive.chain) \in Nat /\ n \in Nat
      /\ n \in 0..Len(drive.chain)
  BY ChainTyped DEF WalkedTo
<1>2. /\ UNCHANGED drive /\ walked' = Append(walked, link.zone)
      /\ next_zonemap_ptr' = link.zone.next_zonemap_ptr
      /\ backup_next_zonemap_ptr' = link.zone.backup_next_zonemap_ptr
  BY DEF Zones!Deliver, Zones!Advance
<1>3. /\ n + 1 = Len(drive.chain) => link.zone.next_zonemap_ptr = 0
      /\ n + 1 < Len(drive.chain) =>
           /\ link.zone.next_zonemap_ptr = drive.chain[n + 2].ptr
           /\ link.zone.backup_next_zonemap_ptr = drive.chain[n + 2].backup
  BY <1>1 DEF Zones!Survivable, Zones!Represents, Zones!Linked
<1>4. walked' = FirstZones(n + 1)
  BY <1>1, <1>2, PrefixGrows DEF WalkedTo
<1>5. n + 1 \in 0..Len(drive.chain) /\ (n + 1) + 1 = n + 2
  BY <1>1
<1>6. FirstZones(n + 1)' = FirstZones(n + 1)
  BY <1>2 DEF FirstZones
<1>7. QED BY <1>1, <1>2, <1>3, <1>4, <1>5, <1>6 DEF WalkedTo

(* What one call of `next` does to a walk that has returned n zones: it
   returns the next one, where inode_iter stops at an INode zone, or its
   consumer has its answer. *)
NextZone(n) ==
  /\ n < Len(drive.chain)
  /\ WalkedTo(n + 1)'
  /\ \/ /\ caller = "from_iter" \/ drive.chain[n + 1].zone.type # "INode"
        /\ UNCHANGED <<caller, found>>
     \/ /\ caller = "inode_iter" /\ drive.chain[n + 1].zone.type = "INode"
        /\ caller' = "none" /\ found'.ok
WalkEnds(n) ==
  /\ n = Len(drive.chain) \/ drive.failing
  /\ walked' = walked
  /\ caller' = "none" /\ found'.ok = (caller # "inode_iter")

LEMMA ReturnEnds ==
  ASSUME Zones!Return
  PROVE  /\ UNCHANGED <<drive, walked, walk_status>>
         /\ caller' = "none" /\ found'.ok = (caller # "inode_iter")
<1>1. found' = [op    |-> caller,
                ok    |-> caller # "inode_iter",
                first |-> 0 + 1,
                last  |-> Len(walked),
                value |-> IF caller = "inode_count" THEN 0 \div 2 ELSE 0]
  BY DEF Zones!Return
<1>2. found'.ok = (caller # "inode_iter")
  BY <1>1, Zenon
<1>3. QED BY <1>2 DEF Zones!Return

LEMMA WalkStep ==
  ASSUME IsDrive(drive), Zones!Survivable(drive), NEW n, WalkedTo(n),
         walk_status = "ok", caller \in {"from_iter", "inode_iter"}, Zones!Step
  PROVE  UNCHANGED drive /\ walk_status' = "ok" /\ (NextZone(n) \/ WalkEnds(n))
<1> DEFINE zone == drive.chain[n + 1].zone
<1>1. n \in 0..Len(drive.chain) /\ Len(drive.chain) \in Nat
  BY ChainTyped DEF WalkedTo
<1>2. CASE Zones!EndOfList
  <2>1. n = Len(drive.chain)
    BY <1>1, <1>2, LinkRead DEF Zones!EndOfList
  <2>2. Zones!Return
    BY <1>2 DEF Zones!EndOfList
  <2>3. QED BY <2>1, <2>2, ReturnEnds DEF WalkEnds
<1>3. CASE ~Zones!EndOfList
  <2>1. Zones!Reading
    BY <1>3 DEF Zones!Step, Zones!PointerPanics, Zones!Fault, Zones!ReadPrimary,
                Zones!ReadBackup, Zones!BothUnparsable
  <2>2. n < Len(drive.chain)
    BY <1>1, <2>1 DEF WalkedTo, Zones!Reading
  <2>3. /\ Zones!Mapped
        /\ \/ Zones!Primary = Zones!Intact(zone)
           \/ /\ Zones!Primary = Zones!JunkBlock
              /\ Zones!Backup = Zones!Intact(zone)
    BY <2>2, LinkRead
  <2>4. /\ Zones!Parses(Zones!Intact(zone)) /\ ~Zones!Parses(Zones!JunkBlock)
        /\ Zones!ParseZone(Zones!Intact(zone)) = zone
    BY DEF Zones!Parses, Zones!Intact, Zones!JunkBlock, Zones!ParseZone
  <2>5. ~Zones!PointerPanics /\ ~Zones!BothUnparsable
    BY <2>3, <2>4 DEF Zones!PointerPanics, Zones!BothUnparsable
  <2>6. CASE Zones!Fault
    <3>1. Zones!Return /\ drive.failing
      BY <2>6 DEF Zones!Fault
    <3>2. QED BY <3>1, ReturnEnds DEF WalkEnds
  <2>7. CASE Zones!ReadPrimary \/ Zones!ReadBackup
    <3>1. Zones!Deliver(zone)
      BY <2>3, <2>4, <2>7 DEF Zones!ReadPrimary, Zones!ReadBackup
    <3>2. WalkedTo(n + 1)'
      BY <2>2, <3>1, ZoneDelivered
    <3>3. Zones!Consume(zone) /\ UNCHANGED drive
      BY <3>1 DEF Zones!Deliver
    <3>4. n + 1 \in DOMAIN drive.chain
      BY <1>1, <2>2, ChainTyped
    <3>5. Zones!Covering(drive.volumes, zone.first_sector) # {}
      BY <3>4 DEF Zones!Survivable, Zones!AllMapped
    <3>6. caller # "inode_count"
      OBVIOUS
    <3> HIDE DEF zone
    <3>7. /\ walk_status' = walk_status
          /\ \/ /\ caller = "from_iter" \/ zone.type # "INode"
                /\ UNCHANGED <<caller, found>>
             \/ /\ caller = "inode_iter" /\ zone.type = "INode"
                /\ caller' = "none" /\ found'.ok
      BY <3>3, <3>5, <3>6 DEF Zones!Consume
    <3>8. QED BY <2>2, <3>2, <3>3, <3>7 DEF NextZone, zone
  <2>8. QED BY <1>3, <2>5, <2>6, <2>7 DEF Zones!Step
<1>4. QED BY <1>2, <1>3

-----------------------------------------------------------------------------
(* The first INode zone of the list. *)
FirstLink == CHOOSE i \in INodeLinks : \A j \in INodeLinks : i <= j

LEMMA FirstLinkIs ==
  ASSUME IsDrive(drive), INodeLinks # {}
  PROVE  /\ FirstLink \in 1..Len(drive.chain)
         /\ drive.chain[FirstLink].zone.type = "INode"
         /\ \A j \in 1..Len(drive.chain) :
              drive.chain[j].zone.type = "INode" => FirstLink <= j
         /\ FirstZone = drive.chain[FirstLink].zone
         /\ FirstZone.first_sector \in Nat /\ FirstZone.last_sector \in Nat
         /\ FirstZone.last_sector < LongWord
<1>1. INodeLinks = {i \in 1..Len(drive.chain) : drive.chain[i].zone.type = "INode"}
  BY ChainTyped DEF INodeLinks
<1>2. INodeLinks \in SUBSET Nat
  BY <1>1
<1>3. FirstLink \in INodeLinks /\ \A j \in INodeLinks : FirstLink <= j
  <2>1. \E i \in INodeLinks : \A j \in INodeLinks : i <= j
    BY <1>2, LeastNat
  <2>2. QED BY <2>1 DEF FirstLink
<1>4. FirstZone = drive.chain[FirstLink].zone
  BY DEF FirstZone, FirstLink
<1>5. FirstLink \in 1..Len(drive.chain)
  BY <1>1, <1>3
<1>6. FirstZone \in Zones!Zone /\ FirstZone.last_sector < LongWord
  BY <1>4, <1>5, ChainTyped
<1>7. FirstZone.first_sector \in Nat /\ FirstZone.last_sector \in Nat
  BY <1>6 DEF Zones!Zone
<1>8. QED BY <1>1, <1>3, <1>4, <1>5, <1>6, <1>7

(* A walk that comes to an INode zone for the first time is at that zone. *)
LEMMA FirstFound ==
  ASSUME IsDrive(drive), NEW n \in 0..Len(drive.chain), n < Len(drive.chain),
         \A i \in 1..n : drive.chain[i].zone.type # "INode",
         drive.chain[n + 1].zone.type = "INode"
  PROVE  FirstZone = drive.chain[n + 1].zone
<1>1. Len(drive.chain) \in Nat /\ n + 1 \in 1..Len(drive.chain)
  BY ChainTyped
<1>2. INodeLinks # {}
  BY <1>1, ChainTyped DEF INodeLinks
<1>3. FirstLink <= n + 1 /\ FirstLink \in 1..Len(drive.chain) /\ FirstLink \notin 1..n
  BY <1>1, <1>2, FirstLinkIs
<1>4. FirstLink = n + 1
  BY <1>1, <1>3
<1>5. QED BY <1>2, <1>4, FirstLinkIs

-----------------------------------------------------------------------------
(* What is asked of a sound drive, in numbers: its first zone has SlotCount
   pairs of sectors, and lies in the first volume. *)
LEMMA SoundTable ==
  ASSUME IsDrive(drive), Sound
  PROVE  /\ Zones!Survivable(drive) /\ INodeLinks # {}
         /\ drive.volumes \in Seq(Volume) /\ drive.volumes # <<>>
         /\ drive.volumes[1] \in Volume /\ drive.volumes[1].sector_start = 0
         /\ FirstZone.last_sector <= drive.volumes[1].sector_count
         /\ SlotCount \in Nat /\ SlotCount > 0
         /\ FirstZone.first_sector \in Nat
         /\ FirstZone.last_sector + 1 = FirstZone.first_sector + 2 * SlotCount
<1>1. Zones!Survivable(drive) /\ INodeLinks # {} /\ drive.volumes[1].sector_start = 0
  BY DEF Sound
<1>2. drive.volumes \in Seq(Volume)
  BY SameMap DEF IsDrive, Zones!IsDrive
<1>3. PICK i \in DOMAIN drive.chain : TRUE
  BY <1>1 DEF INodeLinks
<1>4. Covering(drive.volumes, drive.chain[i].ptr) # {}
  BY <1>1, SameMap DEF Zones!Survivable, Zones!AllMapped
<1>5. drive.volumes # <<>>
  BY <1>2, <1>4 DEF Covering
<1>6. drive.volumes[1] \in Volume
  BY <1>2, <1>5
<1>7. FirstZone.first_sector \in Nat /\ FirstZone.last_sector \in Nat
  BY <1>1, FirstLinkIs
<1>8. FirstZone.last_sector <= drive.volumes[1].sector_count
  BY <1>1, <1>6, <1>7 DEF Sound, Covers, EndOf, Volume
<1>9. SlotCount \in Nat /\ SlotCount > 0
  BY <1>7 DEF Sound, SlotCount
<1>10. FirstZone.last_sector + 1 = FirstZone.first_sector + 2 * SlotCount
  BY DEF Sound, SlotSector
<1>11. QED BY <1>1, <1>2, <1>5, <1>6, <1>7, <1>8, <1>9, <1>10

(* The sectors of the first zone are in the first volume, where a sector
   that is not rebased is found in the same place. *)
LEMMA SlotPlace ==
  ASSUME IsDrive(drive), Sound, NEW i \in 0..(SlotCount - 1)
  PROVE  /\ SlotSector(i) \in Nat /\ SlotSector(i) < LongWord
         /\ Covering(drive.volumes, SlotSector(i)) # {}
         /\ FindSectorVolume(drive.volumes, SlotSector(i)) = drive.volumes[1]
         /\ InSlot(i) = BlockAt(drive.image, drive.volumes[1].disk_sector + SlotSector(i))
<1> DEFINE s == SlotSector(i)
           vols == drive.volumes
<1>1. /\ vols \in Seq(Volume) /\ vols # <<>> /\ vols[1] \in Volume
      /\ vols[1].sector_start = 0 /\ FirstZone.last_sector <= vols[1].sector_count
      /\ SlotCount \in Nat /\ FirstZone.first_sector \in Nat
      /\ FirstZone.last_sector + 1 = FirstZone.first_sector + 2 * SlotCount
  BY SoundTable
<1>2. FirstZone.last_sector \in Nat /\ FirstZone.last_sector < LongWord
  BY FirstLinkIs DEF Sound
<1>3. s \in Nat /\ s < FirstZone.last_sector
  BY <1>1, <1>2 DEF SlotSector
<1>4. s < LongWord
  BY <1>2, <1>3, WordSizeAssumption
<1>5. 1 \in DOMAIN vols
  BY <1>1
<1>6. vols[1].sector_count \in Nat /\ vols[1].disk_sector \in Nat
  BY <1>1 DEF Volume
<1> HIDE DEF s, vols
<1>7. Covers(vols[1], s)
  BY <1>1, <1>2, <1>3, <1>6 DEF Covers, EndOf
<1>8. 1 \in Covering(vols, s)
  BY <1>5, <1>7 DEF Covering
<1>9. VolumeIndex(vols, s) = 1
  <2>1. VolumeIndex(vols, s) \in DOMAIN vols /\ VolumeIndex(vols, s) <= 1
    BY <1>1, <1>5, <1>7, <1>8, VolumeIndexIsFirst
  <2>2. QED BY <1>1, <2>1
<1>10. FindSectorVolume(vols, s) = vols[1]
  BY <1>9 DEF FindSectorVolume
<1>11. SectorToDiskLocation(vols, s) = vols[1].disk_sector + s
  BY <1>1, <1>3, <1>6, <1>10 DEF SectorToDiskLocation
<1>12. InSlot(i) = BlockAt(drive.image, vols[1].disk_sector + s)
  BY <1>11, SameMap DEF InSlot, Zones!CopyOf, s, vols
<1>13. QED BY <1>3, <1>4, <1>8, <1>10, <1>12 DEF s, vols

(* A block that holds an inode is that inode and nothing else. *)
LEMMA BlockIsInode ==
  ASSUME IsDrive(drive), NEW loc, BlockAt(drive.image, loc).kind = "inode"
  PROVE  /\ BlockAt(drive.image, loc).inode \in Inode
         /\ BlockAt(drive.image, loc)
              = [kind |-> "inode", inode |-> BlockAt(drive.image, loc).inode]
<1>1. BlockAt(drive.image, loc) \notin {JunkBlock, ZeroBlock}
  BY DEF JunkBlock, ZeroBlock
<1>2. loc \in DOMAIN drive.image.blocks /\ BlockAt(drive.image, loc) = drive.image.blocks[loc]
  BY <1>1 DEF BlockAt
<1>3. BlockAt(drive.image, loc) \in [kind : {"inode"}, inode : Inode]
  BY <1>2 DEF IsDrive
<1>4. QED BY <1>3

(* One call of the iterator on the first zone: it returns the inode of the
   next slot, or None. *)
LEMMA RowStep ==
  ASSUME IsDrive(drive), Sound, rows \in Seq(Inode), Len(rows) <= SlotCount,
         walked[Len(walked)] = FirstZone, next_inode_sector = SlotSector(Len(rows)),
         Iter!NextCall
  PROVE  \/ /\ last_call' = "none" /\ UNCHANGED <<rows, next_inode_sector>>
            /\ Len(rows) < SlotCount =>
                 drive.failing \/ InSlot(Len(rows)).kind # "inode"
         \/ /\ last_call' = "some" /\ Len(rows) < SlotCount
            /\ InSlot(Len(rows)).inode \in Inode
            /\ InSlot(Len(rows)) = [kind |-> "inode", inode |-> InSlot(Len(rows)).inode]
            /\ rows' = Append(rows, InSlot(Len(rows)).inode)
            /\ next_inode_sector' = SlotSector(Len(rows)) + 2
<1> DEFINE n == Len(rows)
<1>1. /\ Table.volumes = drive.volumes /\ Table.image = drive.image
      /\ Table.failing = drive.failing
      /\ Table.first_sector = FirstZone.first_sector
      /\ Table.last_sector = FirstZone.last_sector
  BY DEF Table
<1>2. /\ n \in Nat /\ SlotCount \in Nat /\ SlotCount > 0 /\ FirstZone.first_sector \in Nat
      /\ FirstZone.last_sector + 1 = FirstZone.first_sector + 2 * SlotCount
  BY SoundTable
<1>3. Iter!More <=> n < SlotCount
  BY <1>1, <1>2 DEF Iter!More, SlotSector
<1>4. ASSUME n < SlotCount PROVE Iter!Block = InSlot(n)
  <2>1. n \in 0..(SlotCount - 1) /\ 0 \in 0..(SlotCount - 1)
    BY <1>2, <1>4
  <2>2. InSlot(n) = BlockAt(drive.image, drive.volumes[1].disk_sector + SlotSector(n))
    BY <2>1, SlotPlace
  <2>3. SlotSector(0) = FirstZone.first_sector
    BY <1>2 DEF SlotSector
  <2>4. FindSectorVolume(drive.volumes, FirstZone.first_sector) = drive.volumes[1]
    BY <2>1, <2>3, SlotPlace
  <2>5. QED BY <1>1, <2>2, <2>4, SameMap DEF Iter!Block, Iter!Location
<1>5. ASSUME n < SlotCount, InSlot(n).kind = "inode"
      PROVE  /\ InSlot(n).inode \in Inode
             /\ InSlot(n) = [kind |-> "inode", inode |-> InSlot(n).inode]
  <2>1. n \in 0..(SlotCount - 1)
    BY <1>2, <1>5
  <2>2. QED BY <1>5, <2>1, SlotPlace, BlockIsInode
<1>6. CASE Iter!EndOfTable
  BY <1>3, <1>6 DEF Iter!EndOfTable, Iter!AnswerNone
<1>7. CASE Iter!ReadFails
  BY <1>1, <1>7 DEF Iter!ReadFails, Iter!AnswerNone
<1>8. CASE Iter!Unparsable
  BY <1>3, <1>4, <1>8 DEF Iter!Unparsable, Iter!AnswerNone
<1>9. CASE Iter!YieldInode
  <2>1. /\ n < SlotCount /\ InSlot(n).kind = "inode"
        /\ next_inode_sector' = next_inode_sector + 2
        /\ rows' = Append(rows, InSlot(n).inode) /\ last_call' = "some"
    BY <1>3, <1>4, <1>9 DEF Iter!YieldInode
  <2>2. QED BY <1>5, <2>1
<1>10. QED BY <1>6, <1>7, <1>8, <1>9 DEF Iter!NextCall

(* The length of the iterator before its first call, one less than the
   number of its inodes. *)
LEMMA LenStep ==
  ASSUME IsDrive(drive), Sound, walked[Len(walked)] = FirstZone,
         next_inode_sector = SlotSector(0), Iter!CallLen
  PROVE  iter_status' = "ok" /\ len' + 1 = SlotCount
<1> DEFINE first == FirstZone.first_sector
           last == FirstZone.last_sector
           count == SlotCount
<1>1. Table.last_sector = last
  BY DEF Table
<1>2. /\ count \in Nat /\ count > 0 /\ first \in Nat
      /\ last + 1 = first + 2 * count
  BY SoundTable
<1>3. last \in Nat /\ last < LongWord /\ LongWord \in Nat
  BY FirstLinkIs, WordSizeAssumption DEF Sound
<1>4. next_inode_sector = first
  BY <1>2 DEF SlotSector
<1> HIDE DEF first, last, count
<1>5. /\ first <= last /\ (last - first) \div 2 = count - 1
      /\ count - 1 \in 0..(LongWord - 1)
  BY <1>2, <1>3
<1>6. (count - 1) % LongWord = count - 1
  BY <1>3, <1>5, SMTT(30)
<1>7. iter_status' = "ok" /\ len' = count - 1
  <2>1. ~(next_inode_sector > Table.last_sector)
    BY <1>1, <1>2, <1>3, <1>4, <1>5
  <2>2. (Table.last_sector - next_inode_sector) \div 2 = count - 1
    BY <1>1, <1>4, <1>5
  <2>3. len' = ((Table.last_sector - next_inode_sector) \div 2) % LongWord
        /\ iter_status' = iter_status /\ iter_status = "ok"
    BY <2>1, Zenon DEF Iter!CallLen
  <2>4. QED BY <1>6, <2>2, <2>3
<1>8. QED BY <1>2, <1>7 DEF count

-----------------------------------------------------------------------------
(* The drive and the command never change, and with the drive what is asked
   of it. *)
LEMMA NothingElseMoves ==
  ASSUME Step
  PROVE  UNCHANGED <<drive, command>>
BY DEF Step, Goes, ParseArguments, LoadFails, Load, LoadZones, PrintLoaded, StartIterator,
       FindTable, PrintCount, PrintRow, RowsTaken, LookUpFsid, ReadInode, ReadPanics,
       ListEntries, ListingFails, Show

LEMMA SameTable ==
  ASSUME UNCHANGED drive
  PROVE  /\ Sound' <=> Sound
         /\ FirstZone' = FirstZone /\ SlotCount' = SlotCount
         /\ \A i : SlotSector(i)' = SlotSector(i) /\ InSlot(i)' = InSlot(i)
         /\ Numbered' <=> Numbered
         /\ Zones!ListOf(drive)' = Zones!ListOf(drive)
         /\ Len(drive.chain)' = Len(drive.chain)
         /\ \A n : FirstZones(n)' = FirstZones(n)
<1>1. FirstZone' = FirstZone /\ INodeLinks' = INodeLinks
  BY DEF FirstZone, INodeLinks
<1>2. SlotCount' = SlotCount /\ \A i : SlotSector(i)' = SlotSector(i)
  BY <1>1 DEF SlotCount, SlotSector
<1>3. \A i : InSlot(i)' = InSlot(i)
  BY <1>2 DEF InSlot
<1>4. Sound' <=> Sound
  BY <1>1, <1>2 DEF Sound
<1>5. Numbered' <=> Numbered
  BY <1>2, <1>3 DEF Numbered
<1>6. QED BY <1>1, <1>2, <1>3, <1>4, <1>5 DEF FirstZones

(* A walk starts at the first link. *)
LEMMA WalkStarts ==
  ASSUME IsDrive(drive), NEW op, StartWalk(op), UNCHANGED drive
  PROVE  WalkedTo(0)' /\ caller' = op /\ walk_status' = walk_status
<1>1. 0 \in 0..Len(drive.chain) /\ Len(drive.chain) \in Nat
  BY ChainTyped
<1>2. FirstZones(0) = <<>>
  BY <1>1, PrefixGrows
<1>3. drive.chain = <<>> <=> Len(drive.chain) = 0
  BY ChainTyped
<1>4. QED BY <1>1, <1>2, <1>3, SameTable DEF StartWalk, WalkedTo

(* Only these steps move the walk, the zones or the rows. *)
Others ==
  \/ ParseArguments \/ LoadFails \/ PrintLoaded \/ PrintCount \/ RowsTaken
  \/ LookUpFsid \/ ReadInode \/ ReadPanics \/ ListEntries \/ ListingFails

LEMMA OthersFrame ==
  ASSUME Others
  PROVE  /\ UNCHANGED <<walk, zonemap, rows, next_inode_sector>>
         /\ phase' \notin {"zones", "find", "rows", "loaded"}
         /\ phase' \in Before => phase \in Before
         /\ phase' \notin Before \cup Ended => phase \notin Before \cup Ended
         /\ phase' \in Phases
BY DEF Others, Goes, ParseArguments, LoadFails, PrintLoaded, PrintCount, RowsTaken,
       LookUpFsid, ReadInode, ReadPanics, ListEntries, ListingFails, Show, Iter!CallLen,
       iterator, Before, Ended, Phases

LEMMA StepIsOne ==
  ASSUME Step
  PROVE  Others \/ Load \/ LoadZones \/ StartIterator \/ FindTable \/ PrintRow
BY DEF Step, Others

-----------------------------------------------------------------------------
LEMMA BaseKept == Base /\ [Step]_vars => Base'
<1> SUFFICES ASSUME Base, [Step]_vars PROVE Base'
  OBVIOUS
<1>1. CASE UNCHANGED vars
  BY <1>1 DEF vars, Base
<1>2. CASE Step
  <2>1. UNCHANGED <<drive, command>>
    BY <1>2, NothingElseMoves
  <2>2. phase' \in Phases
    <3>1. CASE Others
      BY <3>1, OthersFrame
    <3>2. CASE Load \/ LoadZones \/ StartIterator \/ FindTable
      BY <3>2 DEF Load, LoadZones, StartIterator, FindTable, Goes, Phases, Before, Ended
    <3>3. CASE PrintRow
      BY <3>3 DEF PrintRow, Phases, Before, Ended
    <3>4. QED BY <1>2, <3>1, <3>2, <3>3, StepIsOne
  <2>3. QED BY <2>1, <2>2 DEF Base
<1>3. QED BY <1>1, <1>2

(* from_iter collects the list up to the first failure. *)
LEMMA ZonesLoaded ==
  ASSUME Base, Sound, WalkInv, LoadZones
  PROVE  /\ WalkInv'
         /\ phase' \in {"zones", "loaded"}
         /\ phase' = "loaded" /\ ~drive.failing => zonemap' = Zones!ListOf(drive)
<1>1. IsDrive(drive) /\ Zones!Survivable(drive) /\ phase = "zones"
  BY DEF Base, Sound, LoadZones
<1>2. PICK n \in 0..Len(drive.chain) : WalkedTo(n)
  BY <1>1 DEF WalkInv
<1>3. walk_status = "ok" /\ caller = "from_iter" /\ Zones!Step
  BY <1>1 DEF WalkInv, LoadZones
<1>4. /\ UNCHANGED drive /\ walk_status' = "ok"
      /\ NextZone(n) \/ WalkEnds(n)
  BY <1>1, <1>2, <1>3, WalkStep
<1>5. Len(drive.chain) \in Nat /\ DOMAIN drive.chain = 1..Len(drive.chain)
  BY <1>1, ChainTyped
<1>6. CASE NextZone(n)
  <2>1. caller' = "from_iter" /\ WalkedTo(n + 1)' /\ n < Len(drive.chain)
    BY <1>3, <1>6 DEF NextZone
  <2>2. phase' = "zones"
    BY <1>4, <2>1 DEF LoadZones, Goes
  <2>3. n + 1 \in 0..Len(drive.chain)'
    BY <1>4, <1>5, <2>1
  <2>4. QED BY <1>4, <2>1, <2>2, <2>3 DEF WalkInv, Before, Ended
<1>7. CASE WalkEnds(n)
  <2>1. caller' = "none" /\ (n = Len(drive.chain) \/ drive.failing)
    BY <1>7 DEF WalkEnds
  <2>2. phase' = "loaded" /\ zonemap' = FirstZones(n)
    BY <1>2, <1>4, <2>1 DEF LoadZones, Goes, WalkedTo
  <2>3. ~drive.failing => zonemap' = Zones!ListOf(drive)
    BY <1>5, <2>1, <2>2 DEF FirstZones, Zones!ListOf
  <2>4. \E m \in 0..Len(drive.chain)' : zonemap' = FirstZones(m)'
    BY <1>4, <2>2, SameTable
  <2>5. (~drive.failing)' => zonemap' = Zones!ListOf(drive)'
    BY <1>4, <2>3, SameTable
  <2>6. QED BY <1>4, <2>2, <2>3, <2>4, <2>5 DEF WalkInv, Before, Ended
<1>8. QED BY <1>4, <1>6, <1>7

(* inode_iter goes on to the first INode zone. *)
LEMMA TableFound ==
  ASSUME Base, Sound, WalkInv, FindTable
  PROVE  /\ WalkInv'
         /\ \/ phase' = "find"
            \/ /\ phase' = "rows" /\ walked'[Len(walked')] = FirstZone
               /\ next_inode_sector' = FirstZone.first_sector
            \/ phase' = "panicked" /\ drive.failing
<1>1. IsDrive(drive) /\ Zones!Survivable(drive) /\ INodeLinks # {} /\ phase = "find"
  BY DEF Base, Sound, FindTable
<1>2. PICK n \in 0..Len(drive.chain) :
        WalkedTo(n) /\ \A i \in 1..n : drive.chain[i].zone.type # "INode"
  BY <1>1 DEF WalkInv
<1>3. walk_status = "ok" /\ caller = "inode_iter" /\ Zones!Step
  BY <1>1 DEF WalkInv, FindTable
<1>4. /\ UNCHANGED drive /\ walk_status' = "ok"
      /\ NextZone(n) \/ WalkEnds(n)
  BY <1>1, <1>2, <1>3, WalkStep
<1>5. Len(drive.chain) \in Nat /\ DOMAIN drive.chain = 1..Len(drive.chain)
  BY <1>1, ChainTyped
<1>6. UNCHANGED zonemap /\ phase \notin Before \cup Ended
  BY <1>1 DEF FindTable, Before, Ended
<1>7. /\ \E m \in 0..Len(drive.chain)' : zonemap' = FirstZones(m)'
      /\ (~drive.failing)' => zonemap' = Zones!ListOf(drive)'
  BY <1>4, <1>6, SameTable DEF WalkInv
<1> DEFINE zone == drive.chain[n + 1].zone
<1>8. CASE NextZone(n) /\ zone.type # "INode"
  <2>1. caller' = "inode_iter" /\ WalkedTo(n + 1)' /\ n < Len(drive.chain)
    BY <1>3, <1>8 DEF NextZone
  <2>2. phase' = "find"
    BY <1>4, <2>1 DEF FindTable, Goes
  <2>3. n + 1 \in 0..Len(drive.chain)'
    BY <1>4, <1>5, <2>1
  <2>4. \A i \in 1..(n + 1) : drive.chain[i].zone.type # "INode"
    BY <1>2, <1>5, <1>8
  <2>5. \A i \in 1..(n + 1) : drive'.chain[i].zone.type # "INode"
    BY <1>4, <2>4
  <2>6. QED BY <1>4, <1>7, <2>1, <2>2, <2>3, <2>5 DEF WalkInv, Before, Ended
<1>9. CASE NextZone(n) /\ zone.type = "INode"
  <2>1. caller' = "none" /\ found'.ok /\ WalkedTo(n + 1)' /\ n < Len(drive.chain)
    BY <1>3, <1>9 DEF NextZone
  <2>2. /\ phase' = "rows"
        /\ next_inode_sector' = walked'[Len(walked')].first_sector
    BY <1>4, <2>1 DEF FindTable, Goes
  <2>3. walked' = FirstZones(n + 1)
    BY <1>4, <2>1, SameTable DEF WalkedTo
  <2>4. n + 1 \in 0..Len(drive.chain) /\ n + 1 \in 1..(n + 1)
    BY <1>5, <2>1
  <2>5. Len(walked') = n + 1
    BY <1>1, <2>3, <2>4, PrefixGrows
  <2>6. walked'[Len(walked')] = zone
    BY <2>3, <2>4, <2>5 DEF FirstZones
  <2>7. FirstZone = zone
    BY <1>1, <1>2, <1>9, <2>1, FirstFound
  <2>8. QED BY <1>4, <1>7, <2>2, <2>6, <2>7 DEF WalkInv, Before, Ended
<1>10. CASE WalkEnds(n)
  <2>1. caller' = "none" /\ ~found'.ok /\ (n = Len(drive.chain) \/ drive.failing)
    BY <1>3, <1>10 DEF WalkEnds
  <2>2. phase' = "panicked"
    BY <1>4, <2>1 DEF FindTable, Goes
  <2>3. n # Len(drive.chain)
    BY <1>2, <1>5, <1>1 DEF INodeLinks
  <2>4. QED BY <1>4, <2>1, <2>2, <2>3 DEF WalkInv, Before, Ended
<1>11. QED BY <1>4, <1>8, <1>9, <1>10

LEMMA WalkKept == Base /\ Sound /\ WalkInv /\ [Step]_vars => WalkInv'
<1> SUFFICES ASSUME Base, Sound, WalkInv, [Step]_vars PROVE WalkInv'
  OBVIOUS
<1>1. CASE UNCHANGED vars
  <2>1. UNCHANGED <<drive, phase, walked, next_zonemap_ptr, backup_next_zonemap_ptr,
                    caller, walk_status, zonemap>>
    BY <1>1 DEF vars, walk, cursor
  <2>2. \A n : WalkedTo(n)' <=> WalkedTo(n)
    BY <2>1, SameTable DEF WalkedTo
  <2>3. QED BY <2>1, <2>2, SameTable DEF WalkInv
<1>2. CASE Step
  <2>1. UNCHANGED drive /\ IsDrive(drive)
    BY <1>2, NothingElseMoves DEF Base
  <2>2. CASE Others
    <3>1. /\ UNCHANGED <<zonemap, walk_status>> /\ phase' \notin {"zones", "find"}
          /\ phase' \notin Before \cup Ended => phase \notin Before \cup Ended
      BY <2>2, OthersFrame DEF walk
    <3>2. QED BY <2>1, <3>1, SameTable DEF WalkInv
  <2>3. CASE Load
    <3>1. WalkedTo(0)' /\ caller' = "from_iter" /\ walk_status' = "ok" /\ phase' = "zones"
      BY <2>1, <2>3, WalkStarts DEF Load, Goes, WalkInv
    <3>2. 0 \in 0..Len(drive.chain)'
      BY <2>1, ChainTyped
    <3>3. QED BY <3>1, <3>2 DEF WalkInv, Before, Ended
  <2>4. CASE LoadZones
    BY <2>4, ZonesLoaded
  <2>5. CASE StartIterator
    <3>1. /\ WalkedTo(0)' /\ caller' = "inode_iter" /\ walk_status' = "ok"
          /\ phase' = "find" /\ phase = "loaded" /\ UNCHANGED zonemap
      BY <2>1, <2>5, WalkStarts DEF StartIterator, Goes, WalkInv
    <3>2. 0 \in 0..Len(drive.chain)' /\ 1..0 = {}
      BY <2>1, ChainTyped
    <3>3. QED BY <2>1, <3>1, <3>2, SameTable DEF WalkInv, Before, Ended
  <2>6. CASE FindTable
    BY <2>6, TableFound
  <2>7. CASE PrintRow
    <3>1. UNCHANGED <<zonemap, walk_status>> /\ phase = "rows" /\ phase' \in {"rows", "done"}
      BY <2>7 DEF PrintRow, walk
    <3>2. QED BY <2>1, <3>1, SameTable DEF WalkInv, Before, Ended
  <2>8. QED BY <1>2, <2>2, <2>3, <2>4, <2>5, <2>6, <2>7, StepIsOne
<1>3. QED BY <1>1, <1>2

-----------------------------------------------------------------------------
(* One row more is the inode of the next slot. *)
LEMMA RowPrinted ==
  ASSUME Base, Sound, RowsInv, PrintRow
  PROVE  /\ RowsInv'
         /\ \/ /\ phase' = "done" /\ UNCHANGED rows
               /\ Len(rows) < SlotCount =>
                    drive.failing \/ InSlot(Len(rows)).kind # "inode"
            \/ phase' = "rows" /\ Len(rows') = Len(rows) + 1
<1> DEFINE n == Len(rows)
           record == InSlot(n).inode
<1>1. /\ IsDrive(drive) /\ phase = "rows" /\ UNCHANGED <<drive, walked>>
      /\ phase' = IF last_call' = "none" THEN "done" ELSE "rows"
      /\ Iter!NextCall
  BY DEF Base, PrintRow, walk
<1>2. /\ rows \in Seq(Inode) /\ n <= SlotCount /\ RowsRight
      /\ walked[Len(walked)] = FirstZone /\ next_inode_sector = SlotSector(n)
  BY <1>1 DEF RowsInv
<1>3. n \in Nat /\ SlotCount \in Nat /\ FirstZone.first_sector \in Nat
  BY <1>1, <1>2, SoundTable
<1>4. CASE /\ last_call' = "none" /\ UNCHANGED <<rows, next_inode_sector>>
           /\ n < SlotCount => drive.failing \/ InSlot(n).kind # "inode"
  <2>1. phase' = "done" /\ UNCHANGED rows
    BY <1>1, <1>4
  <2>2. RowsRight'
    BY <1>1, <1>2, <2>1, SameTable DEF RowsRight
  <2>3. QED BY <1>1, <1>2, <1>4, <2>1, <2>2, SameTable DEF RowsInv, Before
<1>5. CASE /\ last_call' = "some" /\ n < SlotCount /\ record \in Inode
           /\ InSlot(n) = [kind |-> "inode", inode |-> record]
           /\ rows' = Append(rows, record)
           /\ next_inode_sector' = SlotSector(n) + 2
  <2>1. phase' = "rows"
    BY <1>1, <1>5
  <2>2. /\ rows' \in Seq(Inode) /\ Len(rows') = n + 1 /\ DOMAIN rows' = 1..(n + 1)
        /\ \A i \in 1..n : rows'[i] = rows[i]
        /\ rows'[n + 1] = record
    <3> HIDE DEF record
    <3>1. QED BY <1>2, <1>5
  <2>3. RowsRight'
    <3>1. SUFFICES ASSUME NEW i \in 1..(n + 1)
                   PROVE  InSlot(i - 1) = [kind |-> "inode", inode |-> rows'[i]]
      <4>1. \A i \in 1..(n + 1) : InSlot(i - 1)' = InSlot(i - 1)
        BY <1>1, SameTable
      <4>2. QED BY <2>2, <4>1 DEF RowsRight
    <3>2. CASE i = n + 1
      <4>1. i - 1 = n /\ rows'[i] = record
        BY <1>3, <2>2, <3>2
      <4>2. QED BY <1>5, <4>1
    <3>3. CASE i # n + 1
      <4>1. i \in 1..n /\ i \in DOMAIN rows /\ rows'[i] = rows[i]
        BY <1>2, <1>3, <2>2, <3>3
      <4>2. QED BY <1>2, <4>1 DEF RowsRight
    <3>4. QED BY <3>2, <3>3
  <2>4. SlotSector(n) + 2 = SlotSector(n + 1)
    BY <1>3 DEF SlotSector
  <2>5. next_inode_sector' = SlotSector(Len(rows))'
    BY <1>1, <1>5, <2>2, <2>4, SameTable
  <2>6. Len(rows') <= SlotCount'
    BY <1>1, <1>3, <1>5, <2>2, SameTable
  <2>7. walked'[Len(walked')] = FirstZone'
    BY <1>1, <1>2, SameTable
  <2>8. QED BY <2>1, <2>2, <2>3, <2>5, <2>6, <2>7 DEF RowsInv, Before
<1>6. QED BY <1>1, <1>2, <1>4, <1>5, RowStep

LEMMA RowsKept == Base /\ Sound /\ WalkInv /\ RowsInv /\ [Step]_vars => RowsInv'
<1> SUFFICES ASSUME Base, Sound, WalkInv, RowsInv, [Step]_vars PROVE RowsInv'
  OBVIOUS
<1>1. UNCHANGED drive /\ IsDrive(drive)
  BY NothingElseMoves DEF Base, vars
<1>2. ASSUME UNCHANGED rows
      PROVE  /\ (rows \in Seq(Inode))' /\ (Len(rows) <= SlotCount)' /\ RowsRight'
  BY <1>1, <1>2, SameTable DEF RowsInv, RowsRight
<1>3. CASE UNCHANGED vars
  <2>1. UNCHANGED <<rows, phase, walked, next_inode_sector>>
    BY <1>3 DEF vars, walk, iterator
  <2>2. SlotSector(Len(rows))' = SlotSector(Len(rows)) /\ FirstZone' = FirstZone
    BY <1>1, <2>1, SameTable
  <2>3. QED BY <1>2, <2>1, <2>2 DEF RowsInv
<1>4. CASE Others
  <2>1. /\ UNCHANGED rows /\ phase' \notin {"rows", "loaded", "find"}
        /\ phase' \in Before => phase \in Before
    BY <1>4, OthersFrame
  <2>2. QED BY <1>2, <2>1 DEF RowsInv, Before
<1>5. CASE Load \/ LoadZones \/ StartIterator
  <2>1. UNCHANGED rows /\ phase \in Before \cup {"loaded"}
    BY <1>5 DEF Load, LoadZones, StartIterator, iterator, Before
  <2>2. phase' # "rows" /\ rows = <<>>
    BY <1>5, <2>1 DEF Load, LoadZones, StartIterator, Goes, RowsInv
  <2>3. QED BY <1>2, <2>1, <2>2 DEF RowsInv
<1>6. CASE FindTable
  <2>1. UNCHANGED rows /\ rows = <<>>
    BY <1>6 DEF FindTable, RowsInv
  <2>2. \/ phase' \notin Before \cup {"loaded", "rows"}
        \/ /\ phase' = "rows" /\ walked'[Len(walked')] = FirstZone
           /\ next_inode_sector' = FirstZone.first_sector
    BY <1>6, TableFound DEF Before
  <2>3. FirstZone.first_sector = SlotSector(Len(rows))'
    <3>1. Len(rows') = 0 /\ FirstZone.first_sector \in Nat
      BY <1>1, <2>1, SoundTable
    <3>2. QED BY <1>1, <3>1, SameTable DEF SlotSector
  <2>4. FirstZone' = FirstZone
    BY <1>1, SameTable
  <2>5. QED BY <1>2, <2>1, <2>2, <2>3, <2>4 DEF RowsInv, Before
<1>7. CASE PrintRow
  BY <1>7, RowPrinted
<1>8. QED BY <1>3, <1>4, <1>5, <1>6, <1>7, StepIsOne

-----------------------------------------------------------------------------
(* An inode asked for by its number is read from its slot. *)
LEMMA NumberKept == Base /\ Sound /\ NumberInv /\ [Step]_vars => NumberInv'
<1> SUFFICES ASSUME Base, Sound, NumberInv, [Step]_vars, command'.name = "inode", Numbered',
                    (FirstZone.first_sector = FirstInode)', (command.id < SlotCount)',
                    NEW shown \in found_inode'
             PROVE  shown.inode = command'.id
  BY DEF NumberInv
<1>1. UNCHANGED <<drive, command>>
  BY NothingElseMoves DEF vars
<1>2. /\ IsDrive(drive) /\ command \in Command /\ command.name = "inode" /\ Numbered
      /\ FirstZone.first_sector = FirstInode /\ command.id < SlotCount
  BY <1>1, SameTable DEF Base
<1>3. CASE UNCHANGED found_inode
  BY <1>1, <1>2, <1>3 DEF NumberInv
<1>4. CASE ReadInode
  <2> DEFINE id == command.id
             sector == SectorForInode(id) % LongWord
  <2>1. id \in Nat /\ SlotCount \in Nat
    BY <1>2, SoundTable DEF Command
  <2>2. id \in 0..(SlotCount - 1)
    BY <1>2, <2>1
  <2>3. SectorForInode(id) = SlotSector(id)
    BY <1>2, <2>1, FirstInodeAssumption DEF SectorForInode, SlotSector
  <2>4. /\ SlotSector(id) \in Nat /\ SlotSector(id) < LongWord
        /\ FindSectorVolume(drive.volumes, SlotSector(id)) = drive.volumes[1]
        /\ InSlot(id) = BlockAt(drive.image, drive.volumes[1].disk_sector + SlotSector(id))
    BY <1>2, <2>2, SlotPlace
  <2>5. sector = SlotSector(id)
    <3> DEFINE s == SlotSector(id)
    <3>1. s \in Nat /\ s < LongWord /\ LongWord \in Nat /\ SectorForInode(id) = s
      BY <2>3, <2>4, WordSizeAssumption
    <3> HIDE DEF s
    <3>2. s % LongWord = s
      BY <3>1
    <3>3. QED BY <3>1, <3>2 DEF s
  <2>6. found_inode' = {BlockFor(sector).inode}
    BY <1>4 DEF ReadInode, Show
  <2>7. shown = InSlot(id).inode
    BY <2>4, <2>5, <2>6 DEF BlockFor
  <2>8. QED BY <1>1, <1>2, <2>2, <2>7 DEF Numbered
<1>5. CASE ~ReadInode /\ Step
  BY <1>2, <1>3, <1>5 DEF Step, ParseArguments, LoadFails, Load, LoadZones, PrintLoaded,
         StartIterator, FindTable, PrintCount, PrintRow, RowsTaken, LookUpFsid, ReadPanics,
         ListEntries, ListingFails
<1>6. QED BY <1>3, <1>4, <1>5 DEF vars

-----------------------------------------------------------------------------
(* A drive that does not fail is printed whole. *)
LEMMA CountKept ==
  Base /\ Sound /\ WalkInv /\ RowsInv /\ CountInv /\ [Step]_vars => CountInv'
<1> SUFFICES ASSUME Base, Sound, WalkInv, RowsInv, CountInv, [Step]_vars,
                    ~drive'.failing, command'.numeric,
                    command'.name \in Printers \cup Iterators
             PROVE  /\ phase' \notin {"panicked", "lookup", "entries"}
                    /\ phase' \notin Before => zonemap' = Zones!ListOf(drive)'
                    /\ command'.name = "info" =>
                         /\ phase' = "rows" => rows' = <<>>
                         /\ phase' = "done" => len' + 1 = SlotCount'
                    /\ command'.name = "inodes" =>
                         /\ Len(rows') <= command'.id
                         /\ phase' = "done" => EndsAt(Len(rows))'
  BY DEF CountInv
<1>1. UNCHANGED <<drive, command>>
  BY NothingElseMoves DEF vars
<1>2. /\ ~drive.failing /\ command.numeric
      /\ command.name \in Printers \cup Iterators
      /\ command.name \notin {"fsid", "inode"}
      /\ IsDrive(drive) /\ command.id \in Nat
      /\ Zones!ListOf(drive)' = Zones!ListOf(drive) /\ SlotCount' = SlotCount
      /\ \A n : InSlot(n)' = InSlot(n)
  BY <1>1, SameTable DEF Base, Command, Printers, Iterators
<1>3. /\ phase \notin {"panicked", "lookup", "entries"}
      /\ phase \notin Before => zonemap = Zones!ListOf(drive)
      /\ command.name = "info" =>
           /\ phase = "rows" => rows = <<>>
           /\ phase = "done" => len + 1 = SlotCount
      /\ command.name = "inodes" =>
           /\ Len(rows) <= command.id
           /\ phase = "done" => EndsAt(Len(rows))
  BY <1>2 DEF CountInv
<1>3a. ASSUME UNCHANGED rows PROVE EndsAt(Len(rows))' <=> EndsAt(Len(rows))
  BY <1>1, <1>2, <1>3a DEF EndsAt
<1>4. CASE UNCHANGED vars
  <2>1. UNCHANGED <<phase, zonemap, rows, len>>
    BY <1>4 DEF vars, iterator
  <2>2. QED BY <1>1, <1>2, <1>3, <1>3a, <2>1
<1>5. CASE ParseArguments
  <2>1. phase' = "load" /\ UNCHANGED rows
    BY <1>2, <1>5 DEF ParseArguments, Goes, iterator
  <2>2. QED BY <1>1, <1>3, <2>1 DEF Before
<1>6. CASE LoadFails
  BY <1>2, <1>6 DEF LoadFails
<1>7. CASE Load
  <2>1. phase' = "zones" /\ UNCHANGED rows
    BY <1>7 DEF Load, Goes, iterator
  <2>2. QED BY <1>1, <1>3, <2>1 DEF Before
<1>8. CASE LoadZones
  <2>1. /\ phase' \in {"zones", "loaded"} /\ UNCHANGED rows
        /\ phase' = "loaded" => zonemap' = Zones!ListOf(drive)
    BY <1>2, <1>8, ZonesLoaded DEF LoadZones, iterator
  <2>2. QED BY <1>1, <1>2, <1>3, <2>1 DEF Before
<1>9. CASE PrintLoaded
  <2>1. /\ phase = "loaded" /\ phase' = "done" /\ UNCHANGED <<zonemap, rows>>
        /\ command.name \in Printers
    BY <1>9 DEF PrintLoaded, Goes, iterator
  <2>2. QED BY <1>1, <1>2, <1>3, <1>3a, <2>1 DEF Before, Printers
<1>10. CASE StartIterator
  <2>1. phase = "loaded" /\ phase' = "find" /\ UNCHANGED <<zonemap, rows>>
    BY <1>10 DEF StartIterator, Goes, iterator
  <2>2. QED BY <1>1, <1>2, <1>3, <2>1 DEF Before
<1>11. CASE FindTable
  <2>1. phase = "find" /\ phase' \in {"find", "rows"} /\ UNCHANGED <<zonemap, rows>>
    BY <1>2, <1>11, TableFound DEF FindTable
  <2>2. rows = <<>>
    BY <2>1 DEF RowsInv
  <2>3. QED BY <1>1, <1>2, <1>3, <2>1, <2>2 DEF Before
<1>12. CASE PrintCount
  <2>1. /\ phase = "rows" /\ command.name = "info" /\ Iter!CallLen /\ UNCHANGED zonemap
        /\ phase' = IF iter_status' = "panicked" THEN "panicked" ELSE "done"
    BY <1>12 DEF PrintCount
  <2>2. walked[Len(walked)] = FirstZone /\ next_inode_sector = SlotSector(0)
    <3>1. rows = <<>> /\ Len(rows) = 0
      BY <1>3, <2>1
    <3>2. QED BY <2>1, <3>1 DEF RowsInv
  <2>3. iter_status' = "ok" /\ len' + 1 = SlotCount
    BY <1>2, <2>1, <2>2, LenStep
  <2>4. phase' = "done"
    BY <2>1, <2>3
  <2>5. QED BY <1>1, <1>2, <1>3, <2>1, <2>3, <2>4 DEF Before
<1>13. CASE PrintRow
  <2>1. /\ phase = "rows" /\ command.name = "inodes" /\ Len(rows) < command.id
        /\ UNCHANGED zonemap
    BY <1>13 DEF PrintRow
  <2>2. /\ Len(rows) \in Nat /\ Len(rows) <= SlotCount /\ SlotCount \in Nat
    BY <1>2, SoundTable DEF RowsInv
  <2>3. CASE /\ phase' = "done" /\ UNCHANGED rows
             /\ Len(rows) < SlotCount => drive.failing \/ InSlot(Len(rows)).kind # "inode"
    <3>1. EndsAt(Len(rows))
      <4>1. Len(rows) = SlotCount \/ Len(rows) < SlotCount
        BY <2>2
      <4>2. QED BY <1>2, <2>3, <4>1 DEF EndsAt
    <3>2. QED BY <1>1, <1>2, <1>3, <1>3a, <2>1, <2>3, <3>1 DEF Before
  <2>4. CASE phase' = "rows" /\ Len(rows') = Len(rows) + 1
    BY <1>1, <1>2, <1>3, <2>1, <2>2, <2>4 DEF Before
  <2>5. QED BY <1>13, <2>3, <2>4, RowPrinted
<1>14. CASE RowsTaken
  <2>1. /\ phase = "rows" /\ phase' = "done" /\ UNCHANGED <<zonemap, rows>>
        /\ command.name = "inodes" /\ Len(rows) = command.id
    BY <1>14 DEF RowsTaken, Goes, iterator
  <2>2. EndsAt(Len(rows))
    BY <2>1 DEF EndsAt
  <2>3. QED BY <1>1, <1>2, <1>3, <1>3a, <2>1, <2>2 DEF Before
<1>15. CASE LookUpFsid \/ ReadInode \/ ReadPanics
  BY <1>2, <1>15 DEF LookUpFsid, ReadInode, ReadPanics
<1>16. CASE ListEntries \/ ListingFails
  BY <1>3, <1>16 DEF ListEntries, ListingFails
<1>17. QED
  BY <1>4, <1>5, <1>6, <1>7, <1>8, <1>9, <1>10, <1>11, <1>12, <1>13, <1>14, <1>15, <1>16
  DEF Step

-----------------------------------------------------------------------------
(***************************************************************************)
(* The lookup is one of FsidLookup, on the drive that was loaded: what the *)
(* lemmas of FsidLookup_proofs say of it can be used here.                 *)
(***************************************************************************)
LEMMA SameLookup == Lookup!Next => Looked!Next
<1>1. /\ \A d, id : Lookup!FitsIn(d, id) = Looked!FitsIn(d, id)
      /\ \A vols, s : Lookup!Covering(vols, s) = Looked!Covering(vols, s)
      /\ \A im, loc : Lookup!BlockAt(im, loc) = Looked!BlockAt(im, loc)
  BY DEF Lookup!FitsIn, Looked!FitsIn, Lookup!Covering, Looked!Covering,
         Lookup!Covers, Looked!Covers, Lookup!EndOf, Looked!EndOf,
         Lookup!BlockAt, Looked!BlockAt, Lookup!JunkBlock, Looked!JunkBlock,
         Lookup!ZeroBlock, Looked!ZeroBlock
<1>2. \A vols, s : Lookup!FindSectorVolume(vols, s) = Looked!FindSectorVolume(vols, s)
  BY <1>1 DEF Lookup!FindSectorVolume, Looked!FindSectorVolume,
              Lookup!VolumeIndex, Looked!VolumeIndex
<1>3. /\ \A vols, s :
           /\ Lookup!SectorToDiskLocation(vols, s) = Looked!SectorToDiskLocation(vols, s)
           /\ Lookup!UnrebasedLocation(vols, s) = Looked!UnrebasedLocation(vols, s)
      /\ \A d, id, backup :
           Lookup!SectorForInode(d, id, backup) = Looked!SectorForInode(d, id, backup)
  <2>1. \A d, id : Lookup!FirstFit(d, id) = Looked!FirstFit(d, id)
    BY <1>1 DEF Lookup!FirstFit, Looked!FirstFit
  <2>2. QED
    BY <1>1, <1>2, <2>1
    DEF Lookup!SectorToDiskLocation, Looked!SectorToDiskLocation,
        Lookup!UnrebasedLocation, Looked!UnrebasedLocation,
        Lookup!SectorForInode, Looked!SectorForInode
<1>4. /\ Lookup!ChainGoesOn <=> Looked!ChainGoesOn
      /\ Lookup!Reads = Looked!Reads /\ Lookup!Error = Looked!Error
  BY DEF Lookup!ChainGoesOn, Looked!ChainGoesOn, Lookup!Reads, Looked!Reads,
         Lookup!Error, Looked!Error, Lookup!NoInode, Looked!NoInode
<1>5. (Lookup!Reading <=> Looked!Reading) /\ Lookup!Wanted = Looked!Wanted
  BY <1>3, <1>4 DEF Lookup!Reading, Looked!Reading, Lookup!Wanted, Looked!Wanted
<1>6. (Lookup!Mapped <=> Looked!Mapped) /\ Lookup!Block = Looked!Block
  BY <1>1, <1>3, <1>5 DEF Lookup!Mapped, Looked!Mapped, Lookup!Block, Looked!Block,
                          Lookup!Location, Looked!Location
<1>7. /\ Lookup!Readable <=> Looked!Readable
      /\ Lookup!Matches <=> Looked!Matches
      /\ \A r : Lookup!Finish(r) <=> Looked!Finish(r)
  BY <1>5, <1>6 DEF Lookup!Readable, Looked!Readable, Lookup!Matches, Looked!Matches,
                    Lookup!Finish, Looked!Finish
<1>8. /\ Lookup!HashInode <=> Looked!HashInode
      /\ Lookup!HashUnderflows <=> Looked!HashUnderflows
  BY DEF Lookup!HashInode, Looked!HashInode, Lookup!HashUnderflows, Looked!HashUnderflows
<1>9. /\ Lookup!SectorPanics <=> Looked!SectorPanics
      /\ Lookup!ReadFails <=> Looked!ReadFails
      /\ Lookup!Unparsable <=> Looked!Unparsable
  BY <1>4, <1>5, <1>6, <1>7 DEF Lookup!SectorPanics, Looked!SectorPanics,
     Lookup!ReadFails, Looked!ReadFails, Lookup!Unparsable, Looked!Unparsable
<1>10. /\ Lookup!Found <=> Looked!Found
       /\ Lookup!ReturnHashed <=> Looked!ReturnHashed
  BY <1>6, <1>7 DEF Lookup!Found, Looked!Found, Lookup!ReturnHashed, Looked!ReturnHashed
<1>11. /\ Lookup!TryBackup <=> Looked!TryBackup
       /\ Lookup!EnterChain <=> Looked!EnterChain
       /\ Lookup!FollowChain <=> Looked!FollowChain
       /\ Lookup!LeaveChain <=> Looked!LeaveChain
  BY <1>4, <1>6, <1>7 DEF Lookup!TryBackup, Looked!TryBackup,
     Lookup!EnterChain, Looked!EnterChain, Lookup!FollowChain, Looked!FollowChain,
     Lookup!LeaveChain, Looked!LeaveChain
<1>12. QED BY <1>8, <1>9, <1>10, <1>11 DEF Lookup!Next, Looked!Next

LEMMA SameStored ==
  ASSUME NEW d
  PROVE  /\ Lookup!Slots(d) = Looked!Slots(d)
         /\ Lookup!InFirstVolume(d) <=> Looked!InFirstVolume(d)
         /\ \A fsid, id : Lookup!Stored(d, fsid, id) <=> Looked!Stored(d, fsid, id)
<1>1. \A id : Lookup!FitsIn(d, id) = Looked!FitsIn(d, id)
  BY DEF Lookup!FitsIn, Looked!FitsIn
<1>2. \A id, backup : Lookup!SectorForInode(d, id, backup) = Looked!SectorForInode(d, id, backup)
  <2>1. \A id : Lookup!FirstFit(d, id) = Looked!FirstFit(d, id)
    BY <1>1 DEF Lookup!FirstFit, Looked!FirstFit
  <2>2. QED BY <1>1, <2>1 DEF Lookup!SectorForInode, Looked!SectorForInode
<1>3. \A vols, s : Lookup!SectorToDiskLocation(vols, s) = Looked!SectorToDiskLocation(vols, s)
  <2>1. \A vols, s : Lookup!Covering(vols, s) = Looked!Covering(vols, s)
    BY DEF Lookup!Covering, Looked!Covering, Lookup!Covers, Looked!Covers,
           Lookup!EndOf, Looked!EndOf
  <2>2. QED
    BY <2>1 DEF Lookup!SectorToDiskLocation, Looked!SectorToDiskLocation,
                Lookup!FindSectorVolume, Looked!FindSectorVolume,
                Lookup!VolumeIndex, Looked!VolumeIndex
<1>4. \A im, loc : Lookup!BlockAt(im, loc) = Looked!BlockAt(im, loc)
  BY DEF Lookup!BlockAt, Looked!BlockAt, Lookup!JunkBlock, Looked!JunkBlock,
         Lookup!ZeroBlock, Looked!ZeroBlock
<1>5. \A s : Lookup!CopyAt(d, s) = Looked!CopyAt(d, s)
  BY <1>3, <1>4 DEF Lookup!CopyAt, Looked!CopyAt
<1>6. Lookup!Slots(d) = Looked!Slots(d) /\ (Lookup!InFirstVolume(d) <=> Looked!InFirstVolume(d))
  BY <1>1, <1>2 DEF Lookup!Slots, Looked!Slots, Lookup!InFirstVolume, Looked!InFirstVolume
<1>7. \A id, record : Lookup!Holds(d, id, record) <=> Looked!Holds(d, id, record)
  BY <1>2, <1>5 DEF Lookup!Holds, Looked!Holds
<1>8. \A fsid, id : Lookup!Stored(d, fsid, id) <=> Looked!Stored(d, fsid, id)
  BY <1>2, <1>5, <1>6, <1>7, ZenonT(40) DEF Lookup!Stored, Looked!Stored
<1>9. QED BY <1>6, <1>8

(* The drive that was loaded is one a lookup can work with. *)
LEMMA LoadedLayout ==
  ASSUME Base, Sound, NEW n \in 0..Len(drive.chain), zonemap = FirstZones(n)
  PROVE  Looked!Layout(TivoDrive)
<1>1. IsDrive(drive)
  BY DEF Base
<1>2. zonemap \in Seq(Zones!Zone)
  BY <1>1, PrefixGrows
<1>3. /\ TivoDrive.volumes = drive.volumes /\ TivoDrive.zones = zonemap
      /\ TivoDrive.inode_count = InodeCount
  BY DEF TivoDrive
<1>4. InodeCount \in Nat
  BY <1>2, CountIsNat
<1>5. drive.volumes \in Seq(Looked!Volume) /\ drive.volumes # <<>>
      /\ drive.volumes[1].sector_start = 0
  BY <1>1, SoundTable DEF Looked!Volume, Volume
<1>6. \A i \in DOMAIN zonemap : zonemap[i] \in Zones!Zone
  BY <1>2
<1>7. \A i \in DOMAIN zonemap :
        zonemap[i].first_sector \in Nat /\ zonemap[i].backup_sector \in Nat
  BY <1>6 DEF Zones!Zone
<1>8. DOMAIN zonemap \subseteq Nat
  BY <1>2
<1>9. QED BY <1>3, <1>4, <1>5, <1>7, <1>8 DEF Looked!Layout

LEMMA SameLoaded ==
  ASSUME UNCHANGED <<drive, zonemap>>
  PROVE  TivoDrive' = TivoDrive
<1>1. InodeCount' = InodeCount
  BY DEF InodeCount, FoldLeft, MapThenFoldSet, Max
<1>2. QED BY <1>1 DEF TivoDrive

LEMMA LookupAssumed ==
  /\ Looked!WordSizeAssumption /\ Looked!QueriesAssumption
  /\ Looked!DrivesAssumption /\ Looked!HashAssumption
BY WordSizeAssumption DEF Looked!WordSizeAssumption, Looked!QueriesAssumption,
   Looked!DrivesAssumption, Looked!HashAssumption

(* One step of the lookup of an fsid that is stored: it stays on its way, or
   has found the inode, which is shown. *)
LEMMA LookupStep ==
  ASSUME Base, Sound, WalkInv, LookUpFsid,
         NEW id, Looked!Sought(id), Looked!OnTheWay(id)
  PROVE  \/ phase' = "lookup" /\ Looked!OnTheWay(id)'
         \/ /\ phase' \in {"entries", "done"}
            /\ \E shown \in found_inode' : ShownFor(shown)'
<1>1. /\ phase \notin Before \cup Ended /\ UNCHANGED <<drive, command, zonemap>>
      /\ Lookup!Next
  BY DEF LookUpFsid, Before, Ended
<1>2. Looked!Layout(TivoDrive)
  <2>1. PICK n \in 0..Len(drive.chain) : zonemap = FirstZones(n)
    BY <1>1 DEF WalkInv
  <2>2. QED BY <2>1, LoadedLayout
<1>3. Looked!OnTheWay(id)'
  BY <1>1, <1>2, SameLookup, LookupAssumed, Looked!StaysOnTheWay
<1>4. pc' \notin {"fallback", "panicked"}
  BY <1>3 DEF Looked!OnTheWay
<1>5. CASE pc' # "done"
  <2>1. phase' = "lookup"
    BY <1>4, <1>5 DEF LookUpFsid, Ended
  <2>2. QED BY <1>3, <2>1
<1>6. CASE pc' = "done"
  <2> PICK shown : shown = result'.inode
    OBVIOUS
  <2>1. TivoDrive' = TivoDrive
    BY <1>1, SameLoaded
  <2>2. result'.ok /\ Looked!Holds(TivoDrive, id, shown)
    BY <1>3, <1>6, <2>1 DEF Looked!OnTheWay
  <2>3. Show(shown)
    BY <1>6, <2>2 DEF LookUpFsid
  <2>4. Looked!Record(TivoDrive, id) = shown
    <3>1. Looked!CopyAt(TivoDrive, Looked!SectorForInode(TivoDrive, id, FALSE))
            = [kind |-> "inode", inode |-> shown]
      BY <2>2 DEF Looked!Holds
    <3>2. [kind |-> "inode", inode |-> shown].inode = shown
      OBVIOUS
    <3>3. QED BY <3>1, <3>2, Zenon DEF Looked!Record
  <2>5. Looked!Record(TivoDrive, id).fsid = command.id
    BY LookupAssumed, Looked!StoredSlots DEF Looked!Sought
  <2>6. /\ found_inode' = {shown} /\ phase' \in {"entries", "done"}
        /\ phase' = "entries" => shown.type = "Dir"
    BY <2>3 DEF Show
  <2>7. shown.fsid = command'.id
    BY <1>1, <2>4, <2>5
  <2>8. ShownFor(shown)'
    BY <2>6, <2>7 DEF ShownFor
  <2>9. QED BY <2>6, <2>8
<1>7. QED BY <1>5, <1>6

(* An fsid that is stored is on its way to be shown, or has been. *)
LEMMA FsidKept == Base /\ Sound /\ WalkInv /\ FsidInv /\ [Step]_vars => FsidInv'
<1> SUFFICES ASSUME Base, Sound, WalkInv, FsidInv, [Step]_vars,
                    ~drive'.failing, command'.name = "fsid", command'.numeric
             PROVE  /\ phase' \notin {"find", "rows"}
                    /\ phase' \in Before \cup {"loaded"} => pc' = "hash"
                    /\ phase' \notin Before =>
                         \A id \in Looked!Slots(TivoDrive)' : Looked!Sought(id)' =>
                           /\ phase' \in {"loaded", "lookup"} => Looked!OnTheWay(id)'
                           /\ phase' \in {"entries"} \cup Ended =>
                                \E shown \in found_inode' : ShownFor(shown)'
  BY DEF FsidInv
<1>1. UNCHANGED <<drive, command>>
  BY NothingElseMoves DEF vars
<1>2. /\ ~drive.failing /\ command.name = "fsid" /\ command.numeric
      /\ command.name \notin Printers \cup Iterators \cup {"inode"}
  BY <1>1 DEF Printers, Iterators
<1>3. /\ phase \notin {"find", "rows"}
      /\ phase \in Before \cup {"loaded"} => pc = "hash"
      /\ phase \notin Before =>
           \A id \in Looked!Slots(TivoDrive) : Looked!Sought(id) =>
             /\ phase \in {"loaded", "lookup"} => Looked!OnTheWay(id)
             /\ phase \in {"entries"} \cup Ended => \E shown \in found_inode : ShownFor(shown)
  BY <1>2 DEF FsidInv
<1>4. ASSUME UNCHANGED zonemap
      PROVE  /\ TivoDrive' = TivoDrive
             /\ Looked!Slots(TivoDrive)' = Looked!Slots(TivoDrive)
             /\ \A id : Looked!Sought(id)' <=> Looked!Sought(id)
  <2>1. TivoDrive' = TivoDrive
    BY <1>1, <1>4, SameLoaded
  <2>2. QED BY <1>1, <2>1 DEF Looked!Sought
<1>5. CASE UNCHANGED vars
  <2>1. UNCHANGED <<phase, zonemap, found_inode, pc, inode, inode_id_base,
                    current_inode_id, current_inode, result>>
    BY <1>5 DEF vars, lookup
  <2>2. \A id : Looked!OnTheWay(id)' <=> Looked!OnTheWay(id)
    BY <1>1, <1>4, <2>1 DEF Looked!OnTheWay, Looked!Base, Looked!Record
  <2>3. \A shown : ShownFor(shown)' <=> ShownFor(shown)
    BY <1>1, <2>1 DEF ShownFor
  <2>4. QED BY <1>3, <1>4, <2>1, <2>2, <2>3
<1>6. CASE ParseArguments \/ Load
  <2>1. phase' \in {"load", "zones"} /\ UNCHANGED pc /\ phase \in Before
    BY <1>2, <1>6 DEF ParseArguments, Load, Goes, lookup, Before
  <2>2. QED BY <1>3, <2>1 DEF Before
<1>7. CASE LoadFails
  BY <1>2, <1>7 DEF LoadFails
<1>8. CASE LoadZones
  <2>1. phase' \in {"zones", "loaded"} /\ pc' = pc /\ phase \in Before
    BY <1>8, ZonesLoaded DEF LoadZones, lookup, Before
  <2>2. pc' = "hash"
    BY <1>3, <2>1
  <2>3. \A id : Looked!OnTheWay(id)'
    BY <2>2 DEF Looked!OnTheWay
  <2>4. QED BY <2>1, <2>2, <2>3 DEF Ended
<1>9. CASE PrintLoaded \/ StartIterator \/ FindTable \/ PrintCount \/ PrintRow \/ RowsTaken
  BY <1>2, <1>3, <1>9 DEF PrintLoaded, StartIterator, FindTable, PrintCount, PrintRow,
                          RowsTaken
<1>10. CASE LookUpFsid
  <2>1. /\ phase \in {"loaded", "lookup"} /\ UNCHANGED zonemap
        /\ phase' \in {"lookup", "entries"} \cup Ended
    BY <1>10 DEF LookUpFsid, Show, Ended
  <2>2. ASSUME NEW id \in Looked!Slots(TivoDrive), Looked!Sought(id)
        PROVE  /\ phase' \in {"loaded", "lookup"} => Looked!OnTheWay(id)'
               /\ phase' \in {"entries"} \cup Ended =>
                    \E shown \in found_inode' : ShownFor(shown)'
    <3>1. Looked!OnTheWay(id)
      BY <1>3, <2>1, <2>2 DEF Before
    <3>2. \/ phase' = "lookup" /\ Looked!OnTheWay(id)'
          \/ /\ phase' \in {"entries", "done"}
             /\ \E shown \in found_inode' : ShownFor(shown)'
      BY <1>10, <2>2, <3>1, LookupStep
    <3>3. QED BY <3>2 DEF Ended
  <2>3. QED BY <1>4, <2>1, <2>2 DEF Before, Ended
<1>11. CASE ReadInode \/ ReadPanics
  BY <1>2, <1>11 DEF ReadInode, ReadPanics
<1>12. CASE ListEntries \/ ListingFails
  <2>1. /\ phase = "entries" /\ UNCHANGED <<zonemap, found_inode>>
        /\ phase' \in Ended
        /\ phase' = "panicked" => \E shown \in found_inode : shown.listing # "ok"
    BY <1>2, <1>12 DEF ListEntries, ListingFails, Goes, Ended
  <2>2. ASSUME NEW shown, ShownFor(shown) PROVE ShownFor(shown)'
    <3>1. found_inode = {shown} /\ shown.fsid = command.id /\ shown.type = "Dir"
      BY <2>1, <2>2 DEF ShownFor
    <3>2. phase' = "panicked" => shown.listing # "ok"
      BY <2>1, <3>1
    <3>3. phase' # "entries"
      BY <2>1 DEF Ended
    <3>4. QED BY <1>1, <2>1, <3>1, <3>2, <3>3 DEF ShownFor
  <2>3. QED BY <1>3, <1>4, <2>1, <2>2 DEF Before, Ended
<1>13. QED
  BY <1>5, <1>6, <1>7, <1>8, <1>9, <1>10, <1>11, <1>12 DEF Step

-----------------------------------------------------------------------------
LEMMA InitHolds == Init => IInv
<1> SUFFICES ASSUME Init PROVE IInv
  OBVIOUS
<1>1. Base
  BY DrivesAssumption, CommandsAssumption DEF Init, Base, Phases, Before
<1>2. /\ phase = "arguments" /\ rows = <<>> /\ found_inode = {} /\ pc = "hash"
      /\ walk_status = "ok"
  BY DEF Init
<1>3. ASSUME Sound PROVE WalkInv /\ RowsInv /\ NumberInv /\ CountInv /\ FsidInv
  <2>1. WalkInv
    BY <1>2 DEF WalkInv, Before
  <2>2. RowsInv
    <3>1. SlotCount \in Nat
      BY <1>1, <1>3, SoundTable DEF Base
    <3>2. QED BY <1>2, <3>1 DEF RowsInv, RowsRight
  <2>3. NumberInv
    BY <1>2 DEF NumberInv
  <2>4. CountInv
    <3>1. command.id \in Nat
      BY <1>1 DEF Base, Command
    <3>2. QED BY <1>2, <3>1 DEF CountInv, Before
  <2>5. FsidInv
    BY <1>2 DEF FsidInv, Before
  <2>6. QED BY <2>1, <2>2, <2>3, <2>4, <2>5
<1>4. QED BY <1>1, <1>3 DEF IInv

LEMMA Kept == IInv /\ [Step]_vars => IInv'
<1> SUFFICES ASSUME IInv, [Step]_vars PROVE IInv'
  OBVIOUS
<1>1. Base /\ Base'
  BY BaseKept DEF IInv
<1>2. UNCHANGED drive
  BY NothingElseMoves DEF vars
<1>3. ASSUME Sound' PROVE WalkInv' /\ RowsInv' /\ NumberInv' /\ CountInv' /\ FsidInv'
  <2>1. Sound /\ WalkInv /\ RowsInv /\ NumberInv /\ CountInv /\ FsidInv
    BY <1>2, <1>3, SameTable DEF IInv
  <2>2. QED BY <1>1, <2>1, WalkKept, RowsKept, NumberKept, CountKept, FsidKept
<1>4. QED BY <1>1, <1>3 DEF IInv

LEMMA Inductive == Spec => []IInv
BY InitHolds, Kept, PTL DEF Spec

(* The i-th inode that is printed is the one in slot i - 1 of the first
   INode zone, and an inode asked for by its number has that number, on
   every sound drive and for every command. *)
THEOREM AlwaysUnderItsNumber == Spec => []ShownUnderItsNumber
<1>1. IInv => ShownUnderItsNumber
  BY DEF IInv, RowsInv, RowsRight, NumberInv, ShownUnderItsNumber
<1>2. QED BY Inductive, <1>1, PTL

(* CountsAgree: on every sound drive that does not fail the tables have all
   zones, `inodes` prints a slot exactly when it is within the count and no
   slot up to it is unreadable, and the number that info prints is one less
   than the slots of the zone. *)
THEOREM CountsAlwaysAgree == Spec => []CountsAgree
<1>1. IInv => CountsAgree
  <2> SUFFICES ASSUME IInv, Sound, ~drive.failing, phase \in Ended, command.numeric
               PROVE  /\ command.name \in Printers \cup Iterators =>
                           phase = "done" /\ zonemap = Zones!ListOf(drive)
                      /\ command.name = "info" => len + 1 = SlotCount
                      /\ command.name = "inodes" =>
                           /\ Len(rows) <= SlotCount
                           /\ \A i \in 0..(SlotCount - 1) :
                                i < Len(rows)
                                  <=> i < command.id /\ \A j \in 0..i : InSlot(j).kind = "inode"
    BY DEF CountsAgree
  <2>1. CountInv /\ RowsInv /\ phase \notin Before
    BY DEF IInv, Ended, Before
  <2>2. command.name \in {"info", "inodes"} => command.name \in Printers \cup Iterators
    BY DEF Iterators
  <2>3. ASSUME command.name = "inodes", NEW i \in 0..(SlotCount - 1)
        PROVE  i < Len(rows) <=> i < command.id /\ \A j \in 0..i : InSlot(j).kind = "inode"
    <3>1. /\ Len(rows) \in Nat /\ DOMAIN rows = 1..Len(rows) /\ Len(rows) <= SlotCount
          /\ Len(rows) <= command.id /\ EndsAt(Len(rows))
          /\ command.id \in Nat /\ SlotCount \in Nat
      <4>1. phase = "done"
        BY <2>1, <2>2, <2>3 DEF CountInv, Ended
      <4>2. IsDrive(drive) /\ command.id \in Nat
        BY DEF IInv, Base, Command
      <4>3. QED BY <2>1, <2>2, <2>3, <4>1, <4>2, SoundTable DEF CountInv, RowsInv
    <3>2. ASSUME i < Len(rows), NEW j \in 0..i PROVE InSlot(j).kind = "inode"
      <4>1. j + 1 \in DOMAIN rows /\ (j + 1) - 1 = j
        BY <3>1, <3>2
      <4>2. InSlot((j + 1) - 1) = [kind |-> "inode", inode |-> rows[j + 1]]
        BY <2>1, <4>1 DEF RowsInv, RowsRight
      <4>3. QED BY <4>1, <4>2
    <3>3. ASSUME ~(i < Len(rows)), i < command.id, \A j \in 0..i : InSlot(j).kind = "inode"
          PROVE  FALSE
      <4> DEFINE n == Len(rows)
                 c == command.id
      <4>1. n \in Nat /\ c \in Nat /\ SlotCount \in Nat /\ ~(i < n) /\ i < c
        BY <3>1, <3>3, SMTT(30)
      <4>2. n = c \/ n = SlotCount \/ InSlot(n).kind # "inode"
        BY <3>1, ZenonT(40) DEF EndsAt
      <4> HIDE DEF n, c
      <4>3. n \in 0..i /\ n # c /\ n # SlotCount
        BY <4>1
      <4>4. QED BY <3>3, <4>2, <4>3
    <3>4. i < Len(rows) => i < command.id
      BY <3>1
    <3>5. QED BY <3>2, <3>3, <3>4
  <2>4. QED BY <2>1, <2>2, <2>3 DEF CountInv, RowsInv, Ended
<1>2. QED BY Inductive, <1>1, PTL

(* An inode stored under an fsid is shown by the command that asks for it,
   on every sound drive that does not fail and whose inode ids have their
   places in the first volume, for every hash. *)
THEOREM StoredAlwaysShown == Spec => []StoredIsShown
<1>1. IInv => StoredIsShown
  <2> SUFFICES ASSUME IInv, Sound, ~drive.failing, phase \in Ended, command.name = "fsid",
                      command.numeric, NEW id \in Lookup!Slots(TivoDrive),
                      Lookup!InFirstVolume(TivoDrive),
                      Lookup!Stored(TivoDrive, command.id, id)
               PROVE  \E shown \in found_inode :
                        /\ shown.fsid = command.id
                        /\ phase = "panicked" => shown.type = "Dir" /\ shown.listing # "ok"
    BY DEF StoredIsShown
  <2>1. id \in Looked!Slots(TivoDrive) /\ Looked!Sought(id)
    <3>1. TivoDrive.failing = drive.failing
      BY DEF TivoDrive
    <3>2. QED BY <3>1, SameStored DEF Looked!Sought
  <2>2. FsidInv /\ phase \notin Before
    BY DEF IInv, Ended, Before
  <2>3. PICK shown \in found_inode : ShownFor(shown)
    BY <2>1, <2>2 DEF FsidInv
  <2>4. QED BY <2>3 DEF ShownFor
<1>2. QED BY Inductive, <1>1, PTL
=============================================================================
