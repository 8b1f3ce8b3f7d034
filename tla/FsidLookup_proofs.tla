-------------------------- MODULE FsidLookup_proofs --------------------------
(***************************************************************************)
(* Proofs about FsidLookup, for every set of drives, every set of fsids    *)
(* and every hash that stays below its mask.                               *)
(*                                                                         *)
(* The argument rests on one fact about the drive: MFS sector 0 holds the  *)
(* volume header, which is no inode.  sector_for_inode answers 0 for every *)
(* id outside the table, so a read that yields an inode was for an id in   *)
(* the table.                                                              *)
(***************************************************************************)
EXTENDS FsidLookup, SectorMap_proofs

(* The inductive invariant.  The drive is one of Drives, which the hash's
   assumption speaks of. *)
IInv ==
  /\ TypeOK
  /\ drive \in Drives
  /\ ChainInRange
  /\ NeedsReadablePrimary
  /\ result.ok => pc = "done"

-----------------------------------------------------------------------------
(* An inode read from the image is well typed. *)
LEMMA ReadInodeType ==
  ASSUME NEW d, IsDrive(d), NEW loc, BlockAt(d.image, loc).kind = "inode"
  PROVE  BlockAt(d.image, loc).inode \in Inode
<1>1. CASE loc \in DOMAIN d.image.blocks
  <2>1. BlockAt(d.image, loc) = d.image.blocks[loc]
    BY <1>1 DEF BlockAt
  <2>2. QED BY <1>1, <2>1 DEF IsDrive
<1>2. CASE loc \notin DOMAIN d.image.blocks
  <2>1. BlockAt(d.image, loc) \in {JunkBlock, ZeroBlock}
    BY <1>2 DEF BlockAt
  <2>2. QED BY <2>1 DEF JunkBlock, ZeroBlock
<1>3. QED BY <1>1, <1>2

(* With or without rebasing, MFS sector 0 leads to the volume header. *)
LEMMA HeaderIsNoInode ==
  ASSUME NEW d, IsDrive(d)
  PROVE  /\ BlockAt(d.image, SectorToDiskLocation(d.volumes, 0)).kind # "inode"
         /\ BlockAt(d.image, UnrebasedLocation(d.volumes, 0)).kind # "inode"
<1> DEFINE v == FindSectorVolume(d.volumes, 0)
<1>1. v \in Volume /\ Covers(v, 0)
  BY DiskLocationType, VolumeIndexIsFirst DEF IsDrive, FindSectorVolume
<1>2. v.sector_start = 0 /\ v.disk_sector \in Nat
  BY <1>1 DEF Covers, Volume
<1>3. v.disk_sector + (0 - v.sector_start) = v.disk_sector + 0
  BY <1>2
<1>4. SectorToDiskLocation(d.volumes, 0) = UnrebasedLocation(d.volumes, 0)
  BY <1>3 DEF SectorToDiskLocation, UnrebasedLocation
<1>5. QED BY <1>4 DEF IsDrive

(* sector_for_inode has no sector for an id past the inode count. *)
LEMMA NoSectorPastCount ==
  ASSUME NEW d, NEW id, NEW backup, id >= d.inode_count
  PROVE  SectorForInode(d, id, backup) = 0
BY DEF SectorForInode

(* A chain read that yields an inode was for an id in the table. *)
LEMMA ReadableInTable ==
  ASSUME IInv, Readable
  PROVE  /\ pc \in {"primary", "backup"} => inode < drive.inode_count
         /\ pc = "chain" => current_inode_id + 1 < drive.inode_count
<1>1. IsDrive(drive) /\ Block.kind = "inode" /\ drive.inode_count \in Nat
  BY DEF IInv, TypeOK, Readable, IsDrive
<1>2. Wanted # 0
  BY <1>1, HeaderIsNoInode DEF Block, Location
<1>3. CASE pc \in {"primary", "backup"}
  <2>1. ~(inode >= drive.inode_count)
    BY <1>2, <1>3, NoSectorPastCount DEF Wanted
  <2>2. QED BY <1>1, <1>3, <2>1 DEF IInv, TypeOK
<1>4. CASE pc = "chain"
  <2>1. ~(current_inode_id + 1 >= drive.inode_count)
    BY <1>2, <1>4, NoSectorPastCount DEF Wanted
  <2>2. QED BY <1>1, <1>4, <2>1 DEF IInv, TypeOK
<1>5. QED BY <1>3, <1>4

-----------------------------------------------------------------------------
(* Every field keeps its type, and the drive is never replaced. *)
LEMMA TypeInductive == IInv /\ [Next]_vars => TypeOK' /\ (drive \in Drives)'
<1> SUFFICES ASSUME IInv, [Next]_vars PROVE TypeOK' /\ (drive \in Drives)'
  OBVIOUS
<1>1. /\ TypeOK /\ drive \in Drives /\ IsDrive(drive)
      /\ drive.inode_count \in 0..(WordSize - 1)
  BY DEF IInv, TypeOK, IsDrive
<1>2. UNCHANGED drive
  BY DEF Next, vars, HashInode, HashUnderflows, SectorPanics, ReadFails, Unparsable,
         Found, TryBackup, EnterChain, FollowChain, LeaveChain, ReturnHashed, Finish
<1>3. Block.kind = "inode" => Block.inode \in Inode
  BY <1>1, ReadInodeType DEF Block
<1>4. NoInode \in Inode /\ Error \in [ok : BOOLEAN, inode : Inode]
  BY DEF NoInode, Error, Inode, Flags
<1>5. CASE HashInode
  <2>1. Hash(queried_fsid, drive.inode_count - 1) \in 0..(drive.inode_count - 1)
    BY <1>1, <1>5, HashAssumption DEF HashInode, TypeOK
  <2>2. inode' \in 0..(WordSize - 1)
    BY <1>1, <1>5, <2>1, WordSizeAssumption DEF HashInode
  <2>3. QED BY <1>1, <1>2, <1>5, <2>2 DEF HashInode, TypeOK, Reads
<1>6. CASE HashUnderflows
  <2>1. Hash(queried_fsid, WordSize - 1) \in 0..(WordSize - 1)
    BY <1>1, HashAssumption, WordSizeAssumption DEF TypeOK
  <2>2. inode' \in 0..(WordSize - 1)
    BY <1>1, <1>6, <2>1 DEF HashUnderflows, TypeOK
  <2>3. QED BY <1>1, <1>2, <1>6, <2>2 DEF HashUnderflows, TypeOK, Reads
<1>7. CASE SectorPanics
  BY <1>1, <1>7 DEF SectorPanics, TypeOK
<1>8. CASE ReadFails \/ Unparsable
  BY <1>1, <1>4, <1>8 DEF ReadFails, Unparsable, Finish, TypeOK
<1>9. CASE Found \/ ReturnHashed
  <2>1. Block.kind = "inode" /\ Finish([ok |-> TRUE, inode |-> Block.inode])
    BY <1>9 DEF Found, ReturnHashed, Readable
  <2>2. PICK i \in Inode : Finish([ok |-> TRUE, inode |-> i])
    BY <1>3, <2>1
  <2>3. result' \in [ok : BOOLEAN, inode : Inode]
    BY <2>2 DEF Finish
  <2>4. QED BY <1>1, <2>2, <2>3 DEF Finish, TypeOK
<1>10. CASE TryBackup
  BY <1>1, <1>10 DEF TryBackup, TypeOK, Reads
<1>11. CASE EnterChain
  <2>1. inode_id_base' \in Nat /\ current_inode' \in Inode /\ current_inode_id' \in Nat
    BY <1>1, <1>3, <1>11 DEF EnterChain, Readable, TypeOK, Inode
  <2>2. QED BY <1>1, <1>2, <1>11, <2>1 DEF EnterChain, TypeOK, Reads
<1>12. CASE FollowChain
  BY <1>1, <1>3, <1>12 DEF FollowChain, Readable, TypeOK
<1>13. CASE LeaveChain
  BY <1>1, <1>13 DEF LeaveChain, TypeOK, Reads
<1>14. CASE UNCHANGED vars
  BY <1>1, <1>14 DEF vars, TypeOK
<1>15. QED
  BY <1>5, <1>6, <1>7, <1>8, <1>9, <1>10, <1>11, <1>12, <1>13, <1>14 DEF Next

(* The chain only moves to an id whose sector held an inode. *)
LEMMA RangeInductive == IInv /\ [Next]_vars => ChainInRange'
<1> SUFFICES ASSUME IInv, [Next]_vars PROVE ChainInRange'
  OBVIOUS
<1>1. ChainInRange
  BY DEF IInv
<1>2. CASE EnterChain
  BY <1>2, ReadableInTable DEF EnterChain, ChainInRange
<1>3. CASE FollowChain
  BY <1>3, ReadableInTable DEF FollowChain, ChainInRange
<1>4. CASE LeaveChain
  BY <1>1, <1>4 DEF LeaveChain, ChainInRange
<1>5. CASE HashInode \/ HashUnderflows \/ SectorPanics \/ TryBackup
  BY <1>5 DEF HashInode, HashUnderflows, SectorPanics, TryBackup, ChainInRange
<1>6. CASE ReadFails \/ Unparsable \/ Found \/ ReturnHashed
  BY <1>6 DEF ReadFails, Unparsable, Found, ReturnHashed, Finish, ChainInRange
<1>7. CASE UNCHANGED vars
  BY <1>1, <1>7 DEF vars, ChainInRange
<1>8. QED
  BY <1>2, <1>3, <1>4, <1>5, <1>6, <1>7 DEF Next

(* The first read decides: every later state has seen the primary copy. *)
LEMMA PrimaryInductive ==
  IInv /\ [Next]_vars => NeedsReadablePrimary' /\ (result.ok => pc = "done")'
<1> SUFFICES ASSUME IInv, [Next]_vars
             PROVE  NeedsReadablePrimary' /\ (result.ok => pc = "done")'
  OBVIOUS
<1>1. /\ NeedsReadablePrimary
      /\ result.ok => pc = "done"
  BY DEF IInv
<1>2. (pc = "primary" /\ Readable) =>
        CopyAt(drive, SectorForInode(drive, inode, FALSE)).kind = "inode"
  BY DEF Readable, Block, Location, Wanted, CopyAt
<1>3. CASE HashInode \/ HashUnderflows
  <2>1. pc = "hash" /\ pc' \in {"primary", "panicked"} /\ UNCHANGED result
    BY <1>3 DEF HashInode, HashUnderflows
  <2>2. QED BY <1>1, <2>1 DEF NeedsReadablePrimary
<1>4. CASE SectorPanics
  <2>1. pc \in Reads /\ pc' = "panicked" /\ UNCHANGED result
    BY <1>4 DEF SectorPanics, Reading
  <2>2. QED BY <1>1, <2>1 DEF NeedsReadablePrimary, Reads
<1>5. CASE ReadFails \/ Unparsable
  <2>1. pc' = "done" /\ result' = Error
    BY <1>5 DEF ReadFails, Unparsable, Finish
  <2>2. ~result'.ok
    BY <2>1 DEF Error
  <2>3. QED BY <2>1, <2>2 DEF NeedsReadablePrimary
<1>6. CASE Found \/ ReturnHashed
  <2>1. pc \in Reads /\ Readable /\ pc' = "done" /\ UNCHANGED <<drive, inode>>
    BY <1>6 DEF Found, ReturnHashed, Readable, Reading, Finish
  <2>2. CopyAt(drive, SectorForInode(drive, inode, FALSE)).kind = "inode"
    BY <1>1, <1>2, <2>1 DEF NeedsReadablePrimary, Reads
  <2>3. QED BY <2>1, <2>2 DEF NeedsReadablePrimary
<1>7. CASE TryBackup
  BY <1>1, <1>2, <1>7 DEF TryBackup, NeedsReadablePrimary
<1>8. CASE EnterChain \/ FollowChain \/ LeaveChain
  <2>1. /\ pc \in {"backup", "chain"} /\ pc' \in {"chain", "fallback"}
        /\ UNCHANGED <<drive, inode, result>>
    BY <1>8 DEF EnterChain, FollowChain, LeaveChain
  <2>2. QED BY <1>1, <2>1 DEF NeedsReadablePrimary
<1>9. CASE UNCHANGED vars
  BY <1>1, <1>9 DEF vars, NeedsReadablePrimary
<1>10. QED
  BY <1>3, <1>4, <1>5, <1>6, <1>7, <1>8, <1>9 DEF Next

LEMMA InitEstablishes == Init => IInv
<1> SUFFICES ASSUME Init PROVE IInv
  OBVIOUS
<1>1. NoInode \in Inode /\ Error \in [ok : BOOLEAN, inode : Inode] /\ Error.ok = FALSE
  BY DEF NoInode, Error, Inode, Flags
<1>2. TypeOK /\ drive \in Drives
  BY <1>1, DrivesAssumption, WordSizeAssumption DEF Init, TypeOK
<1>3. QED BY <1>1, <1>2 DEF Init, IInv, ChainInRange, NeedsReadablePrimary

LEMMA Inductive == Spec => []IInv
<1>1. IInv /\ [Next]_vars => IInv'
  BY TypeInductive, RangeInductive, PrimaryInductive DEF IInv
<1>2. QED BY InitEstablishes, <1>1, PTL DEF Spec

-----------------------------------------------------------------------------
(* Every state of a lookup is well typed: the hashed id is a u32 and every
   inode returned was parsed from the image. *)
THEOREM TypeCorrect == Spec => []TypeOK
<1>1. IInv => TypeOK
  BY DEF IInv
<1>2. QED BY Inductive, <1>1, PTL

(* A chain never leaves the table, whatever the flags and the recorded ids
   of the inodes on it are: the loop of get_inode_from_fsid makes at most
   inode_count reads and never divides by zero. *)
THEOREM ChainAlwaysInRange == Spec => []ChainInRange
<1>1. IInv => ChainInRange
  BY DEF IInv
<1>2. QED BY Inductive, <1>1, PTL

(* No lookup gets past an unreadable primary copy of the hashed inode, even
   if the fsid is stored elsewhere on its chain or in its backup place. *)
THEOREM PrimaryAlwaysNeeded == Spec => []NeedsReadablePrimary
<1>1. IInv => NeedsReadablePrimary
  BY DEF IInv
<1>2. QED BY Inductive, <1>1, PTL

-----------------------------------------------------------------------------
(***************************************************************************)
(* A stored fsid is found.  On a drive that keeps the INode zones in the   *)
(* first volume every read of the lookup returns the inode of the slot it  *)
(* is for, so the lookup walks from the hashed slot to the one that holds  *)
(* the fsid, and no exit is open to it on the way.                         *)
(***************************************************************************)
Base(d, fsid) == Hash(fsid, d.inode_count - 1)
Record(d, k) == CopyAt(d, SectorForInode(d, k, FALSE)).inode

(* Where a lookup can be while the fsid is in slot id. *)
OnTheWay(id) ==
  LET base == Base(drive, queried_fsid)
  IN  /\ pc \notin {"fallback", "panicked"}
      /\ pc # "hash" => inode = base
      /\ pc \in {"backup", "chain"} => base < id
      /\ pc = "chain" =>
           /\ current_inode_id \in base..(id - 1)
           /\ current_inode = Record(drive, current_inode_id)
           /\ inode_id_base = base
      /\ pc = "done" => result.ok /\ Holds(drive, id, result.inode)

(* All that is asked of the drive: the first volume starts at MFS sector 0,
   and the sectors of the zones are numbers. *)
Layout(d) ==
  /\ d.volumes \in Seq(Volume) /\ d.volumes # <<>>
  /\ d.volumes[1].sector_start = 0
  /\ DOMAIN d.zones \subseteq Nat
  /\ \A i \in DOMAIN d.zones :
       d.zones[i].first_sector \in Nat /\ d.zones[i].backup_sector \in Nat
  /\ d.inode_count \in Nat

Sought(id) ==
  /\ id \in Slots(drive)
  /\ ~drive.failing
  /\ InFirstVolume(drive)
  /\ Stored(drive, queried_fsid, id)

StoredInv == \A id \in Slots(drive) : Sought(id) => OnTheWay(id)

(* What Stored says, slot by slot. *)
LEMMA StoredSlots ==
  ASSUME NEW d, NEW fsid, NEW id, Stored(d, fsid, id)
  PROVE  /\ Base(d, fsid) \in 0..id
         /\ \A k \in Base(d, fsid)..id : k \in Slots(d) /\ Holds(d, k, Record(d, k))
         /\ Record(d, id).fsid = fsid
         /\ \A k \in Base(d, fsid)..(id - 1) :
              Record(d, k).fsid # fsid /\ Record(d, k).flags = {"chained"}
BY DEF Stored, Base, Record

LEMMA DriveHasLayout == ASSUME NEW d, IsDrive(d) PROVE Layout(d)
<1>1. /\ d.volumes \in Seq(Volume) /\ DOMAIN d.volumes # {} /\ d.zones \in Seq(InodeZone)
      /\ Adjoining(d.volumes) /\ d.inode_count \in 0..(WordSize - 1)
  BY DEF IsDrive, Covering
<1>2. d.volumes # <<>> /\ d.volumes[1].sector_start = 0
  <2>1. 1 \in DOMAIN d.volumes
    BY <1>1
  <2>2. QED BY <1>1, <2>1 DEF Adjoining
<1>3. DOMAIN d.zones \subseteq Nat /\ d.inode_count \in Nat
  BY <1>1
<1>4. \A i \in DOMAIN d.zones :
        d.zones[i].first_sector \in Nat /\ d.zones[i].backup_sector \in Nat
  <2>1. \A i \in DOMAIN d.zones : d.zones[i] \in InodeZone
    BY <1>1
  <2>2. QED BY <2>1 DEF InodeZone
<1>5. QED BY <1>1, <1>2, <1>3, <1>4 DEF Layout

(* `find` among the zones returns the first one with room for the id. *)
LEMMA FirstFitFits ==
  ASSUME NEW d, DOMAIN d.zones \subseteq Nat, NEW id, FitsIn(d, id) # {}
  PROVE  FirstFit(d, id) \in FitsIn(d, id)
<1>1. FitsIn(d, id) \in SUBSET Nat
  BY DEF FitsIn
<1>2. QED BY <1>1, LeastNat DEF FirstFit

LEMMA SectorType ==
  ASSUME NEW d, Layout(d), NEW id \in Nat, NEW backup \in BOOLEAN
  PROVE  SectorForInode(d, id, backup) \in Nat
<1>1. CASE id >= d.inode_count \/ FitsIn(d, id) = {}
  BY <1>1 DEF SectorForInode
<1>2. CASE ~(id >= d.inode_count \/ FitsIn(d, id) = {})
  <2> DEFINE zone == d.zones[FirstFit(d, id)]
  <2>1. zone.first_sector \in Nat /\ zone.backup_sector \in Nat
    BY <1>2, FirstFitFits DEF Layout, FitsIn
  <2>2. QED BY <1>2, <2>1 DEF SectorForInode
<1>3. QED BY <1>1, <1>2

(* In the first volume every sector of an inode is mapped, and the reads that
   forget to rebase it look in the same place. *)
LEMMA ReadsInFirstVolume ==
  ASSUME NEW d, Layout(d), InFirstVolume(d), NEW id \in 0..(d.inode_count - 1),
         NEW backup \in BOOLEAN
  PROVE  LET s == SectorForInode(d, id, backup)
         IN  /\ Covering(d.volumes, s) # {}
             /\ UnrebasedLocation(d.volumes, s) = SectorToDiskLocation(d.volumes, s)
<1> DEFINE vols == d.volumes
           s == SectorForInode(d, id, backup)
<1>1. s \in Nat /\ s < vols[1].sector_count
  <2>1. id \in Nat
    BY DEF Layout
  <2>2. s \in Nat
    BY <2>1, SectorType
  <2>3. QED BY <2>2 DEF InFirstVolume
<1>2. vols \in Seq(Volume) /\ DOMAIN vols # {}
  BY DEF Layout
<1>3. 1 \in DOMAIN vols /\ vols[1] \in Volume
  BY <1>2
<1>4. vols[1].sector_start = 0
  BY DEF Layout
<1> HIDE DEF s
<1>5. Covers(vols[1], s)
  BY <1>1, <1>3, <1>4 DEF Covers, EndOf, Volume
<1>6. 1 \in Covering(vols, s)
  BY <1>3, <1>5 DEF Covering
<1>7. VolumeIndex(vols, s) \in DOMAIN vols /\ VolumeIndex(vols, s) <= 1
  BY <1>2, <1>3, <1>5, <1>6, VolumeIndexIsFirst
<1>8. VolumeIndex(vols, s) = 1
  BY <1>2, <1>7
<1>9. vols[1].disk_sector \in Nat
  BY <1>3 DEF Volume
<1>10. UnrebasedLocation(vols, s) = SectorToDiskLocation(vols, s)
  BY <1>1, <1>4, <1>8, <1>9
  DEF UnrebasedLocation, SectorToDiskLocation, FindSectorVolume
<1>11. QED BY <1>6, <1>10 DEF s

(* On its way the lookup reads the inode of the slot it is at. *)
LEMMA ReadsTheSlot ==
  ASSUME Layout(drive), NEW id, Sought(id), OnTheWay(id), Reading
  PROVE  LET k == IF pc = "chain" THEN current_inode_id + 1 ELSE inode
         IN  /\ k \in Base(drive, queried_fsid)..id
             /\ Mapped
             /\ Block = [kind |-> "inode", inode |-> Record(drive, k)]
<1> DEFINE base == Base(drive, queried_fsid)
           k == IF pc = "chain" THEN current_inode_id + 1 ELSE inode
           backup == pc = "backup"
<1>1. drive.inode_count \in Nat
  BY DEF Layout
<1>2. pc \in {"primary", "backup", "chain"} /\ base \in 0..id /\ id \in Nat
  BY StoredSlots DEF Sought, OnTheWay, Reading, Reads, Slots
<1>3. k \in base..id
  <2>1. CASE pc = "chain"
    <3>1. current_inode_id \in base..(id - 1)
      BY <2>1 DEF OnTheWay
    <3>2. QED BY <1>2, <2>1, <3>1
  <2>2. CASE pc # "chain"
    <3>1. inode = base
      BY <1>2, <2>2 DEF OnTheWay
    <3>2. QED BY <1>2, <2>2, <3>1
  <2>3. QED BY <2>1, <2>2
<1> HIDE DEF base
<1>4. k \in 0..(drive.inode_count - 1) /\ Holds(drive, k, Record(drive, k))
  BY <1>3, StoredSlots DEF Sought, Slots, base
<1>5. Wanted = SectorForInode(drive, k, backup) /\ backup \in BOOLEAN
  BY <1>2 DEF Wanted
<1> HIDE DEF k, backup
<1>6. /\ Covering(drive.volumes, Wanted) # {}
      /\ UnrebasedLocation(drive.volumes, Wanted)
           = SectorToDiskLocation(drive.volumes, Wanted)
  BY <1>1, <1>4, <1>5, ReadsInFirstVolume DEF Sought
<1>7. Block = CopyAt(drive, SectorForInode(drive, k, backup))
  BY <1>5, <1>6 DEF Block, Location, CopyAt
<1>8. Block = [kind |-> "inode", inode |-> Record(drive, k)]
  BY <1>4, <1>5, <1>7 DEF Holds
<1>9. QED BY <1>3, <1>6, <1>8 DEF Mapped, k, base

(* No step leads a lookup off its way. *)
LEMMA StaysOnTheWay ==
  ASSUME Layout(drive), NEW id, Sought(id), OnTheWay(id), Next
  PROVE  OnTheWay(id)'
<1> DEFINE base == Base(drive, queried_fsid)
           k == IF pc = "chain" THEN current_inode_id + 1 ELSE inode
<1>1. UNCHANGED <<drive, queried_fsid>>
  BY DEF Next, HashInode, HashUnderflows, SectorPanics, ReadFails, Unparsable, Found,
         TryBackup, EnterChain, FollowChain, LeaveChain, ReturnHashed, Finish
<1>2. /\ base \in 0..id /\ id \in Nat /\ id < drive.inode_count
      /\ drive.inode_count \in Nat /\ ~drive.failing
  BY StoredSlots DEF Sought, Slots, Layout
<1>3. \A j \in base..id : Holds(drive, j, Record(drive, j))
  BY StoredSlots DEF Sought
<1>4. Record(drive, id).fsid = queried_fsid
  BY StoredSlots DEF Sought
<1>5. \A j \in base..(id - 1) : /\ Record(drive, j).fsid # queried_fsid
                                /\ Record(drive, j).flags = {"chained"}
  BY StoredSlots DEF Sought
<1>6. Reading => /\ k \in base..id
                 /\ Mapped
                 /\ Block = [kind |-> "inode", inode |-> Record(drive, k)]
  BY ReadsTheSlot
<1>7. Base(drive, queried_fsid)' = base /\ \A j : Record(drive, j)' = Record(drive, j)
  BY <1>1 DEF Base, Record, CopyAt
<1>8. CASE HashInode
  <2>1. pc' = "primary" /\ inode' = base
    BY <1>8 DEF HashInode, Base
  <2>2. QED BY <1>7, <2>1 DEF OnTheWay
<1>9. CASE HashUnderflows
  BY <1>2, <1>9 DEF HashUnderflows
<1>10. CASE SectorPanics \/ ReadFails \/ Unparsable
  BY <1>2, <1>6, <1>10 DEF SectorPanics, ReadFails, Unparsable
<1>11. ASSUME Reading
       PROVE  (Matches => k = id) /\ (~Matches => k \in base..(id - 1))
  <2>1. k \in base..id /\ (Matches <=> Record(drive, k).fsid = queried_fsid)
    BY <1>6, <1>11 DEF Matches
  <2> HIDE DEF k, base
  <2>2. k = id \/ k \in base..(id - 1)
    BY <1>2, <2>1
  <2>3. QED BY <1>4, <1>5, <2>1, <2>2
<1>12. CASE Found
  <2>1. Reading /\ Matches /\ pc # "fallback" /\ pc' = "done" /\ UNCHANGED inode
    BY <1>12 DEF Found, Readable, Finish
  <2>2. result' = [ok |-> TRUE, inode |-> Record(drive, id)]
    <3>1. k = id
      BY <1>11, <2>1
    <3>2. Block.inode = Record(drive, k)
      BY <1>6, <2>1
    <3>3. QED BY <1>12, <3>1, <3>2 DEF Found, Finish
  <2>3. inode = base
    BY <2>1 DEF OnTheWay, Reading, Reads
  <2>4. Holds(drive, id, Record(drive, id))
    BY <1>2, <1>3
  <2>5. result'.ok /\ result'.inode = Record(drive, id)
    BY <2>2
  <2>6. QED BY <1>1, <1>7, <2>1, <2>3, <2>4, <2>5 DEF OnTheWay
<1>13. CASE TryBackup
  <2>1. pc = "primary" /\ pc' = "backup" /\ inode' = inode /\ ~Matches /\ Reading
    BY <1>13 DEF TryBackup, Readable
  <2>2. inode = base
    BY <2>1 DEF OnTheWay
  <2>3. base < id
    BY <1>2, <1>11, <2>1, <2>2
  <2>4. QED BY <1>7, <2>1, <2>2, <2>3 DEF OnTheWay
<1>14. CASE EnterChain
  <2>1. /\ pc = "backup" /\ pc' = "chain" /\ UNCHANGED inode
        /\ inode_id_base' = Record(drive, k).inode /\ current_inode_id' = inode
        /\ current_inode' = Record(drive, k)
    BY <1>6, <1>14 DEF EnterChain, Readable
  <2>2. inode = base /\ base < id
    BY <2>1 DEF OnTheWay
  <2>3. k = base
    BY <2>1, <2>2
  <2>4. base \in base..id /\ base \in base..(id - 1)
    BY <1>2, <2>2
  <2>5. Record(drive, base).inode = base
    BY <1>3, <2>4 DEF Holds
  <2>6. QED BY <1>7, <2>1, <2>2, <2>3, <2>4, <2>5 DEF OnTheWay
<1>15. CASE FollowChain
  <2>1. /\ pc = "chain" /\ pc' = "chain" /\ UNCHANGED <<inode, inode_id_base>>
        /\ current_inode_id' = k /\ current_inode' = Record(drive, k)
        /\ k \in base..(id - 1)
    BY <1>6, <1>11, <1>15 DEF FollowChain, Readable
  <2>2. inode = base /\ base < id /\ inode_id_base = base
    BY <2>1 DEF OnTheWay
  <2>3. QED BY <1>7, <2>1, <2>2 DEF OnTheWay
<1>16. CASE LeaveChain
  <2>1. /\ current_inode_id \in base..(id - 1)
        /\ current_inode = Record(drive, current_inode_id)
        /\ inode_id_base = base
    BY <1>16 DEF LeaveChain, OnTheWay
  <2>2. (current_inode_id + 1) % drive.inode_count = current_inode_id + 1
    BY <1>2, <2>1
  <2>3. ChainGoesOn
    BY <1>2, <1>5, <2>1, <2>2 DEF ChainGoesOn
  <2>4. QED BY <1>16, <2>3 DEF LeaveChain
<1>17. CASE ReturnHashed
  BY <1>17 DEF ReturnHashed, OnTheWay
<1>18. QED
  BY <1>8, <1>9, <1>10, <1>12, <1>13, <1>14, <1>15, <1>16, <1>17 DEF Next

LEMMA StoredInductive == Spec => []StoredInv
<1>1. Init => StoredInv
  BY DEF Init, StoredInv, OnTheWay
<1>2. IInv /\ StoredInv /\ [Next]_vars => StoredInv'
  <2> SUFFICES ASSUME IInv, StoredInv, [Next]_vars, NEW id \in Slots(drive)', Sought(id)'
               PROVE  OnTheWay(id)'
    BY DEF StoredInv
  <2>1. UNCHANGED <<drive, queried_fsid>>
    BY DEF Next, vars, HashInode, HashUnderflows, SectorPanics, ReadFails, Unparsable,
           Found, TryBackup, EnterChain, FollowChain, LeaveChain, ReturnHashed, Finish
  <2>2. id \in Slots(drive) /\ Sought(id)
    BY <2>1 DEF Sought
  <2>3. OnTheWay(id)
    BY <2>2 DEF StoredInv
  <2>4. CASE Next
    <3>1. Layout(drive)
      BY DriveHasLayout, SMTT(30) DEF IInv, TypeOK
    <3>2. QED BY <2>2, <2>3, <2>4, <3>1, StaysOnTheWay
  <2>5. CASE UNCHANGED vars
    BY <2>3, <2>5, ZenonT(40) DEF vars, OnTheWay, Base, Record, Holds, CopyAt, SectorForInode,
                      FitsIn, FirstFit
  <2>6. QED BY <2>4, <2>5
<1>3. QED BY Inductive, <1>1, <1>2, PTL DEF Spec

(* An fsid stored in a chain that starts at its hash is found, and the inode
   returned is the one stored, whatever else the drive holds. *)
THEOREM StoredAlwaysFound == Spec => []StoredIsFound
<1>1. StoredInv => StoredIsFound
  BY DEF StoredInv, StoredIsFound, Sought, OnTheWay
<1>2. QED BY StoredInductive, <1>1, PTL
=============================================================================
