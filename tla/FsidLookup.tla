----------------------------- MODULE FsidLookup -----------------------------
(***************************************************************************)
(* TivoDrive::get_inode_from_fsid: one lookup of an inode by its fsid.     *)
(*                                                                         *)
(* The fsid hashes to an inode id.  The lookup reads the inode at the      *)
(* primary place of that id, then at its backup place, then follows the    *)
(* ids upwards while the inodes carry the chained flag, and in the end     *)
(* reads the backup place once more and returns whatever inode is there.   *)
(* Every read can end the lookup with an error (`?`).  The first two reads *)
(* rebase the MFS sector to its volume; the later two add the whole MFS    *)
(* sector to the start of the volume's partition.                          *)
(*                                                                         *)
(* One step is one read of the image with the comparison that follows it.  *)
(* The drive is a TivoDrive as from_disk_image leaves it; it has a volume  *)
(* that starts at MFS sector 0 and a volume header in that sector.         *)
(***************************************************************************)
EXTENDS SectorMap, SequencesExt

CONSTANTS
  Drives,      \* the drives considered: [volumes, zones, inode_count, image,
               \* failing]
  Queries,     \* the fsids asked for
  WordSize,    \* 2^32 in the code
  Hash(_, _)   \* fsid_hash

Flags == {"chained", "data_in_header"}

(* struct MFSINode, the fields the lookup looks at *)
Inode == [fsid : Nat, inode : Nat, flags : SUBSET Flags]

(* struct MFSZone, the fields the lookup looks at *)
InodeZone == [type : {"INode", "Application", "Media", "Max"}, first_sector : Nat,
              backup_sector : Nat, size : Nat]

(* from_disk_image: the number of sectors of all INode zones, as a u32. *)
InodeCount(zones) ==
  FoldLeft(LAMBDA acc, z : acc + (IF z.type = "INode" THEN z.size ELSE 0), 0, zones)

(* The sectors of the drive a lookup works with.  The volumes are numbered
   from MFS sector 0 on; the first MFS sector holds the volume header that
   from_disk_image has parsed: no inode.  Seeking and reading a failing drive
   may fail. *)
IsDrive(d) ==
  /\ d.volumes \in Seq(Volume)
  /\ Adjoining(d.volumes)
  /\ d.zones \in Seq(InodeZone)
  /\ d.failing \in BOOLEAN
  /\ d.inode_count \in 0..(WordSize - 1)
  /\ \A loc \in DOMAIN d.image.blocks :
       d.image.blocks[loc].kind = "inode" => d.image.blocks[loc].inode \in Inode
  /\ Covering(d.volumes, 0) # {}
  /\ BlockAt(d.image, SectorToDiskLocation(d.volumes, 0)).kind # "inode"

ASSUME WordSizeAssumption == WordSize \in Nat \ {0}
ASSUME QueriesAssumption == Queries \subseteq 0..(WordSize - 1)
ASSUME DrivesAssumption == \A d \in Drives : IsDrive(d)
ASSUME HashAssumption ==
  \A f \in Queries, d \in Drives :
    \A m \in {d.inode_count - 1, WordSize - 1} \cap Nat : Hash(f, m) \in 0..m

VARIABLES
  drive,               \* the drive; never changes
  queried_fsid,        \* the fsid asked for
  pc,                  \* the next read, or how the lookup has ended
  inode,               \* the hashed inode id
  inode_id_base,       \* the id recorded in the hashed inode's backup copy
  current_inode_id,    \* the id the chain has reached
  current_inode,       \* the inode read last
  result               \* what the lookup returns: [ok, inode]

vars == <<drive, queried_fsid, pc, inode, inode_id_base, current_inode_id,
          current_inode, result>>

Reads == {"primary", "backup", "chain", "fallback"}
NoInode == [fsid |-> 0, inode |-> 0, flags |-> {}]
Error == [ok |-> FALSE, inode |-> NoInode]

TypeOK ==
  /\ IsDrive(drive)
  /\ queried_fsid \in Queries
  /\ pc \in Reads \cup {"hash", "done", "panicked"}
  /\ inode \in 0..(WordSize - 1)
  /\ inode_id_base \in Nat
  /\ current_inode_id \in Nat
  /\ current_inode \in Inode
  /\ result \in [ok : BOOLEAN, inode : Inode]

Init ==
  /\ drive \in Drives
  /\ queried_fsid \in Queries
  /\ pc = "hash"
  /\ inode = 0
  /\ inode_id_base = 0
  /\ current_inode_id = 0
  /\ current_inode = NoInode
  /\ result = Error

-----------------------------------------------------------------------------
(* sector_for_inode.  Each INode zone is asked whether 2 * id fits into it,
   the sectors of the zones before it are not subtracted; 0 is "nowhere". *)

FitsIn(d, id) ==
  {i \in DOMAIN d.zones : d.zones[i].type = "INode" /\ 2 * id < d.zones[i].size}

FirstFit(d, id) == CHOOSE i \in FitsIn(d, id) : \A j \in FitsIn(d, id) : i <= j

(* Slip: an id without a zone of its own wraps to the start of the first. *)
SectorWrapped(d, id, backup) ==
  LET zone == d.zones[FirstFit(d, 0)]
  IN  IF FitsIn(d, 0) = {} THEN 0
      ELSE ((2 * id) % zone.size)
             + (IF backup THEN zone.backup_sector + 1 ELSE zone.first_sector)

SectorForInode(d, id, backup) ==
  IF id >= d.inode_count \/ FitsIn(d, id) = {} THEN 0
  ELSE LET zone == d.zones[FirstFit(d, id)]
       IN  2 * id + (IF backup THEN zone.backup_sector + 1 ELSE zone.first_sector)

(* The address of the chain reads and of the last read: the volume's first
   drive sector plus the MFS sector itself. *)
UnrebasedLocation(vols, s) == FindSectorVolume(vols, s).disk_sector + s

-----------------------------------------------------------------------------
(* The read the lookup is about to make. *)

ChainGoesOn ==
  /\ current_inode.fsid # queried_fsid
  /\ current_inode.flags = {"chained"}
  /\ (current_inode_id + 1) % drive.inode_count # inode_id_base

Reading == pc \in Reads /\ (pc = "chain" => ChainGoesOn)

Wanted ==
  IF pc = "chain" THEN SectorForInode(drive, current_inode_id + 1, FALSE)
                  ELSE SectorForInode(drive, inode, pc # "primary")

Mapped == Covering(drive.volumes, Wanted) # {}

Location ==
  IF pc \in {"primary", "backup"} THEN SectorToDiskLocation(drive.volumes, Wanted)
                                  ELSE UnrebasedLocation(drive.volumes, Wanted)

Block == BlockAt(drive.image, Location)

(* The read succeeds and the bytes parse as an inode. *)
Readable == Reading /\ Mapped /\ Block.kind = "inode"
Matches == Block.inode.fsid = queried_fsid

Finish(r) ==
  /\ pc' = "done"
  /\ result' = r
  /\ UNCHANGED <<drive, queried_fsid, inode, inode_id_base, current_inode_id,
                 current_inode>>

-----------------------------------------------------------------------------
HashInode ==
  /\ pc = "hash"
  /\ drive.inode_count > 0
  /\ inode' = Hash(queried_fsid, drive.inode_count - 1)
  /\ pc' = "primary"
  /\ UNCHANGED <<drive, queried_fsid, inode_id_base, current_inode_id, current_inode,
                 result>>

(* A drive without INode zones: the mask inode_count - 1 underflows.  A build
   with overflow checks panics, a release build hashes with all bits set. *)
HashUnderflows ==
  /\ pc = "hash"
  /\ drive.inode_count = 0
  /\ \/ pc' = "panicked" /\ UNCHANGED inode
     \/ pc' = "primary" /\ inode' = Hash(queried_fsid, WordSize - 1)
  /\ UNCHANGED <<drive, queried_fsid, inode_id_base, current_inode_id, current_inode,
                 result>>

SectorPanics ==
  /\ Reading
  /\ ~Mapped
  /\ pc' = "panicked"
  /\ UNCHANGED <<drive, queried_fsid, inode, inode_id_base, current_inode_id,
                 current_inode, result>>

ReadFails ==
  /\ Reading
  /\ Mapped
  /\ drive.failing
  /\ Finish(Error)

Unparsable ==
  /\ Reading
  /\ Mapped
  /\ Block.kind # "inode"
  /\ Finish(Error)

Found ==
  /\ Readable
  /\ pc # "fallback"
  /\ Matches
  /\ Finish([ok |-> TRUE, inode |-> Block.inode])

(* Slip: the backup place is tried after an unreadable primary copy too. *)
TryBackupUnread ==
  /\ Reading
  /\ Mapped
  /\ pc = "primary"
  /\ Block.kind = "inode" => ~Matches
  /\ pc' = "backup"
  /\ UNCHANGED <<drive, queried_fsid, inode, inode_id_base, current_inode_id,
                 current_inode, result>>

TryBackup ==
  /\ Readable
  /\ pc = "primary"
  /\ ~Matches
  /\ pc' = "backup"
  /\ UNCHANGED <<drive, queried_fsid, inode, inode_id_base, current_inode_id,
                 current_inode, result>>

EnterChain ==
  /\ Readable
  /\ pc = "backup"
  /\ ~Matches
  /\ pc' = "chain"
  /\ inode_id_base' = Block.inode.inode
  /\ current_inode_id' = inode
  /\ current_inode' = Block.inode
  /\ UNCHANGED <<drive, queried_fsid, inode, result>>

(* Slip: the chain's id is counted in sectors. *)
FollowChainBySectors ==
  /\ Readable
  /\ pc = "chain"
  /\ ~Matches
  /\ current_inode_id' = current_inode_id + 2
  /\ current_inode' = Block.inode
  /\ UNCHANGED <<drive, queried_fsid, pc, inode, inode_id_base, result>>

(* Slip: the chain's id is not moved on. *)
FollowChainInPlace ==
  /\ Readable
  /\ pc = "chain"
  /\ ~Matches
  /\ current_inode' = Block.inode
  /\ UNCHANGED <<drive, queried_fsid, pc, inode, inode_id_base, current_inode_id,
                 result>>

(* Slip: the id is brought back into the table without a test. *)
FollowChainSubtract ==
  /\ Readable
  /\ pc = "chain"
  /\ ~Matches
  /\ current_inode_id' = current_inode_id + 1 - drive.inode_count
  /\ current_inode' = Block.inode
  /\ UNCHANGED <<drive, queried_fsid, pc, inode, inode_id_base, result>>

FollowChain ==
  /\ Readable
  /\ pc = "chain"
  /\ ~Matches
  /\ current_inode_id' = current_inode_id + 1
  /\ current_inode' = Block.inode
  /\ UNCHANGED <<drive, queried_fsid, pc, inode, inode_id_base, result>>

LeaveChain ==
  /\ pc = "chain"
  /\ ~ChainGoesOn
  /\ pc' = "fallback"
  /\ UNCHANGED <<drive, queried_fsid, inode, inode_id_base, current_inode_id,
                 current_inode, result>>

ReturnHashed ==
  /\ Readable
  /\ pc = "fallback"
  /\ Finish([ok |-> TRUE, inode |-> Block.inode])

Next ==
  \/ HashInode
  \/ HashUnderflows
  \/ SectorPanics
  \/ ReadFails
  \/ Unparsable
  \/ Found
  \/ TryBackup
  \/ EnterChain
  \/ FollowChain
  \/ LeaveChain
  \/ ReturnHashed

Spec == Init /\ [][Next]_vars

(* The lookup is a function running on its caller's thread: it is never
   interrupted between two of its steps for ever. *)
FairSpec == Spec /\ WF_vars(Next)
-----------------------------------------------------------------------------
(***************************************************************************)
(* Properties.                                                             *)
(***************************************************************************)

(* What the drive holds where MFS sector s really is. *)
CopyAt(d, s) == BlockAt(d.image, SectorToDiskLocation(d.volumes, s))

(* The INode zones lie in the first volume, with everything sector_for_inode
   can make of them: rebasing changes nothing there. *)
InFirstVolume(d) ==
  \A id \in 0..(d.inode_count - 1), backup \in BOOLEAN :
    SectorForInode(d, id, backup) < d.volumes[1].sector_count

(* The inode ids a single INode zone has room for: two sectors each. *)
Slots(d) == {id \in 0..(d.inode_count - 1) : FitsIn(d, id) # {}}

(* The inode in slot id, intact in both places the lookup knows. *)
Holds(d, id, record) ==
  /\ CopyAt(d, SectorForInode(d, id, FALSE)) = [kind |-> "inode", inode |-> record]
  /\ CopyAt(d, SectorForInode(d, id, TRUE)) = [kind |-> "inode", inode |-> record]
  /\ record.inode = id

(* fsid is stored in slot id the way a chained table stores it: the slots
   from the hashed one up to it hold other fsids, each marked as chained. *)
Stored(d, fsid, id) ==
  LET base == Hash(fsid, d.inode_count - 1)
      Record(k) == CopyAt(d, SectorForInode(d, k, FALSE)).inode
  IN  /\ base \in 0..id
      /\ base..id \subseteq Slots(d)
      /\ \A k \in base..id : CopyAt(d, SectorForInode(d, k, FALSE)).kind = "inode"
      /\ \A k \in base..id : Holds(d, k, Record(k))
      /\ Record(id).fsid = fsid
      /\ \A k \in base..(id - 1) : Record(k).fsid # fsid /\ Record(k).flags = {"chained"}

(* Where the places of all inode ids lie in the first volume, an fsid stored
   in a chain that starts at its hash and stays inside the table is found,
   and the inode returned is the one stored. *)
StoredIsFound ==
  \A id \in Slots(drive) :
    (pc = "done" /\ ~drive.failing /\ InFirstVolume(drive)
       /\ Stored(drive, queried_fsid, id))
    => result.ok /\ Holds(drive, id, result.inode)

(* The inode at the backup place of the hashed id. *)
Original == CopyAt(drive, SectorForInode(drive, inode, TRUE))

(* "Returning the original hashed INode even though the FSID {} was not
   found": the last read returns the inode the lookup entered the chain
   with. *)
FallbackReturnsOriginal ==
  [][pc = "fallback" /\ pc' # "fallback" /\ ~drive.failing
     => result' = [ok |-> TRUE, inode |-> Original.inode]]_vars

(* The id of the chain is never reduced modulo inode_count, yet it stays
   below it: the first id past the table leads to the volume header, which
   does not parse.  So a chain has at most inode_count reads, and the modulus
   of the loop condition is not zero. *)
ChainInRange ==
  pc \in {"chain", "fallback"} => current_inode_id < drive.inode_count

(* The backup place serves inodes whose primary copy is out of date, never
   one whose primary copy cannot be read: without a readable primary copy at
   the hashed id no lookup gets past its first read. *)
NeedsReadablePrimary ==
  (pc \in {"backup", "chain", "fallback"} \/ result.ok) =>
    CopyAt(drive, SectorForInode(drive, inode, FALSE)).kind = "inode"

(* Every lookup returns or panics, on corrupted chains too. *)
LookupReturns == <>(pc \in {"done", "panicked"})
=============================================================================
