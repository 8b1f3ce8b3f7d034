------------------------------ MODULE INodeIter ------------------------------
(***************************************************************************)
(* MFSINodeIter: the iterator MFSZoneMap::inode_iter builds over the first *)
(* INode zone.  It reads every second sector from first_sector on, until   *)
(* the sector after last_sector is reached exactly, and answers None when  *)
(* a read fails or the bytes are no inode.  None leaves the iterator where *)
(* it is: it is not fused, and a later call tries the same inode again.    *)
(*                                                                         *)
(* One step is one call of `next` or of `len` (size_hint is the same).     *)
(* Every call of `next` opens the image anew, so each may fail.            *)
(***************************************************************************)
EXTENDS SectorMap, FiniteSets

CONSTANTS
  Tables,      \* the inode tables: [volumes, first_sector, last_sector, image, failing]
  LongWord     \* 2^64 in the code, the range of usize

(* struct MFSINode; the fsid stands for the whole content *)
Inode == [fsid : Nat]

(* The image of a failing table may not open or read. *)
IsTable(t) ==
  /\ t.volumes \in Seq(Volume)
  /\ t.failing \in BOOLEAN
  /\ t.first_sector \in Nat
  /\ t.last_sector \in Nat
  /\ Covering(t.volumes, t.first_sector) # {}   \* inode_iter panics otherwise
  /\ \A loc \in DOMAIN t.image.blocks :
       t.image.blocks[loc].kind = "inode" => t.image.blocks[loc].inode \in Inode

ASSUME LongWordAssumption == LongWord \in Nat \ {0}
ASSUME TablesAssumption == \A t \in Tables : IsTable(t)

VARIABLES
  table,               \* the zone iterated over; never changes
  next_inode_sector,
  yielded,             \* history: the inodes returned so far
  last_call,           \* what the last call did: "new", "some", "none" or "len"
  len,                 \* the answer of the last call of `len`
  iter_status          \* "ok" or "panicked"

iter_vars == <<table, next_inode_sector, yielded, last_call, len, iter_status>>

IterTypeOK ==
  /\ IsTable(table)
  /\ next_inode_sector \in Nat
  /\ yielded \in Seq(Inode)
  /\ last_call \in {"new", "some", "none", "len"}
  /\ len \in 0..(LongWord - 1)
  /\ iter_status \in {"ok", "panicked"}

(* The iterator as inode_iter returns it. *)
IterInit ==
  /\ table \in Tables
  /\ next_inode_sector = table.first_sector
  /\ yielded = <<>>
  /\ last_call = "new"
  /\ len = 0
  /\ iter_status = "ok"

-----------------------------------------------------------------------------
(* partition_starting_sector + sector: the sector keeps its MFS number, it
   is not made relative to the volume. *)
Location(t, s) == FindSectorVolume(t.volumes, t.first_sector).disk_sector + s

Block == BlockAt(table.image, Location(table, next_inode_sector))

(* Slip: the end is taken to be last_sector itself. *)
BeforeLast == next_inode_sector # table.last_sector

(* Slip: the last inode of the zone is left out. *)
BeforeLastPair == next_inode_sector # table.last_sector - 1

More == next_inode_sector # table.last_sector + 1

AnswerNone ==
  /\ last_call' = "none"
  /\ UNCHANGED <<table, next_inode_sector, yielded, len, iter_status>>

EndOfTable ==
  /\ iter_status = "ok"
  /\ ~More
  /\ AnswerNone

ReadFails ==
  /\ iter_status = "ok"
  /\ More
  /\ table.failing
  /\ AnswerNone

Unparsable ==
  /\ iter_status = "ok"
  /\ More
  /\ Block.kind # "inode"
  /\ AnswerNone

(* Slip: the second copy of an inode is returned too. *)
YieldInodeEachSector ==
  /\ iter_status = "ok"
  /\ More
  /\ Block.kind = "inode"
  /\ next_inode_sector' = next_inode_sector + 1
  /\ yielded' = Append(yielded, Block.inode)
  /\ last_call' = "some"
  /\ UNCHANGED <<table, len, iter_status>>

YieldInode ==
  /\ iter_status = "ok"
  /\ More
  /\ Block.kind = "inode"
  /\ next_inode_sector' = next_inode_sector + 2
  /\ yielded' = Append(yielded, Block.inode)
  /\ last_call' = "some"
  /\ UNCHANGED <<table, len, iter_status>>

(* Slip: the difference is taken in signed arithmetic. *)
CallLenSigned ==
  /\ iter_status = "ok"
  /\ last_call' = "len"
  /\ len' = (table.last_sector - next_inode_sector) \div 2
  /\ UNCHANGED <<table, next_inode_sector, yielded, iter_status>>

(* len: the sectors between here and last_sector, halved.  Once the iterator
   has passed last_sector the usize difference underflows: a build with
   overflow checks panics, a release build wraps. *)
CallLen ==
  /\ iter_status = "ok"
  /\ last_call' = "len"
  /\ \/ /\ next_inode_sector <= table.last_sector
        /\ len' = ((table.last_sector - next_inode_sector) \div 2) % LongWord
        /\ UNCHANGED iter_status
     \/ /\ next_inode_sector > table.last_sector
        /\ \/ iter_status' = "panicked" /\ UNCHANGED len
           \/ /\ len' = ((table.last_sector - next_inode_sector) % LongWord) \div 2
              /\ UNCHANGED iter_status
  /\ UNCHANGED <<table, next_inode_sector, yielded>>

NextCall ==
  \/ EndOfTable
  \/ ReadFails
  \/ Unparsable
  \/ YieldInode

IterNext == NextCall \/ CallLen

IterSpec == IterInit /\ [][IterNext]_iter_vars

-----------------------------------------------------------------------------
(***************************************************************************)
(* Properties.                                                             *)
(***************************************************************************)

(* Where MFS sector s of the table really is. *)
CopyAt(s) == BlockAt(table.image, SectorToDiskLocation(table.volumes, s))
SlotSector(i) == table.first_sector + 2 * i

(* The zone lies in the first volume, which starts at MFS sector 0, and so
   do the sectors the iterator has come to. *)
InFirstVolume ==
  /\ table.volumes[1].sector_start = 0
  /\ \A i \in 0..Len(yielded) : Covers(table.volumes[1], SlotSector(i))

(* The zone holds whole pairs of sectors, as on the drive of mfstool.log. *)
Paired == \E n \in 0..table.last_sector : table.last_sector + 1 = SlotSector(n)
Slots == {i \in 0..table.last_sector : SlotSector(i) <= table.last_sector}

(* The first copy of every slot can be read where the iterator looks. *)
Intact ==
  /\ Paired
  /\ InFirstVolume
  /\ \A i \in Slots : CopyAt(SlotSector(i)).kind = "inode"

(* In the first volume, and however many calls failed and were repeated in
   between, the i-th inode returned is the one in slot i - 1 of the zone:
   no slot is skipped or returned twice. *)
SlotsInOrder ==
  InFirstVolume =>
    \A i \in 1..Len(yielded) :
      /\ CopyAt(SlotSector(i - 1)).kind = "inode"
      /\ CopyAt(SlotSector(i - 1)).inode = yielded[i]

(* The test for the end of the zone is an inequality with a step of two; on
   a zone of whole pairs it still stops the iterator at the end, also when
   inodes follow behind the zone. *)
StaysInTable == Paired => Len(yielded) <= Cardinality(Slots)

(* On an intact zone, None without an I/O error means that every slot was
   returned. *)
NoneMeansAll ==
  (last_call = "none" /\ ~table.failing /\ Intact) => Len(yielded) = Cardinality(Slots)
=============================================================================
