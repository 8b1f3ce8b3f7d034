------------------------------- MODULE ZoneMap -------------------------------
(***************************************************************************)
(* MFSZoneMap: a cursor over the linked list of zone maps on the drive,    *)
(* and its three consumers.  `next` reads the zone map the cursor points   *)
(* at, falls back to the backup copy when the bytes do not parse, and      *)
(* moves the cursor to the pointers stored in the zone it returns.         *)
(* Vec::from_iter (in TivoDrive::from_disk_image), inode_iter (a `find`)   *)
(* and inode_count (a `filter` and `sum`) all advance the same cursor.     *)
(*                                                                         *)
(* One step is one call of `next` together with what its consumer does     *)
(* with the result.  Every read opens the image file again, so each may    *)
(* fail on its own: `Fault` is that outcome.  The number of blocks to read *)
(* is fixed to 1 in the code and next_zonemap_size only reaches error      *)
(* messages, so the size is left out of the cursor.                        *)
(***************************************************************************)
EXTENDS SectorMap, SequencesExt

CONSTANTS
  Drives,     \* the drives considered: [volumes, chain, image, failing]
  WordSize    \* 2^32 in the code

ZoneType == {"INode", "Application", "Media", "Max"}

(* struct MFSZone, the fields the rest of the program uses *)
Zone == [type : ZoneType, next_zonemap_ptr : Nat, backup_next_zonemap_ptr : Nat,
         backup_sector : Nat, first_sector : Nat, last_sector : Nat, size : Nat]

(* One zone of the list the TiVo wrote: the MFS sectors of its two copies
   and its content. *)
Link == [ptr : Nat, backup : Nat, zone : Zone]

(* A failing drive is one of which the image may not open or read. *)
IsDrive(d) ==
  /\ d.volumes \in Seq(Volume)
  /\ d.failing \in BOOLEAN
  /\ d.chain \in Seq(Link)
  /\ \A loc \in DOMAIN d.image.blocks :
       d.image.blocks[loc].kind = "zone" => d.image.blocks[loc].zone \in Zone

Callers == {"from_iter", "inode_iter", "inode_count"}

ASSUME WordSizeAssumption == WordSize \in Nat \ {0}
ASSUME DrivesAssumption == \A d \in Drives : IsDrive(d)

VARIABLES
  drive,      \* the drive being read; never changes
  next_zonemap_ptr, backup_next_zonemap_ptr,   \* the cursor
  caller,     \* the consumer running, or "none"
  yielded,    \* history: every zone `next` has returned, in order
  from,       \* Len(yielded) when the running or last consumer was called
  sum,        \* inode_count's running sum
  answer,     \* what the last consumer returned
  status      \* "ok" or "panicked"

cursor == <<next_zonemap_ptr, backup_next_zonemap_ptr>>
vars == <<drive, cursor, caller, yielded, from, sum, answer, status>>

NoAnswer == [op |-> "none", ok |-> FALSE, first |-> 0, last |-> 0, value |-> 0]

TypeOK ==
  /\ IsDrive(drive)
  /\ next_zonemap_ptr \in Nat
  /\ backup_next_zonemap_ptr \in Nat
  /\ caller \in Callers \cup {"none"}
  /\ yielded \in Seq(Zone)
  /\ from \in 0..Len(yielded)
  /\ sum \in 0..(WordSize - 1)
  /\ answer \in [op : Callers \cup {"none"}, ok : BOOLEAN, first : Nat,
                 last : Nat, value : Nat]
  /\ status \in {"ok", "panicked"}

(* MFSZoneMap::new with the pointers of the volume header.  An empty list
   has a null pointer there. *)
Init ==
  /\ drive \in Drives
  /\ next_zonemap_ptr = IF drive.chain = <<>> THEN 0 ELSE drive.chain[1].ptr
  /\ backup_next_zonemap_ptr = IF drive.chain = <<>> THEN 0 ELSE drive.chain[1].backup
  /\ caller = "none"
  /\ yielded = <<>>
  /\ from = 0
  /\ sum = 0
  /\ answer = NoAnswer
  /\ status = "ok"

-----------------------------------------------------------------------------
(* MFSZone::parse.  A block of zeros parses: its type word 0 is INode, the
   four bytes the parser insists on are zero, and every field is 0. *)
ZeroZone == [type |-> "INode", next_zonemap_ptr |-> 0, backup_next_zonemap_ptr |-> 0,
             backup_sector |-> 0, first_sector |-> 0, last_sector |-> 0, size |-> 0]

Parses(block) == block.kind \in {"zone", "zero"}
ParseZone(block) == IF block.kind = "zone" THEN block.zone ELSE ZeroZone

(* The blocks the cursor's two pointers lead to, on this drive. *)
Primary == BlockAt(drive.image, SectorToDiskLocation(drive.volumes, next_zonemap_ptr))

(* Slip: the backup copy is looked for in the volume of the primary copy. *)
BackupInPrimaryVolume ==
  LET v == FindSectorVolume(drive.volumes, next_zonemap_ptr)
  IN  BlockAt(drive.image, v.disk_sector + (backup_next_zonemap_ptr - v.sector_start))

Backup == BlockAt(drive.image, SectorToDiskLocation(drive.volumes, backup_next_zonemap_ptr))

(* Both pointers are translated before anything is read. *)
Mapped ==
  /\ Covering(drive.volumes, next_zonemap_ptr) # {}
  /\ Covering(drive.volumes, backup_next_zonemap_ptr) # {}

(* A consumer is running and its call of `next` goes to the drive. *)
Reading == caller # "none" /\ status = "ok" /\ next_zonemap_ptr # 0

-----------------------------------------------------------------------------
(* What a consumer does with the result of one call of `next`. *)

(* Slip: the zones a call may credit to itself start one too late. *)
CallFromNext(op) ==
  /\ caller = "none"
  /\ status = "ok"
  /\ caller' = op
  /\ from' = Len(yielded) + 1
  /\ sum' = 0
  /\ UNCHANGED <<drive, cursor, yielded, answer, status>>

(* Slip: the sum of an earlier inode_count is carried on. *)
CallKeepsSum(op) ==
  /\ caller = "none"
  /\ status = "ok"
  /\ caller' = op
  /\ from' = Len(yielded)
  /\ UNCHANGED <<drive, cursor, yielded, sum, answer, status>>

Call(op) ==
  /\ caller = "none"
  /\ status = "ok"
  /\ caller' = op
  /\ from' = Len(yielded)
  /\ sum' = 0
  /\ UNCHANGED <<drive, cursor, yielded, answer, status>>

(* `next` returned None: from_iter has its vector, find reports an error,
   inode_count halves its sum. *)
Return ==
  /\ caller' = "none"
  /\ answer' = [op    |-> caller,
                ok    |-> caller # "inode_iter",
                first |-> from + 1,
                last  |-> Len(yielded),
                value |-> IF caller = "inode_count" THEN sum \div 2 ELSE 0]
  /\ UNCHANGED <<drive, cursor, yielded, from, sum, status>>

(* Slip: the backup pointer is not moved along with the primary pointer. *)
AdvancePrimaryOnly(zone) ==
  /\ next_zonemap_ptr' = zone.next_zonemap_ptr
  /\ UNCHANGED backup_next_zonemap_ptr

(* Slip: the two pointers are swapped. *)
AdvanceSwapped(zone) ==
  /\ next_zonemap_ptr' = zone.backup_next_zonemap_ptr
  /\ backup_next_zonemap_ptr' = zone.next_zonemap_ptr

Advance(zone) ==
  /\ next_zonemap_ptr' = zone.next_zonemap_ptr
  /\ backup_next_zonemap_ptr' = zone.backup_next_zonemap_ptr

(* `next` returned zone: find stops at the first INode zone and builds the
   MFSINodeIter, which translates the zone's first sector; inode_count adds
   up u32 sizes; from_iter only collects. *)
Consume(zone) ==
  \/ /\ \/ caller = "from_iter"
        \/ caller # "from_iter" /\ zone.type # "INode"
     /\ UNCHANGED <<caller, sum, answer, status>>
  \/ /\ caller = "inode_iter" /\ zone.type = "INode"
     /\ Covering(drive.volumes, zone.first_sector) # {}
     /\ caller' = "none"
     /\ answer' = [op    |-> "inode_iter",
                   ok    |-> TRUE,
                   first |-> from + 1,
                   last  |-> Len(yielded) + 1,
                   value |-> FindSectorVolume(drive.volumes, zone.first_sector).disk_sector]
     /\ UNCHANGED <<sum, status>>
  \/ /\ caller = "inode_iter" /\ zone.type = "INode"
     /\ Covering(drive.volumes, zone.first_sector) = {}
     /\ status' = "panicked"
     /\ UNCHANGED <<caller, sum, answer>>
  \/ /\ caller = "inode_count" /\ zone.type = "INode"
     /\ sum + zone.size < WordSize
     /\ sum' = sum + zone.size
     /\ UNCHANGED <<caller, answer, status>>
  \/ /\ caller = "inode_count" /\ zone.type = "INode"
     /\ sum + zone.size >= WordSize     \* debug builds panic, release builds wrap
     /\ \/ status' = "panicked" /\ UNCHANGED sum
        \/ sum' = (sum + zone.size) % WordSize /\ UNCHANGED status
     /\ UNCHANGED <<caller, answer>>

Deliver(zone) ==
  /\ Advance(zone)
  /\ yielded' = Append(yielded, zone)
  /\ Consume(zone)
  /\ UNCHANGED <<drive, from>>

-----------------------------------------------------------------------------
(* The outcomes of one call of `next`. *)

EndOfList ==
  /\ caller # "none" /\ status = "ok"
  /\ next_zonemap_ptr = 0
  /\ Return

PointerPanics ==
  /\ Reading
  /\ ~Mapped
  /\ status' = "panicked"
  /\ UNCHANGED <<drive, cursor, caller, yielded, from, sum, answer>>

(* Opening or reading the image fails, for the primary copy or for the
   backup; either error becomes None and the cursor stays. *)
Fault ==
  /\ Reading
  /\ Mapped
  /\ drive.failing
  /\ Return

ReadPrimary ==
  /\ Reading
  /\ Mapped
  /\ Parses(Primary)
  /\ Deliver(ParseZone(Primary))

(* Slip: a zone read from its backup copy does not move the cursor. *)
ReadBackupInPlace ==
  /\ Reading
  /\ Mapped
  /\ ~Parses(Primary)
  /\ Parses(Backup)
  /\ yielded' = Append(yielded, ParseZone(Backup))
  /\ Consume(ParseZone(Backup))
  /\ UNCHANGED <<drive, cursor, from>>

ReadBackup ==
  /\ Reading
  /\ Mapped
  /\ ~Parses(Primary)
  /\ Parses(Backup)
  /\ Deliver(ParseZone(Backup))

(* Slip: when neither copy parses the read is repeated. *)
BothUnparsableRetried ==
  /\ Reading
  /\ Mapped
  /\ ~Parses(Primary)
  /\ ~Parses(Backup)
  /\ UNCHANGED vars

BothUnparsable ==
  /\ Reading
  /\ Mapped
  /\ ~Parses(Primary)
  /\ ~Parses(Backup)
  /\ Return

Step ==
  \/ EndOfList
  \/ PointerPanics
  \/ Fault
  \/ ReadPrimary
  \/ ReadBackup
  \/ BothUnparsable

Next == (\E op \in Callers : Call(op)) \/ Step

Spec == Init /\ [][Next]_vars

(* A consumer that is running keeps calling `next`: it is a loop of one
   thread.  Nothing forces another consumer to be called. *)
FairSpec == Spec /\ WF_vars(Step)

-----------------------------------------------------------------------------
(***************************************************************************)
(* Properties.                                                             *)
(***************************************************************************)

(* The list on the drive. *)
ListOf(d) == [i \in DOMAIN d.chain |-> d.chain[i].zone]

(* The list is linked: every zone carries the pointers of the next one, and
   the last one a null primary pointer (its backup pointer is arbitrary, as
   on the drive of mfstool.log, where it reads 0xDEADBEEF). *)
Linked(d) ==
  \A i \in DOMAIN d.chain :
    /\ d.chain[i].ptr # 0
    /\ i = Len(d.chain) => d.chain[i].zone.next_zonemap_ptr = 0
    /\ i < Len(d.chain) =>
         /\ d.chain[i].zone.next_zonemap_ptr = d.chain[i + 1].ptr
         /\ d.chain[i].zone.backup_next_zonemap_ptr = d.chain[i + 1].backup

CopyOf(d, s) == BlockAt(d.image, SectorToDiskLocation(d.volumes, s))
Intact(zone) == [kind |-> "zone", zone |-> zone]

(* Where the code looks for a copy of a zone it finds that copy, or bytes
   that do not parse, or zeros: never another zone's block. *)
Represents(d) ==
  /\ Linked(d)
  /\ \A i \in DOMAIN d.chain :
       \A s \in {d.chain[i].ptr, d.chain[i].backup} :
         Covering(d.volumes, s) # {} =>
           CopyOf(d, s) \in {Intact(d.chain[i].zone), JunkBlock, ZeroBlock}

(* Every pointer of the list, and every first sector, is in some volume. *)
AllMapped(d) ==
  \A i \in DOMAIN d.chain :
    \A s \in {d.chain[i].ptr, d.chain[i].backup, d.chain[i].zone.first_sector} :
      Covering(d.volumes, s) # {}

(* Of every zone the first copy is intact, or it is unparsable (not zeroed)
   and the second copy is intact. *)
Survivable(d) ==
  /\ Represents(d)
  /\ AllMapped(d)
  /\ \A i \in DOMAIN d.chain :
       LET link == d.chain[i]
       IN  \/ CopyOf(d, link.ptr) = Intact(link.zone)
           \/ /\ CopyOf(d, link.ptr) = JunkBlock
              /\ CopyOf(d, link.backup) = Intact(link.zone)

FollowsUpTo(n) ==
  /\ n <= Len(drive.chain)
  /\ \A i \in 1..n : yielded[i] = drive.chain[i].zone

(* The last zone returned is a phantom: a zeroed block in the place of a
   zone of the list parsed as an empty INode zone that ends the list. *)
EndsInPhantom ==
  /\ Len(yielded) \in 1..Len(drive.chain)
  /\ FollowsUpTo(Len(yielded) - 1)
  /\ yielded[Len(yielded)] = ZeroZone
  /\ next_zonemap_ptr = 0

(* Whatever copies are damaged, whichever reads fail and in whatever order
   the consumers are called, the zones `next` has returned are a prefix of
   the list on the drive: none skipped, repeated or out of order, except
   that a zeroed copy may end the sequence with one phantom empty zone. *)
YieldedFollowsChain ==
  Represents(drive) => FollowsUpTo(Len(yielded)) \/ EndsInPhantom

(* One readable copy of each zone is enough: without I/O errors, a consumer
   that runs to the end (from_iter, inode_count) has seen the whole list. *)
OneCopyIsEnough ==
  (~drive.failing /\ Survivable(drive) /\ caller = "none" /\ status = "ok"
     /\ answer.op \in {"from_iter", "inode_count"})
  => Len(yielded) = Len(drive.chain) /\ FollowsUpTo(Len(yielded))

(* mfstool.log lists every zone of the documented drive, zones 0 to 5, and
   all copies there are good: a consumer that ran to the end has seen them. *)
WholeListSeen ==
  (~drive.failing /\ caller = "none" /\ status = "ok"
     /\ answer.op \in {"from_iter", "inode_count"})
  => Len(yielded) = Len(drive.chain)

(* A drive whose pointers all fall inside a volume never panics the walk,
   short of a u32 overflow in inode_count: damage to the copies cannot
   lead the cursor outside the volumes. *)
MappedDriveNeverPanics ==
  (status = "panicked" /\ Represents(drive) /\ AllMapped(drive)
     /\ Covering(drive.volumes, 0) # {})
  => caller = "inode_count" /\ sum + yielded[Len(yielded)].size >= WordSize

(* INode sectors in the zones yielded[m .. n]. *)
InodeSectors(m, n) ==
  FoldLeft(LAMBDA acc, z : acc + (IF z.type = "INode" THEN z.size ELSE 0), 0,
           SubSeq(yielded, m, n))

(* The consumers share the cursor: inode_count counts the zones that were
   still ahead of the cursor when it was called, modulo the u32 wrap, and a
   successful inode_iter stands at the first INode zone after that point.
   No INode zone is credited to two calls. *)
CallsSplitTheList ==
  (answer.op # "none" /\ caller = "none") =>
    /\ answer.first = from + 1
    /\ answer.last = Len(yielded)
    /\ answer.op = "inode_count" =>
         answer.value = (InodeSectors(answer.first, answer.last) % WordSize) \div 2
    /\ answer.op = "inode_iter" =>
         \A i \in answer.first..answer.last :
           yielded[i].type = "INode" <=> (answer.ok /\ i = answer.last)

(* Every consumer returns, or the process has panicked: the walk over a
   list that ends does not go on for ever. *)
CallsReturn == (caller # "none") ~> (caller = "none" \/ status = "panicked")

(* The walk implements ZoneStream: the genuine zones it has returned grow by
   one zone of the list at a time, in order. *)
Genuine == IF FollowsUpTo(Len(yielded)) THEN yielded ELSE Front(yielded)
Stream == INSTANCE ZoneStream WITH
            Lists     <- {ListOf(d) : d \in Drives},
            list      <- ListOf(drive),
            delivered <- Genuine
ImplementsStream == Stream!Spec
=============================================================================
