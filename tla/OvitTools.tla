------------------------------ MODULE OvitTools ------------------------------
(***************************************************************************)
(* The command line tools: one command run on one drive.  Every command    *)
(* loads the drive, then prints what was loaded (partitions, zones,        *)
(* header), the length or the first inodes of the inode iterator (info,    *)
(* inodes), or one inode by its fsid (fsid) or by its number (inode), with *)
(* the entries of a directory.  Errors are unwrapped: they end the process *)
(* with a panic.                                                           *)
(*                                                                         *)
(* The zones are read by the steps of ZoneMap, the inodes by those of      *)
(* INodeIter and FsidLookup; what comes before the zones is in DriveLoad,  *)
(* and what a directory lists in Directory.                                *)
(***************************************************************************)
EXTENDS SectorMap, SequencesExt

CONSTANTS
  Drives,       \* the drives considered: [volumes, chain, image, failing]
  Commands,     \* the command lines: [name, numeric, id]
  WordSize,     \* 2^32 in the code
  LongWord,     \* 2^64 in the code
  FirstInode,   \* 1122 in the code
  Hash(_, _)    \* fsid_hash

Printers == {"partitions", "zones", "header"}
Iterators == {"info", "inodes"}

(* The number a command line ends with: how many inodes, an fsid or an
   inode number; numeric tells whether it is one. *)
Command == [name : Printers \cup Iterators \cup {"fsid", "inode"}, numeric : BOOLEAN, id : Nat]

(* struct MFSINode, the fields the commands and the lookup use, with what
   its entries parse to and whether they are in the inode itself. *)
Inode == [fsid : Nat, inode : Nat, flags : SUBSET {"chained", "data_in_header"},
          type : {"Node", "File", "Stream", "Dir", "Db"}, resident : BOOLEAN,
          listing : {"ok", "error", "panic"}]

VARIABLES
  drive, command,                                        \* never change
  phase,                                                 \* what is done next, or how it ended
  next_zonemap_ptr, backup_next_zonemap_ptr, caller,     \* a zone cursor and its consumer
  walked, found, walk_status,                            \* what it has returned
  zonemap,                                               \* TivoDrive::zonemap
  next_inode_sector, rows, last_call, len, iter_status,  \* MFSINodeIter
  pc, inode, inode_id_base, current_inode_id, current_inode, result,   \* the lookup
  found_inode                                            \* the inode that is shown

cursor == <<next_zonemap_ptr, backup_next_zonemap_ptr>>
walk == <<cursor, caller, walked, found, walk_status>>
iterator == <<next_inode_sector, rows, last_call, len, iter_status>>
lookup == <<pc, inode, inode_id_base, current_inode_id, current_inode, result>>
vars == <<drive, command, phase, walk, zonemap, iterator, lookup, found_inode>>

Zones == INSTANCE ZoneMap WITH
  Drives <- {}, yielded <- walked, from <- 0, sum <- 0, answer <- found, status <- walk_status

(* The iterator over the zone the walk has found. *)
Table ==
  LET zone == walked[Len(walked)]
  IN  [volumes |-> drive.volumes, first_sector |-> zone.first_sector,
       last_sector |-> zone.last_sector, image |-> drive.image, failing |-> drive.failing]
Iter == INSTANCE INodeIter WITH
  Tables <- {}, table <- Table, yielded <- rows

(* TivoDrive::inode_count, a u32; DriveLoad has the case that it overflows. *)
InodeCount ==
  FoldLeft(LAMBDA acc, z : acc + (IF z.type = "INode" THEN z.size ELSE 0), 0, zonemap) % WordSize
TivoDrive == [volumes |-> drive.volumes, zones |-> zonemap, inode_count |-> InodeCount,
              image |-> drive.image, failing |-> drive.failing]
Lookup == INSTANCE FsidLookup WITH
  Drives <- {}, Queries <- {}, queried_fsid <- command.id, drive <- TivoDrive

(* A drive whose zones and inodes are what the parsers accept; the sectors of
   a zone are u64 values. *)
IsDrive(d) ==
  /\ Zones!IsDrive(d)
  /\ \A i \in DOMAIN d.chain : d.chain[i].zone.last_sector < LongWord
  /\ \A loc \in DOMAIN d.image.blocks :
       d.image.blocks[loc].kind = "inode" =>
         d.image.blocks[loc] \in [kind : {"inode"}, inode : Inode]

ASSUME WordSizeAssumption == WordSize \in Nat \ {0} /\ LongWord \in Nat \ {0}
ASSUME FirstInodeAssumption == FirstInode \in Nat
ASSUME CommandsAssumption == Commands \subseteq Command
ASSUME DrivesAssumption == \A d \in Drives : IsDrive(d)

Nothing == [op |-> "none", ok |-> FALSE, first |-> 0, last |-> 0, value |-> 0]

Init ==
  /\ drive \in Drives
  /\ command \in Commands
  /\ phase = "arguments"
  /\ next_zonemap_ptr = 0 /\ backup_next_zonemap_ptr = 0 /\ caller = "none"
  /\ walked = <<>> /\ found = Nothing /\ walk_status = "ok"
  /\ zonemap = <<>>
  /\ next_inode_sector = 0 /\ rows = <<>> /\ last_call = "new" /\ len = 0 /\ iter_status = "ok"
  /\ pc = "hash" /\ inode = 0 /\ inode_id_base = 0 /\ current_inode_id = 0
  /\ current_inode = Lookup!NoInode /\ result = Lookup!Error
  /\ found_inode = {}

Ended == {"done", "panicked"}

Goes(to) == phase' = to /\ UNCHANGED <<drive, command>>

-----------------------------------------------------------------------------
(* Loading the drive. *)

(* parse().unwrap() of the number, where the command has one. *)
ParseArguments ==
  /\ phase = "arguments"
  /\ Goes(IF command.name \in Printers \cup {"info"} \/ command.numeric THEN "load" ELSE "panicked")
  /\ UNCHANGED <<walk, zonemap, iterator, lookup, found_inode>>

LoadFails ==
  /\ phase = "load"
  /\ drive.failing
  /\ Goes("panicked")
  /\ UNCHANGED <<walk, zonemap, iterator, lookup, found_inode>>

(* A cursor at the pointers of the volume header, and its consumer. *)
StartWalk(op) ==
  /\ next_zonemap_ptr' = IF drive.chain = <<>> THEN 0 ELSE drive.chain[1].ptr
  /\ backup_next_zonemap_ptr' = IF drive.chain = <<>> THEN 0 ELSE drive.chain[1].backup
  /\ caller' = op
  /\ walked' = <<>>
  /\ UNCHANGED <<found, walk_status>>

Load ==
  /\ phase = "load"
  /\ StartWalk("from_iter")
  /\ Goes("zones")
  /\ UNCHANGED <<zonemap, iterator, lookup, found_inode>>

(* One call of the cursor's `next`; from_iter returns with its vector. *)
LoadZones ==
  /\ phase = "zones"
  /\ Zones!Step
  /\ zonemap' = IF caller' = "none" THEN walked ELSE zonemap
  /\ Goes(IF walk_status' = "panicked" THEN "panicked"
          ELSE IF caller' = "none" THEN "loaded" ELSE "zones")
  /\ UNCHANGED <<iterator, lookup, found_inode>>

-----------------------------------------------------------------------------
(* What the commands do with it. *)

(* The tables of the partitions, the zones and the header. *)
PrintLoaded ==
  /\ phase = "loaded"
  /\ command.name \in Printers
  /\ Goes("done")
  /\ UNCHANGED <<walk, zonemap, iterator, lookup, found_inode>>

(* Slip: inode_iter goes on with the cursor the zones were loaded with. *)
StartIteratorBehindZones ==
  /\ phase = "loaded"
  /\ command.name \in Iterators
  /\ caller' = "inode_iter"
  /\ walked' = <<>>
  /\ Goes("find")
  /\ UNCHANGED <<cursor, found, walk_status, zonemap, iterator, lookup, found_inode>>

(* raw_zonemap has a cursor of its own, which nothing has moved. *)
StartIterator ==
  /\ phase = "loaded"
  /\ command.name \in Iterators
  /\ StartWalk("inode_iter")
  /\ Goes("find")
  /\ UNCHANGED <<zonemap, iterator, lookup, found_inode>>

(* One call of `next` by inode_iter, whose answer is unwrapped. *)
FindTable ==
  /\ phase = "find"
  /\ Zones!Step
  /\ IF caller' = "none" /\ found'.ok
     THEN next_inode_sector' = walked'[Len(walked')].first_sector
     ELSE UNCHANGED next_inode_sector
  /\ Goes(IF caller' # "none" /\ walk_status' = "ok" THEN "find"
          ELSE IF walk_status' = "ok" /\ found'.ok THEN "rows" ELSE "panicked")
  /\ UNCHANGED <<zonemap, rows, last_call, len, iter_status, lookup, found_inode>>

(* info: the length of the iterator. *)
PrintCount ==
  /\ phase = "rows"
  /\ command.name = "info"
  /\ UNCHANGED <<drive, command, walk, zonemap, lookup, found_inode>>
  /\ Iter!CallLen
  /\ phase' = IF iter_status' = "panicked" THEN "panicked" ELSE "done"

(* Slip: a None is taken for one inode that cannot be read. *)
PrintRowOrTryAgain ==
  /\ phase = "rows"
  /\ command.name = "inodes"
  /\ Len(rows) < command.id
  /\ UNCHANGED <<drive, command, walk, zonemap, lookup, found_inode>>
  /\ Iter!NextCall
  /\ UNCHANGED phase

(* inodes: one row of take(count).  With -d the row also has the inode's data
   from get_data, which is printed whatever it is and changes nothing else;
   FileData has it. *)
PrintRow ==
  /\ phase = "rows"
  /\ command.name = "inodes"
  /\ Len(rows) < command.id
  /\ UNCHANGED <<drive, command, walk, zonemap, lookup, found_inode>>
  /\ Iter!NextCall
  /\ phase' = IF last_call' = "none" THEN "done" ELSE "rows"

RowsTaken ==
  /\ phase = "rows"
  /\ command.name = "inodes"
  /\ Len(rows) = command.id
  /\ Goes("done")
  /\ UNCHANGED <<walk, zonemap, iterator, lookup, found_inode>>

-----------------------------------------------------------------------------
(* Slip: the entries of every inode are listed, whatever its type. *)
ShowWithEntries(shown) ==
  /\ found_inode' = {shown}
  /\ phase' = "entries"

(* The inode is printed, and a directory is listed. *)
Show(shown) ==
  /\ found_inode' = {shown}
  /\ phase' = IF shown.type = "Dir" THEN "entries" ELSE "done"

(* fsid: one step of get_inode_from_fsid, whose answer is unwrapped. *)
LookUpFsid ==
  /\ phase \in {"loaded", "lookup"}
  /\ command.name = "fsid"
  /\ UNCHANGED <<drive, command, walk, zonemap, iterator>>
  /\ Lookup!Next
  /\ IF pc' = "done" /\ result'.ok THEN Show(result'.inode)
     ELSE /\ phase' = IF pc' \in Ended THEN "panicked" ELSE "lookup"
          /\ UNCHANGED found_inode

(* Slip: an inode is counted as one sector. *)
SectorOfSingles(id) == id + FirstInode

(* sector_for_inode of the tools: the first INode zone of a drive is taken
   to start at sector 1122. *)
SectorForInode(id) == 2 * id + FirstInode

(* inode: one read.  find_sector_volume panics where no volume has the
   sector, and the sector is not made relative to its volume. *)
BlockFor(sector) ==
  BlockAt(drive.image, FindSectorVolume(drive.volumes, sector).disk_sector + sector)
Readable(sector) == Covering(drive.volumes, sector) # {} /\ BlockFor(sector).kind = "inode"

ReadInode ==
  /\ phase = "loaded"
  /\ command.name = "inode"
  /\ LET sector == SectorForInode(command.id) % LongWord
     IN  /\ Readable(sector)
         /\ Show(BlockFor(sector).inode)
  /\ UNCHANGED <<drive, command, walk, zonemap, iterator, lookup>>

(* A u64 overflow panics in a build with overflow checks. *)
ReadPanics ==
  /\ phase = "loaded"
  /\ command.name = "inode"
  /\ \/ SectorForInode(command.id) >= LongWord
     \/ drive.failing
     \/ ~Readable(SectorForInode(command.id) % LongWord)
  /\ Goes("panicked")
  /\ UNCHANGED <<walk, zonemap, iterator, lookup, found_inode>>

(* get_entries_from_directory opens the image again. *)
ListEntries ==
  /\ phase = "entries"
  /\ \E shown \in found_inode : shown.listing = "ok"
  /\ Goes("done")
  /\ UNCHANGED <<walk, zonemap, iterator, lookup, found_inode>>

ListingFails ==
  /\ phase = "entries"
  /\ \E shown \in found_inode : shown.listing # "ok" \/ (drive.failing /\ ~shown.resident)
  /\ Goes("panicked")
  /\ UNCHANGED <<walk, zonemap, iterator, lookup, found_inode>>

Step ==
  \/ ParseArguments
  \/ LoadFails
  \/ Load
  \/ LoadZones
  \/ PrintLoaded
  \/ StartIterator
  \/ FindTable
  \/ PrintCount
  \/ PrintRow
  \/ RowsTaken
  \/ LookUpFsid
  \/ ReadInode
  \/ ReadPanics
  \/ ListEntries
  \/ ListingFails

Spec == Init /\ [][Step]_vars

(* A command is one thread that runs to its end. *)
FairSpec == Spec /\ WF_vars(Step)

-----------------------------------------------------------------------------
(***************************************************************************)
(* Properties.                                                             *)
(***************************************************************************)

INodeLinks == {i \in DOMAIN drive.chain : drive.chain[i].zone.type = "INode"}
FirstZone == drive.chain[CHOOSE i \in INodeLinks : \A j \in INodeLinks : i <= j].zone
SlotSector(i) == FirstZone.first_sector + 2 * i
SlotCount == (FirstZone.last_sector + 1 - FirstZone.first_sector) \div 2
InSlot(i) == Zones!CopyOf(drive, SlotSector(i))

(* A drive with a good copy of every zone, of which the first INode zone is
   in the first volume and holds whole pairs of sectors, at least one. *)
Sound ==
  /\ Zones!Survivable(drive)
  /\ INodeLinks # {} /\ SlotCount > 0
  /\ FirstZone.last_sector + 1 = SlotSector(SlotCount)
  /\ drive.volumes[1].sector_start = 0
  /\ Covers(drive.volumes[1], FirstZone.last_sector)

(* The number of every inode of the first zone is that of its slot. *)
Numbered == \A i \in 0..(SlotCount - 1) : InSlot(i).kind = "inode" /\ InSlot(i).inode.inode = i

(* On a sound drive the i-th inode printed is the one in slot i - 1 of the
   first INode zone of the list, whatever zone copies are damaged and
   whatever read fails; where that zone starts at the sector the tools take
   it to, an inode asked for by a number in the zone has that number. *)
ShownUnderItsNumber ==
  Sound =>
    /\ \A i \in DOMAIN rows : InSlot(i - 1) = [kind |-> "inode", inode |-> rows[i]]
    /\ (command.name = "inode" /\ Numbered /\ FirstZone.first_sector = FirstInode
          /\ command.id < SlotCount)
         => \A shown \in found_inode : shown.inode = command.id

(* On a sound drive that does not fail, `zones` and the other tables of what
   was loaded have the whole list.  `inodes` prints a slot of the first INode
   zone exactly when it is within the count asked for and neither it nor any
   slot before it is unreadable: the first unreadable slot hides the rest of
   the zone, with no error.  The number of inodes that info prints is one
   less than the slots of the zone, read or not. *)
CountsAgree ==
  (Sound /\ ~drive.failing /\ phase \in Ended /\ command.numeric) =>
    /\ command.name \in Printers \cup Iterators => phase = "done" /\ zonemap = Zones!ListOf(drive)
    /\ command.name = "info" => len + 1 = SlotCount
    /\ command.name = "inodes" =>
         /\ Len(rows) <= SlotCount
         /\ \A i \in 0..(SlotCount - 1) :
              i < Len(rows)
                <=> i < command.id /\ \A j \in 0..i : InSlot(j).kind = "inode"

(* On a sound drive that does not fail, on which the places of all inode ids
   lie in the first volume, an inode stored under an fsid is shown, and the
   command ends well unless the entries of a directory cannot be parsed. *)
StoredIsShown ==
  (Sound /\ ~drive.failing /\ phase \in Ended /\ command.name = "fsid" /\ command.numeric) =>
    \A id \in Lookup!Slots(TivoDrive) :
      (Lookup!InFirstVolume(TivoDrive) /\ Lookup!Stored(TivoDrive, command.id, id)) =>
        \E shown \in found_inode :
          /\ shown.fsid = command.id
          /\ phase = "panicked" => shown.type = "Dir" /\ shown.listing # "ok"

(* Every command ends, with its output or with a panic. *)
CommandEnds == <>(phase \in Ended)
=============================================================================
