------------------------------ MODULE Directory ------------------------------
(***************************************************************************)
(* MFSINode::get_entries_from_directory: the entries of one directory.     *)
(*                                                                         *)
(* The bytes come from the inode itself or from the first data block of    *)
(* the inode, which is addressed from the start of the inode's partition   *)
(* and always read as byte-swapped.  Behind a four-byte offset a fold over *)
(* MFSEntry::parse collects entries until one is refused (Err::Error).     *)
(* The parsers are streaming ones: bytes that run out inside an entry, or  *)
(* where the next entry would start, are Err::Incomplete, which the fold   *)
(* passes on, and then the whole directory is an error.                    *)
(*                                                                         *)
(* The block is read with one call, which is Ok also when it ends early:   *)
(* what it has not read stays zero.                                        *)
(*                                                                         *)
(* One step is the fetch of the bytes, the offset, or one entry.  Bytes    *)
(* are abstracted to an area: its size, how much of it was read, and the   *)
(* entry headers at their offsets; everything behind the last entry is     *)
(* zero.                                                                   *)
(***************************************************************************)
EXTENDS SectorMap, FiniteSets

CONSTANTS
  Directories,   \* the directories considered, see IsDirectory
  BlockSize,     \* APM_BLOCK_SIZE: bytes in a sector
  ByteRange,     \* 2^8: the values of the length byte
  Strays         \* the headers that may be read where no entry starts

(* MFSINodeType::parse: the bytes that are a type. *)
TypeBytes == {0, 1, 2, 4, 8}

(* The six bytes before a name; the name itself is left to the fsid. *)
Byte == 0..(ByteRange - 1)
Header == [fsid : Nat, length : Byte, type : Byte]
ZeroHeader == [fsid |-> 0, length |-> 0, type |-> 0]
HeaderSize == 6
OffsetSize == 4

IsArea(a) ==
  /\ a.size \in Nat
  /\ a.read \in 0..a.size
  /\ DOMAIN a.headers \subseteq Nat
  /\ \A o \in DOMAIN a.headers : a.headers[o] \in Header
  /\ a.exchanged \in BOOLEAN

(* A directory: the inode (datablocks, or data in the header), the volume
   table, the areas of the drive by drive sector, the byte order of the
   drive, whether its image may fail to open or be read short, and what the TiVo
   stored: entries, each at its offset, the last offset being the end. *)
IsDirectory(d) ==
  /\ d.volumes \in Seq(Volume)
  /\ d.partition_starting_sector \in Nat
  /\ d.datablocks \in Seq([sector : Nat, count : Nat])
  /\ IsArea(d.data) /\ ~d.data.exchanged /\ d.data.read = d.data.size
  /\ \A loc \in DOMAIN d.areas : IsArea(d.areas[loc]) /\ ~d.areas[loc].exchanged
  /\ d.swapped \in BOOLEAN
  /\ d.failing \in BOOLEAN
  /\ d.stored \in Seq(Header)
  /\ d.offsets \in Seq(Nat)
  /\ Len(d.offsets) = Len(d.stored) + 1
  /\ d.offsets[1] = OffsetSize
  /\ \A i \in DOMAIN d.stored : d.offsets[i + 1] = d.offsets[i] + d.stored[i].length

(* A sector has room for the offset and a header, and for pairs of bytes. *)
ASSUME BlockSizeAssumption ==
  BlockSize \in Nat /\ BlockSize % 2 = 0 /\ BlockSize >= OffsetSize + HeaderSize
ASSUME ByteRangeAssumption == ByteRange \in Nat /\ ByteRange > 8
ASSUME StraysAssumption == Strays \subseteq Header
ASSUME DirectoriesAssumption == \A d \in Directories : IsDirectory(d)

VARIABLES
  dir,       \* the directory; never changes
  pc,        \* "fetch", "offset", "entries", "done" or "panicked"
  area,      \* the bytes fetched
  pos,       \* where the next parser starts in them
  starts,    \* history: where the entries accepted so far start
  entries,   \* the fold's accumulator
  ok         \* Ok or Err, once done

vars == <<dir, pc, area, pos, starts, entries, ok>>

NoArea == [size |-> 0, read |-> 0, headers |-> <<>>, exchanged |-> FALSE]

Init ==
  /\ dir \in Directories
  /\ pc = "fetch"
  /\ area = NoArea
  /\ pos = 0
  /\ starts = {}
  /\ entries = <<>>
  /\ ok = FALSE

-----------------------------------------------------------------------------
(* MFSINode::parse keeps the rest of the inode's sector as data, less every
   word that is DEADBEEF: with that padding no byte is left behind the last
   entry. *)
HeaderArea(room, written, deadbeef, headers) ==
  LET size == IF deadbeef THEN 4 * ((written + 3) \div 4) ELSE room
  IN  [size |-> size, read |-> size, headers |-> headers, exchanged |-> FALSE]

FirstBlock(d) == d.datablocks[1]

(* The block's MFS sector counted from the start of the inode's partition. *)
Location(d) == d.partition_starting_sector + FirstBlock(d).sector

(* What lies there; outside the areas of the drive there are zeros. *)
HeadersAt(d, loc) == IF loc \in DOMAIN d.areas THEN d.areas[loc].headers ELSE <<>>

(* Slip: the byte order check_byte_order found is used. *)
FetchInDriveOrder(d, sectors) ==
  [size      |-> BlockSize * FirstBlock(d).count,
   read      |-> BlockSize * sectors,
   headers   |-> HeadersAt(d, Location(d)),
   exchanged |-> FALSE]

(* get_blocks_from_file with the byte order fixed to `true`: on a drive that
   is not byte-swapped the bytes of every pair come out exchanged.  The read
   ends after so many sectors. *)
Fetch(d, sectors) ==
  [size      |-> BlockSize * FirstBlock(d).count,
   read      |-> BlockSize * sectors,
   headers   |-> HeadersAt(d, Location(d)),
   exchanged |-> ~d.swapped]

(* All sectors of the block, or some of the first ones. *)
SectorsRead(d) == IF d.failing THEN 0..FirstBlock(d).count ELSE {FirstBlock(d).count}

(* A header at offset o, less the bytes that were not read.  An fsid that is
   cut is taken for 0: a length of 0 follows it, and both are refused. *)
AsRead(a, o, h) ==
  [fsid   |-> IF o + 4 <= a.read THEN h.fsid ELSE 0,
   length |-> IF o + 5 <= a.read THEN h.length ELSE 0,
   type   |-> IF o + HeaderSize <= a.read THEN h.type ELSE 0]

(* Length and type share a pair of bytes. *)
Exchange(h) == [h EXCEPT !.length = h.type, !.type = h.length]

BehindEntries(a, o) == \A p \in DOMAIN a.headers : p + a.headers[p].length <= o

(* The headers that may be found at offset o: the entry that starts there, or
   zeros behind the last one, or whatever the bytes of a name look like. *)
Seen(a, o) ==
  IF o \in DOMAIN a.headers /\ (a.exchanged => o % 2 = 0)
    THEN LET h == AsRead(a, o, a.headers[o])
         IN  {IF a.exchanged THEN Exchange(h) ELSE h}
  ELSE IF BehindEntries(a, o) THEN {ZeroHeader}
  ELSE {AsRead(a, o, h) : h \in Strays}

(* Slip: the name is taken to be as long as the whole entry. *)
WholeEntryAsName(h) == h.length

(* The u8 length less the six bytes in front of the name, in a build without
   overflow checks. *)
NameLength(h) == (h.length - HeaderSize) % ByteRange

-----------------------------------------------------------------------------
(* MFSEntry::parse, with `rest` bytes left.  Its tests come in the order of
   the fields, each as soon as the field's own bytes are there. *)

(* Slip: the end of the bytes ends the entries like a refused one. *)
RefusedAtEnd(h, rest) ==
  \/ rest = 0
  \/ rest >= 4 /\ h.fsid = 0
  \/ rest >= 5 /\ h.fsid # 0 /\ h.length = 0
  \/ rest >= HeaderSize /\ h.fsid # 0 /\ h.length # 0 /\ h.type \notin TypeBytes

Refused(h, rest) ==
  \/ rest >= 4 /\ h.fsid = 0
  \/ rest >= 5 /\ h.fsid # 0 /\ h.length = 0
  \/ rest >= HeaderSize /\ h.fsid # 0 /\ h.length # 0 /\ h.type \notin TypeBytes

(* All fields in front of the name are there and valid. *)
Named(h, rest) ==
  /\ rest >= HeaderSize
  /\ h.fsid # 0 /\ h.length # 0 /\ h.type \in TypeBytes

Accepted(h, rest) == Named(h, rest) /\ rest - HeaderSize >= NameLength(h)

Incomplete(h, rest) == ~Refused(h, rest) /\ ~Accepted(h, rest)

Rest == area.size - pos

-----------------------------------------------------------------------------
UseHeaderData ==
  /\ pc = "fetch"
  /\ dir.datablocks = <<>>
  /\ area' = dir.data
  /\ pc' = "offset"
  /\ UNCHANGED <<dir, pos, starts, entries, ok>>

ReadFirstBlock ==
  /\ pc = "fetch"
  /\ dir.datablocks # <<>>
  /\ \E sectors \in SectorsRead(dir) : area' = Fetch(dir, sectors)
  /\ pc' = "offset"
  /\ UNCHANGED <<dir, pos, starts, entries, ok>>

(* The error of get_blocks_from_file is unwrapped. *)
ReadFails ==
  /\ pc = "fetch"
  /\ dir.datablocks # <<>>
  /\ dir.failing
  /\ pc' = "panicked"
  /\ UNCHANGED <<dir, area, pos, starts, entries, ok>>

OffsetMissing ==
  /\ pc = "offset"
  /\ area.size < OffsetSize
  /\ pc' = "done"
  /\ UNCHANGED <<dir, area, pos, starts, entries, ok>>

SkipOffset ==
  /\ pc = "offset"
  /\ area.size >= OffsetSize
  /\ pos' = OffsetSize
  /\ pc' = "entries"
  /\ UNCHANGED <<dir, area, starts, entries, ok>>

ParseEntry(h) ==
  /\ Accepted(h, Rest)
  /\ pos' = pos + HeaderSize + NameLength(h)
  /\ starts' = starts \cup {pos}
  /\ entries' = Append(entries, h)
  /\ UNCHANGED <<dir, pc, area, ok>>

(* A build with overflow checks panics where length - 6 underflows. *)
LengthUnderflows(h) ==
  /\ Named(h, Rest)
  /\ h.length < HeaderSize
  /\ pc' = "panicked"
  /\ UNCHANGED <<dir, area, pos, starts, entries, ok>>

StopAtRefused(h) ==
  /\ Refused(h, Rest)
  /\ pc' = "done"
  /\ ok' = TRUE
  /\ UNCHANGED <<dir, area, pos, starts, entries>>

RunOut(h) ==
  /\ Incomplete(h, Rest)
  /\ pc' = "done"
  /\ UNCHANGED <<dir, area, pos, starts, entries, ok>>

FoldEntry ==
  /\ pc = "entries"
  /\ \E h \in Seen(area, pos) :
       \/ ParseEntry(h)
       \/ LengthUnderflows(h)
       \/ StopAtRefused(h)
       \/ RunOut(h)

Next ==
  \/ UseHeaderData
  \/ ReadFirstBlock
  \/ ReadFails
  \/ OffsetMissing
  \/ SkipOffset
  \/ FoldEntry

Spec == Init /\ [][Next]_vars

-----------------------------------------------------------------------------
(***************************************************************************)
(* Properties.                                                             *)
(***************************************************************************)

(* Every stored entry is one MFSEntry::parse accepts. *)
WellFormed(d) ==
  \A i \in DOMAIN d.stored :
    /\ d.stored[i].fsid # 0
    /\ d.stored[i].length >= HeaderSize
    /\ d.stored[i].type \in TypeBytes

(* The stored entries, as far as they fit, are what the area holds. *)
HoldsStored(d, a) ==
  DOMAIN a.headers = {d.offsets[i] : i \in DOMAIN d.stored}
    /\ \A i \in DOMAIN d.stored : a.headers[d.offsets[i]] = d.stored[i]

(* The data of the directory is where the code takes it from. *)
InPlace(d) ==
  IF d.datablocks = <<>> THEN HoldsStored(d, d.data)
  ELSE /\ Covering(d.volumes, FirstBlock(d).sector) # {}
       /\ Location(d) = SectorToDiskLocation(d.volumes, FirstBlock(d).sector)
       /\ Location(d) \in DOMAIN d.areas
       /\ HoldsStored(d, d.areas[Location(d)])

Readable(d) == WellFormed(d) /\ InPlace(d) /\ (d.datablocks # <<>> => d.swapped)

Room(d) == IF d.datablocks = <<>> THEN d.data.size ELSE BlockSize * FirstBlock(d).count
End(d) == d.offsets[Len(d.offsets)]

(* The entry itself, or the last one taken, which the read has ended in: its
   name may lack its end, and its type be that of zeros. *)
TakenAs(i) ==
  \/ entries[i] = dir.stored[i]
  \/ /\ i = Len(entries) /\ area.read < pos
     /\ entries[i] = [dir.stored[i] EXCEPT !.type = 0]

(* After a full read a listing is complete or an error, and it succeeds
   exactly when four more bytes follow the last entry: a directory that
   fills its block, goes on in a second one or is padded with DEADBEEF in
   its inode is lost as a whole.  After a short read the listing may be Ok
   with entries missing, but it has those that were read in front of the
   rest, in order, and of these only the last may be cut itself. *)
LostOnlyToShortRead ==
  (Readable(dir) /\ pc = "done") =>
    /\ area.read = area.size =>
         /\ ok <=> (End(dir) + 4 <= Room(dir))
         /\ ok => (entries = dir.stored)
    /\ ok =>
         /\ Len(entries) <= Len(dir.stored)
         /\ \A i \in DOMAIN entries : TakenAs(i)
         /\ \A i \in DOMAIN dir.stored :
              dir.offsets[i + 1] <= area.read => i \in DOMAIN entries

(* An entry is passed over only behind an entry shorter than its header: its
   u8 underflow swallows what follows. *)
NothingSkipped ==
  (~area.exchanged /\ HoldsStored(dir, area)) =>
    \A i \in DOMAIN dir.stored :
      dir.offsets[i] < pos =>
        \/ dir.offsets[i] \in starts
        \/ \E j \in 1..(i - 1) : dir.stored[j].length < HeaderSize

(* On a drive that is not byte-swapped a directory in a data block appears
   as an empty one, not as an error, unless its first entry is eight bytes
   long and so looks like a type. *)
PlainDriveLooksEmpty ==
  (~dir.swapped /\ dir.datablocks # <<>> /\ WellFormed(dir) /\ InPlace(dir)
     /\ pc = "done" /\ Room(dir) >= OffsetSize + HeaderSize
     /\ (dir.stored # <<>> => dir.stored[1].length # 8))
  => ok /\ entries = <<>>
=============================================================================
