# A verification development for oViT (tivo-mfs-experiment)

TLA+ models of oViT, which reads the MFS file system of a TiVo drive: how a
drive is opened, which sector of the image holds which MFS sector, which zones
and inodes it has, what a directory lists and a file contains, what the FUSE
file system answers and what the command line tools show. The models are
checked with TLC on small drives, and every safety property is proved with TLAPS
for every drive.

The program reads a drive it never writes. What is hard in it is **partial
failure and stale geometry**: every structure exists twice on the drive, either
copy may be damaged, every read may fail on its own, errors and the end of a
list are the same `None`, and the same sector number means different places to
different functions. In the FUSE file system two threads serve callers that do
not wait for each other, each of their steps opens the image again, and the
drive may go away between any two of them.

## 1. Inventory

| component | source | state | operations |
|---|---|---|---|
| block reads | `ovit-util/src/lib.rs` | none (the file is reopened, or its cursor moved, by each call) | `get_block(s)_from_file`, `get_block(s)_from_drive(_and_correct_order)`, `correct_byte_order` |
| Apple partition map | `apple-partition-map/src/lib.rs` | the list of partitions | `Partition::parse`, `read_from_file` (1 to 64 entries) |
| MFS volume set | `tivo-media-file-system/src/volume.rs` | the table of volumes | `new`, `find_sector_volume`, `sector_to_disk_location` |
| MFS volume header | `.../volume_header.rs` | root fsid, first zone map pointers | `from_partition` |
| zone map list | `.../zone_map.rs` | a cursor of two pointers | `new`, `next`, `inode_iter`, `inode_count` |
| inode iterator | `.../inode.rs:258-306` | `next_inode_sector`, `last_inode_sector` | `next`, `size_hint`, `len` |
| inode contents, directories | `.../inode.rs:94-256`, `.../entry.rs` | none | `MFSINode::parse`, `get_entries_from_directory`, `get_data`, `MFSEntry::parse` |
| drive | `ovit/src/lib.rs` | everything above, `inode_count` | `from_disk_image`, `sector_for_inode`, `get_inode_from_fsid` |
| FUSE file system | `ovit-fuse/src/ovit_fuse/mod.rs` | the location of the image only: each call loads the drive again | `getattr`, `opendir`, `readdir`, `open`, `read`, path resolution |
| tools | `ovit-tools/src/main.rs` | none | `info`, `partitions`, `zones`, `header`, `inodes`, `fsid`, `inode` |
| data | `schema.txt`, `mfstool.log`, `examples/` | | |

How they interact: `from_disk_image` reads the partition map, builds the volume
set from it, reads the volume header from the first MFS partition, and walks
the zone list from the header's pointers, once into a vector (`zonemap`) and
once as an unread cursor (`raw_zonemap`). `MFSZoneMap::next` translates both
pointers with the volume set and reads one block. `get_inode_from_fsid` hashes
the fsid, asks `sector_for_inode` for a place in the vector of zones, asks the
volume set for the volume, and reads through the drive's open file.
`inode_iter` walks the raw cursor to the first INode zone and hands an iterator
over its sectors to the tools. The FUSE handlers resolve a path one component
at a time, loading the whole drive for each and once more for the operation.

Per component, what makes it correct:

- *volume set*: the volumes tile the MFS sectors; a sector is translated to the
  place the TiVo keeps it; panics only for sectors that do not exist.
- *zone list*: the zones returned are the zones on the drive, in order, once;
  one bad copy of a zone costs nothing; the walk ends; callers that share the
  cursor know what their answers are about.
- *inode iterator*: every inode of the zone once, none from behind it; it ends.
- *lookup*: an fsid that is stored is found; the lookup ends on any table; what
  it returns when it finds nothing is what it says.
- *loading*: a sound drive loads whole, in either byte order; a fault costs a
  tail of what is there and never changes the rest; damage is an error, not a
  panic.
- *directories, files*: a listing is complete or an error, and so is a file;
  where a read ends early, which the code takes for success, what was read in
  front is answered all the same and nothing else is made up.
- *FUSE*: a path means the file its components lead to; answers depend on the
  path and the drive, not on other callers; every call is answered.
- *tools*: an inode is shown under its own number or fsid; the tables are
  whole; a command ends.

The full list of hazards, each at its line and with the properties that watch
it, is `hazards` in `PROJECT.json`.

## 2. Modules

```
                    SectorMap
   ┌──────────┬─────────┼──────────┬───────────┬──────────┐
MFSVolumes  ZoneMap  INodeIter  FsidLookup  Directory  FileData
   │         │ │ │        │      │  (Hash <- FsidHash)
   │         │ │ └─> ZoneStream (abstract)     TivoFS ──> FileTree (abstract)
   └─DriveLoad ┴─OvitTools┴──────┘

   --> refinement;  lower lines: DriveLoad runs the steps of MFSVolumes and
   ZoneMap, OvitTools those of ZoneMap, INodeIter and FsidLookup
```

Faults are part of every model. A table, directory, file, drive or image has a
field `failing`; where it is TRUE any read may fail, each on its own and not
for good, and TLC enumerates both values. A read of several blocks may also end
early: `File::read` is called once and its count is dropped, so the buffer is
`Ok` with zeros behind what was read (`ovit-util/src/lib.rs:94-95`). In TivoFS
the drive goes away and comes back instead. The properties that need a
fault-free drive, or a full read, say so.

**SectorMap** has no variables. `Covers` is the range test of
`find_sector_volume` with its inclusive upper bound, `VolumeIndex` its `find`
(first match), an empty `Covering` its `expect` panic, `SectorToDiskLocation`
the rebasing. A drive image is a function from the drive sectors of interest
to what the parsers make of them: a zone, an inode, `JunkBlock` (no parser
accepts it) or `ZeroBlock`. `BlockAt` is a one-block read: past the end of the
image `File::read` returns `Ok(0)` and the buffer is handed back as allocated,
all zeros (`ovit-util/src/lib.rs:82,94`). A single block that is read in part is
not distinguished.

**MFSVolumes** runs the fold of `MFSVolumes::new` one partition per step
(`SkipPartition`, `AddVolume`, `WrapVolume`, `OverflowPanics`, `FinishNew`),
for both kinds of build: with overflow checks the u32 sum panics, without them
it wraps. When the table is ready, `Translate`/`TranslatePanics` are callers.

**ZoneMap** is `MFSZoneMap`. One step is one call of `next` and what the
consumer does with the result: `ReadPrimary` and `ReadBackup` return a zone and
move the cursor, `EndOfList`, `Fault` and `BothUnparsable` are the three kinds
of `None`, `PointerPanics` the panic of the eager translation. The consumers
are `Vec::from_iter`, `inode_iter` (a `find`) and `inode_count`
(`filter`/`sum`/halve); `Call(op)` starts one whenever none runs, in any order.
A zeroed block is a valid zone to `MFSZone::parse` (type word 0 is `INode`):
`ZeroZone`, the "phantom". `drive.chain` is the list the TiVo wrote, kept apart
from the image so that properties can compare what was returned with what is
there.

**ZoneStream** is the abstract promise: a fixed list delivered from the front,
one zone at a time. `ZoneMap!ImplementsStream` is the refinement, with the
phantom zone (if any) left out of what was delivered.

**INodeIter** is `MFSINodeIter`: one step per call of `next`, or of `len`.
`None` does not move it, so a later call retries the same inode. `len` is a
`usize` subtraction, a word of `LongWord` (2^64) values.

**FsidLookup** is `get_inode_from_fsid`, one step per read: `pc` names the read
about to be made (`primary`, `backup`, `chain`, `fallback`). `SectorForInode`
keeps the code's comparison of `2 * id` with the size of each zone on its own
and its 0 for "nowhere". The first two reads rebase the sector, the later two
do not (`Location`). `Hash` is a parameter; **FsidHash** is the code's, and TLC
uses it.

**DriveLoad** is `from_disk_image`: `Open`, `CheckByteOrder` / `NotATivoDrive`,
`ReadPartitionMap` (the fold takes entries up to the first that does not parse,
from a buffer that a short read leaves zeroed from some block on), `BuildTable`
(the steps of MFSVolumes), `NoRegionPanics` (the unwrapped `find`), `BadHeader`
/ `ReadHeader`, `Walk` (the steps of ZoneMap on the table just built) and the
checked or wrapping sum of `CountInodes`. In the wrong byte order a block is
junk, unless it is all zeros.

**Directory** is `get_entries_from_directory`: where the bytes come from
(`UseHeaderData`, `ReadFirstBlock`), the offset word, and one step per
`MFSEntry::parse`. Bytes are an *area*: its size, how much of it was read, and
the headers at their offsets. A read may end behind any sector (`SectorsRead`),
and `AsRead` is what is left of a header there, the fields behind the end being
zero. `Refused`, `Accepted` and `Incomplete` are the three outcomes of a
streaming parser in the order in which it tests the fields; the fold stops at a
refused entry and is an error when the bytes run out. `NameLength` wraps below
six, and `Exchange` is what `correct_byte_order` makes of a header on a drive
whose bytes were in order. Where no entry starts, any header of `Strays` may be
found.

**FileData** is the end of `MFSINode::parse`, which chooses between data in the
inode and a list of data blocks, and `get_data`, one block per step. Data is
counted in words, of which a sector has a fixed number, more than ten bytes.
`ReadBlock` takes the sector of the block as it is, in whatever volume, and may
end at any word (`WordsRead`, `CutTo`); `BlockReadFails` puts ten bytes of text
in its place. That a piece has been cut is kept beside it (`read`) for the
properties; nothing in the program knows.

**TivoFS** is the FUSE file system under the threads of `fuse_mt`: the session
thread serves `requests` in order and hands reads to one worker (`reads`). A
call is `waiting`, then for every component and for the operation goes through
`load`, `lookup` and `fetch`, one step each, so that anything may happen in
between. `NotFound` appends `None` and leaves `previous_fsid`, `Found` moves
it, and `Resolved` looks at the last component alone, as
`get_fsid_from_path` does. `GoAway` and `ComeBack` are the drive. While it is
away a load may be an error (`LoadFails`), a panic (`LoadPanics`), or take a
part of the drive for the whole (`LoadCutShort`): the partition map or the zone
list ends where a read fails, and `inode_count`, the mask of the hash and the
volumes are those of the part. The lookup that follows goes by the table of that
part (`View`), in which another inode may be answered for an fsid,
none, or a panic. A lookup is `ok`, an error or a panic (`LookUp`,
`LookUpFails`, `LookUpPanics`), on the whole drive too. A listing shows all
entries or, where its block is read short, those in front with the name of the
last one possibly cut to one of its `stubs` (`Shown`, `CutShort`). A panic of
the worker loses one answer, a panic of the session thread ends the process
(`Panic`). `Request` asks what the kernel can ask: it looks names up in what it
was told is a directory. A drive is therefore a table of what each fsid's lookup
comes to when it is loaded whole, and one more for every part that a faulty load
may leave (`IsDrive`); these are the results of DriveLoad, FsidLookup and
Directory, and nothing is assumed of how the tables of parts relate to the
whole, but that they are about the same fsids.

**FileTree** is what a mount promises: an answer is a function of the path and
the drive, the file that the components lead to. Once a read has failed
(`faulty`) the promise is weaker, and FileTree says by how much: components
other than the last may be passed over, any table of the drive may have been
used at any component (`Tables`), and listings may be cut short (`Listings`).
What it still promises is that an answer is about a file that such a walk leads
to, with an answer some table gives for it. `TivoFS!ImplementsTree` is the
refinement.

**OvitTools** is one run of `ovit` with one command, from its arguments to its
last line: the zones are loaded by the steps of ZoneMap, `inodes` and `info`
find the table with a second, fresh cursor and use INodeIter, `fsid` runs
FsidLookup, `inode` reads at `2 * id + 1122` without rebasing (`ReadInode`),
and a directory is listed. Every error is an `unwrap`. A drive is what the
parsers accept (`IsDrive`): sectors of zones are u64 values, an inode block
holds an inode and nothing else. The properties speak of `Sound` drives: one
good copy of every zone, the first INode zone in the first volume and of whole
pairs of sectors, at least one pair. Its slots may hold anything, an unreadable
inode among others. With `-d` a row also holds the inode's data from `get_data`
(`main.rs:265-266`), which is printed whatever it is: that read is left out.

Definitions whose comment starts with *Slip* are plausible mistakes in the
definition that follows them. They are used by no specification; each property
of a passing run is known to fail when the slip named for it in `mutants` of
`PROJECT.json` takes the place of the real definition.

## 3. Runs

| run | module / cfg | what it shows |
|---|---|---|
| `volumes` | MCMFSVolumes | tiling, interior and boundary translation, panics |
| `zones` | MCZoneMap | prefix of the list under any damage and any faults, refinement of ZoneStream, one copy is enough, panics, split of the list between consumers, calls return |
| `lookup` | MCFsidLookup | stored fsids are found, chain id in range, unreadable primary, termination |
| `inodes` | MCINodeIter | slots in order across failures, never beyond the zone, complete on intact ones |
| `directory` | MCDirectory | a listing is whole or an error unless its read ended early, and then has what was read; what is passed over; what a plain drive looks like |
| `file` | MCFileData | which files are answered as stored, what is answered of a block that is read short, and that a replaced block shows in the length |
| `tivofs` | MCTivoFS | two callers, a drive that goes away and loads in part: refinement of FileTree, paths are followed, calls stay in the tree, panics, every call is answered (226,978 states) |
| `load` | MCDriveLoad | sound drives load whole, faults only shorten, panics |
| `tools` | MCOvitTools | rows and inodes under their numbers, rows up to the first unreadable slot, counts, stored fsids are shown, commands end |
| `readme_drive`, `fallback`, `files_viewed` | MCReadmeDrive, MCFsidLookup / MCFallback, MCFileData / MCFilesViewed | see section 5: disagreements between the code and its texts |

Bounds, and why they are enough:

- *MCMFSVolumes*: maps of 0 to 3 partitions, sizes 0, 2, 3, words of 5 values.
  Two volumes already overflow, three give a volume whose predecessor is not
  the first, size 0 gives volumes that share their start. Queries run past the
  largest table.
- *MCZoneMap*: lists of up to 3 zones (first, middle, last) on two volumes laid
  out in the reverse order, as on the drive of README.md; for three zones all
  5^3 combinations of damage to the two copies; pointers inside a volume, on
  the boundary of two, in none; first sectors inside and outside. Words of 7
  values, so that two INode zones overflow `inode_count`. The list is finite,
  so every walk is.
- *MCFsidLookup*: a zone with room for 4 inodes, hence 8 ids for the code; every
  content of slots 1 to 3 with three fsids and three flag words; queries that
  hash to a slot before, inside and behind a chain and to the ids no slot
  belongs to; the zone in the first and in the second volume; two INode zones;
  none; zones and backups outside the volumes; damaged and aged copies.
- *MCINodeIter*: zones of 4 to 7 sectors (odd ones are overrun), in either
  volume, each of five slots (two behind the zone) an inode, zeros or junk.
- *MCDirectory*: sectors of 16 bytes, directories of up to 3 entries of seven
  forms (regular, odd length, too short, nameless, of no type, end mark, free).
  Two entries of six bytes and the offset fill a sector exactly; three of eight
  leave the four bytes of two that the parser wants behind them, and go over the
  end of one. A read of two sectors that ends after the first ends in or behind
  the header of an entry: with the entries of eight at 4, 12 and 20 it has the
  fsid of the second and not its length, with those of seven at 4 and 11 its
  length and not its type. In the inode with and without padding, in one block
  of either volume, in two blocks; both byte orders. The length byte has 16
  values, so that a short entry wraps to a name longer than a sector.
- *MCFileData*: five words in an inode, each of 0, 1, 2 and padding; block lists
  of up to two blocks of up to two sectors in three volumes, of which the second
  is where MFS counts it and the others are not; every flag word; both byte
  orders; reads that end at every word of a block or fail; and a chained inode whose own words, taken for a block list, name a
  sector with a copy of them (`CopiedFile`), the one way in which a file that is
  not read from its inode can still be answered right.
- *MCDriveLoad*: two MFS partitions in the reverse of their place on the disk
  between two others; maps with the second volume missing, with none, with a
  damaged entry first or in the middle, all zeros, and with a third volume that
  overflows; three zones with four sets of missing copies; sizes that do and do
  not overflow the inode count; four headers and four magics, each in both
  orders. Words of 16 values.
- *MCTivoFS*: two callers and one outage, which may fall between any two steps;
  the paths `/`, `/a`, `/a/b` and one whose component is not UTF-8, hence a
  component in the middle can fail and the last one can be found elsewhere.
  `Shadowed` has the same name at several places, a name twice, a nameless
  entry, a directory in a data block whose first entry can be cut to the name of
  the second, a database item that holds what looks like entries, and a part
  without the last zone of inodes, with which for a directory another one is
  answered, whose entry leads out of the tree, and a lookup panics. The others
  have a directory whose entries do not parse (an error, a panic) but may when
  they are cut short, an inode whose lookup is an error or a panic, and loads
  that are an error or a panic and leave a part without any zones.
- *MCOvitTools*: five zone lists with the first INode zone at `FirstInode`,
  behind it, behind a media zone, in the second volume, or missing; four sets
  of missing copies; an unreadable slot; every command with counts below, at
  and above the size of the table, numbers inside and outside it, where no
  volume is, where `2 * id` leaves the word, and no number at all. 1122 is 4
  here, words have 64 and 4096 values.

`CHECK_DEADLOCK FALSE` is set everywhere: a lookup that has returned, a process
that has panicked and a volume set nobody asks have nothing left to do.

### Fairness

All liveness is under weak fairness of running code only: `WF(Step)` in ZoneMap
and OvitTools, `WF(Next)` in FsidLookup, `WF(Session)` and `WF(Worker)` in
TivoFS. The first three are loops of one thread without any waiting; the last
two are threads that wait for nothing but their own queue. Nothing makes a
caller ask again, another consumer start, a drive come back or a fault go away:
`CallsReturn`, `LookupReturns`, `CommandEnds` and `CallsAnswered` do not need
it. MFSVolumes, INodeIter, Directory, FileData and DriveLoad claim no liveness.

### The properties worth knowing

- `InteriorGoesHome` / `BoundaryGoesToPredecessor`: what the inclusive bound
  does and does not break. Every sector but the first of a later volume is
  translated correctly; that one always ends up behind an earlier partition.
- `YieldedFollowsChain`: damage, faults and shared use cut the list short or
  end it with one phantom; they never skip, repeat or reorder zones.
- `OneCopyIsEnough`: a junk primary with a good backup costs nothing. A
  *zeroed* primary does: it parses, which is why `Survivable` excludes it.
- `CallsSplitTheList`: `inode_count` after `inode_iter` counts the zones
  behind the one `inode_iter` stopped at, and nothing else.
- `ChainInRange`: the loop condition of a lookup reduces the id modulo
  `inode_count` and the loop body does not. The id stays in range all the same,
  because the first id past the table maps to sector 0, which holds the volume
  header and is no inode. Termination (`LookupReturns`) rests on this.
- `NeedsReadablePrimary`: the backup place helps against an outdated primary
  copy, not against an unreadable one.
- `StaysInTable`: the `!=` that ends the inode iterator.
- `LostOnlyToShortRead`: a directory whose entries fill its block, go on in a
  second one or are followed by padding in the inode is an error as a whole;
  four more bytes behind the last entry make it complete. Only a read that ends
  early can make a listing `Ok` with entries missing: then those that were read
  in front are all there, in order, and the last one may itself be cut.
- `PlainDriveLooksEmpty`: directories are always read byte-swapped, so on a
  drive in plain order those in data blocks list as empty rather than fail.
- `BlockFileAnswered` / `LengthTellsFailure`: what is answered of a file in data
  blocks, block by block. The text that stands for an unreadable block is ten
  bytes long, so the length gives it away; zeros in place of the end of a block
  that was read short have its length and cannot be told from data.
- `SoundDriveLoads` / `FaultsOnlyShorten`: what `from_disk_image` makes of a
  good drive, and that a fault is indistinguishable from a shorter drive.
- `AnsweredForItsPath`: resolution passes over a component that is missing, but
  the kernel has looked every prefix up before, so while the drive stays it
  never happens; after an outage it can, and `ImplementsTree` states how far
  the answer may then be off.
- `StaysInTree`: a call that loaded the whole drive every time stays below the
  root, whatever else fails. One that took a part of it for the whole may leave
  the tree, because the smaller mask leads it to another inode; it still gets no
  further than the entries of the inodes so answered lead.
- `PanicNeedsCause`: a read never ends the process. While the drive stays,
  nothing else does but a drive whose load panics (no MFS partition, a pointer
  in no volume), or an inode on the path that is in no volume or whose directory
  is malformed.
- `ShownUnderItsNumber`: the constant 1122 is right for drives whose first INode
  zone starts there.
- `CountsAgree`: `inodes` prints the slots of the zone up to the first one that
  cannot be read, which hides all behind it without an error, and `info` prints
  one inode too few.
- `StoredIsFound` / `StoredIsShown`: a stored fsid is found and shown, on drives
  where the places of all inode ids lie in the first volume. In the others the
  reads of the chain go elsewhere (section 5).

## 4. Proofs

Each `*_proofs` module holds the theorems of one component, or of two that ask
the same kind of question. They hold for every value of the constants that
satisfies the named assumptions of the module; TLC evaluates those assumptions
in the runs above.

- **SectorMap_proofs**: `find` returns the first covering volume (from the
  least-number principle), translations are drive sectors, and in a table that
  tiles (`Adjoining`) volumes are in order (`OneAfterAnother`), interior sectors
  go home, boundary sectors go to a predecessor, and every sector up to the end
  is covered. It also holds what the other modules need of folds: that a fold
  exists and is unique, what it is on the empty sequence, how `Append` extends
  it (`FoldAppend`) and what set it stays in. These are shown by a least
  counterexample, because no induction theorem can be cited here.
- **Geometry_proofs**, about the volume table and the sectors of the inodes. Of
  MFSVolumes: `TypeCorrect`, `TiledAlways`, `InteriorAlwaysGoesHome`,
  `BoundaryAlwaysMisses`, `PanicsAlwaysJustified`. The inductive invariant adds
  to `Tiled` and `PanicsJustified` that later volumes start no earlier than
  earlier ones end (the transitive form of tiling) and that an answer is the
  translation of its sector by the finished table (`AnswerCurrent`). Of
  INodeIter: `IterTypeCorrect`, `AlwaysInOrder`, `AlwaysInTable`,
  `NoneEndsTheTable`, from the fact that the cursor has moved two sectors per
  inode returned; a `None` on an intact zone then leaves only the end.
- **ZoneMap_proofs**: `TypeCorrect`, `AlwaysFollowsChain`,
  `NeverPanicsOnMappedDrive`, `Refinement`, `OneCopyAlwaysEnough`,
  `CallsAlwaysSplit`. `YieldedFollowsChain` alone is not inductive: that the
  zones returned are a prefix does not say where the cursor is. The invariant
  adds (`Position`) that the cursor holds the pointers of the next link of the
  list, or is null behind the last zone or behind a phantom. `Refinement` is for
  drives that represent their list: where the code looks for a copy it finds
  that copy, junk or zeros, never another zone's block. For
  `OneCopyAlwaysEnough` the invariant (`SurvivesInv`) says that on a survivable
  drive there is no phantom and a walk ends behind the last link only. For
  `CallsAlwaysSplit` it (`RunInv`) says, while a call runs, what its consumer
  has made of the zones since `from`: `sum` is the fold of their sizes, none of
  them is the INode zone that `inode_iter` looks for.
- **FsidLookup_proofs**: `TypeCorrect`, `ChainAlwaysInRange`,
  `PrimaryAlwaysNeeded`, `StoredAlwaysFound`. `ChainInRange` needs that the
  hashed id is below `inode_count` when its primary copy could be read, hence
  `PrimaryAlwaysNeeded` and the assumption that MFS sector 0 holds no inode
  (`IsDrive`): it holds the header `from_disk_image` has parsed, with the magic
  ABBAFEED and, where an inode has its signature, the text of the partition
  list. `StoredAlwaysFound` follows a lookup along its chain (`OnTheWay`): at
  every read the id is between the hashed one and the one sought, and the inode
  in hand is that of its id. It needs `SectorForInode` to be injective on the
  slots and a sector of the first volume to be translated to itself, hence that
  the volumes of a drive adjoin (`IsDrive`): that is the table `MFSVolumes::new`
  builds (`TiledAlways`) unless its u32 sum wraps, a case only MFSVolumes and
  DriveLoad have. The lemmas about the way of a lookup ask of the drive no more
  than `Layout`: a first volume that starts at MFS sector 0, and zones whose
  sectors are numbers.
- **Contents_proofs**, about what an inode holds. Of Directory:
  `NothingEverSkipped`, `ListingsLoseNothingElse`, `PlainDriveAlwaysLooksEmpty`.
  The position of the parser is one of the stored offsets as long as no entry
  shorter than its header has been met (`Along`); behind one it may be anywhere,
  and the first property asks no more. For a readable directory the entries
  taken so far are the first of it and the position is the offset of the next
  one (`Taken`), until the position is behind the end of what was read: then the
  last entry may be cut (`TakenAs`), the next header is all zeros and the fold
  ends with it. After a full read it can end only where the entries end. On a
  plain drive the first header is exchanged and is refused. Of FileData:
  `HeaderFilesAlwaysAnswered`, `BlockFilesAlwaysAnswered`, `LengthAlwaysTells`.
  The invariant (`FileInv`) says of the data what the parse chose, and of every
  piece collected so far that it is the text for an unreadable block or the
  extent of the block with its number up to where the read ended (`PiecesOf`,
  `FromHeader`, `FromBlocks`). The rest is about sequences and uses the fold
  lemmas: filtering leaves a prefix without padding alone and shortens one with
  padding, equal pieces flatten to equal words, and a sum in which no term is
  larger than its counterpart and one is smaller is smaller. The last one is
  `LengthAlwaysTells`, for sectors longer than the text that stands for them.
- **DriveLoad_proofs**: `LoadPanicAlwaysJustified`, `FaultsAlwaysOnlyShorten`,
  `SoundDriveAlwaysLoads`. The invariant has one part per phase: the partitions
  are a prefix of the map, the table is the one of the partitions scanned so far
  (`TableOfMap`), the walk starts at the pointers of the header (`HeadOfList`).
  What the walk itself does is not proved again: the lemmas of ZoneMap_proofs
  are used through an instance of it (`Walked`), and what remains is that every
  step of DriveLoad either is a step of that walk or leaves it alone. For a
  sound drive `SoundLoad` says how far each phase has got, and that the table
  it will walk on is that of `WholeDrive`.
- **TivoFS_proofs**: `TypeCorrect`, `CallsStayInTree`, `PanicsHaveCause`,
  `PathsAreFollowed`, `KeepsItsPromise`, for any number of callers and outages,
  any drives, any parts of them and any paths. A step of a thread changes one
  call, so the invariant is a predicate of one call (`Good`), and for each
  handler step a lemma shows that the call it leaves behind is good. It says that
  the fsids of a call are within reach (`Bounded`), that a call which is past
  its load has loaded the whole of a drive that loads, or a part, and this only
  after an outage (`Loaded`, `Mounted`, `Sourced`), and where it stands on its
  path (`Following`). `AnsweredForItsPath` is not inductive, because a call that
  has just begun knows nothing of its path; the invariant adds (`Trailed`) that
  before any outage there is a trail from the root along the path above the last
  component, which the call follows: the kernel asks only below what it was told
  is a directory, and that answer was right. Hence only the last component can
  be missing. What can be reached is the least set closed under entries, and
  `StaysInTree` needs only that it is closed and that it grows when a call takes
  a part for the whole (`WithinGrows`). `ShownFacts` says of a listing cut short
  what the code makes of it: the entry it finds by name is one of the directory
  whose name, or a stub of it, is the one looked for.

  `KeepsItsPromise` is the refinement of FileTree. FileTree says what a path
  means by a recursive function over its components, the code by a loop whose
  every turn takes several steps. `Walked` says that the fsid a call has in hand
  is in the set of those that FileTree's walk reaches over the components served
  so far, with those that were missing passed over only once a read has failed,
  and never the last; `Held` says this of a call until it is answered, and `Kept`
  that an answer is one FileTree promises. For every handler a lemma shows that
  its step keeps `Held` and is, on the abstract side, `Tell` for the call it
  answers or a stutter; a request is `Ask`, the first outage is `Fail`. Nothing
  of this depends on what the other calls are doing, which is why they need no
  synchronisation.

- **OvitTools_proofs**: `AlwaysUnderItsNumber`, `CountsAlwaysAgree`,
  `StoredAlwaysShown`, for every drive, command and hash. The properties say of
  one command what others say of its parts; what has to be shown is that each
  phase hands its state to the next as that expects it. So the invariant has one
  part per concern, and all but the types only for sound drives: `WalkInv`, a
  walk has returned the first n zones of the list and is at the next link
  (`WalkedTo`), and the zones of a loaded drive are such a prefix, the whole
  list unless it fails; `RowsInv`, the iterator is on the first INode zone and
  the rows printed are those of its first slots; `NumberInv`, `CountInv` and
  `FsidInv` for the commands `inode`, `info`/`inodes` and `fsid`. One lemma says
  what a call of `next` does to such a walk (`WalkStep`), one what a call of the
  iterator does (`RowStep`), and the lookup is followed with `StaysOnTheWay` of
  FsidLookup_proofs, through an instance of it (`Looked`) on the drive that was
  loaded. Since `Sound` excludes an empty zone, a search that ends without a
  table is a fault.

Only model-checked are the liveness properties `CallsReturn`, `LookupReturns`,
`CallsAnswered` and `CommandEnds`: fairness and ENABLED are beyond the prover.
`FsidHash` uses bitwise and, so the proofs treat the hash as any function into
`0..mask`, or as any function at all where a property asks no more.

## 5. Where the code and its texts disagree

Runs that TLC refutes:

1. `readme_drive`: `mfstool.log:22-49` lists six zones; with the partition sizes
   of `README.md:30-33` the walk ends after three, silently. The cause is
   `volume.rs:27`: the partition map's sizes of the media partitions are 665 and
   261 sectors larger than the volumes the TiVo made of them.
2. `fallback`: `ovit/lib.rs:213` "Returning the original hashed INode": in any
   volume but the first the last read goes elsewhere, its sector is not rebased.
3. `files_viewed`: `README.md:87-91` shows files viewed through the FUSE driver;
   `inode.rs:231` reads data blocks at their MFS sector number taken as a drive
   sector.

Stated as what the code does, in passing properties:

4. `BoundaryGoesToPredecessor` (`volumes`): `volume.rs:48` / `:51`, the "volume
   containing sector {}" need not contain it.
5. `CountsAgree` (`tools`): `inode.rs:302` "the remaining number of iterations",
   which `info` prints as the inode count, is one too few.

Seen while modelling and true of the models, without a property of their own:
`inode.rs:287` says that every inode exists twice, but `TivoDrive::inode_count`
is not halved, so half of the hashed ids have no place; and the components of a
path that are not found are passed over (`ovit_fuse/mod.rs:60`), which the
kernel hides until the drive goes away.

## 6. Plan

Done: SectorMap and MFSVolumes, because every other read depends on them;
ZoneMap with ZoneStream; FsidLookup; INodeIter; then Directory and FileData;
TivoFS with FileTree; DriveLoad and OvitTools, which compose the components;
the proofs of every safety property and of both refinements.

Left: the bits of `FsidHash` (that its value stays below the mask is checked by
TLC for the fsids and masks of the runs, as an assumption of FsidLookup); and a
read that honours `offset` and `size`, should the handler of `read` come to do
so.

### Not modelled

- *Formatting and logging* of the tools and the file system: no property is
  about them.
- *Sizes and times* of attributes, and the characters of names: nothing decides
  on them. `readdir` drops nameless entries, which is kept.
- *offset and size of `read`*: the handler ignores them and answers the whole
  file; what `fuse_mt` and the kernel make of a longer answer is theirs.
- *A zone list with a cycle*: the TiVo writes none, and a walk on one does not
  end.
- *The `rayon` iteration* in `readdir` is a pure map, and *`schema.txt`* is read
  by no code.
- *A read of one block that ends inside it*, as it would on an image whose last
  sector is cut off: a block of a zone, an inode or a header is there, damaged
  or zero. Reads of several blocks end early by sectors in DriveLoad and
  Directory, by words in FileData, and by entries in TivoFS.
- *The read of `inodes -d`* for its data column: what it answers is in FileData
  and it is printed as it is.
- *`MFSINode` and header fields* that no other code reads.
