------------------------------- MODULE FileData -------------------------------
(***************************************************************************)
(* The data of one inode: the tail of MFSINode::parse, which decides       *)
(* whether the inode carries its data in its own sector or a list of data  *)
(* blocks, and MFSINode::get_data, which fetches it.                       *)
(*                                                                         *)
(* The flag word is compared as a whole, so an inode that is chained and   *)
(* has its data in the header is parsed as one with data blocks.  Blocks   *)
(* are read at their MFS sector number taken as a sector of the drive, and *)
(* always as byte-swapped; a block that cannot be read is replaced by the  *)
(* ten bytes of "Dummy Data".  A read that ends early is Ok: what it has   *)
(* not read of the block stays zero.                                       *)
(*                                                                         *)
(* One step is the parse or the read of one data block.  Data is counted   *)
(* in words of four bytes, whose values are small numbers.                 *)
(***************************************************************************)
EXTENDS SectorMap, SequencesExt

CONSTANTS
  Files,       \* the inodes considered, see IsFile
  BlockWords,  \* words in a sector, 128 in the code
  DeadBeef     \* the padding word 0xDEADBEEF

Flags == {"chained", "data_in_header"}

(* An inode: its flags, the words of its sector behind the flags, the words
   of the file the TiVo stored in it, the volume table, the sectors of the
   drive as sequences of words, the byte order of the drive, and whether
   its image may fail to open or read, or be read short. *)
IsFile(f) ==
  /\ f.volumes \in Seq(Volume)
  /\ f.flags \in SUBSET Flags
  /\ f.words \in Seq(Nat)
  /\ f.content \in Seq(Nat)
  /\ \A loc \in DOMAIN f.sectors : f.sectors[loc] \in [1..BlockWords -> Nat]
  /\ f.swapped \in BOOLEAN
  /\ f.failing \in BOOLEAN

(* A sector is longer than the text that stands for an unreadable one. *)
ASSUME BlockWordsAssumption == BlockWords \in Nat /\ 4 * BlockWords > 10
ASSUME DeadBeefAssumption == DeadBeef \in Nat
ASSUME FilesAssumption == \A f \in Files : IsFile(f)

VARIABLES
  file,        \* the inode; never changes
  stage,       \* "parse", "get", "blocks", "done" or "unparsable"
  data,        \* MFSINode.data
  datablocks,  \* MFSINode.datablocks
  answer       \* the pieces get_data has collected

file_vars == <<file, stage, data, datablocks, answer>>

FileInit ==
  /\ file \in Files
  /\ stage = "parse"
  /\ data = <<>>
  /\ datablocks = <<>>
  /\ answer = <<>>

-----------------------------------------------------------------------------
(* Slip: the flag is tested on its own, as a bit. *)
HeaderFlagSet(f) == "data_in_header" \in f.flags

InHeader(f) == f.flags = {"data_in_header"}

(* chunks(4).filter(...): every word of padding goes, wherever it is. *)
DropPadding(words) ==
  FoldLeft(LAMBDA kept, w : IF w = DeadBeef THEN kept ELSE Append(kept, w), <<>>, words)

NumBlocks(f) == f.words[1]
Complete(f) == f.words # <<>> /\ Len(f.words) >= 1 + 2 * NumBlocks(f)

BlockList(f) ==
  [i \in 1..NumBlocks(f) |-> [sector |-> f.words[2 * i], count |-> f.words[2 * i + 1]]]

ParseHeaderData ==
  /\ stage = "parse"
  /\ InHeader(file)
  /\ data' = DropPadding(file.words)
  /\ stage' = "get"
  /\ UNCHANGED <<file, datablocks, answer>>

ParseBlockList ==
  /\ stage = "parse"
  /\ ~InHeader(file)
  /\ Complete(file)
  /\ datablocks' = BlockList(file)
  /\ stage' = "get"
  /\ UNCHANGED <<file, data, answer>>

(* count runs into the end of the sector: Incomplete, no inode. *)
ListIncomplete ==
  /\ stage = "parse"
  /\ ~InHeader(file)
  /\ ~Complete(file)
  /\ stage' = "unparsable"
  /\ UNCHANGED <<file, data, datablocks, answer>>

-----------------------------------------------------------------------------
(* One piece of the answer: `read` of its words were read (history). *)
WordPiece(words, read, exchanged) ==
  [bytes |-> 4 * Len(words), words |-> words, read |-> read, exchanged |-> exchanged,
   failed |-> FALSE]

DummyPiece ==
  [bytes |-> 10, words |-> <<>>, read |-> 0, exchanged |-> FALSE, failed |-> TRUE]

GetHeaderData ==
  /\ stage = "get"
  /\ data # <<>>
  /\ answer' = <<WordPiece(data, Len(data), FALSE)>>
  /\ stage' = "done"
  /\ UNCHANGED <<file, data, datablocks>>

GetBlocks ==
  /\ stage = "get"
  /\ data = <<>>
  /\ datablocks # <<>>
  /\ stage' = "blocks"
  /\ UNCHANGED <<file, data, datablocks, answer>>

GetNothing ==
  /\ stage = "get"
  /\ data = <<>>
  /\ datablocks = <<>>
  /\ stage' = "done"
  /\ UNCHANGED <<file, data, datablocks, answer>>

(* A sector as it is read: zeros where the image has none. *)
Sector(f, loc) ==
  IF loc \in DOMAIN f.sectors THEN f.sectors[loc] ELSE [i \in 1..BlockWords |-> 0]

(* `count` sectors from one place on, one after the other. *)
Extent(f, loc, count) ==
  [k \in 1..(count * BlockWords) |->
     Sector(f, loc + (k - 1) \div BlockWords)[1 + ((k - 1) % BlockWords)]]

(* A buffer of zeros whose first n words are read. *)
CutTo(words, n) == [k \in DOMAIN words |-> IF k <= n THEN words[k] ELSE 0]

Current == datablocks[Len(answer) + 1]

(* Slip: only the first sector of the block is read. *)
ReadOneSector ==
  /\ stage = "blocks"
  /\ Len(answer) < Len(datablocks)
  /\ answer' = Append(answer,
       WordPiece(Extent(file, Current.sector, 1), BlockWords, ~file.swapped))
  /\ UNCHANGED <<file, stage, data, datablocks>>

(* All words of the block, or some of the first ones. *)
WordsRead(f, block) ==
  IF f.failing THEN 0..(block.count * BlockWords) ELSE {block.count * BlockWords}

(* The sector of the block is used as it is, whatever volume it is in. *)
ReadBlock ==
  /\ stage = "blocks"
  /\ Len(answer) < Len(datablocks)
  /\ \E n \in WordsRead(file, Current) :
       answer' = Append(answer,
         WordPiece(CutTo(Extent(file, Current.sector, Current.count), n), n, ~file.swapped))
  /\ UNCHANGED <<file, stage, data, datablocks>>

(* Slip: a block that cannot be read is answered as zeros. *)
BlockReadAsZeros ==
  /\ stage = "blocks"
  /\ Len(answer) < Len(datablocks)
  /\ file.failing
  /\ answer' = Append(answer, [DummyPiece EXCEPT !.bytes = 4 * BlockWords * Current.count])
  /\ UNCHANGED <<file, stage, data, datablocks>>

BlockReadFails ==
  /\ stage = "blocks"
  /\ Len(answer) < Len(datablocks)
  /\ file.failing
  /\ answer' = Append(answer, DummyPiece)
  /\ UNCHANGED <<file, stage, data, datablocks>>

Collect ==
  /\ stage = "blocks"
  /\ Len(answer) = Len(datablocks)
  /\ stage' = "done"
  /\ UNCHANGED <<file, data, datablocks, answer>>

FileNext ==
  \/ ParseHeaderData
  \/ ParseBlockList
  \/ ListIncomplete
  \/ GetHeaderData
  \/ GetBlocks
  \/ GetNothing
  \/ ReadBlock
  \/ BlockReadFails
  \/ Collect

FileSpec == FileInit /\ [][FileNext]_file_vars

-----------------------------------------------------------------------------
(***************************************************************************)
(* Properties.                                                             *)
(***************************************************************************)

Words(pieces) == FlattenSeq([i \in DOMAIN pieces |-> pieces[i].words])

Total(numbers) == FoldLeft(LAMBDA acc, n : acc + n, 0, numbers)
Bytes(pieces) == Total([i \in DOMAIN pieces |-> pieces[i].bytes])

(* The words of a block on the sectors its volume has. *)
TrueExtent(f, block) ==
  [k \in 1..(block.count * BlockWords) |->
     Sector(f, SectorToDiskLocation(f.volumes, block.sector + (k - 1) \div BlockWords))
       [1 + ((k - 1) % BlockWords)]]

Mapped(f, block) ==
  \A s \in block.sector..(block.sector + block.count - 1) : Covering(f.volumes, s) # {}

(* The content is in the inode, marked so with or without the chained flag,
   or it is in the true places of the data blocks. *)
KeptInHeader(f) == "data_in_header" \in f.flags /\ IsPrefix(f.content, f.words)

KeptInBlocks(f) ==
  /\ "data_in_header" \notin f.flags
  /\ Complete(f)
  /\ \A i \in 1..NumBlocks(f) : Mapped(f, BlockList(f)[i])
  /\ IsPrefix(f.content,
       FlattenSeq([i \in 1..NumBlocks(f) |-> TrueExtent(f, BlockList(f)[i])]))

(* In all blocks the drive sector is the MFS sector. *)
PlacesAgree(f) ==
  \A i \in 1..NumBlocks(f) :
    \A s \in BlockList(f)[i].sector..(BlockList(f)[i].sector + BlockList(f)[i].count - 1) :
      SectorToDiskLocation(f.volumes, s) = s

InFull(piece) == ~piece.failed /\ piece.read = Len(piece.words)

(* Every piece was read in full, and together they begin with the content. *)
Answers(f) ==
  /\ stage = "done"
  /\ \A i \in DOMAIN answer : ~answer[i].exchanged /\ InFull(answer[i])
  /\ IsPrefix(f.content, Words(answer))

(* The content taken for a list of data blocks leads to itself. *)
LeadsToItself(f) ==
  /\ Complete(f)
  /\ f.swapped
  /\ IsPrefix(f.content,
       FlattenSeq([i \in 1..NumBlocks(f) |->
                     Extent(f, BlockList(f)[i].sector, BlockList(f)[i].count)]))

(* A file kept in its inode is answered, from its first word on, when the
   file itself does not contain the padding word and its inode is not
   chained as well; and only then, but for the chance that its own words,
   taken for data blocks, name sectors that hold the same. *)
HeaderFileAnswered ==
  (stage \in {"done", "unparsable"} /\ KeptInHeader(file) /\ file.content # <<>>)
  => LET intact == /\ file.flags = {"data_in_header"}
                   /\ \A i \in DOMAIN file.content : file.content[i] # DeadBeef
     IN  /\ intact => Answers(file)
         /\ Answers(file) => intact \/ (~InHeader(file) /\ LeadsToItself(file))

(* On a byte-swapped drive, where every block is at the drive sector of the
   same number, the data blocks of a file come in order, each in its full
   length unless it is the dummy text, and word for word up to where its
   read has ended; behind that there are zeros, and no error.  When every
   block was read in full the file is answered. *)
BlockFileAnswered ==
  (stage = "done" /\ KeptInBlocks(file) /\ PlacesAgree(file) /\ file.swapped) =>
    /\ Len(answer) = NumBlocks(file)
    /\ \A i \in DOMAIN answer :
         LET stored == TrueExtent(file, BlockList(file)[i])
         IN  ~answer[i].failed =>
               /\ Len(answer[i].words) = Len(stored)
               /\ \A k \in DOMAIN stored :
                    answer[i].words[k] = IF k <= answer[i].read THEN stored[k] ELSE 0
    /\ (\A i \in DOMAIN answer : InFull(answer[i])) => Answers(file)

(* A block whose read is an error shifts everything behind it, and the length
   of the answer gives it away: it is that of all blocks together exactly
   when no read was an error.  A read that ends early is none, so the zeros
   it leaves are not told by the length. *)
LengthTellsFailure ==
  (stage = "done" /\ datablocks # <<>> /\ \A i \in DOMAIN datablocks : datablocks[i].count > 0)
  => ((\A i \in DOMAIN answer : ~answer[i].failed)
        <=> Bytes(answer) = Total([i \in DOMAIN datablocks |-> 4 * BlockWords * datablocks[i].count]))

(* README.md shows files "successfully viewed from the TiVo Media Filesystem
   using the oViT FUSE Driver", longer than an inode has room for: a file
   kept in data blocks of a byte-swapped drive is answered as it is stored. *)
StoredFileAnswered ==
  (stage = "done" /\ ~file.failing /\ KeptInBlocks(file) /\ file.swapped) => Answers(file)
=============================================================================
