------------------------------ MODULE MCFileData ------------------------------
(***************************************************************************)
(* Inodes with room for five words, sectors of three words.  The data is   *)
(* in the inode, with any mixture of content and padding, or in up to two  *)
(* data blocks of up to two sectors in one of three volumes, of which the  *)
(* second lies on the drive where MFS counts it.                           *)
(***************************************************************************)
EXTENDS FileData, TLC

MCBlockWords == 3
MCDeadBeef == 9

Vols == <<[disk_sector |-> 30, sector_start |-> 0, sector_count |-> 10],
          [disk_sector |-> 10, sector_start |-> 10, sector_count |-> 10],
          [disk_sector |-> 2, sector_start |-> 20, sector_count |-> 8]>>

TrueLocation(s) == IF s < 10 THEN 30 + s ELSE IF s < 20 THEN s ELSE 2 + (s - 20)

(* The sectors 4, 5, 6 of each volume; their words tell the sector. *)
Written == {4, 5, 6, 14, 15, 16, 24, 25, 26}
SectorWords(s) == <<100 + s, 200 + s, 300 + s>>
Sectors ==
  [loc \in {TrueLocation(s) : s \in Written} |->
     SectorWords(CHOOSE s \in Written : TrueLocation(s) = loc)]

MkFile(flags, words, content, swapped, failing) ==
  [volumes |-> Vols, flags |-> flags, words |-> words, content |-> content,
   sectors |-> Sectors, swapped |-> swapped, failing |-> failing]

HeaderWords == [1..5 -> {0, 1, 2, MCDeadBeef}]
HeaderFiles ==
  {MkFile(flags, w, SubSeq(w, 1, n), TRUE, FALSE) :
     flags \in {{"data_in_header"}, {"chained", "data_in_header"}}, w \in HeaderWords, n \in {0, 3}}
    \cup {MkFile({"data_in_header"}, [i \in 1..5 |-> MCDeadBeef], <<>>, TRUE, FALSE)}

(* Content that names, taken for a list of blocks, a sector with a copy. *)
Copied == <<1, 14, 1>>
CopiedFile ==
  [MkFile({"chained", "data_in_header"}, Copied, Copied, TRUE, FALSE) EXCEPT
     !.sectors = 14 :> Copied]

Blocks == {[sector |-> v + s, count |-> c] : v \in {0, 10, 20}, s \in {4, 5}, c \in {1, 2}}
BlockLists == {<<>>} \cup {<<b>> : b \in Blocks} \cup {<<b1, b2>> : b1, b2 \in Blocks}

WordsOf(bs) ==
  <<Len(bs)>> \o FlattenSeq([i \in DOMAIN bs |-> <<bs[i].sector, bs[i].count>>])
ContentOf(bs) ==
  FlattenSeq([i \in DOMAIN bs |->
     FlattenSeq([k \in 1..bs[i].count |-> SectorWords(bs[i].sector + k - 1)])])

BlockFiles ==
  {MkFile(flags, WordsOf(bs), ContentOf(bs), swapped, failing) :
     flags \in {{}, {"chained"}}, bs \in BlockLists, swapped \in BOOLEAN,
     failing \in BOOLEAN}

MCFiles == HeaderFiles \cup BlockFiles \cup {CopiedFile}
=============================================================================
