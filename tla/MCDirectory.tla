----------------------------- MODULE MCDirectory -----------------------------
(***************************************************************************)
(* Directories of up to three entries and sectors of 16 bytes: kept in the *)
(* inode, in a data block of the first or of the second volume, of one     *)
(* sector or of two, or in two data blocks.  Two entries of six bytes and  *)
(* the offset fill a sector; behind three of eight there are four bytes    *)
(* left of two.  A read may end behind the length of an entry, or in it.   *)
(***************************************************************************)
EXTENDS Directory, TLC

MCBlockSize == 16
MCByteRange == 16
MCStrays == {[fsid |-> 99, length |-> 9, type |-> 3], [fsid |-> 98, length |-> 6, type |-> 1],
             [fsid |-> 97, length |-> 0, type |-> 0]}

Vols == <<[disk_sector |-> 30, sector_start |-> 0, sector_count |-> 20],
          [disk_sector |-> 3, sector_start |-> 20, sector_count |-> 25]>>

(* Lengths and types of entries: a directory of eight bytes, a file of odd
   length, one too short for its header, one without a name, one of no type,
   an end mark; with fsid 0 a free one. *)
Forms == {<<8, 4>>, <<7, 1>>, <<3, 1>>, <<6, 8>>, <<9, 3>>, <<8, 0>>, <<0, 1>>}
Lists == UNION {[1..n -> Forms] : n \in 0..3}

Stored(list, free) ==
  [i \in DOMAIN list |-> [fsid   |-> IF i = free THEN 0 ELSE 10 + i,
                          length |-> list[i][1],
                          type   |-> list[i][2]]]

Offsets(list) ==
  LET before[i \in 1..(Len(list) + 1)] ==
        IF i = 1 THEN OffsetSize ELSE before[i - 1] + list[i - 1][1]
  IN  before

HeadersOf(list, free) ==
  [o \in {Offsets(list)[i] : i \in DOMAIN list} |->
     Stored(list, free)[CHOOSE i \in DOMAIN list :
                          /\ Offsets(list)[i] = o
                          /\ \A j \in DOMAIN list : Offsets(list)[j] = o => j <= i]]

Foreign == [o \in {4} |-> [fsid |-> 50, length |-> 9, type |-> 1]]
MkArea(headers) == [size |-> MCBlockSize, read |-> MCBlockSize, headers |-> headers, exchanged |-> FALSE]

(* Places: the start of the inode's partition, its data blocks, whether the
   drive is byte-swapped.  Drive sector 28 holds another directory. *)
Places == {[start |-> 30, blocks |-> <<[sector |-> 5, count |-> 1]>>, swapped |-> TRUE],
           [start |-> 30, blocks |-> <<[sector |-> 5, count |-> 2]>>, swapped |-> TRUE],
           [start |-> 30, blocks |-> <<[sector |-> 5, count |-> 1], [sector |-> 6, count |-> 1]>>,
            swapped |-> TRUE],
           [start |-> 3, blocks |-> <<[sector |-> 25, count |-> 1]>>, swapped |-> TRUE],
           [start |-> 30, blocks |-> <<[sector |-> 5, count |-> 1]>>, swapped |-> FALSE]}

InBlocks(list, free, place, failing) ==
  [volumes |-> Vols, partition_starting_sector |-> place.start,
   datablocks |-> place.blocks,
   data  |-> NoArea,
   areas |-> (35 :> MkArea(HeadersOf(list, free)) @@ 8 :> MkArea(HeadersOf(list, free))
                @@ 28 :> MkArea(Foreign)),
   swapped |-> place.swapped,
   failing |-> failing,
   stored  |-> Stored(list, free), offsets |-> Offsets(list)]

InInode(list, free, room, deadbeef) ==
  [volumes |-> Vols, partition_starting_sector |-> 30,
   datablocks |-> <<>>,
   data  |-> HeaderArea(room, Offsets(list)[Len(list) + 1], deadbeef, HeadersOf(list, free)),
   areas |-> <<>>,
   swapped |-> TRUE,
   failing |-> FALSE,
   stored  |-> Stored(list, free), offsets |-> Offsets(list)]

MCDirectories ==
  {InBlocks(list, free, place, failing) :
     list \in Lists, free \in {0, 2}, place \in Places, failing \in BOOLEAN}
    \cup {InInode(list, 0, 32, deadbeef) : list \in Lists, deadbeef \in BOOLEAN}
    \cup {InInode(<<>>, 0, room, FALSE) : room \in {0, 3}}
=============================================================================
