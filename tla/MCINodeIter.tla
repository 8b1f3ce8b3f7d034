----------------------------- MODULE MCINodeIter -----------------------------
(***************************************************************************)
(* INode zones of four to seven sectors, in the first or in the second of  *)
(* two volumes; every slot of the zone, and the two behind it, holds an    *)
(* inode, zeros or junk.                                                   *)
(***************************************************************************)
EXTENDS INodeIter

MCLongWord == 16

Vols == <<[disk_sector |-> 30, sector_start |-> 0, sector_count |-> 14],
          [disk_sector |-> 3, sector_start |-> 14, sector_count |-> 16]>>

TrueLocation(s) == IF s < 14 THEN 30 + s ELSE 3 + (s - 14)

MkInode(fsid) == [kind |-> "inode", inode |-> [fsid |-> fsid]]

Contents == [0..4 -> {"inode", "zero", "junk"}]

(* Slot i is the pair of sectors first + 2i and first + 2i + 1; the second
   copy has the fsid of the first plus 50, to tell the two apart. *)
MkTable(first, size, content, failing) ==
  LET slot(s) == (s - first) \div 2
      copy(s) == (s - first) % 2
      Good == {s \in first..(first + 9) : content[slot(s)] # "junk"}
  IN  [volumes      |-> Vols,
       first_sector |-> first,
       last_sector  |-> first + size - 1,
       failing      |-> failing,
       image        |-> [size   |-> 60,
                         blocks |-> [loc \in {TrueLocation(s) : s \in Good} |->
                           LET s == CHOOSE s \in Good : TrueLocation(s) = loc
                           IN  IF content[slot(s)] = "zero" THEN ZeroBlock
                               ELSE MkInode(slot(s) + 50 * copy(s))]]]

MCTables == {MkTable(first, size, c, failing) :
               first \in {2, 16}, size \in 4..7, c \in Contents, failing \in BOOLEAN}
=============================================================================
