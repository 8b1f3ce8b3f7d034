---------------------------- MODULE MCFsidLookup ----------------------------
(***************************************************************************)
(* Small drives for FsidLookup.  The first volume lies behind the second   *)
(* on the drive.  An INode zone of 8 sectors has room for the inodes 0..3  *)
(* and, for the code, the ids 0..7.                                        *)
(***************************************************************************)
EXTENDS FsidLookup, FsidHash

MCWordSize == 64
MCQueries == {1, 2, 5, 8, 9}   \* hashed to 1, 2, 5, 0, 1 in a table of 8

Vols == <<[disk_sector |-> 30, sector_start |-> 0, sector_count |-> 20],
          [disk_sector |-> 3, sector_start |-> 20, sector_count |-> 25]>>

TrueLocation(s) == IF s < 20 THEN 30 + s ELSE 3 + (s - 20)

MkZone(type, first, backup, size) ==
  [type |-> type, first_sector |-> first, backup_sector |-> backup, size |-> size]

MkInode(fsid, id, flags) ==
  [kind |-> "inode", inode |-> [fsid |-> fsid, inode |-> id, flags |-> flags]]

(* The drive with these zones; the sectors of `at` hold inodes, and
   drive sector 35 a stray one. *)
MkDrive(zones, at) ==
  [volumes     |-> Vols,
   failing     |-> FALSE,
   zones       |-> zones,
   inode_count |-> InodeCount(zones),
   image       |-> [size   |-> 56,
                    blocks |-> [loc \in {TrueLocation(s) : s \in DOMAIN at} \cup {35} |->
                                  IF loc = 35 THEN MkInode(35, 35, {})
                                  ELSE at[CHOOSE s \in DOMAIN at : TrueLocation(s) = loc]]]]

Media == MkZone("Media", 12, 18, 4)
ZoneAt(first) == MkZone("INode", first, first + 7, 8)

(* What slot id may hold: an inode that is free, or in use with any flags. *)
SlotContents(id) ==
  {MkInode(0, id, {})}
    \cup {MkInode(f, id, flags) : f \in {1, 2, 9},
                                  flags \in {{}, {"chained"}, {"chained", "data_in_header"}}}

Tables == {<<t1, t2, t3>> : t1 \in SlotContents(1), t2 \in SlotContents(2),
                            t3 \in SlotContents(3)}
Record(table, id) == IF id = 0 THEN MkInode(8, 0, {"chained"}) ELSE table[id]

(* Both copies of every slot, as the lookup expects them on the drive. *)
Laid(first, table) ==
  [s \in {first + 2 * id : id \in 0..3} \cup {first + 8 + 2 * id : id \in 0..3} |->
     Record(table, ((s - first) % 8) \div 2)]

(* A table whose slot 1 is damaged: an unparsable primary copy, a zeroed
   backup copy, or primary and backup of different age. *)
Damaged(first, table) ==
  {[Laid(first, table) EXCEPT ![first + 2] = JunkBlock],
   [Laid(first, table) EXCEPT ![first + 10] = ZeroBlock],
   [Laid(first, table) EXCEPT ![first + 2] = MkInode(7, 1, {"chained"})],
   [Laid(first, table) EXCEPT ![first + 10] = MkInode(7, 3, {"chained"})]}

ChainedTables ==
  {t \in Tables : \A id \in 1..3 : t[id].inode.flags = {"chained"}}
FlatTables == {t \in Tables : \A id \in 1..3 : t[id].inode.flags = {}}

SoundDrives ==
  {MkDrive(<<Media, ZoneAt(2)>>, Laid(2, t)) : t \in Tables}
    \cup {MkDrive(<<ZoneAt(22)>>, Laid(22, t)) : t \in ChainedTables \cup FlatTables}
    \cup UNION {{MkDrive(<<ZoneAt(2)>>, at) : at \in Damaged(2, t)} : t \in ChainedTables}
    \cup {MkDrive(<<ZoneAt(2), MkZone("INode", 22, 35, 4)>>, Laid(2, t)) : t \in ChainedTables}
    \cup {MkDrive(zones, Laid(2, t)) :
            zones \in {<<>>, <<Media>>, <<ZoneAt(60)>>, <<MkZone("INode", 2, 60, 8)>>},
            t \in ChainedTables}

MCDrives == SoundDrives \cup {[d EXCEPT !.failing = TRUE] : d \in SoundDrives}
=============================================================================
