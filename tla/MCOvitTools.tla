----------------------------- MODULE MCOvitTools -----------------------------
(***************************************************************************)
(* Commands on small drives: two volumes in the reverse of their order on  *)
(* the disk, up to three zones, the first INode zone with four inodes in   *)
(* the first volume, at FirstInode or behind it, or in the second volume.  *)
(***************************************************************************)
EXTENDS OvitTools, FsidHash

MCWordSize == 64
MCLongWord == 4096
MCFirstInode == 4

Vols == <<[disk_sector |-> 30, sector_start |-> 0, sector_count |-> 22],
          [disk_sector |-> 3, sector_start |-> 22, sector_count |-> 25]>>
TrueLocation(s) == IF s < 22 THEN 30 + s ELSE 3 + (s - 22)

MkZone(type, first, next, backup_next) ==
  [type |-> type, next_zonemap_ptr |-> next, backup_next_zonemap_ptr |-> backup_next,
   backup_sector |-> first + 7, first_sector |-> first, last_sector |-> first + 7, size |-> 8]

(* Zones of these types and first sectors. *)
Pointers == <<<<1, 3>>, <<2, 44>>, <<22, 46>>>>
MkChain(zones) ==
  [i \in DOMAIN zones |->
     [ptr |-> Pointers[i][1], backup |-> Pointers[i][2],
      zone |-> MkZone(zones[i][1], zones[i][2],
                      IF i < Len(zones) THEN Pointers[i + 1][1] ELSE 0,
                      IF i < Len(zones) THEN Pointers[i + 1][2] ELSE 99)]]

Lists == {<<<<"INode", 4>>>>,
          <<<<"Media", 0>>, <<"INode", 5>>>>,
          <<<<"INode", 4>>, <<"Media", 0>>, <<"INode", 26>>>>,
          <<<<"Media", 0>>, <<"INode", 26>>>>,
          <<<<"Media", 0>>>>}

MkInode(fsid, id, flags, type, resident, listing) ==
  [kind |-> "inode", inode |-> [fsid |-> fsid, inode |-> id, flags |-> flags, type |-> type,
                                resident |-> resident, listing |-> listing]]

(* What the four slots hold: fsids 8, 1, 9 and 2 hash to 0, 1, 1 and 2. *)
Listings == {<<TRUE, "ok">>, <<FALSE, "ok">>, <<FALSE, "error">>}
Slot(id, dir) ==
  CASE id = 0 -> MkInode(8, 0, {}, "File", FALSE, "error")
    [] id = 1 -> MkInode(1, 1, {"chained"}, "Dir", dir[1], dir[2])
    [] id = 2 -> MkInode(9, 2, {"chained"}, "Db", TRUE, "panic")
    [] id = 3 -> MkInode(2, 3, {}, "Stream", FALSE, "error")

(* Copies of zones that cannot be read, and a slot that holds no inode. *)
Missing == {{}, {<<1, 1>>}, {<<2, 1>>, <<3, 1>>}, {<<2, 1>>, <<2, 2>>}}
Spots(chain, missing) == ((DOMAIN chain) \X {1, 2}) \ missing
CopySector(sp) == Pointers[sp[1]][sp[2]]

TableStart(chain) ==
  LET at == {i \in DOMAIN chain : chain[i].zone.type = "INode"}
  IN  IF at = {} THEN 4 ELSE chain[CHOOSE i \in at : \A j \in at : i <= j].zone.first_sector

Sectors(chain, missing, slots) ==
  LET first == TableStart(chain)
      zoneAt == {CopySector(sp) : sp \in Spots(chain, missing)}
      inodeAt == {first + 2 * id + b : id \in slots, b \in {0, 8}}
  IN  [s \in zoneAt \cup inodeAt |->
         IF s \in inodeAt THEN <<"inode", ((s - first) % 8) \div 2>>
         ELSE <<"zone", (CHOOSE sp \in Spots(chain, missing) : CopySector(sp) = s)[1]>>]

MkDrive(zones, missing, slots, dir, failing) ==
  LET chain == MkChain(zones)
      at == Sectors(chain, missing, slots)
  IN  [volumes |-> Vols, chain |-> chain, failing |-> failing,
       image |-> [size |-> 56,
                  blocks |-> [loc \in {TrueLocation(s) : s \in DOMAIN at} |->
                    LET s == CHOOSE t \in DOMAIN at : TrueLocation(t) = loc
                    IN  IF at[s][1] = "inode" THEN Slot(at[s][2], dir)
                        ELSE Zones!Intact(chain[at[s][2]].zone)]]]

MCDrives == {MkDrive(zones, missing, slots, dir, failing) :
               zones \in Lists, missing \in Missing, slots \in {0..3, {0, 1, 3}},
               dir \in Listings, failing \in BOOLEAN}
              \cup {MkDrive(<<>>, {}, {}, <<TRUE, "ok">>, FALSE)}

MkCommand(name, id) == [name |-> name, numeric |-> TRUE, id |-> id]
MCCommands ==
  {MkCommand(name, 0) : name \in Printers \cup {"info"}}
    \cup {MkCommand("inodes", n) : n \in {0, 2, 9}}
    \cup {MkCommand("fsid", f) : f \in {1, 2, 5, 8, 9}}
    \cup {MkCommand("inode", n) : n \in {0, 2, 3, 5, 30, 2046}}
    \cup {[name |-> "inode", numeric |-> FALSE, id |-> 0]}
=============================================================================
