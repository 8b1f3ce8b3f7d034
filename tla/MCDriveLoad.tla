----------------------------- MODULE MCDriveLoad -----------------------------
(***************************************************************************)
(* Small images for DriveLoad: two volumes in the reverse of their order   *)
(* on the disk, another partition before each, in both byte orders, with   *)
(* damage to the magic, the partition map, the header and the zones.       *)
(***************************************************************************)
EXTENDS DriveLoad

Part(type, start, size) ==
  [kind |-> "partition", type |-> type, starting_sector |-> start, sector_size |-> size]

Map == <<Part("Ext2", 1, 2), Part("MFS", 20, 8), Part("Ext2", 9, 2), Part("MFS", 3, 6)>>
Maps == {Map,
         SubSeq(Map, 1, 2),                              \* one volume
         SubSeq(Map, 1, 1),                              \* none
         [Map EXCEPT ![3] = JunkBlock],                  \* the second out of reach
         [Map EXCEPT ![1] = JunkBlock],
         <<ZeroBlock>>,
         Append(Map, Part("MFS", 40, 4)) \o <<Part("MFS", 50, 3)>>}   \* 8 + 6 + 4 wraps

MkZone(type, size, first, next, backup_next) ==
  [type |-> type, next_zonemap_ptr |-> next, backup_next_zonemap_ptr |-> backup_next,
   backup_sector |-> 7, first_sector |-> first, last_sector |-> first + size, size |-> size]

(* Two INode zones of that size around one of media, the pointers of the
   third in the second volume. *)
Pointers == <<<<1, 7>>, <<2, 12>>, <<10, 6>>>>
Chain(size) ==
  [i \in 1..3 |->
     [ptr |-> Pointers[i][1], backup |-> Pointers[i][2],
      zone |-> MkZone(IF i = 2 THEN "Media" ELSE "INode", size, 2 * i,
                      IF i < 3 THEN Pointers[i + 1][1] ELSE 0,
                      IF i < 3 THEN Pointers[i + 1][2] ELSE 99)]]

TrueLocation(s) == IF s < 8 THEN 20 + s ELSE 3 + (s - 8)

(* Copies that are not written, as <<zone, copy>>. *)
Missing == {{}, {<<1, 1>>}, {<<2, 1>>, <<3, 1>>}, {<<3, 1>>, <<3, 2>>}}

HeaderBlock == [kind |-> "header", next_zonemap_sector |-> 1, next_zonemap_backup_sector |-> 7]
Headers == {HeaderBlock, JunkBlock, ZeroBlock,
            [HeaderBlock EXCEPT !.next_zonemap_sector = 0]}   \* an empty list

Blocks(chain, missing, header) ==
  LET spots == ((1..3) \X {1, 2}) \ missing
      at(sp) == TrueLocation(Pointers[sp[1]][sp[2]])
  IN  [loc \in {20} \cup {at(sp) : sp \in spots} |->
         IF loc = 20 THEN header
         ELSE Zones!Intact(chain[CHOOSE i \in 1..3 : \E c \in {1, 2} :
                                   <<i, c>> \in spots /\ at(<<i, c>>) = loc].zone)]

Image(magic, swapped, map, size, missing, header, failing) ==
  [magic |-> magic, swapped |-> swapped, map |-> map, size |-> 28, chain |-> Chain(size),
   failing |-> failing,
   blocks |-> Blocks(Chain(size), missing, header)]

MCImages ==
  {Image(IF sw THEN "9214" ELSE "1492", sw, map, size, missing, HeaderBlock, failing) :
     sw \in BOOLEAN, failing \in BOOLEAN, map \in Maps, size \in {4, 8}, missing \in Missing}
    \cup {Image(magic, FALSE, Map, 4, {}, header, failing) :
            failing \in BOOLEAN, magic \in {"1492", "9214", "other", "short"}, header \in Headers}

MCWordSize == 16
=============================================================================
