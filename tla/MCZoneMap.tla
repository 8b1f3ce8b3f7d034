------------------------------ MODULE MCZoneMap ------------------------------
(***************************************************************************)
(* Small drives for ZoneMap.  Two volumes lie on the drive in the reverse  *)
(* of their MFS order, as on the drive of the README.  Every combination   *)
(* of intact, unparsable and zeroed copies of a list of up to three zones  *)
(* is considered, plus pointers that are on a volume boundary, outside the *)
(* volumes, or translated outside the image.                               *)
(***************************************************************************)
EXTENDS ZoneMap

MCWordSize == 7   \* two INode zones of size 4 overflow a u32 sum

Vols == <<[disk_sector |-> 20, sector_start |-> 0, sector_count |-> 8],
          [disk_sector |-> 3,  sector_start |-> 8, sector_count |-> 6]>>

MkZone(type, size, first, next, backup_next) ==
  [type |-> type, next_zonemap_ptr |-> next, backup_next_zonemap_ptr |-> backup_next,
   backup_sector |-> 7, first_sector |-> first, last_sector |-> first + size,
   size |-> size]

(* The pointers of the zones a list is made of, <<primary, backup>>. *)
Inside   == <<<<1, 7>>, <<2, 12>>, <<10, 6>>>>
Boundary == <<<<1, 7>>, <<8, 13>>, <<10, 6>>>>   \* 8 is the first sector of volume 2
Outside  == <<<<1, 7>>, <<2, 40>>, <<10, 6>>>>   \* the second backup is in no volume

Types(t) == [i \in 1..3 |-> IF i \in t THEN "INode" ELSE "Media"]

(* The list of n zones at the given pointers; zone 3 claims to start at
   first3. *)
MkChain(n, ptrs, t, first3) ==
  [i \in 1..n |->
     [ptr    |-> ptrs[i][1],
      backup |-> ptrs[i][2],
      zone   |-> MkZone(Types(t)[i], 4, IF i = 3 THEN first3 ELSE 2 * i,
                        IF i < n THEN ptrs[i + 1][1] ELSE 0,
                        IF i < n THEN ptrs[i + 1][2] ELSE 99)]]

(* Where the TiVo keeps MFS sector s of these volumes. *)
TrueLocation(s) == IF s < 8 THEN 20 + s ELSE 3 + (s - 8)

(* <<damage to the first copy, damage to the second>>: the second copy only
   matters when the first does not parse. *)
Damage == {<<"none", "none">>, <<"zero", "none">>, <<"junk", "none">>,
           <<"junk", "junk">>, <<"junk", "zero">>}

(* The drive with chain on it, damage[i][c] done to copy c of zone i. *)
MkDrive(chain, damage, failing) ==
  LET Spots == {<<i, c>> \in (DOMAIN chain) \X {1, 2} : damage[i][c] # "junk"}
      At(sp) == TrueLocation(IF sp[2] = 1 THEN chain[sp[1]].ptr ELSE chain[sp[1]].backup)
      Content(sp) == IF damage[sp[1]][sp[2]] = "zero" THEN ZeroBlock
                     ELSE Intact(chain[sp[1]].zone)
  IN  [volumes |-> Vols,
       chain   |-> chain,
       failing |-> failing,
       image   |-> [size   |-> 28,
                    blocks |-> [loc \in {At(sp) : sp \in Spots} |->
                                  Content(CHOOSE sp \in Spots : At(sp) = loc)]]]

AllDamage(n) == [1..n -> Damage]
NoDamage(n) == [i \in 1..n |-> <<"none", "none">>]

MCDrives ==
  {MkDrive(MkChain(3, Inside, {1, 3}, 6), dmg, failing) :
     dmg \in AllDamage(3), failing \in BOOLEAN}
    \cup {MkDrive(MkChain(n, Boundary, t, 6), dmg, failing) :
            n \in 0..2, t \in {{1}, {2}, {}}, failing \in BOOLEAN,
            dmg \in [1..3 -> {<<"none", "none">>, <<"junk", "none">>}]}
    \cup {MkDrive(MkChain(3, ptrs, t, f), NoDamage(3), failing) :
            ptrs \in {Inside, Boundary, Outside}, t \in SUBSET (1..3), f \in {6, 60},
            failing \in BOOLEAN}
=============================================================================
