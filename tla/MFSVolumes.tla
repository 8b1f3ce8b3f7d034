----------------------------- MODULE MFSVolumes -----------------------------
(***************************************************************************)
(* MFSVolumes: the table of MFS volumes.  `new` folds over the partitions  *)
(* of the Apple partition map and gives each partition of type "MFS" the   *)
(* next run of MFS sector numbers; afterwards find_sector_volume and       *)
(* sector_to_disk_location translate sector numbers with it.               *)
(*                                                                         *)
(* sector_start is a u32: the sum that places the next volume overflows    *)
(* for a large map.  A build with overflow checks panics there, a release  *)
(* build wraps.  `overflow_checks` is the kind of build.                   *)
(***************************************************************************)
EXTENDS SectorMap, FiniteSets

CONSTANTS
  PartitionMaps,   \* the partition maps a drive may carry
  WordSize,        \* 2^32 in the code
  QuerySectors     \* the MFS sectors a caller asks about

PartitionType == {"MFS", "Ext2"}   \* "Ext2" stands for every other type
Partition == [type : PartitionType, starting_sector : 0..(WordSize - 1),
              sector_size : 0..(WordSize - 1)]

ASSUME WordSizeAssumption == WordSize \in Nat \ {0}
ASSUME PartitionMapsAssumption == \A map \in PartitionMaps : map \in Seq(Partition)
ASSUME QuerySectorsAssumption == QuerySectors \subseteq Nat

VARIABLES
  partitions,       \* the partition map being folded
  overflow_checks,  \* TRUE in a debug build, FALSE in a release build
  scanned,          \* how many partitions the fold has consumed
  volumes,          \* the accumulator: the table built so far
  wrapped,          \* history: some sector_start has wrapped around
  status,           \* "building", "ready" or "panicked"
  answer            \* the last translation: [sector, volume, location]

vars == <<partitions, overflow_checks, scanned, volumes, wrapped, status, answer>>

NoAnswer == [sector |-> 0, volume |-> 0, location |-> 0]

Total == IF volumes = <<>> THEN 0 ELSE EndOf(volumes[Len(volumes)])

TypeOK ==
  /\ partitions \in PartitionMaps
  /\ overflow_checks \in BOOLEAN
  /\ scanned \in 0..Len(partitions)
  /\ volumes \in Seq(Volume)
  /\ wrapped \in BOOLEAN
  /\ status \in {"building", "ready", "panicked"}
  /\ answer \in [sector : Nat, volume : Nat, location : Int]

Init ==
  /\ partitions \in PartitionMaps
  /\ overflow_checks \in BOOLEAN
  /\ scanned = 0
  /\ volumes = <<>>
  /\ wrapped = FALSE
  /\ status = "building"
  /\ answer = NoAnswer

-----------------------------------------------------------------------------
(* The fold of MFSVolumes::new, one partition per step. *)

Scanning == status = "building" /\ scanned < Len(partitions)
Current == partitions[scanned + 1]

(* Slip: the count of the preceding volume is used without its start. *)
NextStartUnbased ==
  IF volumes = <<>> THEN 0 ELSE volumes[Len(volumes)].sector_count

(* Slip: the end of a volume is taken to be its last sector. *)
NextStartOnLastSector ==
  IF volumes = <<>> THEN 0 ELSE EndOf(volumes[Len(volumes)]) - 1

NextStart == IF volumes = <<>> THEN 0 ELSE EndOf(volumes[Len(volumes)])

Place(start) ==
  volumes' = Append(volumes, [disk_sector  |-> Current.starting_sector,
                              sector_start |-> start,
                              sector_count |-> Current.sector_size])

SkipPartition ==
  /\ Scanning
  /\ Current.type # "MFS"
  /\ scanned' = scanned + 1
  /\ UNCHANGED <<partitions, overflow_checks, volumes, wrapped, status, answer>>

AddVolume ==
  /\ Scanning
  /\ Current.type = "MFS"
  /\ NextStart < WordSize
  /\ Place(NextStart)
  /\ scanned' = scanned + 1
  /\ UNCHANGED <<partitions, overflow_checks, wrapped, status, answer>>

WrapVolume ==
  /\ Scanning
  /\ Current.type = "MFS"
  /\ NextStart >= WordSize
  /\ ~overflow_checks
  /\ Place(NextStart % WordSize)
  /\ scanned' = scanned + 1
  /\ wrapped' = TRUE
  /\ UNCHANGED <<partitions, overflow_checks, status, answer>>

OverflowPanics ==
  /\ Scanning
  /\ Current.type = "MFS"
  /\ NextStart >= WordSize
  /\ overflow_checks
  /\ status' = "panicked"
  /\ UNCHANGED <<partitions, overflow_checks, scanned, volumes, wrapped, answer>>

FinishNew ==
  /\ status = "building"
  /\ scanned = Len(partitions)
  /\ status' = "ready"
  /\ UNCHANGED <<partitions, overflow_checks, scanned, volumes, wrapped, answer>>

-----------------------------------------------------------------------------
(* Callers of find_sector_volume and sector_to_disk_location. *)

Translate(s) ==
  /\ status = "ready"
  /\ Covering(volumes, s) # {}
  /\ answer' = [sector   |-> s,
                volume   |-> VolumeIndex(volumes, s),
                location |-> SectorToDiskLocation(volumes, s)]
  /\ UNCHANGED <<partitions, overflow_checks, scanned, volumes, wrapped, status>>

TranslatePanics(s) ==
  /\ status = "ready"
  /\ Covering(volumes, s) = {}
  /\ answer' = [NoAnswer EXCEPT !.sector = s]
  /\ status' = "panicked"
  /\ UNCHANGED <<partitions, overflow_checks, scanned, volumes, wrapped>>

Next ==
  \/ SkipPartition
  \/ AddVolume
  \/ WrapVolume
  \/ OverflowPanics
  \/ FinishNew
  \/ \E s \in QuerySectors : Translate(s) \/ TranslatePanics(s)

Spec == Init /\ [][Next]_vars

-----------------------------------------------------------------------------
(***************************************************************************)
(* Properties.                                                             *)
(***************************************************************************)

(* Sector s lies strictly inside volume k, or is the first sector of the
   first volume: the sectors for which the inclusive bound is harmless. *)
Interior(vols, k, s) ==
  /\ k \in DOMAIN vols
  /\ vols[k].sector_start < s \/ (k = 1 /\ vols[k].sector_start = s)
  /\ s < EndOf(vols[k])

(* The table covers the MFS sector numbers from 0 without a gap or an
   overlap: each volume starts where the one before it ends, as long as no
   u32 sum of `MFSVolumes::new` wrapped. *)
Tiled == ~wrapped => Adjoining(volumes)

(* sector_to_disk_location sends every interior sector of a volume to the
   matching offset in that volume's own partition, however many volumes
   precede it and whatever the other partitions' sizes are. *)
InteriorGoesHome ==
  (answer # NoAnswer /\ status = "ready" /\ ~wrapped) =>
    \A k \in DOMAIN volumes :
      Interior(volumes, k, answer.sector) =>
        /\ answer.volume = k
        /\ answer.location - volumes[k].disk_sector
             = answer.sector - volumes[k].sector_start

(* The first sector of every volume but the first is answered with the
   sector just past the end of an earlier partition, never with the start
   of its own: what the inclusive bound of find_sector_volume does. *)
BoundaryGoesToPredecessor ==
  (answer # NoAnswer /\ status = "ready" /\ ~wrapped) =>
    \A k \in DOMAIN volumes \ {1} :
      answer.sector = volumes[k].sector_start =>
        /\ answer.volume < k
        /\ answer.location = volumes[answer.volume].disk_sector
                               + volumes[answer.volume].sector_count

(* The process panics for one of two reasons only: a checked u32 sum
   overflowed while the table was built, or a caller asked for a sector
   beyond the end of the whole volume set (or of an empty one). *)
PanicsJustified ==
  status = "panicked" =>
    \/ overflow_checks /\ NextStart >= WordSize
    \/ wrapped
    \/ volumes = <<>>
    \/ answer.sector > Total
=============================================================================
