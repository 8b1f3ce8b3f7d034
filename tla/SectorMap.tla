------------------------------ MODULE SectorMap ------------------------------
(***************************************************************************)
(* The address arithmetic shared by every component that touches the disk: *)
(* the table of MFS volumes, the translation of an MFS sector number into  *)
(* a sector of the drive image, and what a one-block read of the image     *)
(* returns.                                                                *)
(*                                                                         *)
(* A volume table is a sequence of records in the order of the MFS         *)
(* partitions in the Apple partition map.  Everything here is state-free;  *)
(* MFSVolumes builds the table, ZoneMap, FsidLookup and INodeIter use it.  *)
(***************************************************************************)
EXTENDS Integers, Sequences

(* struct MFSVolume *)
Volume == [disk_sector : Nat, sector_start : Nat, sector_count : Nat]

EndOf(v) == v.sector_start + v.sector_count

(* The table covers the MFS sectors from 0 on, without a gap or an overlap. *)
Adjoining(vols) ==
  \A k \in DOMAIN vols :
    vols[k].sector_start = IF k = 1 THEN 0 ELSE EndOf(vols[k - 1])

-----------------------------------------------------------------------------
(***************************************************************************)
(* find_sector_volume.  The upper bound of the range test is inclusive, so *)
(* the sector one past the end of a volume is still accepted; `find` takes *)
(* the first volume of the table that accepts the sector, and `expect`     *)
(* panics when Covering is empty.                                          *)
(***************************************************************************)

(* Slip: the half-open range test a reader of the code might expect. *)
CoversHalfOpen(v, s) ==
  v.sector_start <= s /\ s < EndOf(v)

Covers(v, s) ==
  v.sector_start <= s /\ s <= EndOf(v)

Covering(vols, s) == {k \in DOMAIN vols : Covers(vols[k], s)}

(* Slip: the last accepting volume wins instead of the first. *)
LastVolumeIndex(vols, s) ==
  CHOOSE k \in Covering(vols, s) : \A j \in Covering(vols, s) : j <= k

VolumeIndex(vols, s) ==
  CHOOSE k \in Covering(vols, s) : \A j \in Covering(vols, s) : k <= j

FindSectorVolume(vols, s) == vols[VolumeIndex(vols, s)]

(* Slip: the volume-relative sector is not rebased to the volume's start. *)
SectorUsedAsOffset(vols, s) == FindSectorVolume(vols, s).disk_sector + s

(***************************************************************************)
(* sector_to_disk_location: the drive sector of MFS sector s.              *)
(***************************************************************************)
SectorToDiskLocation(vols, s) ==
  LET v == FindSectorVolume(vols, s)
  IN  v.disk_sector + (s - v.sector_start)

-----------------------------------------------------------------------------
(***************************************************************************)
(* Drive images.  An image is [size, blocks]: `blocks` maps the drive      *)
(* sectors of interest to their parsed-level content, every other sector   *)
(* below `size` holds bytes no parser accepts.  A read that starts past    *)
(* the end of the file returns Ok(0) bytes, and get_blocks_from_drive      *)
(* hands back its buffer as it was allocated: all zeros.                   *)
(***************************************************************************)
JunkBlock == [kind |-> "junk"]
ZeroBlock == [kind |-> "zero"]

BlockAt(image, loc) ==
  IF loc \in DOMAIN image.blocks THEN image.blocks[loc]
  ELSE IF loc < image.size THEN JunkBlock ELSE ZeroBlock
=============================================================================
