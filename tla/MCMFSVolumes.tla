---------------------------- MODULE MCMFSVolumes ----------------------------
(***************************************************************************)
(* MFSVolumes on every partition map of up to three entries of a small     *)
(* drive.  With WordSize = 5 two volumes already overflow the u32 sum, so  *)
(* both kinds of build meet it; sizes include 0 (an empty partition).      *)
(***************************************************************************)
EXTENDS MFSVolumes

MCWordSize == 5

MCPartition == [type : {"MFS"}, starting_sector : {1, 4}, sector_size : {0, 2, 3}]
                 \cup [type : {"Ext2"}, starting_sector : {1}, sector_size : {2}]

MCPartitionMaps == UNION {[1..n -> MCPartition] : n \in 0..3}

MCQuerySectors == 0..9
=============================================================================
