---------------------------- MODULE MCReadmeDrive ----------------------------
(***************************************************************************)
(* ZoneMap on the drive the repository documents.  The volume table is the *)
(* one MFSVolumes::new builds from the partition map of README.md; the six *)
(* zones and the true sizes of the volumes are those of mfstool.log.       *)
(* Every copy of every zone is intact.                                     *)
(*                                                                         *)
(* The partition map gives the second and fourth MFS partition sizes that  *)
(* are not multiples of 1024 sectors; the volumes the TiVo made of them    *)
(* are 665 and 261 sectors shorter.                                        *)
(***************************************************************************)
EXTENDS ZoneMap

MCWordSize == 2147483647   \* the largest integer TLC has; no sum gets near it

(* README.md, the four rows of type MFS. *)
DiskSectors == <<43943237, 46040389, 44991813, 64>>
SectorSizes == <<1048576, 32158361, 1048576, 43009285>>

(* mfstool.log, "The MFS volume set contains 4 partitions". *)
TrueSizes == <<1048576, 32157696, 1048576, 43009024>>

StartOf(sizes, k) == FoldLeft(LAMBDA a, b : a + b, 0, SubSeq(sizes, 1, k - 1))

VolumesOf(sizes) ==
  [k \in 1..4 |-> [disk_sector  |-> DiskSectors[k],
                   sector_start |-> StartOf(sizes, k),
                   sector_count |-> sizes[k]]]

(* Where the TiVo keeps MFS sector s. *)
TrueLocation(s) ==
  LET k == CHOOSE k \in 1..4 : /\ StartOf(TrueSizes, k) <= s
                               /\ s < StartOf(TrueSizes, k) + TrueSizes[k]
  IN  DiskSectors[k] + (s - StartOf(TrueSizes, k))

(* mfstool.log, "Zone Maps": <<type, sector, sbackup, first, last, size>> *)
Log ==
  <<<<"INode", 1121, 1048574, 1122, 525409, 524288>>,
    <<"Media", 525410, 1048565, 1048576, 33206271, 32157696>>,
    <<"Application", 525419, 1048531, 525453, 1048524, 523072>>,
    <<"INode", 33206272, 34254847, 33206273, 33730560, 524288>>,
    <<"Media", 33730561, 34254829, 34254848, 77262847, 43008000>>,
    <<"Application", 33730579, 34254795, 33730613, 34254788, 524176>>>>

(* The last zone's backup pointer reads 0xDEADBEEF, which is beyond TLC's
   integers and, being in no volume, stands for itself as any such number. *)
NextOf(i) == IF i < 6 THEN <<Log[i + 1][2], Log[i + 1][3]>> ELSE <<0, 2147483647>>

ReadmeChain ==
  [i \in 1..6 |->
     [ptr    |-> Log[i][2],
      backup |-> Log[i][3],
      zone   |-> [type |-> Log[i][1], next_zonemap_ptr |-> NextOf(i)[1],
                  backup_next_zonemap_ptr |-> NextOf(i)[2],
                  backup_sector |-> Log[i][3], first_sector |-> Log[i][4],
                  last_sector |-> Log[i][5], size |-> Log[i][6]]]]

Copies == {TrueLocation(Log[i][c]) : i \in 1..6, c \in {2, 3}}

MCDrives ==
  {[volumes |-> VolumesOf(SectorSizes),
    chain   |-> ReadmeChain,
    failing |-> FALSE,
    image   |-> [size   |-> 78198750,
                 blocks |-> [loc \in Copies |->
                   Intact(ReadmeChain[CHOOSE i \in 1..6 :
                     loc \in {TrueLocation(Log[i][2]), TrueLocation(Log[i][3])}].zone)]]]}
=============================================================================
