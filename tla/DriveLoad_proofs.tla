-------------------------- MODULE DriveLoad_proofs --------------------------
(***************************************************************************)
(* Theorems about the load of a drive for every image, in either kind of   *)
(* build and with any pattern of failing reads.  A load is one run of      *)
(* MFSVolumes::new and one of from_iter on the result, so what the walk    *)
(* does is taken from the lemmas of ZoneMap_proofs; what is new is that    *)
(* the table is the one of the map, and that the walk starts on it.        *)
(***************************************************************************)
EXTENDS DriveLoad, SectorMap_proofs, SequenceTheorems

Walked == INSTANCE ZoneMap_proofs WITH
  Drives <- {}, drive <- Drive, yielded <- zonemap, from <- 0, sum <- 0,
  answer <- walk, status <- walk_status

Phases == {"open", "order", "map", "table", "header", "walk", "count"} \cup Ended

(* Types, and what is known before and while each component runs. *)
Types ==
  /\ IsImage(image)
  /\ overflow_checks \in BOOLEAN
  /\ phase \in Phases
  /\ is_byte_swapped \in BOOLEAN
  /\ partitions \in Seq(Partition)
  /\ scanned \in 0..Len(partitions)
  /\ Walked!TypeOK
  /\ phase \in {"open", "order", "map"} => partitions = <<>>
  /\ phase \in {"open", "order", "map", "table", "header"} =>
       walk_status = "ok" /\ zonemap = <<>> /\ walk.op = "none"

(* from_iter is the only consumer of the walk. *)
OneConsumer ==
  /\ phase \notin Ended => walk_status = "ok"
  /\ phase = "walk" => caller = "from_iter"

(* The partitions are those in front of the first bad entry. *)
PrefixOfMap ==
  /\ Len(partitions) <= Len(image.map)
  /\ \A i \in 1..Len(partitions) : partitions[i] = image.map[i]

(* The table is the one of the partitions consumed so far. *)
TableOfMap ==
  /\ ~wrapped => volumes = VolumesOf(SubSeq(partitions, 1, scanned))
  /\ phase \in {"open", "order", "map"} => volumes = <<>> /\ ~wrapped
  /\ phase \in {"header", "walk", "count", "loaded"} => scanned = Len(partitions)

(* The header points at the first zone of the list. *)
HeadOfList ==
  /\ image.chain # <<>>
  /\ Header.next_zonemap_sector = image.chain[1].ptr
  /\ Header.next_zonemap_backup_sector = image.chain[1].backup

WalkOfList ==
  phase \in {"walk", "count", "loaded"} /\ HeadOfList => Walked!IInv

ShortInv == Types /\ OneConsumer /\ PrefixOfMap /\ TableOfMap /\ WalkOfList

(* What a load of a sound drive has established by each phase. *)
SoundLoad ==
  ~image.failing /\ Sound =>
    /\ phase \notin {"refused", "panicked"}
    /\ ~wrapped
    /\ phase \notin {"open", "order"} => is_byte_swapped = image.swapped
    /\ phase \notin {"open", "order", "map"} => partitions = image.map
    /\ phase \in {"walk", "count", "loaded"} => HeadOfList /\ Walked!SurvivesInv
    /\ phase \in {"count", "loaded"} =>
         caller = "none" /\ walk_status = "ok" /\ walk.op = "from_iter"
    /\ phase = "loaded" => inode_count = SizesOf(zonemap)

-----------------------------------------------------------------------------
(* A step of the walk leaves the consumer alone or ends it, and panics on an
   unmapped pointer only. *)
LEMMA WalkStep ==
  ASSUME caller = "from_iter", Zones!Step
  PROVE  /\ \/ caller' = "from_iter" /\ UNCHANGED walk
            \/ caller' = "none" /\ walk'.op = "from_iter"
         /\ \/ walk_status' = walk_status
            \/ /\ walk_status' = "panicked" /\ caller' = "from_iter"
               /\ UNCHANGED <<Drive, cursor>> /\ ~Zones!Mapped /\ next_zonemap_ptr # 0
         /\ walk_status = "ok"
<1>1. CASE Zones!EndOfList \/ Zones!Fault \/ Zones!BothUnparsable
  BY <1>1 DEF Zones!EndOfList, Zones!Fault, Zones!BothUnparsable, Zones!Return, Zones!Reading
<1>2. CASE Zones!PointerPanics
  BY <1>2 DEF Zones!PointerPanics, Zones!Reading, Zones!cursor, cursor
<1>3. CASE Zones!ReadPrimary \/ Zones!ReadBackup
  <2>1. PICK z : Zones!Deliver(z) /\ Zones!Reading
    BY <1>3 DEF Zones!ReadPrimary, Zones!ReadBackup
  <2>2. Zones!Consume(z) /\ walk_status = "ok"
    BY <2>1 DEF Zones!Deliver, Zones!Reading
  <2>3. UNCHANGED <<caller, walk, walk_status>>
    BY <2>2 DEF Zones!Consume
  <2>4. QED BY <2>2, <2>3
<1>4. QED BY <1>1, <1>2, <1>3 DEF Zones!Step

LEMMA PanicStep ==
  ASSUME OneConsumer, LoadPanicJustified, [Step]_vars
  PROVE  OneConsumer' /\ LoadPanicJustified'
<1>1. CASE Open \/ ReadFails \/ CheckByteOrder \/ NotATivoDrive \/ ReadPartitionMap
  BY <1>1 DEF Open, ReadFails, CheckByteOrder, NotATivoDrive, ReadPartitionMap,
              OneConsumer, LoadPanicJustified, Ended, zones
<1>2. CASE BuildTable
  <2>1. phase' \in {"table", "header"} \/ (phase' = "panicked" /\ Table!OverflowPanics)
    BY <1>2 DEF BuildTable
  <2>2. UNCHANGED <<overflow_checks, walk_status>> /\ phase = "table"
    BY <1>2 DEF BuildTable, Fixed, zones
  <2>3. QED BY <2>1, <2>2 DEF OneConsumer, LoadPanicJustified, Ended, Table!OverflowPanics
<1>3. CASE NoRegionPanics
  <2>1. phase' = "panicked" /\ MfsPartitions = {} /\ UNCHANGED partitions
    BY <1>3 DEF NoRegionPanics, order
  <2>2. MfsPartitions' = {}
    BY <2>1 DEF MfsPartitions
  <2>3. QED BY <2>1, <2>2 DEF OneConsumer, LoadPanicJustified, Ended
<1>4. CASE BadHeader
  BY <1>4 DEF BadHeader, OneConsumer, LoadPanicJustified, Ended
<1>5. CASE ReadHeader
  <2>1. /\ phase = "header" /\ phase' = "walk" /\ caller' = "from_iter"
        /\ walk_status' = walk_status
    BY <1>5 DEF ReadHeader
  <2>2. QED BY <2>1 DEF OneConsumer, LoadPanicJustified, Ended
<1>6. CASE Walk
  <2>1. phase = "walk" /\ caller = "from_iter" /\ walk_status = "ok" /\ Zones!Step
    BY <1>6 DEF Walk, OneConsumer, Ended
  <2>2. phase' = IF walk_status' = "panicked" THEN "panicked"
                 ELSE IF caller' = "none" THEN "count" ELSE "walk"
    BY <1>6 DEF Walk
  <2>3. CASE walk_status' = "panicked"
    <3>1. UNCHANGED <<Drive, cursor>> /\ ~Zones!Mapped
      BY <2>1, <2>3, WalkStep
    <3>2. ~Zones!Mapped'
      BY <3>1 DEF Zones!Mapped, cursor
    <3>3. QED BY <2>2, <2>3, <3>2 DEF OneConsumer, LoadPanicJustified, Ended
  <2>4. CASE walk_status' # "panicked"
    <3>1. walk_status' = "ok" /\ caller' \in {"from_iter", "none"}
      BY <2>1, <2>4, WalkStep
    <3>2. QED BY <2>2, <3>1 DEF OneConsumer, LoadPanicJustified
  <2>5. QED BY <2>3, <2>4
<1>7. CASE CountInodes
  BY <1>7 DEF CountInodes, OneConsumer, LoadPanicJustified, Ended
<1>8. CASE CountOverflows
  <2>1. /\ phase' = "panicked" /\ InodeSizes >= WordSize /\ overflow_checks
        /\ UNCHANGED <<zonemap, overflow_checks>>
    BY <1>8 DEF CountOverflows, zones, Fixed
  <2>2. InodeSizes' >= WordSize
    BY <2>1 DEF InodeSizes, SizesOf, FoldLeft, MapThenFoldSet
  <2>3. QED BY <2>1, <2>2 DEF OneConsumer, LoadPanicJustified, Ended
<1>9. CASE UNCHANGED vars
  <2>1. UNCHANGED <<phase, caller, walk_status, table_status, overflow_checks, partitions,
                    zonemap, Drive, next_zonemap_ptr, backup_next_zonemap_ptr>>
    BY <1>9 DEF vars, table, zones, order, cursor, Drive, Seen, InOrder
  <2>2. MfsPartitions' = MfsPartitions /\ Zones!Mapped' = Zones!Mapped
    BY <2>1 DEF MfsPartitions, Zones!Mapped
  <2>3. (InodeSizes >= WordSize)' = (InodeSizes >= WordSize)
    BY <2>1 DEF InodeSizes, SizesOf, FoldLeft, MapThenFoldSet
  <2>4. QED BY <2>1, <2>2, <2>3 DEF OneConsumer, LoadPanicJustified
<1>10. QED
  BY <1>1, <1>2, <1>3, <1>4, <1>5, <1>6, <1>7, <1>8, <1>9 DEF Step

(* LoadPanicJustified: a load panics when no MFS partition was read, when a
   zone pointer is in no volume or when a checked sum overflows, and for
   no other reason. *)
THEOREM LoadPanicAlwaysJustified == Spec => []LoadPanicJustified
<1>1. Init => OneConsumer /\ LoadPanicJustified
  BY DEF Init, OneConsumer, LoadPanicJustified
<1>2. QED BY <1>1, PanicStep, PTL DEF Spec

-----------------------------------------------------------------------------
(***************************************************************************)
(* The volumes of a map.  MfsOf and Sectors are folds; one more element    *)
(* makes one more step of them.                                            *)
(***************************************************************************)
Selecting(s) ==
  [i \in 1..Len(s) |-> [a \in Seq(Partition) |-> IF IsMfs(s[i]) THEN Append(a, s[i]) ELSE a]]

LEMMA SelectingTypes ==
  ASSUME NEW s \in Seq(MapBlock)
  PROVE  /\ Closed(Selecting(s), Len(s), Seq(Partition))
         /\ \A i \in 1..Len(s) : \A a \in Seq(Partition) :
              Selecting(s)[i][a] = IF IsMfs(s[i]) THEN Append(a, s[i]) ELSE a
<1>1. \A b \in MapBlock : IsMfs(b) => b \in Partition
  BY DEF IsMfs, MapBlock, JunkBlock, ZeroBlock
<1>2. \A i \in 1..Len(s) : s[i] \in MapBlock
  OBVIOUS
<1>3. ASSUME NEW i \in 1..Len(s), NEW a \in Seq(Partition)
      PROVE  /\ Selecting(s)[i][a] = IF IsMfs(s[i]) THEN Append(a, s[i]) ELSE a
             /\ Selecting(s)[i][a] \in Seq(Partition)
  <2>1. Selecting(s)[i][a] = IF IsMfs(s[i]) THEN Append(a, s[i]) ELSE a
    BY DEF Selecting
  <2>2. IsMfs(s[i]) => Append(a, s[i]) \in Seq(Partition)
    BY <1>1, <1>2
  <2>3. QED BY <2>1, <2>2
<1>4. QED BY <1>3 DEF Closed

LEMMA MfsIsFold ==
  ASSUME NEW s \in Seq(MapBlock)
  PROVE  \E g : Folded(g, Len(s), <<>>, Selecting(s)) /\ MfsOf(s) = g[1..Len(s)]
<1> DEFINE n == Len(s)
           A == Seq(Partition)
           base == <<>>
           h == Selecting(s)
           Eq(g) == g = [t \in SUBSET DOMAIN s |->
                           IF t = {} THEN <<>>
                           ELSE IF IsMfs(s[Top(t)]) THEN Append(g[t \ {Top(t)}], s[Top(t)])
                           ELSE g[t \ {Top(t)}]]
           G == CHOOSE g : Eq(g)
<1>1. n \in Nat /\ DOMAIN s = 1..n /\ base \in A
  OBVIOUS
<1>2. /\ Closed(h, n, A)
      /\ \A i \in 1..n : \A a \in A : h[i][a] = IF IsMfs(s[i]) THEN Append(a, s[i]) ELSE a
  BY SelectingTypes
<1>3. MfsOf(s) = G[1..n]
  BY <1>1 DEF MfsOf, FoldLeft, MapThenFoldSet, Max, Top
<1> HIDE DEF n, A, h
<1>4. Eq(G)
  <2>1. PICK g : Folded(g, n, base, h) /\ \A t \in SUBSET (1..n) : g[t] \in A
    <3> HIDE DEF base
    <3>1. QED BY <1>1, <1>2, FoldInSet, ZenonT(60)
  <2>2. ASSUME NEW t \in SUBSET (1..n), t # {}
        PROVE  h[Top(t)][g[t \ {Top(t)}]]
                 = IF IsMfs(s[Top(t)]) THEN Append(g[t \ {Top(t)}], s[Top(t)])
                   ELSE g[t \ {Top(t)}]
    <3>1. Top(t) \in 1..n /\ t \ {Top(t)} \in SUBSET (1..n)
      BY <1>1, <2>2, TopIsLargest
    <3>2. QED BY <1>2, <2>1, <3>1
  <2>3. [t \in SUBSET (1..n) |-> IF t = {} THEN base ELSE h[Top(t)][g[t \ {Top(t)}]]]
        = [t \in SUBSET (1..n) |->
             IF t = {} THEN <<>>
             ELSE IF IsMfs(s[Top(t)]) THEN Append(g[t \ {Top(t)}], s[Top(t)])
             ELSE g[t \ {Top(t)}]]
    BY <2>2
  <2>4. Eq(g)
    BY <1>1, <2>1, <2>3 DEF Folded
  <2> HIDE DEF Eq
  <2>5. QED BY <2>4
<1> HIDE DEF G
<1>5. G[{}] = base /\ G = [t \in SUBSET (1..n) |-> G[t]]
  BY <1>1, <1>4
<1>6. ASSUME NEW t \in SUBSET (1..n), t # {}, G[t \ {Top(t)}] \in A
      PROVE  G[t] = h[Top(t)][G[t \ {Top(t)}]]
  <2>1. Top(t) \in 1..n
    BY <1>1, <1>6, TopIsLargest
  <2>2. G[t] = IF IsMfs(s[Top(t)]) THEN Append(G[t \ {Top(t)}], s[Top(t)])
               ELSE G[t \ {Top(t)}]
    BY <1>1, <1>4, <1>6
  <2>3. QED BY <1>2, <1>6, <2>1, <2>2
<1>7. Folded(G, n, base, h)
  <2>1. \A t \in SUBSET (1..n) :
          t # {} /\ G[t \ {Top(t)}] \in A => G[t] = h[Top(t)][G[t \ {Top(t)}]]
    BY <1>6
  <2> HIDE DEF base
  <2>2. QED BY <1>1, <1>2, <1>5, <2>1, FoldTyped
<1>8. QED BY <1>3, <1>7 DEF n, h

LEMMA MfsOfEmpty == MfsOf(<<>>) = <<>>
<1>1. <<>> \in Seq(MapBlock) /\ Len(<<>>) = 0 /\ 1..0 = {}
  OBVIOUS
<1>2. PICK g : Folded(g, 0, <<>>, Selecting(<<>>)) /\ MfsOf(<<>>) = g[{}]
  BY <1>1, MfsIsFold
<1>3. QED BY <1>2, FoldStep

(* One block more is one MFS partition more, if it is one. *)
LEMMA MfsOfAppend ==
  ASSUME NEW s \in Seq(MapBlock), NEW b \in MapBlock
  PROVE  /\ MfsOf(s) \in Seq(Partition)
         /\ MfsOf(Append(s, b)) = IF IsMfs(b) THEN Append(MfsOf(s), b) ELSE MfsOf(s)
<1> DEFINE n == Len(s)
           r == Append(s, b)
           A == Seq(Partition)
           base == <<>>
           h == Selecting(s)
           j == Selecting(r)
<1>1. /\ n \in Nat /\ r \in Seq(MapBlock) /\ Len(r) = n + 1
      /\ \A i \in 1..n : r[i] = s[i]
      /\ r[n + 1] = b
  OBVIOUS
<1> HIDE DEF r
<1>2. PICK g : Folded(g, n, base, h) /\ MfsOf(s) = g[1..n]
  BY MfsIsFold
<1>3. PICK f : Folded(f, n + 1, base, j) /\ MfsOf(r) = f[1..(n + 1)]
  BY <1>1, MfsIsFold
<1>4. Closed(h, n, A)
      /\ \A i \in 1..n : \A a \in A : h[i][a] = IF IsMfs(s[i]) THEN Append(a, s[i]) ELSE a
  BY SelectingTypes
<1>5. \A i \in 1..(n + 1) : \A a \in A :
        j[i][a] = IF IsMfs(r[i]) THEN Append(a, r[i]) ELSE a
  BY <1>1, SelectingTypes
<1>6. base \in A
  OBVIOUS
<1> HIDE DEF n, A, base, h, j
<1>7. SameSteps(h, j, n, A)
  <2>1. \A i \in 1..n : i \in 1..(n + 1)
    BY <1>1
  <2>2. QED BY <1>1, <1>4, <1>5, <2>1 DEF SameSteps
<1>8. g[1..n] \in A /\ f[1..(n + 1)] = j[n + 1][g[1..n]]
  BY <1>1, <1>2, <1>3, <1>4, <1>6, <1>7, FoldAppend
<1>9. n + 1 \in 1..(n + 1)
  BY <1>1
<1>10. j[n + 1][g[1..n]] = IF IsMfs(b) THEN Append(g[1..n], b) ELSE g[1..n]
  BY <1>1, <1>5, <1>8, <1>9
<1>11. QED BY <1>2, <1>3, <1>8, <1>10 DEF r, A

(* The same for the sectors of a sequence of partitions. *)
Summing(s) == [i \in 1..Len(s) |-> [a \in Nat |-> a + s[i].sector_size]]

LEMMA SummingTypes ==
  ASSUME NEW s \in Seq(Partition)
  PROVE  /\ Closed(Summing(s), Len(s), Nat)
         /\ \A i \in 1..Len(s) : \A a \in Nat : Summing(s)[i][a] = a + s[i].sector_size
<1>1. \A i \in 1..Len(s) : s[i].sector_size \in Nat
  <2>1. \A i \in 1..Len(s) : s[i] \in Partition
    OBVIOUS
  <2>2. QED BY <2>1 DEF Partition
<1>2. \A i \in 1..Len(s) : \A a \in Nat : Summing(s)[i][a] = a + s[i].sector_size
  BY DEF Summing
<1>3. \A i \in 1..Len(s) : \A a \in Nat : a + s[i].sector_size \in Nat
  BY <1>1
<1>4. QED BY <1>2, <1>3 DEF Closed

LEMMA SectorsIsFold ==
  ASSUME NEW s \in Seq(Partition)
  PROVE  \E g : Folded(g, Len(s), 0, Summing(s)) /\ Sectors(s) = g[1..Len(s)]
<1> DEFINE n == Len(s)
           A == Nat
           base == 0
           h == Summing(s)
           Eq(g) == g = [t \in SUBSET DOMAIN s |->
                           IF t = {} THEN 0
                           ELSE g[t \ {Top(t)}] + s[Top(t)].sector_size]
           G == CHOOSE g : Eq(g)
<1>1. n \in Nat /\ DOMAIN s = 1..n /\ base \in A
  OBVIOUS
<1>2. /\ Closed(h, n, A)
      /\ \A i \in 1..n : \A a \in A : h[i][a] = a + s[i].sector_size
  BY SummingTypes
<1>3. Sectors(s) = G[1..n]
  BY <1>1 DEF Sectors, FoldLeft, MapThenFoldSet, Max, Top
<1> HIDE DEF n, A, h
<1>4. Eq(G)
  <2>1. PICK g : Folded(g, n, base, h) /\ \A t \in SUBSET (1..n) : g[t] \in A
    <3> HIDE DEF base
    <3>1. QED BY <1>1, <1>2, FoldInSet
  <2>2. ASSUME NEW t \in SUBSET (1..n), t # {}
        PROVE  h[Top(t)][g[t \ {Top(t)}]] = g[t \ {Top(t)}] + s[Top(t)].sector_size
    <3>1. Top(t) \in 1..n /\ t \ {Top(t)} \in SUBSET (1..n)
      BY <1>1, <2>2, TopIsLargest
    <3>2. QED BY <1>2, <2>1, <3>1
  <2>3. [t \in SUBSET (1..n) |-> IF t = {} THEN base ELSE h[Top(t)][g[t \ {Top(t)}]]]
        = [t \in SUBSET (1..n) |->
             IF t = {} THEN 0 ELSE g[t \ {Top(t)}] + s[Top(t)].sector_size]
    BY <2>2
  <2>4. Eq(g)
    BY <1>1, <2>1, <2>3 DEF Folded
  <2> HIDE DEF Eq
  <2>5. QED BY <2>4
<1> HIDE DEF G
<1>5. G[{}] = base /\ G = [t \in SUBSET (1..n) |-> G[t]]
  BY <1>1, <1>4
<1>6. ASSUME NEW t \in SUBSET (1..n), t # {}, G[t \ {Top(t)}] \in A
      PROVE  G[t] = h[Top(t)][G[t \ {Top(t)}]]
  <2>1. Top(t) \in 1..n
    BY <1>1, <1>6, TopIsLargest
  <2>2. G[t] = G[t \ {Top(t)}] + s[Top(t)].sector_size
    BY <1>1, <1>4, <1>6
  <2>3. QED BY <1>2, <1>6, <2>1, <2>2
<1>7. Folded(G, n, base, h)
  <2>1. \A t \in SUBSET (1..n) :
          t # {} /\ G[t \ {Top(t)}] \in A => G[t] = h[Top(t)][G[t \ {Top(t)}]]
    BY <1>6
  <2> HIDE DEF base
  <2>2. QED BY <1>1, <1>2, <1>5, <2>1, FoldTyped
<1>8. QED BY <1>3, <1>7 DEF n, h

LEMMA SectorsOfEmpty == Sectors(<<>>) = 0
<1>1. <<>> \in Seq(Partition) /\ Len(<<>>) = 0 /\ 1..0 = {}
  OBVIOUS
<1>2. PICK g : Folded(g, 0, 0, Summing(<<>>)) /\ Sectors(<<>>) = g[{}]
  BY <1>1, SectorsIsFold
<1>3. QED BY <1>2, FoldStep

(* One partition more adds its sectors. *)
LEMMA SectorsOfAppend ==
  ASSUME NEW s \in Seq(Partition), NEW b \in Partition
  PROVE  /\ Sectors(s) \in Nat
         /\ Sectors(Append(s, b)) = Sectors(s) + b.sector_size
<1> DEFINE n == Len(s)
           r == Append(s, b)
           A == Nat
           base == 0
           h == Summing(s)
           j == Summing(r)
<1>1. /\ n \in Nat /\ r \in Seq(Partition) /\ Len(r) = n + 1
      /\ \A i \in 1..n : r[i] = s[i]
      /\ r[n + 1] = b
  OBVIOUS
<1> HIDE DEF r
<1>2. PICK g : Folded(g, n, base, h) /\ Sectors(s) = g[1..n]
  BY SectorsIsFold
<1>3. PICK f : Folded(f, n + 1, base, j) /\ Sectors(r) = f[1..(n + 1)]
  BY <1>1, SectorsIsFold
<1>4. Closed(h, n, A) /\ \A i \in 1..n : \A a \in A : h[i][a] = a + s[i].sector_size
  BY SummingTypes
<1>5. \A i \in 1..(n + 1) : \A a \in A : j[i][a] = a + r[i].sector_size
  BY <1>1, SummingTypes
<1>6. base \in A
  OBVIOUS
<1> HIDE DEF n, A, base, h, j
<1>7. SameSteps(h, j, n, A)
  <2>1. \A i \in 1..n : i \in 1..(n + 1)
    BY <1>1
  <2>2. QED BY <1>1, <1>4, <1>5, <2>1 DEF SameSteps
<1>8. g[1..n] \in A /\ f[1..(n + 1)] = j[n + 1][g[1..n]]
  BY <1>1, <1>2, <1>3, <1>4, <1>6, <1>7, FoldAppend
<1>9. n + 1 \in 1..(n + 1)
  BY <1>1
<1>10. j[n + 1][g[1..n]] = g[1..n] + b.sector_size
  BY <1>1, <1>5, <1>8, <1>9
<1>11. QED BY <1>2, <1>3, <1>8, <1>10 DEF r, A

(* A sequence is built one element at a time. *)
LEMMA OneMore ==
  ASSUME NEW S, NEW s \in Seq(S), NEW k \in 1..Len(s)
  PROVE  /\ SubSeq(s, 1, k - 1) \in Seq(S)
         /\ Len(SubSeq(s, 1, k - 1)) = k - 1
         /\ s[k] \in S
         /\ SubSeq(s, 1, k) = Append(SubSeq(s, 1, k - 1), s[k])
<1> DEFINE p == SubSeq(s, 1, k - 1)
           q == SubSeq(s, 1, k)
<1>1. k \in Int /\ k - 1 \in Int /\ 1 \in Int
  OBVIOUS
<1>2. p \in Seq(S) /\ Len(p) = k - 1 /\ \A i \in 1..(k - 1) : p[i] = s[i]
  OBVIOUS
<1>3. q \in Seq(S) /\ Len(q) = k /\ \A i \in 1..k : q[i] = s[i]
  OBVIOUS
<1>4. s[k] \in S
  OBVIOUS
<1> HIDE DEF p, q
<1>5. /\ Append(p, s[k]) \in Seq(S) /\ Len(Append(p, s[k])) = k
      /\ \A i \in 1..k : Append(p, s[k])[i] = s[i]
  BY <1>2, <1>4
<1>6. q = Append(p, s[k])
  BY <1>3, <1>5, SeqEqual
<1>7. QED BY <1>2, <1>4, <1>6 DEF p, q

(* IsPrefix, element by element. *)
LEMMA PrefixOf ==
  ASSUME NEW S, NEW s \in Seq(S), NEW t \in Seq(S)
  PROVE  IsPrefix(s, t) <=> Len(s) <= Len(t) /\ \A i \in 1..Len(s) : s[i] = t[i]
<1>1. Len(s) \in Nat /\ Len(t) \in Nat
  OBVIOUS
<1>2. ASSUME Len(s) <= Len(t)
      PROVE  SubSeq(s, 1, Len(s)) = SubSeq(t, 1, Len(s))
               <=> \A i \in 1..Len(s) : s[i] = t[i]
  <2> DEFINE p == SubSeq(s, 1, Len(s))
             q == SubSeq(t, 1, Len(s))
  <2>1. p \in Seq(S) /\ Len(p) = Len(s) /\ \A i \in 1..Len(s) : p[i] = s[i]
    OBVIOUS
  <2>2. q \in Seq(S) /\ Len(q) = Len(s) /\ \A i \in 1..Len(s) : q[i] = t[i]
    BY <1>2
  <2> HIDE DEF p, q
  <2>3. p = q <=> \A i \in 1..Len(s) : s[i] = t[i]
    BY <2>1, <2>2, SeqEqual
  <2>4. QED BY <2>3 DEF p, q
<1>3. QED BY <1>1, <1>2 DEF IsPrefix

(* MfsOf over the prefixes of a map: each prefix of the map has a prefix of
   its MFS partitions. *)
LEMMA MfsOfPrefixes ==
  ASSUME NEW s \in Seq(MapBlock), NEW i \in 0..Len(s), NEW j \in i..Len(s)
  PROVE  IsPrefix(MfsOf(SubSeq(s, 1, i)), MfsOf(SubSeq(s, 1, j)))
<1> DEFINE n == Len(s)
           P == Seq(Partition)
           R == {r \in P \X P : IsPrefix(r[1], r[2])}
           f == [k \in 0..n |-> MfsOf(SubSeq(s, 1, k))]
<1>1. \A k \in 0..n : f[k] \in P
  <2>1. \A k \in 0..n : SubSeq(s, 1, k) \in Seq(MapBlock)
    OBVIOUS
  <2>2. ZeroBlock \in MapBlock
    BY DEF MapBlock
  <2>3. QED BY <2>1, <2>2, MfsOfAppend
<1>2. \A k \in 1..n : <<f[k - 1], f[k]>> \in R
  <2> SUFFICES ASSUME NEW k \in 1..n PROVE <<f[k - 1], f[k]>> \in R
    OBVIOUS
  <2>1. /\ SubSeq(s, 1, k - 1) \in Seq(MapBlock) /\ s[k] \in MapBlock
        /\ SubSeq(s, 1, k) = Append(SubSeq(s, 1, k - 1), s[k])
    BY OneMore
  <2>2. f[k] = IF IsMfs(s[k]) THEN Append(f[k - 1], s[k]) ELSE f[k - 1]
    <3>1. k - 1 \in 0..n /\ k \in 0..n
      OBVIOUS
    <3>2. QED BY <2>1, <3>1, MfsOfAppend
  <2>3. f[k - 1] \in P /\ f[k] \in P
    <3>1. k - 1 \in 0..n /\ k \in 0..n
      OBVIOUS
    <3> HIDE DEF f
    <3>2. QED BY <1>1, <3>1
  <2> HIDE DEF f
  <2>4. IsMfs(s[k]) => s[k] \in Partition
    BY <2>1 DEF IsMfs, MapBlock, JunkBlock, ZeroBlock
  <2>5. Len(f[k - 1]) <= Len(f[k]) /\ \A l \in 1..Len(f[k - 1]) : f[k - 1][l] = f[k][l]
    BY <2>2, <2>3, <2>4
  <2>6. QED BY <2>3, <2>5, PrefixOf
<1>3. \A x \in P : <<x, x>> \in R
  <2> SUFFICES ASSUME NEW x \in P PROVE IsPrefix(x, x)
    OBVIOUS
  <2>1. Len(x) <= Len(x)
    OBVIOUS
  <2>2. QED BY <2>1, PrefixOf
<1>4. \A x, y, z \in P : <<x, y>> \in R /\ <<y, z>> \in R => <<x, z>> \in R
  <2> SUFFICES ASSUME NEW x \in P, NEW y \in P, NEW z \in P,
                      IsPrefix(x, y), IsPrefix(y, z)
               PROVE  IsPrefix(x, z)
    OBVIOUS
  <2>1. /\ Len(x) <= Len(y) /\ \A l \in 1..Len(x) : x[l] = y[l]
        /\ Len(y) <= Len(z) /\ \A l \in 1..Len(y) : y[l] = z[l]
    BY PrefixOf
  <2>2. Len(x) \in Nat /\ Len(y) \in Nat /\ Len(z) \in Nat
    OBVIOUS
  <2>3. Len(x) <= Len(z) /\ \A l \in 1..Len(x) : x[l] = z[l]
    BY <2>1, <2>2
  <2>4. QED BY <2>3, PrefixOf
<1>5. n \in Nat /\ i \in 0..n /\ j \in i..n /\ j \in 0..n
  OBVIOUS
<1>6. f[i] = MfsOf(SubSeq(s, 1, i)) /\ f[j] = MfsOf(SubSeq(s, 1, j))
  BY <1>5
<1>7. <<f[i], f[j]>> \in R
  <2> HIDE DEF f, P, R, n
  <2>1. QED BY <1>1, <1>2, <1>3, <1>4, <1>5, Rising
<1>8. QED BY <1>6, <1>7

(* No MFS partition, no volume. *)
LEMMA MfsOfNone ==
  ASSUME NEW s \in Seq(MapBlock), NEW i \in 0..Len(s),
         \A k \in 1..i : ~IsMfs(s[k])
  PROVE  MfsOf(SubSeq(s, 1, i)) = <<>>
<1> DEFINE P == Seq(Partition)
           R == {r \in P \X P : r[1] = r[2]}
           f == [k \in 0..i |-> MfsOf(SubSeq(s, 1, k))]
<1>1. \A k \in 0..i : f[k] \in P
  <2>1. \A k \in 0..i : SubSeq(s, 1, k) \in Seq(MapBlock)
    OBVIOUS
  <2>2. ZeroBlock \in MapBlock
    BY DEF MapBlock
  <2>3. QED BY <2>1, <2>2, MfsOfAppend
<1>2. ASSUME NEW k \in 1..i PROVE <<f[k - 1], f[k]>> \in R
  <2>1. k \in 1..Len(s) /\ k - 1 \in 0..i /\ k \in 0..i
    OBVIOUS
  <2>2. /\ SubSeq(s, 1, k - 1) \in Seq(MapBlock) /\ s[k] \in MapBlock
        /\ SubSeq(s, 1, k) = Append(SubSeq(s, 1, k - 1), s[k])
    BY <2>1, OneMore
  <2>3. f[k] = f[k - 1]
    BY <2>1, <2>2, MfsOfAppend
  <2> HIDE DEF f
  <2>4. QED BY <1>1, <2>1, <2>3
<1>3. \A x \in P : <<x, x>> \in R
  OBVIOUS
<1>4. \A x, y, z \in P : <<x, y>> \in R /\ <<y, z>> \in R => <<x, z>> \in R
  OBVIOUS
<1>5. i \in Nat /\ 0 \in 0..i /\ i \in 0..i
  OBVIOUS
<1>6. <<f[0], f[i]>> \in R
  <2> HIDE DEF f, P, R
  <2>1. QED BY <1>1, <1>2, <1>3, <1>4, <1>5, Rising
<1>7. f[0] = <<>>
  <2>1. SubSeq(s, 1, 0) = <<>>
    OBVIOUS
  <2>2. QED BY <1>5, <2>1, MfsOfEmpty
<1>8. QED BY <1>5, <1>6, <1>7

(* The first volume is the first MFS partition of the map. *)
LEMMA MfsOfFirst ==
  ASSUME NEW s \in Seq(MapBlock), NEW i \in 1..Len(s), IsMfs(s[i]),
         \A k \in 1..(i - 1) : ~IsMfs(s[k])
  PROVE  MfsOf(s) \in Seq(Partition) /\ Len(MfsOf(s)) # 0 /\ MfsOf(s)[1] = s[i]
<1>1. i - 1 \in 0..Len(s) /\ i \in 0..Len(s) /\ Len(s) \in i..Len(s)
  OBVIOUS
<1>2. MfsOf(SubSeq(s, 1, i - 1)) = <<>>
  BY <1>1, MfsOfNone
<1>3. /\ SubSeq(s, 1, i - 1) \in Seq(MapBlock) /\ s[i] \in MapBlock
      /\ SubSeq(s, 1, i) = Append(SubSeq(s, 1, i - 1), s[i])
  BY OneMore
<1>4. MfsOf(SubSeq(s, 1, i)) = <<s[i]>>
  <2>1. MfsOf(SubSeq(s, 1, i)) = Append(<<>>, s[i])
    BY <1>2, <1>3, MfsOfAppend
  <2>2. QED BY <2>1
<1>5. MfsOf(s) \in Seq(Partition) /\ MfsOf(SubSeq(s, 1, i)) \in Seq(Partition)
  <2>1. SubSeq(s, 1, i) \in Seq(MapBlock)
    OBVIOUS
  <2>2. QED BY <1>3, <2>1, MfsOfAppend
<1>6. IsPrefix(MfsOf(SubSeq(s, 1, i)), MfsOf(s))
  <2>1. SubSeq(s, 1, Len(s)) = s
    OBVIOUS
  <2>2. QED BY <1>1, <2>1, MfsOfPrefixes
<1>7. /\ Len(MfsOf(SubSeq(s, 1, i))) <= Len(MfsOf(s))
      /\ \A k \in 1..Len(MfsOf(SubSeq(s, 1, i))) :
           MfsOf(SubSeq(s, 1, i))[k] = MfsOf(s)[k]
  BY <1>5, <1>6, PrefixOf
<1>8. Len(<<s[i]>>) = 1 /\ <<s[i]>>[1] = s[i] /\ 1 \in 1..1
  OBVIOUS
<1>9. Len(MfsOf(s)) \in Nat /\ 1 <= Len(MfsOf(s)) /\ MfsOf(s)[1] = s[i]
  <2> DEFINE one == <<s[i]>>
  <2>1. /\ Len(one) <= Len(MfsOf(s)) /\ \A k \in 1..Len(one) : one[k] = MfsOf(s)[k]
        /\ Len(one) = 1 /\ one[1] = s[i]
    BY <1>4, <1>7, <1>8
  <2> HIDE DEF one
  <2>2. QED BY <1>5, <1>8, <2>1
<1>10. QED BY <1>5, <1>9

(* A longer sequence of partitions has no fewer sectors. *)
LEMMA SectorsOfPrefixes ==
  ASSUME NEW s \in Seq(Partition), NEW i \in 0..Len(s), NEW j \in i..Len(s)
  PROVE  Sectors(SubSeq(s, 1, i)) <= Sectors(SubSeq(s, 1, j))
<1> DEFINE n == Len(s)
           R == {r \in Nat \X Nat : r[1] <= r[2]}
           f == [k \in 0..n |-> Sectors(SubSeq(s, 1, k))]
<1>1. \A k \in 1..n : /\ SubSeq(s, 1, k - 1) \in Seq(Partition) /\ s[k] \in Partition
                      /\ SubSeq(s, 1, k) = Append(SubSeq(s, 1, k - 1), s[k])
  BY OneMore
<1>2. \A k \in 1..n : s[k].sector_size \in Nat
  BY <1>1 DEF Partition
<1>3. \A k \in 1..n : f[k - 1] \in Nat /\ f[k] = f[k - 1] + s[k].sector_size
  <2> SUFFICES ASSUME NEW k \in 1..n
               PROVE  f[k - 1] \in Nat /\ f[k] = f[k - 1] + s[k].sector_size
    OBVIOUS
  <2>1. k - 1 \in 0..n /\ k \in 0..n
    OBVIOUS
  <2>2. QED BY <1>1, <2>1, SectorsOfAppend
<1>4. f[0] = 0
  <2>1. SubSeq(s, 1, 0) = <<>> /\ 0 \in 0..n
    OBVIOUS
  <2>2. QED BY <2>1, SectorsOfEmpty
<1>5. /\ n \in Nat /\ i \in 0..n /\ j \in i..n /\ j \in 0..n
      /\ f[i] = Sectors(SubSeq(s, 1, i)) /\ f[j] = Sectors(SubSeq(s, 1, j))
  OBVIOUS
<1> HIDE DEF n, f
<1>6. \A k \in 0..n : f[k] \in Nat
  <2> SUFFICES ASSUME NEW k \in 0..n PROVE f[k] \in Nat
    OBVIOUS
  <2>1. k = 0 \/ k \in 1..n
    BY <1>5
  <2>2. QED BY <1>2, <1>3, <1>4, <2>1
<1>7. \A k \in 1..n : <<f[k - 1], f[k]>> \in R
  BY <1>2, <1>3, SMTT(30)
<1>8. /\ \A x \in Nat : <<x, x>> \in R
      /\ \A x, y, z \in Nat : <<x, y>> \in R /\ <<y, z>> \in R => <<x, z>> \in R
  OBVIOUS
<1>9. <<f[i], f[j]>> \in R
  <2> DEFINE S == Nat
  <2>1. /\ \A x \in S : <<x, x>> \in R
        /\ \A x, y, z \in S : <<x, y>> \in R /\ <<y, z>> \in R => <<x, z>> \in R
        /\ \A k \in 0..n : f[k] \in S
    BY <1>6, <1>8
  <2> HIDE DEF S, R
  <2>2. QED BY <1>5, <1>7, <2>1, Rising
<1>10. f[i] <= f[j]
  BY <1>9
<1>11. QED BY <1>5, <1>10

-----------------------------------------------------------------------------
(* The volumes of a map are those of its MFS partitions, each behind the
   sectors of the ones before it. *)
LEMMA VolumesTypes ==
  ASSUME NEW s \in Seq(MapBlock)
  PROVE  /\ MfsOf(s) \in Seq(Partition)
         /\ VolumesOf(s) \in Seq(Volume)
         /\ Len(VolumesOf(s)) = Len(MfsOf(s))
         /\ \A k \in 1..Len(MfsOf(s)) :
              /\ Sectors(SubSeq(MfsOf(s), 1, k - 1)) \in Nat
              /\ VolumesOf(s)[k] = [disk_sector  |-> MfsOf(s)[k].starting_sector,
                                    sector_start |-> Sectors(SubSeq(MfsOf(s), 1, k - 1)),
                                    sector_count |-> MfsOf(s)[k].sector_size]
<1> DEFINE mfs == MfsOf(s)
           e(k) == [disk_sector  |-> mfs[k].starting_sector,
                    sector_start |-> Sectors(SubSeq(mfs, 1, k - 1)),
                    sector_count |-> mfs[k].sector_size]
<1>1. mfs \in Seq(Partition)
  <2>1. ZeroBlock \in MapBlock
    BY DEF MapBlock
  <2>2. QED BY <2>1, MfsOfAppend
<1>2. VolumesOf(s) = [k \in DOMAIN mfs |-> e(k)]
  BY DEF VolumesOf
<1> HIDE DEF mfs
<1>3. DOMAIN mfs = 1..Len(mfs) /\ Len(mfs) \in Nat
  BY <1>1
<1>4. ASSUME NEW k \in 1..Len(mfs)
      PROVE  Sectors(SubSeq(mfs, 1, k - 1)) \in Nat /\ e(k) \in Volume
  <2>1. SubSeq(mfs, 1, k - 1) \in Seq(Partition) /\ mfs[k] \in Partition
    BY <1>1, OneMore
  <2>2. Sectors(SubSeq(mfs, 1, k - 1)) \in Nat
    BY <2>1, SectorsOfAppend
  <2>3. mfs[k].starting_sector \in Nat /\ mfs[k].sector_size \in Nat
    BY <2>1 DEF Partition
  <2>4. QED BY <2>2, <2>3 DEF Volume
<1>5. VolumesOf(s) \in [1..Len(mfs) -> Volume]
  BY <1>2, <1>3, <1>4
<1>6. /\ VolumesOf(s) \in Seq(Volume)
      /\ Len(VolumesOf(s)) = Len(mfs)
  BY <1>3, <1>5
<1>7. \A k \in 1..Len(mfs) : VolumesOf(s)[k] = e(k)
  BY <1>2, <1>3
<1>8. QED BY <1>1, <1>4, <1>6, <1>7 DEF mfs

(* The volumes of a prefix of the MFS partitions are a prefix of the volumes. *)
LEMMA VolumesOfPrefix ==
  ASSUME NEW s \in Seq(MapBlock), NEW t \in Seq(MapBlock),
         IsPrefix(MfsOf(s), MfsOf(t))
  PROVE  /\ IsPrefix(VolumesOf(s), VolumesOf(t))
         /\ Sectors(MfsOf(s)) <= Sectors(MfsOf(t))
<1> DEFINE m == MfsOf(s)
           r == MfsOf(t)
           v == VolumesOf(s)
           w == VolumesOf(t)
<1>1. /\ m \in Seq(Partition) /\ v \in Seq(Volume) /\ Len(v) = Len(m)
      /\ \A k \in 1..Len(m) :
           v[k] = [disk_sector  |-> m[k].starting_sector,
                   sector_start |-> Sectors(SubSeq(m, 1, k - 1)),
                   sector_count |-> m[k].sector_size]
  BY VolumesTypes
<1>2. /\ r \in Seq(Partition) /\ w \in Seq(Volume) /\ Len(w) = Len(r)
      /\ \A k \in 1..Len(r) :
           w[k] = [disk_sector  |-> r[k].starting_sector,
                   sector_start |-> Sectors(SubSeq(r, 1, k - 1)),
                   sector_count |-> r[k].sector_size]
  BY VolumesTypes
<1>3. IsPrefix(m, r)
  OBVIOUS
<1> HIDE DEF m, r, v, w
<1>4. Len(m) <= Len(r) /\ \A k \in 1..Len(m) : m[k] = r[k]
  BY <1>1, <1>2, <1>3, PrefixOf
<1>5. Len(m) \in Nat /\ Len(r) \in Nat
  BY <1>1, <1>2
<1>6. ASSUME NEW k \in 0..Len(m) PROVE SubSeq(m, 1, k) = SubSeq(r, 1, k)
  <2> DEFINE p == SubSeq(m, 1, k)
             q == SubSeq(r, 1, k)
  <2>1. p \in Seq(Partition) /\ Len(p) = k /\ \A i \in 1..k : p[i] = m[i]
    BY <1>1, <1>5
  <2>2. q \in Seq(Partition) /\ Len(q) = k /\ \A i \in 1..k : q[i] = r[i]
    BY <1>2, <1>4, <1>5
  <2>3. \A i \in 1..k : m[i] = r[i]
    BY <1>4, <1>5
  <2> HIDE DEF p, q
  <2>4. p = q
    BY <2>1, <2>2, <2>3, SeqEqual
  <2>5. QED BY <2>4 DEF p, q
<1>7. IsPrefix(v, w)
  <2>1. ASSUME NEW k \in 1..Len(m) PROVE v[k] = w[k]
    <3>1. k - 1 \in 0..Len(m) /\ k \in 1..Len(r)
      BY <1>4, <1>5
    <3>2. m[k] = r[k] /\ SubSeq(m, 1, k - 1) = SubSeq(r, 1, k - 1)
      BY <1>4, <1>6, <3>1
    <3>3. QED BY <1>1, <1>2, <3>1, <3>2
  <2>2. QED BY <1>1, <1>2, <1>4, <2>1, PrefixOf
<1>8. Sectors(m) <= Sectors(r)
  <2>1. SubSeq(m, 1, Len(m)) = m /\ SubSeq(r, 1, Len(r)) = r
    BY <1>1, <1>2
  <2>2. Len(m) \in 0..Len(m) /\ Len(m) \in 0..Len(r) /\ Len(r) \in Len(m)..Len(r)
    BY <1>4, <1>5
  <2>3. Sectors(SubSeq(r, 1, Len(m))) <= Sectors(SubSeq(r, 1, Len(r)))
    BY <1>2, <2>2, SectorsOfPrefixes
  <2>4. QED BY <1>6, <2>1, <2>2, <2>3
<1>9. QED BY <1>7, <1>8 DEF m, r, v, w

(* A table ends where its sectors do. *)
LEMMA VolumesEnd ==
  ASSUME NEW s \in Seq(MapBlock)
  PROVE  /\ Sectors(MfsOf(s)) \in Nat
         /\ (IF VolumesOf(s) = <<>> THEN 0 ELSE EndOf(VolumesOf(s)[Len(VolumesOf(s))]))
              = Sectors(MfsOf(s))
<1> DEFINE m == MfsOf(s)
           v == VolumesOf(s)
<1>1. /\ m \in Seq(Partition) /\ v \in Seq(Volume) /\ Len(v) = Len(m)
      /\ \A k \in 1..Len(m) :
           v[k] = [disk_sector  |-> m[k].starting_sector,
                   sector_start |-> Sectors(SubSeq(m, 1, k - 1)),
                   sector_count |-> m[k].sector_size]
  BY VolumesTypes
<1> HIDE DEF m, v
<1>2. CASE Len(m) = 0
  <2>1. m = <<>> /\ v = <<>>
    BY <1>1, <1>2
  <2>2. QED BY <2>1, SectorsOfEmpty DEF m, v
<1>3. CASE Len(m) # 0
  <2>1. Len(m) \in 1..Len(m) /\ v # <<>> /\ SubSeq(m, 1, Len(m)) = m
    BY <1>1, <1>3
  <2>2. /\ SubSeq(m, 1, Len(m) - 1) \in Seq(Partition) /\ m[Len(m)] \in Partition
        /\ SubSeq(m, 1, Len(m)) = Append(SubSeq(m, 1, Len(m) - 1), m[Len(m)])
    BY <1>1, <2>1, OneMore
  <2>3. /\ Sectors(SubSeq(m, 1, Len(m) - 1)) \in Nat
        /\ Sectors(m) = Sectors(SubSeq(m, 1, Len(m) - 1)) + m[Len(m)].sector_size
    BY <2>1, <2>2, SectorsOfAppend
  <2>4. m[Len(m)].sector_size \in Nat
    BY <2>2 DEF Partition
  <2>5. EndOf(v[Len(m)]) = Sectors(SubSeq(m, 1, Len(m) - 1)) + m[Len(m)].sector_size
    <3>1. v[Len(m)] = [disk_sector  |-> m[Len(m)].starting_sector,
                       sector_start |-> Sectors(SubSeq(m, 1, Len(m) - 1)),
                       sector_count |-> m[Len(m)].sector_size]
      BY <1>1, <2>1
    <3>2. QED BY <3>1 DEF EndOf
  <2>6. Sectors(m) \in Nat
    BY <2>3, <2>4
  <2>7. QED BY <1>1, <2>1, <2>3, <2>5, <2>6 DEF m, v
<1>4. QED BY <1>2, <1>3

(* One MFS partition more is one volume more, behind all the others; any
   other block changes nothing. *)
LEMMA VolumesOfAppend ==
  ASSUME NEW s \in Seq(MapBlock), NEW b \in MapBlock
  PROVE  VolumesOf(Append(s, b)) =
           IF IsMfs(b)
           THEN Append(VolumesOf(s), [disk_sector  |-> b.starting_sector,
                                      sector_start |-> Sectors(MfsOf(s)),
                                      sector_count |-> b.sector_size])
           ELSE VolumesOf(s)
<1>1. CASE ~IsMfs(b)
  <2>1. MfsOf(Append(s, b)) = MfsOf(s)
    BY <1>1, MfsOfAppend
  <2>2. VolumesOf(Append(s, b)) = VolumesOf(s)
    BY <2>1 DEF VolumesOf
  <2>3. QED BY <1>1, <2>2
<1>2. CASE IsMfs(b)
  <2> DEFINE t == Append(s, b)
             m == MfsOf(s)
             v == VolumesOf(s)
             w == VolumesOf(t)
             new == [disk_sector  |-> b.starting_sector, sector_start |-> Sectors(m),
                     sector_count |-> b.sector_size]
             n == Len(m)
  <2>1. t \in Seq(MapBlock) /\ b \in Partition
    BY <1>2 DEF IsMfs, MapBlock, JunkBlock, ZeroBlock
  <2>2. MfsOf(t) = Append(m, b) /\ m \in Seq(Partition)
    BY <1>2, MfsOfAppend
  <2>3. v \in Seq(Volume) /\ Len(v) = n
    BY VolumesTypes
  <2>4. /\ w \in Seq(Volume) /\ Len(w) = Len(MfsOf(t))
        /\ \A k \in 1..Len(MfsOf(t)) :
             w[k] = [disk_sector  |-> MfsOf(t)[k].starting_sector,
                     sector_start |-> Sectors(SubSeq(MfsOf(t), 1, k - 1)),
                     sector_count |-> MfsOf(t)[k].sector_size]
    BY <2>1, VolumesTypes
  <2> HIDE DEF t, m, v, w
  <2>5. /\ n \in Nat /\ Len(Append(m, b)) = n + 1 /\ Append(m, b)[n + 1] = b
        /\ SubSeq(Append(m, b), 1, (n + 1) - 1) = m /\ n + 1 \in 1..(n + 1)
    <3>1. /\ n \in Nat /\ Len(Append(m, b)) = n + 1 /\ Append(m, b)[n + 1] = b
          /\ n + 1 \in 1..(n + 1) /\ (n + 1) - 1 = n
      BY <2>1, <2>2
    <3>2. SubSeq(Append(m, b), 1, n) = m
      BY <2>1, <2>2
    <3>3. QED BY <3>1, <3>2
  <2>6. Len(w) = n + 1 /\ w[n + 1] = new
    BY <2>2, <2>4, <2>5
  <2>7. IsPrefix(v, w)
    <3>1. Append(m, b) \in Seq(Partition) /\ n <= n + 1
      BY <2>1, <2>2, <2>5
    <3>2. \A k \in 1..n : m[k] = Append(m, b)[k]
      BY <2>1, <2>2
    <3>3. IsPrefix(m, Append(m, b))
      BY <2>2, <2>5, <3>1, <3>2, PrefixOf
    <3>4. QED BY <2>1, <2>2, <3>3, VolumesOfPrefix DEF m, v, w
  <2>8. \A k \in 1..n : v[k] = w[k]
    BY <2>3, <2>4, <2>7, PrefixOf
  <2>9. new \in Volume
    <3>1. w[n + 1] \in Volume
      BY <2>4, <2>5, <2>6
    <3>2. QED BY <2>6, <3>1
  <2>10. w = Append(v, new)
    <3> HIDE DEF new, n
    <3>1. /\ Append(v, new) \in Seq(Volume) /\ Len(Append(v, new)) = n + 1
          /\ Append(v, new)[n + 1] = new /\ \A k \in 1..n : Append(v, new)[k] = v[k]
      BY <2>3, <2>5, <2>9
    <3>2. \A k \in 1..(n + 1) : w[k] = Append(v, new)[k]
      <4> SUFFICES ASSUME NEW k \in 1..(n + 1) PROVE w[k] = Append(v, new)[k]
        OBVIOUS
      <4>1. k \in 1..n \/ k = n + 1
        BY <2>5
      <4>2. QED BY <2>6, <2>8, <3>1, <4>1
    <3>3. QED BY <2>4, <2>6, <3>1, <3>2, SeqEqual
  <2>11. QED BY <1>2, <2>10 DEF t, m, v, w
<1>3. QED BY <1>1, <1>2

-----------------------------------------------------------------------------
(***************************************************************************)
(* The walk of a load is a walk of ZoneMap: what the lemmas of             *)
(* ZoneMap_proofs say of it can be used here.                              *)
(***************************************************************************)
LEMMA SameData ==
  /\ Walked!Zone = Zones!Zone /\ Walked!Link = Zones!Link /\ Walked!Volume = Volume
  /\ Walked!Callers = Zones!Callers
BY DEF Walked!Zone, Zones!Zone, Walked!ZoneType, Zones!ZoneType, Walked!Link, Zones!Link,
       Walked!Volume, Volume, Walked!Callers, Zones!Callers

LEMMA SameStep == Zones!Step => Walked!Next
<1>1. Zones!Step => Walked!Step
  BY ZenonT(60) DEF Zones!Step, Walked!Step, Zones!EndOfList, Walked!EndOfList,
         Zones!PointerPanics, Walked!PointerPanics, Zones!Fault, Walked!Fault,
         Zones!ReadPrimary, Walked!ReadPrimary, Zones!ReadBackup, Walked!ReadBackup,
         Zones!BothUnparsable, Walked!BothUnparsable, Zones!Return, Walked!Return,
         Zones!Reading, Walked!Reading, Zones!Mapped, Walked!Mapped,
         Zones!Parses, Walked!Parses, Zones!ParseZone, Walked!ParseZone,
         Zones!ZeroZone, Walked!ZeroZone, Zones!Primary, Walked!Primary,
         Zones!Backup, Walked!Backup, Zones!Deliver, Walked!Deliver,
         Zones!Advance, Walked!Advance, Zones!Consume, Walked!Consume,
         Zones!cursor, Walked!cursor, Zones!BlockAt, Walked!BlockAt,
         Zones!JunkBlock, Walked!JunkBlock, Zones!ZeroBlock, Walked!ZeroBlock,
         Zones!Covering, Walked!Covering, Zones!Covers, Walked!Covers,
         Zones!EndOf, Walked!EndOf, Zones!SectorToDiskLocation, Walked!SectorToDiskLocation,
         Zones!FindSectorVolume, Walked!FindSectorVolume,
         Zones!VolumeIndex, Walked!VolumeIndex
<1>2. QED BY <1>1, SMTT(30) DEF Walked!Next

LEMMA SameDrives ==
  ASSUME NEW d
  PROVE  /\ Zones!Represents(d) <=> Walked!Represents(d)
         /\ Zones!Survivable(d) <=> Walked!Survivable(d)
<1>1. Zones!Linked(d) <=> Walked!Linked(d)
  BY DEF Zones!Linked, Walked!Linked
<1>2. \A vols, s : Zones!Covering(vols, s) = Walked!Covering(vols, s)
  BY DEF Zones!Covering, Walked!Covering, Zones!Covers, Walked!Covers,
         Zones!EndOf, Walked!EndOf
<1>3. \A s : Zones!CopyOf(d, s) = Walked!CopyOf(d, s)
  <2>1. \A im, loc : Zones!BlockAt(im, loc) = Walked!BlockAt(im, loc)
    BY DEF Zones!BlockAt, Walked!BlockAt, Zones!JunkBlock, Walked!JunkBlock,
           Zones!ZeroBlock, Walked!ZeroBlock
  <2>2. \A vols, s : Zones!SectorToDiskLocation(vols, s) = Walked!SectorToDiskLocation(vols, s)
    BY <1>2 DEF Zones!SectorToDiskLocation, Walked!SectorToDiskLocation,
                Zones!FindSectorVolume, Walked!FindSectorVolume,
                Zones!VolumeIndex, Walked!VolumeIndex
  <2>3. QED BY <2>1, <2>2 DEF Zones!CopyOf, Walked!CopyOf
<1>4. /\ \A z : Zones!Intact(z) = Walked!Intact(z)
      /\ Zones!JunkBlock = Walked!JunkBlock /\ Zones!ZeroBlock = Walked!ZeroBlock
  BY DEF Zones!Intact, Walked!Intact, Zones!JunkBlock, Walked!JunkBlock,
         Zones!ZeroBlock, Walked!ZeroBlock
<1>5. Zones!AllMapped(d) <=> Walked!AllMapped(d)
  BY <1>2 DEF Zones!AllMapped, Walked!AllMapped
<1>6. Zones!Represents(d) <=> Walked!Represents(d)
  BY <1>1, <1>2, <1>3, <1>4 DEF Zones!Represents, Walked!Represents
<1>7. QED
  BY <1>3, <1>4, <1>5, <1>6 DEF Zones!Survivable, Walked!Survivable

LEMMA SameProgress ==
  /\ \A n : Zones!FollowsUpTo(n) <=> Walked!FollowsUpTo(n)
  /\ Zones!EndsInPhantom <=> Walked!EndsInPhantom
BY DEF Zones!FollowsUpTo, Walked!FollowsUpTo, Zones!EndsInPhantom, Walked!EndsInPhantom,
       Zones!ZeroZone, Walked!ZeroZone

-----------------------------------------------------------------------------
(* The drive that a volume table and a byte order make of the image. *)
DriveOf(vols, swapped) ==
  [volumes |-> vols, chain |-> image.chain, image |-> Seen(swapped), failing |-> image.failing]

LEMMA DriveTyped ==
  ASSUME IsImage(image), NEW vols \in Seq(Volume), NEW swapped
  PROVE  Walked!IsDrive(DriveOf(vols, swapped))
<1> DEFINE d == DriveOf(vols, swapped)
<1>1. /\ d.volumes = vols /\ d.chain = image.chain /\ d.failing = image.failing
      /\ d.image = Seen(swapped)
  BY DEF DriveOf
<1>2. /\ image.chain \in Seq(Zones!Link) /\ image.failing \in BOOLEAN
      /\ \A loc \in DOMAIN image.blocks :
           image.blocks[loc].kind = "zone" => image.blocks[loc].zone \in Zones!Zone
  BY DEF IsImage
<1>3. ASSUME NEW loc \in DOMAIN Seen(swapped).blocks,
             Seen(swapped).blocks[loc].kind = "zone"
      PROVE  Seen(swapped).blocks[loc].zone \in Zones!Zone
  <2>1. loc \in DOMAIN image.blocks
        /\ Seen(swapped).blocks[loc] = InOrder(swapped, image.blocks[loc])
    BY <1>3 DEF Seen
  <2>2. Seen(swapped).blocks[loc] = image.blocks[loc]
    BY <1>3, <2>1 DEF InOrder, JunkBlock
  <2>3. QED BY <1>2, <1>3, <2>1, <2>2
<1> HIDE DEF d
<1>4. QED BY <1>1, <1>2, <1>3, SameData DEF Walked!IsDrive, d

-----------------------------------------------------------------------------
(* The partitions that are parsed are the first of the map, up to a fault or
   to an entry that does not parse in this byte order. *)
LEMMA LeadingTypes ==
  ASSUME NEW s \in Seq(MapBlock)
  PROVE  /\ LeadingEntries(s) \in Seq(Partition)
         /\ Len(LeadingEntries(s)) <= Len(s)
         /\ \A i \in 1..Len(LeadingEntries(s)) : LeadingEntries(s)[i] = s[i]
<1> DEFINE bad == {i \in DOMAIN s : s[i].kind # "partition"}
           p == LeadingEntries(s)
<1>1. \A b \in MapBlock : b.kind = "partition" => b \in Partition
  BY DEF MapBlock, JunkBlock, ZeroBlock
<1>2. Len(s) \in Nat /\ DOMAIN s = 1..Len(s) /\ \A i \in 1..Len(s) : s[i] \in MapBlock
  OBVIOUS
<1>3. CASE bad = {}
  <2>1. p = s
    BY <1>3 DEF LeadingEntries
  <2>2. \A i \in 1..Len(s) : s[i] \in Partition
    BY <1>1, <1>2, <1>3
  <2> HIDE DEF p
  <2>3. s \in Seq(Partition)
    BY <1>2, <2>2
  <2>4. QED BY <1>2, <2>1, <2>3 DEF p
<1>4. CASE bad # {}
  <2> DEFINE k == CHOOSE i \in bad : \A j \in bad : i <= j
  <2>1. k \in bad /\ \A j \in bad : k <= j
    <3>1. bad \in SUBSET Nat
      OBVIOUS
    <3> HIDE DEF bad
    <3>2. \E i \in bad : \A j \in bad : i <= j
      BY <1>4, <3>1, LeastNat
    <3>3. QED BY <3>2
  <2>2. p = SubSeq(s, 1, k - 1)
    BY <1>4 DEF LeadingEntries
  <2> HIDE DEF k, p
  <2>3. k \in 1..Len(s)
    BY <2>1
  <2>4. \A i \in 1..(k - 1) : s[i] \in Partition
    <3> SUFFICES ASSUME NEW i \in 1..(k - 1) PROVE s[i] \in Partition
      OBVIOUS
    <3>1. i \in 1..Len(s) /\ ~(k <= i)
      BY <1>2, <2>3
    <3>2. i \notin bad
      BY <2>1, <3>1
    <3>3. QED BY <1>1, <1>2, <3>1, <3>2
  <2>5. p \in Seq(Partition) /\ Len(p) = k - 1 /\ \A i \in 1..(k - 1) : p[i] = s[i]
    BY <1>2, <2>2, <2>3, <2>4
  <2>6. QED BY <1>2, <2>3, <2>5 DEF p
<1>5. QED BY <1>3, <1>4

LEMMA MapRead ==
  ASSUME IsImage(image), NEW buffer \in Buffers
  PROVE  /\ LeadingEntries(buffer) \in Seq(Partition)
         /\ Len(LeadingEntries(buffer)) <= Len(image.map)
         /\ \A i \in 1..Len(LeadingEntries(buffer)) :
              LeadingEntries(buffer)[i] = image.map[i]
         /\ ~image.failing /\ is_byte_swapped = image.swapped => buffer = image.map
<1> DEFINE map == image.map
           n == Len(map)
           all == [i \in DOMAIN map |-> InOrder(is_byte_swapped, map[i])]
<1>1. map \in Seq(MapBlock) /\ n \in Nat /\ DOMAIN map = 1..n
  BY DEF IsImage
<1>2. JunkBlock \in MapBlock /\ ZeroBlock \in MapBlock
  BY DEF MapBlock
<1>3. \A i \in 1..n : map[i] \in MapBlock /\ InOrder(is_byte_swapped, map[i]) \in MapBlock
  BY <1>1, <1>2 DEF InOrder
<1>4. Len(all) = n /\ DOMAIN all = 1..n
  BY <1>1, <1>3
<1>5. PICK m \in 0..n :
        /\ buffer = [i \in DOMAIN all |-> IF i <= m THEN all[i] ELSE ZeroBlock]
        /\ ~image.failing => m = n
  <2> DEFINE cut(m) == [i \in DOMAIN all |-> IF i <= m THEN all[i] ELSE ZeroBlock]
  <2>1. Buffers = {cut(m) : m \in IF image.failing THEN 0..Len(all) ELSE {Len(all)}}
    BY DEF Buffers
  <2> HIDE DEF cut, n, all
  <2>2. Buffers = {cut(m) : m \in IF image.failing THEN 0..n ELSE {n}}
    BY <1>4, <2>1
  <2>3. PICK m \in (IF image.failing THEN 0..n ELSE {n}) : buffer = cut(m)
    BY <2>2
  <2>4. m \in 0..n /\ (~image.failing => m = n)
    BY <1>1, <2>3
  <2>5. QED BY <2>3, <2>4 DEF cut
<1>6. /\ DOMAIN buffer = 1..n
      /\ \A i \in 1..n :
           buffer[i] = IF i <= m THEN InOrder(is_byte_swapped, map[i]) ELSE ZeroBlock
      /\ buffer = [i \in 1..n |-> buffer[i]]
  BY <1>1, <1>4, <1>5
<1> HIDE DEF map, n, all
<1>7. buffer \in Seq(MapBlock) /\ Len(buffer) = n
  <2>1. \A i \in 1..n : buffer[i] \in MapBlock
    BY <1>2, <1>3, <1>6
  <2>2. buffer \in [1..n -> MapBlock]
    BY <1>6, <2>1
  <2>3. QED BY <1>1, <1>6, <2>2
<1> DEFINE p == LeadingEntries(buffer)
<1>8. p \in Seq(Partition) /\ Len(p) <= n /\ \A i \in 1..Len(p) : p[i] = buffer[i]
  BY <1>7, LeadingTypes
<1> HIDE DEF p
<1>9. ASSUME NEW i \in 1..Len(p) PROVE p[i] = map[i]
  <2>1. p[i] \in Partition /\ i \in 1..n
    BY <1>1, <1>8
  <2>2. p[i].kind = "partition" /\ p[i] = buffer[i]
    BY <1>8, <2>1 DEF Partition
  <2>3. buffer[i] # ZeroBlock /\ buffer[i] # JunkBlock
    BY <2>2 DEF ZeroBlock, JunkBlock
  <2>4. QED BY <1>6, <2>1, <2>2, <2>3 DEF InOrder
<1>10. ~image.failing /\ is_byte_swapped = image.swapped => buffer = map
  <2> SUFFICES ASSUME ~image.failing, is_byte_swapped = image.swapped PROVE buffer = map
    OBVIOUS
  <2>1. \A i \in 1..n : buffer[i] = map[i]
    BY <1>1, <1>5, <1>6 DEF InOrder
  <2>2. QED BY <1>1, <1>7, <2>1, SeqEqual DEF n
<1>11. QED BY <1>8, <1>9, <1>10 DEF p, map, n

-----------------------------------------------------------------------------
(* One step of the table. *)
TableEnd == IF volumes = <<>> THEN 0 ELSE EndOf(volumes[Len(volumes)])
VolumeAt(b, start) ==
  [disk_sector |-> b.starting_sector, sector_start |-> start, sector_count |-> b.sector_size]

LEMMA TableStep ==
  ASSUME partitions \in Seq(Partition), scanned \in 0..Len(partitions),
         Table!SkipPartition \/ Table!AddVolume \/ Table!WrapVolume
  PROVE  LET b == partitions[scanned + 1]
         IN  /\ scanned + 1 \in 1..Len(partitions)
             /\ scanned' = scanned + 1
             /\ partitions' = partitions
             /\ b \in Partition
             /\ \/ /\ ~IsMfs(b)
                   /\ UNCHANGED <<volumes, wrapped>>
                \/ /\ IsMfs(b) /\ TableEnd < WordSize
                   /\ volumes' = Append(volumes, VolumeAt(b, TableEnd))
                   /\ UNCHANGED wrapped
                \/ /\ IsMfs(b) /\ TableEnd >= WordSize
                   /\ volumes' = Append(volumes, VolumeAt(b, TableEnd % WordSize))
                   /\ wrapped' = TRUE
<1> DEFINE b == partitions[scanned + 1]
<1>1. /\ scanned < Len(partitions) /\ scanned' = scanned + 1 /\ partitions' = partitions
      /\ Table!Current = b
  BY DEF Table!SkipPartition, Table!AddVolume, Table!WrapVolume, Table!Scanning, Table!Current
<1>2. scanned + 1 \in 1..Len(partitions) /\ b \in Partition
  BY <1>1
<1>3. b.kind = "partition"
  BY <1>2 DEF Partition
<1>4. Table!NextStart = TableEnd
  BY DEF Table!NextStart, TableEnd, Table!EndOf, EndOf
<1> HIDE DEF b
<1>5. CASE Table!SkipPartition
  <2>1. ~IsMfs(b) /\ UNCHANGED <<volumes, wrapped>>
    BY <1>1, <1>5 DEF Table!SkipPartition, IsMfs
  <2>2. QED BY <1>1, <1>2, <2>1 DEF b
<1>6. CASE Table!AddVolume
  <2>1. /\ IsMfs(b) /\ TableEnd < WordSize /\ UNCHANGED wrapped
        /\ volumes' = Append(volumes, VolumeAt(b, TableEnd))
    BY <1>1, <1>3, <1>4, <1>6 DEF Table!AddVolume, Table!Place, IsMfs, VolumeAt
  <2>2. QED BY <1>1, <1>2, <2>1 DEF b
<1>7. CASE Table!WrapVolume
  <2>1. /\ IsMfs(b) /\ TableEnd >= WordSize /\ wrapped' = TRUE
        /\ volumes' = Append(volumes, VolumeAt(b, TableEnd % WordSize))
    BY <1>1, <1>3, <1>4, <1>7 DEF Table!WrapVolume, Table!Place, IsMfs, VolumeAt
  <2>2. QED BY <1>1, <1>2, <2>1 DEF b
<1>8. QED BY <1>5, <1>6, <1>7

(* The volume placed is a volume. *)
LEMMA PlacedTypes ==
  ASSUME volumes \in Seq(Volume), NEW b \in Partition
  PROVE  VolumeAt(b, TableEnd) \in Volume /\ VolumeAt(b, TableEnd % WordSize) \in Volume
<1>1. TableEnd \in Nat
  <2>1. CASE volumes = <<>>
    BY <2>1 DEF TableEnd
  <2>2. CASE volumes # <<>>
    <3>1. volumes[Len(volumes)] \in Volume
      BY <2>2
    <3>2. QED BY <2>2, <3>1 DEF TableEnd, EndOf, Volume
  <2>3. QED BY <2>1, <2>2
<1>2. TableEnd % WordSize \in Nat
  <2> DEFINE e == TableEnd
             w == WordSize
  <2>1. e \in Nat /\ w \in Nat /\ w > 0
    BY <1>1, WordSizeAssumption
  <2> HIDE DEF e, w
  <2>2. e % w \in Nat
    BY <2>1
  <2>3. QED BY <2>2 DEF e, w
<1>3. QED BY <1>1, <1>2 DEF VolumeAt, Volume, Partition

-----------------------------------------------------------------------------
LEMMA DriveIs == Drive = DriveOf(volumes, is_byte_swapped)
BY DEF Drive, DriveOf

LEMMA ImageFixed == [Step]_vars => UNCHANGED <<image, overflow_checks>>
BY DEF Step, vars, Fixed, Open, ReadFails, CheckByteOrder, NotATivoDrive, ReadPartitionMap,
       BuildTable, NoRegionPanics, BadHeader, ReadHeader, Walk, CountInodes, CountOverflows

(* Steps that only move to another phase or count. *)
PhaseStep ==
  \/ Open \/ ReadFails \/ NotATivoDrive \/ NoRegionPanics \/ BadHeader
  \/ CountInodes \/ CountOverflows \/ UNCHANGED vars

LEMMA PhaseMoves ==
  ASSUME PhaseStep
  PROVE  /\ UNCHANGED <<image, overflow_checks, is_byte_swapped, partitions, table, zones>>
         /\ UNCHANGED Drive
         /\ \/ phase' = phase
            \/ phase = "open" /\ phase' = "order"
            \/ phase = "count" /\ phase' = "loaded"
            \/ phase' \in {"refused", "panicked"}
<1>1. /\ UNCHANGED <<image, overflow_checks, is_byte_swapped, partitions, table, zones>>
      /\ \/ phase' = phase
         \/ phase = "open" /\ phase' = "order"
         \/ phase = "count" /\ phase' = "loaded"
         \/ phase' \in {"refused", "panicked"}
  BY DEF PhaseStep, Open, ReadFails, NotATivoDrive, NoRegionPanics, BadHeader,
         CountInodes, CountOverflows, vars, Fixed, order
<1>2. UNCHANGED Drive
  BY <1>1 DEF Drive, Seen, InOrder, table
<1>3. QED BY <1>1, <1>2

LEMMA TypesInductive == Types /\ OneConsumer /\ [Step]_vars => Types'
<1> SUFFICES ASSUME Types, OneConsumer, [Step]_vars PROVE Types'
  OBVIOUS
<1>1. IsImage(image)' /\ (overflow_checks \in BOOLEAN)'
  BY ImageFixed DEF Types
<1>2. volumes \in Seq(Volume)
  <2>1. Walked!IsDrive(DriveOf(volumes, is_byte_swapped))
    BY DriveIs DEF Types, Walked!TypeOK
  <2>2. QED BY <2>1, SameData DEF Walked!IsDrive, DriveOf
<1>3. ASSUME (volumes \in Seq(Volume))', UNCHANGED zones PROVE Walked!TypeOK'
  <2>1. image' = image /\ IsImage(image)
    BY ImageFixed DEF Types
  <2>2. Walked!IsDrive(DriveOf(volumes', is_byte_swapped'))
    BY <1>3, <2>1, DriveTyped
  <2>3. Drive' = DriveOf(volumes', is_byte_swapped')
    BY <2>1 DEF Drive, DriveOf, Seen, InOrder
  <2>4. Walked!IsDrive(Drive)'
    BY <2>2, <2>3 DEF Walked!IsDrive
  <2>5. QED BY <1>3, <2>4 DEF Types, Walked!TypeOK, zones, cursor
<1>4. CASE PhaseStep
  <2>1. Walked!TypeOK'
    BY <1>2, <1>3, <1>4, PhaseMoves DEF table
  <2>2. QED BY <1>1, <1>4, <2>1, PhaseMoves DEF Types, Phases, Ended, table, zones
<1>5. CASE CheckByteOrder
  <2>1. /\ phase = "order" /\ phase' = "map" /\ UNCHANGED <<partitions, table, zones>>
        /\ (is_byte_swapped \in BOOLEAN)'
    BY <1>5 DEF CheckByteOrder
  <2>2. Walked!TypeOK'
    BY <1>2, <1>3, <2>1 DEF table
  <2>3. QED BY <1>1, <2>1, <2>2 DEF Types, Phases, table, zones
<1>6. CASE ReadPartitionMap
  <2>1. PICK buffer \in Buffers :
          /\ phase = "map" /\ phase' \in {"refused", "table"}
          /\ partitions' = LeadingEntries(buffer)
          /\ UNCHANGED <<is_byte_swapped, table, zones>>
    BY <1>6 DEF ReadPartitionMap
  <2>2. (partitions \in Seq(Partition))'
    BY <2>1, MapRead DEF Types
  <2>3. Walked!TypeOK'
    BY <1>2, <1>3, <2>1 DEF table
  <2>4. (scanned \in 0..Len(partitions))'
    BY <2>1, <2>2 DEF Types, table
  <2>5. QED BY <1>1, <2>1, <2>2, <2>3, <2>4 DEF Types, Phases, Ended, zones
<1>7. CASE BuildTable
  <2>1. /\ phase = "table" /\ phase' \in {"table", "header", "panicked"}
        /\ UNCHANGED <<order, zones>>
    BY <1>7 DEF BuildTable
  <2>2. (volumes \in Seq(Volume))' /\ (scanned \in 0..Len(partitions))'
    <3>1. CASE Table!SkipPartition \/ Table!AddVolume \/ Table!WrapVolume
      <4> DEFINE b == partitions[scanned + 1]
      <4>1. /\ scanned + 1 \in 1..Len(partitions) /\ scanned' = scanned + 1
            /\ partitions' = partitions /\ b \in Partition
            /\ volumes' \in {volumes, Append(volumes, VolumeAt(b, TableEnd)),
                             Append(volumes, VolumeAt(b, TableEnd % WordSize))}
        BY <3>1, TableStep DEF Types
      <4>2. VolumeAt(b, TableEnd) \in Volume /\ VolumeAt(b, TableEnd % WordSize) \in Volume
        BY <1>2, <4>1, PlacedTypes
      <4> HIDE DEF b
      <4>3. QED BY <1>2, <4>1, <4>2, SMTT(30)
    <3>2. CASE Table!OverflowPanics \/ Table!FinishNew
      BY <1>2, <2>1, <3>2 DEF Table!OverflowPanics, Table!FinishNew, Types, order
    <3>3. QED BY <1>7, <3>1, <3>2 DEF BuildTable
  <2>3. Walked!TypeOK'
    BY <1>3, <2>1, <2>2
  <2>4. QED BY <1>1, <2>1, <2>2, <2>3 DEF Types, Phases, Ended, order, zones
<1>8. CASE ReadHeader
  <2>1. /\ phase = "header" /\ phase' = "walk"
        /\ UNCHANGED <<order, table, zonemap, walk, walk_status>>
        /\ next_zonemap_ptr' = Header.next_zonemap_sector
        /\ backup_next_zonemap_ptr' = Header.next_zonemap_backup_sector
        /\ caller' = "from_iter" /\ Header.kind = "header"
    BY <1>8 DEF ReadHeader
  <2>2. Header.next_zonemap_sector \in Nat /\ Header.next_zonemap_backup_sector \in Nat
    <3> DEFINE loc == Region.starting_sector
    <3>1. /\ loc \in DOMAIN image.blocks
          /\ Header = InOrder(is_byte_swapped, image.blocks[loc])
      BY <2>1 DEF Header, BlockAt, Seen, JunkBlock, ZeroBlock
    <3>2. Header = image.blocks[loc]
      BY <2>1, <3>1 DEF InOrder, JunkBlock
    <3>3. QED BY <2>1, <3>1, <3>2 DEF Types, IsImage
  <2>3. Drive' = Drive
    BY <2>1, ImageFixed DEF Drive, Seen, InOrder, order, table
  <2>4. Walked!TypeOK'
    BY <2>1, <2>2, <2>3 DEF Types, Walked!TypeOK, Walked!Callers
  <2>5. QED BY <1>1, <2>1, <2>4 DEF Types, Phases, order, table
<1>9. CASE Walk
  <2>1. /\ phase = "walk" /\ phase' \in {"panicked", "count", "walk"}
        /\ UNCHANGED <<order, table>> /\ Zones!Step
    BY <1>9 DEF Walk
  <2>2. Walked!TypeOK'
    <3>1. Walked!Next
      BY <2>1, SameStep
    <3>2. QED BY <3>1, Walked!TypeInductive, WordSizeAssumption DEF Types
  <2>3. QED BY <1>1, <2>1, <2>2 DEF Types, Phases, Ended, order, table
<1>10. QED
  BY <1>4, <1>5, <1>6, <1>7, <1>8, <1>9 DEF Step, PhaseStep

-----------------------------------------------------------------------------
(* After the map is read neither it nor the byte order changes, and with
   them the region and its header. *)
LEMMA MapFixed ==
  ASSUME [Step]_vars, ~CheckByteOrder, ~ReadPartitionMap
  PROVE  UNCHANGED <<image, is_byte_swapped, partitions, Header, MfsPartitions>>
<1>1. UNCHANGED <<image, is_byte_swapped, partitions>>
  BY DEF Step, vars, Fixed, order, Open, ReadFails, NotATivoDrive, BuildTable,
         NoRegionPanics, BadHeader, ReadHeader, Walk, CountInodes, CountOverflows
<1>2. QED BY <1>1 DEF Header, Region, MfsPartitions, Seen, InOrder, BlockAt

LEMMA PrefixStep == Types /\ PrefixOfMap /\ [Step]_vars => PrefixOfMap'
<1> SUFFICES ASSUME Types, PrefixOfMap, [Step]_vars PROVE PrefixOfMap'
  OBVIOUS
<1>1. image' = image /\ IsImage(image)
  BY ImageFixed DEF Types
<1>2. CASE ReadPartitionMap
  <2>1. PICK buffer \in Buffers : partitions' = LeadingEntries(buffer)
    BY <1>2 DEF ReadPartitionMap
  <2>2. QED BY <1>1, <2>1, MapRead DEF PrefixOfMap
<1>3. CASE ~ReadPartitionMap
  <2>1. partitions' = partitions
    BY <1>3, MapFixed DEF CheckByteOrder
  <2>2. QED BY <1>1, <2>1 DEF PrefixOfMap
<1>4. QED BY <1>2, <1>3

LEMMA VolumesOfEmpty == VolumesOf(<<>>) = <<>>
<1>1. <<>> \in Seq(MapBlock) /\ Len(<<>>) = 0
  OBVIOUS
<1>2. VolumesOf(<<>>) \in Seq(Volume) /\ Len(VolumesOf(<<>>)) = 0
  BY <1>1, VolumesTypes, MfsOfEmpty
<1>3. QED BY <1>2

LEMMA PartitionsAreBlocks ==
  ASSUME NEW s \in Seq(Partition)
  PROVE  s \in Seq(MapBlock)
<1>1. Partition \subseteq MapBlock
  BY DEF MapBlock
<1>2. QED BY <1>1, SeqMonotonic

(* The table of the partitions consumed so far. *)
Built == VolumesOf(SubSeq(partitions, 1, scanned))

LEMMA BuiltGrows ==
  ASSUME partitions \in Seq(Partition), scanned + 1 \in 1..Len(partitions), scanned \in Nat,
         scanned' = scanned + 1, partitions' = partitions
  PROVE  Built' = IF IsMfs(partitions[scanned + 1])
                  THEN Append(Built, VolumeAt(partitions[scanned + 1],
                                              IF Built = <<>> THEN 0
                                              ELSE EndOf(Built[Len(Built)])))
                  ELSE Built
<1> DEFINE s == SubSeq(partitions, 1, scanned)
           b == partitions[scanned + 1]
           end == IF Built = <<>> THEN 0 ELSE EndOf(Built[Len(Built)])
<1>1. (scanned + 1) - 1 = scanned
  OBVIOUS
<1>2. /\ s \in Seq(Partition) /\ b \in Partition
      /\ SubSeq(partitions, 1, scanned + 1) = Append(s, b)
  BY <1>1, OneMore
<1>3. s \in Seq(MapBlock) /\ b \in MapBlock
  BY <1>2, PartitionsAreBlocks DEF MapBlock
<1>4. Built = VolumesOf(s) /\ Built' = VolumesOf(Append(s, b))
  BY <1>2 DEF Built
<1> HIDE DEF s, b
<1>5. end = Sectors(MfsOf(s))
  BY <1>3, <1>4, VolumesEnd
<1> HIDE DEF end
<1>6. Built' = IF IsMfs(b) THEN Append(Built, VolumeAt(b, end)) ELSE Built
  BY <1>3, <1>4, <1>5, VolumesOfAppend DEF VolumeAt
<1>7. QED BY <1>6 DEF b, end

LEMMA TableOfMapStep == Types /\ TableOfMap /\ [Step]_vars => TableOfMap'
<1> SUFFICES ASSUME Types, TableOfMap, [Step]_vars PROVE TableOfMap'
  OBVIOUS
<1>1. /\ partitions \in Seq(Partition) /\ scanned \in 0..Len(partitions)
      /\ scanned \in Nat /\ Len(partitions) \in Nat
  BY DEF Types
<1>2. CASE PhaseStep \/ CheckByteOrder \/ ReadHeader \/ Walk
  <2>1. UNCHANGED <<partitions, table>>
        /\ \/ phase' = phase
           \/ phase \in {"open", "order"} /\ phase' \in {"order", "map"}
           \/ phase \in {"header", "walk", "count"} /\ phase' \in {"walk", "count", "loaded"}
           \/ phase' \in {"refused", "panicked"}
    BY <1>2, PhaseMoves DEF CheckByteOrder, ReadHeader, Walk, order, table
  <2>2. QED BY <2>1 DEF TableOfMap, table
<1>3. CASE ReadPartitionMap
  <2>1. PICK buffer \in Buffers :
          /\ phase = "map" /\ phase' \in {"refused", "table"}
          /\ partitions' = LeadingEntries(buffer) /\ UNCHANGED table
    BY <1>3 DEF ReadPartitionMap
  <2>2. partitions = <<>> /\ scanned = 0 /\ volumes = <<>> /\ ~wrapped
    BY <1>1, <2>1 DEF Types, TableOfMap
  <2>3. SubSeq(partitions', 1, 0) = <<>>
    OBVIOUS
  <2>4. QED BY <2>1, <2>2, <2>3, VolumesOfEmpty DEF TableOfMap, table
<1>4. CASE BuildTable
  <2>1. phase = "table"
    BY <1>4 DEF BuildTable
  <2>2. CASE Table!OverflowPanics \/ Table!FinishNew
    <3>1. /\ UNCHANGED <<partitions, scanned, volumes, wrapped>>
          /\ \/ phase' = "panicked"
             \/ phase' = "header" /\ scanned = Len(partitions)
             \/ phase' = phase
      BY <1>4, <2>2 DEF BuildTable, Table!OverflowPanics, Table!FinishNew,
                        Table!SkipPartition, Table!AddVolume, Table!WrapVolume, Table!Scanning
    <3>2. QED BY <2>1, <3>1 DEF TableOfMap
  <2>3. CASE ~(Table!OverflowPanics \/ Table!FinishNew)
    <3> DEFINE b == partitions[scanned + 1]
    <3>1. phase' = "table" /\ (Table!SkipPartition \/ Table!AddVolume \/ Table!WrapVolume)
      BY <1>4, <2>1, <2>3 DEF BuildTable
    <3>2. /\ scanned + 1 \in 1..Len(partitions) /\ scanned' = scanned + 1
          /\ partitions' = partitions
          /\ \/ ~IsMfs(b) /\ UNCHANGED <<volumes, wrapped>>
             \/ /\ IsMfs(b) /\ UNCHANGED wrapped
                /\ volumes' = Append(volumes, VolumeAt(b, TableEnd))
             \/ wrapped' = TRUE
      BY <1>1, <3>1, TableStep
    <3>3. Built' = IF IsMfs(b) THEN Append(Built, VolumeAt(b, IF Built = <<>> THEN 0
                                                             ELSE EndOf(Built[Len(Built)])))
                   ELSE Built
      BY <1>1, <3>2, BuiltGrows
    <3> HIDE DEF b
    <3>4. ~wrapped => volumes = Built
      BY DEF TableOfMap, Built
    <3>5. ~wrapped' => volumes' = Built'
      <4> SUFFICES ASSUME ~wrapped' PROVE volumes' = Built'
        OBVIOUS
      <4>1. wrapped' = wrapped
        BY <3>2
      <4>2. volumes = Built
        BY <3>4, <4>1
      <4>3. TableEnd = IF Built = <<>> THEN 0 ELSE EndOf(Built[Len(Built)])
        BY <4>2 DEF TableEnd
      <4>4. QED BY <3>2, <3>3, <4>2, <4>3
    <3>6. QED BY <3>1, <3>5 DEF TableOfMap, Built
  <2>4. QED BY <2>2, <2>3
<1>5. QED BY <1>2, <1>3, <1>4 DEF Step, PhaseStep

-----------------------------------------------------------------------------
(* A step of the load that is no step of the walk leaves the walk alone. *)
LEMMA WalkStutters ==
  ASSUME UNCHANGED <<Drive, zones>>
  PROVE  [Walked!Next]_(Walked!vars)
BY DEF Walked!vars, Walked!cursor, zones, cursor

(* from_iter starts at the first link of the list. *)
LEMMA WalkStarts ==
  ASSUME Types, Types', [Step]_vars, ReadHeader, HeadOfList'
  PROVE  Walked!AtLink' /\ walk_status' = "ok" /\ walk'.op = "none"
<1>1. /\ phase = "header" /\ UNCHANGED <<zonemap, walk_status, walk>>
      /\ next_zonemap_ptr' = Header.next_zonemap_sector
      /\ backup_next_zonemap_ptr' = Header.next_zonemap_backup_sector
  BY DEF ReadHeader
<1>2. Header' = Header /\ image' = image
  BY <1>1, MapFixed DEF CheckByteOrder, ReadPartitionMap
<1>3. zonemap' = <<>> /\ walk_status' = "ok" /\ walk'.op = "none"
  BY <1>1 DEF Types
<1>4. /\ image'.chain # <<>>
      /\ next_zonemap_ptr' = image'.chain[1].ptr
      /\ backup_next_zonemap_ptr' = image'.chain[1].backup
  BY <1>1, <1>2 DEF HeadOfList
<1>5. /\ Len(image'.chain) \in Nat /\ 0 < Len(image'.chain)
      /\ Drive'.chain = image'.chain /\ Len(zonemap') = 0
  <2>1. image'.chain \in Seq(Zones!Link)
    BY DEF Types, IsImage
  <2>2. QED BY <1>3, <1>4, <2>1 DEF Drive
<1>6. Walked!FollowsUpTo(0)' /\ Walked!CursorAfter(0)'
  BY <1>4, <1>5 DEF Walked!FollowsUpTo, Walked!CursorAfter
<1>7. Walked!AtLink'
  BY <1>5, <1>6 DEF Walked!AtLink, Walked!FollowsUpTo, Walked!CursorAfter
<1>8. QED BY <1>3, <1>7

LEMMA WalkOfListStep ==
  Types /\ OneConsumer /\ Types' /\ WalkOfList /\ [Step]_vars => WalkOfList'
<1> SUFFICES ASSUME Types, OneConsumer, Types', WalkOfList, [Step]_vars,
                    phase' \in {"walk", "count", "loaded"}, HeadOfList'
             PROVE  Walked!IInv'
  BY DEF WalkOfList
<1>1. CASE ReadHeader
  BY <1>1, WalkStarts
     DEF Walked!IInv, Walked!Position, Walked!MappedDriveNeverPanics, Types
<1>2. CASE ~ReadHeader
  <2>1. /\ phase \in {"walk", "count", "loaded"}
        /\ ~CheckByteOrder /\ ~ReadPartitionMap
        /\ [Walked!Next]_(Walked!vars)
    <3>1. CASE PhaseStep
      <4>1. UNCHANGED <<Drive, zones>> /\ phase \in {"walk", "count", "loaded"}
        BY <3>1, PhaseMoves
      <4>2. QED BY <4>1, WalkStutters DEF CheckByteOrder, ReadPartitionMap
    <3>2. CASE Walk
      BY <3>2, SameStep DEF Walk, CheckByteOrder, ReadPartitionMap
    <3>3. CASE CheckByteOrder \/ ReadPartitionMap \/ BuildTable
      BY <3>3 DEF CheckByteOrder, ReadPartitionMap, BuildTable
    <3>4. QED BY <1>2, <3>1, <3>2, <3>3 DEF Step, PhaseStep
  <2>2. Header' = Header /\ image' = image
    BY <2>1, MapFixed
  <2>3. HeadOfList
    BY <2>2 DEF HeadOfList
  <2>4. Walked!IInv
    BY <2>1, <2>3 DEF WalkOfList
  <2>5. QED BY <2>1, <2>4, Walked!StepKeeps, WordSizeAssumption
<1>3. QED BY <1>1, <1>2

LEMMA ShortInductive == Spec => []ShortInv
<1>1. Init => ShortInv
  <2> SUFFICES ASSUME Init PROVE ShortInv
    OBVIOUS
  <2>1. /\ IsImage(image) /\ phase = "open" /\ partitions = <<>> /\ scanned = 0
        /\ volumes = <<>> /\ ~wrapped /\ zonemap = <<>> /\ walk_status = "ok"
        /\ walk = [op |-> "none", ok |-> FALSE, first |-> 0, last |-> 0, value |-> 0]
        /\ overflow_checks \in BOOLEAN /\ is_byte_swapped = FALSE
        /\ next_zonemap_ptr = 0 /\ backup_next_zonemap_ptr = 0 /\ caller = "none"
    BY ImagesAssumption DEF Init
  <2>2. Walked!TypeOK
    <3>1. Walked!IsDrive(Drive)
      <4>1. volumes \in Seq(Volume)
        BY <2>1
      <4>2. QED BY <2>1, <4>1, DriveTyped, DriveIs
    <3>2. 0 \in 0..Len(zonemap) /\ zonemap \in Seq(Walked!Zone)
      BY <2>1
    <3>3. 0 \in 0..(WordSize - 1)
      BY WordSizeAssumption
    <3>4. walk \in [op : Walked!Callers \cup {"none"}, ok : BOOLEAN, first : Nat,
                    last : Nat, value : Nat]
      BY <2>1
    <3>5. QED BY <2>1, <3>1, <3>2, <3>3, <3>4 DEF Walked!TypeOK
  <2>3. Types
    <3>1. partitions \in Seq(Partition) /\ scanned \in 0..Len(partitions)
      BY <2>1
    <3>2. walk.op = "none" /\ is_byte_swapped \in BOOLEAN
      BY <2>1
    <3>3. QED BY <2>1, <2>2, <3>1, <3>2 DEF Types, Phases
  <2>4. PrefixOfMap
    <3>1. Len(image.map) \in Nat
      BY <2>1 DEF IsImage
    <3>2. QED BY <2>1, <3>1 DEF PrefixOfMap
  <2>5. TableOfMap
    <3>1. SubSeq(<<>>, 1, 0) = <<>>
      OBVIOUS
    <3>2. QED BY <2>1, <3>1, VolumesOfEmpty DEF TableOfMap
  <2>6. QED BY <2>1, <2>3, <2>4, <2>5 DEF ShortInv, OneConsumer, WalkOfList
<1>2. OneConsumer /\ LoadPanicJustified /\ ShortInv /\ [Step]_vars => ShortInv'
  BY TypesInductive, PanicStep, PrefixStep, TableOfMapStep, WalkOfListStep DEF ShortInv
<1>3. QED BY <1>1, <1>2, LoadPanicAlwaysJustified, PTL DEF Spec, ShortInv

(* FaultsOnlyShorten: whatever fails, what is loaded is a part of the drive
   that is there, in order and from its beginning: partitions, volumes at
   their own sector numbers, and zones. *)
THEOREM FaultsAlwaysOnlyShorten == Spec => []FaultsOnlyShorten
<1>1. ShortInv => FaultsOnlyShorten
  <2> SUFFICES ASSUME ShortInv, phase = "loaded", ~wrapped
               PROVE  /\ IsPrefix(partitions, image.map)
                      /\ IsPrefix(volumes, VolumesOf(image.map))
                      /\ Zones!Represents(Drive) /\ HeadOfList
                           => Zones!FollowsUpTo(Len(zonemap)) \/ Zones!EndsInPhantom
    BY DEF FaultsOnlyShorten, HeadOfList
  <2>1. /\ image.map \in Seq(MapBlock) /\ partitions \in Seq(Partition)
        /\ partitions \in Seq(MapBlock)
    BY PartitionsAreBlocks DEF ShortInv, Types, IsImage
  <2>2. /\ Len(partitions) \in 0..Len(image.map) /\ Len(image.map) \in Nat
        /\ \A i \in 1..Len(partitions) : partitions[i] = image.map[i]
    BY <2>1 DEF ShortInv, PrefixOfMap
  <2>3. IsPrefix(partitions, image.map)
    BY <2>1, <2>2, PrefixOf
  <2>4. partitions = SubSeq(image.map, 1, Len(partitions))
    <3> DEFINE s == SubSeq(image.map, 1, Len(partitions))
    <3>1. s \in Seq(MapBlock) /\ Len(s) = Len(partitions)
          /\ \A i \in 1..Len(partitions) : s[i] = image.map[i]
      BY <2>1, <2>2
    <3> HIDE DEF s
    <3>2. partitions = s
      BY <2>1, <2>2, <3>1, SeqEqual
    <3>3. QED BY <3>2 DEF s
  <2>5. volumes = VolumesOf(partitions)
    <3>1. scanned = Len(partitions) /\ SubSeq(partitions, 1, Len(partitions)) = partitions
      BY <2>1 DEF ShortInv, TableOfMap
    <3>2. QED BY <3>1 DEF ShortInv, TableOfMap
  <2>6. IsPrefix(MfsOf(partitions), MfsOf(image.map))
    <3>1. /\ Len(image.map) \in Len(partitions)..Len(image.map)
          /\ SubSeq(image.map, 1, Len(image.map)) = image.map
      BY <2>1, <2>2
    <3>2. IsPrefix(MfsOf(SubSeq(image.map, 1, Len(partitions))),
                   MfsOf(SubSeq(image.map, 1, Len(image.map))))
      BY <2>1, <2>2, <3>1, MfsOfPrefixes
    <3>3. QED BY <2>4, <3>1, <3>2
  <2>7. IsPrefix(volumes, VolumesOf(image.map))
    BY <2>1, <2>5, <2>6, VolumesOfPrefix
  <2>8. ASSUME Zones!Represents(Drive), HeadOfList
        PROVE  Zones!FollowsUpTo(Len(zonemap)) \/ Zones!EndsInPhantom
    <3>1. Walked!IInv /\ Walked!Represents(Drive)
      BY <2>8, SameDrives DEF ShortInv, WalkOfList
    <3>2. Walked!FollowsUpTo(Len(zonemap)) \/ Walked!EndsInPhantom
      BY <3>1 DEF Walked!IInv, Walked!Position, Walked!AtLink
    <3>3. QED BY <3>2, SameProgress
  <2>9. QED BY <2>3, <2>7, <2>8
<1>2. QED BY <1>1, ShortInductive, PTL

-----------------------------------------------------------------------------
(***************************************************************************)
(* The load of a sound drive.                                              *)
(***************************************************************************)

(* Its first MFS partition is there, and has the header of the list. *)
LEMMA SoundHeader ==
  ASSUME Types, Sound, partitions = image.map, is_byte_swapped = image.swapped
  PROVE  MfsPartitions # {} /\ Header.kind = "header" /\ HeadOfList
<1> DEFINE map == image.map
           vols == VolumesOf(map)
<1>1. map \in Seq(MapBlock) /\ map \in Seq(Partition) /\ WholeDrive.volumes = vols
  BY DEF Types, IsImage, WholeDrive
<1>2. /\ MfsOf(map) \in Seq(Partition) /\ vols \in Seq(Volume) /\ Len(vols) = Len(MfsOf(map))
      /\ \A k \in 1..Len(MfsOf(map)) : vols[k].disk_sector = MfsOf(map)[k].starting_sector
  <2> HIDE DEF map
  <2>1. /\ MfsOf(map) \in Seq(Partition)
        /\ VolumesOf(map) \in Seq(Volume)
        /\ Len(VolumesOf(map)) = Len(MfsOf(map))
        /\ \A k \in 1..Len(MfsOf(map)) :
             VolumesOf(map)[k] = [disk_sector  |-> MfsOf(map)[k].starting_sector,
                                  sector_start |-> Sectors(SubSeq(MfsOf(map), 1, k - 1)),
                                  sector_count |-> MfsOf(map)[k].sector_size]
    BY <1>1, VolumesTypes
  <2>2. ASSUME NEW k \in 1..Len(MfsOf(map))
        PROVE  VolumesOf(map)[k].disk_sector = MfsOf(map)[k].starting_sector
    <3> DEFINE e == [disk_sector  |-> MfsOf(map)[k].starting_sector,
                     sector_start |-> Sectors(SubSeq(MfsOf(map), 1, k - 1)),
                     sector_count |-> MfsOf(map)[k].sector_size]
    <3>1. e.disk_sector = MfsOf(map)[k].starting_sector
      OBVIOUS
    <3>2. VolumesOf(map)[k] = e
      BY <2>1
    <3> HIDE DEF e
    <3>3. QED BY <3>1, <3>2
  <2>3. QED BY <2>1, <2>2
<1>3. Len(vols) # 0
  <2>1. vols # <<>>
    BY <1>1 DEF Sound
  <2> HIDE DEF vols
  <2>2. QED BY <1>2, <2>1
<1>4. MfsPartitions = {i \in 1..Len(map) : IsMfs(map[i])}
  <2>1. \A i \in 1..Len(map) : map[i].kind = "partition"
    <3> SUFFICES ASSUME NEW i \in 1..Len(map) PROVE map[i].kind = "partition"
      OBVIOUS
    <3>1. map[i] \in Partition
      BY <1>1
    <3>2. QED BY <3>1 DEF Partition
  <2>2. DOMAIN partitions = 1..Len(map)
    BY <1>1
  <2>3. QED BY <2>1, <2>2 DEF MfsPartitions, IsMfs
<1> HIDE DEF map, vols
<1>5. MfsPartitions # {}
  <2> SUFFICES ASSUME MfsPartitions = {} PROVE FALSE
    OBVIOUS
  <2>1. \A k \in 1..Len(map) : ~IsMfs(map[k])
    BY <1>4
  <2>2. Len(map) \in 0..Len(map) /\ SubSeq(map, 1, Len(map)) = map
    BY <1>1
  <2>3. MfsOf(map) = <<>>
    BY <1>1, <2>1, <2>2, MfsOfNone
  <2>4. QED BY <1>2, <1>3, <2>3
<1>6. PICK i \in MfsPartitions : \A j \in MfsPartitions : i <= j
  <2>1. MfsPartitions \in SUBSET Nat
    BY <1>4
  <2>2. QED BY <1>5, <2>1, LeastNat
<1>7. Region = map[i]
  <2>1. \A j \in MfsPartitions : (\A l \in MfsPartitions : j <= l) => j = i
    BY <1>4, <1>6
  <2>2. (CHOOSE j \in MfsPartitions : \A l \in MfsPartitions : j <= l) = i
    BY <1>6, <2>1
  <2>3. QED BY <2>2 DEF Region, map
<1>8. MfsOf(map)[1] = map[i] /\ Len(MfsOf(map)) # 0
  <2>1. i \in 1..Len(map) /\ IsMfs(map[i])
    BY <1>4
  <2>2. \A k \in 1..(i - 1) : ~IsMfs(map[k])
    <3> SUFFICES ASSUME NEW k \in 1..(i - 1), IsMfs(map[k]) PROVE FALSE
      OBVIOUS
    <3>1. k \in 1..Len(map) /\ ~(i <= k)
      BY <1>1, <2>1
    <3>2. QED BY <1>4, <1>6, <3>1
  <2>3. QED BY <1>1, <2>1, <2>2, MfsOfFirst
<1>9. vols[1].disk_sector = Region.starting_sector
  <2>1. 1 \in 1..Len(MfsOf(map))
    BY <1>2, <1>8
  <2>2. QED BY <1>2, <1>7, <1>8, <2>1
<1>10. Header = BlockAt(WholeDrive.image, WholeDrive.volumes[1].disk_sector)
  BY <1>1, <1>9 DEF Header, WholeDrive
<1>11. QED BY <1>5, <1>10 DEF Sound, HeadOfList

(* Its table never overflows, and when it is complete it is the whole one. *)
LEMMA SoundTable ==
  ASSUME Types, TableOfMap, Sound, partitions = image.map, ~wrapped
  PROVE  /\ TableEnd < WordSize
         /\ phase \in {"header", "walk", "count", "loaded"} => volumes = VolumesOf(image.map)
<1> DEFINE map == image.map
           s == SubSeq(map, 1, scanned)
           vols == VolumesOf(map)
<1>1. /\ map \in Seq(MapBlock) /\ Len(map) \in Nat /\ WholeDrive.volumes = vols
      /\ scanned \in 0..Len(map) /\ s \in Seq(MapBlock) /\ SubSeq(map, 1, Len(map)) = map
  BY DEF Types, IsImage, WholeDrive
<1>2. volumes = VolumesOf(s)
  BY DEF TableOfMap
<1>3. vols # <<>> /\ EndOf(vols[Len(vols)]) < WordSize
  BY <1>1 DEF Sound, Last
<1> HIDE DEF s, map, vols
<1>4. TableEnd = Sectors(MfsOf(s)) /\ Sectors(MfsOf(s)) \in Nat
  BY <1>1, <1>2, VolumesEnd DEF TableEnd
<1>5. EndOf(vols[Len(vols)]) = Sectors(MfsOf(map)) /\ Sectors(MfsOf(map)) \in Nat
  BY <1>1, <1>3, VolumesEnd DEF vols
<1>6. Sectors(MfsOf(s)) <= Sectors(MfsOf(map))
  <2>1. Len(map) \in scanned..Len(map)
    BY <1>1
  <2>2. IsPrefix(MfsOf(SubSeq(map, 1, scanned)), MfsOf(SubSeq(map, 1, Len(map))))
    BY <1>1, <2>1, MfsOfPrefixes
  <2>3. QED BY <1>1, <2>2, VolumesOfPrefix DEF s
<1>7. TableEnd < WordSize
  BY <1>3, <1>4, <1>5, <1>6, WordSizeAssumption
<1>8. phase \in {"header", "walk", "count", "loaded"} => volumes = VolumesOf(map)
  BY <1>1, <1>2 DEF TableOfMap, s, map
<1>9. QED BY <1>7, <1>8 DEF map

LEMMA SoundIsSurvivable ==
  ASSUME Sound, volumes = VolumesOf(image.map), is_byte_swapped = image.swapped
  PROVE  Drive = WholeDrive /\ Walked!Survivable(Drive)
<1>1. Drive = WholeDrive
  BY DEF Drive, WholeDrive
<1>2. QED BY <1>1, SameDrives DEF Sound

(* The inodes of a list are a natural number. *)
LEMMA SizesType ==
  ASSUME NEW list \in Seq(Walked!Zone)
  PROVE  SizesOf(list) \in Nat
<1>1. SizesOf(list) = Walked!SizeSum(list)
  BY DEF SizesOf, Walked!SizeSum, FoldLeft, Walked!FoldLeft, MapThenFoldSet,
         Walked!MapThenFoldSet, Max, Walked!Max
<1>2. Walked!ZeroZone \in Walked!Zone
  BY DEF Walked!ZeroZone, Walked!Zone, Walked!ZoneType
<1>3. QED BY <1>1, <1>2, Walked!SumOfAppend, WordSizeAssumption

(* When the walk has ended, all of the list has been collected. *)
LEMMA SoundList ==
  ASSUME Types, Walked!IInv, Walked!SurvivesInv, ~image.failing, Drive = WholeDrive,
         Walked!Survivable(Drive), caller = "none", walk_status = "ok", walk.op = "from_iter"
  PROVE  zonemap = Zones!ListOf(WholeDrive)
<1>1. Drive.chain = image.chain /\ Drive.failing = FALSE
  BY DEF Drive, Types, IsImage
<1>2. Len(zonemap) = Len(image.chain) /\ Walked!FollowsUpTo(Len(zonemap))
  BY <1>1, Walked!SurvivesEnough, WordSizeAssumption DEF Walked!OneCopyIsEnough
<1>3. \A i \in 1..Len(zonemap) : zonemap[i] = image.chain[i].zone
  BY <1>1, <1>2 DEF Walked!FollowsUpTo
<1>4. zonemap \in Seq(Walked!Zone) /\ image.chain \in Seq(Zones!Link)
  BY DEF Types, Walked!TypeOK, IsImage
<1>5. zonemap = [i \in DOMAIN image.chain |-> image.chain[i].zone]
  <2>1. DOMAIN zonemap = 1..Len(zonemap) /\ DOMAIN image.chain = 1..Len(image.chain)
    BY <1>4
  <2>2. zonemap = [i \in 1..Len(zonemap) |-> zonemap[i]]
    BY <1>4
  <2>3. QED BY <1>2, <1>3, <2>1, <2>2
<1>6. WholeDrive.chain = image.chain
  BY DEF WholeDrive
<1>7. QED BY <1>5, <1>6 DEF Zones!ListOf

LEMMA SoundFixed == [Step]_vars => Sound' = Sound /\ image' = image
<1> SUFFICES ASSUME [Step]_vars PROVE Sound' = Sound /\ image' = image
  OBVIOUS
<1>1. image' = image
  BY ImageFixed
<1>2. VolumesOf(image.map)' = VolumesOf(image.map)
  BY <1>1
<1>3. Seen(image.swapped)' = Seen(image.swapped)
  BY <1>1 DEF Seen, InOrder
<1>4. WholeDrive' = WholeDrive
  BY <1>1, <1>2, <1>3 DEF WholeDrive
<1>5. /\ (LeadingEntries(image.map) = image.map)' = (LeadingEntries(image.map) = image.map)
      /\ SizesOf(Zones!ListOf(WholeDrive))' = SizesOf(Zones!ListOf(WholeDrive))
      /\ Zones!Survivable(WholeDrive)' = Zones!Survivable(WholeDrive)
  BY <1>1, <1>4
<1>6. QED BY <1>1, <1>4, <1>5 DEF Sound, BlockAt, EndOf, Last

(* What holds in the course of the walk goes on to hold. *)
LEMMA SoundGoesOn ==
  ASSUME ShortInv, [Step]_vars, phase \in {"walk", "count", "loaded"},
         HeadOfList, Walked!SurvivesInv, [Walked!Next]_(Walked!vars)
  PROVE  HeadOfList' /\ Walked!SurvivesInv'
<1>1. ~CheckByteOrder /\ ~ReadPartitionMap
  BY DEF CheckByteOrder, ReadPartitionMap
<1>2. HeadOfList'
  BY <1>1, MapFixed DEF HeadOfList
<1>3. Walked!IInv
  BY DEF ShortInv, WalkOfList
<1>4. QED BY <1>2, <1>3, Walked!SurvivesStep, WordSizeAssumption

(* Before the count all of the list has been collected. *)
LEMMA SoundCount ==
  ASSUME ShortInv, SoundLoad, ~image.failing, Sound, phase \in {"count", "loaded"}
  PROVE  /\ volumes = VolumesOf(image.map)
         /\ zonemap = Zones!ListOf(WholeDrive)
         /\ SizesOf(zonemap) \in Nat /\ SizesOf(zonemap) < WordSize
<1>1. /\ partitions = image.map /\ is_byte_swapped = image.swapped /\ ~wrapped
      /\ HeadOfList /\ Walked!SurvivesInv
      /\ caller = "none" /\ walk_status = "ok" /\ walk.op = "from_iter"
  BY DEF SoundLoad
<1>2. volumes = VolumesOf(image.map)
  BY <1>1, SoundTable DEF ShortInv
<1>3. Walked!IInv
  BY <1>1 DEF ShortInv, WalkOfList
<1>4. zonemap = Zones!ListOf(WholeDrive)
  BY <1>1, <1>2, <1>3, SoundIsSurvivable, SoundList DEF ShortInv
<1>5. SizesOf(zonemap) < WordSize
  BY <1>4 DEF Sound
<1>6. zonemap \in Seq(Walked!Zone)
  BY DEF ShortInv, Types, Walked!TypeOK
<1>7. QED BY <1>2, <1>4, <1>5, <1>6, SizesType

LEMMA SoundPhaseStep ==
  ASSUME ShortInv, SoundLoad, [Step]_vars, PhaseStep, ~image.failing, Sound
  PROVE  SoundLoad'
<1>1. /\ UNCHANGED <<image, is_byte_swapped, partitions, table, zones>> /\ UNCHANGED Drive
      /\ \/ phase' = phase
         \/ phase = "open" /\ phase' = "order"
         \/ phase = "count" /\ phase' = "loaded"
         \/ phase' \in {"refused", "panicked"}
  BY PhaseMoves
<1>2. ~ReadFails /\ ~NotATivoDrive
  BY DEF ReadFails, NotATivoDrive, Sound
<1>3. ~NoRegionPanics /\ ~BadHeader
  <2> SUFFICES ASSUME phase = "header", MfsPartitions = {} \/ Header.kind # "header"
               PROVE  FALSE
    BY DEF NoRegionPanics, BadHeader
  <2>1. partitions = image.map /\ is_byte_swapped = image.swapped
    BY DEF SoundLoad
  <2>2. QED BY <2>1, SoundHeader DEF ShortInv
<1>4. ~CountOverflows
  <2> SUFFICES ASSUME phase = "count", SizesOf(zonemap) >= WordSize PROVE FALSE
    BY DEF CountOverflows, InodeSizes
  <2>1. SizesOf(zonemap) \in Nat /\ SizesOf(zonemap) < WordSize
    BY SoundCount
  <2>2. QED BY <2>1, WordSizeAssumption
<1>5. /\ phase' \notin {"refused", "panicked"} \/ phase' = phase
      /\ inode_count' = inode_count \/ (phase = "count" /\ inode_count' = InodeSizes % WordSize)
      /\ phase' = "loaded" => phase = "loaded" \/ inode_count' = InodeSizes % WordSize
      /\ phase = "loaded" => inode_count' = inode_count
  BY <1>2, <1>3, <1>4 DEF PhaseStep, Open, CountInodes, vars
<1>6. phase \notin {"refused", "panicked"}
  BY DEF SoundLoad
<1>7. phase' = "loaded" => inode_count' = SizesOf(zonemap')
  <2> SUFFICES ASSUME phase' = "loaded" PROVE inode_count' = SizesOf(zonemap)
    BY <1>1 DEF zones
  <2>1. CASE phase = "loaded"
    BY <1>5, <2>1 DEF SoundLoad
  <2>2. CASE phase # "loaded"
    <3>1. phase = "count" /\ inode_count' = SizesOf(zonemap) % WordSize
      BY <1>1, <1>5, <2>2 DEF InodeSizes
    <3>2. SizesOf(zonemap) \in Nat /\ SizesOf(zonemap) < WordSize
      BY <3>1, SoundCount
    <3> DEFINE n == SizesOf(zonemap)
               w == WordSize
    <3>3. n \in Nat /\ n < w /\ w \in Nat /\ w > 0
      BY <3>2, WordSizeAssumption
    <3> HIDE DEF n, w
    <3>4. n % w = n
      BY <3>3
    <3>5. QED BY <3>1, <3>4 DEF n, w
  <2>3. QED BY <2>1, <2>2
<1>8. phase' \in {"walk", "count", "loaded"} => HeadOfList' /\ Walked!SurvivesInv'
  <2> SUFFICES ASSUME phase' \in {"walk", "count", "loaded"}
               PROVE  HeadOfList' /\ Walked!SurvivesInv'
    OBVIOUS
  <2>1. phase \in {"walk", "count", "loaded"}
    BY <1>1
  <2>2. HeadOfList /\ Walked!SurvivesInv
    BY <2>1 DEF SoundLoad
  <2>3. [Walked!Next]_(Walked!vars)
    BY <1>1, WalkStutters
  <2>4. QED BY <2>1, <2>2, <2>3, SoundGoesOn
<1>9. phase' \in {"count", "loaded"} =>
        caller' = "none" /\ walk_status' = "ok" /\ walk'.op = "from_iter"
  BY <1>1 DEF SoundLoad, zones
<1>10. QED
  BY <1>1, <1>5, <1>6, <1>7, <1>8, <1>9 DEF SoundLoad, table

LEMMA SoundTableStep ==
  ASSUME ShortInv, SoundLoad, BuildTable, ~image.failing, Sound
  PROVE  phase' \in {"table", "header"} /\ ~wrapped'
<1>1. phase = "table"
  BY DEF BuildTable
<1>2. partitions = image.map /\ ~wrapped
  BY <1>1 DEF SoundLoad
<1>3. TableEnd < WordSize /\ TableEnd \in Int
  <2>1. TableEnd < WordSize
    BY <1>2, SoundTable DEF ShortInv
  <2>2. image.map \in Seq(MapBlock) /\ scanned \in 0..Len(image.map)
    BY <1>2 DEF ShortInv, Types, IsImage
  <2>3. SubSeq(image.map, 1, scanned) \in Seq(MapBlock)
    BY <2>2
  <2>4. volumes = VolumesOf(SubSeq(image.map, 1, scanned))
    BY <1>2 DEF ShortInv, TableOfMap
  <2>5. TableEnd \in Nat
    BY <2>3, <2>4, VolumesEnd DEF TableEnd
  <2>6. QED BY <2>1, <2>5
<1>4. ~(TableEnd >= WordSize)
  BY <1>3, WordSizeAssumption
<1>5. Table!NextStart = TableEnd
  BY DEF Table!NextStart, TableEnd, Table!EndOf, EndOf
<1>6. ~Table!OverflowPanics /\ ~Table!WrapVolume
  BY <1>4, <1>5 DEF Table!OverflowPanics, Table!WrapVolume
<1>7. QED
  BY <1>1, <1>2, <1>6 DEF BuildTable, Table!SkipPartition, Table!AddVolume, Table!FinishNew

(* The walk of a sound drive meets no unmapped pointer. *)
LEMMA SoundWalkStep ==
  ASSUME ShortInv, SoundLoad, [Step]_vars, Walk, ~image.failing, Sound
  PROVE  SoundLoad'
<1>1. /\ phase = "walk" /\ Zones!Step /\ UNCHANGED <<order, table>>
      /\ phase' = IF walk_status' = "panicked" THEN "panicked"
                  ELSE IF caller' = "none" THEN "count" ELSE "walk"
  BY DEF Walk
<1>2. /\ partitions = image.map /\ is_byte_swapped = image.swapped /\ ~wrapped
      /\ HeadOfList /\ Walked!SurvivesInv
  BY <1>1 DEF SoundLoad
<1>3. Walked!IInv
  BY <1>1, <1>2 DEF ShortInv, WalkOfList
<1>4. Drive.failing = image.failing /\ Walked!Survivable(Drive)
  <2>1. volumes = VolumesOf(image.map)
    BY <1>1, <1>2, SoundTable DEF ShortInv
  <2>2. QED BY <1>2, <2>1, SoundIsSurvivable DEF Drive
<1>5. caller = "from_iter"
  BY <1>1 DEF ShortInv, OneConsumer
<1>6. /\ \/ caller' = "from_iter" /\ UNCHANGED walk
         \/ caller' = "none" /\ walk'.op = "from_iter"
      /\ \/ walk_status' = walk_status
         \/ ~Zones!Mapped /\ next_zonemap_ptr # 0
      /\ walk_status = "ok"
  BY <1>1, <1>5, WalkStep
<1>7. walk_status' = "ok"
  <2> SUFFICES ASSUME ~Zones!Mapped, next_zonemap_ptr # 0 PROVE FALSE
    BY <1>6
  <2>1. Walked!Reading
    BY <1>5, <1>6 DEF Walked!Reading
  <2>2. Walked!AtLink
    BY <1>2, <1>4 DEF Walked!SurvivesInv
  <2>3. Walked!Mapped
    BY <1>3, <1>4, <2>1, <2>2, Walked!SurvivableRead, WordSizeAssumption
  <2>4. QED
    BY <2>3 DEF Walked!Mapped, Zones!Mapped, Walked!Covering, Zones!Covering,
                Walked!Covers, Zones!Covers, Walked!EndOf, Zones!EndOf
<1>8. HeadOfList' /\ Walked!SurvivesInv'
  <2>1. [Walked!Next]_(Walked!vars)
    BY <1>1, SameStep
  <2>2. QED BY <1>1, <1>2, <2>1, SoundGoesOn
<1>9. \/ phase' = "walk"
      \/ phase' = "count" /\ caller' = "none" /\ walk'.op = "from_iter"
  BY <1>1, <1>6, <1>7
<1>10. UNCHANGED <<image, is_byte_swapped, partitions, wrapped>>
  BY <1>1, ImageFixed DEF order, table
<1>11. QED
  BY <1>2, <1>7, <1>8, <1>9, <1>10 DEF SoundLoad

LEMMA SoundLoadStep ==
  ShortInv /\ ShortInv' /\ SoundLoad /\ [Step]_vars => SoundLoad'
<1> SUFFICES ASSUME ShortInv, ShortInv', SoundLoad, [Step]_vars, ~image.failing, Sound
             PROVE  SoundLoad'
  BY SoundFixed DEF SoundLoad
<1>1. image' = image
  BY ImageFixed
<1>2. CASE PhaseStep
  BY <1>2, SoundPhaseStep
<1>3. CASE CheckByteOrder
  <2>1. /\ phase' = "map" /\ is_byte_swapped' = (image.magic = "9214")
        /\ UNCHANGED table
    BY <1>3 DEF CheckByteOrder
  <2>2. is_byte_swapped' = image.swapped
    BY <2>1 DEF Sound, ShortInv, Types, IsImage
  <2>3. QED BY <1>1, <2>1, <2>2 DEF SoundLoad, table
<1>4. CASE ReadPartitionMap
  <2>1. PICK buffer \in Buffers :
          /\ phase = "map" /\ partitions' = LeadingEntries(buffer)
          /\ phase' = IF LeadingEntries(buffer) = <<>> THEN "refused" ELSE "table"
          /\ UNCHANGED <<is_byte_swapped, table>>
    BY <1>4 DEF ReadPartitionMap
  <2>2. is_byte_swapped = image.swapped /\ ~wrapped
    BY <2>1 DEF SoundLoad
  <2>3. LeadingEntries(buffer) = image.map
    BY <2>2, MapRead DEF Sound, ShortInv, Types
  <2>4. image.map # <<>>
    BY VolumesOfEmpty DEF Sound, WholeDrive
  <2>5. phase' = "table" /\ partitions' = image.map
    BY <2>1, <2>3, <2>4
  <2>6. QED BY <1>1, <2>1, <2>2, <2>5 DEF SoundLoad, table
<1>5. CASE BuildTable
  <2>1. phase = "table" /\ UNCHANGED order
    BY <1>5 DEF BuildTable
  <2>2. phase' \in {"table", "header"} /\ ~wrapped'
    BY <1>5, SoundTableStep
  <2>3. QED BY <1>1, <2>1, <2>2 DEF SoundLoad, order
<1>6. CASE ReadHeader
  <2>1. /\ phase = "header" /\ phase' = "walk" /\ UNCHANGED <<order, table>>
    BY <1>6 DEF ReadHeader
  <2>2. partitions = image.map /\ is_byte_swapped = image.swapped /\ ~wrapped
    BY <2>1 DEF SoundLoad
  <2>3. HeadOfList
    BY <2>2, SoundHeader DEF ShortInv
  <2>4. HeadOfList'
    <3>1. ~CheckByteOrder /\ ~ReadPartitionMap
      BY <2>1 DEF CheckByteOrder, ReadPartitionMap
    <3>2. QED BY <2>3, <3>1, MapFixed DEF HeadOfList
  <2>5. Walked!AtLink' /\ walk'.op = "none"
    BY <1>6, <2>4, WalkStarts DEF ShortInv
  <2>6. Walked!SurvivesInv'
    BY <2>5 DEF Walked!SurvivesInv
  <2>7. QED BY <1>1, <2>1, <2>2, <2>4, <2>6 DEF SoundLoad, order, table
<1>7. CASE Walk
  BY <1>7, SoundWalkStep
<1>8. QED
  BY <1>2, <1>3, <1>4, <1>5, <1>6, <1>7 DEF Step, PhaseStep

(* SoundDriveLoads: while nothing fails, a drive with one good copy of every
   zone is loaded with all of its partitions, volumes, zones and inodes, in
   either byte order and whatever copies are damaged. *)
THEOREM SoundDriveAlwaysLoads == Spec => []SoundDriveLoads
<1>1. Init => SoundLoad
  BY DEF Init, SoundLoad
<1>2. ShortInv /\ SoundLoad => SoundDriveLoads
  <2> SUFFICES ASSUME ShortInv, SoundLoad, ~image.failing, Sound, phase \in Ended
               PROVE  /\ phase = "loaded"
                      /\ partitions = image.map
                      /\ volumes = VolumesOf(image.map)
                      /\ zonemap = Zones!ListOf(WholeDrive)
                      /\ inode_count = SizesOf(Zones!ListOf(WholeDrive))
    BY DEF SoundDriveLoads
  <2>1. phase = "loaded"
    BY DEF SoundLoad, Ended
  <2>2. partitions = image.map /\ inode_count = SizesOf(zonemap)
    BY <2>1 DEF SoundLoad
  <2>3. volumes = VolumesOf(image.map) /\ zonemap = Zones!ListOf(WholeDrive)
    BY <2>1, SoundCount
  <2>4. QED BY <2>1, <2>2, <2>3
<1>3. QED BY <1>1, <1>2, ShortInductive, SoundLoadStep, PTL DEF Spec
=============================================================================
