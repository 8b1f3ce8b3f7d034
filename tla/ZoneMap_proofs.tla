--------------------------- MODULE ZoneMap_proofs ---------------------------
(***************************************************************************)
(* Proofs about ZoneMap, for every set of drives, every word size, with or *)
(* without read faults.                                                    *)
(*                                                                         *)
(* The zones returned so far say where the cursor is: after n zones of the *)
(* list it holds the pointers of zone n + 1, after a phantom zone a null   *)
(* pointer.  Position is that statement; the order of the zones, the       *)
(* absence of panics and the refinement of ZoneStream all follow from it.  *)
(***************************************************************************)
EXTENDS ZoneMap, SectorMap_proofs

(* The cursor is at the link after the n-th. *)
CursorAfter(n) ==
  IF n < Len(drive.chain)
  THEN /\ next_zonemap_ptr = drive.chain[n + 1].ptr
       /\ backup_next_zonemap_ptr = drive.chain[n + 1].backup
  ELSE next_zonemap_ptr = 0

AtLink == FollowsUpTo(Len(yielded)) /\ CursorAfter(Len(yielded))

Position == Represents(drive) => AtLink \/ EndsInPhantom

(* The inductive invariant. *)
IInv ==
  /\ TypeOK
  /\ Position
  /\ MappedDriveNeverPanics

-----------------------------------------------------------------------------
(* Every block that parses yields a well-typed zone. *)
LEMMA ParsedZoneType ==
  ASSUME NEW d, IsDrive(d), NEW loc, Parses(BlockAt(d.image, loc))
  PROVE  ParseZone(BlockAt(d.image, loc)) \in Zone
<1> DEFINE b == BlockAt(d.image, loc)
<1>1. ZeroZone \in Zone
  BY DEF ZeroZone, Zone, ZoneType
<1>2. CASE b.kind = "zone"
  <2>1. CASE loc \in DOMAIN d.image.blocks
    <3>1. b = d.image.blocks[loc]
      BY <2>1 DEF BlockAt
    <3>2. QED BY <1>2, <2>1, <3>1 DEF IsDrive, ParseZone
  <2>2. CASE loc \notin DOMAIN d.image.blocks
    <3>1. b \in {JunkBlock, ZeroBlock}
      BY <2>2 DEF BlockAt
    <3>2. QED BY <1>2, <3>1 DEF JunkBlock, ZeroBlock
  <2>3. QED BY <2>1, <2>2
<1>3. CASE b.kind # "zone"
  BY <1>1, <1>3 DEF ParseZone
<1>4. QED BY <1>2, <1>3

(* A u32 sum stays a u32, whether it fits, is left alone or wraps. *)
LEMMA SumStaysWord ==
  ASSUME NEW w \in Nat \ {0}, NEW a \in 0..(w - 1), NEW b \in Nat, NEW r,
         r = a \/ (a + b < w /\ r = a + b) \/ r = (a + b) % w
  PROVE  r \in 0..(w - 1)
<1>1. CASE r = a
  BY <1>1
<1>2. CASE a + b < w /\ r = a + b
  BY <1>2
<1>3. CASE r = (a + b) % w
  BY <1>3
<1>4. QED BY <1>1, <1>2, <1>3

(* What one call of `next` that returns a zone does, whichever copy it read. *)
LEMMA DeliverTypes ==
  ASSUME TypeOK, Reading, NEW z \in Zone, Deliver(z)
  PROVE  TypeOK'
<1>1. /\ IsDrive(drive) /\ yielded \in Seq(Zone) /\ from \in 0..Len(yielded)
      /\ caller \in Callers /\ sum \in 0..(WordSize - 1)
      /\ UNCHANGED <<drive, from>>
  BY DEF TypeOK, Reading, Deliver
<1>2. yielded' = Append(yielded, z)
  BY DEF Deliver
<1>3. yielded' \in Seq(Zone) /\ from' \in 0..Len(yielded')
  BY <1>1, <1>2
<1>4. next_zonemap_ptr' \in Nat /\ backup_next_zonemap_ptr' \in Nat
  BY DEF Deliver, Advance, Zone
<1>5. Consume(z)
  BY DEF Deliver
<1>6. caller' \in Callers \cup {"none"} /\ status' \in {"ok", "panicked"}
  BY <1>1, <1>5 DEF Consume, TypeOK
<1>7. sum' \in 0..(WordSize - 1)
  <2>1. z.size \in Nat /\ WordSize \in Nat \ {0}
    BY WordSizeAssumption DEF Zone
  <2>2. \/ sum' = sum
        \/ sum + z.size < WordSize /\ sum' = sum + z.size
        \/ sum' = (sum + z.size) % WordSize
    BY <1>5 DEF Consume
  <2>3. sum \in 0..(WordSize - 1)
    BY <1>1
  <2>4. QED BY <2>1, <2>2, <2>3, SumStaysWord
<1>8. answer' \in [op : Callers \cup {"none"}, ok : BOOLEAN, first : Nat,
                   last : Nat, value : Nat]
  <2>1. CASE answer' = answer
    BY <2>1 DEF TypeOK
  <2>2. CASE answer' # answer
    <3>1. /\ Covering(drive.volumes, z.first_sector) # {}
          /\ answer' = [op    |-> "inode_iter",
                        ok    |-> TRUE,
                        first |-> from + 1,
                        last  |-> Len(yielded) + 1,
                        value |-> FindSectorVolume(drive.volumes, z.first_sector).disk_sector]
      BY <1>5, <2>2 DEF Consume
    <3>2. FindSectorVolume(drive.volumes, z.first_sector) \in Volume
      BY <1>1, <3>1, DiskLocationType DEF IsDrive, Zone
    <3>3. FindSectorVolume(drive.volumes, z.first_sector).disk_sector \in Nat
      BY <3>2 DEF Volume
    <3>4. from + 1 \in Nat /\ Len(yielded) + 1 \in Nat
      BY <1>1
    <3>5. QED BY <3>1, <3>3, <3>4 DEF Callers
  <2>3. QED BY <2>1, <2>2
<1>9. QED BY <1>1, <1>3, <1>4, <1>6, <1>7, <1>8 DEF TypeOK

LEMMA ReturnTypes ==
  ASSUME TypeOK, caller # "none", Return
  PROVE  TypeOK'
<1>1. /\ yielded \in Seq(Zone) /\ from \in 0..Len(yielded) /\ caller \in Callers
      /\ sum \in 0..(WordSize - 1) /\ Len(yielded) \in Nat
  BY DEF TypeOK
<1>2. PICK v \in Nat, ok \in BOOLEAN :
        answer' = [op |-> caller, ok |-> ok, first |-> from + 1,
                   last |-> Len(yielded), value |-> v]
  <2>1. sum \div 2 \in Nat
    BY <1>1, WordSizeAssumption
  <2>2. (IF caller = "inode_count" THEN sum \div 2 ELSE 0) \in Nat
    BY <2>1
  <2>3. QED BY <2>2 DEF Return
<1>3. answer' \in [op : Callers \cup {"none"}, ok : BOOLEAN, first : Nat,
                   last : Nat, value : Nat]
  BY <1>1, <1>2
<1>4. QED BY <1>3 DEF Return, TypeOK, cursor

(* Every step keeps the drive. *)
LEMMA DriveUnchanged == [Next]_vars => UNCHANGED drive
BY DEF Next, Step, Call, EndOfList, PointerPanics, Fault, ReadPrimary, ReadBackup,
       BothUnparsable, Return, Deliver, vars

(* Every step keeps the types. *)
LEMMA TypeInductive == TypeOK /\ [Next]_vars => TypeOK'
<1> SUFFICES ASSUME TypeOK, [Next]_vars PROVE TypeOK'
  OBVIOUS
<1>2. ASSUME NEW op \in Callers, Call(op) PROVE TypeOK'
  <2>1. Len(yielded) \in 0..Len(yielded) /\ 0 \in 0..(WordSize - 1)
    BY WordSizeAssumption DEF TypeOK
  <2>2. QED BY <1>2, <2>1 DEF Call, TypeOK, cursor
<1>3. CASE EndOfList \/ Fault \/ BothUnparsable
  BY <1>3, ReturnTypes DEF EndOfList, Fault, BothUnparsable, Reading
<1>4. CASE PointerPanics
  BY <1>4 DEF PointerPanics, TypeOK, cursor
<1>5. CASE ReadPrimary
  <2>1. ParseZone(Primary) \in Zone
    BY <1>5, ParsedZoneType DEF ReadPrimary, Primary, TypeOK
  <2>2. QED BY <1>5, <2>1, DeliverTypes DEF ReadPrimary
<1>6. CASE ReadBackup
  <2>1. ParseZone(Backup) \in Zone
    BY <1>6, ParsedZoneType DEF ReadBackup, Backup, TypeOK
  <2>2. QED BY <1>6, <2>1, DeliverTypes DEF ReadBackup
<1>7. CASE UNCHANGED vars
  BY <1>7 DEF vars, cursor, TypeOK
<1>8. QED
  BY <1>2, <1>3, <1>4, <1>5, <1>6, <1>7 DEF Next, Step

-----------------------------------------------------------------------------
(* A running read is never made after a phantom zone; it finds the zone the
   cursor stands at, or zeros. *)
LEMMA ReadAtLink ==
  ASSUME TypeOK, Position, Represents(drive), Reading, Mapped,
         NEW b \in {Primary, Backup}, Parses(b)
  PROVE  /\ AtLink
         /\ Len(yielded) < Len(drive.chain)
         /\ ParseZone(b) \in {drive.chain[Len(yielded) + 1].zone, ZeroZone}
<1> DEFINE n == Len(yielded)
           link == drive.chain[n + 1]
<1>1. /\ n \in Nat /\ drive.chain \in Seq(Link) /\ Len(drive.chain) \in Nat
      /\ DOMAIN drive.chain = 1..Len(drive.chain)
  BY DEF TypeOK, IsDrive
<1>2. AtLink
  BY DEF Position, Reading, EndsInPhantom
<1>3. n < Len(drive.chain)
  BY <1>1, <1>2 DEF AtLink, CursorAfter, FollowsUpTo, Reading
<1>4. n + 1 \in DOMAIN drive.chain
  BY <1>1, <1>3
<1>5. next_zonemap_ptr = link.ptr /\ backup_next_zonemap_ptr = link.backup
  BY <1>2, <1>3 DEF AtLink, CursorAfter
<1>6. Primary \in {Intact(link.zone), JunkBlock, ZeroBlock}
  BY <1>4, <1>5 DEF Represents, CopyOf, Primary, Mapped
<1>7. Backup \in {Intact(link.zone), JunkBlock, ZeroBlock}
  BY <1>4, <1>5 DEF Represents, CopyOf, Backup, Mapped
<1>8. b \in {Intact(link.zone), ZeroBlock}
  BY <1>6, <1>7 DEF Parses, JunkBlock
<1>9. ParseZone(b) \in {link.zone, ZeroZone}
  BY <1>8 DEF ParseZone, Intact, ZeroBlock
<1>10. QED BY <1>2, <1>3, <1>9

(* A zone returned is the last one of yielded. *)
LEMMA DeliverYields ==
  ASSUME TypeOK, NEW z \in Zone, Deliver(z)
  PROVE  /\ Len(yielded) \in Nat
         /\ Len(yielded') = Len(yielded) + 1
         /\ \A i \in 1..Len(yielded) : yielded'[i] = yielded[i]
         /\ yielded'[Len(yielded) + 1] = z
         /\ drive' = drive
<1>1. yielded \in Seq(Zone) /\ yielded' = Append(yielded, z) /\ drive' = drive
  BY DEF TypeOK, Deliver
<1>2. QED BY <1>1

(* Returning the zone at the cursor moves the cursor to the next link. *)
LEMMA DeliverLink ==
  ASSUME TypeOK, Linked(drive), AtLink, Len(yielded) < Len(drive.chain),
         NEW z \in Zone, z = drive.chain[Len(yielded) + 1].zone, Deliver(z)
  PROVE  AtLink'
<1> DEFINE n == Len(yielded)
           chain == drive.chain
<1>1. /\ n \in Nat /\ chain \in Seq(Link) /\ Len(chain) \in Nat
      /\ DOMAIN chain = 1..Len(chain) /\ yielded \in Seq(Zone)
  BY DEF TypeOK, IsDrive
<1>2. n + 1 \in 1..Len(chain) /\ n < Len(chain)
  BY <1>1
<1>3. /\ drive' = drive
      /\ Len(yielded') = n + 1
      /\ \A i \in 1..n : yielded'[i] = yielded[i]
      /\ yielded'[n + 1] = z
  BY DeliverYields
<1>4. \A i \in 1..n : yielded'[i] = chain[i].zone
  BY <1>3 DEF AtLink, FollowsUpTo
<1>5. next_zonemap_ptr' = z.next_zonemap_ptr
      /\ backup_next_zonemap_ptr' = z.backup_next_zonemap_ptr
  BY DEF Deliver, Advance
<1>6. \A i \in 1..(n + 1) : yielded'[i] = chain[i].zone
  BY <1>1, <1>3, <1>4
<1>7. FollowsUpTo(Len(yielded))'
  BY <1>2, <1>3, <1>6 DEF FollowsUpTo
<1>8. CASE n + 1 < Len(chain)
  <2>1. /\ next_zonemap_ptr' = chain[(n + 1) + 1].ptr
        /\ backup_next_zonemap_ptr' = chain[(n + 1) + 1].backup
    BY <1>1, <1>2, <1>5, <1>8 DEF Linked
  <2>2. CursorAfter(Len(yielded))'
    BY <1>3, <1>8, <2>1 DEF CursorAfter
  <2>3. QED BY <1>7, <2>2 DEF AtLink
<1>9. CASE n + 1 = Len(chain)
  <2>1. next_zonemap_ptr' = 0
    BY <1>1, <1>2, <1>5, <1>9 DEF Linked
  <2>2. ~(n + 1 < Len(chain))
    BY <1>1, <1>9
  <2>3. CursorAfter(Len(yielded))'
    BY <1>3, <2>1, <2>2 DEF CursorAfter
  <2>4. QED BY <1>7, <2>3 DEF AtLink
<1>10. QED BY <1>1, <1>2, <1>8, <1>9

(* So does returning what a read finds there, except that a phantom leaves a
   null pointer. *)
LEMMA DeliverPosition ==
  ASSUME TypeOK, Represents(drive), AtLink, Len(yielded) < Len(drive.chain),
         NEW z \in Zone, z \in {drive.chain[Len(yielded) + 1].zone, ZeroZone},
         Deliver(z)
  PROVE  AtLink' \/ EndsInPhantom'
<1> DEFINE n == Len(yielded)
           chain == drive.chain
<1>1. CASE z = chain[n + 1].zone
  BY <1>1, DeliverLink DEF Represents
<1>2. CASE z = ZeroZone
  <2>1. /\ n \in Nat /\ Len(chain) \in Nat /\ n + 1 \in 1..Len(chain)
    BY DEF TypeOK, IsDrive
  <2>2. /\ drive' = drive
        /\ Len(yielded') = n + 1
        /\ \A i \in 1..n : yielded'[i] = yielded[i]
        /\ yielded'[n + 1] = z
    BY DeliverYields
  <2>3. next_zonemap_ptr' = 0
    BY <1>2 DEF Deliver, Advance, ZeroZone
  <2>4. (n + 1) - 1 = n
    BY <2>1
  <2>5. FollowsUpTo(Len(yielded) - 1)'
    BY <2>1, <2>2, <2>4 DEF AtLink, FollowsUpTo
  <2>6. QED
    BY <1>2, <2>1, <2>2, <2>3, <2>5 DEF EndsInPhantom, ZeroZone
<1>3. QED BY <1>1, <1>2

(* What a read that returns a zone knows about it. *)
LEMMA ReadDelivers ==
  ASSUME IInv, ReadPrimary \/ ReadBackup
  PROVE  \E z \in Zone :
           /\ Deliver(z)
           /\ Represents(drive) =>
                /\ AtLink
                /\ Len(yielded) < Len(drive.chain)
                /\ z \in {drive.chain[Len(yielded) + 1].zone, ZeroZone}
<1>1. PICK b \in {Primary, Backup} : Parses(b) /\ Deliver(ParseZone(b))
  BY DEF ReadPrimary, ReadBackup
<1>2. IsDrive(drive) /\ TypeOK /\ Position /\ Reading /\ Mapped
  BY DEF IInv, TypeOK, ReadPrimary, ReadBackup
<1>3. ParseZone(b) \in Zone
  BY <1>1, <1>2, ParsedZoneType DEF Primary, Backup
<1>4. Represents(drive) =>
        /\ AtLink
        /\ Len(yielded) < Len(drive.chain)
        /\ ParseZone(b) \in {drive.chain[Len(yielded) + 1].zone, ZeroZone}
  BY <1>1, <1>2, ReadAtLink
<1>5. QED BY <1>1, <1>3, <1>4

(* Only a read that returns a zone moves the cursor or adds to yielded. *)
LEMMA OtherSteps ==
  ASSUME [Next]_vars, ~ReadPrimary, ~ReadBackup
  PROVE  UNCHANGED <<drive, next_zonemap_ptr, backup_next_zonemap_ptr, yielded>>
BY DEF Next, Step, Call, EndOfList, PointerPanics, Fault, BothUnparsable, Return, vars,
       cursor

LEMMA PositionInductive == IInv /\ [Next]_vars => Position'
<1> SUFFICES ASSUME IInv, [Next]_vars, Represents(drive)'
             PROVE  AtLink' \/ EndsInPhantom'
  BY DEF Position
<1>1. CASE ReadPrimary \/ ReadBackup
  <2>1. PICK z \in Zone :
           /\ Deliver(z)
           /\ Represents(drive) =>
                /\ AtLink
                /\ Len(yielded) < Len(drive.chain)
                /\ z \in {drive.chain[Len(yielded) + 1].zone, ZeroZone}
    BY <1>1, ReadDelivers
  <2>2. Represents(drive) /\ TypeOK
    BY <2>1 DEF Deliver, IInv
  <2>3. QED BY <2>1, <2>2, DeliverPosition
<1>2. CASE ~ReadPrimary /\ ~ReadBackup
  <2>1. UNCHANGED <<drive, next_zonemap_ptr, backup_next_zonemap_ptr, yielded>>
    BY <1>2, OtherSteps
  <2>2. Represents(drive)
    BY <2>1
  <2>3. AtLink \/ EndsInPhantom
    BY <2>2 DEF IInv, Position
  <2>4. QED
    BY <2>1, <2>3 DEF AtLink, FollowsUpTo, CursorAfter, EndsInPhantom
<1>3. QED BY <1>1, <1>2

(* While a consumer reads, the cursor stands at a link of the list. *)
LEMMA CursorMapped ==
  ASSUME IInv, Represents(drive), AllMapped(drive), Reading
  PROVE  Mapped
<1> DEFINE n == Len(yielded)
<1>1. /\ n \in Nat /\ drive.chain \in Seq(Link) /\ Len(drive.chain) \in Nat
      /\ DOMAIN drive.chain = 1..Len(drive.chain)
  BY DEF IInv, TypeOK, IsDrive
<1>2. AtLink
  BY DEF IInv, Position, Reading, EndsInPhantom
<1>3. n < Len(drive.chain)
  BY <1>1, <1>2 DEF AtLink, CursorAfter, FollowsUpTo, Reading
<1>4. n + 1 \in DOMAIN drive.chain
  BY <1>1, <1>3
<1>5. /\ next_zonemap_ptr = drive.chain[n + 1].ptr
      /\ backup_next_zonemap_ptr = drive.chain[n + 1].backup
  BY <1>2, <1>3 DEF AtLink, CursorAfter
<1>6. QED BY <1>4, <1>5 DEF AllMapped, Mapped

LEMMA PanicInductive == IInv /\ [Next]_vars => MappedDriveNeverPanics'
<1> SUFFICES ASSUME IInv, [Next]_vars, status' = "panicked", Represents(drive)',
                    AllMapped(drive)', (Covering(drive.volumes, 0) # {})'
             PROVE  (caller = "inode_count"
                       /\ sum + yielded[Len(yielded)].size >= WordSize)'
  BY DEF MappedDriveNeverPanics
<1>1. UNCHANGED drive
  BY DriveUnchanged
<1>2. Represents(drive) /\ AllMapped(drive) /\ Covering(drive.volumes, 0) # {}
  BY <1>1
<1>3. CASE ReadPrimary \/ ReadBackup
  <2>1. PICK z \in Zone :
           /\ Deliver(z)
           /\ Represents(drive) =>
                /\ AtLink
                /\ Len(yielded) < Len(drive.chain)
                /\ z \in {drive.chain[Len(yielded) + 1].zone, ZeroZone}
    BY <1>3, ReadDelivers
  <2>2. /\ Len(yielded) \in Nat /\ yielded \in Seq(Zone)
        /\ Len(yielded) + 1 \in DOMAIN drive.chain
    BY <1>2, <2>1 DEF IInv, TypeOK, IsDrive
  <2>3. Covering(drive.volumes, z.first_sector) # {}
    BY <1>2, <2>1, <2>2 DEF AllMapped, ZeroZone
  <2>4. status = "ok" /\ Consume(z)
    BY <1>3, <2>1 DEF ReadPrimary, ReadBackup, Reading, Deliver
  <2>5. /\ caller = "inode_count" /\ caller' = caller
        /\ sum + z.size >= WordSize /\ sum' = sum
    BY <2>3, <2>4 DEF Consume
  <2>6. yielded' = Append(yielded, z)
    BY <2>1 DEF Deliver
  <2>7. yielded'[Len(yielded')] = z
    BY <2>2, <2>6
  <2>8. QED BY <2>5, <2>7
<1>4. CASE PointerPanics
  BY <1>2, <1>4, CursorMapped DEF PointerPanics
<1>5. CASE UNCHANGED vars
  BY <1>2, <1>5 DEF IInv, MappedDriveNeverPanics, vars
<1>6. CASE EndOfList \/ Fault \/ BothUnparsable
  BY <1>6 DEF EndOfList, Fault, BothUnparsable, Reading, Return
<1>7. ASSUME NEW op \in Callers, Call(op) PROVE FALSE
  BY <1>7 DEF Call
<1>8. QED
  BY <1>3, <1>4, <1>5, <1>6, <1>7 DEF Next, Step

LEMMA InitEstablishes == Init => IInv
<1> SUFFICES ASSUME Init PROVE IInv
  OBVIOUS
<1>1. IsDrive(drive)
  BY DrivesAssumption DEF Init
<1>2. drive.chain \in Seq(Link) /\ Len(drive.chain) \in Nat
  BY <1>1 DEF IsDrive
<1>3. next_zonemap_ptr \in Nat /\ backup_next_zonemap_ptr \in Nat
  <2>1. CASE drive.chain = <<>>
    BY <2>1 DEF Init
  <2>2. CASE drive.chain # <<>>
    <3>1. drive.chain[1] \in Link
      BY <1>2, <2>2
    <3>2. QED BY <2>2, <3>1 DEF Init, Link
  <2>3. QED BY <2>1, <2>2
<1>4. yielded \in Seq(Zone) /\ from \in 0..Len(yielded) /\ Len(yielded) = 0
  BY DEF Init
<1>5. answer \in [op : Callers \cup {"none"}, ok : BOOLEAN, first : Nat,
                  last : Nat, value : Nat]
  BY DEF Init, NoAnswer
<1>6. TypeOK
  BY <1>1, <1>3, <1>4, <1>5, WordSizeAssumption DEF Init, TypeOK
<1>7. CursorAfter(0)
  <2>1. CASE drive.chain = <<>>
    BY <2>1 DEF Init, CursorAfter
  <2>2. CASE drive.chain # <<>>
    BY <1>2, <2>2 DEF Init, CursorAfter
  <2>3. QED BY <2>1, <2>2
<1>8. FollowsUpTo(0)
  BY <1>2 DEF FollowsUpTo
<1>9. Position
  BY <1>4, <1>7, <1>8 DEF Position, AtLink
<1>10. MappedDriveNeverPanics
  BY DEF Init, MappedDriveNeverPanics
<1>11. QED BY <1>1, <1>6, <1>9, <1>10 DEF IInv

LEMMA StepKeeps == IInv /\ [Next]_vars => IInv'
BY TypeInductive, PositionInductive, PanicInductive DEF IInv

LEMMA Inductive == Spec => []IInv
BY InitEstablishes, StepKeeps, PTL DEF Spec

-----------------------------------------------------------------------------
(* Every state of the walk is well typed: every zone returned was parsed
   from the image and inode_count's sum stays a u32. *)
THEOREM TypeCorrect == Spec => []TypeOK
<1>1. IInv => TypeOK
  BY DEF IInv
<1>2. QED BY Inductive, <1>1, PTL

(* The zones MFSZoneMap returns are a prefix of the list on the drive, with
   at most a phantom zone at the end, whatever the damage, the faults and
   the order of the consumers. *)
THEOREM AlwaysFollowsChain == Spec => []YieldedFollowsChain
<1>1. IInv => YieldedFollowsChain
  BY DEF IInv, Position, AtLink, YieldedFollowsChain
<1>2. QED BY Inductive, <1>1, PTL

(* A drive whose pointers all lie in its volumes panics the walk only by a
   u32 overflow in inode_count. *)
THEOREM NeverPanicsOnMappedDrive == Spec => []MappedDriveNeverPanics
<1>1. IInv => MappedDriveNeverPanics
  BY DEF IInv
<1>2. QED BY Inductive, <1>1, PTL

-----------------------------------------------------------------------------
(* The list seen by ZoneStream has the length and the zones of the chain. *)
LEMMA ListProperties ==
  ASSUME IsDrive(drive)
  PROVE  /\ Len(ListOf(drive)) = Len(drive.chain)
         /\ \A i \in 1..Len(drive.chain) : ListOf(drive)[i] = drive.chain[i].zone
<1>1. /\ drive.chain \in Seq(Link) /\ Len(drive.chain) \in Nat
      /\ DOMAIN drive.chain = 1..Len(drive.chain)
  BY DEF IsDrive
<1>2. ListOf(drive) \in [1..Len(drive.chain) -> Zone]
  <2>1. \A i \in 1..Len(drive.chain) : drive.chain[i].zone \in Zone
    <3>1. SUFFICES ASSUME NEW i \in 1..Len(drive.chain)
                   PROVE  drive.chain[i].zone \in Zone
      OBVIOUS
    <3>2. drive.chain[i] \in Link
      BY <1>1
    <3>3. QED BY <3>2 DEF Link
  <2>2. QED BY <1>1, <2>1 DEF ListOf
<1>3. QED BY <1>1, <1>2 DEF ListOf

(* A step that returns the zone at the cursor delivers it; every other step,
   one that returns a phantom zone included, delivers nothing. *)
LEMMA StepMaps ==
  ASSUME Represents(drive), IInv, [Next]_vars
  PROVE  [Stream!Deliver]_<<ListOf(drive), Genuine>>
<1>1. IsDrive(drive) /\ Represents(drive) /\ yielded \in Seq(Zone)
  BY DEF IInv, TypeOK
<1>2. CASE ~ReadPrimary /\ ~ReadBackup
  <2>1. UNCHANGED <<drive, yielded>>
    BY <1>2, OtherSteps
  <2>2. QED BY <2>1 DEF Genuine, FollowsUpTo, ListOf
<1>3. CASE ReadPrimary \/ ReadBackup
  <2> DEFINE n == Len(yielded)
  <2>1. PICK z \in Zone :
          /\ Deliver(z)
          /\ AtLink
          /\ n < Len(drive.chain)
          /\ z \in {drive.chain[n + 1].zone, ZeroZone}
    BY <1>1, <1>3, ReadDelivers
  <2>2. /\ n \in Nat /\ Len(drive.chain) \in Nat /\ n + 1 \in 1..Len(drive.chain)
    BY <1>1, <2>1 DEF IsDrive
  <2>3. drive' = drive /\ yielded' = Append(yielded, z)
    BY <2>1 DEF Deliver
  <2>4. /\ Len(yielded') = n + 1
        /\ \A i \in 1..n : yielded'[i] = yielded[i]
        /\ yielded'[n + 1] = z
    BY <1>1, <2>3
  <2>5. Genuine = yielded
    BY <2>1 DEF AtLink, Genuine
  <2>6. UNCHANGED ListOf(drive)
    BY <2>3 DEF ListOf
  <2>7. CASE z = drive.chain[n + 1].zone
    <3>1. \A i \in 1..(n + 1) : yielded'[i] = drive.chain[i].zone
      BY <2>1, <2>2, <2>4, <2>7 DEF AtLink, FollowsUpTo
    <3>2. FollowsUpTo(Len(yielded))'
      BY <2>2, <2>3, <2>4, <3>1 DEF FollowsUpTo
    <3>3. Genuine' = Append(Genuine, z)
      BY <2>3, <2>5, <3>2 DEF Genuine
    <3>4. z = ListOf(drive)[Len(Genuine) + 1] /\ Len(Genuine) < Len(ListOf(drive))
      BY <1>1, <2>1, <2>2, <2>5, <2>7, ListProperties
    <3>5. QED BY <2>6, <3>3, <3>4 DEF Stream!Deliver
  <2>8. CASE z # drive.chain[n + 1].zone
    <3>1. ~FollowsUpTo(Len(yielded))'
      BY <2>2, <2>3, <2>4, <2>8 DEF FollowsUpTo
    <3>2. Front(yielded') = yielded
      <4>1. Front(yielded') = SubSeq(yielded', 1, n)
        BY <2>2, <2>4 DEF Front
      <4>2. QED BY <1>1, <2>2, <2>3, <2>4, <4>1
    <3>3. Genuine' = Genuine
      BY <2>5, <3>1, <3>2 DEF Genuine
    <3>4. QED BY <2>6, <3>3
  <2>9. QED BY <2>7, <2>8
<1>4. QED BY <1>2, <1>3

(* MFSZoneMap implements ZoneStream: on drives whose copies are intact or
   recognisably damaged it delivers the zones of the list in order. *)
THEOREM Refinement ==
  ASSUME \A d \in Drives : Represents(d)
  PROVE  Spec => ImplementsStream
<1>1. Init => Stream!Init
  <2> SUFFICES ASSUME Init PROVE Stream!Init
    OBVIOUS
  <2>1. drive \in Drives /\ drive.chain \in Seq(Link) /\ yielded = <<>>
    BY DrivesAssumption DEF Init, IsDrive
  <2>2. FollowsUpTo(Len(yielded))
    BY <2>1 DEF FollowsUpTo
  <2>3. QED BY <2>1, <2>2 DEF Stream!Init, Genuine
<1>2. drive \in Drives /\ [Next]_vars => (drive \in Drives)'
  BY DriveUnchanged
<1>3. Init => drive \in Drives
  BY DEF Init
<1>4. drive \in Drives /\ IInv /\ [Next]_vars => [Stream!Deliver]_<<ListOf(drive), Genuine>>
  BY StepMaps
<1>5. QED BY Inductive, <1>1, <1>2, <1>3, <1>4, PTL DEF Spec, ImplementsStream, Stream!Spec

-----------------------------------------------------------------------------
(***************************************************************************)
(* One readable copy of each zone is enough.  On a drive that survives its *)
(* damage no read meets a phantom, so the cursor is at a link after every  *)
(* step; only the null pointer after the last one lets a consumer run to   *)
(* its end, and the cursor stays there.                                    *)
(***************************************************************************)
SurvivesInv ==
  ~drive.failing /\ Survivable(drive) =>
    /\ AtLink
    /\ answer.op \in {"from_iter", "inode_count"} => next_zonemap_ptr = 0

(* What a running consumer meets on such a drive. *)
LEMMA SurvivableRead ==
  ASSUME IInv, Survivable(drive), AtLink, Reading
  PROVE  LET zone == drive.chain[Len(yielded) + 1].zone
         IN  /\ Len(yielded) < Len(drive.chain)
             /\ Mapped
             /\ \/ Primary = Intact(zone)
                \/ Primary = JunkBlock /\ Backup = Intact(zone)
<1> DEFINE n == Len(yielded)
           link == drive.chain[n + 1]
<1>1. /\ n \in Nat /\ Len(drive.chain) \in Nat
      /\ DOMAIN drive.chain = 1..Len(drive.chain)
  BY DEF IInv, TypeOK, IsDrive
<1>2. n < Len(drive.chain)
  BY <1>1 DEF AtLink, CursorAfter, FollowsUpTo, Reading
<1>3. n + 1 \in DOMAIN drive.chain
  BY <1>1, <1>2
<1>4. next_zonemap_ptr = link.ptr /\ backup_next_zonemap_ptr = link.backup
  BY <1>2 DEF AtLink, CursorAfter
<1>5. \/ CopyOf(drive, link.ptr) = Intact(link.zone)
      \/ /\ CopyOf(drive, link.ptr) = JunkBlock
         /\ CopyOf(drive, link.backup) = Intact(link.zone)
  BY <1>3 DEF Survivable
<1>6. Primary = CopyOf(drive, link.ptr) /\ Backup = CopyOf(drive, link.backup)
  BY <1>4 DEF Primary, Backup, CopyOf
<1>7. Mapped
  BY CursorMapped DEF Survivable
<1>8. QED BY <1>2, <1>5, <1>6, <1>7

LEMMA SurvivesStep == IInv /\ SurvivesInv /\ [Next]_vars => SurvivesInv'
<1> SUFFICES ASSUME IInv, SurvivesInv, [Next]_vars,
                    ~drive'.failing, Survivable(drive)'
             PROVE  /\ AtLink'
                    /\ (answer.op \in {"from_iter", "inode_count"}
                          => next_zonemap_ptr = 0)'
  BY DEF SurvivesInv
<1> DEFINE zone == drive.chain[Len(yielded) + 1].zone
<1>1. UNCHANGED drive
  BY DriveUnchanged
<1>2. ~drive.failing /\ Survivable(drive) /\ AtLink
      /\ (answer.op \in {"from_iter", "inode_count"} => next_zonemap_ptr = 0)
  BY <1>1 DEF SurvivesInv
<1>3. Parses(Intact(zone)) /\ ParseZone(Intact(zone)) = zone /\ ~Parses(JunkBlock)
  BY DEF Parses, ParseZone, Intact, JunkBlock
<1>4. CASE ReadPrimary \/ ReadBackup
  <2>1. Reading
    BY <1>4 DEF ReadPrimary, ReadBackup
  <2>2. /\ Len(yielded) < Len(drive.chain)
        /\ \/ Primary = Intact(zone)
           \/ Primary = JunkBlock /\ Backup = Intact(zone)
    BY <1>2, <2>1, SurvivableRead
  <2>3. Deliver(zone)
    BY <1>3, <1>4, <2>2 DEF ReadPrimary, ReadBackup
  <2>4. zone \in Zone
    <3>1. Len(yielded) + 1 \in DOMAIN drive.chain /\ drive.chain \in Seq(Link)
      BY <2>2 DEF IInv, TypeOK, IsDrive
    <3>2. drive.chain[Len(yielded) + 1] \in Link
      BY <3>1
    <3>3. QED BY <3>2 DEF Link
  <2>5. AtLink'
    BY <1>2, <2>2, <2>3, <2>4, DeliverLink DEF IInv, Survivable, Represents
  <2>6. answer'.op \notin {"from_iter", "inode_count"}
    <3>1. answer.op \notin {"from_iter", "inode_count"}
      BY <1>2, <2>1 DEF Reading
    <3>2. answer' = answer \/ answer'.op = "inode_iter"
      BY <2>3 DEF Deliver, Consume
    <3>3. QED BY <3>1, <3>2
  <2>7. QED BY <2>5, <2>6
<1>5. CASE ~ReadPrimary /\ ~ReadBackup
  <2>1. UNCHANGED <<drive, next_zonemap_ptr, backup_next_zonemap_ptr, yielded>>
    BY <1>5, OtherSteps
  <2>2. AtLink'
    BY <1>2, <2>1 DEF AtLink, FollowsUpTo, CursorAfter
  <2>3. ~Fault
    BY <1>2 DEF Fault
  <2>4. ~BothUnparsable
    BY <1>2, <1>3, SurvivableRead DEF BothUnparsable
  <2>5. EndOfList \/ UNCHANGED answer
    BY <1>5, <2>3, <2>4 DEF Next, Step, Call, PointerPanics, vars
  <2>6. QED BY <1>2, <2>1, <2>2, <2>5 DEF EndOfList
<1>6. QED BY <1>4, <1>5

LEMMA SurvivesInductive == Spec => []SurvivesInv
<1>1. Init => SurvivesInv
  <2> SUFFICES ASSUME Init PROVE SurvivesInv
    OBVIOUS
  <2>1. drive.chain \in Seq(Link) /\ yielded = <<>> /\ answer.op = "none"
    BY DrivesAssumption DEF Init, IsDrive, NoAnswer
  <2>2. FollowsUpTo(0) /\ Len(yielded) = 0
    BY <2>1 DEF FollowsUpTo
  <2>3. CursorAfter(0)
    BY <2>1 DEF Init, CursorAfter
  <2>4. QED BY <2>1, <2>2, <2>3 DEF SurvivesInv, AtLink
<1>2. QED BY Inductive, SurvivesStep, <1>1, PTL DEF Spec

(* With a null pointer after it, the last zone returned ends the list. *)
LEMMA SurvivesEnough == IInv /\ SurvivesInv => OneCopyIsEnough
<1> SUFFICES ASSUME IInv, SurvivesInv, ~drive.failing, Survivable(drive),
                    answer.op \in {"from_iter", "inode_count"}
             PROVE  Len(yielded) = Len(drive.chain) /\ FollowsUpTo(Len(yielded))
  BY DEF OneCopyIsEnough
<1>1. AtLink /\ next_zonemap_ptr = 0
  BY DEF SurvivesInv
<1>2. /\ Len(yielded) \in Nat /\ Len(drive.chain) \in Nat
      /\ DOMAIN drive.chain = 1..Len(drive.chain)
  BY DEF IInv, TypeOK, IsDrive
<1>3. ASSUME Len(yielded) < Len(drive.chain) PROVE FALSE
  <2>1. next_zonemap_ptr = drive.chain[Len(yielded) + 1].ptr
    BY <1>1, <1>3 DEF AtLink, CursorAfter
  <2>2. Len(yielded) + 1 \in DOMAIN drive.chain
    BY <1>2, <1>3
  <2>3. QED BY <1>1, <2>1, <2>2 DEF Survivable, Represents, Linked
<1>4. QED BY <1>1, <1>2, <1>3 DEF AtLink, FollowsUpTo

(* On a drive that keeps one readable copy of each zone, a consumer that runs
   to its end without an I/O error has seen the whole list. *)
THEOREM OneCopyAlwaysEnough == Spec => []OneCopyIsEnough
BY Inductive, SurvivesInductive, SurvivesEnough, PTL

-----------------------------------------------------------------------------
(***************************************************************************)
(* Consumers that share the cursor split the list.  While inode_count runs *)
(* its sum is that of the INode zones returned since it was called, modulo *)
(* the word; while inode_iter runs none of them is an INode zone.          *)
(***************************************************************************)
InodeSize(z) == IF z.type = "INode" THEN z.size ELSE 0

(* The sum InodeSectors takes, of any sequence of zones. *)
SizeSum(s) ==
  FoldLeft(LAMBDA acc, z : acc + (IF z.type = "INode" THEN z.size ELSE 0), 0, s)

Adding(s) == [i \in 1..Len(s) |-> [a \in Nat |-> a + InodeSize(s[i])]]

LEMMA InodeSizeType ==
  ASSUME NEW s \in Seq(Zone), NEW i \in 1..Len(s)
  PROVE  InodeSize(s[i]) \in Nat
<1>1. s[i] \in Zone
  OBVIOUS
<1>2. QED BY <1>1 DEF InodeSize, Zone

(* The sum is a fold of natural numbers. *)
LEMMA SumIsFold ==
  ASSUME NEW s \in Seq(Zone)
  PROVE  \E g : Folded(g, Len(s), 0, Adding(s)) /\ SizeSum(s) = g[1..Len(s)]
<1> DEFINE n == Len(s)
           Eq(g) == g = [t \in SUBSET DOMAIN s |->
                           IF t = {} THEN 0
                           ELSE g[t \ {Top(t)}] + InodeSize(s[Top(t)])]
           G == CHOOSE g : Eq(g)
<1>1. n \in Nat /\ DOMAIN s = 1..n
  OBVIOUS
<1>2. \A i \in 1..n : \A a \in Nat :
        Adding(s)[i][a] = a + InodeSize(s[i]) /\ Adding(s)[i][a] \in Nat
  BY InodeSizeType DEF Adding
<1>3. SizeSum(s) = G[1..n]
  BY <1>1 DEF SizeSum, FoldLeft, MapThenFoldSet, Max, Top, InodeSize
<1>4. Eq(G)
  <2>1. PICK g : Folded(g, n, 0, Adding(s)) /\ \A t \in SUBSET (1..n) : g[t] \in Nat
    BY <1>1, <1>2, FoldInSet DEF Closed
  <2>2. ASSUME NEW t \in SUBSET (1..n), t # {}
        PROVE  Adding(s)[Top(t)][g[t \ {Top(t)}]]
                 = g[t \ {Top(t)}] + InodeSize(s[Top(t)])
    <3>1. Top(t) \in 1..n /\ t \ {Top(t)} \in SUBSET (1..n)
      BY <1>1, <2>2, TopIsLargest
    <3>2. QED BY <1>2, <2>1, <3>1
  <2>3. [t \in SUBSET (1..n) |->
           IF t = {} THEN 0 ELSE Adding(s)[Top(t)][g[t \ {Top(t)}]]]
        = [t \in SUBSET (1..n) |->
           IF t = {} THEN 0 ELSE g[t \ {Top(t)}] + InodeSize(s[Top(t)])]
    BY <2>2
  <2>4. Eq(g)
    BY <1>1, <2>1, <2>3 DEF Folded
  <2> HIDE DEF Eq
  <2>5. QED BY <2>4
<1> HIDE DEF G
<1>5. G[{}] = 0 /\ G = [t \in SUBSET (1..n) |-> G[t]]
  BY <1>1, <1>4
<1>6. ASSUME NEW t \in SUBSET (1..n), t # {}, G[t \ {Top(t)}] \in Nat
      PROVE  G[t] = Adding(s)[Top(t)][G[t \ {Top(t)}]]
  <2>1. Top(t) \in 1..n
    BY <1>1, <1>6, TopIsLargest
  <2>2. G[t] = G[t \ {Top(t)}] + InodeSize(s[Top(t)])
    BY <1>1, <1>4, <1>6
  <2>3. QED BY <1>2, <1>6, <2>1, <2>2
<1>7. Folded(G, n, 0, Adding(s))
  <2> DEFINE h == Adding(s)
             A == Nat
             base == 0
  <2>1. Closed(h, n, A)
    BY <1>2 DEF Closed
  <2>2. \A t \in SUBSET (1..n) :
          t # {} /\ G[t \ {Top(t)}] \in A => G[t] = h[Top(t)][G[t \ {Top(t)}]]
    BY <1>6
  <2>3. n \in Nat /\ base \in A /\ G[{}] = base /\ G = [t \in SUBSET (1..n) |-> G[t]]
    BY <1>1, <1>5
  <2> HIDE DEF h, n, A, base
  <2>4. Folded(G, n, base, h)
    BY <2>1, <2>2, <2>3, FoldTyped
  <2>5. QED BY <2>4 DEF h, base
<1>8. QED BY <1>3, <1>7

LEMMA SumOfEmpty == SizeSum(<<>>) = 0
<1>1. <<>> \in Seq(Zone) /\ Len(<<>>) = 0 /\ 1..0 = {}
  OBVIOUS
<1>2. PICK g : Folded(g, 0, 0, Adding(<<>>)) /\ SizeSum(<<>>) = g[{}]
  BY <1>1, SumIsFold
<1>3. QED BY <1>2, FoldStep

(* One zone more adds its size, if it is an INode zone. *)
LEMMA SumOfAppend ==
  ASSUME NEW s \in Seq(Zone), NEW z \in Zone
  PROVE  SizeSum(s) \in Nat /\ SizeSum(Append(s, z)) = SizeSum(s) + InodeSize(z)
<1> DEFINE n == Len(s)
           r == Append(s, z)
<1>1. /\ n \in Nat /\ r \in Seq(Zone) /\ Len(r) = n + 1
      /\ \A i \in 1..n : r[i] = s[i]
      /\ r[n + 1] = z
  OBVIOUS
<1> HIDE DEF r
<1>2. PICK g : Folded(g, n, 0, Adding(s)) /\ SizeSum(s) = g[1..n]
  BY SumIsFold
<1>3. PICK f : Folded(f, n + 1, 0, Adding(r)) /\ SizeSum(r) = f[1..(n + 1)]
  BY <1>1, SumIsFold
<1>4. \A i \in 1..n : \A a \in Nat :
        Adding(s)[i][a] \in Nat /\ Adding(r)[i][a] = Adding(s)[i][a]
  <2>1. SUFFICES ASSUME NEW i \in 1..n, NEW a \in Nat
                 PROVE  /\ Adding(s)[i][a] \in Nat
                        /\ Adding(r)[i][a] = Adding(s)[i][a]
    OBVIOUS
  <2>2. InodeSize(s[i]) \in Nat /\ r[i] = s[i] /\ i \in 1..Len(r)
    <3>1. InodeSize(s[i]) \in Nat
      BY InodeSizeType
    <3>2. QED BY <1>1, <3>1
  <2>3. Adding(s)[i][a] = a + InodeSize(s[i])
    BY DEF Adding
  <2>4. Adding(r)[i][a] = a + InodeSize(r[i])
    BY <2>2 DEF Adding
  <2>5. QED BY <2>2, <2>3, <2>4
<1>5. g[1..n] \in Nat /\ f[1..(n + 1)] = Adding(r)[n + 1][g[1..n]]
  <2> DEFINE h == Adding(s)
             j == Adding(r)
             A == Nat
             base == 0
  <2>1. base \in A /\ Folded(g, n, base, h) /\ Folded(f, n + 1, base, j)
    BY <1>2, <1>3
  <2>2. Closed(h, n, A) /\ SameSteps(h, j, n, A)
    BY <1>4 DEF Closed, SameSteps
  <2> HIDE DEF h, j, A, base
  <2>3. g[1..n] \in A /\ f[1..(n + 1)] = j[n + 1][g[1..n]]
    BY <1>1, <2>1, <2>2, FoldAppend
  <2>4. QED BY <2>3 DEF A, j
<1>6. n + 1 \in 1..(n + 1)
  BY <1>1
<1>7. Adding(r)[n + 1][g[1..n]] = g[1..n] + InodeSize(z)
  BY <1>1, <1>5, <1>6 DEF Adding
<1>8. QED BY <1>2, <1>3, <1>5, <1>7 DEF r

(* Division with remainder by a positive number. *)
LEMMA DivMod ==
  ASSUME NEW w \in Int, w > 0, NEW s \in Int
  PROVE  \E q \in Int, r \in 0..(w - 1) :
           q = s \div w /\ r = s % w /\ s = w * q + r
OBVIOUS

LEMMA RemainderUnique ==
  ASSUME NEW w \in Int, w > 0, NEW p \in Int, NEW q \in Int,
         NEW r \in 0..(w - 1), NEW t \in 0..(w - 1), w * p + r = w * q + t
  PROVE  r = t
<1>1. ~(p > q)
  OBVIOUS
<1>2. ~(q > p)
  OBVIOUS
<1>3. QED BY <1>1, <1>2

(* Multiples of the word do not change a remainder. *)
LEMMA RemainderShift ==
  ASSUME NEW w \in Int, w > 0, NEW a \in Int, NEW b \in Int, NEW q \in Int,
         a = b + w * q
  PROVE  a % w = b % w
<1> DEFINE c == a \div w
           d == b \div w
           x == a % w
           y == b % w
<1>1. /\ c \in Int /\ d \in Int /\ x \in 0..(w - 1) /\ y \in 0..(w - 1)
      /\ a = w * c + x /\ b = w * d + y
  BY DivMod
<1> HIDE DEF c, d, x, y
<1>2. w * c + x = w * (d + q) + y /\ d + q \in Int
  BY <1>1
<1>3. x = y
  BY <1>1, <1>2, RemainderUnique
<1>4. QED BY <1>3 DEF x, y

(* Wrapping a sum early or late is the same. *)
LEMMA WrapOnce ==
  ASSUME NEW w \in Int, w > 0, NEW s \in Int, NEW b \in Int
  PROVE  ((s % w) + b) % w = (s + b) % w
<1> DEFINE r == s % w
           q == s \div w
           a == s + b
           c == r + b
<1>1. q \in Int /\ r \in 0..(w - 1) /\ s = w * q + r
  BY DivMod
<1> HIDE DEF q, r
<1>2. a \in Int /\ c \in Int /\ a = c + w * q
  BY <1>1
<1> HIDE DEF a, c
<1>3. a % w = c % w
  BY <1>1, <1>2, RemainderShift
<1>4. QED BY <1>3 DEF r, a, c

(* What a running consumer has done since it was called. *)
RunInv ==
  /\ status = "panicked" => caller # "none"
  /\ caller = "inode_count" /\ status = "ok" =>
       sum = SizeSum(SubSeq(yielded, from + 1, Len(yielded))) % WordSize
  /\ caller = "inode_iter" /\ status = "ok" =>
       \A i \in (from + 1)..Len(yielded) : yielded[i].type # "INode"

CallsInv == RunInv /\ CallsSplitTheList

(* One call of `next` adds to the sum what the zone it returns adds to the
   sum of the zones. *)
LEMMA SumOfDelivered ==
  ASSUME TypeOK, NEW z \in Zone, Deliver(z)
  PROVE  LET old == SizeSum(SubSeq(yielded, from + 1, Len(yielded)))
         IN  /\ old \in Nat
             /\ SizeSum(SubSeq(yielded, from + 1, Len(yielded)))' = old + InodeSize(z)
<1> DEFINE n == Len(yielded)
           s == SubSeq(yielded, from + 1, n)
<1>1. yielded \in Seq(Zone) /\ n \in Nat /\ from \in 0..n
  BY DEF TypeOK
<1>2. yielded' = Append(yielded, z) /\ from' = from
  BY DEF Deliver
<1>3. s \in Seq(Zone) /\ SubSeq(yielded', from + 1, Len(yielded')) = Append(s, z)
  <2>1. yielded' \in Seq(Zone) /\ Len(yielded') = n + 1 /\ yielded'[n + 1] = z
        /\ \A i \in 1..n : yielded'[i] = yielded[i]
    BY <1>1, <1>2
  <2>2. s \in Seq(Zone) /\ Len(s) = n - from
        /\ \A i \in 1..(n - from) : s[i] = yielded[from + i]
    BY <1>1
  <2> DEFINE r == SubSeq(yielded', from + 1, n + 1)
  <2>3. r \in Seq(Zone) /\ Len(r) = n + 1 - from
        /\ \A i \in 1..(n + 1 - from) : r[i] = yielded'[from + i]
    BY <1>1, <2>1
  <2> HIDE DEF r, s
  <2>4. Append(s, z) \in Seq(Zone) /\ Len(Append(s, z)) = n + 1 - from
    BY <1>1, <2>2
  <2>5. \A i \in 1..(n + 1 - from) : Append(s, z)[i] = r[i]
    <3>1. SUFFICES ASSUME NEW i \in 1..(n + 1 - from)
                   PROVE  Append(s, z)[i] = r[i]
      OBVIOUS
    <3>2. CASE i = n + 1 - from
      <4>1. from + i = n + 1 /\ i = Len(s) + 1
        BY <1>1, <2>2, <3>2
      <4>2. Append(s, z)[i] = z
        BY <2>2, <4>1
      <4>3. QED BY <2>1, <2>3, <4>1, <4>2
    <3>3. CASE i # n + 1 - from
      <4>1. i \in 1..(n - from) /\ from + i \in 1..n /\ i \in 1..Len(s)
        BY <1>1, <2>2, <3>3
      <4>2. Append(s, z)[i] = s[i]
        BY <2>2, <4>1
      <4>3. QED BY <2>1, <2>2, <2>3, <4>1, <4>2
    <3>4. QED BY <3>2, <3>3
  <2>6. Append(s, z) = r
    BY <2>3, <2>4, <2>5
  <2>7. QED BY <2>1, <2>2, <2>6 DEF r
<1> HIDE DEF s
<1>4. SizeSum(s) \in Nat /\ SizeSum(Append(s, z)) = SizeSum(s) + InodeSize(z)
  BY <1>3, SumOfAppend
<1>5. SizeSum(SubSeq(yielded', from' + 1, Len(yielded'))) = SizeSum(Append(s, z))
  BY <1>2, <1>3
<1>6. QED BY <1>4, <1>5 DEF s

(* A consumer that returns answers for the zones since its call. *)
LEMMA ReturnSplits ==
  ASSUME TypeOK, RunInv, caller # "none", status = "ok", Return
  PROVE  CallsInv'
<1>1. /\ caller \in Callers /\ caller' = "none" /\ status' = "ok"
      /\ UNCHANGED <<yielded, from, sum>>
  BY DEF TypeOK, Return
<1>2. answer' = [op    |-> caller,
                ok    |-> caller # "inode_iter",
                first |-> from + 1,
                last  |-> Len(yielded),
                value |-> IF caller = "inode_count" THEN sum \div 2 ELSE 0]
  BY DEF Return
<1>3. RunInv'
  BY <1>1 DEF RunInv
<1>4. /\ answer'.op = caller /\ answer'.first = from + 1 /\ answer'.last = Len(yielded)
      /\ answer'.ok = (caller # "inode_iter")
  BY <1>2
<1>5. CASE caller = "inode_count"
  <2>1. answer'.value = sum \div 2
    BY <1>2, <1>5
  <2>2. sum = SizeSum(SubSeq(yielded, from + 1, Len(yielded))) % WordSize
    BY <1>5 DEF RunInv
  <2>3. InodeSectors(answer.first, answer.last)'
          = SizeSum(SubSeq(yielded, from + 1, Len(yielded)))
    <3>1. InodeSectors(answer.first, answer.last)'
            = SizeSum(SubSeq(yielded', answer'.first, answer'.last))
      BY DEF InodeSectors, SizeSum, FoldLeft, MapThenFoldSet
    <3>2. QED BY <1>1, <1>4, <3>1
  <2>4. CallsSplitTheList'
    BY <1>1, <1>4, <1>5, <2>1, <2>2, <2>3 DEF CallsSplitTheList
  <2>5. QED BY <1>3, <2>4 DEF CallsInv
<1>6. CASE caller = "inode_iter"
  <2>1. \A i \in (from + 1)..Len(yielded) : yielded[i].type # "INode"
    BY <1>6 DEF RunInv
  <2>2. CallsSplitTheList'
    BY <1>1, <1>4, <1>6, <2>1 DEF CallsSplitTheList
  <2>3. QED BY <1>3, <2>2 DEF CallsInv
<1>7. CASE caller = "from_iter"
  <2>1. CallsSplitTheList'
    BY <1>1, <1>4, <1>7 DEF CallsSplitTheList
  <2>2. QED BY <1>3, <2>1 DEF CallsInv
<1>8. QED BY <1>1, <1>5, <1>6, <1>7 DEF Callers

(* A zone returned is counted, passed over or found by the consumer. *)
LEMMA DeliverSplits ==
  ASSUME TypeOK, RunInv, Reading, NEW z \in Zone, Deliver(z)
  PROVE  CallsInv'
<1> DEFINE n == Len(yielded)
           old == SizeSum(SubSeq(yielded, from + 1, n))
<1>1. /\ caller \in Callers /\ status = "ok" /\ from' = from
      /\ n \in Nat /\ from \in 0..n /\ sum \in Nat
  BY DEF TypeOK, Reading, Deliver
<1>2. /\ Len(yielded') = n + 1
      /\ \A i \in 1..n : yielded'[i] = yielded[i]
      /\ yielded'[n + 1] = z
  BY DeliverYields
<1>3. Consume(z)
  BY DEF Deliver
<1>4. CASE caller' = "none"
  <2>1. /\ caller = "inode_iter" /\ z.type = "INode" /\ status' = status
        /\ answer'.op = "inode_iter" /\ answer'.ok
        /\ answer'.first = from + 1 /\ answer'.last = n + 1
    BY <1>1, <1>3, <1>4 DEF Consume, Callers
  <2>2. \A i \in (from + 1)..n : yielded[i].type # "INode"
    BY <1>1, <2>1 DEF RunInv
  <2>3. \A i \in (from + 1)..(n + 1) : yielded'[i].type = "INode" <=> i = n + 1
    <3>1. SUFFICES ASSUME NEW i \in (from + 1)..(n + 1)
                   PROVE  yielded'[i].type = "INode" <=> i = n + 1
      OBVIOUS
    <3>2. i = n + 1 \/ (i # n + 1 /\ i \in (from + 1)..n /\ i \in 1..n)
      BY <1>1
    <3>3. QED BY <1>2, <2>1, <2>2, <3>2
  <2>4. CallsSplitTheList'
    BY <1>1, <1>2, <2>1, <2>3 DEF CallsSplitTheList
  <2>5. RunInv'
    BY <1>1, <1>4, <2>1 DEF RunInv
  <2>6. QED BY <2>4, <2>5 DEF CallsInv
<1>5. CASE caller' # "none"
  <2>1. caller' = caller
    BY <1>3, <1>5 DEF Consume
  <2>2. ASSUME caller = "inode_count", status' = "ok"
        PROVE  sum' = SizeSum(SubSeq(yielded, from + 1, Len(yielded)))' % WordSize
    <3>1. /\ old \in Nat
          /\ SizeSum(SubSeq(yielded, from + 1, Len(yielded)))' = old + InodeSize(z)
      BY SumOfDelivered
    <3>2. sum = old % WordSize /\ InodeSize(z) \in Nat
      BY <1>1, <2>2 DEF RunInv, InodeSize, Zone
    <3>3. WordSize \in Int /\ WordSize > 0 /\ sum \in 0..(WordSize - 1)
      BY WordSizeAssumption DEF TypeOK
    <3>4. (sum + InodeSize(z)) % WordSize = (old + InodeSize(z)) % WordSize
      <4> DEFINE b == InodeSize(z)
      <4>1. old \in Int /\ b \in Int /\ sum = old % WordSize
        BY <3>1, <3>2
      <4> HIDE DEF old, b
      <4>2. ((old % WordSize) + b) % WordSize = (old + b) % WordSize
        BY <3>3, <4>1, WrapOnce
      <4>3. QED BY <4>1, <4>2 DEF b
    <3> HIDE DEF old
    <3>5. sum' = (sum + InodeSize(z)) % WordSize
      <4>1. \/ z.type # "INode" /\ sum' = sum
            \/ z.type = "INode" /\ sum + z.size < WordSize /\ sum' = sum + z.size
            \/ z.type = "INode" /\ sum' = (sum + z.size) % WordSize
        BY <1>3, <2>2 DEF Consume
      <4>2. \/ sum' = sum + InodeSize(z) /\ sum + InodeSize(z) < WordSize
            \/ sum' = (sum + InodeSize(z)) % WordSize
        BY <3>3, <4>1 DEF InodeSize
      <4>3. QED BY <3>2, <3>3, <4>2
    <3>6. QED BY <3>1, <3>4, <3>5
  <2>3. ASSUME caller = "inode_iter", status' = "ok"
        PROVE  \A i \in (from + 1)..(n + 1) : yielded'[i].type # "INode"
    <3>1. z.type # "INode"
      BY <1>3, <1>5, <2>3 DEF Consume
    <3>2. \A i \in (from + 1)..n : yielded[i].type # "INode"
      BY <1>1, <2>3 DEF RunInv
    <3>3. SUFFICES ASSUME NEW i \in (from + 1)..(n + 1)
                   PROVE  yielded'[i].type # "INode"
      OBVIOUS
    <3>4. i = n + 1 \/ (i \in (from + 1)..n /\ i \in 1..n)
      BY <1>1
    <3>5. QED BY <1>2, <3>1, <3>2, <3>4
  <2>4. RunInv'
    BY <1>1, <1>2, <1>5, <2>1, <2>2, <2>3 DEF RunInv
  <2>5. QED BY <1>5, <2>4 DEF CallsInv, CallsSplitTheList
<1>6. QED BY <1>4, <1>5

LEMMA CallsInductive == Spec => []CallsInv
<1>1. Init => CallsInv
  BY DEF Init, NoAnswer, CallsInv, RunInv, CallsSplitTheList
<1>2. IInv /\ CallsInv /\ [Next]_vars => CallsInv'
  <2> SUFFICES ASSUME IInv, CallsInv, [Next]_vars PROVE CallsInv'
    OBVIOUS
  <2>1. TypeOK /\ RunInv
    BY DEF IInv, CallsInv
  <2>2. ASSUME NEW op \in Callers, Call(op) PROVE CallsInv'
    <3>1. /\ caller' = op /\ op # "none" /\ from' = Len(yielded) /\ sum' = 0
          /\ yielded' = yielded
      BY <2>2 DEF Call, Callers
    <3>2. yielded \in Seq(Zone) /\ Len(yielded) \in Nat
      BY <2>1 DEF TypeOK
    <3>3. SubSeq(yielded', from' + 1, Len(yielded')) = <<>>
      BY <3>1, <3>2
    <3>4. 0 % WordSize = 0
      BY WordSizeAssumption
    <3>5. sum' = SizeSum(SubSeq(yielded, from + 1, Len(yielded)))' % WordSize
      BY <3>1, <3>3, <3>4, SumOfEmpty
    <3>6. (from' + 1)..Len(yielded') = {}
      BY <3>1, <3>2
    <3>7. RunInv'
      BY <3>1, <3>5, <3>6 DEF RunInv
    <3>8. QED BY <3>1, <3>7 DEF CallsInv, CallsSplitTheList
  <2>3. CASE EndOfList \/ Fault \/ BothUnparsable
    BY <2>1, <2>3, ReturnSplits DEF EndOfList, Fault, BothUnparsable, Reading
  <2>4. CASE PointerPanics
    BY <2>4 DEF PointerPanics, Reading, CallsInv, RunInv, CallsSplitTheList
  <2>5. CASE ReadPrimary \/ ReadBackup
    <3>1. PICK z \in Zone : Deliver(z)
      BY <2>5, ReadDelivers
    <3>2. QED BY <2>1, <2>5, <3>1, DeliverSplits DEF ReadPrimary, ReadBackup
  <2>6. CASE UNCHANGED vars
    <3>1. UNCHANGED <<caller, yielded, from, sum, answer, status>>
      BY <2>6 DEF vars
    <3>2. InodeSectors(answer.first, answer.last)' = InodeSectors(answer.first, answer.last)
      BY <3>1 DEF InodeSectors, FoldLeft, MapThenFoldSet
    <3>3. QED BY <3>1, <3>2 DEF CallsInv, RunInv, CallsSplitTheList
  <2>7. QED
    BY <2>2, <2>3, <2>4, <2>5, <2>6 DEF Next, Step
<1>3. QED BY Inductive, <1>1, <1>2, PTL DEF Spec

(* The consumers share the cursor: inode_count answers for exactly the zones
   returned since it was called, wrapped like a u32, and inode_iter for the
   first INode zone among them. *)
THEOREM CallsAlwaysSplit == Spec => []CallsSplitTheList
<1>1. CallsInv => CallsSplitTheList
  BY DEF CallsInv
<1>2. QED BY CallsInductive, <1>1, PTL
=============================================================================
