--------------------------- MODULE Contents_proofs ---------------------------
(***************************************************************************)
(* Theorems about what an inode holds: the entries of a directory, for     *)
(* every directory, every size of a sector and every reading of stray      *)
(* bytes, and the data of a file, for every inode, every sector longer     *)
(* than the text that stands for an unreadable one and every padding word. *)
(*                                                                         *)
(* Each of the three about directories rests on where the fold may stand   *)
(* in the bytes: at the offset of a stored entry, as long as no entry      *)
(* before it is too short; at that of the end, once all are taken; or, on  *)
(* a plain drive, at the first one, which it does not get past.            *)
(***************************************************************************)
EXTENDS Directory, FileData, SectorMap_proofs, SequenceTheorems

(* Types, and what is known before the first entry. *)
Base ==
  /\ IsDirectory(dir)
  /\ pc \in {"fetch", "offset", "entries", "done", "panicked"}
  /\ IsArea(area)
  /\ pos \in Nat
  /\ entries \in Seq(Header)
  /\ ok \in BOOLEAN
  /\ pc \in {"fetch", "offset"} => pos = 0 /\ entries = <<>>
  /\ pc = "entries" => pos >= OffsetSize
  /\ ok => pc = "done"

(* No entry before the i-th is too short for its header. *)
Whole(i) == \A j \in 1..(i - 1) : dir.stored[j].length >= HeaderSize

(* The fold is at the offset of one of the first i entries with all before
   it taken, or past them with all of them taken. *)
Along(i) ==
  \/ \E k \in 1..i : /\ pos = dir.offsets[k]
                     /\ \A m \in 1..(k - 1) : dir.offsets[m] \in starts
  \/ \A m \in 1..i : dir.offsets[m] \in starts

SkipInv ==
  /\ Base
  /\ (pos # 0 /\ ~area.exchanged /\ HoldsStored(dir, area)) =>
       \A i \in DOMAIN dir.offsets : Whole(i) => Along(i)

(* The fold has taken the first k - 1 entries and is where the k-th is, or
   the end. *)
Taken(k) ==
  /\ pos = dir.offsets[k]
  /\ pos <= area.size
  /\ Len(entries) = k - 1
  /\ \A j \in 1..(k - 1) : TakenAs(j)

ListInv ==
  /\ Base
  /\ Readable(dir) =>
       /\ pc \in {"offset", "entries"} =>
            area.size = Room(dir) /\ ~area.exchanged /\ HoldsStored(dir, area)
       /\ pc = "entries" => \E k \in DOMAIN dir.offsets : Taken(k)
  /\ LostOnlyToShortRead

(* A directory in a data block of a drive that is not byte-swapped. *)
Plain(d) ==
  /\ ~d.swapped /\ d.datablocks # <<>>
  /\ WellFormed(d) /\ InPlace(d)
  /\ Room(d) >= OffsetSize + HeaderSize
  /\ d.stored # <<>> => d.stored[1].length # 8

PlainInv ==
  /\ Base
  /\ Plain(dir) =>
       /\ pc \in {"offset", "entries"} => \E n \in SectorsRead(dir) : area = Fetch(dir, n)
       /\ pc = "entries" => pos = OffsetSize /\ entries = <<>>
  /\ PlainDriveLooksEmpty

-----------------------------------------------------------------------------
(* What a directory is made of. *)
LEMMA Parts ==
  ASSUME NEW d, IsDirectory(d)
  PROVE  /\ Len(d.stored) \in Nat /\ Len(d.offsets) = Len(d.stored) + 1
         /\ DOMAIN d.stored = 1..Len(d.stored)
         /\ DOMAIN d.offsets = 1..(Len(d.stored) + 1)
         /\ d.offsets[1] = OffsetSize
         /\ \A i \in 1..(Len(d.stored) + 1) : d.offsets[i] \in Nat
         /\ \A i \in 1..Len(d.stored) :
              /\ d.stored[i] \in Header /\ d.stored[i].length \in Nat
              /\ d.offsets[i + 1] = d.offsets[i] + d.stored[i].length
<1>1. d.stored \in Seq(Header) /\ d.offsets \in Seq(Nat) /\ d.offsets[1] = OffsetSize
  BY DEF IsDirectory
<1>2. /\ Len(d.stored) \in Nat /\ Len(d.offsets) = Len(d.stored) + 1
      /\ DOMAIN d.stored = 1..Len(d.stored)
      /\ \A i \in DOMAIN d.stored : d.offsets[i + 1] = d.offsets[i] + d.stored[i].length
  BY <1>1 DEF IsDirectory
<1>3. \A i \in 1..Len(d.stored) : d.stored[i] \in Header
  BY <1>1, <1>2
<1>4. \A h \in Header : h.length \in Nat
  BY ByteRangeAssumption DEF Header, Byte
<1>5. DOMAIN d.offsets = 1..(Len(d.stored) + 1)
  BY <1>1, <1>2
<1>6. \A i \in 1..(Len(d.stored) + 1) : d.offsets[i] \in Nat
  BY <1>1, <1>5, SMTT(30)
<1>7. QED BY <1>1, <1>2, <1>3, <1>4, <1>5, <1>6

(* Later entries are stored further back. *)
LEMMA OffsetsRise ==
  ASSUME NEW d, IsDirectory(d),
         NEW i \in DOMAIN d.offsets, NEW j \in DOMAIN d.offsets, i <= j
  PROVE  d.offsets[i] <= d.offsets[j]
<1> DEFINE n == Len(d.stored)
           off == d.offsets
           T == {k \in i..(n + 1) : ~ off[i] <= off[k]}
<1>1. /\ n \in Nat /\ i \in 1..(n + 1) /\ j \in i..(n + 1)
      /\ \A k \in 1..(n + 1) : off[k] \in Nat
      /\ \A k \in 1..n : off[k] <= off[k + 1]
  <2>1. /\ n \in Nat /\ DOMAIN d.offsets = 1..(n + 1)
        /\ \A k \in 1..(n + 1) : off[k] \in Nat
        /\ \A k \in 1..n : d.stored[k].length \in Nat
                          /\ off[k + 1] = off[k] + d.stored[k].length
    BY Parts
  <2> HIDE DEF n, off
  <2>3. ASSUME NEW k \in 1..n PROVE off[k] <= off[k + 1]
    <3>1. off[k] \in Nat /\ d.stored[k].length \in Nat
      BY <2>1
    <3>2. off[k + 1] = off[k] + d.stored[k].length
      BY <2>1
    <3>3. QED BY <3>1, <3>2
  <2>4. QED BY <2>1, <2>3 DEF off
<1> HIDE DEF n, off
<1>2. T = {}
  <2>1. SUFFICES ASSUME T # {} PROVE FALSE
    OBVIOUS
  <2>2. T \subseteq Nat
    BY <1>1
  <2>3. PICK k \in T : \A l \in T : k <= l
    BY <2>1, <2>2, LeastNat
  <2>4. k # i
    BY <1>1, <2>3
  <2>5. k - 1 \in i..(n + 1) /\ k - 1 \notin T
    BY <1>1, <2>3, <2>4
  <2>6. off[i] <= off[k - 1] /\ k - 1 \in 1..n /\ k = (k - 1) + 1
    BY <1>1, <2>3, <2>5
  <2>7. off[k - 1] <= off[k] /\ off[k] \in Nat /\ off[k - 1] \in Nat /\ off[i] \in Nat
    BY <1>1, <2>3, <2>6
  <2>8. QED BY <2>3, <2>6, <2>7
<1>3. QED BY <1>1, <1>2 DEF off

(* What h keeps of the header g at offset o when the bytes read may end in it. *)
CutOf(a, o, g, h) ==
  /\ h \in Header
  /\ h.length # 0 => h.length = g.length /\ h.fsid = g.fsid
  /\ h.length # 0 => h = g \/ (a.read < o + HeaderSize /\ h = [g EXCEPT !.type = 0])
  /\ o + HeaderSize <= a.read => h = g
  /\ a.read <= o => h.fsid = 0
  /\ o + 4 <= a.read => h.fsid = g.fsid
  /\ o + 5 <= a.read => h.length = g.length

(* A header less what was not read of it. *)
LEMMA CutHeader ==
  ASSUME NEW a, IsArea(a), NEW o \in Nat, NEW g \in Header
  PROVE  CutOf(a, o, g, AsRead(a, o, g))
<1> DEFINE h == AsRead(a, o, g)
<1>1. a.read \in Nat
  BY DEF IsArea
<1>2. 0 \in Byte
  BY ByteRangeAssumption DEF Byte
<1>3. g = [fsid |-> g.fsid, length |-> g.length, type |-> g.type]
      /\ g.fsid \in Nat /\ g.length \in Byte /\ g.type \in Byte
  BY DEF Header
<1>4. /\ h.fsid = IF o + 4 <= a.read THEN g.fsid ELSE 0
      /\ h.length = IF o + 5 <= a.read THEN g.length ELSE 0
      /\ h.type = IF o + HeaderSize <= a.read THEN g.type ELSE 0
      /\ h = [fsid |-> h.fsid, length |-> h.length, type |-> h.type]
  BY DEF AsRead
<1>5. h \in Header
  BY <1>2, <1>3, <1>4 DEF Header
<1> HIDE DEF h
<1>6. [g EXCEPT !.type = 0] = [fsid |-> g.fsid, length |-> g.length, type |-> 0]
  BY <1>3
<1>7. /\ h.length # 0 => h.length = g.length /\ h.fsid = g.fsid
      /\ o + HeaderSize <= a.read => h.length = g.length /\ h.fsid = g.fsid /\ h.type = g.type
      /\ ~(o + HeaderSize <= a.read) => h.type = 0 /\ a.read < o + HeaderSize
      /\ a.read <= o => h.fsid = 0
  BY <1>1, <1>4 DEF HeaderSize
<1>8. o + HeaderSize <= a.read => h = g
  BY <1>3, <1>4, <1>7
<1>9. h.length # 0 => h = g \/ (a.read < o + HeaderSize /\ h = [g EXCEPT !.type = 0])
  BY <1>4, <1>6, <1>7, <1>8
<1>10. o + 4 <= a.read => h.fsid = g.fsid
  BY <1>4
<1>11. o + 5 <= a.read => h.length = g.length
  BY <1>4
<1>12. CutOf(a, o, g, h)
  BY <1>5, <1>7, <1>8, <1>9, <1>10, <1>11 DEF CutOf
<1>13. QED BY <1>12 DEF h

(* Whatever is read at an offset is some header. *)
LEMMA SeenIsHeader ==
  ASSUME NEW a, IsArea(a), NEW o \in Nat, NEW h \in Seen(a, o)
  PROVE  h \in Header
<1>1. ZeroHeader \in Header
  BY ByteRangeAssumption DEF ZeroHeader, Header, Byte
<1>2. \A g \in Header : Exchange(g) \in Header
  BY DEF Exchange, Header
<1>3. o \in DOMAIN a.headers => a.headers[o] \in Header
  BY DEF IsArea
<1>4. \A g \in Header : AsRead(a, o, g) \in Header
  BY CutHeader DEF CutOf
<1>5. QED BY <1>1, <1>2, <1>3, <1>4, StraysAssumption DEF Seen

(* What the parser takes for the name is never negative, and right for an
   entry that is long enough. *)
LEMMA NameLengthFits ==
  ASSUME NEW h \in Header
  PROVE  /\ NameLength(h) \in Nat
         /\ h.length >= HeaderSize => NameLength(h) = h.length - HeaderSize
<1> DEFINE n == h.length - HeaderSize
           w == ByteRange
<1>1. w \in Int /\ w > 0 /\ h.length \in 0..(w - 1)
  BY ByteRangeAssumption DEF Header, Byte
<1>2. n \in Int /\ n < w /\ (h.length >= HeaderSize => n >= 0)
  BY <1>1 DEF HeaderSize
<1>3. NameLength(h) = n % w
  BY DEF NameLength
<1> HIDE DEF n, w
<1>4. n % w \in Nat
  BY <1>1, <1>2
<1>5. n >= 0 => n % w = n
  BY <1>1, <1>2
<1>6. QED BY <1>2, <1>3, <1>4, <1>5 DEF n

(* A data block is an area, also after a short read. *)
LEMMA FetchIsArea ==
  ASSUME NEW d, IsDirectory(d), d.datablocks # <<>>, NEW n \in SectorsRead(d)
  PROVE  /\ IsArea(Fetch(d, n))
         /\ Fetch(d, n).size = Room(d) /\ Fetch(d, n).exchanged = ~d.swapped
         /\ InPlace(d) => HoldsStored(d, Fetch(d, n))
<1>1. FirstBlock(d) \in [sector : Nat, count : Nat]
  <2> DEFINE B == [sector : Nat, count : Nat]
             s == d.datablocks
  <2>1. s \in Seq(B) /\ s # <<>>
    BY DEF IsDirectory
  <2> HIDE DEF B, s
  <2>2. s[1] \in B
    BY <2>1
  <2>3. QED BY <2>2 DEF FirstBlock, B, s
<1>2. FirstBlock(d).count \in Nat /\ BlockSize * FirstBlock(d).count \in Nat
  BY <1>1, BlockSizeAssumption
<1>3. BlockSize * n \in 0..(BlockSize * FirstBlock(d).count)
  <2> DEFINE c == FirstBlock(d).count
             b == BlockSize
  <2>1. c \in Nat /\ b \in Nat /\ n \in 0..c
    BY <1>2, BlockSizeAssumption DEF SectorsRead
  <2> HIDE DEF c, b
  <2>2. PICK k \in Nat : c = n + k
    <3>1. c - n \in Nat /\ c = n + (c - n)
      BY <2>1
    <3>2. QED BY <3>1
  <2>3. b * c = b * n + b * k /\ b * n \in Nat /\ b * k \in Nat
    BY <2>1, <2>2
  <2>4. b * n <= b * c /\ b * c \in Nat
    BY <2>3
  <2>5. QED BY <2>3, <2>4 DEF c, b
<1>4. Location(d) \in DOMAIN d.areas => IsArea(d.areas[Location(d)])
  BY DEF IsDirectory
<1>5. /\ DOMAIN HeadersAt(d, Location(d)) \subseteq Nat
      /\ \A o \in DOMAIN HeadersAt(d, Location(d)) : HeadersAt(d, Location(d))[o] \in Header
  BY <1>4 DEF IsArea, HeadersAt
<1>6. d.swapped \in BOOLEAN
  BY DEF IsDirectory
<1>7. IsArea(Fetch(d, n))
  BY <1>2, <1>3, <1>5, <1>6 DEF IsArea, Fetch
<1>8. InPlace(d) => HoldsStored(d, Fetch(d, n))
  BY DEF InPlace, HoldsStored, Fetch, HeadersAt
<1>9. QED BY <1>7, <1>8 DEF Fetch, Room

-----------------------------------------------------------------------------
LEMMA InitBase == Init => Base
<1> SUFFICES ASSUME Init PROVE Base
  OBVIOUS
<1>1. IsDirectory(dir)
  BY DirectoriesAssumption DEF Init
<1>2. IsArea(NoArea)
  BY DEF IsArea, NoArea
<1>3. IsArea(area)
  BY <1>2 DEF Init
<1>4. pos \in Nat /\ entries \in Seq(Header) /\ ~ok /\ pos = 0 /\ entries = <<>>
  BY DEF Init
<1>5. ok = FALSE /\ pc = "fetch"
  BY DEF Init
<1>6. QED BY <1>1, <1>3, <1>4, <1>5 DEF Base

(* An entry is taken from an offset that is there. *)
LEMMA EntryStep ==
  ASSUME Base, NEW h \in Seen(area, pos), ParseEntry(h)
  PROVE  /\ h \in Header
         /\ pos' = pos + HeaderSize + NameLength(h)
         /\ NameLength(h) \in Nat /\ pos' \in Nat /\ pos' > pos
         /\ pos' <= area.size
         /\ entries' \in Seq(Header) /\ Len(entries') = Len(entries) + 1
         /\ entries'[Len(entries) + 1] = h
         /\ \A j \in 1..Len(entries) : entries'[j] = entries[j]
<1>1. h \in Header /\ NameLength(h) \in Nat
  BY SeenIsHeader, NameLengthFits DEF Base
<1>2. /\ pos \in Nat /\ area.size \in Nat
      /\ pos' = pos + HeaderSize + NameLength(h)
      /\ area.size - pos - HeaderSize >= NameLength(h)
  BY DEF Base, IsArea, ParseEntry, Accepted, Rest
<1>3. /\ pos' \in Nat /\ pos' > pos /\ pos' <= area.size
  BY <1>1, <1>2 DEF HeaderSize
<1>4. entries \in Seq(Header) /\ entries' = Append(entries, h)
  BY DEF Base, ParseEntry
<1>5. /\ entries' \in Seq(Header) /\ Len(entries') = Len(entries) + 1
      /\ entries'[Len(entries) + 1] = h
      /\ \A j \in 1..Len(entries) : entries'[j] = entries[j]
  BY <1>1, <1>4
<1>6. QED BY <1>1, <1>2, <1>3, <1>5

LEMMA BaseStep == Base /\ [Next]_vars => Base'
<1> SUFFICES ASSUME Base, [Next]_vars PROVE Base'
  OBVIOUS
<1>1. IsDirectory(dir)'
  BY DEF Base, Next, vars, UseHeaderData, ReadFirstBlock, ReadFails, OffsetMissing,
         SkipOffset, FoldEntry, ParseEntry, LengthUnderflows, StopAtRefused, RunOut
<1>2. IsArea(area')
  <2>1. IsArea(area) /\ IsDirectory(dir)
    BY DEF Base
  <2>2. IsArea(dir.data)
    BY <2>1 DEF IsDirectory
  <2>3. dir.datablocks # <<>> => \A n \in SectorsRead(dir) : IsArea(Fetch(dir, n))
    BY <2>1, FetchIsArea
  <2>4. \/ area' = area
        \/ area' = dir.data
        \/ dir.datablocks # <<>> /\ \E n \in SectorsRead(dir) : area' = Fetch(dir, n)
    BY DEF Next, vars, UseHeaderData, ReadFirstBlock, ReadFails, OffsetMissing,
           SkipOffset, FoldEntry, ParseEntry, LengthUnderflows, StopAtRefused, RunOut
  <2>5. QED BY <2>1, <2>2, <2>3, <2>4
<1>3. CASE UseHeaderData \/ ReadFirstBlock
  BY <1>1, <1>2, <1>3 DEF Base, UseHeaderData, ReadFirstBlock
<1>4. CASE ReadFails \/ OffsetMissing \/ SkipOffset
  BY <1>1, <1>2, <1>4 DEF Base, ReadFails, OffsetMissing, SkipOffset, OffsetSize
<1>5. CASE FoldEntry
  <2>1. PICK h \in Seen(area, pos) : \/ ParseEntry(h)
                                    \/ LengthUnderflows(h)
                                    \/ StopAtRefused(h)
                                    \/ RunOut(h)
    BY <1>5 DEF FoldEntry
  <2>2. pc = "entries"
    BY <1>5 DEF FoldEntry
  <2>3. CASE ParseEntry(h)
    <3>1. /\ pos \in Nat /\ pos' \in Nat /\ pos' > pos /\ pos >= OffsetSize
          /\ entries' \in Seq(Header)
      BY <2>2, <2>3, EntryStep DEF Base
    <3>2. pos' >= OffsetSize
      BY <3>1 DEF OffsetSize
    <3>3. pc' = pc /\ ok' = ok
      BY <2>3 DEF ParseEntry
    <3>4. QED BY <1>1, <1>2, <2>2, <3>1, <3>2, <3>3 DEF Base
  <2>4. CASE LengthUnderflows(h) \/ StopAtRefused(h) \/ RunOut(h)
    <3>1. pos' = pos /\ entries' = entries /\ pc' \in {"done", "panicked"}
      BY <2>4 DEF LengthUnderflows, StopAtRefused, RunOut
    <3>2. ok' \in BOOLEAN /\ (ok' => pc' = "done")
      <4>1. ok = FALSE
        BY <2>2 DEF Base
      <4>2. ok' = ok \/ (ok' = TRUE /\ pc' = "done")
        BY <2>4 DEF LengthUnderflows, StopAtRefused, RunOut
      <4>3. QED BY <4>1, <4>2
    <3>3. pos \in Nat /\ entries \in Seq(Header)
      BY DEF Base
    <3>4. QED BY <1>1, <1>2, <3>1, <3>2, <3>3 DEF Base
  <2>5. QED BY <2>1, <2>3, <2>4
<1>6. CASE UNCHANGED vars
  BY <1>1, <1>2, <1>6 DEF Base, vars
<1>7. QED BY <1>3, <1>4, <1>5, <1>6 DEF Next

-----------------------------------------------------------------------------
(* The fold is along the stored entries at first. *)
LEMMA AlongAtOffset ==
  ASSUME Base, SkipOffset, NEW i \in DOMAIN dir.offsets
  PROVE  Along(i)'
<1>1. i \in 1..(Len(dir.stored) + 1) /\ dir.offsets[1] = OffsetSize /\ Len(dir.stored) \in Nat
  BY Parts DEF Base
<1>2. 1 \in 1..i
  BY <1>1
<1>3. pos' = dir'.offsets[1]
  BY <1>1 DEF SkipOffset
<1>4. QED BY <1>2, <1>3 DEF Along

(* Taking an entry leads to the next one, unless the entry is too short. *)
LEMMA AlongStep ==
  ASSUME Base, HoldsStored(dir, area), ~area.exchanged,
         NEW h \in Seen(area, pos), ParseEntry(h),
         NEW i \in DOMAIN dir.offsets, Whole(i), Along(i)
  PROVE  Along(i)'
<1> DEFINE n == Len(dir.stored)
           off == dir.offsets
<1>1. /\ n \in Nat /\ i \in 1..(n + 1)
      /\ DOMAIN dir.stored = 1..n
      /\ \A k \in 1..n : /\ dir.stored[k] \in Header /\ dir.stored[k].length \in Nat
                         /\ off[k + 1] = off[k] + dir.stored[k].length
      /\ \A k \in 1..(n + 1) : off[k] \in Nat
  BY Parts DEF Base
<1>2. /\ starts' = starts \cup {pos} /\ dir' = dir
      /\ pos' = pos + HeaderSize + NameLength(h)
  BY DEF ParseEntry
<1>3. CASE \A m \in 1..i : off[m] \in starts
  BY <1>2, <1>3 DEF Along
<1>4. ASSUME NEW k \in 1..i, pos = off[k], \A m \in 1..(k - 1) : off[m] \in starts
      PROVE  Along(i)'
  <2>1. \A m \in 1..k : off[m] \in starts'
    BY <1>1, <1>2, <1>4
  <2>2. CASE k = i
    BY <1>2, <2>1, <2>2 DEF Along
  <2>3. CASE k # i
    <3>1. k \in 1..n /\ k + 1 \in 1..i /\ k \in 1..(i - 1)
      BY <1>1, <2>3
    <3>2. area.headers[pos] = dir.stored[k] /\ pos \in DOMAIN area.headers
      BY <1>1, <1>4, <3>1 DEF HoldsStored
    <3>3. h = AsRead(area, pos, dir.stored[k])
      BY <3>2 DEF Seen
    <3>4. h \in Header /\ h.length >= HeaderSize /\ h.length \in Nat
          /\ off[k + 1] = off[k] + h.length /\ off[k] \in Nat
      <4>1. IsArea(area) /\ pos \in Nat /\ dir.stored[k] \in Header
        BY <1>1, <3>1 DEF Base
      <4>2. h \in Header /\ (h.length # 0 => h.length = dir.stored[k].length)
        <5>1. CutOf(area, pos, dir.stored[k], h)
          BY <3>3, <4>1, CutHeader
        <5>2. QED BY <5>1 DEF CutOf
      <4>3. h.length # 0
        BY DEF ParseEntry, Accepted, Named
      <4>4. dir.stored[k].length >= HeaderSize
        BY <1>1, <3>1 DEF Whole
      <4>5. QED BY <1>1, <3>1, <4>2, <4>3, <4>4, SMTT(30)
    <3>5. NameLength(h) = h.length - HeaderSize
      BY <3>4, NameLengthFits
    <3>6. pos' = off[k + 1]
      BY <1>2, <1>4, <3>4, <3>5 DEF HeaderSize
    <3>7. \A m \in 1..((k + 1) - 1) : off[m] \in starts'
      BY <1>1, <2>1
    <3>8. QED BY <1>2, <3>1, <3>6, <3>7 DEF Along
  <2>4. QED BY <2>2, <2>3
<1>5. QED BY <1>3, <1>4 DEF Along

LEMMA SkipInductive == SkipInv /\ [Next]_vars => SkipInv'
<1> SUFFICES ASSUME SkipInv, [Next]_vars PROVE SkipInv'
  OBVIOUS
<1>1. Base /\ Base'
  BY BaseStep DEF SkipInv
<1> DEFINE Held == pos # 0 /\ ~area.exchanged /\ HoldsStored(dir, area)
<1>2. SUFFICES ASSUME Held', NEW i \in (DOMAIN dir.offsets)', Whole(i)'
               PROVE  Along(i)'
  BY <1>1 DEF SkipInv
<1>3. CASE UseHeaderData \/ ReadFirstBlock
  BY <1>1, <1>2, <1>3 DEF Base, UseHeaderData, ReadFirstBlock
<1>4. CASE UNCHANGED <<dir, area, pos, starts>>
  BY <1>2, <1>4 DEF SkipInv, Along, Whole, HoldsStored
<1>5. CASE SkipOffset
  <2>1. i \in DOMAIN dir.offsets
    BY <1>5 DEF SkipOffset
  <2>2. QED BY <1>1, <1>5, <2>1, AlongAtOffset
<1>6. CASE FoldEntry
  <2>1. PICK h \in Seen(area, pos) : \/ ParseEntry(h)
                                    \/ LengthUnderflows(h)
                                    \/ StopAtRefused(h)
                                    \/ RunOut(h)
    BY <1>6 DEF FoldEntry
  <2>2. CASE ParseEntry(h)
    <3>1. dir' = dir /\ area' = area /\ pos # 0
      BY <1>1, <1>6, <2>2 DEF ParseEntry, Base, FoldEntry, OffsetSize
    <3>2. ~area.exchanged /\ HoldsStored(dir, area) /\ Whole(i)
      BY <1>2, <3>1 DEF Whole, HoldsStored
    <3>3. Along(i) /\ i \in DOMAIN dir.offsets
      BY <1>2, <3>1, <3>2 DEF SkipInv
    <3>4. QED BY <1>1, <2>2, <3>2, <3>3, AlongStep
  <2>3. CASE LengthUnderflows(h) \/ StopAtRefused(h) \/ RunOut(h)
    BY <1>4, <2>3 DEF LengthUnderflows, StopAtRefused, RunOut
  <2>4. QED BY <2>1, <2>2, <2>3
<1>7. CASE ReadFails \/ OffsetMissing \/ UNCHANGED vars
  BY <1>4, <1>7 DEF ReadFails, OffsetMissing, vars
<1>8. QED BY <1>3, <1>5, <1>6, <1>7 DEF Next

(* NothingSkipped: an entry before the position is one the fold took, or it
   is behind an entry too short for its header. *)
THEOREM NothingEverSkipped == Spec => []NothingSkipped
<1>1. Init => SkipInv
  BY InitBase DEF Init, SkipInv
<1>2. SkipInv => NothingSkipped
  <2> SUFFICES ASSUME SkipInv, ~area.exchanged, HoldsStored(dir, area),
                      NEW i \in DOMAIN dir.stored, dir.offsets[i] < pos,
                      ~ \E j \in 1..(i - 1) : dir.stored[j].length < HeaderSize
               PROVE  dir.offsets[i] \in starts
    BY DEF NothingSkipped
  <2>1. /\ IsDirectory(dir) /\ Len(dir.stored) \in Nat /\ i \in 1..Len(dir.stored)
        /\ DOMAIN dir.offsets = 1..(Len(dir.stored) + 1)
        /\ \A k \in 1..Len(dir.stored) : dir.stored[k].length \in Nat
    BY Parts DEF SkipInv, Base
  <2>2. i \in DOMAIN dir.offsets /\ dir.offsets[i] \in Nat /\ pos \in Nat
    BY <2>1, Parts, SMTT(30) DEF SkipInv, Base
  <2>3. Whole(i)
    BY <2>1 DEF Whole, HeaderSize
  <2>4. Along(i)
    BY <2>2, <2>3 DEF SkipInv
  <2>5. ASSUME NEW k \in 1..i, pos = dir.offsets[k] PROVE FALSE
    <3>1. k \in DOMAIN dir.offsets /\ k <= i
      BY <2>1
    <3>2. dir.offsets[k] <= dir.offsets[i]
      BY <2>1, <2>2, <3>1, OffsetsRise
    <3>3. QED BY <2>2, <2>5, <3>2
  <2>6. i \in 1..i
    BY <2>1
  <2>7. QED BY <2>4, <2>5, <2>6 DEF Along
<1>3. QED BY <1>1, <1>2, SkipInductive, PTL DEF Spec

-----------------------------------------------------------------------------
(* Behind the last of whole entries there are only zeros. *)
LEMMA ZerosAtEnd ==
  ASSUME NEW d, IsDirectory(d), WellFormed(d), NEW a, HoldsStored(d, a)
  PROVE  Seen(a, End(d)) = {ZeroHeader}
<1> DEFINE n == Len(d.stored)
           off == d.offsets
<1>1. /\ n \in Nat /\ DOMAIN d.stored = 1..n /\ DOMAIN off = 1..(n + 1)
      /\ Len(off) = n + 1
      /\ \A i \in 1..n : d.stored[i].length \in Nat /\ off[i + 1] = off[i] + d.stored[i].length
      /\ \A i \in 1..(n + 1) : off[i] \in Nat
  BY Parts
<1>2. End(d) = off[n + 1] /\ End(d) \in Nat
  BY <1>1 DEF End
<1>3. ASSUME NEW i \in 1..n
      PROVE  off[i] + d.stored[i].length <= End(d) /\ off[i] < End(d)
  <2>1. i + 1 \in DOMAIN off /\ n + 1 \in DOMAIN off /\ i + 1 <= n + 1 /\ i \in 1..(n + 1)
    BY <1>1
  <2>2. off[i + 1] <= off[n + 1]
    BY <2>1, OffsetsRise
  <2>3. off[i] \in Nat /\ off[i + 1] = off[i] + d.stored[i].length
    BY <1>1, <2>1
  <2>4. d.stored[i].length \in Nat /\ d.stored[i].length >= HeaderSize
    BY <1>1 DEF WellFormed
  <2>5. QED BY <1>2, <2>2, <2>3, <2>4, SMTT(30) DEF HeaderSize
<1>4. DOMAIN a.headers = {off[i] : i \in 1..n}
      /\ \A i \in 1..n : a.headers[off[i]] = d.stored[i]
  BY <1>1 DEF HoldsStored
<1>5. End(d) \notin DOMAIN a.headers
  BY <1>2, <1>3, <1>4, <1>1
<1>6. BehindEntries(a, End(d))
  <2>1. SUFFICES ASSUME NEW p \in DOMAIN a.headers
                 PROVE  p + a.headers[p].length <= End(d)
    BY DEF BehindEntries
  <2>2. PICK i \in 1..n : p = off[i]
    BY <1>4
  <2>3. QED BY <1>3, <1>4, <2>2
<1>7. QED BY <1>5, <1>6 DEF Seen

(* At a stored entry of a directory that can be read the fold takes it,
   finds that the bytes run out in it, or is where the read has ended. *)
LEMMA ListAtEntry ==
  ASSUME Base, pc = "entries", Readable(dir),
         area.size = Room(dir), ~area.exchanged, HoldsStored(dir, area),
         NEW k \in 1..Len(dir.stored), Taken(k),
         NEW h \in Seen(area, pos)
  PROVE  /\ ParseEntry(h) => Taken(k + 1)'
         /\ ~LengthUnderflows(h)
         /\ StopAtRefused(h) =>
              /\ area.read # area.size
              /\ \A i \in DOMAIN dir.stored :
                   dir.offsets[i + 1] <= area.read => i \in 1..(k - 1)
         /\ RunOut(h) /\ area.read = area.size => End(dir) > Room(dir)
<1> DEFINE n == Len(dir.stored)
           off == dir.offsets
           g == dir.stored[k]
<1>1. /\ IsDirectory(dir) /\ n \in Nat /\ DOMAIN dir.stored = 1..n
      /\ DOMAIN off = 1..(n + 1) /\ Len(off) = n + 1
      /\ off[k] \in Nat /\ off[k + 1] \in Nat /\ off[n + 1] \in Nat
      /\ g \in Header /\ g.length \in Nat
      /\ off[k + 1] = off[k] + g.length
      /\ \A i \in 1..(n + 1) : off[i] \in Nat
  <2>1. IsDirectory(dir)
    BY DEF Base
  <2>2. /\ n \in Nat /\ DOMAIN dir.stored = 1..n
        /\ DOMAIN off = 1..(n + 1) /\ Len(off) = n + 1
        /\ \A i \in 1..(n + 1) : off[i] \in Nat
        /\ \A i \in 1..n : /\ dir.stored[i] \in Header /\ dir.stored[i].length \in Nat
                           /\ off[i + 1] = off[i] + dir.stored[i].length
    BY <2>1, Parts
  <2>3. k \in 1..(n + 1) /\ k + 1 \in 1..(n + 1) /\ n + 1 \in 1..(n + 1)
    BY <2>2
  <2>4. QED BY <2>1, <2>2, <2>3
<1>2. pos = off[k] /\ pos \in DOMAIN area.headers /\ area.headers[pos] = g
  <2>1. pos = off[k] /\ k \in DOMAIN dir.stored
    BY <1>1 DEF Taken
  <2>2. off[k] \in DOMAIN area.headers /\ area.headers[off[k]] = g
    BY <2>1 DEF HoldsStored
  <2>3. QED BY <2>1, <2>2
<1>3. h = AsRead(area, pos, g)
  BY <1>2 DEF Seen
<1>4. g.fsid # 0 /\ g.length >= HeaderSize /\ g.type \in TypeBytes
  BY <1>1 DEF Readable, WellFormed
<1>5. /\ IsArea(area) /\ pos \in Nat /\ area.size \in Nat /\ area.read \in Nat
      /\ area.read <= area.size /\ off[k + 1] = pos + g.length
  BY <1>1, <1>2, SMTT(30) DEF Base, IsArea
<1>6. /\ h \in Header
      /\ h.length # 0 => h.length = g.length /\ h.fsid = g.fsid
      /\ h.length # 0 =>
           h = g \/ (area.read < pos + HeaderSize /\ h = [g EXCEPT !.type = 0])
      /\ pos + HeaderSize <= area.read => h = g
      /\ area.read <= pos => h.fsid = 0
      /\ pos + 4 <= area.read => h.fsid = g.fsid
      /\ pos + 5 <= area.read => h.length = g.length
  <2>1. CutOf(area, pos, g, AsRead(area, pos, g))
    BY <1>1, <1>5, CutHeader
  <2>2. QED BY <1>3, <2>1 DEF CutOf
<1>7. NameLength(h) \in Nat /\ (h.length # 0 => NameLength(h) = g.length - HeaderSize)
  BY <1>4, <1>6, NameLengthFits
<1> HIDE DEF g
<1>8. ASSUME ParseEntry(h) PROVE Taken(k + 1)'
  <2>1. /\ pos' = pos + HeaderSize + NameLength(h) /\ pos' <= area.size
        /\ Len(entries') = Len(entries) + 1
        /\ entries'[Len(entries) + 1] = h
        /\ \A j \in 1..Len(entries) : entries'[j] = entries[j]
    BY <1>8, EntryStep
  <2>2. dir' = dir /\ area' = area /\ h.length # 0 /\ h.fsid # 0
    BY <1>8 DEF ParseEntry, Accepted, Named
  <2>3. pos' = off[k + 1] /\ pos' >= pos + HeaderSize
    <3>1. NameLength(h) = g.length - HeaderSize
      BY <1>7, <2>2
    <3>2. QED BY <1>1, <1>4, <1>5, <2>1, <3>1, SMTT(30) DEF HeaderSize
  <2>4. Len(entries) = k - 1 /\ \A j \in 1..(k - 1) : TakenAs(j)
    BY DEF Taken
  <2>5. Len(entries') = (k + 1) - 1
    BY <1>1, <2>1, <2>4
  <2>6. ASSUME NEW j \in 1..((k + 1) - 1) PROVE TakenAs(j)'
    <3>1. CASE j = k
      <4>1. entries'[k] = h /\ k = Len(entries')
        BY <1>1, <2>1, <2>4, <2>5
      <4>2. h = g \/ (area.read < pos' /\ h = [g EXCEPT !.type = 0])
        <5>1. h = g \/ (area.read < pos + HeaderSize /\ h = [g EXCEPT !.type = 0])
          BY <1>6, <2>2
        <5>2. pos' >= pos + HeaderSize
          BY <2>3
        <5>3. pos' \in Nat
          <6>1. pos' = off[k + 1] /\ off[k + 1] \in Nat
            BY <1>1, <2>3
          <6>2. QED BY <6>1
        <5>4. pos + HeaderSize \in Nat /\ area.read \in Nat
          BY <1>5 DEF HeaderSize
        <5>5. area.read < pos + HeaderSize => area.read < pos'
          BY <5>2, <5>3, <5>4
        <5>6. QED BY <5>1, <5>5
      <4>3. dir'.stored[k] = g /\ area'.read = area.read
        BY <2>2 DEF g
      <4>4. QED BY <3>1, <4>1, <4>2, <4>3 DEF TakenAs
    <3>2. CASE j # k
      <4>1. j \in 1..(k - 1) /\ entries'[j] = entries[j]
        BY <2>1, <2>4, <3>2
      <4>2. TakenAs(j) /\ ~(area.read < pos)
        BY <1>5, <1>6, <2>2, <2>4, <4>1
      <4>3. entries[j] = dir.stored[j]
        BY <4>2 DEF TakenAs
      <4>4. QED BY <2>2, <4>1, <4>3 DEF TakenAs
    <3>3. QED BY <3>1, <3>2
  <2>7. QED BY <2>1, <2>2, <2>3, <2>5, <2>6 DEF Taken
<1>9. ~LengthUnderflows(h)
  <2>1. ~(h.length # 0 /\ h.length < HeaderSize)
    BY <1>1, <1>4, <1>6 DEF HeaderSize, g
  <2>2. QED BY <2>1 DEF LengthUnderflows, Named
<1>10. ASSUME StopAtRefused(h)
       PROVE  area.read < pos + HeaderSize /\ area.read # area.size
  <2>1. Refused(h, Rest) /\ Rest = area.size - pos
    BY <1>10 DEF StopAtRefused, Rest
  <2>2. area.read < pos + HeaderSize
    <3>1. SUFFICES ASSUME ~(area.read < pos + HeaderSize) PROVE FALSE
      OBVIOUS
    <3>2. h = g
      BY <1>5, <1>6, <3>1 DEF HeaderSize
    <3>3. ~Refused(h, Rest)
      <4>1. h.fsid # 0 /\ h.length >= HeaderSize /\ h.type \in TypeBytes
        BY <1>4, <3>2
      <4>2. h.length # 0
        BY <4>1 DEF HeaderSize
      <4>3. QED BY <4>1, <4>2 DEF Refused
    <3>4. QED BY <2>1, <3>3
  <2>3. area.read # area.size
    <3>1. SUFFICES ASSUME area.read = area.size PROVE FALSE
      OBVIOUS
    <3>2. Rest < HeaderSize
      BY <1>5, <2>1, <2>2, <3>1 DEF HeaderSize
    <3>3. Rest >= 4 => h.fsid = g.fsid
      BY <1>5, <1>6, <2>1, <3>1
    <3>4. Rest >= 5 => h.length = g.length
      BY <1>5, <1>6, <2>1, <3>1
    <3>5. g.length # 0
      BY <1>1, <1>4 DEF HeaderSize, g
    <3>6. Rest \in Int
      BY <1>5, <2>1
    <3>7. QED BY <1>4, <2>1, <3>2, <3>3, <3>4, <3>5, <3>6 DEF Refused, HeaderSize
  <2>4. QED BY <2>2, <2>3
<1>11. ASSUME StopAtRefused(h), NEW i \in DOMAIN dir.stored, off[i + 1] <= area.read
       PROVE  i \in 1..(k - 1)
  <2>1. area.read < off[k + 1]
    <3>1. area.read < pos + HeaderSize
      BY <1>10, <1>11
    <3>2. g.length \in Nat /\ g.length >= HeaderSize
      BY <1>1, <1>4 DEF g
    <3>3. QED BY <1>5, <3>1, <3>2 DEF HeaderSize
  <2>2. i \in 1..n /\ k + 1 \in DOMAIN off /\ i + 1 \in DOMAIN off
    BY <1>1, SMTT(30)
  <2>3. k + 1 <= i + 1 => off[k + 1] <= off[i + 1]
    BY <1>1, <2>2, OffsetsRise
  <2>4. off[i + 1] \in Nat /\ off[k + 1] \in Nat
    BY <1>1, <2>2
  <2>5. ~(k + 1 <= i + 1)
    BY <1>5, <1>11, <2>1, <2>3, <2>4
  <2>6. QED BY <1>1, <2>2, <2>5
<1>12. ASSUME RunOut(h), area.read = area.size PROVE End(dir) > Room(dir)
  <2>1. area.size < off[k + 1]
    <3>1. CASE area.size < pos + HeaderSize
      BY <1>1, <1>4, <1>5, <3>1, SMTT(30) DEF HeaderSize, g
    <3>2. CASE ~(area.size < pos + HeaderSize)
      <4>1. h = g
        BY <1>5, <1>6, <1>12, <3>2 DEF HeaderSize
      <4>2. Rest >= HeaderSize /\ Rest = area.size - pos
        BY <1>5, <3>2 DEF Rest, HeaderSize
      <4>3. g.length # 0
        BY <1>1, <1>4 DEF HeaderSize, g
      <4>4. ~(Rest - HeaderSize >= NameLength(h))
        BY <1>4, <1>12, <4>1, <4>2, <4>3 DEF RunOut, Incomplete, Accepted, Named
      <4>5. NameLength(h) = g.length - HeaderSize
        BY <1>7, <4>1, <4>3
      <4>6. g.length \in Nat
        BY <1>1 DEF g
      <4>7. QED BY <1>5, <4>2, <4>4, <4>5, <4>6 DEF HeaderSize
    <3>3. QED BY <3>1, <3>2
  <2>2. off[k + 1] <= off[n + 1]
    <3>1. k + 1 \in DOMAIN off /\ n + 1 \in DOMAIN off /\ k + 1 <= n + 1
      BY <1>1
    <3>2. QED BY <1>1, <3>1, OffsetsRise
  <2>3. QED BY <1>1, <1>5, <2>1, <2>2 DEF End
<1>13. QED BY <1>8, <1>9, <1>10, <1>11, <1>12

(* Once all entries are taken the fold ends, and well exactly when four more
   bytes are there. *)
LEMMA ListAtEnd ==
  ASSUME Base, pc = "entries", Readable(dir),
         area.size = Room(dir), HoldsStored(dir, area),
         Taken(Len(dir.stored) + 1), NEW h \in Seen(area, pos)
  PROVE  /\ ~ParseEntry(h) /\ ~LengthUnderflows(h)
         /\ StopAtRefused(h) => End(dir) + 4 <= Room(dir)
         /\ RunOut(h) => ~ (End(dir) + 4 <= Room(dir))
         /\ area.read = area.size => entries = dir.stored
<1>1. IsDirectory(dir) /\ WellFormed(dir) /\ pos \in Nat /\ area.size \in Nat
  BY DEF Base, IsArea, Readable
<1>2. Len(dir.stored) \in Nat /\ Len(dir.offsets) = Len(dir.stored) + 1
  BY <1>1, Parts
<1>3. /\ pos = End(dir) /\ Len(entries) = Len(dir.stored)
      /\ \A j \in 1..Len(dir.stored) : TakenAs(j)
      /\ pos <= area.size
  BY <1>2 DEF Taken, End
<1>4. h = ZeroHeader
  BY <1>1, <1>3, ZerosAtEnd
<1>5. h.fsid = 0
  BY <1>4 DEF ZeroHeader
<1>6. ~ParseEntry(h) /\ ~LengthUnderflows(h)
  BY <1>5 DEF ParseEntry, LengthUnderflows, Accepted, Named
<1>7. Refused(h, Rest) <=> Rest >= 4
  BY <1>5 DEF Refused
<1>8. Rest >= 4 <=> End(dir) + 4 <= Room(dir)
  BY <1>1, <1>3 DEF Rest
<1>9. ASSUME area.read = area.size PROVE entries = dir.stored
  <2>1. entries \in Seq(Header) /\ dir.stored \in Seq(Header)
    BY DEF Base, IsDirectory
  <2>2. ~(area.read < pos)
    <3>1. pos \in Nat /\ area.size \in Nat
      BY <1>1
    <3>2. pos <= area.size
      BY <1>3
    <3>3. QED BY <1>9, <3>1, <3>2
  <2>3. \A j \in 1..Len(dir.stored) : entries[j] = dir.stored[j]
    BY <1>3, <2>2 DEF TakenAs
  <2>4. QED BY <1>3, <2>1, <2>3
<1>10. QED BY <1>6, <1>7, <1>8, <1>9 DEF StopAtRefused, RunOut, Incomplete

LEMMA ListInductive == ListInv /\ [Next]_vars => ListInv'
<1> SUFFICES ASSUME ListInv, [Next]_vars PROVE ListInv'
  OBVIOUS
<1>1. Base /\ Base' /\ dir' = dir
  BY BaseStep DEF ListInv, Next, vars, UseHeaderData, ReadFirstBlock, ReadFails,
     OffsetMissing, SkipOffset, FoldEntry, ParseEntry, LengthUnderflows, StopAtRefused, RunOut
<1> DEFINE Fetched == area.size = Room(dir) /\ ~area.exchanged /\ HoldsStored(dir, area)
           Somewhere == \E k \in DOMAIN dir.offsets : Taken(k)
           Outcome ==
             /\ area.read = area.size =>
                  /\ ok <=> (End(dir) + 4 <= Room(dir))
                  /\ ok => (entries = dir.stored)
             /\ ok =>
                  /\ Len(entries) <= Len(dir.stored)
                  /\ \A i \in DOMAIN entries : TakenAs(i)
                  /\ \A i \in DOMAIN dir.stored :
                       dir.offsets[i + 1] <= area.read => i \in DOMAIN entries
<1>2. SUFFICES ASSUME Readable(dir)
               PROVE  /\ pc' \in {"offset", "entries"} => Fetched'
                      /\ pc' = "entries" => Somewhere'
                      /\ pc' = "done" => Outcome'
  BY <1>1 DEF ListInv, LostOnlyToShortRead
<1>3. /\ IsDirectory(dir) /\ Len(dir.stored) \in Nat
      /\ DOMAIN dir.offsets = 1..(Len(dir.stored) + 1)
      /\ Len(dir.offsets) = Len(dir.stored) + 1
      /\ dir.offsets[1] = OffsetSize
      /\ area.size \in Nat
  BY <1>1, Parts DEF Base, IsArea
<1>4. End(dir) \in Nat /\ OffsetSize <= End(dir)
  <2>1. 1 \in DOMAIN dir.offsets /\ Len(dir.offsets) \in DOMAIN dir.offsets
        /\ 1 <= Len(dir.offsets)
    BY <1>3
  <2>2. dir.offsets[1] <= End(dir)
    BY <1>3, <2>1, OffsetsRise DEF End
  <2>3. End(dir) \in Nat
    BY <1>3, Parts DEF End
  <2>4. QED BY <1>3, <2>2, <2>3
<1>5. CASE UseHeaderData
  <2>1. area' = dir.data /\ pc' = "offset" /\ dir.datablocks = <<>>
    BY <1>5 DEF UseHeaderData
  <2>2. ~dir.data.exchanged
    BY <1>3 DEF IsDirectory
  <2>3. HoldsStored(dir, dir.data) /\ dir.data.size = Room(dir)
    BY <1>2, <2>1 DEF Readable, InPlace, Room
  <2>4. Fetched'
    BY <1>1, <2>1, <2>2, <2>3
  <2>5. QED BY <2>1, <2>4
<1>6. CASE ReadFirstBlock
  <2>1. PICK m \in SectorsRead(dir) :
          area' = Fetch(dir, m) /\ pc' = "offset" /\ dir.datablocks # <<>>
    BY <1>6 DEF ReadFirstBlock
  <2>2. /\ Fetch(dir, m).size = Room(dir) /\ ~Fetch(dir, m).exchanged
        /\ HoldsStored(dir, Fetch(dir, m))
    BY <1>2, <1>3, <2>1, FetchIsArea DEF Readable
  <2>3. Fetched'
    BY <1>1, <2>1, <2>2
  <2>4. QED BY <2>1, <2>3
<1>7. CASE ReadFails
  BY <1>7 DEF ReadFails
<1>8. CASE OffsetMissing
  <2>1. /\ pc = "offset" /\ area.size < OffsetSize /\ pc' = "done"
        /\ ok' = ok /\ entries' = entries /\ area' = area
    BY <1>8 DEF OffsetMissing
  <2>2. ~ok
    BY <1>1, <2>1 DEF Base
  <2>3. area.size = Room(dir)
    BY <1>2, <2>1 DEF ListInv
  <2>4. ~ (End(dir) + 4 <= Room(dir))
    BY <1>3, <1>4, <2>1, <2>3 DEF OffsetSize
  <2>5. QED BY <1>1, <2>1, <2>2, <2>4
<1>9. CASE SkipOffset
  <2>1. /\ pc = "offset" /\ area.size >= OffsetSize /\ pc' = "entries"
        /\ pos' = OffsetSize /\ area' = area /\ entries' = entries
    BY <1>9 DEF SkipOffset
  <2>2. Fetched
    BY <1>2, <2>1 DEF ListInv
  <2>3. entries = <<>>
    BY <1>1, <2>1 DEF Base
  <2>4. Taken(1)'
    BY <1>1, <1>3, <2>1, <2>3 DEF Taken
  <2>5. 1 \in (DOMAIN dir.offsets)'
    BY <1>1, <1>3
  <2>6. QED BY <1>1, <2>1, <2>2, <2>4, <2>5
<1>10. CASE FoldEntry
  <2>1. PICK h \in Seen(area, pos) : \/ ParseEntry(h)
                                    \/ LengthUnderflows(h)
                                    \/ StopAtRefused(h)
                                    \/ RunOut(h)
    BY <1>10 DEF FoldEntry
  <2>2. pc = "entries" /\ Fetched
    BY <1>2, <1>10 DEF FoldEntry, ListInv
  <2>3. PICK k \in DOMAIN dir.offsets : Taken(k)
    BY <1>2, <2>2 DEF ListInv
  <2>4. CASE k \in 1..Len(dir.stored)
    <3>1. /\ ParseEntry(h) => Taken(k + 1)'
          /\ ~LengthUnderflows(h)
          /\ StopAtRefused(h) =>
               /\ area.read # area.size
               /\ \A i \in DOMAIN dir.stored :
                    dir.offsets[i + 1] <= area.read => i \in 1..(k - 1)
          /\ RunOut(h) /\ area.read = area.size => End(dir) > Room(dir)
      BY <1>1, <1>2, <2>2, <2>3, <2>4, ListAtEntry
    <3>2. CASE ParseEntry(h)
      <4>1. pc' = "entries" /\ area' = area
        BY <2>2, <3>2 DEF ParseEntry
      <4>2. k + 1 \in (DOMAIN dir.offsets)'
        BY <1>1, <1>3, <2>4
      <4>3. QED BY <1>1, <2>2, <3>1, <3>2, <4>1, <4>2
    <3>3. CASE RunOut(h)
      <4>1. pc' = "done" /\ ok' = ok /\ entries' = entries /\ area' = area
        BY <3>3 DEF RunOut
      <4>2. ~ok
        BY <1>1, <2>2 DEF Base
      <4>3. area.read = area.size => ~ (End(dir) + 4 <= Room(dir))
        BY <1>3, <1>4, <2>2, <3>1, <3>3
      <4>4. QED BY <1>1, <4>1, <4>2, <4>3
    <3>4. CASE StopAtRefused(h)
      <4>1. /\ pc' = "done" /\ entries' = entries /\ area' = area /\ pos' = pos
        BY <3>4 DEF StopAtRefused
      <4>2. Len(entries) = k - 1 /\ DOMAIN entries = 1..(k - 1)
            /\ \A j \in 1..(k - 1) : TakenAs(j)
        BY <1>1, <2>3 DEF Taken, Base
      <4>3. Len(entries) <= Len(dir.stored)
        BY <1>3, <2>4, <4>2
      <4>4. \A j : TakenAs(j)' = TakenAs(j)
        BY <1>1, <4>1 DEF TakenAs
      <4>5. QED BY <1>1, <3>1, <3>4, <4>1, <4>2, <4>3, <4>4
    <3>5. QED BY <2>1, <3>1, <3>2, <3>3, <3>4
  <2>5. CASE k = Len(dir.stored) + 1
    <3>1. /\ ~ParseEntry(h) /\ ~LengthUnderflows(h)
          /\ StopAtRefused(h) => End(dir) + 4 <= Room(dir)
          /\ RunOut(h) => ~ (End(dir) + 4 <= Room(dir))
          /\ area.read = area.size => entries = dir.stored
      BY <1>1, <1>2, <2>2, <2>3, <2>5, ListAtEnd
    <3>2. CASE StopAtRefused(h)
      <4>1. /\ pc' = "done" /\ ok' = TRUE /\ entries' = entries /\ area' = area
            /\ pos' = pos
        BY <3>2 DEF StopAtRefused
      <4>2. /\ Len(entries) = Len(dir.stored)
            /\ DOMAIN entries = 1..Len(dir.stored) /\ DOMAIN dir.stored = 1..Len(dir.stored)
            /\ \A j \in 1..Len(dir.stored) : TakenAs(j)
        BY <1>1, <1>3, <2>3, <2>5 DEF Taken, Base, IsDirectory
      <4>3. \A j : TakenAs(j)' = TakenAs(j)
        BY <1>1, <4>1 DEF TakenAs
      <4>4. Len(entries) <= Len(dir.stored)
        BY <1>3, <4>2
      <4>5. QED BY <1>1, <3>1, <3>2, <4>1, <4>2, <4>3, <4>4
    <3>3. CASE RunOut(h)
      <4>1. pc' = "done" /\ ok' = ok /\ entries' = entries /\ area' = area
        BY <3>3 DEF RunOut
      <4>2. ~ok
        BY <1>1, <2>2 DEF Base
      <4>3. QED BY <1>1, <3>1, <3>3, <4>1, <4>2
    <3>4. QED BY <2>1, <3>1, <3>2, <3>3
  <2>6. QED BY <1>3, <2>3, <2>4, <2>5
<1>11. CASE UNCHANGED vars
  <2>1. Taken(1)' = Taken(1) /\ \A k : Taken(k)' = Taken(k)
    BY <1>11 DEF vars, Taken, TakenAs
  <2>2. \A j : TakenAs(j)' = TakenAs(j)
    BY <1>11 DEF vars, TakenAs
  <2>3. QED BY <1>2, <1>11, <2>1, <2>2 DEF ListInv, LostOnlyToShortRead, vars
<1>12. QED BY <1>5, <1>6, <1>7, <1>8, <1>9, <1>10, <1>11 DEF Next

(* LostOnlyToShortRead: after a full read a listing has every entry or is an
   error, and it succeeds exactly when four more bytes follow the last entry;
   after a short one it has the entries that were read in front. *)
THEOREM ListingsLoseNothingElse == Spec => []LostOnlyToShortRead
<1>1. Init => ListInv
  <2> SUFFICES ASSUME Init PROVE ListInv
    OBVIOUS
  <2>1. Base /\ pc = "fetch"
    BY InitBase DEF Init
  <2>2. QED BY <2>1 DEF ListInv, LostOnlyToShortRead
<1>2. ListInv => LostOnlyToShortRead
  BY DEF ListInv
<1>3. QED BY <1>1, <1>2, ListInductive, PTL DEF Spec

-----------------------------------------------------------------------------
(* On a plain drive the first entry read is refused: its length is where the
   type is expected. *)
LEMMA PlainRefused ==
  ASSUME Base, pc = "entries", Plain(dir), pos = OffsetSize,
         NEW n \in SectorsRead(dir), area = Fetch(dir, n), NEW h \in Seen(area, pos)
  PROVE  ~ParseEntry(h) /\ ~LengthUnderflows(h) /\ ~RunOut(h)
<1>1. /\ IsDirectory(dir) /\ WellFormed(dir) /\ ~dir.swapped /\ dir.datablocks # <<>>
      /\ InPlace(dir)
  BY DEF Base, Plain
<1>2. HoldsStored(dir, area) /\ area.exchanged /\ area.size = Room(dir) /\ area.size \in Nat
  <2>1. Fetch(dir, n).exchanged = ~dir.swapped
    BY <1>1, FetchIsArea
  <2>2. HoldsStored(dir, Fetch(dir, n)) /\ Fetch(dir, n).size = Room(dir)
    BY <1>1, FetchIsArea
  <2>3. area.size \in Nat
    BY DEF Base, IsArea
  <2>4. QED BY <1>1, <2>1, <2>2, <2>3
<1>3. Rest >= HeaderSize /\ Rest \in Int
  BY <1>2 DEF Plain, Rest, OffsetSize, HeaderSize
<1>4. /\ Len(dir.stored) \in Nat /\ DOMAIN dir.stored = 1..Len(dir.stored)
      /\ dir.offsets[1] = OffsetSize /\ Len(dir.offsets) = Len(dir.stored) + 1
      /\ \A i \in 1..Len(dir.stored) : dir.stored[i] \in Header /\ dir.stored[i].length \in Nat
  BY <1>1, Parts
<1>5. CASE Len(dir.stored) = 0
  <2>1. End(dir) = pos
    BY <1>4, <1>5 DEF End
  <2>2. h = ZeroHeader
    BY <1>1, <1>2, <2>1, ZerosAtEnd
  <2>3. h.fsid = 0
    BY <2>2 DEF ZeroHeader
  <2>4. Refused(h, Rest) /\ ~Named(h, Rest)
    BY <1>3, <2>3 DEF Refused, Named, HeaderSize
  <2>5. QED BY <2>4 DEF ParseEntry, LengthUnderflows, RunOut, Accepted, Incomplete
<1>6. CASE Len(dir.stored) # 0
  <2> DEFINE g == dir.stored[1]
  <2>1. 1 \in DOMAIN dir.stored /\ 1 \in 1..Len(dir.stored)
    BY <1>4, <1>6
  <2>2. /\ g \in Header /\ g.fsid # 0 /\ g.length >= HeaderSize /\ g.length \in Nat
    BY <1>1, <1>4, <2>1 DEF WellFormed
  <2>3. g.length # 8
    <3>1. dir.stored # <<>>
      BY <2>1
    <3>2. QED BY <3>1 DEF Plain
  <2>4. pos \in DOMAIN area.headers /\ area.headers[pos] = g
    BY <1>2, <1>4, <2>1 DEF HoldsStored
  <2> DEFINE c == AsRead(area, pos, g)
  <2>5. h = Exchange(c)
    BY <1>2, <2>4 DEF Seen, OffsetSize
  <2>6. /\ IsArea(area) /\ pos \in Nat
        /\ c \in Header /\ (c.length # 0 => c.length = g.length /\ c.fsid = g.fsid)
        /\ (c.length # 0 => c = g \/ c = [g EXCEPT !.type = 0])
    <3>1. IsArea(area) /\ pos \in Nat
      BY DEF Base
    <3>2. CutOf(area, pos, g, c)
      BY <2>2, <3>1, CutHeader
    <3> HIDE DEF c, g
    <3>3. QED BY <3>1, <3>2 DEF CutOf
  <2>7. c.length # 0 => c.type \in {0, g.type}
    BY <2>2, <2>6 DEF Header
  <2>8. h.fsid = c.fsid /\ h.type = c.length /\ h.length = c.type
    BY <2>5, <2>6 DEF Exchange, Header
  <2>9. c.length = 0 => c.type = 0
    <3>1. area.read \in Nat /\ pos \in Nat
      BY <2>6 DEF IsArea
    <3>2. QED BY <2>2, <3>1 DEF AsRead, HeaderSize
  <2>10. h.length # 0 => h.fsid # 0 /\ h.type \notin TypeBytes
    BY <2>2, <2>3, <2>6, <2>8, <2>9 DEF TypeBytes, HeaderSize
  <2> HIDE DEF c
  <2>11. Refused(h, Rest) /\ ~Named(h, Rest)
    BY <1>3, <2>10 DEF Refused, Named, HeaderSize
  <2>12. QED BY <2>11 DEF ParseEntry, LengthUnderflows, RunOut, Accepted, Incomplete
<1>7. QED BY <1>5, <1>6

LEMMA PlainInductive == PlainInv /\ [Next]_vars => PlainInv'
<1> SUFFICES ASSUME PlainInv, [Next]_vars PROVE PlainInv'
  OBVIOUS
<1>1. Base /\ Base' /\ dir' = dir
  BY BaseStep DEF PlainInv, Next, vars, UseHeaderData, ReadFirstBlock, ReadFails,
     OffsetMissing, SkipOffset, FoldEntry, ParseEntry, LengthUnderflows, StopAtRefused, RunOut
<1>2. SUFFICES ASSUME Plain(dir)
               PROVE  /\ pc' \in {"offset", "entries"} =>
                           \E n \in SectorsRead(dir) : area' = Fetch(dir, n)
                      /\ pc' = "entries" => pos' = OffsetSize /\ entries' = <<>>
                      /\ pc' = "done" => ok' /\ entries' = <<>>
  <2>1. SectorsRead(dir)' = SectorsRead(dir) /\ \A n : Fetch(dir, n)' = Fetch(dir, n)
    BY <1>1 DEF Fetch, SectorsRead
  <2>2. Plain(dir)' = Plain(dir)
    BY <1>1
  <2>3. PlainDriveLooksEmpty' = (Plain(dir)' /\ pc' = "done" => ok' /\ entries' = <<>>)
    BY DEF PlainDriveLooksEmpty, Plain
  <2>4. QED BY <1>1, <1>2, <2>1, <2>2, <2>3 DEF PlainInv
<1>3. CASE UseHeaderData \/ ReadFails
  BY <1>2, <1>3 DEF UseHeaderData, ReadFails, Plain
<1>4. CASE ReadFirstBlock
  BY <1>4 DEF ReadFirstBlock
<1>5. CASE OffsetMissing
  <2>1. PICK n \in SectorsRead(dir) :
          area = Fetch(dir, n) /\ dir.datablocks # <<>> /\ IsDirectory(dir)
    BY <1>1, <1>2, <1>5 DEF PlainInv, OffsetMissing, Plain, Base
  <2>2. area.size = Room(dir)
    BY <2>1, FetchIsArea
  <2>3. area.size \in Nat /\ area.size >= 10
    BY <1>1, <1>2, <2>2 DEF Base, IsArea, Plain, OffsetSize, HeaderSize
  <2>4. QED BY <1>5, <2>3 DEF OffsetMissing, OffsetSize
<1>6. CASE SkipOffset
  BY <1>1, <1>2, <1>6 DEF SkipOffset, PlainInv, Base
<1>7. CASE FoldEntry
  <2>1. PICK h \in Seen(area, pos) : \/ ParseEntry(h)
                                    \/ LengthUnderflows(h)
                                    \/ StopAtRefused(h)
                                    \/ RunOut(h)
    BY <1>7 DEF FoldEntry
  <2>2. PICK n \in SectorsRead(dir) :
          pc = "entries" /\ area = Fetch(dir, n) /\ pos = OffsetSize /\ entries = <<>>
    BY <1>2, <1>7 DEF FoldEntry, PlainInv
  <2>3. StopAtRefused(h)
    BY <1>1, <1>2, <2>1, <2>2, PlainRefused
  <2>4. QED BY <2>2, <2>3 DEF StopAtRefused
<1>8. CASE UNCHANGED vars
  <2>1. /\ pc' = pc /\ area' = area /\ pos' = pos /\ entries' = entries /\ ok' = ok
    BY <1>8 DEF vars
  <2>2. PlainDriveLooksEmpty = (Plain(dir) /\ pc = "done" => ok /\ entries = <<>>)
    BY DEF PlainDriveLooksEmpty, Plain
  <2>3. QED BY <1>2, <2>1, <2>2 DEF PlainInv
<1>9. QED BY <1>3, <1>4, <1>5, <1>6, <1>7, <1>8 DEF Next

(* PlainDriveLooksEmpty: on a drive that is not byte-swapped a directory in
   a data block is answered as an empty one. *)
THEOREM PlainDriveAlwaysLooksEmpty == Spec => []PlainDriveLooksEmpty
<1>1. Init => PlainInv
  <2> SUFFICES ASSUME Init PROVE PlainInv
    OBVIOUS
  <2>1. Base /\ pc = "fetch"
    BY InitBase DEF Init
  <2>2. QED BY <2>1 DEF PlainInv, PlainDriveLooksEmpty
<1>2. PlainInv => PlainDriveLooksEmpty
  BY DEF PlainInv
<1>3. QED BY <1>1, <1>2, PlainInductive, PTL DEF Spec

-----------------------------------------------------------------------------
(***************************************************************************)
(* The data of an inode.  What the tail of parse has chosen and the pieces *)
(* that get_data has collected are tied to the inode by FileInv; the rest  *)
(* is about sequences: what is left without padding, what the pieces add   *)
(* up to, and that blocks which lie where MFS counts them give the same    *)
(* words either way, as far as they were read.                             *)
(***************************************************************************)
Piece ==
  [bytes : Nat, words : Seq(Nat), read : Nat, exchanged : BOOLEAN, failed : BOOLEAN]
Block == [sector : Nat, count : Nat]

(* What a block of the list is answered with when n words of it are read. *)
Served(f, b, n) ==
  WordPiece(CutTo(Extent(f, b.sector, b.count), n), n, ~f.swapped)

(* The pieces a block may be answered with. *)
PiecesOf(f, b) == {DummyPiece} \cup {Served(f, b, n) : n \in 0..(b.count * BlockWords)}

FromHeader ==
  InHeader(file) /\ stage # "parse" =>
    /\ stage \in {"get", "done"}
    /\ data = DropPadding(file.words) /\ datablocks = <<>>
    /\ stage = "done" =>
         answer = IF data = <<>> THEN <<>> ELSE <<WordPiece(data, Len(data), FALSE)>>

FromBlocks ==
  ~InHeader(file) /\ stage \in {"get", "blocks", "done"} =>
    /\ Complete(file) /\ data = <<>> /\ datablocks = BlockList(file)
    /\ Len(answer) <= Len(datablocks)
    /\ \A i \in 1..Len(answer) : answer[i] \in PiecesOf(file, datablocks[i])
    /\ stage = "done" => Len(answer) = Len(datablocks)

FileInv ==
  /\ IsFile(file)
  /\ stage \in {"parse", "get", "blocks", "done", "unparsable"}
  /\ answer \in Seq(Piece)
  /\ stage = "parse" => data = <<>> /\ datablocks = <<>>
  /\ stage \in {"parse", "get"} => answer = <<>>
  /\ FromHeader
  /\ FromBlocks

-----------------------------------------------------------------------------
(* The words of an extent are words of its sectors. *)
LEMMA WordPlace ==
  ASSUME NEW count \in Nat, NEW k \in 1..(count * BlockWords)
  PROVE  /\ (k - 1) \div BlockWords \in 0..(count - 1)
         /\ 1 + ((k - 1) % BlockWords) \in 1..BlockWords
<1> DEFINE q == (k - 1) \div BlockWords
           r == (k - 1) % BlockWords
<1>1. BlockWords \in Nat \ {0} /\ k - 1 \in Nat
  BY BlockWordsAssumption
<1>2. q \in Nat /\ r \in 0..(BlockWords - 1) /\ k - 1 = BlockWords * q + r
  BY <1>1
<1>3. q < count
  <2>1. SUFFICES ASSUME q >= count PROVE FALSE
    BY <1>2
  <2> HIDE DEF q, r
  <2>2. BlockWords * q >= count * BlockWords
    <3>1. q - count \in Nat
      BY <1>2, <2>1
    <3>2. BlockWords * (q - count) \in Nat
      BY <1>1, <3>1
    <3>3. BlockWords * (q - count) = BlockWords * q - count * BlockWords
      BY <1>1, <1>2
    <3>4. QED BY <1>1, <1>2, <3>2, <3>3
  <2>3. BlockWords * q \in Nat /\ count * BlockWords \in Nat
    BY <1>1, <1>2
  <2>4. k - 1 < count * BlockWords
    BY <2>3
  <2>5. BlockWords * q <= k - 1
    BY <1>2, <2>3
  <2> DEFINE a == BlockWords * q
             b == count * BlockWords
  <2>6. a \in Nat /\ b \in Nat /\ a >= b /\ k - 1 < b /\ a <= k - 1 /\ k - 1 \in Nat
    BY <1>1, <2>2, <2>3, <2>4, <2>5
  <2> HIDE DEF a, b
  <2>7. QED BY <2>6
<1>4. QED BY <1>1, <1>2, <1>3

LEMMA SectorType ==
  ASSUME NEW f, IsFile(f), NEW loc, NEW i \in 1..BlockWords
  PROVE  Sector(f, loc)[i] \in Nat
<1>1. CASE loc \in DOMAIN f.sectors
  BY <1>1 DEF Sector, IsFile
<1>2. CASE loc \notin DOMAIN f.sectors
  BY <1>2 DEF Sector
<1>3. QED BY <1>1, <1>2

LEMMA ExtentType ==
  ASSUME NEW f, IsFile(f), NEW loc, NEW count \in Nat
  PROVE  Extent(f, loc, count) \in Seq(Nat) /\ Len(Extent(f, loc, count)) = count * BlockWords
<1>1. count * BlockWords \in Nat
  BY BlockWordsAssumption
<1> DEFINE word(k) == Sector(f, loc + (k - 1) \div BlockWords)[1 + ((k - 1) % BlockWords)]
<1>2. \A k \in 1..(count * BlockWords) : word(k) \in Nat
  BY WordPlace, SectorType
<1>3. Extent(f, loc, count) = [k \in 1..(count * BlockWords) |-> word(k)]
  BY DEF Extent
<1> HIDE DEF word
<1>4. QED BY <1>1, <1>2, <1>3

LEMMA CutType ==
  ASSUME NEW s \in Seq(Nat), NEW n \in Nat
  PROVE  /\ CutTo(s, n) \in Seq(Nat) /\ Len(CutTo(s, n)) = Len(s)
         /\ \A k \in 1..Len(s) : CutTo(s, n)[k] = IF k <= n THEN s[k] ELSE 0
         /\ n = Len(s) => CutTo(s, n) = s
<1>1. Len(s) \in Nat /\ \A k \in 1..Len(s) : s[k] \in Nat
  OBVIOUS
<1> DEFINE word(k) == IF k <= n THEN s[k] ELSE 0
<1>2. \A k \in 1..Len(s) : word(k) \in Nat
  BY <1>1
<1>3. CutTo(s, n) = [k \in 1..Len(s) |-> word(k)]
  BY DEF CutTo
<1>4. n = Len(s) => [k \in 1..Len(s) |-> word(k)] = s
  <2>1. ASSUME n = Len(s) PROVE [k \in 1..Len(s) |-> word(k)] = [k \in 1..Len(s) |-> s[k]]
    BY <2>1
  <2>2. s = [k \in 1..Len(s) |-> s[k]]
    OBVIOUS
  <2>3. QED BY <2>1, <2>2
<1>5. \A k \in 1..Len(s) : CutTo(s, n)[k] = IF k <= n THEN s[k] ELSE 0
  BY <1>3
<1> HIDE DEF word
<1>6. CutTo(s, n) \in Seq(Nat) /\ Len(CutTo(s, n)) = Len(s)
  BY <1>1, <1>2, <1>3
<1>7. QED BY <1>3, <1>4, <1>5, <1>6

LEMMA BlockListType ==
  ASSUME NEW f, IsFile(f), Complete(f)
  PROVE  /\ NumBlocks(f) \in Nat
         /\ BlockList(f) \in Seq(Block) /\ Len(BlockList(f)) = NumBlocks(f)
<1>1. f.words \in Seq(Nat) /\ f.words # <<>> /\ Len(f.words) >= 1 + 2 * NumBlocks(f)
  BY DEF IsFile, Complete
<1>2. NumBlocks(f) \in Nat
  BY <1>1 DEF NumBlocks
<1>3. ASSUME NEW i \in 1..NumBlocks(f)
      PROVE  [sector |-> f.words[2 * i], count |-> f.words[2 * i + 1]] \in Block
  <2>1. 2 * i \in 1..Len(f.words) /\ 2 * i + 1 \in 1..Len(f.words)
    <3> DEFINE l == Len(f.words)
               m == NumBlocks(f)
    <3>1. l \in Nat /\ m \in Nat /\ l >= 1 + 2 * m /\ i \in 1..m
      BY <1>1, <1>2
    <3> HIDE DEF l, m
    <3>2. 2 * i \in 1..l /\ 2 * i + 1 \in 1..l
      BY <3>1
    <3>3. QED BY <3>2 DEF l
  <2>2. f.words[2 * i] \in Nat /\ f.words[2 * i + 1] \in Nat
    BY <1>1, <2>1, SMTT(30)
  <2>3. QED BY <2>2 DEF Block
<1>4. QED BY <1>2, <1>3 DEF BlockList

LEMMA PieceTypes ==
  /\ DummyPiece \in Piece
  /\ \A s \in Seq(Nat) : \A n \in Nat : \A e \in BOOLEAN : WordPiece(s, n, e) \in Piece
<1>1. DummyPiece \in Piece
  BY DEF DummyPiece, Piece
<1>2. ASSUME NEW s \in Seq(Nat), NEW n \in Nat, NEW e \in BOOLEAN
      PROVE  WordPiece(s, n, e) \in Piece
  <2>1. 4 * Len(s) \in Nat
    OBVIOUS
  <2>2. QED BY <2>1 DEF WordPiece, Piece
<1>3. QED BY <1>1, <1>2

(* What is known of a piece that answers a block and is not the dummy text. *)
LEMMA PieceOfBlock ==
  ASSUME NEW b \in Block, IsFile(file), NEW p \in PiecesOf(file, b)
  PROVE  LET e == Extent(file, b.sector, b.count)
         IN  /\ p \in Piece
             /\ p = DummyPiece \/ ~p.failed
             /\ ~p.failed =>
                  /\ p.exchanged = ~file.swapped
                  /\ p.bytes = 4 * (b.count * BlockWords)
                  /\ p.words \in Seq(Nat)
                  /\ Len(p.words) = b.count * BlockWords
                  /\ \A k \in 1..(b.count * BlockWords) :
                       p.words[k] = IF k <= p.read THEN e[k] ELSE 0
                  /\ p.read = Len(p.words) => p.words = e
<1> DEFINE e == Extent(file, b.sector, b.count)
           m == b.count * BlockWords
<1>1. e \in Seq(Nat) /\ Len(e) = m
  <2>1. b.count \in Nat
    BY DEF Block
  <2>2. QED BY <2>1, ExtentType
<1>2. CASE p = DummyPiece
  BY <1>2, PieceTypes DEF DummyPiece
<1>3. CASE p # DummyPiece
  <2>1. PICK n \in 0..m : p = Served(file, b, n)
    BY <1>3 DEF PiecesOf
  <2> DEFINE c == CutTo(e, n)
  <2>2. p = WordPiece(c, n, ~file.swapped)
    BY <2>1 DEF Served
  <2>3. n \in Nat /\ (~file.swapped) \in BOOLEAN
    OBVIOUS
  <2>4. /\ c \in Seq(Nat) /\ Len(c) = m
        /\ \A k \in 1..m : c[k] = IF k <= n THEN e[k] ELSE 0
        /\ n = m => c = e
    <3> HIDE DEF e
    <3>1. QED BY <1>1, <2>3, CutType
  <2> HIDE DEF c, e, m
  <2>5. p \in Piece
    BY <2>2, <2>3, <2>4, PieceTypes
  <2>6. /\ p.exchanged = ~file.swapped /\ p.bytes = 4 * Len(c) /\ p.words = c
        /\ p.read = n /\ ~p.failed
    BY <2>2 DEF WordPiece
  <2>7. QED BY <2>4, <2>5, <2>6 DEF e, m
<1>4. QED BY <1>2, <1>3

-----------------------------------------------------------------------------
Keeping(s) ==
  [i \in 1..Len(s) |-> [a \in Seq(Nat) |-> IF s[i] = DeadBeef THEN a ELSE Append(a, s[i])]]

LEMMA KeepingTypes ==
  ASSUME NEW s \in Seq(Nat)
  PROVE  /\ Closed(Keeping(s), Len(s), Seq(Nat))
         /\ \A i \in 1..Len(s) : \A a \in Seq(Nat) :
              Keeping(s)[i][a] = IF s[i] = DeadBeef THEN a ELSE Append(a, s[i])
<1>1. \A i \in 1..Len(s) : s[i] \in Nat
  OBVIOUS
<1>2. ASSUME NEW i \in 1..Len(s), NEW a \in Seq(Nat)
      PROVE  /\ Keeping(s)[i][a] = IF s[i] = DeadBeef THEN a ELSE Append(a, s[i])
             /\ Keeping(s)[i][a] \in Seq(Nat)
  <2>1. Keeping(s)[i][a] = IF s[i] = DeadBeef THEN a ELSE Append(a, s[i])
    BY DEF Keeping
  <2>2. Append(a, s[i]) \in Seq(Nat)
    BY <1>1
  <2>3. QED BY <2>1, <2>2
<1>3. QED BY <1>2 DEF Closed

LEMMA KeptIsFold ==
  ASSUME NEW s \in Seq(Nat)
  PROVE  \E g : Folded(g, Len(s), <<>>, Keeping(s)) /\ DropPadding(s) = g[1..Len(s)]
<1> DEFINE n == Len(s)
           A == Seq(Nat)
           base == <<>>
           h == Keeping(s)
           Eq(g) == g = [t \in SUBSET DOMAIN s |->
                           IF t = {} THEN <<>>
                           ELSE IF s[Top(t)] = DeadBeef THEN g[t \ {Top(t)}]
                           ELSE Append(g[t \ {Top(t)}], s[Top(t)])]
           G == CHOOSE g : Eq(g)
<1>1. n \in Nat /\ DOMAIN s = 1..n /\ base \in A
  OBVIOUS
<1>2. /\ Closed(h, n, A)
      /\ \A i \in 1..n : \A a \in A : h[i][a] = IF s[i] = DeadBeef THEN a ELSE Append(a, s[i])
  BY KeepingTypes
<1>3. DropPadding(s) = G[1..n]
  BY <1>1 DEF DropPadding, FoldLeft, MapThenFoldSet, Max, Top
<1> HIDE DEF n, A, h
<1>4. Eq(G)
  <2>1. PICK g : Folded(g, n, base, h) /\ \A t \in SUBSET (1..n) : g[t] \in A
    <3> HIDE DEF base
    <3>1. QED BY <1>1, <1>2, FoldInSet, ZenonT(60)
  <2>2. ASSUME NEW t \in SUBSET (1..n), t # {}
        PROVE  h[Top(t)][g[t \ {Top(t)}]]
                 = IF s[Top(t)] = DeadBeef THEN g[t \ {Top(t)}]
                   ELSE Append(g[t \ {Top(t)}], s[Top(t)])
    <3>1. Top(t) \in 1..n /\ t \ {Top(t)} \in SUBSET (1..n)
      BY <1>1, <2>2, TopIsLargest
    <3>2. QED BY <1>2, <2>1, <3>1
  <2>3. [t \in SUBSET (1..n) |-> IF t = {} THEN base ELSE h[Top(t)][g[t \ {Top(t)}]]]
        = [t \in SUBSET (1..n) |->
             IF t = {} THEN <<>>
             ELSE IF s[Top(t)] = DeadBeef THEN g[t \ {Top(t)}]
             ELSE Append(g[t \ {Top(t)}], s[Top(t)])]
    BY <2>2, SMTT(30)
  <2>4. Eq(g)
    BY <1>1, <2>1, <2>3 DEF Folded
  <2> HIDE DEF Eq
  <2>5. QED BY <2>4
<1> HIDE DEF G
<1>5. G[{}] = base /\ G = [t \in SUBSET (1..n) |-> G[t]]
  BY <1>1, <1>4
<1>6. ASSUME NEW t \in SUBSET (1..n), t # {}, G[t \ {Top(t)}] \in A
      PROVE  G[t] = h[Top(t)][G[t \ {Top(t)}]]
  <2>1. Top(t) \in 1..n
    BY <1>1, <1>6, TopIsLargest
  <2>2. G[t] = IF s[Top(t)] = DeadBeef THEN G[t \ {Top(t)}]
               ELSE Append(G[t \ {Top(t)}], s[Top(t)])
    BY <1>1, <1>4, <1>6
  <2>3. QED BY <1>2, <1>6, <2>1, <2>2
<1>7. Folded(G, n, base, h)
  <2>1. \A t \in SUBSET (1..n) :
          t # {} /\ G[t \ {Top(t)}] \in A => G[t] = h[Top(t)][G[t \ {Top(t)}]]
    BY <1>6
  <2> HIDE DEF base
  <2>2. QED BY <1>1, <1>2, <1>5, <2>1, FoldTyped
<1>8. QED BY <1>3, <1>7 DEF n, h

(* What holds at first and not always stops holding at some number. *)
LEMMA Earliest ==
  ASSUME NEW m \in Nat, NEW T \in SUBSET (0..m), T # {}, 0 \notin T
  PROVE  \E k \in 1..m : k \in T /\ k - 1 \notin T
<1>1. T \in SUBSET Nat
  OBVIOUS
<1>2. PICK k \in T : \A i \in T : k <= i
  BY <1>1, LeastNat
<1>3. k \in 1..m /\ ~(k <= k - 1)
  OBVIOUS
<1>4. QED BY <1>2, <1>3

(* One word of the sector more: it is kept unless it is padding. *)
LEMMA OneMoreWord ==
  ASSUME NEW s \in Seq(Nat), NEW n \in 0..Len(s), \A i \in 1..n : s[i] # DeadBeef,
         NEW k \in 1..Len(s), NEW a \in Seq(Nat),
         \A i \in 1..Len(a) : a[i] # DeadBeef,
         \A i \in 1..n : i <= k - 1 => a[i] = s[i],
         k - 1 <= n => Len(a) = k - 1,
         k - 1 >= n => Len(a) >= n,
         NEW b, b = IF s[k] = DeadBeef THEN a ELSE Append(a, s[k])
  PROVE  /\ b \in Seq(Nat)
         /\ \A i \in 1..Len(b) : b[i] # DeadBeef
         /\ \A i \in 1..n : i <= k => b[i] = s[i]
         /\ k <= n => Len(b) = k
         /\ k >= n => Len(b) >= n
<1>1. s[k] \in Nat /\ Len(a) \in Nat /\ k \in Nat /\ n \in Nat
  OBVIOUS
<1>2. CASE s[k] = DeadBeef
  <2>1. b = a /\ k > n
    BY <1>1, <1>2
  <2>2. QED BY <1>1, <2>1
<1>3. CASE s[k] # DeadBeef
  <2>1. b = Append(a, s[k])
    BY <1>3
  <2>2. /\ b \in Seq(Nat) /\ Len(b) = Len(a) + 1
        /\ \A i \in 1..Len(a) : b[i] = a[i]
        /\ b[Len(a) + 1] = s[k]
    BY <1>1, <2>1
  <2>3. \A i \in 1..Len(b) : b[i] # DeadBeef
    <3>1. TAKE i \in 1..Len(b)
    <3>2. i \in 1..Len(a) \/ i = Len(a) + 1
      BY <1>1, <2>2
    <3>3. QED BY <1>3, <2>2, <3>2
  <2>4. ASSUME NEW i \in 1..n, i <= k PROVE b[i] = s[i]
    <3>1. CASE i <= k - 1
      <4>1. i \in 1..Len(a)
        BY <1>1, <3>1, SMTT(30)
      <4>2. QED BY <2>2, <3>1, <4>1
    <3>2. CASE i = k
      <4>1. Len(a) = k - 1
        BY <1>1, <3>2
      <4>2. QED BY <1>1, <2>2, <3>2, <4>1
    <3>3. QED BY <1>1, <2>4, <3>1, <3>2, SMTT(30)
  <2>5. (k <= n => Len(b) = k) /\ (k >= n => Len(b) >= n)
    BY <1>1, <2>2
  <2>6. QED BY <2>2, <2>3, <2>4, <2>5
<1>4. QED BY <1>2, <1>3

(* What is left of a sector without its padding, and that words before the
   first padding stay where they are. *)
LEMMA PaddingDropped ==
  ASSUME NEW s \in Seq(Nat), NEW n \in 0..Len(s), \A i \in 1..n : s[i] # DeadBeef
  PROVE  /\ DropPadding(s) \in Seq(Nat)
         /\ \A i \in 1..Len(DropPadding(s)) : DropPadding(s)[i] # DeadBeef
         /\ Len(DropPadding(s)) >= n
         /\ \A i \in 1..n : DropPadding(s)[i] = s[i]
<1> DEFINE m == Len(s)
           h == Keeping(s)
<1>1. PICK g : Folded(g, m, <<>>, h) /\ DropPadding(s) = g[1..m]
  BY KeptIsFold
<1>2. \A i \in 1..m : \A a \in Seq(Nat) :
        h[i][a] = IF s[i] = DeadBeef THEN a ELSE Append(a, s[i])
  BY KeepingTypes
<1>3. m \in Nat /\ n \in Nat /\ n <= m
  OBVIOUS
<1> DEFINE P(k) == /\ g[1..k] \in Seq(Nat)
                   /\ \A i \in 1..Len(g[1..k]) : g[1..k][i] # DeadBeef
                   /\ \A i \in 1..n : i <= k => g[1..k][i] = s[i]
                   /\ k <= n => Len(g[1..k]) = k
                   /\ k >= n => Len(g[1..k]) >= n
<1> HIDE DEF h
<1>4. g[{}] = <<>> /\ \A k \in 1..m : g[1..k] = h[k][g[1..(k - 1)]]
  <2> DEFINE base == <<>>
  <2>1. Folded(g, m, base, h)
    BY <1>1
  <2> HIDE DEF base, m
  <2>2. g[{}] = base /\ \A k \in 1..m : g[1..k] = h[k][g[1..(k - 1)]]
    BY <1>3, <2>1, FoldStep
  <2>3. QED BY <2>2 DEF base
<1>5. P(0)
  <2>1. 1..0 = {}
    OBVIOUS
  <2>2. g[1..0] = <<>>
    BY <1>4, <2>1
  <2>3. QED BY <1>3, <2>2
<1>6. ASSUME NEW k \in 1..m, P(k - 1) PROVE P(k)
  <2> DEFINE a == g[1..(k - 1)]
             b == g[1..k]
  <2>1. /\ a \in Seq(Nat) /\ \A i \in 1..Len(a) : a[i] # DeadBeef
        /\ \A i \in 1..n : i <= k - 1 => a[i] = s[i]
        /\ k - 1 <= n => Len(a) = k - 1
        /\ k - 1 >= n => Len(a) >= n
    BY <1>6
  <2>2. b = IF s[k] = DeadBeef THEN a ELSE Append(a, s[k])
    BY <1>2, <1>4, <2>1, ZenonT(40)
  <2> HIDE DEF a, b
  <2>3. /\ b \in Seq(Nat)
        /\ \A i \in 1..Len(b) : b[i] # DeadBeef
        /\ \A i \in 1..n : i <= k => b[i] = s[i]
        /\ k <= n => Len(b) = k
        /\ k >= n => Len(b) >= n
    BY <2>1, <2>2, OneMoreWord, SMTT(30)
  <2>4. QED BY <2>3 DEF b
<1> HIDE DEF P
<1>7. P(m)
  <2> DEFINE T == {k \in 0..m : ~P(k)}
  <2>1. SUFFICES ASSUME T # {} PROVE FALSE
    BY <1>3
  <2>2. T \in SUBSET (0..m) /\ 0 \notin T
    BY <1>5
  <2> HIDE DEF T, m
  <2>3. PICK k \in 1..m : k \in T /\ k - 1 \notin T
    BY <1>3, <2>1, <2>2, Earliest
  <2>4. P(k - 1) /\ ~P(k)
    BY <1>3, <2>3 DEF T
  <2>5. QED BY <1>6, <2>4
<1>8. QED BY <1>1, <1>3, <1>7 DEF P

-----------------------------------------------------------------------------
(* The total of a sequence of numbers is a fold as well. *)
Adding(s) == [i \in 1..Len(s) |-> [a \in Nat |-> a + s[i]]]

LEMMA AddingTypes ==
  ASSUME NEW s \in Seq(Nat)
  PROVE  /\ Closed(Adding(s), Len(s), Nat)
         /\ \A i \in 1..Len(s) : \A a \in Nat : Adding(s)[i][a] = a + s[i]
<1>1. \A i \in 1..Len(s) : s[i] \in Nat
  OBVIOUS
<1>2. \A i \in 1..Len(s) : \A a \in Nat : Adding(s)[i][a] = a + s[i]
  BY DEF Adding
<1>3. \A i \in 1..Len(s) : \A a \in Nat : a + s[i] \in Nat
  BY <1>1
<1>4. QED BY <1>2, <1>3 DEF Closed

LEMMA TotalIsFold ==
  ASSUME NEW s \in Seq(Nat)
  PROVE  \E g : Folded(g, Len(s), 0, Adding(s)) /\ Total(s) = g[1..Len(s)]
<1> DEFINE n == Len(s)
           A == Nat
           base == 0
           h == Adding(s)
           Eq(g) == g = [t \in SUBSET DOMAIN s |->
                           IF t = {} THEN 0 ELSE g[t \ {Top(t)}] + s[Top(t)]]
           G == CHOOSE g : Eq(g)
<1>1. n \in Nat /\ DOMAIN s = 1..n /\ base \in A
  OBVIOUS
<1>2. /\ Closed(h, n, A)
      /\ \A i \in 1..n : \A a \in A : h[i][a] = a + s[i]
  BY AddingTypes
<1>3. Total(s) = G[1..n]
  BY <1>1 DEF Total, FoldLeft, MapThenFoldSet, Max, Top
<1> HIDE DEF n, A, h
<1>4. Eq(G)
  <2>1. PICK g : Folded(g, n, base, h) /\ \A t \in SUBSET (1..n) : g[t] \in A
    <3> HIDE DEF base
    <3>1. QED BY <1>1, <1>2, FoldInSet
  <2>2. ASSUME NEW t \in SUBSET (1..n), t # {}
        PROVE  h[Top(t)][g[t \ {Top(t)}]] = g[t \ {Top(t)}] + s[Top(t)]
    <3>1. Top(t) \in 1..n /\ t \ {Top(t)} \in SUBSET (1..n)
      BY <1>1, <2>2, TopIsLargest
    <3>2. QED BY <1>2, <2>1, <3>1
  <2>3. [t \in SUBSET (1..n) |-> IF t = {} THEN base ELSE h[Top(t)][g[t \ {Top(t)}]]]
        = [t \in SUBSET (1..n) |-> IF t = {} THEN 0 ELSE g[t \ {Top(t)}] + s[Top(t)]]
    BY <2>2
  <2>4. Eq(g)
    BY <1>1, <2>1, <2>3 DEF Folded
  <2> HIDE DEF Eq
  <2>5. QED BY <2>4
<1> HIDE DEF G
<1>5. G[{}] = base /\ G = [t \in SUBSET (1..n) |-> G[t]]
  BY <1>1, <1>4
<1>6. ASSUME NEW t \in SUBSET (1..n), t # {}, G[t \ {Top(t)}] \in A
      PROVE  G[t] = h[Top(t)][G[t \ {Top(t)}]]
  <2>1. Top(t) \in 1..n
    BY <1>1, <1>6, TopIsLargest
  <2>2. G[t] = G[t \ {Top(t)}] + s[Top(t)]
    BY <1>1, <1>4, <1>6
  <2>3. QED BY <1>2, <1>6, <2>1, <2>2
<1>7. Folded(G, n, base, h)
  <2>1. \A t \in SUBSET (1..n) :
          t # {} /\ G[t \ {Top(t)}] \in A => G[t] = h[Top(t)][G[t \ {Top(t)}]]
    BY <1>6
  <2> HIDE DEF base
  <2>2. QED BY <1>1, <1>2, <1>5, <2>1, FoldTyped
<1>8. QED BY <1>3, <1>7 DEF n, h

LEMMA TotalSteps ==
  ASSUME NEW s \in Seq(Nat)
  PROVE  \E g : /\ Total(s) = g[1..Len(s)]
                /\ g[1..0] = 0
                /\ \A k \in 1..Len(s) :
                     g[1..(k - 1)] \in Nat => g[1..k] = g[1..(k - 1)] + s[k]
<1> DEFINE h == Adding(s)
           m == Len(s)
<1>1. PICK g : Folded(g, m, 0, h) /\ Total(s) = g[1..m]
  BY TotalIsFold
<1>2. \A i \in 1..m : \A a \in Nat : h[i][a] = a + s[i]
  BY AddingTypes
<1>3. m \in Nat
  OBVIOUS
<1> HIDE DEF h, m
<1>4. g[{}] = 0 /\ \A k \in 1..m : g[1..k] = h[k][g[1..(k - 1)]]
  BY <1>1, <1>3, FoldStep
<1>5. 1..0 = {}
  OBVIOUS
<1>6. /\ Total(s) = g[1..m] /\ g[1..0] = 0
      /\ \A k \in 1..m : g[1..(k - 1)] \in Nat => g[1..k] = g[1..(k - 1)] + s[k]
  BY <1>1, <1>2, <1>4, <1>5
<1>7. QED BY <1>6 DEF m

LEMMA OneMoreTerm ==
  ASSUME NEW a \in Nat, NEW b \in Nat, NEW x \in Nat, NEW y \in Nat, a <= b, x <= y
  PROVE  /\ a + x \in Nat /\ b + y \in Nat /\ a + x <= b + y
         /\ a + x = b + y <=> a = b /\ x = y
OBVIOUS

(* Of two sequences of numbers, one nowhere larger than the other, the
   totals are the same only if they are the same throughout. *)
LEMMA TotalsAgree ==
  ASSUME NEW s \in Seq(Nat), NEW t \in Seq(Nat), Len(s) = Len(t),
         \A i \in 1..Len(s) : s[i] <= t[i]
  PROVE  Total(s) = Total(t) <=> \A i \in 1..Len(s) : s[i] = t[i]
<1> DEFINE m == Len(s)
<1>1. m \in Nat /\ \A i \in 1..m : s[i] \in Nat /\ t[i] \in Nat
  OBVIOUS
<1>2. PICK f : /\ Total(s) = f[1..m] /\ f[1..0] = 0
               /\ \A k \in 1..m : f[1..(k - 1)] \in Nat => f[1..k] = f[1..(k - 1)] + s[k]
  BY TotalSteps
<1>3. PICK g : /\ Total(t) = g[1..m] /\ g[1..0] = 0
               /\ \A k \in 1..m : g[1..(k - 1)] \in Nat => g[1..k] = g[1..(k - 1)] + t[k]
  BY TotalSteps
<1> DEFINE P(k) == /\ f[1..k] \in Nat /\ g[1..k] \in Nat /\ f[1..k] <= g[1..k]
                   /\ f[1..k] = g[1..k] <=> \A i \in 1..k : s[i] = t[i]
<1>4. P(0)
  BY <1>2, <1>3
<1>5. ASSUME NEW k \in 1..m, P(k - 1) PROVE P(k)
  <2>1. f[1..k] = f[1..(k - 1)] + s[k] /\ g[1..k] = g[1..(k - 1)] + t[k]
    BY <1>2, <1>3, <1>5
  <2>2. s[k] \in Nat /\ t[k] \in Nat /\ s[k] <= t[k]
    BY <1>1
  <2> DEFINE a == f[1..(k - 1)]
             b == g[1..(k - 1)]
  <2>3. /\ a \in Nat /\ b \in Nat /\ a <= b
        /\ a = b <=> \A i \in 1..(k - 1) : s[i] = t[i]
    BY <1>5
  <2>4. f[1..k] = a + s[k] /\ g[1..k] = b + t[k]
    BY <2>1
  <2> DEFINE x == s[k]
             y == t[k]
  <2>5. x \in Nat /\ y \in Nat /\ x <= y
    BY <2>2
  <2> HIDE DEF a, b, x, y
  <2>8. /\ a + x \in Nat /\ b + y \in Nat /\ a + x <= b + y
        /\ a + x = b + y <=> a = b /\ x = y
    BY <2>3, <2>5, OneMoreTerm
  <2>6. (\A i \in 1..k : s[i] = t[i])
          <=> s[k] = t[k] /\ \A i \in 1..(k - 1) : s[i] = t[i]
    BY <1>1, SMTT(30)
  <2>7. QED BY <2>3, <2>4, <2>8, <2>6 DEF x, y
<1> HIDE DEF P
<1>6. P(m)
  <2> DEFINE T == {k \in 0..m : ~P(k)}
  <2>1. SUFFICES ASSUME T # {} PROVE FALSE
    BY <1>1
  <2>2. T \in SUBSET (0..m) /\ 0 \notin T
    BY <1>4
  <2> HIDE DEF T, m
  <2>3. PICK k \in 1..m : k \in T /\ k - 1 \notin T
    BY <1>1, <2>1, <2>2, Earliest
  <2>4. P(k - 1) /\ ~P(k)
    BY <1>1, <2>3 DEF T
  <2>5. QED BY <1>5, <2>4
<1>7. QED BY <1>2, <1>3, <1>6 DEF P

-----------------------------------------------------------------------------
LEMMA FlatOne ==
  /\ FlattenSeq(<<>>) = <<>>
  /\ \A d : FlattenSeq(<<d>>) = d
<1>1. FlattenSeq(<<>>) = <<>>
  BY DEF FlattenSeq
<1>2. ASSUME NEW d PROVE FlattenSeq(<<d>>) = d
  BY DEF FlattenSeq
<1>3. QED BY <1>1, <1>2

LEMMA WordsOfOne ==
  /\ Words(<<>>) = <<>>
  /\ \A p : Words(<<p>>) = p.words
<1>1. [i \in DOMAIN <<>> |-> <<>>[i].words] = <<>>
  OBVIOUS
<1>2. ASSUME NEW p PROVE [i \in DOMAIN <<p>> |-> <<p>>[i].words] = <<p.words>>
  OBVIOUS
<1>3. QED BY <1>1, <1>2, FlatOne DEF Words

(* A prefix, element by element. *)
LEMMA PrefixOf ==
  ASSUME NEW S, NEW s \in Seq(S), NEW t \in Seq(S)
  PROVE  IsPrefix(s, t) <=> Len(s) <= Len(t) /\ \A i \in 1..Len(s) : s[i] = t[i]
<1>1. Len(s) \in Nat /\ Len(t) \in Nat
  OBVIOUS
<1>2. ASSUME Len(s) <= Len(t)
      PROVE  SubSeq(s, 1, Len(s)) = SubSeq(t, 1, Len(s))
               <=> \A i \in 1..Len(s) : s[i] = t[i]
  <2> DEFINE p == SubSeq(s, 1, Len(s))
             q == SubSeq(t, 1, Len(s))
  <2>1. p \in Seq(S) /\ Len(p) = Len(s) /\ \A i \in 1..Len(s) : p[i] = s[i]
    OBVIOUS
  <2>2. q \in Seq(S) /\ Len(q) = Len(s) /\ \A i \in 1..Len(s) : q[i] = t[i]
    BY <1>2
  <2> HIDE DEF p, q
  <2>3. p = q <=> \A i \in 1..Len(s) : s[i] = t[i]
    BY <1>1, <2>1, <2>2, SeqEqual
  <2>4. QED BY <2>3 DEF p, q
<1>3. QED BY <1>2 DEF IsPrefix

-----------------------------------------------------------------------------
LEMMA FileInits == ASSUME FileInit PROVE FileInv
<1>1. IsFile(file)
  BY FilesAssumption DEF FileInit
<1>2. stage = "parse" /\ answer = <<>> /\ data = <<>> /\ datablocks = <<>>
  BY DEF FileInit
<1>3. FromHeader /\ FromBlocks
  BY <1>2 DEF FromHeader, FromBlocks
<1>4. QED BY <1>1, <1>2, <1>3 DEF FileInv

LEMMA FileSteps == ASSUME FileInv, [FileNext]_file_vars PROVE FileInv'
<1> USE DEF FileInv
<1>1. IsFile(file)'
  <2>1. file' = file
    BY DEF FileNext, file_vars, ParseHeaderData, ParseBlockList, ListIncomplete, GetHeaderData,
           GetBlocks, GetNothing, ReadBlock, BlockReadFails, Collect
  <2>2. QED BY <2>1
<1>2. CASE ParseHeaderData
  <2>1. FromHeader'
    BY <1>2 DEF ParseHeaderData, FromHeader, InHeader
  <2>2. FromBlocks'
    BY <1>2 DEF ParseHeaderData, FromBlocks, InHeader
  <2>3. QED BY <1>1, <1>2, <2>1, <2>2 DEF ParseHeaderData
<1>3. CASE ParseBlockList
  <2>1. FromHeader'
    BY <1>3 DEF ParseBlockList, FromHeader, InHeader
  <2>2. BlockList(file) \in Seq(Block) /\ Len(BlockList(file)) = NumBlocks(file)
        /\ NumBlocks(file) \in Nat
    BY <1>3, BlockListType DEF ParseBlockList
  <2>3. FromBlocks'
    <3> HIDE DEF BlockList
    <3>1. QED BY <1>3, <2>2 DEF ParseBlockList, FromBlocks, InHeader, Complete, NumBlocks
  <2>4. QED BY <1>1, <1>3, <2>1, <2>3 DEF ParseBlockList
<1>4. CASE ListIncomplete
  <2>1. FromHeader'
    BY <1>4 DEF ListIncomplete, FromHeader, InHeader
  <2>2. FromBlocks'
    BY <1>4 DEF ListIncomplete, FromBlocks
  <2>3. QED BY <1>1, <1>4, <2>1, <2>2 DEF ListIncomplete
<1>5. CASE GetHeaderData
  <2>1. InHeader(file)
    BY <1>5 DEF GetHeaderData, FromBlocks
  <2>2. data \in Seq(Nat)
    <3>1. data = DropPadding(file.words) /\ file.words \in Seq(Nat)
      BY <1>5, <2>1 DEF GetHeaderData, FromHeader, IsFile
    <3>2. 0 \in 0..Len(file.words) /\ \A i \in 1..0 : file.words[i] # DeadBeef
      BY <3>1
    <3>3. QED BY <3>1, <3>2, PaddingDropped
  <2>3. answer' \in Seq(Piece)
    <3> DEFINE p == WordPiece(data, Len(data), FALSE)
    <3>1. p \in Piece
      <4>1. Len(data) \in Nat /\ FALSE \in BOOLEAN
        BY <2>2
      <4>2. QED BY <2>2, <4>1, PieceTypes
    <3>2. answer' = <<p>>
      BY <1>5 DEF GetHeaderData
    <3> HIDE DEF p
    <3>3. QED BY <3>1, <3>2
  <2>4. FromHeader'
    BY <1>5, <2>1 DEF GetHeaderData, FromHeader, InHeader, WordPiece
  <2>5. FromBlocks'
    BY <1>5, <2>1 DEF GetHeaderData, FromBlocks, InHeader
  <2>6. QED BY <1>1, <1>5, <2>3, <2>4, <2>5 DEF GetHeaderData
<1>6. CASE GetBlocks
  <2>1. FromHeader'
    BY <1>6 DEF GetBlocks, FromHeader, InHeader
  <2>2. FromBlocks'
    BY <1>6 DEF GetBlocks, FromBlocks, InHeader, Complete, NumBlocks, BlockList
  <2>3. QED BY <1>1, <1>6, <2>1, <2>2 DEF GetBlocks
<1>7. CASE GetNothing
  <2>1. FromHeader'
    BY <1>7 DEF GetNothing, FromHeader, InHeader
  <2>2. FromBlocks'
    BY <1>7 DEF GetNothing, FromBlocks, InHeader, Complete, NumBlocks, BlockList
  <2>3. QED BY <1>1, <1>7, <2>1, <2>2 DEF GetNothing
<1>8. ASSUME NEW p, stage = "blocks", Len(answer) < Len(datablocks),
             p \in PiecesOf(file, Current), answer' = Append(answer, p),
             UNCHANGED <<file, stage, data, datablocks>>
      PROVE  FileInv'
  <2>1. /\ ~InHeader(file) /\ Complete(file) /\ datablocks = BlockList(file)
        /\ \A i \in 1..Len(answer) : answer[i] \in PiecesOf(file, datablocks[i])
    BY <1>8 DEF FromHeader, FromBlocks
  <2>2. Current \in Block /\ datablocks \in Seq(Block)
    <3>1. datablocks \in Seq(Block)
      BY <2>1, BlockListType
    <3>2. Len(answer) + 1 \in 1..Len(datablocks)
      BY <1>8, <3>1
    <3>3. QED BY <3>1, <3>2 DEF Current
  <2>3. p \in Piece
    BY <1>8, <2>2, PieceOfBlock
  <2>4. /\ answer' \in Seq(Piece) /\ Len(answer') = Len(answer) + 1
        /\ \A i \in 1..Len(answer) : answer'[i] = answer[i]
        /\ answer'[Len(answer) + 1] = p
    BY <1>8, <2>3
  <2>5. Len(answer') <= Len(datablocks)
    BY <1>8, <2>2, <2>4
  <2>6. ASSUME NEW i \in 1..Len(answer')
        PROVE  answer'[i] \in PiecesOf(file, datablocks[i])
    <3>1. i \in 1..Len(answer) \/ i = Len(answer) + 1
      BY <2>4
    <3>2. QED BY <1>8, <2>1, <2>4, <3>1 DEF Current
  <2>7. FromHeader'
    BY <1>8, <2>1 DEF FromHeader, InHeader
  <2>8. FromBlocks'
    BY <1>8, <2>1, <2>5, <2>6
       DEF FromBlocks, InHeader, Complete, NumBlocks, BlockList
  <2>9. QED BY <1>1, <1>8, <2>4, <2>7, <2>8
<1>9. CASE ReadBlock
  <2>1. PICK n \in WordsRead(file, Current) : answer' = Append(answer, Served(file, Current, n))
    BY <1>9 DEF ReadBlock, Served
  <2>2. /\ stage = "blocks" /\ Len(answer) < Len(datablocks)
        /\ UNCHANGED <<file, stage, data, datablocks>>
    BY <1>9 DEF ReadBlock
  <2>3. Current.count * BlockWords \in Nat
    <3>1. datablocks \in Seq(Block)
      BY <2>2, BlockListType DEF FromHeader, FromBlocks
    <3>2. Len(answer) + 1 \in 1..Len(datablocks)
      BY <2>2, <3>1
    <3>3. Current \in Block
      BY <3>1, <3>2 DEF Current
    <3>4. QED BY <3>3, BlockWordsAssumption DEF Block
  <2>4. n \in 0..(Current.count * BlockWords)
    BY <2>3 DEF WordsRead
  <2>5. Served(file, Current, n) \in PiecesOf(file, Current)
    BY <2>4 DEF PiecesOf
  <2>6. QED BY <1>8, <2>1, <2>2, <2>5
<1>10. CASE BlockReadFails
  BY <1>8, <1>10 DEF BlockReadFails, PiecesOf
<1>11. CASE Collect
  <2>1. FromHeader'
    BY <1>11 DEF Collect, FromHeader, InHeader
  <2>2. FromBlocks'
    BY <1>11 DEF Collect, FromBlocks, InHeader, Complete, NumBlocks, BlockList
  <2>3. QED BY <1>1, <1>11, <2>1, <2>2 DEF Collect
<1>12. CASE UNCHANGED file_vars
  BY <1>12 DEF file_vars, FromHeader, FromBlocks, InHeader, Complete, NumBlocks, BlockList
<1>13. QED
  BY <1>2, <1>3, <1>4, <1>5, <1>6, <1>7, <1>9, <1>10, <1>11, <1>12 DEF FileNext

-----------------------------------------------------------------------------
(* The answer to an inode parsed as one with its data in its sector. *)
LEMMA HeaderAnswer ==
  ASSUME FileInv, stage = "done", InHeader(file)
  PROVE  /\ Words(answer) = DropPadding(file.words)
         /\ \A i \in DOMAIN answer : ~answer[i].exchanged /\ InFull(answer[i])
<1>1. data = DropPadding(file.words)
      /\ answer = IF data = <<>> THEN <<>> ELSE <<WordPiece(data, Len(data), FALSE)>>
  BY DEF FileInv, FromHeader
<1>2. CASE data = <<>>
  BY <1>1, <1>2, WordsOfOne
<1>3. CASE data # <<>>
  <2> DEFINE p == WordPiece(data, Len(data), FALSE)
  <2>1. answer = <<p>> /\ p.words = data /\ ~p.exchanged /\ InFull(p)
    BY <1>1, <1>3 DEF WordPiece, InFull
  <2> HIDE DEF p
  <2>2. Words(answer) = data
    BY <2>1, WordsOfOne
  <2>3. \A i \in DOMAIN answer : answer[i] = p
    BY <2>1
  <2>4. QED BY <1>1, <2>1, <2>2, <2>3
<1>4. QED BY <1>2, <1>3

(* The answer to one parsed with data blocks. *)
LEMMA BlocksAnswer ==
  ASSUME FileInv, stage = "done", ~InHeader(file)
  PROVE  /\ Complete(file)
         /\ BlockList(file) \in Seq(Block) /\ Len(BlockList(file)) = NumBlocks(file)
         /\ NumBlocks(file) \in Nat /\ Len(answer) = NumBlocks(file)
         /\ DOMAIN answer = 1..NumBlocks(file)
         /\ \A i \in 1..NumBlocks(file) :
              BlockList(file)[i] \in Block /\ answer[i] \in PiecesOf(file, BlockList(file)[i])
<1>1. /\ Complete(file) /\ datablocks = BlockList(file) /\ Len(answer) = Len(datablocks)
      /\ \A i \in 1..Len(answer) : answer[i] \in PiecesOf(file, datablocks[i])
  BY DEF FileInv, FromBlocks
<1>2. IsFile(file) /\ answer \in Seq(Piece)
  BY DEF FileInv
<1>3. /\ NumBlocks(file) \in Nat /\ BlockList(file) \in Seq(Block)
      /\ Len(BlockList(file)) = NumBlocks(file)
  BY <1>1, <1>2, BlockListType
<1>4. DOMAIN answer = 1..NumBlocks(file) /\ Len(answer) = NumBlocks(file)
  BY <1>1, <1>2, <1>3
<1>5. \A i \in 1..NumBlocks(file) : BlockList(file)[i] \in Block
  BY <1>3
<1>6. QED BY <1>1, <1>3, <1>4, <1>5

(* The same when every block was read in full. *)
LEMMA FullAnswer ==
  ASSUME FileInv, stage = "done", ~InHeader(file),
         \A i \in DOMAIN answer : InFull(answer[i])
  PROVE  /\ Complete(file)
         /\ \A i \in DOMAIN answer : answer[i].exchanged = ~file.swapped
         /\ Words(answer) =
              FlattenSeq([i \in 1..NumBlocks(file) |->
                 Extent(file, BlockList(file)[i].sector, BlockList(file)[i].count)])
<1>1. /\ Complete(file) /\ DOMAIN answer = 1..NumBlocks(file)
      /\ \A i \in 1..NumBlocks(file) :
           BlockList(file)[i] \in Block /\ answer[i] \in PiecesOf(file, BlockList(file)[i])
  BY BlocksAnswer
<1>2. IsFile(file)
  BY DEF FileInv
<1>3. ASSUME NEW i \in 1..NumBlocks(file)
      PROVE  /\ answer[i].exchanged = ~file.swapped
             /\ answer[i].words
                  = Extent(file, BlockList(file)[i].sector, BlockList(file)[i].count)
  <2> DEFINE b == BlockList(file)[i]
             p == answer[i]
  <2>1. b \in Block /\ p \in PiecesOf(file, b) /\ ~p.failed /\ p.read = Len(p.words)
    BY <1>1 DEF InFull
  <2> HIDE DEF b, p
  <2>2. p.exchanged = ~file.swapped /\ p.words = Extent(file, b.sector, b.count)
    BY <1>2, <2>1, PieceOfBlock
  <2>3. QED BY <2>2 DEF b, p
<1>4. [i \in DOMAIN answer |-> answer[i].words]
      = [i \in 1..NumBlocks(file) |->
           Extent(file, BlockList(file)[i].sector, BlockList(file)[i].count)]
  BY <1>1, <1>3
<1>5. QED BY <1>1, <1>3, <1>4 DEF Words

LEMMA HeaderFiles == FileInv => HeaderFileAnswered
<1>1. SUFFICES ASSUME FileInv, stage \in {"done", "unparsable"}, KeptInHeader(file),
                      file.content # <<>>
               PROVE  LET intact == /\ file.flags = {"data_in_header"}
                                    /\ \A i \in DOMAIN file.content :
                                         file.content[i] # DeadBeef
                      IN  /\ intact => Answers(file)
                          /\ Answers(file)
                               => intact \/ (~InHeader(file) /\ LeadsToItself(file))
  BY DEF HeaderFileAnswered
<1> DEFINE n == Len(file.content)
           w == file.words
<1>2. file.content \in Seq(Nat) /\ w \in Seq(Nat) /\ IsFile(file)
  BY <1>1 DEF FileInv, IsFile
<1>3. n \in Nat \ {0} /\ n <= Len(w) /\ \A i \in 1..n : file.content[i] = w[i]
  BY <1>1, <1>2, PrefixOf, SMTT(30) DEF KeptInHeader
<1>4. ASSUME file.flags = {"data_in_header"},
             \A i \in DOMAIN file.content : file.content[i] # DeadBeef
      PROVE  Answers(file)
  <2>1. InHeader(file)
    BY <1>4 DEF InHeader
  <2>2. stage = "done"
    BY <1>1, <2>1 DEF FileInv, FromHeader
  <2>3. n \in 0..Len(w) /\ \A i \in 1..n : w[i] # DeadBeef
    <3>1. Len(w) \in Nat /\ DOMAIN file.content = 1..n
      BY <1>2
    <3>2. n \in 0..Len(w)
      BY <1>3, <3>1
    <3>3. \A i \in 1..n : w[i] # DeadBeef
      <4>1. \A i \in 1..n : file.content[i] = w[i]
        BY <1>3
      <4>2. \A i \in 1..n : file.content[i] # DeadBeef
        BY <1>4, <3>1
      <4>3. QED BY <4>1, <4>2
    <3>4. QED BY <3>2, <3>3
  <2>4. /\ DropPadding(w) \in Seq(Nat) /\ Len(DropPadding(w)) >= n
        /\ \A i \in 1..n : DropPadding(w)[i] = w[i]
    BY <1>2, <2>3, PaddingDropped
  <2>5. IsPrefix(file.content, DropPadding(w))
    <3> DEFINE c == file.content
               d == DropPadding(w)
    <3>1. c \in Seq(Nat) /\ d \in Seq(Nat) /\ Len(c) <= Len(d)
          /\ \A i \in 1..Len(c) : c[i] = d[i]
      BY <1>2, <1>3, <2>4
    <3> HIDE DEF c, d
    <3>2. IsPrefix(c, d)
      BY <3>1, PrefixOf
    <3>3. QED BY <3>2 DEF c, d
  <2>6. QED BY <1>1, <2>1, <2>2, <2>5, HeaderAnswer DEF Answers
<1>5. ASSUME Answers(file), InHeader(file)
      PROVE  /\ file.flags = {"data_in_header"}
             /\ \A i \in DOMAIN file.content : file.content[i] # DeadBeef
  <2>1. stage = "done" /\ IsPrefix(file.content, DropPadding(w))
    BY <1>1, <1>5, HeaderAnswer DEF Answers
  <2>2. 0 \in 0..Len(w) /\ \A i \in 1..0 : w[i] # DeadBeef
    BY <1>2
  <2>3. /\ DropPadding(w) \in Seq(Nat)
        /\ \A i \in 1..Len(DropPadding(w)) : DropPadding(w)[i] # DeadBeef
    BY <1>2, <2>2, PaddingDropped
  <2>4. n <= Len(DropPadding(w)) /\ \A i \in 1..n : file.content[i] = DropPadding(w)[i]
    <3> DEFINE c == file.content
               d == DropPadding(w)
    <3>1. c \in Seq(Nat) /\ d \in Seq(Nat) /\ IsPrefix(c, d)
      BY <1>2, <2>1, <2>3
    <3> HIDE DEF c, d
    <3>2. Len(c) <= Len(d) /\ \A i \in 1..Len(c) : c[i] = d[i]
      BY <3>1, PrefixOf
    <3>3. QED BY <3>2 DEF c, d
  <2>5. \A i \in 1..n : file.content[i] # DeadBeef
    <3>1. \A i \in 1..n : i \in 1..Len(DropPadding(w))
      BY <1>3, <2>3, <2>4
    <3>2. QED BY <2>3, <2>4, <3>1
  <2>6. QED BY <1>2, <1>5, <2>5 DEF InHeader
<1>6. ASSUME Answers(file), ~InHeader(file) PROVE LeadsToItself(file)
  <2>1. /\ stage = "done" /\ IsPrefix(file.content, Words(answer))
        /\ \A i \in DOMAIN answer : ~answer[i].exchanged /\ InFull(answer[i])
    BY <1>6 DEF Answers
  <2>2. /\ Complete(file)
        /\ \A i \in DOMAIN answer : answer[i].exchanged = ~file.swapped
        /\ Words(answer) =
             FlattenSeq([i \in 1..NumBlocks(file) |->
                Extent(file, BlockList(file)[i].sector, BlockList(file)[i].count)])
    BY <1>1, <1>6, <2>1, FullAnswer
  <2>3. answer \in Seq(Piece)
    BY <1>1 DEF FileInv
  <2>4. answer # <<>>
    <3>1. SUFFICES ASSUME answer = <<>> PROVE FALSE
      OBVIOUS
    <3>2. IsPrefix(file.content, <<>>)
      BY <2>1, <3>1, WordsOfOne
    <3>3. n <= 0
      BY <1>3, <3>2 DEF IsPrefix
    <3>4. QED BY <1>3, <3>3
  <2>5. file.swapped
    <3>1. 1 \in DOMAIN answer
      BY <2>3, <2>4
    <3>2. QED BY <2>1, <2>2, <3>1
  <2>6. QED BY <2>1, <2>2, <2>5 DEF LeadsToItself
<1>7. QED BY <1>4, <1>5, <1>6

(* Where the drive sector is the MFS sector, both give the same words. *)
LEMMA PlacesSame ==
  ASSUME NEW f, IsFile(f), Complete(f), PlacesAgree(f)
  PROVE  \A i \in 1..NumBlocks(f) :
           TrueExtent(f, BlockList(f)[i])
           = Extent(f, BlockList(f)[i].sector, BlockList(f)[i].count)
<1>1. ASSUME NEW i \in 1..NumBlocks(f)
      PROVE  TrueExtent(f, BlockList(f)[i])
             = Extent(f, BlockList(f)[i].sector, BlockList(f)[i].count)
  <2> DEFINE b == BlockList(f)[i]
  <2>1. b \in Block
    <3>1. BlockList(f) \in Seq(Block) /\ i \in 1..Len(BlockList(f))
      BY BlockListType
    <3>2. QED BY <3>1
  <2>2. \A s \in b.sector..(b.sector + b.count - 1) :
          SectorToDiskLocation(f.volumes, s) = s
    BY DEF PlacesAgree
  <2> HIDE DEF b
  <2>3. b.sector \in Nat /\ b.count \in Nat
    BY <2>1 DEF Block
  <2>4. ASSUME NEW k \in 1..(b.count * BlockWords)
        PROVE  SectorToDiskLocation(f.volumes, b.sector + (k - 1) \div BlockWords)
               = b.sector + (k - 1) \div BlockWords
    <3> DEFINE q == (k - 1) \div BlockWords
               r == (k - 1) % BlockWords
    <3>1. q \in 0..(b.count - 1) /\ 1 + r \in 1..BlockWords
      <4> DEFINE c == b.count
      <4>1. c \in Nat /\ k \in 1..(c * BlockWords)
        BY <2>3
      <4> HIDE DEF c
      <4>2. (k - 1) \div BlockWords \in 0..(c - 1)
            /\ 1 + ((k - 1) % BlockWords) \in 1..BlockWords
        BY <4>1, WordPlace
      <4>3. QED BY <4>2 DEF c
    <3> HIDE DEF q, r
    <3>2. b.sector + q \in b.sector..(b.sector + b.count - 1)
      BY <2>3, <3>1
    <3>3. QED BY <2>2, <3>2 DEF q
  <2>5. TrueExtent(f, b) = Extent(f, b.sector, b.count)
    BY <2>4 DEF TrueExtent, Extent
  <2>6. QED BY <2>5 DEF b
<1>2. QED BY <1>1

LEMMA BlockFiles == FileInv => BlockFileAnswered
<1>1. SUFFICES ASSUME FileInv, stage = "done", KeptInBlocks(file), PlacesAgree(file),
                      file.swapped
               PROVE  /\ Len(answer) = NumBlocks(file)
                      /\ \A i \in DOMAIN answer :
                           LET stored == TrueExtent(file, BlockList(file)[i])
                           IN  ~answer[i].failed =>
                                 /\ Len(answer[i].words) = Len(stored)
                                 /\ \A k \in DOMAIN stored :
                                      answer[i].words[k]
                                        = IF k <= answer[i].read THEN stored[k] ELSE 0
                      /\ (\A i \in DOMAIN answer : InFull(answer[i])) => Answers(file)
  BY DEF BlockFileAnswered
<1>2. ~InHeader(file) /\ IsFile(file)
  BY <1>1 DEF KeptInBlocks, InHeader, FileInv
<1>3. /\ Complete(file) /\ DOMAIN answer = 1..NumBlocks(file)
      /\ Len(answer) = NumBlocks(file)
      /\ \A i \in 1..NumBlocks(file) :
           BlockList(file)[i] \in Block /\ answer[i] \in PiecesOf(file, BlockList(file)[i])
  BY <1>1, <1>2, BlocksAnswer
<1>4. \A i \in 1..NumBlocks(file) :
        TrueExtent(file, BlockList(file)[i])
        = Extent(file, BlockList(file)[i].sector, BlockList(file)[i].count)
  BY <1>1, <1>2, <1>3, PlacesSame
<1>5. ASSUME NEW i \in DOMAIN answer, ~answer[i].failed
      PROVE  LET stored == TrueExtent(file, BlockList(file)[i])
             IN  /\ Len(answer[i].words) = Len(stored)
                 /\ \A k \in DOMAIN stored :
                      answer[i].words[k] = IF k <= answer[i].read THEN stored[k] ELSE 0
  <2> DEFINE b == BlockList(file)[i]
             p == answer[i]
             e == Extent(file, b.sector, b.count)
             t == TrueExtent(file, b)
             m == b.count * BlockWords
  <2>1. b \in Block /\ p \in PiecesOf(file, b) /\ ~p.failed /\ t = e
    BY <1>3, <1>4, <1>5
  <2> HIDE DEF b, p, t
  <2>2. b.count \in Nat
    BY <2>1 DEF Block
  <2>3. e \in Seq(Nat) /\ Len(e) = m
    BY <1>2, <2>2, ExtentType
  <2>4. /\ Len(p.words) = m
        /\ \A k \in 1..m : p.words[k] = IF k <= p.read THEN e[k] ELSE 0
    BY <1>2, <2>1, PieceOfBlock
  <2> HIDE DEF e, m
  <2>5. DOMAIN e = 1..m
    BY <2>3
  <2>6. Len(p.words) = Len(t)
        /\ \A k \in DOMAIN t : p.words[k] = IF k <= p.read THEN t[k] ELSE 0
    BY <2>1, <2>3, <2>4, <2>5
  <2>7. QED BY <2>6 DEF b, p, t
<1>6. ASSUME \A i \in DOMAIN answer : InFull(answer[i]) PROVE Answers(file)
  <2>1. /\ \A i \in DOMAIN answer : answer[i].exchanged = ~file.swapped
        /\ Words(answer) =
             FlattenSeq([i \in 1..NumBlocks(file) |->
                Extent(file, BlockList(file)[i].sector, BlockList(file)[i].count)])
    BY <1>1, <1>2, <1>6, FullAnswer
  <2>2. [i \in 1..NumBlocks(file) |-> TrueExtent(file, BlockList(file)[i])]
        = [i \in 1..NumBlocks(file) |->
             Extent(file, BlockList(file)[i].sector, BlockList(file)[i].count)]
    BY <1>4
  <2>3. IsPrefix(file.content, Words(answer))
    BY <1>1, <2>1, <2>2 DEF KeptInBlocks
  <2>4. QED BY <1>1, <1>6, <2>1, <2>3 DEF Answers
<1>7. QED BY <1>3, <1>5, <1>6

LEMMA Lengths == FileInv => LengthTellsFailure
<1>1. SUFFICES ASSUME FileInv, stage = "done", datablocks # <<>>,
                      \A i \in DOMAIN datablocks : datablocks[i].count > 0
               PROVE  (\A i \in DOMAIN answer : ~answer[i].failed)
                        <=> Bytes(answer)
                              = Total([i \in DOMAIN datablocks |->
                                         4 * BlockWords * datablocks[i].count])
  BY DEF LengthTellsFailure
<1>2. ~InHeader(file)
  BY <1>1 DEF FileInv, FromHeader
<1>3. /\ Complete(file) /\ datablocks = BlockList(file) /\ Len(answer) = Len(datablocks)
      /\ \A i \in 1..Len(answer) : answer[i] \in PiecesOf(file, datablocks[i])
  BY <1>1, <1>2 DEF FileInv, FromBlocks
<1>4. answer \in Seq(Piece) /\ IsFile(file) /\ datablocks \in Seq(Block)
  BY <1>1, <1>3, BlockListType DEF FileInv
<1> DEFINE m == Len(answer)
           s == [i \in DOMAIN answer |-> answer[i].bytes]
           t == [i \in DOMAIN datablocks |-> 4 * BlockWords * datablocks[i].count]
<1>5. m \in Nat /\ DOMAIN answer = 1..m /\ DOMAIN datablocks = 1..m
  BY <1>3, <1>4
<1>6. ASSUME NEW i \in 1..m
      PROVE  /\ s[i] \in Nat /\ t[i] \in Nat /\ s[i] <= t[i]
             /\ s[i] = t[i] <=> ~answer[i].failed
  <2> DEFINE b == datablocks[i]
             c == datablocks[i].count
  <2>1. b \in Block /\ c \in Nat /\ c > 0
    <3>1. b \in Block
      BY <1>4, <1>5
    <3>2. QED BY <1>1, <1>5, <3>1 DEF Block
  <2>2. s[i] = answer[i].bytes /\ t[i] = 4 * BlockWords * c
    BY <1>5
  <2> HIDE DEF s, t, c
  <2>3. 4 * BlockWords * c \in Nat /\ 4 * BlockWords * c > 10
    <3>1. 4 * BlockWords \in Nat /\ 4 * BlockWords > 10
      BY BlockWordsAssumption
    <3> DEFINE y == 4 * BlockWords
    <3> HIDE DEF y
    <3>2. y * c \in Nat /\ y * c >= y
      <4>1. y \in Nat /\ c - 1 \in Nat
        BY <2>1, <3>1 DEF y
      <4>2. y * (c - 1) \in Nat
        BY <4>1
      <4>3. y * (c - 1) = y * c - y
        BY <2>1, <4>1
      <4>4. y * c \in Nat
        BY <2>1, <4>1
      <4>5. QED BY <4>1, <4>2, <4>3, <4>4
    <3>3. y \in Nat /\ y > 10
      BY <3>1 DEF y
    <3>4. QED BY <3>2, <3>3 DEF y
  <2>4. CASE answer[i] = DummyPiece
    BY <2>2, <2>3, <2>4 DEF DummyPiece
  <2>5. CASE answer[i] # DummyPiece
    <3> DEFINE p == answer[i]
    <3>1. p \in PiecesOf(file, b)
      BY <1>3, <1>5
    <3> HIDE DEF b, p
    <3>2. ~p.failed /\ p.bytes = 4 * (b.count * BlockWords)
      BY <1>4, <2>1, <2>5, <3>1, PieceOfBlock DEF p
    <3>3. 4 * (c * BlockWords) = 4 * BlockWords * c
      BY <2>1, BlockWordsAssumption
    <3>4. answer[i].bytes = 4 * (c * BlockWords) /\ ~answer[i].failed
      BY <3>2 DEF b, c, p
    <3>5. QED BY <2>2, <2>3, <3>3, <3>4
  <2>6. QED BY <2>4, <2>5
<1>7. s \in Seq(Nat) /\ t \in Seq(Nat) /\ Len(s) = m /\ Len(t) = m
  <2>1. s = [i \in 1..m |-> s[i]] /\ t = [i \in 1..m |-> t[i]]
    BY <1>5
  <2>2. \A i \in 1..m : s[i] \in Nat /\ t[i] \in Nat
    BY <1>6
  <2> HIDE DEF s, t, m
  <2>3. s \in [1..m -> Nat] /\ t \in [1..m -> Nat]
    BY <2>1, <2>2
  <2>4. QED BY <1>5, <2>3
<1>8. Bytes(answer) = Total(s)
  BY DEF Bytes
<1> HIDE DEF s, t, m
<1>9. Total(s) = Total(t) <=> \A i \in 1..m : s[i] = t[i]
  <2>1. \A i \in 1..Len(s) : s[i] <= t[i]
    BY <1>6, <1>7
  <2>2. Total(s) = Total(t) <=> \A i \in 1..Len(s) : s[i] = t[i]
    BY <1>7, <2>1, TotalsAgree
  <2>3. QED BY <1>7, <2>2
<1>10. Bytes(answer) = Total(t) <=> \A i \in DOMAIN answer : ~answer[i].failed
  BY <1>5, <1>6, <1>8, <1>9
<1>11. QED BY <1>10 DEF t

-----------------------------------------------------------------------------
LEMMA FileInductive == FileSpec => []FileInv
<1>1. FileInit => FileInv
  BY FileInits
<1>2. FileInv /\ [FileNext]_file_vars => FileInv'
  BY FileSteps
<1>3. QED BY <1>1, <1>2, PTL DEF FileSpec

(* HeaderFileAnswered: a file kept in its inode is answered when it holds no
   padding and its inode is not chained, and else only by coincidence. *)
THEOREM HeaderFilesAlwaysAnswered == FileSpec => []HeaderFileAnswered
BY FileInductive, HeaderFiles, PTL

(* BlockFileAnswered: of a file in data blocks that lie where MFS counts
   them, on a byte-swapped drive, every piece that is not the dummy text has
   its full length and the stored words up to where its read has ended, with
   zeros behind; and the file is answered when every block was read in full. *)
THEOREM BlockFilesAlwaysAnswered == FileSpec => []BlockFileAnswered
BY FileInductive, BlockFiles, PTL

(* LengthTellsFailure: the length of the answer is that of all blocks
   together exactly when no read was an error; a read that ended early is
   none. *)
THEOREM LengthAlwaysTells == FileSpec => []LengthTellsFailure
BY FileInductive, Lengths, PTL
=============================================================================
