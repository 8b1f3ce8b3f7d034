-------------------------- MODULE SectorMap_proofs --------------------------
(***************************************************************************)
(* The facts the proofs of the components share: the address arithmetic of *)
(* SectorMap, for every volume table and every sector, and what a fold     *)
(* over a sequence computes.  Both rest on the least-number principle.     *)
(***************************************************************************)
EXTENDS SectorMap, WellFoundedInduction, TLAPS

(* Every non-empty set of naturals has a least element; the least-number
   principle of the library, restated without an operator parameter. *)
LEMMA LeastNat ==
  ASSUME NEW T \in SUBSET Nat, T # {}
  PROVE  \E x \in T : \A y \in T : x <= y
<1> DEFINE R == {ss \in Nat \X Nat : ss[1] < ss[2]}
<1>1. IsWellFoundedOn(R, Nat)
  BY NatLessThanWellFounded DEF OpToRel
<1>2. \A x, y \in Nat : y < x => <<y, x>> \in R
  OBVIOUS
<1> HIDE DEF R
<1>3. PICK x \in T : \A y \in T : ~ (<<y, x>> \in R)
  BY <1>1, WFMin
<1>4. ASSUME NEW y \in T PROVE x <= y
  <2>1. x \in Nat /\ y \in Nat
    OBVIOUS
  <2>2. ~(y < x)
    BY <1>2, <1>3, <2>1
  <2>3. QED BY <2>1, <2>2
<1>5. QED BY <1>4

(* `find` returns a volume that accepts the sector, and no earlier volume of
   the table accepts it. *)
LEMMA VolumeIndexIsFirst ==
  ASSUME NEW vols \in Seq(Volume), NEW s, Covering(vols, s) # {}
  PROVE  /\ VolumeIndex(vols, s) \in DOMAIN vols
         /\ Covers(vols[VolumeIndex(vols, s)], s)
         /\ \A j \in DOMAIN vols : Covers(vols[j], s) => VolumeIndex(vols, s) <= j
<1>1. Covering(vols, s) \in SUBSET Nat
  BY DEF Covering
<1>2. \E k \in Covering(vols, s) : \A j \in Covering(vols, s) : k <= j
  BY <1>1, LeastNat
<1>3. /\ VolumeIndex(vols, s) \in Covering(vols, s)
      /\ \A j \in Covering(vols, s) : VolumeIndex(vols, s) <= j
  BY <1>2 DEF VolumeIndex
<1>4. QED BY <1>3 DEF Covering

(* The translation of a covered sector is a drive sector. *)
LEMMA DiskLocationType ==
  ASSUME NEW vols \in Seq(Volume), NEW s \in Nat, Covering(vols, s) # {}
  PROVE  /\ FindSectorVolume(vols, s) \in Volume
         /\ SectorToDiskLocation(vols, s) \in Nat
<1> DEFINE k == VolumeIndex(vols, s)
<1>1. k \in DOMAIN vols /\ Covers(vols[k], s)
  BY VolumeIndexIsFirst
<1>2. vols[k] \in Volume
  BY <1>1
<1>3. QED
  BY <1>1, <1>2, SMTT(30) DEF FindSectorVolume, SectorToDiskLocation, Covers, Volume

(* In a table without gaps or overlaps, later volumes start no earlier than
   earlier ones end. *)
OneAfterAnother(vols) ==
  \A j, k \in DOMAIN vols : j < k => EndOf(vols[j]) <= vols[k].sector_start

(* A sector strictly inside the k-th volume is found in that volume, at the
   same offset of its partition. *)
LEMMA InteriorFound ==
  ASSUME NEW vols \in Seq(Volume), OneAfterAnother(vols), NEW k \in DOMAIN vols,
         NEW s \in Nat, s < EndOf(vols[k]),
         \/ vols[k].sector_start < s
         \/ k = 1 /\ vols[k].sector_start = s
  PROVE  /\ VolumeIndex(vols, s) = k
         /\ SectorToDiskLocation(vols, s) - vols[k].disk_sector
              = s - vols[k].sector_start
<1> DEFINE i == VolumeIndex(vols, s)
<1>1. vols[k] \in Volume
  OBVIOUS
<1>2. Covers(vols[k], s)
  BY <1>1, SMTT(30) DEF Covers, EndOf, Volume
<1>3. i \in DOMAIN vols /\ Covers(vols[i], s) /\ i <= k
  BY <1>2, VolumeIndexIsFirst DEF Covering
<1>4. vols[i] \in Volume
  BY <1>3
<1>5. ~(i < k)
  BY <1>1, <1>3, <1>4, SMTT(30) DEF OneAfterAnother, Covers, EndOf, Volume
<1>6. i = k
  BY <1>3, <1>5
<1>7. FindSectorVolume(vols, s) = vols[k]
  BY <1>6 DEF FindSectorVolume
<1>8. /\ vols[k].disk_sector \in Nat /\ vols[k].sector_start \in Nat
      /\ SectorToDiskLocation(vols, s) = s - vols[k].sector_start + vols[k].disk_sector
  BY <1>1, <1>7 DEF SectorToDiskLocation, Volume
<1>9. QED BY <1>6, <1>8

(* What an inclusive bound leaves between a range and a later one. *)
LEMMA SqueezedBetween ==
  ASSUME NEW s \in Nat, NEW a \in Nat, NEW c \in Nat, a + c <= s, s <= a + c
  PROVE  s - a = c
OBVIOUS

(* The first sector of a later volume is found in an earlier one, one past
   the end of its partition. *)
LEMMA BoundaryFound ==
  ASSUME NEW vols \in Seq(Volume), OneAfterAnother(vols), Adjoining(vols),
         NEW k \in (DOMAIN vols) \ {1}, NEW s, s = vols[k].sector_start
  PROVE  LET i == VolumeIndex(vols, s)
         IN  /\ i < k
             /\ SectorToDiskLocation(vols, s)
                  = vols[i].disk_sector + vols[i].sector_count
<1> DEFINE i == VolumeIndex(vols, s)
<1>1. k - 1 \in DOMAIN vols
  OBVIOUS
<1>2. vols[k] \in Volume /\ vols[k - 1] \in Volume
  BY <1>1
<1>3. s = EndOf(vols[k - 1])
  BY DEF Adjoining
<1>4. Covers(vols[k - 1], s)
  BY <1>2, <1>3, SMTT(30) DEF Covers, EndOf, Volume
<1>5. i \in DOMAIN vols /\ Covers(vols[i], s) /\ i <= k - 1
  BY <1>1, <1>4, VolumeIndexIsFirst DEF Covering
<1>6. vols[i] \in Volume
  BY <1>5
<1>7. i < k
  BY <1>5
<1>8. EndOf(vols[i]) <= s
  BY <1>5, <1>7 DEF OneAfterAnother
<1>9. s - vols[i].sector_start = vols[i].sector_count
  <2> HIDE DEF i
  <2>1. s \in Nat
    BY <1>2 DEF Volume
  <2>2. vols[i].sector_start \in Nat /\ vols[i].sector_count \in Nat
    BY <1>6 DEF Volume
  <2>3. vols[i].sector_start + vols[i].sector_count <= s
    BY <1>8 DEF EndOf
  <2>4. s <= vols[i].sector_start + vols[i].sector_count
    BY <1>5 DEF Covers, EndOf
  <2>5. QED BY <2>1, <2>2, <2>3, <2>4, SqueezedBetween
<1>10. QED
  BY <1>6, <1>7, <1>9 DEF SectorToDiskLocation, FindSectorVolume, Volume

(* Every sector up to the end of the last volume is in some volume, so the
   translation of it cannot panic. *)
LEMMA AdjoiningCovers ==
  ASSUME NEW vols \in Seq(Volume), Adjoining(vols), vols # <<>>,
         NEW s \in Nat, s <= EndOf(vols[Len(vols)])
  PROVE  Covering(vols, s) # {}
<1> DEFINE T == {k \in DOMAIN vols : s <= EndOf(vols[k])}
<1>1. Len(vols) \in T
  OBVIOUS
<1>2. T \in SUBSET Nat
  OBVIOUS
<1>3. PICK k \in T : \A j \in T : k <= j
  BY <1>1, <1>2, LeastNat
<1>4. k \in DOMAIN vols /\ s <= EndOf(vols[k]) /\ vols[k] \in Volume
  OBVIOUS
<1>5. vols[k].sector_start <= s
  <2>1. CASE k = 1
    BY <1>4, <2>1 DEF Adjoining
  <2>2. CASE k # 1
    <3>1. k - 1 \in DOMAIN vols /\ ~(k <= k - 1)
      BY <1>4, <2>2
    <3>2. k - 1 \notin T
      BY <1>3, <3>1
    <3>3. vols[k - 1] \in Volume /\ ~(s <= EndOf(vols[k - 1]))
      BY <3>1, <3>2
    <3>4. vols[k].sector_start = EndOf(vols[k - 1])
      BY <1>4, <2>2 DEF Adjoining
    <3>5. QED BY <1>4, <3>3, <3>4, SMTT(30) DEF EndOf, Volume
  <2>3. QED BY <2>1, <2>2
<1>6. Covers(vols[k], s)
  BY <1>4, <1>5 DEF Covers
<1>7. QED BY <1>4, <1>6 DEF Covering

-----------------------------------------------------------------------------
(* What holds from each member of a sequence to the next holds from an
   earlier to a later one, if the relation R composes. *)
LEMMA Rising ==
  ASSUME NEW n \in Nat, NEW S, NEW R,
         \A x \in S : <<x, x>> \in R,
         \A x, y, z \in S : <<x, y>> \in R /\ <<y, z>> \in R => <<x, z>> \in R,
         NEW f, \A k \in 0..n : f[k] \in S,
         \A k \in 1..n : <<f[k - 1], f[k]>> \in R,
         NEW i \in 0..n, NEW j \in i..n
  PROVE  <<f[i], f[j]>> \in R
<1> DEFINE T == {k \in i..n : <<f[i], f[k]>> \notin R}
<1>1. SUFFICES ASSUME T # {} PROVE FALSE
  OBVIOUS
<1>2. PICK k \in T : \A l \in T : k <= l
  <2>1. T \in SUBSET Nat
    OBVIOUS
  <2> HIDE DEF T
  <2>2. QED BY <1>1, <2>1, LeastNat
<1>3. k \in i..n /\ <<f[i], f[k]>> \notin R
  OBVIOUS
<1>4. k # i
  BY <1>3
<1>5. k - 1 \in i..n /\ k - 1 \in 0..n /\ k \in 1..n /\ k \in 0..n /\ k - 1 < k
  BY <1>3, <1>4
<1>6. <<f[i], f[k - 1]>> \in R
  <2>1. k - 1 \notin T
    <3> HIDE DEF T
    <3>1. QED BY <1>2, <1>3, <1>5
  <2>2. QED BY <1>5, <2>1
<1>7. <<f[k - 1], f[k]>> \in R /\ f[i] \in S /\ f[k - 1] \in S /\ f[k] \in S
  BY <1>5
<1>8. QED BY <1>3, <1>6, <1>7

-----------------------------------------------------------------------------
(***************************************************************************)
(* Folds over sequences.  FoldLeft of the community modules recurses over  *)
(* the set of indices not yet taken, from its largest element down.        *)
(* Folded(g, n, base, h) says that g is that recursion for n elements,     *)
(* where h[i][a] is what element i makes of the accumulated value a.       *)
(***************************************************************************)
Top(t) == CHOOSE x \in t : \A y \in t : x >= y
Folded(g, n, base, h) ==
  g = [t \in SUBSET (1..n) |->
         IF t = {} THEN base ELSE h[Top(t)][g[t \ {Top(t)}]]]

(* No step leaves A; two folds take the same steps in A. *)
Closed(h, n, A) == \A i \in 1..n : \A a \in A : h[i][a] \in A
SameSteps(h, j, n, A) == \A i \in 1..n : \A a \in A : j[i][a] = h[i][a]

(* A non-empty set of indices has a largest element. *)
LEMMA TopIsLargest ==
  ASSUME NEW n \in Nat, NEW t \in SUBSET (1..n), t # {}
  PROVE  Top(t) \in t /\ \A y \in t : Top(t) >= y
<1> DEFINE U == {u \in Nat : \A y \in t : u >= y}
<1>1. n \in U
  OBVIOUS
<1>2. PICK x \in U : \A u \in U : x <= u
  <2>1. U \in SUBSET Nat /\ U # {}
    BY <1>1
  <2> HIDE DEF U
  <2>2. QED BY <2>1, LeastNat
<1>3. x \in t
  <2>1. SUFFICES ASSUME x \notin t PROVE FALSE
    OBVIOUS
  <2>2. PICK z \in t : TRUE
    OBVIOUS
  <2>3. x - 1 \in Nat /\ \A y \in t : x - 1 >= y
    BY <2>1, <2>2
  <2>4. QED BY <1>2, <2>3
<1>4. QED BY <1>2, <1>3 DEF Top

(* The indices of a prefix, without its last one. *)
LEMMA TopOfInterval ==
  ASSUME NEW k \in Nat \ {0}
  PROVE  Top(1..k) = k /\ (1..k) \ {k} = 1..(k - 1) /\ 1..k # {}
<1>1. k \in 1..k /\ 1..k \in SUBSET (1..k)
  OBVIOUS
<1>2. Top(1..k) \in 1..k /\ Top(1..k) >= k
  BY <1>1, TopIsLargest
<1>3. QED BY <1>2

(* What is left of a set of indices without its largest. *)
LEMMA WithoutTop ==
  ASSUME NEW m \in Nat \ {0}, NEW t \in SUBSET (1..m), t # {}
  PROVE  /\ Top(t) \in 1..m
         /\ t \ {Top(t)} \in SUBSET (1..(m - 1))
<1>1. Top(t) \in t /\ \A y \in t : Top(t) >= y
  BY TopIsLargest
<1>2. ASSUME NEW y \in t \ {Top(t)} PROVE y \in 1..(m - 1)
  <2>1. y \in 1..m /\ y # Top(t) /\ Top(t) >= y /\ Top(t) \in 1..m
    BY <1>1
  <2>2. QED BY <2>1
<1>3. QED BY <1>1, <1>2

(* The recursion has a solution, for any number of elements. *)
LEMMA FoldExists ==
  ASSUME NEW n \in Nat, NEW base, NEW h
  PROVE  \E g : Folded(g, n, base, h)
<1> DEFINE T == {m \in Nat : ~ \E g : Folded(g, m, base, h)}
<1>1. SUFFICES ASSUME T # {} PROVE FALSE
  OBVIOUS
<1>2. PICK m \in T : \A k \in T : m <= k
  <2>1. T \in SUBSET Nat
    OBVIOUS
  <2> HIDE DEF T
  <2>2. QED BY <1>1, <2>1, LeastNat
<1>3. m \in Nat /\ ~ \E g : Folded(g, m, base, h)
  OBVIOUS
<1>4. CASE m = 0
  <2>1. SUBSET (1..0) = {{}}
    OBVIOUS
  <2>2. Folded([t \in SUBSET (1..0) |-> base], 0, base, h)
    BY <2>1 DEF Folded
  <2>3. QED BY <1>3, <1>4, <2>2
<1>5. CASE m # 0
  <2>1. m - 1 \in Nat /\ m - 1 \notin T
    BY <1>2, <1>3, <1>5
  <2>2. PICK f : Folded(f, m - 1, base, h)
    BY <2>1
  <2> DEFINE g == [t \in SUBSET (1..m) |->
                     IF t = {} THEN base
                     ELSE h[Top(t)][f[t \ {Top(t)}]]]
  <2>3. ASSUME NEW t \in SUBSET (1..m), t # {}
        PROVE  /\ t \ {Top(t)} \in SUBSET (1..(m - 1))
               /\ f[t \ {Top(t)}] = g[t \ {Top(t)}]
    <3> DEFINE r == t \ {Top(t)}
    <3>3. r \in SUBSET (1..(m - 1)) /\ r \in SUBSET (1..m)
      BY <1>3, <1>5, <2>3, WithoutTop
    <3>4. f[r] = IF r = {} THEN base ELSE h[Top(r)][f[r \ {Top(r)}]]
      <4> HIDE DEF r
      <4>1. QED BY <2>2, <3>3 DEF Folded
    <3>5. QED BY <3>3, <3>4
  <2>4. Folded(g, m, base, h)
    <3>1. \A t \in SUBSET (1..m) :
            (IF t = {} THEN base ELSE h[Top(t)][f[t \ {Top(t)}]])
              = (IF t = {} THEN base ELSE h[Top(t)][g[t \ {Top(t)}]])
      BY <2>3
    <3>2. g = [t \in SUBSET (1..m) |->
                 IF t = {} THEN base ELSE h[Top(t)][g[t \ {Top(t)}]]]
      <4> DEFINE e(t) == IF t = {} THEN base ELSE h[Top(t)][g[t \ {Top(t)}]]
      <4>1. \A t \in SUBSET (1..m) : g[t] = e(t)
        BY <3>1
      <4>2. g = [t \in SUBSET (1..m) |-> g[t]]
        OBVIOUS
      <4> HIDE DEF g
      <4>3. [t \in SUBSET (1..m) |-> g[t]] = [t \in SUBSET (1..m) |-> e(t)]
        <5> HIDE DEF e
        <5>1. QED BY <4>1
      <4>4. QED BY <4>2, <4>3
    <3> HIDE DEF g
    <3>3. QED BY <3>2 DEF Folded
  <2>5. QED BY <1>3, <2>4
<1>6. QED BY <1>4, <1>5

(* Over a prefix of the indices the recursion takes one element at a time. *)
LEMMA FoldStep ==
  ASSUME NEW n \in Nat, NEW base, NEW h, NEW g, Folded(g, n, base, h)
  PROVE  /\ g[{}] = base
         /\ \A k \in 1..n : g[1..k] = h[k][g[1..(k - 1)]]
<1>1. g[{}] = base
  <2>1. {} \in SUBSET (1..n)
    OBVIOUS
  <2>2. QED BY <2>1 DEF Folded
<1>2. ASSUME NEW k \in 1..n PROVE g[1..k] = h[k][g[1..(k - 1)]]
  <2>1. 1..k \in SUBSET (1..n) /\ k \in Nat \ {0}
    OBVIOUS
  <2>2. Top(1..k) = k /\ (1..k) \ {k} = 1..(k - 1) /\ 1..k # {}
    BY <2>1, TopOfInterval
  <2> DEFINE r == 1..k
  <2>3. g[r] = IF r = {} THEN base ELSE h[Top(r)][g[r \ {Top(r)}]]
    <3> HIDE DEF r
    <3>1. r \in SUBSET (1..n)
      BY <2>1 DEF r
    <3>2. QED BY <3>1 DEF Folded
  <2>4. QED BY <2>2, <2>3
<1>3. QED BY <1>1, <1>2

(* Folds that take the same steps go through the same values. *)
LEMMA FoldAgree ==
  ASSUME NEW n \in Nat, NEW m \in Nat, n <= m, NEW A, NEW base \in A, NEW h, NEW j,
         Closed(h, n, A), SameSteps(h, j, n, A),
         NEW g, Folded(g, n, base, h), NEW f, Folded(f, m, base, j)
  PROVE  \A k \in 0..n : g[1..k] \in A /\ f[1..k] = g[1..k]
<1> DEFINE P(k) == g[1..k] \in A /\ f[1..k] = g[1..k]
           T == {k \in 0..n : ~P(k)}
<1>1. SUFFICES ASSUME T # {} PROVE FALSE
  OBVIOUS
<1>2. PICK k \in T : \A i \in T : k <= i
  <2>1. T \in SUBSET Nat
    OBVIOUS
  <2> HIDE DEF T
  <2>2. QED BY <1>1, <2>1, LeastNat
<1>3. k \in 0..n /\ ~P(k)
  OBVIOUS
<1>4. CASE k = 0
  <2>1. 1..k = {}
    BY <1>4
  <2>2. g[{}] = base /\ f[{}] = base
    <3> HIDE DEF T, P
    <3>1. g[{}] = base
      BY FoldStep
    <3>2. f[{}] = base
      BY FoldStep
    <3>3. QED BY <3>1, <3>2
  <2>3. QED BY <1>3, <2>1, <2>2
<1>5. CASE k # 0
  <2>1. k - 1 \in 0..n /\ k - 1 \notin T /\ k \in 1..n /\ k \in 1..m
    BY <1>2, <1>3, <1>5
  <2>2. g[1..(k - 1)] \in A /\ f[1..(k - 1)] = g[1..(k - 1)]
    BY <2>1
  <2>3. g[1..k] = h[k][g[1..(k - 1)]] /\ f[1..k] = j[k][f[1..(k - 1)]]
    BY <2>1, FoldStep
  <2>4. QED BY <1>3, <2>1, <2>2, <2>3 DEF Closed, SameSteps
<1>6. QED BY <1>4, <1>5

(* One element more is one step more. *)
LEMMA FoldAppend ==
  ASSUME NEW n \in Nat, NEW A, NEW base \in A, NEW h, NEW j,
         Closed(h, n, A), SameSteps(h, j, n, A),
         NEW g, Folded(g, n, base, h), NEW f, Folded(f, n + 1, base, j)
  PROVE  g[1..n] \in A /\ f[1..(n + 1)] = j[n + 1][g[1..n]]
<1>1. n + 1 \in Nat /\ n <= n + 1 /\ n \in 0..n /\ n + 1 \in 1..(n + 1) /\ (n + 1) - 1 = n
  OBVIOUS
<1>2. \A k \in 0..n : g[1..k] \in A /\ f[1..k] = g[1..k]
  <2> DEFINE m == n + 1
  <2>1. m \in Nat /\ n <= m /\ Folded(f, m, base, j)
    BY <1>1
  <2> HIDE DEF m
  <2>2. QED BY <2>1, FoldAgree
<1>3. f[1..(n + 1)] = j[n + 1][f[1..((n + 1) - 1)]]
  BY <1>1, FoldStep
<1>4. QED BY <1>1, <1>2, <1>3

(* A recursion that takes the steps of h as long as the accumulated value is
   in A is the one of h, and never leaves A. *)
LEMMA FoldTyped ==
  ASSUME NEW n \in Nat, NEW A, NEW base \in A, NEW h,
         Closed(h, n, A),
         NEW g, g = [t \in SUBSET (1..n) |-> g[t]], g[{}] = base,
         \A t \in SUBSET (1..n) :
           t # {} /\ g[t \ {Top(t)}] \in A => g[t] = h[Top(t)][g[t \ {Top(t)}]]
  PROVE  Folded(g, n, base, h) /\ \A t \in SUBSET (1..n) : g[t] \in A
<1> DEFINE T == {k \in 0..n : \E t \in SUBSET (1..k) : g[t] \notin A}
<1>1. ASSUME T # {} PROVE FALSE
  <2>1. PICK k \in T : \A i \in T : k <= i
    <3>1. T \in SUBSET Nat
      OBVIOUS
    <3> HIDE DEF T
    <3>2. QED BY <1>1, <3>1, LeastNat
  <2>2. PICK t \in SUBSET (1..k) : g[t] \notin A
    OBVIOUS
  <2>3. t # {} /\ k \in 0..n /\ k # 0 /\ k - 1 \in 0..n /\ k - 1 \notin T
    <3>1. t # {} /\ k \in 0..n
      BY <2>2
    <3>2. k # 0
      BY <2>2, <3>1
    <3>3. k - 1 \in 0..n /\ ~(k <= k - 1)
      BY <3>1, <3>2
    <3>4. k - 1 \notin T
      <4> HIDE DEF T
      <4>1. QED BY <2>1, <3>3
    <3>5. QED BY <3>1, <3>2, <3>3, <3>4
  <2>4. t \ {Top(t)} \in SUBSET (1..(k - 1)) /\ Top(t) \in 1..k
    BY <2>3, WithoutTop
  <2>5. g[t \ {Top(t)}] \in A
    BY <2>3, <2>4
  <2>6. t \in SUBSET (1..n) /\ Top(t) \in 1..n
    BY <2>3, <2>4
  <2>7. g[t] = h[Top(t)][g[t \ {Top(t)}]]
    BY <2>3, <2>5, <2>6
  <2>8. QED BY <2>2, <2>5, <2>6, <2>7 DEF Closed
<1>2. \A t \in SUBSET (1..n) : g[t] \in A
  BY <1>1
<1>3. ASSUME NEW t \in SUBSET (1..n), t # {}
      PROVE  g[t] = h[Top(t)][g[t \ {Top(t)}]]
  <2>1. t \ {Top(t)} \in SUBSET (1..n)
    OBVIOUS
  <2>2. QED BY <1>2, <1>3, <2>1
<1>4. [t \in SUBSET (1..n) |-> g[t]] = [t \in SUBSET (1..n) |->
         IF t = {} THEN base ELSE h[Top(t)][g[t \ {Top(t)}]]]
  BY <1>3
<1>5. QED BY <1>2, <1>4 DEF Folded

(* A solution that never leaves A. *)
LEMMA FoldInSet ==
  ASSUME NEW n \in Nat, NEW A, NEW base \in A, NEW h,
         Closed(h, n, A)
  PROVE  \E g : Folded(g, n, base, h) /\ \A t \in SUBSET (1..n) : g[t] \in A
<1>1. PICK g : Folded(g, n, base, h)
  BY FoldExists
<1>2. g[{}] = base
  BY <1>1, FoldStep
<1>3. g = [t \in SUBSET (1..n) |-> g[t]]
  BY <1>1 DEF Folded
<1>4. ASSUME NEW t \in SUBSET (1..n), t # {}
      PROVE  g[t] = h[Top(t)][g[t \ {Top(t)}]]
  BY <1>1, <1>4 DEF Folded
<1>5. QED BY <1>2, <1>3, <1>4, FoldTyped
=============================================================================
