---------------------------- MODULE TivoFS_proofs ----------------------------
(***************************************************************************)
(* Proofs about TivoFS, for every set of drives, paths and callers and any *)
(* number of outages.                                                      *)
(*                                                                         *)
(* A step of a thread changes one call; the invariant is therefore a       *)
(* predicate on calls (Good), and what has to be shown of a step is that   *)
(* the call it leaves behind is good again.  While the drive stays, a call *)
(* on its way follows a trail that is known to exist: the kernel has been  *)
(* told before that the path above is a directory.  Once it has gone away  *)
(* a call may hold any part of the drive, and what its listings show are   *)
(* entries of some table, cut short anywhere (ShownFacts).                 *)
(*                                                                         *)
(* The last section shows the refinement of FileTree.  What a call holds   *)
(* on its way is compared with what FileTree means by its path (Walked,    *)
(* Held), and every step of a handler is then a stutter, or the Tell of    *)
(* the call that it answers (Serves).                                      *)
(***************************************************************************)
EXTENDS TivoFS, SectorMap_proofs, SequenceTheorems

-----------------------------------------------------------------------------
(* Tables, entries and their names. *)

Seen(d, cut) == {d.whole} \cup (IF cut THEN Parts(d) ELSE {})
Below(d, cut) == {NoFsid} \cup Within(d, cut)
Child(d, f, name) == Tree!Children(d, f, name, FALSE)

LEMMA TableFacts ==
  ASSUME NEW t, NEW fsids, IsTable(t, fsids), NEW f \in fsids
  PROVE  /\ t[f] \in LookedUp
         /\ t[f].entries \in Seq(Entry)
         /\ DOMAIN t[f].entries = 1..Len(t[f].entries)
         /\ Len(t[f].entries) \in Nat
         /\ \A i \in DOMAIN t[f].entries :
              /\ t[f].entries[i] \in Entry
              /\ t[f].entries[i].fsid \in fsids
<1>1. t[f] \in LookedUp
  BY DEF IsTable
<1>2. t[f].entries \in Seq(Entry)
  BY <1>1 DEF LookedUp
<1>3. QED BY <1>1, <1>2 DEF IsTable

LEMMA SeenFacts ==
  ASSUME NEW d, IsDrive(d), NEW cut, NEW t \in Seen(d, cut)
  PROVE  IsTable(t, DOMAIN d.whole)
BY DEF Seen, Parts, IsDrive

(* `find` returns the fsid of the first entry of that name. *)
LEMMA FirstNamedIsEntry ==
  ASSUME NEW entries \in Seq(Entry), NEW name, Present(entries, name)
  PROVE  \E i \in DOMAIN entries :
           /\ FirstNamed(entries, name) = entries[i].fsid
           /\ entries[i].name = name
           /\ \A j \in 1..(i - 1) : entries[j].name # name
<1> DEFINE found == {i \in DOMAIN entries : entries[i].name = name}
           first == CHOOSE i \in found : \A j \in found : i <= j
<1>1. found \in SUBSET Nat /\ found # {}
  BY DEF Present
<1>2. \E i \in found : \A j \in found : i <= j
  BY <1>1, LeastNat
<1>3. first \in found /\ \A j \in found : first <= j
  BY <1>2
<1>4. FirstNamed(entries, name) = entries[first].fsid
  BY DEF FirstNamed
<1> HIDE DEF first
<1>5. first \in 1..Len(entries) /\ Len(entries) \in Nat /\ entries[first].name = name
  BY <1>3
<1>6. ASSUME NEW j \in 1..(first - 1)
      PROVE  entries[j].name # name
  <2>1. j \in 1..Len(entries) /\ j < first
    BY <1>5
  <2>2. j \notin found
    BY <1>3, <1>5, <2>1
  <2>3. QED BY <2>1, <2>2
<1>7. QED BY <1>4, <1>5, <1>6

(* What is left of entries keeps their fsids, and all their names but
   perhaps the last. *)
LEMMA CutShortFacts ==
  ASSUME NEW entries \in Seq(Entry), NEW shown \in CutShort(entries)
  PROVE  /\ shown \in Seq(Entry)
         /\ Len(shown) \in 0..Len(entries)
         /\ \A i \in 1..Len(shown) :
              /\ shown[i].fsid = entries[i].fsid
              /\ shown[i].name = entries[i].name \/ shown[i].name \in entries[i].stubs
         /\ \A i \in 1..(Len(shown) - 1) : shown[i].name = entries[i].name
         /\ \/ shown = SubSeq(entries, 1, Len(shown))
            \/ Len(shown) > 0 /\ shown[Len(shown)].name \in entries[Len(shown)].stubs
<1> DEFINE N == Len(entries)
<1>0. N \in Nat /\ DOMAIN entries = 1..N /\ \A i \in 1..N : entries[i] \in Entry
  OBVIOUS
<1>a. ASSUME NEW n \in 0..N
      PROVE  /\ SubSeq(entries, 1, n) \in Seq(Entry) /\ Len(SubSeq(entries, 1, n)) = n
             /\ \A i \in 1..n : SubSeq(entries, 1, n)[i] = entries[i]
  <2>1. n \in Nat /\ \A i \in 1..n : entries[i] \in Entry
    BY <1>0
  <2>2. /\ SubSeq(entries, 1, n) \in Seq(Entry)
        /\ Len(SubSeq(entries, 1, n)) = IF 1 <= n THEN n - 1 + 1 ELSE 0
        /\ \A i \in 1..(n - 1 + 1) : SubSeq(entries, 1, n)[i] = entries[1 + i - 1]
    BY <2>1, SubSeqProperties
  <2>3. QED BY <2>1, <2>2
<1>1. CASE \E n \in 0..N : shown = SubSeq(entries, 1, n)
  <2>1. PICK n \in 0..N : shown = SubSeq(entries, 1, n)
    BY <1>1
  <2>2. shown \in Seq(Entry) /\ Len(shown) = n /\ \A i \in 1..n : shown[i] = entries[i]
    BY <2>1, <1>a
  <2>3. \A i \in 1..(n - 1) : i \in 1..n
    BY <1>0
  <2>4. QED BY <2>1, <2>2, <2>3
<1>2. CASE \E n \in 1..N, stub \in STRING :
             /\ stub \in entries[n].stubs
             /\ shown = Append(SubSeq(entries, 1, n - 1), [entries[n] EXCEPT !.name = stub])
  <2>1. PICK n \in 1..N, stub \in STRING :
             /\ stub \in entries[n].stubs
             /\ shown = Append(SubSeq(entries, 1, n - 1), [entries[n] EXCEPT !.name = stub])
    BY <1>2
  <2> DEFINE before == SubSeq(entries, 1, n - 1)
             last == [entries[n] EXCEPT !.name = stub]
  <2>2. n - 1 \in 0..N /\ n \in Nat /\ n > 0
    BY <1>0
  <2>3. before \in Seq(Entry) /\ Len(before) = n - 1 /\ \A i \in 1..(n - 1) : before[i] = entries[i]
    BY <2>2, <1>a
  <2>4. last \in Entry /\ last.fsid = entries[n].fsid /\ last.name = stub
    BY <1>0, <2>1 DEF Entry
  <2> HIDE DEF before, last
  <2>5. shown = Append(before, last)
    BY <2>1 DEF before, last
  <2>6. /\ shown \in Seq(Entry) /\ Len(shown) = n
        /\ \A i \in 1..(n - 1) : shown[i] = before[i]
        /\ shown[n] = last
    BY <2>2, <2>3, <2>4, <2>5
  <2>7. ASSUME NEW i \in 1..n
        PROVE  /\ shown[i].fsid = entries[i].fsid
               /\ shown[i].name = entries[i].name \/ shown[i].name \in entries[i].stubs
    <3>1. i \in 1..(n - 1) \/ i = n
      BY <2>2
    <3>2. QED BY <2>1, <2>3, <2>4, <2>6, <3>1
  <2>8. \A i \in 1..(n - 1) : shown[i].name = entries[i].name
    BY <2>3, <2>6
  <2>9. shown[n].name \in entries[n].stubs
    BY <2>1, <2>4, <2>6
  <2>10. QED BY <2>2, <2>6, <2>7, <2>8, <2>9
<1>3. (\E n \in 0..N : shown = SubSeq(entries, 1, n)) \/
      (\E n \in 1..N, stub \in STRING :
             /\ stub \in entries[n].stubs
             /\ shown = Append(SubSeq(entries, 1, n - 1), [entries[n] EXCEPT !.name = stub]))
  <2>1. ASSUME NEW n \in 1..N, NEW stub \in entries[n].stubs
        PROVE  stub \in STRING
    BY <1>0 DEF Entry
  <2>2. QED BY <1>0, <2>1 DEF CutShort
<1>4. QED BY <1>1, <1>2, <1>3

-----------------------------------------------------------------------------
(* What a name leads to, and what can be reached. *)

(* While the drive stays, the code and the promise agree on what a name
   leads to. *)
LEMMA ChildIsFirstNamed ==
  ASSUME NEW d, IsDrive(d), NEW f \in DOMAIN d.whole, NEW name
  PROVE  Child(d, f, name) =
           IF d.loads = "ok" /\ Tree!Listed(d.whole, f) /\ Present(d.whole[f].entries, name)
           THEN {FirstNamed(d.whole[f].entries, name)} ELSE {}
<1> DEFINE entries == d.whole[f].entries
           at(i) == Tree!FoundAt(d.whole, f, i, name, FALSE)
           named(i) == entries[i].name = name /\ \A j \in 1..(i - 1) : entries[j].name # name
<1>1. entries \in Seq(Entry) /\ DOMAIN entries = 1..Len(entries) /\ Len(entries) \in Nat
  BY TableFacts DEF IsDrive
<1>2. Tree!Tables(d, FALSE) = IF d.loads = "ok" THEN {d.whole} ELSE {}
  BY DEF Tree!Tables
<1>3. \A i : at(i) <=> Tree!Listed(d.whole, f) /\ named(i)
  BY DEF Tree!FoundAt, Tree!Cut
<1>4. CASE d.loads # "ok"
  BY <1>2, <1>4 DEF Child, Tree!Children
<1>5. CASE d.loads = "ok"
  <2>1. Child(d, f, name) = {entries[i].fsid : i \in {k \in DOMAIN entries : at(k)}}
    BY <1>2, <1>5, ZenonT(40) DEF Child, Tree!Children
  <2> HIDE DEF at
  <2>2. CASE ~Tree!Listed(d.whole, f) \/ ~Present(entries, name)
    <3>1. \A k \in DOMAIN entries : ~at(k)
      BY <1>3, <2>2 DEF Present
    <3>2. QED BY <2>1, <2>2, <3>1
  <2>3. CASE Tree!Listed(d.whole, f) /\ Present(entries, name)
    <3>1. PICK i \in DOMAIN entries : FirstNamed(entries, name) = entries[i].fsid /\ named(i)
      BY <1>1, <2>3, FirstNamedIsEntry
    <3>2. ASSUME NEW k \in DOMAIN entries, named(k)
          PROVE  k = i
      <4>1. ~(k < i) /\ ~(i < k)
        <5>1. k < i => k \in 1..(i - 1)
          BY <1>1
        <5>2. i < k => i \in 1..(k - 1)
          BY <1>1
        <5>3. QED BY <3>1, <3>2, <5>1, <5>2
      <4>2. QED BY <1>1, <4>1
    <3>3. {k \in DOMAIN entries : at(k)} = {i}
      BY <1>3, <2>3, <3>1, <3>2
    <3>4. Child(d, f, name) = {entries[i].fsid}
      BY <2>1, <3>3
    <3>5. QED BY <1>5, <2>3, <3>1, <3>4
  <2>4. QED BY <2>2, <2>3
<1>6. QED BY <1>4, <1>5

LEMMA NoChild ==
  ASSUME NEW d, IsDrive(d), NEW f \in DOMAIN d.whole, NEW name,
         \/ d.loads # "ok" \/ d.whole[f].outcome # "ok" \/ d.whole[f].listing # "ok"
         \/ name \in Unnameable
  PROVE  Child(d, f, name) = {}
<1>1. CASE name \in Unnameable
  <2>1. ~Present(d.whole[f].entries, name)
    BY <1>1, TableFacts DEF Present, Entry, IsDrive
  <2>2. QED BY <2>1, ChildIsFirstNamed
<1>2. CASE d.loads # "ok" \/ d.whole[f].outcome # "ok" \/ d.whole[f].listing # "ok"
  BY <1>2, ChildIsFirstNamed DEF Tree!Listed
<1>3. QED BY <1>1, <1>2

LEMMA ChildInDrive ==
  ASSUME NEW d, IsDrive(d), NEW f \in DOMAIN d.whole, NEW name, NEW g \in Child(d, f, name)
  PROVE  g \in DOMAIN d.whole
<1> DEFINE entries == d.whole[f].entries
<1>1. entries \in Seq(Entry) /\ \A i \in DOMAIN entries : entries[i].fsid \in DOMAIN d.whole
  BY TableFacts DEF IsDrive
<1>2. Present(entries, name) /\ g = FirstNamed(entries, name)
  BY ChildIsFirstNamed
<1>3. PICK i \in DOMAIN entries : g = entries[i].fsid
  <2> HIDE DEF entries
  <2>1. QED BY <1>1, <1>2, FirstNamedIsEntry
<1>4. QED BY <1>1, <1>3

(* A name leads to one file at most while the drive stays, and to no other
   once it has gone away. *)
LEMMA ChildFacts ==
  ASSUME NEW d, IsDrive(d), NEW f \in DOMAIN d.whole, NEW name
  PROVE  /\ \A g, h \in Child(d, f, name) : g = h
         /\ Child(d, f, name) \subseteq Tree!Children(d, f, name, TRUE)
<1>1. \A g, h \in Child(d, f, name) : g = h
  BY ChildIsFirstNamed
<1>2. Tree!Tables(d, FALSE) \subseteq Tree!Tables(d, TRUE)
  BY DEF Tree!Tables
<1>3. \A t, i : Tree!FoundAt(t, f, i, name, FALSE) => Tree!FoundAt(t, f, i, name, TRUE)
  BY DEF Tree!FoundAt, Tree!Cut
<1>4. ASSUME NEW g \in Child(d, f, name)
      PROVE  g \in Tree!Children(d, f, name, TRUE)
  <2>a. PICK t \in Tree!Tables(d, FALSE) : \E i \in DOMAIN t[f].entries :
          Tree!FoundAt(t, f, i, name, FALSE) /\ g = t[f].entries[i].fsid
    BY DEF Child, Tree!Children
  <2>1. PICK i \in DOMAIN t[f].entries :
          Tree!FoundAt(t, f, i, name, FALSE) /\ g = t[f].entries[i].fsid
    BY <2>a
  <2>2. t \in Tree!Tables(d, TRUE) /\ Tree!FoundAt(t, f, i, name, TRUE)
    BY <1>2, <1>3, <2>1
  <2>3. g \in {t[f].entries[k].fsid : k \in {l \in DOMAIN t[f].entries :
                                             Tree!FoundAt(t, f, l, name, TRUE)}}
    BY <2>1, <2>2
  <2>4. QED BY <2>2, <2>3 DEF Tree!Children
<1>5. QED BY <1>1, <1>4

(* The root can be reached, and what an entry of a file that can be reached
   leads to. *)
LEMMA ReachableFacts ==
  ASSUME NEW d, IsDrive(d), NEW cut
  PROVE  /\ Within(d, cut) \subseteq DOMAIN d.whole
         /\ Root \in Within(d, cut)
         /\ \A f \in Within(d, cut), t \in Seen(d, cut) : \A i \in DOMAIN t[f].entries :
              t[f].entries[i].fsid \in Within(d, cut)
<1> DEFINE fsids == DOMAIN d.whole
           tables == Seen(d, cut)
<1>0. Within(d, cut) = Reachable(tables, fsids)
  BY DEF Within, Seen
<1>1. Within(d, cut) \subseteq fsids /\ Root \in Within(d, cut)
  BY <1>0 DEF Reachable, IsDrive
<1>2. ASSUME NEW f \in Within(d, cut), NEW t \in tables, NEW i \in DOMAIN t[f].entries
      PROVE  t[f].entries[i].fsid \in Within(d, cut)
  <2>1. t[f].entries[i].fsid \in fsids
    BY <1>1, SeenFacts, TableFacts
  <2> HIDE DEF tables, fsids
  <2>2. QED BY <1>0, <2>1 DEF Reachable
<1>3. QED BY <1>1, <1>2

LEMMA WithinGrows ==
  ASSUME NEW d, IsDrive(d)
  PROVE  Within(d, FALSE) \subseteq Within(d, TRUE)
<1>1. Seen(d, FALSE) \subseteq Seen(d, TRUE)
  BY DEF Seen
<1>2. /\ Within(d, FALSE) = Reachable(Seen(d, FALSE), DOMAIN d.whole)
      /\ Within(d, TRUE) = Reachable(Seen(d, TRUE), DOMAIN d.whole)
  BY DEF Within, Seen
<1>3. QED BY <1>1, <1>2, ZenonT(30) DEF Reachable

-----------------------------------------------------------------------------
(* What holds of a call. *)

UnderWay(r) == r.phase \in {"load", "lookup", "fetch"}

(* Every fsid in it is one it may get to. *)
Bounded(d, r) ==
  /\ r \in Call
  /\ r.previous_fsid \in Below(d, r.cut)
  /\ r.answer.fsid \in Below(d, r.cut)
  /\ \A i \in DOMAIN r.fsids : r.fsids[i] \in Below(d, r.cut)
  /\ Len(r.fsids) <= Len(r.path) + 1

(* A call on its way has an inode to look up. *)
Going(d, r) ==
  /\ r.fsids # <<>>
  /\ r.previous_fsid \in Within(d, r.cut)
  /\ r.op \in Ops
  /\ ~Resolving(r) => Last(r) # NoFsid /\ r.op \notin {"open", "opendir"}

(* The tables it looks inodes up in; it has a part of the drive only after
   an outage. *)
Mounted(d, r) == IF r.part = 0 THEN d.whole ELSE d.parts[r.part]
Sourced(d, o, r) ==
  /\ r.part # 0 => r.part \in DOMAIN d.parts /\ r.cut
  /\ r.cut => o > 0
Loaded(d, o, r) ==
  /\ Sourced(d, o, r)
  /\ r.part = 0 /\ r.phase \in {"lookup", "fetch"} => d.loads = "ok"
  /\ r.phase = "fetch" => Mounted(d, r)[Target(r)].outcome = "ok"

(* The path above exists, and what is resolved of it is on the trail. *)
Trailed(d, r) ==
  \E w \in Seq(Nat) :
    /\ Tree!Leads(d, Above(r.path), w)
    /\ \A i \in 1..Len(r.fsids) : i <= Len(r.path) => r.fsids[i] = w[i]

(* While the drive stays: *)
Following(d, r) ==
  /\ r.phase = "waiting" => r.fsids = <<>> /\ Trailed(d, r)
  /\ UnderWay(r) /\ Resolving(r) => Trailed(d, r) /\ r.previous_fsid = Last(r)
  /\ UnderWay(r) /\ ~Resolving(r) => Tree!Leads(d, r.path, r.fsids)
  /\ r.phase = "answered" => RightAnswer(d, r)

Good(d, o, r) ==
  /\ Bounded(d, r)
  /\ UnderWay(r) => Going(d, r)
  /\ r.phase = "waiting" => r.op \in Ops
  /\ Loaded(d, o, r)
  /\ o = 0 => Following(d, r)

(* A call of which one more component has been looked for. *)
Stepped(d, r) ==
  IF Resolving(r) THEN Trailed(d, r) /\ r.previous_fsid = Last(r)
  ELSE IF Last(r) = NoFsid THEN LastIsMissing(d, r)
  ELSE Tree!Leads(d, r.path, r.fsids)

LEMMA CallTypes ==
  ASSUME NEW r \in Call
  PROVE  /\ r.path \in Seq(STRING) /\ Len(r.path) \in Nat
         /\ r.fsids \in Seq(Nat) /\ Len(r.fsids) \in Nat
         /\ DOMAIN r.fsids = 1..Len(r.fsids)
         /\ r.fsids # <<>> => Len(r.fsids) \in 1..Len(r.fsids) /\ Last(r) \in Nat
<1>0. r.path \in Paths \cup {<<>>} /\ r.fsids \in Seq(Nat)
  BY DEF Call
<1>1. r.path \in Seq(STRING) /\ r.fsids \in Seq(Nat)
  <2>1. <<>> \in Seq(STRING)
    BY EmptySeq
  <2>2. QED BY <1>0, <2>1, PathsAssumption
<1>2. r.fsids # <<>> => Len(r.fsids) \in 1..Len(r.fsids) /\ r.fsids[Len(r.fsids)] \in Nat
  BY <1>1
<1>3. QED BY <1>1, <1>2 DEF Last

(* An answer about the last fsid of a call. *)
LEMMA FinishedGood ==
  ASSUME NEW d, NEW o, NEW r, Bounded(d, r), r.fsids # <<>>, Sourced(d, o, r),
         NEW kind \in {"handle", "attr", "list", "data"},
         NEW q \in Call, q.phase = "answered", q.path = r.path, q.fsids = r.fsids,
         q.previous_fsid = r.previous_fsid, q.part = r.part, q.cut = r.cut,
         q.answer.kind = kind, q.answer.fsid = Last(r),
         o = 0 => Tree!Leads(d, r.path, r.fsids)
  PROVE  Good(d, o, q)
<1>1. Last(r) \in Below(d, r.cut)
  BY CallTypes DEF Bounded, Last
<1>2. Bounded(d, q)
  BY <1>1 DEF Bounded
<1>3. o = 0 => RightAnswer(d, q)
  BY DEF RightAnswer, Last
<1>4. Loaded(d, o, q)
  BY DEF Loaded, Sourced
<1>5. QED BY <1>2, <1>3, <1>4 DEF Good, UnderWay, Following

LEMMA FailedGood ==
  ASSUME NEW d, NEW o, NEW r, Bounded(d, r), Sourced(d, o, r),
         o = 0 =>
           LastIsMissing(d, r) \/ (Tree!Leads(d, r.path, r.fsids) /\ Tree!Refuses(d, r.op, Last(r)))
  PROVE  Good(d, o, Failed(r))
<1> DEFINE q == Failed(r)
<1>1. /\ q \in Call /\ q.phase = "answered" /\ q.path = r.path /\ q.fsids = r.fsids
      /\ q.previous_fsid = r.previous_fsid /\ q.part = r.part /\ q.cut = r.cut /\ q.op = r.op
      /\ q.answer.kind = "error" /\ q.answer.fsid = NoFsid
  BY DEF Failed, Bounded, Call, Answer, NoAnswer, NoFsid
<1> HIDE DEF q
<1>2. Bounded(d, q)
  BY <1>1 DEF Bounded, Below
<1>3. o = 0 => RightAnswer(d, q)
  BY <1>1 DEF RightAnswer, LastIsMissing, Last
<1>4. Loaded(d, o, q)
  BY <1>1 DEF Loaded, Sourced
<1>5. Good(d, o, q)
  BY <1>1, <1>2, <1>3, <1>4 DEF Good, UnderWay, Following
<1>6. QED BY <1>5 DEF q

(* The next phase of a call that has not been answered. *)
LEMMA AdvancedGood ==
  ASSUME NEW d, IsDrive(d), NEW o, NEW r, Bounded(d, r), Going(d, r),
         NEW q \in Call, UnderWay(q), q.path = r.path, q.fsids = r.fsids,
         q.previous_fsid = r.previous_fsid, q.answer = r.answer, q.op = r.op,
         q.cut = r.cut \/ q.cut = TRUE, Loaded(d, o, q),
         o = 0 => /\ Resolving(r) => Trailed(d, r) /\ r.previous_fsid = Last(r)
                  /\ ~Resolving(r) => Tree!Leads(d, r.path, r.fsids)
  PROVE  Good(d, o, q)
<1>0. r.cut \in BOOLEAN /\ Within(d, r.cut) \subseteq Within(d, q.cut)
  <2>1. r.cut \in BOOLEAN
    BY DEF Bounded, Call
  <2>2. CASE r.cut = FALSE /\ q.cut = TRUE
    BY <2>2, WithinGrows
  <2>3. QED BY <2>1, <2>2
<1>1. Bounded(d, q) /\ Going(d, q)
  BY <1>0 DEF Bounded, Going, Resolving, Last, Below
<1>2. o = 0 => Following(d, q)
  BY DEF Following, UnderWay, Resolving, Trailed, Last
<1>3. /\ q.phase # "waiting" /\ q.phase # "idle" /\ q.phase # "answered"
  BY DEF UnderWay
<1>4. QED BY <1>1, <1>2, <1>3, ZenonT(30) DEF Good

LEMMA ResolvedGood ==
  ASSUME NEW d, IsDrive(d), NEW o, NEW r, Bounded(d, r), r.fsids # <<>>,
         r.previous_fsid \in Within(d, r.cut), r.op \in Ops, Sourced(d, o, r), o = 0 => Stepped(d, r)
  PROVE  Good(d, o, Resolved(r))
<1> DEFINE q == [r EXCEPT !.phase = "load", !.part = 0]
           f == Finished(r, "handle")
<1>0. /\ q \in Call /\ UnderWay(q) /\ q.path = r.path /\ q.fsids = r.fsids
      /\ q.previous_fsid = r.previous_fsid /\ q.answer = r.answer /\ q.part = 0 /\ q.cut = r.cut
      /\ q.op = r.op /\ q.phase = "load"
  BY DEF UnderWay, Bounded, Call
<1>1. q \in Call /\ UnderWay(q) /\ q.path = r.path /\ q.fsids = r.fsids
      /\ q.previous_fsid = r.previous_fsid /\ q.answer = r.answer /\ q.cut = r.cut
      /\ q.op = r.op /\ Loaded(d, o, q)
  BY <1>0 DEF Loaded, Sourced
<1>2. Last(r) \in Nat
  BY CallTypes DEF Bounded
<1>3. /\ f \in Call /\ f.phase = "answered" /\ f.path = r.path /\ f.fsids = r.fsids
      /\ f.previous_fsid = r.previous_fsid /\ f.part = r.part /\ f.cut = r.cut
      /\ f.answer.kind = "handle" /\ f.answer.fsid = Last(r)
  BY <1>2 DEF Finished, Bounded, Call, Answer, NoAnswer
<1> HIDE DEF q, f
<1>4. CASE Resolving(r)
  <2>1. Going(d, r)
    BY <1>4 DEF Going
  <2>2. Good(d, o, q)
    BY <1>1, <1>4, <2>1, AdvancedGood DEF Stepped
  <2>3. QED BY <1>4, <2>2 DEF Resolved, q
<1>5. CASE ~Resolving(r) /\ Last(r) = NoFsid
  <2>1. Good(d, o, Failed(r))
    BY <1>5, FailedGood DEF Stepped
  <2>2. QED BY <1>5, <2>1 DEF Resolved
<1>6. CASE ~Resolving(r) /\ Last(r) # NoFsid /\ r.op \in {"open", "opendir"}
  <2>1. Good(d, o, f)
    BY <1>3, <1>6, FinishedGood DEF Stepped
  <2>2. QED BY <1>6, <2>1 DEF Resolved, f
<1>7. CASE ~Resolving(r) /\ Last(r) # NoFsid /\ r.op \notin {"open", "opendir"}
  <2>1. Going(d, r)
    BY <1>7 DEF Going
  <2>2. Good(d, o, q)
    BY <1>1, <1>7, <2>1, AdvancedGood DEF Stepped
  <2>3. QED BY <1>7, <2>2 DEF Resolved, q
<1>8. QED BY <1>4, <1>5, <1>6, <1>7

-----------------------------------------------------------------------------
(* One component further. *)

LEMMA AboveFacts ==
  ASSUME NEW path \in Seq(STRING)
  PROVE  /\ path # <<>> => /\ Len(path) \in Nat \ {0}
                          /\ Len(Above(path)) = Len(path) - 1
                          /\ \A i \in 1..(Len(path) - 1) : Above(path)[i] = path[i]
         /\ path = <<>> => Above(path) = <<>>
<1>1. CASE path # <<>>
  <2> DEFINE n == Len(path)
             s == SubSeq(path, 1, n - 1)
  <2>1. n \in Nat \ {0}
    BY <1>1, EmptySeq
  <2>2. \A i \in 1..(n - 1) : path[i] \in STRING
    BY <2>1
  <2>3. /\ Len(s) = IF 1 <= n - 1 THEN (n - 1) - 1 + 1 ELSE 0
        /\ \A i \in 1..((n - 1) - 1 + 1) : s[i] = path[1 + i - 1]
    BY <2>1, <2>2, SubSeqProperties
  <2>4. s = Above(path)
    BY DEF Above
  <2> HIDE DEF s, n
  <2>5. Len(s) = n - 1
    BY <2>1, <2>3
  <2>6. \A i \in 1..(n - 1) : s[i] = path[i]
    BY <2>1, <2>3
  <2>7. QED BY <1>1, <2>1, <2>4, <2>5, <2>6 DEF n
<1>2. CASE path = <<>>
  BY <1>2, SubSeqEmpty DEF Above
<1>3. QED BY <1>1, <1>2

(* What a call that is resolving knows of its trail. *)
LEMMA OnTheTrail ==
  ASSUME NEW d, NEW r \in Call, r.fsids # <<>>, Resolving(r), Trailed(d, r),
         r.previous_fsid = Last(r)
  PROVE  /\ Len(r.fsids) \in 1..Len(r.path)
         /\ r.path # <<>>
         /\ r.fsids[1] = Root
         /\ \A i \in 1..(Len(r.fsids) - 1) :
              r.fsids[i + 1] \in Child(d, r.fsids[i], r.path[i])
         /\ r.previous_fsid = r.fsids[Len(r.fsids)]
         /\ \E w \in Seq(Nat) :
              /\ Tree!Leads(d, Above(r.path), w)
              /\ \A i \in 1..Len(r.fsids) : r.fsids[i] = w[i]
              /\ Len(r.fsids) < Len(r.path) =>
                   w[Len(r.fsids) + 1] \in Child(d, r.previous_fsid, Component(r))
<1> DEFINE k == Len(r.fsids)
           n == Len(r.path)
<1>1. k \in 1..n /\ n \in Nat /\ r.path # <<>> /\ r.path \in Seq(STRING)
  BY CallTypes, EmptySeq DEF Resolving
<1>2. PICK w \in Seq(Nat) : /\ Tree!Leads(d, Above(r.path), w)
                            /\ \A i \in 1..k : i <= n => r.fsids[i] = w[i]
  BY DEF Trailed
<1>3. /\ Len(Above(r.path)) = n - 1
      /\ \A i \in 1..(n - 1) : Above(r.path)[i] = r.path[i]
  BY <1>1, AboveFacts
<1>4. /\ w[1] = Root
      /\ \A i \in 1..(n - 1) : w[i + 1] \in Child(d, w[i], r.path[i])
  BY <1>2, <1>3 DEF Tree!Leads, Child, Tree!Root, Root
<1>5. \A i \in 1..k : r.fsids[i] = w[i]
  BY <1>1, <1>2
<1>6. r.previous_fsid = r.fsids[k]
  BY DEF Last
<1>7. r.fsids[1] = Root
  BY <1>1, <1>4, <1>5
<1>8. ASSUME NEW i \in 1..(k - 1)
      PROVE  r.fsids[i + 1] \in Child(d, r.fsids[i], r.path[i])
  <2>1. i \in 1..(n - 1) /\ i \in 1..k /\ i + 1 \in 1..k
    BY <1>1
  <2>2. QED BY <2>1, <1>4, <1>5
<1>9. k < n => w[k + 1] \in Child(d, r.previous_fsid, Component(r))
  <2>1. HAVE k < n
  <2>2. k \in 1..(n - 1) /\ k \in 1..k
    BY <1>1, <2>1
  <2>3. QED BY <2>2, <1>4, <1>5, <1>6 DEF Component
<1>10. QED BY <1>1, <1>2, <1>5, <1>6, <1>7, <1>8, <1>9

(* A component that is not there is the last one, while the drive stays. *)
LEMMA NotFoundStepped ==
  ASSUME NEW d, NEW r \in Call, r.fsids # <<>>, Resolving(r), Trailed(d, r),
         r.previous_fsid = Last(r),
         Child(d, r.previous_fsid, Component(r)) = {},
         NEW q \in Call, q.path = r.path, q.fsids = Append(r.fsids, NoFsid)
  PROVE  Stepped(d, q)
<1> DEFINE k == Len(r.fsids)
<1>0. k \in 1..Len(r.path) /\ Len(r.path) \in Nat /\ r.path \in Seq(STRING) /\ r.path # <<>>
  BY OnTheTrail, CallTypes
<1>a. ~(k < Len(r.path))
  BY OnTheTrail
<1>1. k = Len(r.path) /\ k \in Nat \ {0} /\ r.path \in Seq(STRING) /\ r.path # <<>>
  BY <1>0, <1>a
<1>2. Len(q.fsids) = k + 1 /\ q.fsids[k + 1] = NoFsid /\ \A i \in 1..k : q.fsids[i] = r.fsids[i]
  BY CallTypes
<1>3. ~Resolving(q) /\ Last(q) = NoFsid
  BY <1>1, <1>2 DEF Resolving, Last
<1> DEFINE s == SubSeq(q.fsids, 1, Len(q.path))
<1>4. Len(s) = k /\ \A i \in 1..k : s[i] = r.fsids[i]
  <2>1. \A i \in 1..k : q.fsids[i] \in Nat
    <3>1. q.fsids \in Seq(Nat)
      BY CallTypes
    <3>2. k \in Nat /\ Len(q.fsids) = k + 1
      BY <1>1, <1>2
    <3> HIDE DEF k
    <3>3. QED BY <3>1, <3>2, SMTT(30)
  <2>2. Len(s) = k /\ \A i \in 1..k : s[i] = q.fsids[1 + i - 1]
    BY <1>1, <2>1, SubSeqProperties
  <2>3. QED BY <1>1, <1>2, <2>2
<1> HIDE DEF s
<1>5. Len(Above(q.path)) = k - 1 /\ \A i \in 1..(k - 1) : Above(q.path)[i] = r.path[i]
  BY <1>1, AboveFacts
<1>6. Tree!Leads(d, Above(q.path), s)
  <2>1. s[1] = Root
    BY <1>1, <1>4, OnTheTrail
  <2>2. ASSUME NEW i \in 1..(k - 1)
        PROVE  s[i + 1] \in Child(d, s[i], Above(q.path)[i])
    <3>1. i \in 1..k /\ i + 1 \in 1..k
      BY <1>1
    <3>2. QED BY <3>1, <1>4, <1>5, OnTheTrail
  <2>3. Len(s) = Len(Above(q.path)) + 1
    BY <1>1, <1>4, <1>5
  <2>4. \A i \in 1..Len(Above(q.path)) :
          s[i + 1] \in Tree!Children(d, s[i], Above(q.path)[i], FALSE)
    BY <1>5, <2>2 DEF Child
  <2>5. QED BY <2>1, <2>3, <2>4 DEF Tree!Leads, Tree!Root, Root
<1>7. Child(d, q.fsids[k], q.path[k]) = {}
  BY <1>1, <1>2, OnTheTrail DEF Component
<1>8. LastIsMissing(d, q)
  BY <1>1, <1>6, <1>7 DEF LastIsMissing, Child, s
<1>9. QED BY <1>3, <1>8 DEF Stepped

(* A component that is there continues the trail. *)
LEMMA FoundStepped ==
  ASSUME NEW d, NEW r \in Call, r.fsids # <<>>, Resolving(r), Trailed(d, r),
         r.previous_fsid = Last(r),
         NEW f \in Nat \ {NoFsid}, f \in Child(d, r.previous_fsid, Component(r)),
         IsDrive(d), r.previous_fsid \in DOMAIN d.whole,
         NEW q \in Call, q.path = r.path, q.fsids = Append(r.fsids, f), q.previous_fsid = f
  PROVE  Stepped(d, q)
<1> DEFINE k == Len(r.fsids)
           n == Len(r.path)
<1>1. k \in 1..n /\ n \in Nat /\ r.path \in Seq(STRING) /\ r.path # <<>>
  BY OnTheTrail, CallTypes
<1>2. Len(q.fsids) = k + 1 /\ q.fsids[k + 1] = f /\ \A i \in 1..k : q.fsids[i] = r.fsids[i]
  BY CallTypes
<1>3. Last(q) = f
  BY <1>2 DEF Last
<1>4. CASE k < n
  <2>1. Resolving(q)
    BY <1>1, <1>2, <1>4 DEF Resolving
  <2>2. PICK w \in Seq(Nat) :
          /\ Tree!Leads(d, Above(r.path), w)
          /\ \A i \in 1..k : r.fsids[i] = w[i]
          /\ w[k + 1] \in Child(d, r.previous_fsid, Component(r))
    BY <1>4, OnTheTrail
  <2>a. w[k + 1] = f
    BY <2>2, ChildFacts
  <2>3. \A i \in 1..(k + 1) : q.fsids[i] = w[i]
    BY <1>1, <1>2, <2>2, <2>a, SMTT(30)
  <2>4. Trailed(d, q)
    BY <1>2, <2>2, <2>3 DEF Trailed
  <2>5. QED BY <1>3, <2>1, <2>4 DEF Stepped
<1>5. CASE k = n
  <2>1. ~Resolving(q)
    BY <1>1, <1>2, <1>5 DEF Resolving
  <2>2. q.fsids[1] = Root
    BY <1>1, <1>2, OnTheTrail
  <2>3. ASSUME NEW i \in 1..n
        PROVE  q.fsids[i + 1] \in Child(d, q.fsids[i], q.path[i])
    <3>1. CASE i < n
      <4>1. i \in 1..(k - 1) /\ i \in 1..k /\ i + 1 \in 1..k
        BY <1>1, <1>5, <3>1
      <4>2. QED BY <4>1, <1>2, OnTheTrail
    <3>2. CASE i = n
      <4>1. q.fsids[i] = r.previous_fsid /\ q.path[i] = Component(r)
        BY <1>1, <1>2, <1>5, <3>2, OnTheTrail DEF Component
      <4>2. QED BY <1>2, <1>5, <3>2, <4>1
    <3>3. i < n \/ i = n
      BY <1>1
    <3>4. QED BY <3>1, <3>2, <3>3
  <2>4. Tree!Leads(d, q.path, q.fsids)
    BY <1>1, <1>2, <1>5, <2>2, <2>3 DEF Tree!Leads, Child, Tree!Root, Root
  <2>5. QED BY <1>3, <2>1, <2>4 DEF Stepped
<1>6. QED BY <1>1, <1>4, <1>5

LEMMA AppendBounded ==
  ASSUME NEW d, IsDrive(d), NEW r, Bounded(d, r), Resolving(r),
         NEW f \in Below(d, r.cut) \cap Nat,
         NEW q \in Call, q.path = r.path, q.answer = r.answer, q.fsids = Append(r.fsids, f),
         q.cut = r.cut, q.previous_fsid \in Below(d, r.cut)
  PROVE  Bounded(d, q) /\ q.fsids # <<>>
<1>1. r \in Call /\ r.fsids \in Seq(Nat) /\ Len(r.fsids) \in Nat /\ Len(r.path) \in Nat
  BY CallTypes DEF Bounded
<1>2. /\ Len(q.fsids) = Len(r.fsids) + 1 /\ DOMAIN q.fsids = 1..(Len(r.fsids) + 1)
      /\ q.fsids[Len(r.fsids) + 1] = f
      /\ \A i \in 1..Len(r.fsids) : q.fsids[i] = r.fsids[i]
  BY <1>1
<1>3. \A i \in DOMAIN r.fsids : r.fsids[i] \in Below(d, r.cut)
  BY DEF Bounded
<1>4. \A i \in DOMAIN q.fsids : q.fsids[i] \in Below(d, r.cut)
  BY <1>1, <1>2, <1>3
<1>5. Len(q.fsids) <= Len(q.path) + 1
  BY <1>1, <1>2 DEF Resolving
<1>6. q.fsids # <<>>
  BY <1>1, <1>2
<1>7. QED BY <1>4, <1>5, <1>6 DEF Bounded

LEMMA NotFoundGood ==
  ASSUME NEW d, IsDrive(d), NEW o, NEW r, Good(d, o, r), UnderWay(r), Resolving(r),
         o = 0 => Child(d, r.previous_fsid, Component(r)) = {}
  PROVE  Good(d, o, NotFound(r))
<1> DEFINE q == [r EXCEPT !.fsids = Append(r.fsids, NoFsid)]
<1>1. /\ r \in Call /\ Bounded(d, r) /\ Going(d, r) /\ Sourced(d, o, r)
      /\ r.fsids \in Seq(Nat) /\ r.op \in Ops
  BY CallTypes DEF Good, Bounded, Going, Loaded
<1>2. Append(r.fsids, NoFsid) \in Seq(Nat)
  BY <1>1 DEF NoFsid
<1>3. /\ q \in Call /\ q.path = r.path /\ q.fsids = Append(r.fsids, NoFsid)
      /\ q.previous_fsid = r.previous_fsid /\ q.answer = r.answer /\ q.part = r.part /\ q.cut = r.cut
      /\ q.op = r.op /\ q.phase = r.phase
  BY <1>1, <1>2 DEF Call
<1>4. NotFound(r) = Resolved(q)
  BY DEF NotFound
<1> HIDE DEF q
<1>5. NoFsid \in Below(d, r.cut) \cap Nat
  BY DEF Below, NoFsid
<1>b. q.previous_fsid \in Below(d, r.cut)
  BY <1>1, <1>3 DEF Bounded
<1>6. Bounded(d, q) /\ q.fsids # <<>>
  BY <1>1, <1>3, <1>5, <1>b, AppendBounded
<1>a. Sourced(d, o, q)
  BY <1>1, <1>3 DEF Sourced
<1>7. o = 0 => Stepped(d, q)
  <2>1. HAVE o = 0
  <2>2. Trailed(d, r) /\ r.previous_fsid = Last(r)
    BY <2>1 DEF Good, Following
  <2>3. r.fsids # <<>>
    BY <1>1 DEF Going
  <2>4. QED BY <1>1, <1>3, <2>1, <2>2, <2>3, NotFoundStepped
<1>8. q.previous_fsid \in Within(d, q.cut)
  BY <1>1, <1>3 DEF Going
<1>9. Good(d, o, Resolved(q))
  BY <1>1, <1>3, <1>6, <1>7, <1>8, <1>a, ResolvedGood
<1>10. QED BY <1>4, <1>9

LEMMA FoundGood ==
  ASSUME NEW d, IsDrive(d), NEW o, NEW r, Good(d, o, r), UnderWay(r), Resolving(r),
         NEW f \in Within(d, r.cut), f \in Nat \ {NoFsid},
         o = 0 => f \in Child(d, r.previous_fsid, Component(r))
  PROVE  Good(d, o, Found(r, f))
<1> DEFINE q == [r EXCEPT !.fsids = Append(r.fsids, f), !.previous_fsid = f]
<1>1. /\ r \in Call /\ Bounded(d, r) /\ Going(d, r) /\ Sourced(d, o, r)
      /\ r.fsids \in Seq(Nat) /\ r.op \in Ops
  BY CallTypes DEF Good, Bounded, Going, Loaded
<1>2. Append(r.fsids, f) \in Seq(Nat)
  BY <1>1
<1>3. /\ q \in Call /\ q.path = r.path /\ q.fsids = Append(r.fsids, f)
      /\ q.previous_fsid = f /\ q.answer = r.answer /\ q.part = r.part /\ q.cut = r.cut
      /\ q.op = r.op /\ q.phase = r.phase
  BY <1>1, <1>2 DEF Call
<1>4. Found(r, f) = Resolved(q)
  BY DEF Found
<1> HIDE DEF q
<1>5. f \in Below(d, r.cut) \cap Nat
  BY DEF Below
<1>6. Bounded(d, q) /\ q.fsids # <<>>
  BY <1>1, <1>3, <1>5, AppendBounded
<1>a. Sourced(d, o, q)
  BY <1>1, <1>3 DEF Sourced
<1>7. o = 0 => Stepped(d, q)
  <2>1. HAVE o = 0
  <2>2. Trailed(d, r) /\ r.previous_fsid = Last(r)
    BY <2>1 DEF Good, Following
  <2>3. r.fsids # <<>>
    BY <1>1 DEF Going
  <2>a. r.previous_fsid \in DOMAIN d.whole
    BY <1>1, ReachableFacts DEF Going
  <2>4. QED BY <1>1, <1>3, <2>1, <2>2, <2>3, <2>a, FoundStepped
<1>8. Good(d, o, Resolved(q))
  BY <1>1, <1>3, <1>6, <1>7, <1>a, ResolvedGood
<1>9. QED BY <1>4, <1>8

(* The root is where every trail starts. *)
LEMMA BeginStepped ==
  ASSUME NEW d, NEW r \in Call, Trailed(d, r),
         NEW q, q.path = r.path, q.fsids = <<Root>>, q.previous_fsid = Root
  PROVE  Stepped(d, q)
<1>1. q.fsids # <<>> /\ Len(q.fsids) = 1 /\ DOMAIN q.fsids = {1} /\ q.fsids[1] = Root
  OBVIOUS
<1>2. Len(r.path) \in Nat /\ r.path \in Seq(STRING)
  BY CallTypes
<1>3. Last(q) = Root /\ Last(q) # NoFsid
  BY <1>1 DEF Last, Root, NoFsid
<1>4. CASE Resolving(q)
  <2>1. PICK w \in Seq(Nat) : Tree!Leads(d, Above(r.path), w)
    BY DEF Trailed
  <2>2. w[1] = Root
    BY <2>1 DEF Tree!Leads, Tree!Root, Root
  <2>3. Trailed(d, q)
    BY <1>1, <2>1, <2>2 DEF Trailed
  <2>4. QED BY <1>3, <1>4, <2>3 DEF Stepped
<1>5. CASE ~Resolving(q)
  <2>1. Len(q.path) = 0
    BY <1>1, <1>2, <1>5 DEF Resolving
  <2>2. Tree!Leads(d, q.path, q.fsids)
    BY <1>1, <2>1 DEF Tree!Leads, Tree!Root, Root
  <2>3. QED BY <1>3, <1>5, <2>2 DEF Stepped
<1>6. QED BY <1>4, <1>5

LEMMA BeginGood ==
  ASSUME NEW d, IsDrive(d), NEW o, NEW r, Good(d, o, r), r.phase = "waiting"
  PROVE  Good(d, o, Resolved([r EXCEPT !.fsids = <<Root>>, !.previous_fsid = Root]))
<1> DEFINE q == [r EXCEPT !.fsids = <<Root>>, !.previous_fsid = Root]
<1>1. r \in Call /\ Bounded(d, r) /\ Sourced(d, o, r) /\ r.op \in Ops
  BY DEF Good, Bounded, Loaded
<1>0. Root \in Nat /\ <<Root>> \in Seq(Nat)
  BY DEF Root
<1>2. /\ q \in Call /\ q.path = r.path /\ q.fsids = <<Root>>
      /\ q.previous_fsid = Root /\ q.answer = r.answer /\ q.part = r.part /\ q.cut = r.cut
      /\ q.op = r.op /\ q.phase = r.phase
  BY <1>0, <1>1 DEF Call
<1> HIDE DEF q
<1>3. Root \in Within(d, r.cut)
  BY ReachableFacts
<1>4. q.fsids # <<>> /\ Len(q.fsids) = 1 /\ DOMAIN q.fsids = {1} /\ q.fsids[1] = Root
  BY <1>2
<1>5. Len(r.path) \in Nat /\ r.path \in Seq(STRING)
  BY <1>1, CallTypes
<1>6. Bounded(d, q)
  BY <1>1, <1>2, <1>3, <1>4, <1>5 DEF Bounded, Below
<1>a. Sourced(d, o, q)
  BY <1>1, <1>2 DEF Sourced
<1>7. o = 0 => Stepped(d, q)
  BY <1>1, <1>2, BeginStepped DEF Good, Following
<1>8. Good(d, o, Resolved(q))
  BY <1>1, <1>2, <1>3, <1>4, <1>6, <1>7, <1>a, ResolvedGood
<1>9. QED BY <1>8 DEF q

-----------------------------------------------------------------------------
(* The inductive invariant. *)
IInv ==
  /\ TypeOK
  /\ \A c \in Calls : Good(drive, outages, call[c])
  /\ ~online => outages > 0
  /\ PanicNeedsCause

LEMMA InitGood == Init => IInv
<1> SUFFICES ASSUME Init PROVE IInv
  OBVIOUS
<1>1. Idle \in Call
  BY EmptySeq DEF Idle, Call, Answer, NoAnswer, NoFsid
<1>2. TypeOK
  BY <1>1, DrivesAssumption, MaxOutagesAssumption DEF Init, TypeOK
<1>3. Good(drive, outages, Idle)
  <2>1. /\ Idle.phase = "idle" /\ Idle.path = <<>> /\ Idle.fsids = <<>> /\ Idle.cut = FALSE
        /\ Idle.previous_fsid = NoFsid /\ Idle.part = 0 /\ Idle.answer.fsid = NoFsid
    BY DEF Idle, NoAnswer
  <2> DEFINE r == Idle
  <2>2. r \in Call
    BY <1>1
  <2> HIDE DEF r
  <2>3. /\ r.phase = "idle" /\ r.path = <<>> /\ r.fsids = <<>> /\ r.cut = FALSE
        /\ r.previous_fsid = NoFsid /\ r.part = 0 /\ r.answer.fsid = NoFsid
    BY <2>1 DEF r
  <2>4. Len(r.fsids) = 0 /\ Len(r.path) = 0 /\ DOMAIN r.fsids = {}
    BY <2>3
  <2>5. Bounded(drive, r)
    BY <2>2, <2>3, <2>4 DEF Bounded, Below
  <2>6. Good(drive, outages, r)
    BY <2>3, <2>5 DEF Good, UnderWay, Following, Loaded, Sourced
  <2>7. QED BY <2>6 DEF r
<1>4. QED BY <1>2, <1>3 DEF Init, IInv, PanicNeedsCause

(* The queues stay queues of callers. *)
LEMMA LeaveQueueType ==
  ASSUME requests \in Seq(Calls), reads \in Seq(Calls), NEW c \in Calls,
         InSession(c) \/ InWorker(c), LeaveQueue(c)
  PROVE  requests' \in Seq(Calls) /\ reads' \in Seq(Calls)
<1>1. CASE InWorker(c)
  <2>1. reads # <<>>
    BY <1>1 DEF InWorker, AtHead
  <2>2. Tail(reads) \in Seq(Calls)
    BY <2>1, HeadTailProperties
  <2>3. QED BY <1>1, <2>2 DEF LeaveQueue
<1>2. CASE ~InWorker(c)
  <2>1. requests # <<>>
    BY <1>2 DEF InSession, AtHead
  <2>2. Tail(requests) \in Seq(Calls)
    BY <2>1, HeadTailProperties
  <2>3. QED BY <1>2, <2>2 DEF LeaveQueue
<1>3. QED BY <1>1, <1>2

(* A thread that leaves a good call behind keeps the invariant. *)
LEMMA BecomesKeeps ==
  ASSUME IInv, NEW c \in Calls, alive, InSession(c) \/ InWorker(c), NEW r,
         Good(drive, outages, r), Becomes(c, r)
  PROVE  IInv'
<1>1. r \in Call
  BY DEF Good, Bounded
<1>2. requests' \in Seq(Calls) /\ reads' \in Seq(Calls)
  BY LeaveQueueType DEF IInv, TypeOK, Becomes
<1>3. TypeOK'
  BY <1>1, <1>2 DEF IInv, TypeOK, Becomes
<1>4. \A e \in Calls : call'[e] = IF e = c THEN r ELSE call[e]
  BY DEF IInv, TypeOK, Becomes
<1>5. (\A e \in Calls : Good(drive, outages, call[e]))'
  BY <1>4 DEF IInv, Becomes
<1>6. QED BY <1>3, <1>5 DEF IInv, PanicNeedsCause, Becomes

(* What makes a thread panic. *)
PanicCause(d, o, r) ==
  \/ o > 0
  \/ d.loads = "panic"
  \/ "panic" \in {d.whole[Target(r)].outcome, d.whole[Target(r)].listing}

LEMMA PanicKeeps ==
  ASSUME IInv, NEW c \in Calls, alive, InSession(c) \/ InWorker(c), UnderWay(call[c]), Panic(c),
         PanicCause(drive, outages, call[c])
  PROVE  IInv'
<1> DEFINE r == call[c]
           q == [r EXCEPT !.phase = "answered", !.answer.kind = "lost"]
<1>1. Good(drive, outages, r) /\ r \in Call
  BY DEF IInv, Good, Bounded
<1>2. r.answer \in Answer
  BY <1>1 DEF Call
<1>3. /\ q \in Call /\ q.path = r.path /\ q.fsids = r.fsids /\ q.op = r.op
      /\ q.previous_fsid = r.previous_fsid /\ q.part = r.part /\ q.cut = r.cut /\ q.phase = "answered"
      /\ q.answer.fsid = r.answer.fsid /\ q.answer.kind = "lost"
  BY <1>1, <1>2 DEF Call, Answer
<1>4. call' = [call EXCEPT ![c] = q]
  BY DEF Panic
<1> HIDE DEF q
<1>5. Good(drive, outages, q)
  BY <1>1, <1>3 DEF Good, Bounded, UnderWay, Following, Loaded, Sourced, RightAnswer
<1>6. requests' \in Seq(Calls) /\ reads' \in Seq(Calls)
  BY LeaveQueueType DEF IInv, TypeOK, Panic
<1>7. TypeOK'
  BY <1>3, <1>4, <1>6 DEF IInv, TypeOK, Panic
<1>8. \A e \in Calls : call'[e] = IF e = c THEN q ELSE call[e]
  BY <1>4 DEF IInv, TypeOK
<1>9. (\A e \in Calls : Good(drive, outages, call[e]))'
  BY <1>5, <1>8 DEF IInv, Panic
<1>10. PanicNeedsCause'
  <2>1. SUFFICES ASSUME ~alive'
                 PROVE  /\ Told(call'[c], "lost")
                        /\ call'[c].op # "read"
                        /\ PanicCause(drive', outages', call'[c])
    BY DEF PanicNeedsCause, PanicCause
  <2>2. ~InWorker(c)
    BY <2>1 DEF Panic
  <2>3. r.op # "read"
    BY <2>2 DEF InSession
  <2>4. Target(q) = Target(r)
    BY <1>3 DEF Target, Resolving, Last
  <2>5. PanicCause(drive, outages, q)
    BY <2>4 DEF PanicCause
  <2>6. QED BY <1>3, <1>8, <2>3, <2>5 DEF Told, Panic
<1>11. QED BY <1>7, <1>9, <1>10 DEF IInv, Panic

-----------------------------------------------------------------------------
(* What the kernel asks: a path above which it knows a directory. *)

LEMMA RootTrail ==
  ASSUME NEW d, NEW path \in Seq(STRING), Len(path) = 0
  PROVE  Tree!Leads(d, path, <<Root>>) /\ <<Root>> \in Seq(Nat)
BY DEF Tree!Leads, Tree!Root, Root

LEMMA TrailAbove ==
  ASSUME NEW d, NEW path \in Seq(STRING), NEW w \in Seq(Nat), Tree!Leads(d, path, w)
  PROVE  \E v \in Seq(Nat) : Tree!Leads(d, Above(path), v)
<1>1. CASE path = <<>>
  <2>1. Above(path) = path
    BY <1>1, AboveFacts
  <2>2. QED BY <2>1
<1>2. CASE path # <<>>
  <2> DEFINE n == Len(path)
             v == SubSeq(w, 1, n)
  <2>1. /\ n \in Nat \ {0} /\ Len(Above(path)) = n - 1
        /\ \A i \in 1..(n - 1) : Above(path)[i] = path[i]
    BY <1>2, AboveFacts
  <2>2. Len(w) = n + 1 /\ w[1] = Root
        /\ \A i \in 1..n : w[i + 1] \in Child(d, w[i], path[i])
    BY DEF Tree!Leads, Child, Tree!Root, Root
  <2>3. \A i \in 1..n : w[i] \in Nat
    BY <2>1, <2>2
  <2>4. v \in Seq(Nat) /\ Len(v) = n /\ \A i \in 1..n : v[i] = w[1 + i - 1]
    BY <2>1, <2>3, SubSeqProperties
  <2> HIDE DEF v, n
  <2>5. \A i \in 1..n : v[i] = w[i]
    BY <2>1, <2>4
  <2>6. ASSUME NEW i \in 1..(n - 1)
        PROVE  v[i + 1] \in Child(d, v[i], Above(path)[i])
    <3>1. i \in 1..n /\ i + 1 \in 1..n
      BY <2>1
    <3>2. QED BY <3>1, <2>1, <2>2, <2>5
  <2>7. v[1] = Root /\ Len(v) = Len(Above(path)) + 1
    BY <2>1, <2>2, <2>4, <2>5
  <2>8. Tree!Leads(d, Above(path), v)
    <3>1. \A i \in 1..Len(Above(path)) : v[i + 1] \in Tree!Children(d, v[i], Above(path)[i], FALSE)
      BY <2>1, <2>6 DEF Child
    <3>2. QED BY <2>7, <3>1 DEF Tree!Leads, Tree!Root, Root
  <2>9. QED BY <2>4, <2>8
<1>3. QED BY <1>1, <1>2

LEMMA AskedHasTrail ==
  ASSUME NEW d, NEW o, NEW r, Good(d, o, r), o = 0,
         NEW op \in Ops, NEW path \in Paths, MayAsk(r, op, path)
  PROVE  \E v \in Seq(Nat) : Tree!Leads(d, Above(path), v)
<1>1. path \in Seq(STRING) /\ r.fsids \in Seq(Nat) /\ r.path \in Seq(STRING)
  BY PathsAssumption, CallTypes DEF Good, Bounded
<1>2. Told(r, "attr") \/ Told(r, "handle") => Tree!Leads(d, r.path, r.fsids)
  BY DEF Told, Good, Following, RightAnswer
<1>3. CASE Above(path) = <<>>
  BY <1>3, RootTrail, EmptySeq
<1>4. CASE path = <<>>
  BY <1>3, <1>4, AboveFacts, <1>1
<1>5. CASE (Told(r, "attr") \/ Told(r, "handle")) /\ path = r.path
  BY <1>1, <1>2, <1>5, TrailAbove
<1>6. CASE Told(r, "attr") /\ Above(path) = r.path
  BY <1>1, <1>2, <1>6
<1>7. \/ Above(path) = <<>>
      \/ path = <<>>
      \/ (Told(r, "attr") \/ Told(r, "handle")) /\ path = r.path
      \/ Told(r, "attr") /\ Above(path) = r.path
  BY DEF MayAsk, KnownDir, Ops
<1>8. QED BY <1>3, <1>4, <1>5, <1>6, <1>7

LEMMA RequestKeeps ==
  ASSUME IInv, NEW c \in Calls, Request(c)
  PROVE  IInv'
<1> USE DEF Request
<1>1. PICK op \in Ops, path \in Paths :
        /\ MayAsk(call[c], op, path)
        /\ call' = [call EXCEPT ![c] = [Idle EXCEPT !.phase = "waiting", !.op = op, !.path = path]]
  OBVIOUS
<1> DEFINE q == [Idle EXCEPT !.phase = "waiting", !.op = op, !.path = path]
<1>2. /\ q \in Call /\ q.phase = "waiting" /\ q.op = op /\ q.path = path /\ q.fsids = <<>>
      /\ q.previous_fsid = NoFsid /\ q.part = 0 /\ q.cut = FALSE /\ q.answer.fsid = NoFsid
  <2>1. <<>> \in Seq(Nat)
    BY EmptySeq
  <2>2. QED BY <2>1 DEF Idle, Call, Answer, NoAnswer, NoFsid
<1>3. call' = [call EXCEPT ![c] = q]
  BY <1>1
<1> HIDE DEF q
<1>4. Bounded(drive, q)
  <2>1. Len(q.path) \in Nat /\ Len(q.fsids) = 0 /\ DOMAIN q.fsids = {}
    BY <1>2, CallTypes, EmptySeq
  <2>2. QED BY <1>2, <2>1 DEF Bounded, Below
<1>5. outages = 0 => Trailed(drive, q)
  <2>1. HAVE outages = 0
  <2>2. \E v \in Seq(Nat) : Tree!Leads(drive, Above(path), v)
    BY <1>1, <2>1, AskedHasTrail DEF IInv
  <2>3. Len(q.fsids) = 0
    BY <1>2
  <2>4. QED BY <1>2, <2>2, <2>3 DEF Trailed
<1>6. Good(drive, outages, q)
  BY <1>2, <1>4, <1>5 DEF Good, UnderWay, Following, Loaded, Sourced
<1>7. TypeOK'
  BY <1>2, <1>3 DEF IInv, TypeOK
<1>8. \A e \in Calls : call'[e] = IF e = c THEN q ELSE call[e]
  BY <1>3 DEF IInv, TypeOK
<1>9. (\A e \in Calls : Good(drive, outages, call[e]))'
  BY <1>6, <1>8 DEF IInv
<1>10. QED BY <1>7, <1>9 DEF IInv, PanicNeedsCause

-----------------------------------------------------------------------------
(* The drive goes away and comes back. *)

LEMMA GoodMonotone ==
  ASSUME NEW d, NEW o \in Nat, NEW p \in Nat, o <= p, NEW r, Good(d, o, r)
  PROVE  Good(d, p, r)
BY DEF Good, Loaded, Sourced

LEMMA OutageKeeps ==
  ASSUME IInv, GoAway \/ ComeBack
  PROVE  IInv'
<1>1. outages \in Nat /\ outages' \in Nat /\ outages <= outages' /\ (~online' => outages' > 0)
  BY MaxOutagesAssumption DEF IInv, TypeOK, GoAway, ComeBack
<1>2. TypeOK'
  <2>1. outages' \in 0..MaxOutages
    <3>1. outages \in 0..MaxOutages /\ MaxOutages \in Nat
      BY MaxOutagesAssumption DEF IInv, TypeOK
    <3>2. outages' = outages \/ (outages < MaxOutages /\ outages' = outages + 1)
      BY DEF GoAway, ComeBack
    <3>3. QED BY <3>1, <3>2
  <2>2. online' \in BOOLEAN
    BY DEF GoAway, ComeBack
  <2>3. UNCHANGED <<drive, requests, reads, alive, call>>
    BY DEF GoAway, ComeBack
  <2>4. QED BY <2>1, <2>2, <2>3 DEF IInv, TypeOK
<1>3. (\A c \in Calls : Good(drive, outages, call[c]))'
  BY <1>1, GoodMonotone DEF IInv, GoAway, ComeBack
<1>4. PanicNeedsCause'
  BY <1>1 DEF IInv, PanicNeedsCause, GoAway, ComeBack
<1>5. QED BY <1>1, <1>2, <1>3, <1>4 DEF IInv

(* Without outages the drive is there and loaded in full. *)
LEMMA NoOutage ==
  ASSUME IInv, outages = 0, NEW c \in Calls
  PROVE  online /\ call[c].part = 0 /\ ~call[c].cut
<1>1. Loaded(drive, outages, call[c])
  BY DEF IInv, Good
<1>2. QED BY <1>1 DEF IInv, Loaded, Sourced

-----------------------------------------------------------------------------
(* The steps of a thread. *)

(* The call a thread is working on. *)
LEMMA ServedCall ==
  ASSUME IInv, NEW c \in Calls, NEW phase \in {"load", "lookup", "fetch"}, Serving(c, phase)
  PROVE  LET r == call[c] IN
         /\ alive /\ (InSession(c) \/ InWorker(c))
         /\ r \in Call /\ Good(drive, outages, r) /\ Bounded(drive, r) /\ Going(drive, r)
         /\ UnderWay(r) /\ r.phase = phase
         /\ Loaded(drive, outages, r) /\ Sourced(drive, outages, r)
         /\ IsDrive(drive) /\ outages \in Nat
         /\ Target(r) \in Within(drive, r.cut) /\ Target(r) \in DOMAIN drive.whole
         /\ Resolving(r) => Target(r) = r.previous_fsid
         /\ ~Resolving(r) => Target(r) = Last(r)
         /\ outages = 0 =>
              /\ Resolving(r) => Trailed(drive, r) /\ r.previous_fsid = Last(r)
              /\ ~Resolving(r) => Tree!Leads(drive, r.path, r.fsids)
<1> DEFINE r == call[c]
<1>1. alive /\ (InSession(c) \/ InWorker(c)) /\ r.phase = phase /\ UnderWay(r)
  BY DEF Serving, UnderWay
<1>2. r \in Call /\ Good(drive, outages, r) /\ Bounded(drive, r) /\ Going(drive, r)
      /\ Loaded(drive, outages, r) /\ Sourced(drive, outages, r)
  BY <1>1 DEF IInv, Good, Bounded, Loaded
<1>3. IsDrive(drive) /\ outages \in Nat
  BY <1>2, MaxOutagesAssumption DEF IInv, TypeOK, Good
<1>4. Target(r) \in Within(drive, r.cut)
  <2>1. CASE Resolving(r)
    BY <1>2, <2>1 DEF Target, Going
  <2>2. CASE ~Resolving(r)
    <3>1. Len(r.fsids) \in DOMAIN r.fsids
      BY <1>2, CallTypes DEF Going
    <3>2. Last(r) \in Below(drive, r.cut) /\ Last(r) # NoFsid
      BY <1>2, <2>2, <3>1 DEF Bounded, Going, Last
    <3>3. QED BY <2>2, <3>2 DEF Target, Below
  <2>3. QED BY <2>1, <2>2
<1>5. Target(r) \in DOMAIN drive.whole
  BY <1>3, <1>4, ReachableFacts
<1>7. outages = 0 =>
        /\ Resolving(r) => Trailed(drive, r) /\ r.previous_fsid = Last(r)
        /\ ~Resolving(r) => Tree!Leads(drive, r.path, r.fsids)
  BY <1>1, <1>2 DEF Good, Following
<1>8. QED BY <1>1, <1>2, <1>3, <1>4, <1>5, <1>7 DEF Target

(* The inode it is at, in the table it looks inodes up in. *)
LEMMA AtInode ==
  ASSUME IInv, NEW c \in Calls, NEW phase \in {"lookup", "fetch"}, Serving(c, phase)
  PROVE  LET r == call[c]  t == Mounted(drive, call[c]) IN
         /\ Inode(c) = t[Target(r)]
         /\ IsTable(t, DOMAIN drive.whole)
         /\ t[Target(r)] \in LookedUp
         /\ t \in Seen(drive, r.cut)
         /\ t \in Tree!Tables(drive, outages > 0)
         /\ phase = "fetch" => t[Target(r)].outcome = "ok"
         /\ r.part = 0 => t = drive.whole
         /\ r.part # 0 => outages > 0
         /\ outages = 0 => t = drive.whole /\ drive.loads = "ok"
         /\ online \in BOOLEAN /\ (~online => outages > 0)
<1> DEFINE r == call[c]
           t == Mounted(drive, r)
<1>1. /\ r.phase = phase /\ Loaded(drive, outages, r) /\ Sourced(drive, outages, r)
      /\ IsDrive(drive) /\ outages \in Nat /\ Target(r) \in DOMAIN drive.whole
  BY ServedCall
<1>2. /\ r.part # 0 => r.part \in DOMAIN drive.parts /\ r.cut /\ outages > 0
      /\ r.part = 0 => drive.loads = "ok"
      /\ phase = "fetch" => t[Target(r)].outcome = "ok"
  BY <1>1 DEF Loaded, Sourced
<1>3. t \in Seen(drive, r.cut) /\ t \in Tree!Tables(drive, outages > 0)
  BY <1>2 DEF Mounted, Seen, Parts, Tree!Tables
<1>4. IsTable(t, DOMAIN drive.whole) /\ t[Target(r)] \in LookedUp
  BY <1>1, <1>3, SeenFacts, TableFacts
<1>5. Inode(c) = t[Target(r)]
  BY DEF Inode, View, Mounted
<1>6. /\ r.part = 0 => t = drive.whole
      /\ outages = 0 => t = drive.whole /\ drive.loads = "ok"
  BY <1>1, <1>2 DEF Mounted
<1>7. online \in BOOLEAN /\ (~online => outages > 0)
  BY DEF IInv, TypeOK
<1>8. QED BY <1>2, <1>3, <1>4, <1>5, <1>6, <1>7

LEMMA DispatchKeeps ==
  ASSUME IInv, NEW c \in Calls, Dispatch(c)
  PROVE  IInv'
<1>1. requests # <<>> /\ requests \in Seq(Calls) /\ reads \in Seq(Calls)
  BY DEF Dispatch, AtHead, IInv, TypeOK
<1>2. Tail(requests) \in Seq(Calls) /\ Append(reads, c) \in Seq(Calls)
  BY <1>1, HeadTailProperties
<1>3. TypeOK'
  BY <1>2 DEF IInv, TypeOK, Dispatch
<1>4. QED BY <1>3 DEF IInv, PanicNeedsCause, Dispatch

LEMMA BeginKeeps ==
  ASSUME IInv, NEW c \in Calls, Begin(c)
  PROVE  IInv'
<1> DEFINE q == Resolved([call[c] EXCEPT !.fsids = <<Root>>, !.previous_fsid = Root])
<1>1. Good(drive, outages, q)
  BY BeginGood DEF IInv, TypeOK, Begin, Serving
<1>2. alive /\ (InSession(c) \/ InWorker(c)) /\ Becomes(c, q)
  BY DEF Begin, Serving
<1> HIDE DEF q
<1>3. QED BY <1>1, <1>2, BecomesKeeps

LEMMA PassOverKeeps ==
  ASSUME IInv, NEW c \in Calls, PassOver(c)
  PROVE  IInv'
<1> DEFINE r == call[c]
<1>1. Serving(c, "load") /\ Resolving(r) /\ Component(r) \in Unnameable /\ Becomes(c, NotFound(r))
  BY DEF PassOver, Component
<1>2. Child(drive, r.previous_fsid, Component(r)) = {}
  BY <1>1, ServedCall, NoChild
<1>3. Good(drive, outages, NotFound(r))
  BY <1>1, <1>2, ServedCall, NotFoundGood
<1>4. QED BY <1>1, <1>3, ServedCall, BecomesKeeps

LEMMA LoadDriveKeeps ==
  ASSUME IInv, NEW c \in Calls, LoadDrive(c)
  PROVE  IInv'
<1> DEFINE r == call[c]
           q == [r EXCEPT !.phase = "lookup"]
<1>1. Serving(c, "load") /\ drive.loads = "ok" /\ Becomes(c, q)
  BY DEF LoadDrive, Loads
<1>2. /\ q \in Call /\ UnderWay(q) /\ q.phase = "lookup" /\ q.path = r.path
      /\ q.fsids = r.fsids /\ q.previous_fsid = r.previous_fsid /\ q.answer = r.answer
      /\ q.op = r.op /\ q.part = r.part /\ q.cut = r.cut
  BY <1>1, ServedCall DEF Call, UnderWay
<1> HIDE DEF q
<1>3. Loaded(drive, outages, q)
  BY <1>1, <1>2, ServedCall DEF Loaded, Sourced
<1>4. Good(drive, outages, q)
  BY <1>1, <1>2, <1>3, ServedCall, AdvancedGood
<1>5. QED BY <1>1, <1>4, ServedCall, BecomesKeeps

LEMMA LoadFailsKeeps ==
  ASSUME IInv, NEW c \in Calls, LoadFails(c)
  PROVE  IInv'
<1> DEFINE r == call[c]
           q == IF Resolving(r) THEN NotFound(r) ELSE Failed(r)
<1>1. Serving(c, "load") /\ (~online \/ drive.loads = "error") /\ Becomes(c, q)
  BY DEF LoadFails, Loads
<1>2. outages = 0 => drive.loads = "error"
  BY <1>1, NoOutage
<1>3. ASSUME Resolving(r) PROVE Good(drive, outages, NotFound(r))
  <2>1. outages = 0 => Child(drive, r.previous_fsid, Component(r)) = {}
    BY <1>1, <1>2, <1>3, ServedCall, NoChild
  <2>2. QED BY <1>1, <1>3, <2>1, ServedCall, NotFoundGood
<1>4. ASSUME ~Resolving(r) PROVE Good(drive, outages, Failed(r))
  <2>1. r.op \in {"getattr", "readdir", "read"}
    BY <1>1, <1>4, ServedCall DEF Going, Ops
  <2>2. outages = 0 => Tree!Leads(drive, r.path, r.fsids) /\ Tree!Refuses(drive, r.op, Last(r))
    BY <1>1, <1>2, <1>4, <2>1, ServedCall DEF Tree!Refuses
  <2>3. QED BY <1>1, <2>2, ServedCall, FailedGood
<1>5. Good(drive, outages, q)
  BY <1>3, <1>4
<1> HIDE DEF q
<1>6. QED BY <1>1, <1>5, ServedCall, BecomesKeeps

LEMMA LoadCutShortKeeps ==
  ASSUME IInv, NEW c \in Calls, LoadCutShort(c)
  PROVE  IInv'
<1> DEFINE r == call[c]
           q(k) == [r EXCEPT !.phase = "lookup", !.part = k, !.cut = TRUE]
<1>1. Serving(c, "load") /\ ~online /\ \E k \in DOMAIN drive.parts : Becomes(c, q(k))
  BY DEF LoadCutShort, Loads
<1>2. PICK k \in DOMAIN drive.parts : Becomes(c, q(k))
  BY <1>1
<1>3. k \in Nat \ {0} /\ outages > 0
  BY <1>1, ServedCall DEF IsDrive, IInv
<1> DEFINE p == q(k)
<1>4. /\ p \in Call /\ UnderWay(p) /\ p.phase = "lookup" /\ p.path = r.path
      /\ p.fsids = r.fsids /\ p.previous_fsid = r.previous_fsid /\ p.answer = r.answer
      /\ p.op = r.op /\ p.part = k /\ p.cut = TRUE
  BY <1>1, <1>3, ServedCall DEF Call, UnderWay
<1>5. Becomes(c, p)
  BY <1>2
<1> HIDE DEF q, p
<1>6. Loaded(drive, outages, p)
  BY <1>3, <1>4 DEF Loaded, Sourced
<1>7. outages # 0
  BY <1>3, ServedCall DEF IInv
<1>8. Good(drive, outages, p)
  BY <1>1, <1>4, <1>6, <1>7, ServedCall, AdvancedGood
<1>9. QED BY <1>1, <1>5, <1>8, ServedCall, BecomesKeeps

LEMMA LoadPanicsKeeps ==
  ASSUME IInv, NEW c \in Calls, LoadPanics(c)
  PROVE  IInv'
<1>1. Serving(c, "load") /\ (~online \/ drive.loads = "panic") /\ Panic(c)
  BY DEF LoadPanics, Loads
<1>2. PanicCause(drive, outages, call[c])
  BY <1>1 DEF PanicCause, IInv
<1>3. QED BY <1>1, <1>2, ServedCall, PanicKeeps

LEMMA LookUpKeeps ==
  ASSUME IInv, NEW c \in Calls, LookUp(c)
  PROVE  IInv'
<1> DEFINE r == call[c]
           dir == Inode(c).type = "Dir"
           f == [Finished(r, "attr") EXCEPT !.answer.dir = dir]
           q == [r EXCEPT !.phase = "fetch"]
<1>1. /\ Serving(c, "lookup") /\ Inode(c).outcome = "ok"
      /\ Becomes(c, IF ~Resolving(r) /\ r.op = "getattr" THEN f ELSE q)
  BY DEF LookUp
<1>2. CASE ~Resolving(r) /\ r.op = "getattr"
  <2>1. Last(r) \in Nat
    BY <1>1, ServedCall, CallTypes DEF Going
  <2>2. dir \in BOOLEAN
    OBVIOUS
  <2> HIDE DEF dir
  <2> DEFINE g == Finished(r, "attr")
  <2>a. /\ g \in Call /\ g.answer \in Answer /\ g.phase = "answered" /\ g.path = r.path
        /\ g.fsids = r.fsids /\ g.previous_fsid = r.previous_fsid /\ g.part = r.part /\ g.cut = r.cut
        /\ g.answer.kind = "attr" /\ g.answer.fsid = Last(r)
    BY <1>1, <2>1, ServedCall, ZenonT(30) DEF Finished, Call, Answer, NoAnswer
  <2> HIDE DEF g
  <2>b. [g.answer EXCEPT !.dir = dir] \in Answer
    BY <2>2, <2>a DEF Answer
  <2>c. f = [g EXCEPT !.answer = [g.answer EXCEPT !.dir = dir]]
    BY <2>a DEF g, Call
  <2>d. [g.answer EXCEPT !.dir = dir].kind = "attr" /\ [g.answer EXCEPT !.dir = dir].fsid = Last(r)
    BY <2>a DEF Answer
  <2>3. /\ f \in Call /\ f.phase = "answered" /\ f.path = r.path /\ f.fsids = r.fsids
        /\ f.previous_fsid = r.previous_fsid /\ f.part = r.part /\ f.cut = r.cut
        /\ f.answer.kind = "attr" /\ f.answer.fsid = Last(r)
    BY <2>a, <2>b, <2>c, <2>d DEF Call
  <2> HIDE DEF f
  <2>4. Good(drive, outages, f)
    BY <1>1, <1>2, <2>3, ServedCall, FinishedGood DEF Going
  <2>5. Becomes(c, f)
    BY <1>1, <1>2
  <2>6. QED BY <1>1, <2>4, <2>5, ServedCall, BecomesKeeps
<1>3. CASE ~(~Resolving(r) /\ r.op = "getattr")
  <2>1. /\ q \in Call /\ UnderWay(q) /\ q.path = r.path
        /\ q.fsids = r.fsids /\ q.previous_fsid = r.previous_fsid /\ q.answer = r.answer
        /\ q.op = r.op /\ q.part = r.part /\ q.cut = r.cut /\ q.phase = "fetch"
    BY <1>1, ServedCall DEF Call, UnderWay
  <2>2. Becomes(c, q)
    BY <1>1, <1>3
  <2> HIDE DEF q, f
  <2>a. Mounted(drive, q) = Mounted(drive, r) /\ Target(q) = Target(r)
    BY <2>1 DEF Mounted, Target, Resolving, Last
  <2>b. Mounted(drive, r)[Target(r)].outcome = "ok"
    BY <1>1, AtInode
  <2>c. Sourced(drive, outages, q) /\ (q.part = 0 => drive.loads = "ok")
    BY <1>1, <2>1, ServedCall DEF Loaded, Sourced
  <2>d. Loaded(drive, outages, q)
    BY <2>1, <2>a, <2>b, <2>c DEF Loaded
  <2>3. Good(drive, outages, q)
    BY <1>1, <2>1, <2>d, ServedCall, AdvancedGood
  <2>4. QED BY <1>1, <2>2, <2>3, ServedCall, BecomesKeeps
<1>4. QED BY <1>2, <1>3

LEMMA LookUpFailsKeeps ==
  ASSUME IInv, NEW c \in Calls, LookUpFails(c)
  PROVE  IInv'
<1> DEFINE r == call[c]
           f == Finished(r, "attr")
<1>1. /\ Serving(c, "lookup") /\ (~online \/ Inode(c).outcome = "error")
      /\ Becomes(c, IF Resolving(r) THEN NotFound(r)
                    ELSE IF r.op = "getattr" THEN f ELSE Failed(r))
  BY DEF LookUpFails
<1>2. outages = 0 => drive.whole[Target(r)].outcome = "error"
  BY <1>1, NoOutage, AtInode
<1>3. CASE Resolving(r)
  <2>1. outages = 0 => Child(drive, r.previous_fsid, Component(r)) = {}
    BY <1>1, <1>2, <1>3, ServedCall, NoChild
  <2>2. Good(drive, outages, NotFound(r))
    BY <1>1, <1>3, <2>1, ServedCall, NotFoundGood
  <2>3. Becomes(c, NotFound(r))
    BY <1>1, <1>3
  <2>4. QED BY <1>1, <2>2, <2>3, ServedCall, BecomesKeeps
<1>4. CASE ~Resolving(r) /\ r.op = "getattr"
  <2>1. Last(r) \in Nat
    BY <1>1, ServedCall, CallTypes DEF Going
  <2>2. /\ f \in Call /\ f.phase = "answered" /\ f.path = r.path /\ f.fsids = r.fsids
        /\ f.previous_fsid = r.previous_fsid /\ f.part = r.part /\ f.cut = r.cut
        /\ f.answer.kind = "attr" /\ f.answer.fsid = Last(r)
    BY <1>1, <2>1, ServedCall, ZenonT(30) DEF Finished, Call, Answer, NoAnswer
  <2> HIDE DEF f
  <2>3. Good(drive, outages, f)
    BY <1>1, <1>4, <2>2, ServedCall, FinishedGood DEF Going
  <2>4. Becomes(c, f)
    BY <1>1, <1>4
  <2>5. QED BY <1>1, <2>3, <2>4, ServedCall, BecomesKeeps
<1>5. CASE ~Resolving(r) /\ r.op # "getattr"
  <2>1. r.op \in {"readdir", "read"} /\ Target(r) = Last(r)
    BY <1>1, <1>5, ServedCall DEF Going, Ops
  <2>2. outages = 0 => Tree!Leads(drive, r.path, r.fsids) /\ Tree!Refuses(drive, r.op, Last(r))
    BY <1>1, <1>2, <1>5, <2>1, ServedCall DEF Tree!Refuses
  <2>3. Good(drive, outages, Failed(r))
    BY <1>1, <2>2, ServedCall, FailedGood
  <2>4. Becomes(c, Failed(r))
    BY <1>1, <1>5
  <2>5. QED BY <1>1, <2>3, <2>4, ServedCall, BecomesKeeps
<1>6. QED BY <1>3, <1>4, <1>5

LEMMA LookUpPanicsKeeps ==
  ASSUME IInv, NEW c \in Calls, LookUpPanics(c)
  PROVE  IInv'
<1>1. Serving(c, "lookup") /\ Inode(c).outcome = "panic" /\ Panic(c)
  BY DEF LookUpPanics
<1>2. PanicCause(drive, outages, call[c])
  BY <1>1, AtInode, ServedCall DEF PanicCause
<1>3. QED BY <1>1, <1>2, ServedCall, PanicKeeps

LEMMA ListingPanicsKeeps ==
  ASSUME IInv, NEW c \in Calls, ListingPanics(c)
  PROVE  IInv'
<1>1. /\ Serving(c, "fetch") /\ Panic(c)
      /\ ~online \/ Inode(c).listing = "panic"
  BY DEF ListingPanics, Listing, Fetchable
<1>2. PanicCause(drive, outages, call[c])
  BY <1>1, AtInode, ServedCall DEF PanicCause
<1>3. QED BY <1>1, <1>2, ServedCall, PanicKeeps

(* What a listing shows: every entry is one of the inode, with what is left
   of its name at the end, and a name that is found is one the promise
   finds there, too. *)
LEMMA ShownFacts ==
  ASSUME IInv, NEW c \in Calls, Serving(c, "fetch"), NEW shown \in Shown(c)
  PROVE  LET r == call[c]  t == Mounted(drive, call[c])  f == Target(call[c]) IN
         /\ shown \in Seq(Entry)
         /\ \A name : Present(shown, name) =>
              /\ FirstNamed(shown, name) \in Tree!Children(drive, f, name, outages > 0)
              /\ \E i \in DOMAIN t[f].entries : FirstNamed(shown, name) = t[f].entries[i].fsid
         /\ {shown[i].name : i \in DOMAIN shown} \ {""} \in Tree!Listings(t, f, outages > 0)
<1> DEFINE d == drive
           t == Mounted(drive, call[c])
           f == Target(call[c])
           faults == outages > 0
<1>a. /\ IsTable(t, DOMAIN d.whole) /\ f \in DOMAIN d.whole /\ Inode(c) = t[f]
      /\ t[f].outcome = "ok" /\ online \in BOOLEAN
  BY AtInode, ServedCall
<1>0. faults \in BOOLEAN /\ (~online => faults) /\ t \in Tree!Tables(d, faults)
  BY AtInode
<1> HIDE DEF d, t, f, faults
<1> DEFINE entries == t[f].entries
           N == Len(entries)
<1>1. /\ entries \in Seq(Entry) /\ DOMAIN entries = 1..N /\ N \in Nat
      /\ t[f].resident \in BOOLEAN
  BY <1>a, TableFacts DEF LookedUp
<1>2. \/ shown = entries /\ Tree!Listed(t, f)
      \/ shown \in CutShort(entries) /\ Tree!Cut(t, f, faults)
  BY <1>0, <1>a, <1>1 DEF Shown, Fetchable, Tree!Listed, Tree!Cut
<1>3. /\ shown \in Seq(Entry)
      /\ Len(shown) \in 0..N
      /\ \A i \in 1..Len(shown) :
           /\ shown[i].fsid = entries[i].fsid
           /\ shown[i].name = entries[i].name \/ shown[i].name \in entries[i].stubs
      /\ \A i \in 1..(Len(shown) - 1) : shown[i].name = entries[i].name
      /\ shown = entries \/ Tree!Cut(t, f, faults)
  <2>1. CASE shown = entries /\ Tree!Listed(t, f)
    BY <1>1, <2>1
  <2>2. CASE shown \in CutShort(entries) /\ Tree!Cut(t, f, faults)
    <3> HIDE DEF entries
    <3>1. QED BY <1>1, <2>2, CutShortFacts
  <2>3. QED BY <1>2, <2>1, <2>2
<1>4. ASSUME NEW name, Present(shown, name)
      PROVE  /\ FirstNamed(shown, name) \in Tree!Children(d, f, name, faults)
             /\ \E i \in DOMAIN entries : FirstNamed(shown, name) = entries[i].fsid
  <2>1. PICK i \in DOMAIN shown :
          /\ FirstNamed(shown, name) = shown[i].fsid
          /\ shown[i].name = name
          /\ \A j \in 1..(i - 1) : shown[j].name # name
    BY <1>3, <1>4, FirstNamedIsEntry
  <2>2. i \in 1..Len(shown) /\ i \in DOMAIN entries /\ FirstNamed(shown, name) = entries[i].fsid
    BY <1>1, <1>3, <2>1
  <2>3. ASSUME NEW j \in 1..(i - 1)
        PROVE  entries[j].name # name
    <3>1. j \in 1..(Len(shown) - 1)
      BY <1>3, <2>2
    <3>2. QED BY <1>3, <2>1, <3>1
  <2>4. Tree!FoundAt(t, f, i, name, faults)
    <3>1. CASE shown = entries /\ Tree!Listed(t, f)
      BY <2>1, <2>3, <3>1 DEF Tree!FoundAt
    <3>2. CASE Tree!Cut(t, f, faults)
      BY <1>3, <2>1, <2>2, <2>3, <3>2 DEF Tree!FoundAt
    <3>3. QED BY <1>2, <3>1, <3>2
  <2>5. entries[i].fsid \in {entries[k].fsid : k \in {l \in DOMAIN entries :
                                                   Tree!FoundAt(t, f, l, name, faults)}}
    BY <2>2, <2>4
  <2>6. entries[i].fsid \in Tree!Children(d, f, name, faults)
    BY <1>0, <2>5 DEF Tree!Children
  <2>7. QED BY <2>2, <2>6
<1>5. {shown[i].name : i \in DOMAIN shown} \ {""} \in Tree!Listings(t, f, faults)
  <2> DEFINE names == {shown[i].name : i \in DOMAIN shown}
             before(n) == Tree!NamesBefore(t, f, n)
  <2>1. CASE shown = entries /\ Tree!Listed(t, f)
    <3>1. names = before(N)
      BY <1>1, <2>1 DEF Tree!NamesBefore
    <3>2. QED BY <2>1, <3>1 DEF Tree!Listings
  <2>2. CASE shown \in CutShort(entries) /\ Tree!Cut(t, f, faults)
    <3>1. \E n \in 0..N : \E last \in {{}} \cup {{s} : s \in Tree!Remains(t, f, n)} :
            names = before(n) \cup last
      <4> DEFINE n == Len(shown)
      <4>1. n \in 0..N /\ n \in Nat /\ DOMAIN shown = 1..n
        BY <1>3
      <4>2. \/ shown = SubSeq(entries, 1, n)
            \/ n > 0 /\ shown[n].name \in entries[n].stubs
        <5> HIDE DEF entries
        <5>1. QED BY <1>1, <2>2, CutShortFacts
      <4>3. CASE \A i \in 1..n : shown[i].name = entries[i].name
        <5>1. names = before(n) \cup {}
          BY <4>1, <4>3 DEF Tree!NamesBefore
        <5>2. QED BY <4>1, <5>1
      <4>4. CASE n > 0 /\ shown[n].name \in entries[n].stubs
        <5>1. n - 1 \in 0..N /\ n - 1 < N /\ (n - 1) + 1 = n
          BY <1>1, <4>1, <4>4
        <5>2. shown[n].name \in Tree!Remains(t, f, n - 1)
          BY <4>4, <5>1 DEF Tree!Remains
        <5>3. names = before(n - 1) \cup {shown[n].name}
          <6>1. 1..n = (1..(n - 1)) \cup {n}
            BY <4>1, <4>4
          <6>2. \A i \in 1..(n - 1) : shown[i].name = entries[i].name
            BY <1>3
          <6>3. QED BY <4>1, <6>1, <6>2, ZenonT(40) DEF Tree!NamesBefore
        <5>4. QED BY <5>1, <5>2, <5>3
      <4>5. shown = SubSeq(entries, 1, n) => \A i \in 1..n : shown[i].name = entries[i].name
        <5>1. \A i \in 1..n : entries[i] \in Entry
          BY <1>1, <4>1
        <5>2. n \in Nat => \A i \in 1..(n - 1 + 1) : SubSeq(entries, 1, n)[i] = entries[1 + i - 1]
          BY <5>1, SubSeqProperties
        <5>3. QED BY <4>1, <5>2
      <4>6. QED BY <4>2, <4>3, <4>4, <4>5
    <3>2. PICK n \in 0..N : \E last \in {{}} \cup {{s} : s \in Tree!Remains(t, f, n)} :
            names = before(n) \cup last
      BY <3>1
    <3>3. PICK last \in {{}} \cup {{s} : s \in Tree!Remains(t, f, n)} : names = before(n) \cup last
      BY <3>2
    <3> DEFINE cuts(k) == {(before(k) \cup l) \ {""} : l \in {{}} \cup {{s} : s \in Tree!Remains(t, f, k)}}
    <3>4. names \ {""} \in cuts(n)
      BY <3>3
    <3>5. Tree!Listings(t, f, faults) =
            (IF Tree!Listed(t, f) THEN {before(N) \ {""}} ELSE {}) \cup UNION {cuts(k) : k \in 0..N}
      BY <2>2 DEF Tree!Listings
    <3> HIDE DEF cuts, names, before
    <3>6. QED BY <3>4, <3>5 DEF names
  <2>3. QED BY <1>2, <2>1, <2>2
<1>6. QED BY <1>3, <1>4, <1>5 DEF d, t, f, faults

(* What a listing shows a call: where a name leads to, in the call's table
   and in the promise. *)
LEMMA ShownToCall ==
  ASSUME IInv, NEW c \in Calls, Serving(c, "fetch"), NEW shown \in Shown(c)
  PROVE  LET r == call[c] IN
         /\ shown \in Seq(Entry)
         /\ \A name : Present(shown, name) =>
              /\ FirstNamed(shown, name) \in Tree!Children(drive, Target(r), name, outages > 0)
              /\ FirstNamed(shown, name) \in Within(drive, r.cut)
              /\ FirstNamed(shown, name) \in Nat \ {NoFsid}
         /\ \A name : outages = 0 /\ ~Present(shown, name) => Child(drive, Target(r), name) = {}
         /\ {shown[i].name : i \in DOMAIN shown} \ {""}
              \in Tree!Listings(Mounted(drive, r), Target(r), outages > 0)
<1> DEFINE r == call[c]
           t == Mounted(drive, r)
           f == Target(r)
<1>1. /\ Inode(c) = t[f] /\ IsTable(t, DOMAIN drive.whole) /\ t \in Seen(drive, r.cut)
      /\ t \in Tree!Tables(drive, outages > 0) /\ t[f].outcome = "ok"
      /\ outages = 0 => t = drive.whole
      /\ online \in BOOLEAN /\ (~online => outages > 0)
  BY AtInode
<1>2. f \in DOMAIN drive.whole /\ f \in Within(drive, r.cut) /\ IsDrive(drive) /\ outages \in Nat
  BY ServedCall
<1> HIDE DEF t, f
<1>3. /\ shown \in Seq(Entry)
      /\ \A name : Present(shown, name) =>
           /\ FirstNamed(shown, name) \in Tree!Children(drive, f, name, outages > 0)
           /\ \E i \in DOMAIN t[f].entries : FirstNamed(shown, name) = t[f].entries[i].fsid
      /\ {shown[i].name : i \in DOMAIN shown} \ {""} \in Tree!Listings(t, f, outages > 0)
  BY ShownFacts DEF t, f
<1>4. ASSUME NEW name, Present(shown, name)
      PROVE  FirstNamed(shown, name) \in Within(drive, r.cut)
             /\ FirstNamed(shown, name) \in Nat \ {NoFsid}
  <2>1. PICK i \in DOMAIN t[f].entries : FirstNamed(shown, name) = t[f].entries[i].fsid
    BY <1>3, <1>4
  <2>2. t[f].entries[i] \in Entry
    BY <1>1, <1>2, TableFacts
  <2>3. t[f].entries[i].fsid \in Within(drive, r.cut)
    BY <1>1, <1>2, ReachableFacts
  <2>4. QED BY <2>1, <2>2, <2>3 DEF Entry
<1>5. ASSUME NEW name, outages = 0, ~Present(shown, name)
      PROVE  Child(drive, f, name) = {}
  <2>1. shown = drive.whole[f].entries
    BY <1>1, <1>5 DEF Shown, Fetchable
  <2>2. QED BY <1>2, <1>5, <2>1, ChildIsFirstNamed
<1>6. QED BY <1>3, <1>4, <1>5 DEF t, f

LEMMA FindComponentKeeps ==
  ASSUME IInv, NEW c \in Calls, FindComponent(c)
  PROVE  IInv'
<1> DEFINE r == call[c]
           name == Component(r)
<1>1. /\ Serving(c, "fetch") /\ Resolving(r)
      /\ \E shown \in Shown(c) :
           Becomes(c, IF Present(shown, name) THEN Found(r, FirstNamed(shown, name)) ELSE NotFound(r))
  BY DEF FindComponent, Listing
<1>2. PICK shown \in Shown(c) :
        Becomes(c, IF Present(shown, name) THEN Found(r, FirstNamed(shown, name)) ELSE NotFound(r))
  BY <1>1
<1> DEFINE f == FirstNamed(shown, name)
<1>3. Target(r) = r.previous_fsid
  BY <1>1, ServedCall
<1>4. CASE Present(shown, name)
  <2>1. f \in Within(drive, r.cut) /\ f \in Nat \ {NoFsid}
    BY <1>1, <1>4, ShownToCall
  <2>2. outages = 0 => f \in Child(drive, r.previous_fsid, name)
    <3>1. HAVE outages = 0
    <3>2. (outages > 0) = FALSE
      BY <3>1
    <3>3. f \in Tree!Children(drive, Target(r), name, outages > 0)
      BY <1>1, <1>4, ShownToCall
    <3>4. QED BY <1>3, <3>2, <3>3 DEF Child
  <2> HIDE DEF f
  <2>3. Good(drive, outages, Found(r, f))
    BY <1>1, <2>1, <2>2, ServedCall, FoundGood
  <2>4. Becomes(c, Found(r, f))
    BY <1>2, <1>4 DEF f
  <2>5. QED BY <1>1, <2>3, <2>4, ServedCall, BecomesKeeps
<1>5. CASE ~Present(shown, name)
  <2>1. outages = 0 => Child(drive, r.previous_fsid, name) = {}
    BY <1>1, <1>3, <1>5, ShownToCall
  <2>2. Good(drive, outages, NotFound(r))
    BY <1>1, <2>1, ServedCall, NotFoundGood
  <2>3. Becomes(c, NotFound(r))
    BY <1>2, <1>5
  <2>4. QED BY <1>1, <2>2, <2>3, ServedCall, BecomesKeeps
<1>6. QED BY <1>4, <1>5

LEMMA ListEntriesKeeps ==
  ASSUME IInv, NEW c \in Calls, ListEntries(c)
  PROVE  IInv'
<1> DEFINE r == call[c]
           dir == Inode(c).type = "Dir"
           listed(shown) == {shown[i].name : i \in DOMAIN shown} \ {""}
<1>1. /\ Serving(c, "fetch") /\ ~Resolving(r)
      /\ \E shown \in Shown(c) : Becomes(c, [Finished(r, "list") EXCEPT
           !.answer.dir = dir, !.answer.names = listed(shown)])
  BY DEF ListEntries, Listing
<1>2. PICK shown \in Shown(c) : Becomes(c, [Finished(r, "list") EXCEPT
           !.answer.dir = dir, !.answer.names = listed(shown)])
  BY <1>1
<1> DEFINE names == listed(shown)
           f == [Finished(r, "list") EXCEPT !.answer.dir = dir, !.answer.names = names]
<1>3. Becomes(c, f)
  BY <1>2
<1>4. Last(r) \in Nat
  BY <1>1, ServedCall, CallTypes DEF Going
<1>5. dir \in BOOLEAN
  OBVIOUS
<1>6. names \in SUBSET STRING
  <2>1. shown \in Seq(Entry)
    BY <1>1, ShownToCall
  <2>2. \A i \in DOMAIN shown : shown[i] \in Entry
    BY <2>1
  <2>3. QED BY <2>2 DEF Entry
<1> HIDE DEF dir, names, listed
<1>7. /\ f \in Call /\ f.phase = "answered" /\ f.path = r.path /\ f.fsids = r.fsids
      /\ f.previous_fsid = r.previous_fsid /\ f.part = r.part /\ f.cut = r.cut
      /\ f.answer.kind = "list" /\ f.answer.fsid = Last(r)
  BY <1>1, <1>4, <1>5, <1>6, ServedCall, ZenonT(30) DEF Finished, Call, Answer, NoAnswer
<1> HIDE DEF f
<1>8. Good(drive, outages, f)
  BY <1>1, <1>7, ServedCall, FinishedGood DEF Going
<1>9. QED BY <1>1, <1>3, <1>8, ServedCall, BecomesKeeps

LEMMA ListingFailsKeeps ==
  ASSUME IInv, NEW c \in Calls, ListingFails(c)
  PROVE  IInv'
<1> DEFINE r == call[c]
<1>1. /\ Serving(c, "fetch") /\ (Resolving(r) \/ r.op = "readdir")
      /\ ~online \/ Inode(c).listing = "error"
      /\ Becomes(c, IF Resolving(r) THEN NotFound(r) ELSE Failed(r))
  BY DEF ListingFails, Listing, Fetchable
<1>2. outages = 0 => drive.whole[Target(r)].listing = "error"
  BY <1>1, NoOutage, AtInode
<1>3. CASE Resolving(r)
  <2>1. outages = 0 => Child(drive, r.previous_fsid, Component(r)) = {}
    BY <1>1, <1>2, <1>3, ServedCall, NoChild
  <2>2. Good(drive, outages, NotFound(r))
    BY <1>1, <1>3, <2>1, ServedCall, NotFoundGood
  <2>3. Becomes(c, NotFound(r))
    BY <1>1, <1>3
  <2>4. QED BY <1>1, <2>2, <2>3, ServedCall, BecomesKeeps
<1>4. CASE ~Resolving(r)
  <2>1. outages = 0 => Tree!Refuses(drive, r.op, Last(r))
    BY <1>1, <1>2, <1>4, ServedCall DEF Tree!Refuses
  <2>2. Good(drive, outages, Failed(r))
    BY <1>1, <1>4, <2>1, ServedCall, FailedGood
  <2>3. Becomes(c, Failed(r))
    BY <1>1, <1>4
  <2>4. QED BY <1>1, <2>2, <2>3, ServedCall, BecomesKeeps
<1>5. QED BY <1>3, <1>4

LEMMA ReadDataKeeps ==
  ASSUME IInv, NEW c \in Calls, ReadData(c)
  PROVE  IInv'
<1> DEFINE r == call[c]
           intact == Fetchable(c) /\ r.part = 0
           f == [Finished(r, "data") EXCEPT !.answer.intact = intact]
<1>1. Serving(c, "fetch") /\ ~Resolving(r) /\ Becomes(c, f)
  BY DEF ReadData
<1>2. Last(r) \in Nat
  BY <1>1, ServedCall, CallTypes DEF Going
<1>3. intact \in BOOLEAN
  BY <1>1, AtInode DEF Fetchable, LookedUp
<1> HIDE DEF intact
<1>5. /\ f \in Call /\ f.phase = "answered" /\ f.path = r.path /\ f.fsids = r.fsids
      /\ f.previous_fsid = r.previous_fsid /\ f.part = r.part /\ f.cut = r.cut
      /\ f.answer.kind = "data" /\ f.answer.fsid = Last(r)
  BY <1>1, <1>2, <1>3, ServedCall, ZenonT(30) DEF Finished, Call, Answer, NoAnswer
<1> HIDE DEF f
<1>6. Good(drive, outages, f)
  BY <1>1, <1>5, ServedCall, FinishedGood DEF Going
<1>7. QED BY <1>1, <1>6, ServedCall, BecomesKeeps

-----------------------------------------------------------------------------
(* Theorems. *)

LEMMA ServeKeeps ==
  ASSUME IInv, NEW c \in Calls, Serve(c)
  PROVE  IInv'
BY BeginKeeps, PassOverKeeps, LoadDriveKeeps, LoadFailsKeeps, LoadCutShortKeeps, LoadPanicsKeeps,
   LookUpKeeps, LookUpFailsKeeps, LookUpPanicsKeeps, FindComponentKeeps, ListEntriesKeeps,
   ListingFailsKeeps, ListingPanicsKeeps, ReadDataKeeps
DEF Serve

LEMMA StepGood == IInv /\ [Next]_vars => IInv'
<1> SUFFICES ASSUME IInv, [Next]_vars PROVE IInv'
  OBVIOUS
<1>1. CASE UNCHANGED vars
  BY <1>1 DEF IInv, TypeOK, PanicNeedsCause, vars
<1>2. CASE \E c \in Calls : Request(c)
  BY <1>2, RequestKeeps
<1>3. CASE GoAway \/ ComeBack
  BY <1>3, OutageKeeps
<1>4. CASE Session
  BY <1>4, DispatchKeeps, ServeKeeps DEF Session
<1>5. CASE Worker
  BY <1>5, ServeKeeps DEF Worker
<1>6. QED BY <1>1, <1>2, <1>3, <1>4, <1>5 DEF Next

LEMMA Invariance == Spec => []IInv
BY InitGood, StepGood, PTL DEF Spec

(* Every variable keeps the form the code gives it. *)
THEOREM TypeCorrect == Spec => []TypeOK
<1>1. IInv => TypeOK
  BY DEF IInv
<1>2. QED BY <1>1, Invariance, PTL

(* Whatever fails on the way, no call of the file system that never took a
   part of the drive for the whole leaves the tree below the root; and one
   that did gets no further than the inodes that the parts of the drive
   answer in place of others lead. *)
THEOREM CallsStayInTree == Spec => []StaysInTree
<1>1. IInv => StaysInTree
  BY DEF IInv, Good, Bounded, StaysInTree, Below, Within
<1>2. QED BY <1>1, Invariance, PTL

(* The process ends only by a panic of the session thread, and without an
   outage only on a drive on which the load panics, or at an inode that is
   in no volume or whose directory is malformed. *)
THEOREM PanicsHaveCause == Spec => []PanicNeedsCause
<1>1. IInv => PanicNeedsCause
  BY DEF IInv
<1>2. QED BY <1>1, Invariance, PTL

(* Without outages every answer is about the path it was asked for: its
   components have been followed one by one, although the handlers go on
   past a component that is not found. *)
THEOREM PathsAreFollowed == Spec => []AnsweredForItsPath
<1>1. IInv => AnsweredForItsPath
  BY DEF IInv, Good, Following, AnsweredForItsPath
<1>2. QED BY <1>1, Invariance, PTL


-----------------------------------------------------------------------------
(* The promise of FileTree.  Where a walk along a path may have come to
   after n components: W holds the sets of files. *)
Onward(d, path, faults, files, i) ==
  (IF faults /\ i < Len(path) THEN files ELSE {})
    \cup UNION {Tree!Children(d, f, path[i], faults) : f \in files}

Walks(d, path, faults, n, W) ==
  /\ W = [i \in 0..n |-> W[i]]
  /\ W[0] = {Root}
  /\ \A i \in 1..n : W[i] = Onward(d, path, faults, W[i - 1], i)

LEMMA WalksAgree ==
  ASSUME NEW d, NEW path, NEW faults, NEW n \in Nat, NEW V, NEW W,
         Walks(d, path, faults, n, V), Walks(d, path, faults, n, W)
  PROVE  V[n] = W[n]
<1> DEFINE bad == {i \in 0..n : V[i] # W[i]}
<1>1. SUFFICES ASSUME bad # {} PROVE FALSE
  OBVIOUS
<1>2. PICK i \in bad : \A j \in bad : i <= j
  <2>1. bad \in SUBSET Nat
    OBVIOUS
  <2> HIDE DEF bad
  <2>2. QED BY <1>1, <2>1, LeastNat
<1>3. i # 0
  BY DEF Walks
<1>4. i \in 1..n /\ i - 1 \in 0..n /\ V[i - 1] = W[i - 1]
  BY <1>2, <1>3
<1>5. QED BY <1>2, <1>4 DEF Walks

(* What FileTree computes is where any such walk ends. *)
LEMMA MeaningsByWalk ==
  ASSUME NEW d, NEW path, Len(path) \in Nat, NEW faults, NEW W,
         Walks(d, path, faults, Len(path), W)
  PROVE  Tree!Meanings(d, path, faults) = W[Len(path)]
<1> DEFINE N == Len(path)
           step(g) == [n \in 0..N |-> IF n = 0 THEN {Root}
                         ELSE Onward(d, path, faults, g[n - 1], n)]
           walk == CHOOSE g : g = step(g)
<1>1. W = step(W)
  <2>1. /\ W = [i \in 0..N |-> W[i]]
        /\ W[0] = {Root}
        /\ \A i \in 1..N : W[i] = Onward(d, path, faults, W[i - 1], i)
    BY DEF Walks
  <2>2. ASSUME NEW i \in 0..N
        PROVE  W[i] = step(W)[i]
    <3>1. step(W)[i] = IF i = 0 THEN {Root} ELSE Onward(d, path, faults, W[i - 1], i)
      OBVIOUS
    <3>2. i = 0 \/ i \in 1..N
      OBVIOUS
    <3> HIDE DEF step
    <3>3. QED BY <2>1, <3>1, <3>2
  <2>3. step(W) = [i \in 0..N |-> step(W)[i]]
    OBVIOUS
  <2>4. QED BY <2>1, <2>2, <2>3
<1>2. walk = step(walk)
  BY <1>1
<1>3. Walks(d, path, faults, N, walk)
  <2> HIDE DEF walk
  <2>1. walk = [i \in 0..N |-> walk[i]]
    BY <1>2
  <2>2. ASSUME NEW i \in 0..N
        PROVE  walk[i] = IF i = 0 THEN {Root} ELSE Onward(d, path, faults, walk[i - 1], i)
    BY <1>2
  <2> HIDE DEF step
  <2>3. walk[0] = {Root}
    BY <2>2
  <2>4. ASSUME NEW i \in 1..N
        PROVE  walk[i] = Onward(d, path, faults, walk[i - 1], i)
    <3>1. i \in 0..N /\ i # 0
      OBVIOUS
    <3>2. QED BY <2>2, <3>1
  <2>5. QED BY <2>1, <2>3, <2>4 DEF Walks
<1>4. walk[N] = W[N]
  BY <1>3, WalksAgree
<1>5. Tree!Meanings(d, path, faults) = walk[N]
  BY DEF Tree!Meanings, Tree!Root, Root, Onward
<1>6. QED BY <1>4, <1>5

(* A file that a call on its way may have come to once reads fail. *)
Walked(d, r, f) ==
  LET n == Len(r.fsids) - 1
  IN  \E W : Walks(d, r.path, TRUE, n, W) /\ f \in W[n]

(* One component further. *)
LEMMA WalksLonger ==
  ASSUME NEW d, NEW path, NEW n \in Nat, NEW W, Walks(d, path, TRUE, n, W)
  PROVE  \E V : /\ Walks(d, path, TRUE, n + 1, V)
                /\ V[n + 1] = Onward(d, path, TRUE, W[n], n + 1)
<1> DEFINE last == Onward(d, path, TRUE, W[n], n + 1)
           V == [i \in 0..(n + 1) |-> IF i = n + 1 THEN last ELSE W[i]]
<1> HIDE DEF last
<1>1. V[n + 1] = last /\ V = [i \in 0..(n + 1) |-> V[i]]
  OBVIOUS
<1>2. \A i \in 0..n : V[i] = W[i]
  OBVIOUS
<1> HIDE DEF V
<1>3. V[0] = {Root}
  BY <1>2 DEF Walks
<1>4. ASSUME NEW i \in 1..(n + 1)
      PROVE  V[i] = Onward(d, path, TRUE, V[i - 1], i)
  <2>1. CASE i = n + 1
    <3>1. i - 1 = n /\ n \in 0..n
      BY <2>1
    <3>2. V[i - 1] = W[n]
      BY <1>2, <3>1
    <3>3. QED BY <1>1, <2>1, <3>2 DEF last
  <2>2. CASE i # n + 1
    <3>1. i \in 1..n /\ i \in 0..n /\ i - 1 \in 0..n
      BY <2>2
    <3>2. QED BY <1>2, <3>1 DEF Walks
  <2>3. QED BY <2>1, <2>2
<1>5. Walks(d, path, TRUE, n + 1, V)
  BY <1>1, <1>3, <1>4 DEF Walks
<1>6. QED BY <1>1, <1>5 DEF last

LEMMA OnwardFacts ==
  ASSUME NEW d, NEW path, NEW files, NEW i, NEW h
  PROVE  /\ \A g \in files : h \in Tree!Children(d, g, path[i], TRUE)
                            => h \in Onward(d, path, TRUE, files, i)
         /\ h \in files /\ i < Len(path) => h \in Onward(d, path, TRUE, files, i)
BY Zenon DEF Onward

LEMMA WalkedOnward ==
  ASSUME NEW d, NEW r \in Call, r.fsids # <<>>, Walked(d, r, r.previous_fsid),
         NEW f, NEW g \in Nat, NEW q \in Call, q.path = r.path, q.fsids = Append(r.fsids, g),
         \/ f \in Tree!Children(d, r.previous_fsid, Component(r), TRUE)
         \/ f = r.previous_fsid /\ Resolving(q)
  PROVE  Walked(d, q, f)
<1> DEFINE n == Len(r.fsids) - 1
<1>1. n \in Nat /\ Len(r.fsids) = n + 1 /\ Len(q.fsids) - 1 = n + 1 /\ Len(q.fsids) = n + 2
  BY CallTypes
<1>2. PICK W : Walks(d, r.path, TRUE, n, W) /\ r.previous_fsid \in W[n]
  BY DEF Walked
<1>3. Component(r) = r.path[n + 1] /\ (Resolving(q) => n + 1 < Len(r.path)) /\ Len(r.path) \in Nat
  BY <1>1, CallTypes, SMTT(30) DEF Component, Resolving
<1> HIDE DEF n
<1>4. PICK V : Walks(d, r.path, TRUE, n + 1, V) /\ V[n + 1] = Onward(d, r.path, TRUE, W[n], n + 1)
  <2>1. \E V : /\ Walks(d, r.path, TRUE, n + 1, V)
              /\ V[n + 1] = Onward(d, r.path, TRUE, W[n], n + 1)
    BY <1>1, <1>2, WalksLonger
  <2>2. QED BY <2>1
<1>5. f \in Onward(d, r.path, TRUE, W[n], n + 1)
  BY <1>2, <1>3, OnwardFacts
<1>6. QED BY <1>1, <1>4, <1>5 DEF Walked

-----------------------------------------------------------------------------
(* While the drive stays a path means the file at the end of its trail, or
   nothing where the trail ends before. *)

LEMMA TrailInDrive ==
  ASSUME NEW d, IsDrive(d), NEW path, Len(path) \in Nat, NEW trail, Tree!Leads(d, path, trail)
  PROVE  \A i \in 1..(Len(path) + 1) : trail[i] \in DOMAIN d.whole
<1> DEFINE N == Len(path)
           bad == {i \in 1..(N + 1) : trail[i] \notin DOMAIN d.whole}
<1>1. SUFFICES ASSUME bad # {} PROVE FALSE
  OBVIOUS
<1>2. PICK i \in bad : \A j \in bad : i <= j
  <2>1. bad \in SUBSET Nat
    OBVIOUS
  <2> HIDE DEF bad
  <2>2. QED BY <1>1, <2>1, LeastNat
<1>3. trail[1] \in DOMAIN d.whole
  BY DEF Tree!Leads, Tree!Root, Root, IsDrive
<1>4. i - 1 \in 1..N /\ trail[i - 1] \in DOMAIN d.whole /\ (i - 1) + 1 = i
  BY <1>2, <1>3
<1>5. trail[i] \in Child(d, trail[i - 1], path[i - 1])
  BY <1>4 DEF Tree!Leads, Child
<1>6. trail[i] \in DOMAIN d.whole
  BY <1>4, <1>5, ChildInDrive
<1>7. QED BY <1>2, <1>6

LEMMA LeadsMeans ==
  ASSUME NEW d, IsDrive(d), NEW path, Len(path) \in Nat, NEW trail, Tree!Leads(d, path, trail)
  PROVE  Tree!Meanings(d, path, FALSE) = {trail[Len(path) + 1]}
<1> DEFINE N == Len(path)
           W == [i \in 0..N |-> {trail[i + 1]}]
<1>1. W = [i \in 0..N |-> W[i]] /\ \A i \in 0..N : W[i] = {trail[i + 1]}
  OBVIOUS
<1>2. trail[1] = Root /\ \A i \in 1..N : trail[i + 1] \in Child(d, trail[i], path[i])
  BY DEF Tree!Leads, Tree!Root, Root, Child
<1> HIDE DEF W
<1>3. W[0] = {Root}
  BY <1>1, <1>2
<1>4. ASSUME NEW i \in 1..N
      PROVE  W[i] = Onward(d, path, FALSE, W[i - 1], i)
  <2>1. i - 1 \in 0..N /\ (i - 1) + 1 = i /\ i \in 0..N /\ i \in 1..(N + 1)
    OBVIOUS
  <2>2. W[i - 1] = {trail[i]} /\ W[i] = {trail[i + 1]} /\ trail[i] \in DOMAIN d.whole
    BY <1>1, <2>1, TrailInDrive
  <2>a. trail[i + 1] \in Child(d, trail[i], path[i])
    BY <1>2
  <2>b. \A g, h \in Child(d, trail[i], path[i]) : g = h
    BY <2>2, ChildFacts
  <2>3. Child(d, trail[i], path[i]) = {trail[i + 1]}
    BY <2>a, <2>b
  <2>4. Onward(d, path, FALSE, {trail[i]}, i) = Child(d, trail[i], path[i])
    BY DEF Onward, Child
  <2>5. QED BY <2>2, <2>3, <2>4
<1>5. Walks(d, path, FALSE, N, W)
  BY <1>1, <1>3, <1>4 DEF Walks
<1>6. QED BY <1>1, <1>5, MeaningsByWalk

LEMMA MissingMeansNothing ==
  ASSUME NEW d, IsDrive(d), NEW r \in Call, LastIsMissing(d, r)
  PROVE  Tree!Meanings(d, r.path, FALSE) = {}
<1> DEFINE path == r.path
           N == Len(path)
           trail == SubSeq(r.fsids, 1, N)
           W == [i \in 0..N |-> IF i = N THEN {} ELSE {trail[i + 1]}]
<1>1. /\ path \in Seq(STRING) /\ N \in Nat \ {0} /\ Len(Above(path)) = N - 1
      /\ \A i \in 1..(N - 1) : Above(path)[i] = path[i]
  BY CallTypes, AboveFacts DEF LastIsMissing
<1>2. Tree!Leads(d, Above(path), trail) /\ Child(d, r.fsids[N], path[N]) = {}
  BY DEF LastIsMissing, Child
<1>3. /\ trail[1] = Root /\ Len(trail) = N
      /\ \A i \in 1..(N - 1) : trail[i + 1] \in Child(d, trail[i], path[i])
  <2> HIDE DEF trail, N
  <2>1. /\ trail[1] = Root /\ Len(trail) = (N - 1) + 1
        /\ \A i \in 1..(N - 1) : trail[i + 1] \in Tree!Children(d, trail[i], Above(path)[i], FALSE)
    BY <1>1, <1>2 DEF Tree!Leads, Tree!Root, Root
  <2>2. \A i \in 1..(N - 1) : trail[i + 1] \in Child(d, trail[i], path[i])
    BY <1>1, <2>1 DEF Child
  <2>3. Len(trail) = N
    BY <1>1, <2>1
  <2>4. QED BY <2>1, <2>2, <2>3
<1>4. \A i \in 1..N : trail[i] \in DOMAIN d.whole
  <2> HIDE DEF trail, N
  <2>1. QED BY <1>1, <1>2, TrailInDrive
<1>5. trail[N] = r.fsids[N]
  BY <1>1, <1>3
<1> HIDE DEF trail, N
<1>6. W = [i \in 0..N |-> W[i]] /\ W[N] = {} /\ \A i \in 0..(N - 1) : W[i] = {trail[i + 1]}
  BY <1>1
<1> HIDE DEF W
<1>7. W[0] = {Root}
  <2>1. 0 \in 0..(N - 1) /\ 0 + 1 = 1
    BY <1>1
  <2>2. QED BY <1>3, <1>6, <2>1
<1>8. ASSUME NEW i \in 1..N
      PROVE  W[i] = Onward(d, path, FALSE, W[i - 1], i)
  <2>1. i - 1 \in 0..(N - 1) /\ (i - 1) + 1 = i
    BY <1>1
  <2>2. W[i - 1] = {trail[i]} /\ trail[i] \in DOMAIN d.whole
    BY <1>4, <1>6, <2>1
  <2>3. Onward(d, path, FALSE, {trail[i]}, i) = Child(d, trail[i], path[i])
    BY DEF Onward, Child
  <2>4. Child(d, trail[i], path[i]) = W[i]
    <3>1. CASE i = N
      BY <1>2, <1>5, <1>6, <3>1
    <3>2. CASE i # N
      <4>1. i \in 1..(N - 1) /\ i \in 0..(N - 1)
        BY <1>1, <3>2
      <4>2. W[i] = {trail[i + 1]} /\ trail[i + 1] \in Child(d, trail[i], path[i])
        BY <1>3, <1>6, <4>1
      <4>3. \A g, h \in Child(d, trail[i], path[i]) : g = h
        BY <2>2, ChildFacts
      <4>4. QED BY <4>2, <4>3
    <3>3. QED BY <3>1, <3>2
  <2>5. QED BY <2>2, <2>3, <2>4
<1>9. Walks(d, path, FALSE, N, W)
  BY <1>6, <1>7, <1>8 DEF Walks
<1>10. Len(path) \in Nat /\ N = Len(path)
  BY <1>1 DEF N
<1>11. Tree!Meanings(d, path, FALSE) = W[Len(path)]
  BY <1>9, <1>10, MeaningsByWalk
<1>12. QED BY <1>6, <1>10, <1>11

(* A path may be taken for the file its call has come to. *)
LEMMA WalkedIsMeant ==
  ASSUME outages \in Nat, IsDrive(drive), NEW r \in Call, Len(r.fsids) = Len(r.path) + 1,
         Walked(drive, r, Last(r)), outages = 0 => Tree!Leads(drive, r.path, r.fsids)
  PROVE  Last(r) \in Tree!Meanings(drive, r.path, outages > 0)
<1> DEFINE N == Len(r.path)
<1>1. N \in Nat /\ Len(r.fsids) - 1 = N
  BY CallTypes
<1>2. CASE outages = 0
  <2>1. Tree!Meanings(drive, r.path, FALSE) = {r.fsids[N + 1]}
    BY <1>1, <1>2, LeadsMeans
  <2>2. (outages > 0) = FALSE
    BY <1>2
  <2>3. QED BY <2>1, <2>2 DEF Last
<1>3. CASE outages > 0
  <2>1. PICK W : Walks(drive, r.path, TRUE, N, W) /\ Last(r) \in W[N]
    BY <1>1 DEF Walked
  <2>2. Tree!Meanings(drive, r.path, TRUE) = W[N]
    BY <1>1, <2>1, MeaningsByWalk
  <2>3. (outages > 0) = TRUE
    BY <1>3
  <2>4. QED BY <2>1, <2>2, <2>3
<1>4. QED BY <1>2, <1>3

-----------------------------------------------------------------------------
(* What holds of a call for the sake of the promise; and what a call that is
   answered has kept. *)
Held(d, r) ==
  /\ UnderWay(r) => Walked(d, r, Target(r))
  /\ r.phase # "answered" => r.answer = NoAnswer
  /\ r.phase = "answered" => r.answer # NoAnswer
  /\ r.phase = "idle" => r.op = "none" /\ r.path = <<>>

Kept(r) ==
  r.phase = "answered" => Tree!Promised(drive, [op |-> r.op, path |-> r.path], r.answer)

(* A call that goes on or ends as it should. *)
Holds(q, r) == Held(drive, q) /\ Kept(q) /\ q.op = r.op /\ q.path = r.path

LEMMA PromisedAbout ==
  ASSUME NEW op, NEW path, NEW f \in Tree!Meanings(drive, path, outages > 0),
         NEW a \in Tree!About(drive, op, f, outages > 0)
  PROVE  Tree!Promised(drive, [op |-> op, path |-> path], a)
BY DEF Tree!Promised

LEMMA PromisedError ==
  ASSUME NEW op, NEW path,
         \/ outages > 0
         \/ Tree!Meanings(drive, path, outages > 0) = {}
         \/ \E f \in Tree!Meanings(drive, path, outages > 0) : Tree!Refuses(drive, op, f)
  PROVE  Tree!Promised(drive, [op |-> op, path |-> path], Tree!Error)
BY DEF Tree!Promised

LEMMA FailedHeld ==
  ASSUME NEW r \in Call,
         \/ outages > 0
         \/ Tree!Meanings(drive, r.path, outages > 0) = {}
         \/ \E f \in Tree!Meanings(drive, r.path, outages > 0) : Tree!Refuses(drive, r.op, f)
  PROVE  Holds(Failed(r), r)
<1> DEFINE q == Failed(r)
<1>1. /\ q.phase = "answered" /\ q.op = r.op /\ q.path = r.path
      /\ q.answer = [NoAnswer EXCEPT !.kind = "error"]
  BY DEF Failed, Call
<1>2. q.answer # NoAnswer
  BY <1>1 DEF NoAnswer
<1> HIDE DEF q
<1>3. q.answer = Tree!Error
  BY <1>1 DEF Tree!Error, Tree!Untold, Tree!NoFsid, NoAnswer, NoFsid
<1>4. Kept(q)
  BY <1>1, <1>3, PromisedError DEF Kept
<1>5. Held(drive, q)
  BY <1>1, <1>2 DEF Held, UnderWay
<1>6. Holds(q, r)
  BY <1>1, <1>4, <1>5 DEF Holds
<1>7. QED BY <1>6 DEF q

(* A call that has come to the file it is about. *)
Arrived(r) ==
  /\ outages \in Nat
  /\ IsDrive(drive)
  /\ r \in Call
  /\ Len(r.fsids) = Len(r.path) + 1
  /\ Walked(drive, r, Last(r))
  /\ outages = 0 => Tree!Leads(drive, r.path, r.fsids)

LEMMA AboutHeld ==
  ASSUME NEW r, Arrived(r),
         NEW q, q.phase = "answered", q.op = r.op, q.path = r.path,
         q.answer \in Tree!About(drive, r.op, Last(r), outages > 0), q.answer.kind # "none"
  PROVE  Holds(q, r)
<1>1. Last(r) \in Tree!Meanings(drive, r.path, outages > 0)
  BY WalkedIsMeant DEF Arrived
<1>2. Kept(q)
  BY <1>1, PromisedAbout DEF Kept
<1>3. q.answer # NoAnswer
  BY DEF NoAnswer
<1>4. QED BY <1>2, <1>3 DEF Held, UnderWay, Holds

LEMMA RefusalHeld ==
  ASSUME NEW r, Arrived(r), outages > 0 \/ Tree!Refuses(drive, r.op, Last(r))
  PROVE  Holds(Failed(r), r)
<1>1. Last(r) \in Tree!Meanings(drive, r.path, outages > 0) /\ r \in Call
  BY WalkedIsMeant DEF Arrived
<1>2. QED BY <1>1, FailedHeld

(* The answers that end a call that has arrived. *)
LEMMA FinishedAnswer ==
  ASSUME NEW r \in Call, NEW kind, NEW dir, NEW names, NEW intact, NEW q,
         q = [r EXCEPT !.phase = "answered",
                       !.answer = Tree!Answer(kind, Last(r), dir, names, intact)]
  PROVE  /\ q.phase = "answered" /\ q.op = r.op /\ q.path = r.path
         /\ q.answer = Tree!Answer(kind, Last(r), dir, names, intact)
         /\ q.answer.kind = kind
BY DEF Call, Tree!Answer

LEMMA ResolvedHeld ==
  ASSUME outages \in Nat, IsDrive(drive), NEW q \in Call, q.fsids # <<>>,
         Len(q.fsids) <= Len(q.path) + 1, q.answer = NoAnswer,
         outages = 0 => Stepped(drive, q),
         Resolving(q) => Walked(drive, q, q.previous_fsid),
         ~Resolving(q) => Last(q) = NoFsid \/ Walked(drive, q, Last(q))
  PROVE  Holds(Resolved(q), q)
<1> DEFINE p == [q EXCEPT !.phase = "load", !.part = 0]
           f == Finished(q, "handle")
<1>1. /\ p.phase = "load" /\ p.op = q.op /\ p.path = q.path /\ p.fsids = q.fsids
      /\ p.previous_fsid = q.previous_fsid /\ p.answer = NoAnswer
  BY DEF Call
<1>2. /\ f.phase = "answered" /\ f.op = q.op /\ f.path = q.path
      /\ f.answer = Tree!Answer("handle", Last(q), FALSE, {}, FALSE) /\ f.answer.kind = "handle"
  BY DEF Finished, Call, NoAnswer, Tree!Answer
<1> HIDE DEF p, f
<1>4. ~Resolving(q) => Len(q.fsids) = Len(q.path) + 1
  BY CallTypes DEF Resolving
<1>5. ASSUME Walked(drive, q, Target(q))
      PROVE  Holds(p, q)
  <2>1. Target(p) = Target(q) /\ (Resolving(p) <=> Resolving(q))
    BY <1>1 DEF Target, Resolving, Last
  <2>2. Walked(drive, p, Target(p))
    BY <1>1, <1>5, <2>1 DEF Walked
  <2>3. QED BY <1>1, <2>2 DEF Held, Kept, Holds
<1>6. CASE Resolving(q)
  <2>1. Target(q) = q.previous_fsid
    BY <1>6 DEF Target
  <2>2. Resolved(q) = p
    BY <1>6 DEF Resolved, p
  <2>3. QED BY <1>1, <1>5, <1>6, <2>1, <2>2
<1>7. CASE ~Resolving(q) /\ Last(q) = NoFsid
  <2>1. outages = 0 => Tree!Meanings(drive, q.path, outages > 0) = {}
    <3>1. HAVE outages = 0
    <3>2. LastIsMissing(drive, q) /\ (outages > 0) = FALSE
      BY <1>7, <3>1 DEF Stepped
    <3>3. QED BY <3>2, MissingMeansNothing
  <2>2. outages = 0 \/ outages > 0
    OBVIOUS
  <2>3. Resolved(q) = Failed(q)
    BY <1>7 DEF Resolved
  <2>4. QED BY <2>1, <2>2, <2>3, FailedHeld
<1>a. ASSUME ~Resolving(q), Last(q) # NoFsid
      PROVE  Arrived(q)
  BY <1>4, <1>a DEF Arrived, Stepped
<1>8. CASE ~Resolving(q) /\ Last(q) # NoFsid /\ q.op \in {"open", "opendir"}
  <2>1. f.answer \in Tree!About(drive, q.op, Last(q), outages > 0)
    BY <1>2, <1>8 DEF Tree!About
  <2>2. Resolved(q) = f
    BY <1>8 DEF Resolved, f
  <2>3. Holds(f, q)
    BY <1>2, <1>8, <1>a, <2>1, AboutHeld
  <2>4. QED BY <2>2, <2>3
<1>9. CASE ~Resolving(q) /\ Last(q) # NoFsid /\ q.op \notin {"open", "opendir"}
  <2>1. Target(q) = Last(q)
    BY <1>9 DEF Target
  <2>2. Resolved(q) = p
    BY <1>9 DEF Resolved, p
  <2>3. QED BY <1>1, <1>5, <1>9, <2>1, <2>2
<1>10. QED BY <1>6, <1>7, <1>8, <1>9

LEMMA NotFoundHeld ==
  ASSUME outages \in Nat, IsDrive(drive), NEW r, Good(drive, outages, r), UnderWay(r),
         Held(drive, r), Resolving(r),
         outages = 0 => Child(drive, r.previous_fsid, Component(r)) = {}
  PROVE  Holds(NotFound(r), r)
<1> DEFINE q == [r EXCEPT !.fsids = Append(r.fsids, NoFsid)]
<1>1. /\ r \in Call /\ Bounded(drive, r) /\ r.fsids # <<>> /\ r.fsids \in Seq(Nat)
      /\ r.answer = NoAnswer /\ Walked(drive, r, r.previous_fsid)
  BY CallTypes DEF Good, Bounded, Going, Held, Target, UnderWay
<1>2. Append(r.fsids, NoFsid) \in Seq(Nat)
  BY <1>1 DEF NoFsid
<1>3. /\ q \in Call /\ q.path = r.path /\ q.fsids = Append(r.fsids, NoFsid) /\ q.cut = r.cut
      /\ q.previous_fsid = r.previous_fsid /\ q.answer = r.answer /\ q.op = r.op
  BY <1>1, <1>2 DEF Call
<1>4. NotFound(r) = Resolved(q)
  BY DEF NotFound
<1> HIDE DEF q
<1>5. NoFsid \in Below(drive, r.cut) \cap Nat /\ r.previous_fsid \in Below(drive, r.cut)
  BY <1>1 DEF Below, NoFsid, Bounded
<1>6. Bounded(drive, q) /\ q.fsids # <<>>
  BY <1>1, <1>3, <1>5, AppendBounded
<1>7. Last(q) = NoFsid
  BY <1>1, <1>3, CallTypes DEF Last
<1>8. Resolving(q) => Walked(drive, q, q.previous_fsid)
  BY <1>1, <1>3, WalkedOnward DEF NoFsid
<1>9. outages = 0 => Stepped(drive, q)
  <2>1. HAVE outages = 0
  <2>2. Trailed(drive, r) /\ r.previous_fsid = Last(r)
    BY <2>1 DEF Good, Following
  <2>3. QED BY <1>1, <1>3, <2>1, <2>2, NotFoundStepped
<1>10. Len(q.fsids) <= Len(q.path) + 1
  BY <1>6 DEF Bounded
<1>11. Holds(Resolved(q), q)
  BY <1>1, <1>3, <1>6, <1>7, <1>8, <1>9, <1>10, ResolvedHeld
<1>12. QED BY <1>3, <1>4, <1>11 DEF Holds

LEMMA FoundHeld ==
  ASSUME outages \in Nat, IsDrive(drive), NEW r, Good(drive, outages, r), UnderWay(r),
         Held(drive, r), Resolving(r), NEW f \in Within(drive, r.cut), f \in Nat \ {NoFsid},
         f \in Tree!Children(drive, r.previous_fsid, Component(r), outages > 0)
  PROVE  Holds(Found(r, f), r)
<1> DEFINE q == [r EXCEPT !.fsids = Append(r.fsids, f), !.previous_fsid = f]
<1>1. /\ r \in Call /\ Bounded(drive, r) /\ r.fsids # <<>> /\ r.fsids \in Seq(Nat)
      /\ r.answer = NoAnswer /\ Walked(drive, r, r.previous_fsid)
      /\ r.previous_fsid \in Within(drive, r.cut)
  BY CallTypes DEF Good, Bounded, Going, Held, Target, UnderWay
<1>2. Append(r.fsids, f) \in Seq(Nat)
  BY <1>1
<1>3. /\ q \in Call /\ q.path = r.path /\ q.fsids = Append(r.fsids, f) /\ q.cut = r.cut
      /\ q.previous_fsid = f /\ q.answer = r.answer /\ q.op = r.op
  BY <1>1, <1>2 DEF Call
<1>4. Found(r, f) = Resolved(q)
  BY DEF Found
<1> HIDE DEF q
<1>5. f \in Below(drive, r.cut) \cap Nat
  BY DEF Below
<1>6. Bounded(drive, q) /\ q.fsids # <<>>
  BY <1>1, <1>3, <1>5, AppendBounded
<1>7. Last(q) = f
  BY <1>1, <1>3, CallTypes DEF Last
<1>8. r.previous_fsid \in DOMAIN drive.whole
  BY <1>1, ReachableFacts
<1>9. outages = 0 => f \in Child(drive, r.previous_fsid, Component(r))
  <2>1. HAVE outages = 0
  <2>2. (outages > 0) = FALSE
    BY <2>1
  <2>3. QED BY <2>2 DEF Child
<1>10. f \in Tree!Children(drive, r.previous_fsid, Component(r), TRUE)
  <2>1. CASE outages = 0
    BY <1>8, <1>9, <2>1, ChildFacts
  <2>2. CASE outages > 0
    <3>1. (outages > 0) = TRUE
      BY <2>2
    <3>2. QED BY <3>1
  <2>3. outages = 0 \/ outages > 0
    OBVIOUS
  <2>4. QED BY <2>1, <2>2, <2>3
<1>11. Walked(drive, q, f)
  BY <1>1, <1>3, <1>10, WalkedOnward
<1>12. outages = 0 => Stepped(drive, q)
  <2>1. HAVE outages = 0
  <2>2. Trailed(drive, r) /\ r.previous_fsid = Last(r)
    BY <2>1 DEF Good, Following
  <2>3. QED BY <1>1, <1>3, <1>8, <1>9, <2>1, <2>2, FoundStepped
<1>13. Len(q.fsids) <= Len(q.path) + 1
  BY <1>6 DEF Bounded
<1>14. Holds(Resolved(q), q)
  BY <1>1, <1>3, <1>6, <1>7, <1>11, <1>12, <1>13, ResolvedHeld
<1>15. QED BY <1>3, <1>4, <1>14 DEF Holds

LEMMA BeginHeld ==
  ASSUME outages \in Nat, IsDrive(drive), NEW r, Good(drive, outages, r), r.phase = "waiting",
         Held(drive, r)
  PROVE  Holds(Resolved([r EXCEPT !.fsids = <<Root>>, !.previous_fsid = Root]), r)
<1> DEFINE q == [r EXCEPT !.fsids = <<Root>>, !.previous_fsid = Root]
<1>1. Root \in Nat /\ <<Root>> \in Seq(Nat) /\ r.answer = NoAnswer /\ r \in Call
  BY DEF Root, Held, Good, Bounded
<1>2. /\ q \in Call /\ q.path = r.path /\ q.fsids = <<Root>>
      /\ q.previous_fsid = Root /\ q.answer = r.answer /\ q.op = r.op
  BY <1>1 DEF Call
<1> HIDE DEF q
<1>3. q.fsids # <<>> /\ Len(q.fsids) = 1 /\ Last(q) = Root /\ Len(q.path) \in Nat
  BY <1>2, CallTypes DEF Last
<1>4. Len(q.fsids) <= Len(q.path) + 1
  BY <1>3
<1>5. Walked(drive, q, Root)
  <2> DEFINE W == [i \in 0..0 |-> {Root}]
  <2>1. Len(q.fsids) - 1 = 0 /\ 1..0 = {}
    BY <1>3
  <2>2. W = [i \in 0..0 |-> W[i]] /\ W[0] = {Root}
    OBVIOUS
  <2> HIDE DEF W
  <2>3. Walks(drive, q.path, TRUE, 0, W)
    BY <2>1, <2>2 DEF Walks
  <2>4. QED BY <2>1, <2>2, <2>3 DEF Walked
<1>6. outages = 0 => Stepped(drive, q)
  BY <1>1, <1>2, BeginStepped DEF Good, Following
<1>7. Holds(Resolved(q), q)
  BY <1>1, <1>2, <1>3, <1>4, <1>5, <1>6, ResolvedHeld
<1>8. QED BY <1>2, <1>7 DEF Holds, q

(* The next phase of a call. *)
LEMMA AdvancedHeld ==
  ASSUME NEW r, UnderWay(r), Held(drive, r),
         NEW q, UnderWay(q), q.path = r.path, q.fsids = r.fsids, q.op = r.op,
         q.previous_fsid = r.previous_fsid, q.answer = r.answer
  PROVE  Holds(q, r)
<1>1. Target(q) = Target(r) /\ (Resolving(q) <=> Resolving(r))
  BY DEF Target, Resolving, Last
<1>2. Walked(drive, q, Target(q))
  BY <1>1 DEF Held, Walked
<1>3. q.phase \notin {"idle", "answered"} /\ r.phase # "answered"
  BY DEF UnderWay
<1>4. QED BY <1>2, <1>3 DEF Held, Kept, Holds

-----------------------------------------------------------------------------
(* The inductive invariant of the refinement, and what a step of a thread
   does to the call it serves. *)
HInv ==
  /\ IInv
  /\ \A c \in Calls : Held(drive, call[c])

Serves(c, r) ==
  /\ call' = [call EXCEPT ![c] = r]
  /\ Holds(r, call[c])
  /\ UNCHANGED <<drive, outages>>

(* A call that goes on or ends with what Becomes is given. *)
LEMMA BecomesServes ==
  ASSUME NEW c \in Calls, NEW r, Becomes(c, r), Holds(r, call[c])
  PROVE  Serves(c, r)
BY DEF Becomes, Serves

(* What a call about to be answered knows. *)
LEMMA HeldCall ==
  ASSUME HInv, NEW c \in Calls, NEW phase \in {"load", "lookup", "fetch"}, Serving(c, phase)
  PROVE  LET r == call[c] IN
         /\ outages \in Nat /\ IsDrive(drive) /\ r \in Call /\ Good(drive, outages, r)
         /\ UnderWay(r) /\ Held(drive, r) /\ r.answer = NoAnswer
         /\ ~online => outages > 0
         /\ ~Resolving(r) => /\ Arrived(r) /\ Last(r) = Target(r)
                             /\ r.op \in {"getattr", "readdir", "read"}
<1> DEFINE r == call[c]
<1>1. /\ outages \in Nat /\ IsDrive(drive) /\ r \in Call /\ Good(drive, outages, r)
      /\ UnderWay(r) /\ Bounded(drive, r) /\ Going(drive, r)
      /\ ~Resolving(r) => Target(r) = Last(r)
      /\ outages = 0 /\ ~Resolving(r) => Tree!Leads(drive, r.path, r.fsids)
  BY ServedCall DEF HInv
<1>2. Held(drive, r) /\ (~online => outages > 0)
  BY DEF HInv, IInv
<1>3. r.answer = NoAnswer /\ Walked(drive, r, Target(r))
  BY <1>1, <1>2 DEF Held, UnderWay
<1>4. Len(r.fsids) \in Nat /\ Len(r.path) \in Nat
  BY <1>1, CallTypes
<1>5. ~Resolving(r) => Len(r.fsids) = Len(r.path) + 1
  BY <1>1, <1>4 DEF Bounded, Resolving
<1>6. ~Resolving(r) => r.op \in {"getattr", "readdir", "read"}
  BY <1>1 DEF Going, Ops
<1>7. ~Resolving(r) => Arrived(r)
  BY <1>1, <1>3, <1>5 DEF Arrived
<1>8. QED BY <1>1, <1>2, <1>3, <1>6, <1>7

LEMMA BeginServes ==
  ASSUME HInv, NEW c \in Calls, Begin(c)
  PROVE  \E r : Serves(c, r)
<1> DEFINE q == Resolved([call[c] EXCEPT !.fsids = <<Root>>, !.previous_fsid = Root])
<1>1. /\ call[c].phase = "waiting" /\ Becomes(c, q) /\ outages \in Nat /\ IsDrive(drive)
      /\ Good(drive, outages, call[c]) /\ Held(drive, call[c])
  BY MaxOutagesAssumption DEF Begin, Serving, HInv, IInv, TypeOK
<1>2. Holds(q, call[c])
  BY <1>1, BeginHeld
<1> HIDE DEF q
<1>3. QED BY <1>1, <1>2, BecomesServes

(* A component that is not found, a call that fails: what all the steps that
   may come to that share. *)
LEMMA MissServes ==
  ASSUME HInv, NEW c \in Calls, NEW phase \in {"load", "lookup", "fetch"}, Serving(c, phase),
         Resolving(call[c]), Becomes(c, NotFound(call[c])),
         outages = 0 => Child(drive, call[c].previous_fsid, Component(call[c])) = {}
  PROVE  \E r : Serves(c, r)
<1>1. Holds(NotFound(call[c]), call[c])
  BY HeldCall, NotFoundHeld
<1>2. QED BY <1>1, BecomesServes

LEMMA RefusalServes ==
  ASSUME HInv, NEW c \in Calls, NEW phase \in {"load", "lookup", "fetch"}, Serving(c, phase),
         ~Resolving(call[c]), Becomes(c, Failed(call[c])),
         outages > 0 \/ Tree!Refuses(drive, call[c].op, Last(call[c]))
  PROVE  \E r : Serves(c, r)
<1>1. Holds(Failed(call[c]), call[c])
  BY HeldCall, RefusalHeld
<1>2. QED BY <1>1, BecomesServes

LEMMA PanicServes ==
  ASSUME HInv, NEW c \in Calls, NEW phase \in {"load", "lookup", "fetch"}, Serving(c, phase),
         Panic(c), PanicCause(drive, outages, call[c])
  PROVE  \E r : Serves(c, r)
<1> DEFINE r == call[c]
           q == [r EXCEPT !.phase = "answered", !.answer.kind = "lost"]
<1>1. r \in Call /\ r.answer = NoAnswer /\ Target(r) \in DOMAIN drive.whole
  BY HeldCall, ServedCall DEF HInv
<1>2. r.answer \in Answer
  BY <1>1 DEF Call
<1>3. /\ q.phase = "answered" /\ q.op = r.op /\ q.path = r.path /\ q.answer.kind = "lost"
  BY <1>1, <1>2 DEF Call, Answer
<1>4. call' = [call EXCEPT ![c] = q] /\ UNCHANGED <<drive, outages>>
  BY DEF Panic
<1> HIDE DEF q
<1>5. q.answer # NoAnswer
  <2>1. q.answer.kind # NoAnswer.kind
    BY <1>3 DEF NoAnswer
  <2>2. QED BY <2>1
<1>6. Held(drive, q)
  BY <1>3, <1>5 DEF Held, UnderWay
<1>7. outages > 0 \/ Tree!Malformed(drive)
  BY <1>1 DEF PanicCause, Tree!Malformed
<1>8. Kept(q)
  BY <1>3, <1>7 DEF Kept, Tree!Promised
<1>9. QED BY <1>3, <1>4, <1>6, <1>8 DEF Serves, Holds

LEMMA PassOverServes ==
  ASSUME HInv, NEW c \in Calls, PassOver(c)
  PROVE  \E r : Serves(c, r)
<1> DEFINE r == call[c]
<1>1. Serving(c, "load") /\ Resolving(r) /\ Component(r) \in Unnameable /\ Becomes(c, NotFound(r))
  BY DEF PassOver, Component
<1>2. Child(drive, r.previous_fsid, Component(r)) = {}
  BY <1>1, ServedCall, NoChild DEF HInv
<1>3. QED BY <1>1, <1>2, MissServes

LEMMA LoadDriveServes ==
  ASSUME HInv, NEW c \in Calls, LoadDrive(c)
  PROVE  \E r : Serves(c, r)
<1> DEFINE r == call[c]
           q == [r EXCEPT !.phase = "lookup"]
<1>1. Serving(c, "load") /\ Becomes(c, q)
  BY DEF LoadDrive, Loads
<1>2. /\ UnderWay(q) /\ q.path = r.path /\ q.op = r.op
      /\ q.fsids = r.fsids /\ q.previous_fsid = r.previous_fsid /\ q.answer = r.answer
  BY <1>1, HeldCall DEF Call, UnderWay
<1> HIDE DEF q
<1>3. Holds(q, r)
  BY <1>1, <1>2, HeldCall, AdvancedHeld
<1>4. QED BY <1>1, <1>3, BecomesServes

LEMMA LoadCutShortServes ==
  ASSUME HInv, NEW c \in Calls, LoadCutShort(c)
  PROVE  \E r : Serves(c, r)
<1> DEFINE r == call[c]
<1>1. Serving(c, "load") /\ \E k \in DOMAIN drive.parts :
        Becomes(c, [r EXCEPT !.phase = "lookup", !.part = k, !.cut = TRUE])
  BY DEF LoadCutShort, Loads
<1>2. PICK k \in DOMAIN drive.parts :
        Becomes(c, [r EXCEPT !.phase = "lookup", !.part = k, !.cut = TRUE])
  BY <1>1
<1> DEFINE q == [r EXCEPT !.phase = "lookup", !.part = k, !.cut = TRUE]
<1>3. /\ UnderWay(q) /\ q.path = r.path /\ q.op = r.op
      /\ q.fsids = r.fsids /\ q.previous_fsid = r.previous_fsid /\ q.answer = r.answer
  BY <1>1, HeldCall DEF Call, UnderWay
<1>4. Becomes(c, q)
  BY <1>2
<1> HIDE DEF q
<1>5. Holds(q, r)
  BY <1>1, <1>3, HeldCall, AdvancedHeld
<1>6. QED BY <1>4, <1>5, BecomesServes

LEMMA LoadFailsServes ==
  ASSUME HInv, NEW c \in Calls, LoadFails(c)
  PROVE  \E r : Serves(c, r)
<1> DEFINE r == call[c]
<1>1. /\ Serving(c, "load") /\ (~online \/ drive.loads = "error")
      /\ Becomes(c, IF Resolving(r) THEN NotFound(r) ELSE Failed(r))
  BY DEF LoadFails, Loads
<1>2. outages > 0 \/ drive.loads = "error"
  BY <1>1, HeldCall
<1>3. CASE Resolving(r)
  <2>1. outages = 0 => Child(drive, r.previous_fsid, Component(r)) = {}
    BY <1>1, <1>2, <1>3, ServedCall, NoChild DEF HInv
  <2>2. Becomes(c, NotFound(r))
    BY <1>1, <1>3
  <2>3. QED BY <1>1, <1>3, <2>1, <2>2, MissServes
<1>4. CASE ~Resolving(r)
  <2>1. outages > 0 \/ Tree!Refuses(drive, r.op, Last(r))
    BY <1>1, <1>2, <1>4, HeldCall DEF Tree!Refuses
  <2>2. Becomes(c, Failed(r))
    BY <1>1, <1>4
  <2>3. QED BY <1>1, <1>4, <2>1, <2>2, RefusalServes
<1>5. QED BY <1>3, <1>4

LEMMA LoadPanicsServes ==
  ASSUME HInv, NEW c \in Calls, LoadPanics(c)
  PROVE  \E r : Serves(c, r)
<1>1. Serving(c, "load") /\ Panic(c) /\ (~online \/ drive.loads = "panic")
  BY DEF LoadPanics, Loads
<1>2. PanicCause(drive, outages, call[c])
  BY <1>1, HeldCall DEF PanicCause
<1>3. QED BY <1>1, <1>2, PanicServes

LEMMA LookUpServes ==
  ASSUME HInv, NEW c \in Calls, LookUp(c)
  PROVE  \E r : Serves(c, r)
<1> DEFINE r == call[c]
           t == Mounted(drive, r)
           f == [Finished(r, "attr") EXCEPT !.answer.dir = Inode(c).type = "Dir"]
           q == [r EXCEPT !.phase = "fetch"]
<1>1. /\ Serving(c, "lookup") /\ Inode(c).outcome = "ok"
      /\ Becomes(c, IF ~Resolving(r) /\ r.op = "getattr" THEN f ELSE q)
  BY DEF LookUp
<1>2. Inode(c) = t[Target(r)] /\ t \in Tree!Tables(drive, outages > 0)
  BY <1>1, AtInode DEF HInv
<1>3. CASE ~Resolving(r) /\ r.op = "getattr"
  <2>0. Arrived(r) /\ Last(r) = Target(r) /\ r \in Call /\ r.answer = NoAnswer
    BY <1>1, <1>3, HeldCall
  <2>1. (Inode(c).type = "Dir") = Tree!IsDir(t, Last(r)) /\ t[Last(r)].outcome = "ok"
    BY <1>1, <1>2, <2>0 DEF Tree!IsDir
  <2>2. /\ f.phase = "answered" /\ f.op = r.op /\ f.path = r.path
        /\ f.answer = Tree!Answer("attr", Last(r), Tree!IsDir(t, Last(r)), {}, FALSE)
        /\ f.answer.kind = "attr"
    BY <2>0, <2>1 DEF Finished, Call, NoAnswer, Tree!Answer
  <2>3. Becomes(c, f)
    BY <1>1, <1>3
  <2> HIDE DEF f, t
  <2>4. t \in {u \in Tree!Tables(drive, outages > 0) : u[Last(r)].outcome # "panic"}
    BY <1>2, <2>1
  <2>5. f.answer \in Tree!About(drive, r.op, Last(r), outages > 0)
    BY <1>3, <2>2, <2>4 DEF Tree!About
  <2>6. Holds(f, r)
    BY <2>0, <2>2, <2>5, AboutHeld
  <2>7. QED BY <2>3, <2>6, BecomesServes
<1>4. CASE ~(~Resolving(r) /\ r.op = "getattr")
  <2>1. /\ UnderWay(q) /\ q.path = r.path /\ q.op = r.op
        /\ q.fsids = r.fsids /\ q.previous_fsid = r.previous_fsid /\ q.answer = r.answer
    BY <1>1, HeldCall DEF Call, UnderWay
  <2>2. Becomes(c, q)
    BY <1>1, <1>4
  <2> HIDE DEF q, f
  <2>3. Holds(q, r)
    BY <1>1, <2>1, HeldCall, AdvancedHeld
  <2>4. QED BY <2>2, <2>3, BecomesServes
<1>5. QED BY <1>3, <1>4

LEMMA LookUpFailsServes ==
  ASSUME HInv, NEW c \in Calls, LookUpFails(c)
  PROVE  \E r : Serves(c, r)
<1> DEFINE r == call[c]
           t == Mounted(drive, r)
           f == Finished(r, "attr")
<1>1. /\ Serving(c, "lookup") /\ (~online \/ Inode(c).outcome = "error")
      /\ Becomes(c, IF Resolving(r) THEN NotFound(r)
                    ELSE IF r.op = "getattr" THEN f ELSE Failed(r))
  BY DEF LookUpFails
<1>2. /\ Inode(c) = t[Target(r)] /\ t \in Tree!Tables(drive, outages > 0)
      /\ outages = 0 => t = drive.whole
      /\ outages > 0 \/ (t[Target(r)].outcome = "error" /\ outages = 0)
  BY <1>1, AtInode, HeldCall DEF HInv
<1>3. CASE Resolving(r)
  <2>1. outages = 0 => Child(drive, r.previous_fsid, Component(r)) = {}
    BY <1>1, <1>2, <1>3, ServedCall, NoChild DEF HInv
  <2>2. Becomes(c, NotFound(r))
    BY <1>1, <1>3
  <2>3. QED BY <1>1, <1>3, <2>1, <2>2, MissServes
<1>4. CASE ~Resolving(r) /\ r.op = "getattr"
  <2>0. Arrived(r) /\ Last(r) = Target(r) /\ r \in Call /\ r.answer = NoAnswer
    BY <1>1, <1>4, HeldCall
  <2>1. /\ f.phase = "answered" /\ f.op = r.op /\ f.path = r.path
        /\ f.answer = Tree!Answer("attr", Last(r), FALSE, {}, FALSE) /\ f.answer.kind = "attr"
    BY <2>0 DEF Finished, Call, NoAnswer, Tree!Answer
  <2>2. Becomes(c, f)
    BY <1>1, <1>4
  <2> HIDE DEF f, t
  <2>3. f.answer \in Tree!About(drive, r.op, Last(r), outages > 0)
    <3>1. CASE outages > 0
      BY <1>4, <2>1, <3>1 DEF Tree!About
    <3>2. CASE t[Target(r)].outcome = "error"
      <4>1. Tree!IsDir(t, Last(r)) = FALSE
        BY <2>0, <3>2 DEF Tree!IsDir
      <4>2. t \in {u \in Tree!Tables(drive, outages > 0) : u[Last(r)].outcome # "panic"}
        BY <1>2, <2>0, <3>2
      <4>3. QED BY <1>4, <2>1, <4>1, <4>2 DEF Tree!About
    <3>3. QED BY <1>2, <3>1, <3>2
  <2>4. Holds(f, r)
    BY <2>0, <2>1, <2>3, AboutHeld
  <2>5. QED BY <2>2, <2>4, BecomesServes
<1>5. CASE ~Resolving(r) /\ r.op # "getattr"
  <2>1. outages > 0 \/ Tree!Refuses(drive, r.op, Last(r))
    BY <1>1, <1>2, <1>5, HeldCall DEF Tree!Refuses
  <2>2. Becomes(c, Failed(r))
    BY <1>1, <1>5
  <2>3. QED BY <1>1, <1>5, <2>1, <2>2, RefusalServes
<1>6. QED BY <1>3, <1>4, <1>5

LEMMA LookUpPanicsServes ==
  ASSUME HInv, NEW c \in Calls, LookUpPanics(c)
  PROVE  \E r : Serves(c, r)
<1>1. Serving(c, "lookup") /\ Inode(c).outcome = "panic" /\ Panic(c)
  BY DEF LookUpPanics
<1>2. PanicCause(drive, outages, call[c])
  BY <1>1, AtInode, ServedCall DEF PanicCause, HInv
<1>3. QED BY <1>1, <1>2, PanicServes

LEMMA ListingPanicsServes ==
  ASSUME HInv, NEW c \in Calls, ListingPanics(c)
  PROVE  \E r : Serves(c, r)
<1>1. /\ Serving(c, "fetch") /\ Panic(c)
      /\ ~online \/ Inode(c).listing = "panic"
  BY DEF ListingPanics, Listing, Fetchable
<1>2. PanicCause(drive, outages, call[c])
  BY <1>1, AtInode, ServedCall DEF PanicCause, HInv
<1>3. QED BY <1>1, <1>2, PanicServes

LEMMA FindComponentServes ==
  ASSUME HInv, NEW c \in Calls, FindComponent(c)
  PROVE  \E r : Serves(c, r)
<1> DEFINE r == call[c]
           name == Component(r)
<1>1. /\ Serving(c, "fetch") /\ Resolving(r)
      /\ \E shown \in Shown(c) :
           Becomes(c, IF Present(shown, name) THEN Found(r, FirstNamed(shown, name)) ELSE NotFound(r))
  BY DEF FindComponent, Listing
<1>2. PICK shown \in Shown(c) :
        Becomes(c, IF Present(shown, name) THEN Found(r, FirstNamed(shown, name)) ELSE NotFound(r))
  BY <1>1
<1> DEFINE f == FirstNamed(shown, name)
<1>3. Target(r) = r.previous_fsid
  BY <1>1, ServedCall DEF HInv
<1>4. CASE Present(shown, name)
  <2>1. /\ f \in Within(drive, r.cut) /\ f \in Nat \ {NoFsid}
        /\ f \in Tree!Children(drive, r.previous_fsid, name, outages > 0)
    BY <1>1, <1>3, <1>4, ShownToCall DEF HInv
  <2>2. Becomes(c, Found(r, f))
    BY <1>2, <1>4
  <2> HIDE DEF f
  <2>3. Holds(Found(r, f), r)
    BY <1>1, <2>1, HeldCall, FoundHeld
  <2>4. QED BY <2>2, <2>3, BecomesServes
<1>5. CASE ~Present(shown, name)
  <2>1. outages = 0 => Child(drive, r.previous_fsid, name) = {}
    BY <1>1, <1>3, <1>5, ShownToCall DEF HInv
  <2>2. Becomes(c, NotFound(r))
    BY <1>2, <1>5
  <2>3. QED BY <1>1, <2>1, <2>2, MissServes
<1>6. QED BY <1>4, <1>5

LEMMA ListEntriesServes ==
  ASSUME HInv, NEW c \in Calls, ListEntries(c)
  PROVE  \E r : Serves(c, r)
<1> DEFINE r == call[c]
           t == Mounted(drive, r)
           listed(shown) == {shown[i].name : i \in DOMAIN shown} \ {""}
<1>1. /\ Serving(c, "fetch") /\ ~Resolving(r) /\ r.op = "readdir"
      /\ \E shown \in Shown(c) : Becomes(c, [Finished(r, "list") EXCEPT
           !.answer.dir = Inode(c).type = "Dir", !.answer.names = listed(shown)])
  BY DEF ListEntries, Listing
<1>2. PICK shown \in Shown(c) : Becomes(c, [Finished(r, "list") EXCEPT
           !.answer.dir = Inode(c).type = "Dir", !.answer.names = listed(shown)])
  BY <1>1
<1> DEFINE names == listed(shown)
           f == [Finished(r, "list") EXCEPT !.answer.dir = Inode(c).type = "Dir",
                                            !.answer.names = names]
<1>3. Becomes(c, f)
  BY <1>2
<1>4. Arrived(r) /\ Last(r) = Target(r) /\ r \in Call /\ r.answer = NoAnswer
  BY <1>1, HeldCall
<1>5. /\ (Inode(c).type = "Dir") = Tree!IsDir(t, Last(r))
      /\ t \in Tree!Tables(drive, outages > 0)
  BY <1>1, <1>4, AtInode DEF HInv, Tree!IsDir
<1>6. names \in Tree!Listings(t, Last(r), outages > 0)
  BY <1>1, <1>4, ShownToCall DEF HInv
<1> HIDE DEF names, listed, t
<1>7. /\ f.phase = "answered" /\ f.op = r.op /\ f.path = r.path
      /\ f.answer = Tree!Answer("list", Last(r), Tree!IsDir(t, Last(r)), names, FALSE)
      /\ f.answer.kind = "list"
  BY <1>4, <1>5 DEF Finished, Call, NoAnswer, Tree!Answer
<1> HIDE DEF f
<1>8. f.answer \in Tree!About(drive, r.op, Last(r), outages > 0)
  <2> DEFINE about(u) == {Tree!Answer("list", Last(r), Tree!IsDir(u, Last(r)), n, FALSE) :
                            n \in Tree!Listings(u, Last(r), outages > 0)}
  <2>1. f.answer \in about(t)
    BY <1>6, <1>7
  <2>2. Tree!About(drive, r.op, Last(r), outages > 0)
          = UNION {about(u) : u \in Tree!Tables(drive, outages > 0)}
    BY <1>1 DEF Tree!About
  <2> HIDE DEF about
  <2>3. QED BY <1>5, <2>1, <2>2
<1>9. Holds(f, r)
  BY <1>4, <1>7, <1>8, AboutHeld
<1>10. QED BY <1>3, <1>9, BecomesServes

LEMMA ListingFailsServes ==
  ASSUME HInv, NEW c \in Calls, ListingFails(c)
  PROVE  \E r : Serves(c, r)
<1> DEFINE r == call[c]
<1>1. /\ Serving(c, "fetch") /\ (Resolving(r) \/ r.op = "readdir")
      /\ ~online \/ Inode(c).listing = "error"
      /\ Becomes(c, IF Resolving(r) THEN NotFound(r) ELSE Failed(r))
  BY DEF ListingFails, Listing, Fetchable
<1>2. outages > 0 \/ drive.whole[Target(r)].listing = "error"
  BY <1>1, AtInode, HeldCall DEF HInv
<1>3. CASE Resolving(r)
  <2>1. outages = 0 => Child(drive, r.previous_fsid, Component(r)) = {}
    BY <1>1, <1>2, <1>3, ServedCall, NoChild DEF HInv
  <2>2. Becomes(c, NotFound(r))
    BY <1>1, <1>3
  <2>3. QED BY <1>1, <1>3, <2>1, <2>2, MissServes
<1>4. CASE ~Resolving(r)
  <2>1. outages > 0 \/ Tree!Refuses(drive, r.op, Last(r))
    BY <1>1, <1>2, <1>4, HeldCall DEF Tree!Refuses
  <2>2. Becomes(c, Failed(r))
    BY <1>1, <1>4
  <2>3. QED BY <1>1, <1>4, <2>1, <2>2, RefusalServes
<1>5. QED BY <1>3, <1>4

LEMMA ReadDataServes ==
  ASSUME HInv, NEW c \in Calls, ReadData(c)
  PROVE  \E r : Serves(c, r)
<1> DEFINE r == call[c]
           t == Mounted(drive, r)
           intact == Fetchable(c) /\ r.part = 0
           f == [Finished(r, "data") EXCEPT !.answer.intact = intact]
<1>1. Serving(c, "fetch") /\ ~Resolving(r) /\ r.op = "read" /\ Becomes(c, f)
  BY DEF ReadData
<1>2. Arrived(r) /\ Last(r) = Target(r) /\ r \in Call /\ r.answer = NoAnswer
  BY <1>1, HeldCall
<1>3. /\ t \in Tree!Tables(drive, outages > 0) /\ t[Last(r)].outcome = "ok"
      /\ t[Last(r)] \in LookedUp /\ Inode(c) = t[Last(r)]
      /\ r.part = 0 => t = drive.whole
      /\ r.part # 0 => outages > 0
      /\ online \in BOOLEAN /\ (~online => outages > 0)
  BY <1>1, <1>2, AtInode DEF HInv
<1>4. intact \in BOOLEAN /\ (intact => t = drive.whole) /\ (~intact => outages > 0)
  BY <1>3 DEF Fetchable, LookedUp
<1> HIDE DEF intact, t
<1>5. /\ f.phase = "answered" /\ f.op = r.op /\ f.path = r.path
      /\ f.answer = Tree!Answer("data", Last(r), FALSE, {}, intact) /\ f.answer.kind = "data"
  BY <1>2 DEF Finished, Call, NoAnswer, Tree!Answer
<1> HIDE DEF f
<1>6. f.answer \in Tree!About(drive, r.op, Last(r), outages > 0)
  <2>1. CASE intact = TRUE
    BY <1>1, <1>3, <1>4, <1>5, <2>1 DEF Tree!About
  <2>2. CASE intact = FALSE
    BY <1>1, <1>3, <1>4, <1>5, <2>2 DEF Tree!About
  <2>3. QED BY <1>4, <2>1, <2>2
<1>7. Holds(f, r)
  BY <1>2, <1>5, <1>6, AboutHeld
<1>8. QED BY <1>1, <1>7, BecomesServes

LEMMA ServeServes ==
  ASSUME HInv, NEW c \in Calls, Serve(c)
  PROVE  \E r : Serves(c, r)
BY BeginServes, PassOverServes, LoadDriveServes, LoadFailsServes, LoadCutShortServes,
   LoadPanicsServes, LookUpServes, LookUpFailsServes, LookUpPanicsServes, FindComponentServes,
   ListEntriesServes, ListingFailsServes, ListingPanicsServes, ReadDataServes
DEF Serve

(* A step of a thread keeps what is held of every call, and is a step or a
   stutter of the promise: an answer it gives is one that was promised. *)
LEMMA ServesKeeps ==
  ASSUME HInv, NEW c \in Calls, Serve(c)
  PROVE  HInv'
<1>1. PICK r : Serves(c, r)
  BY ServeServes
<1>2. IInv'
  BY ServeKeeps DEF HInv
<1>3. drive' = drive /\ call' = [call EXCEPT ![c] = r] /\ Held(drive, r) /\ call \in [Calls -> Call]
  BY <1>1 DEF Serves, Holds, HInv, IInv, TypeOK
<1>4. \A e \in Calls : call'[e] = IF e = c THEN r ELSE call[e]
  BY <1>3
<1>5. (\A e \in Calls : Held(drive, call[e]))'
  BY <1>3, <1>4 DEF HInv
<1>6. QED BY <1>2, <1>5 DEF HInv

LEMMA ServesTree ==
  ASSUME HInv, NEW c \in Calls, NEW r, Serves(c, r),
         call[c].phase # "answered", call[c].op \in Ops
  PROVE  [Tree!Next]_Tree!tree
<1>1. /\ call' = [call EXCEPT ![c] = r] /\ r.op = call[c].op /\ r.path = call[c].path
      /\ Held(drive, r) /\ Kept(r) /\ drive' = drive /\ outages' = outages
      /\ call \in [Calls -> Call]
  BY DEF Serves, Holds, HInv, IInv, TypeOK
<1>2. \A e \in Calls : call'[e] = IF e = c THEN r ELSE call[e]
  BY <1>1
<1>3. call[c].answer = NoAnswer
  BY DEF HInv, Held
<1> DEFINE asked == [e \in Calls |-> [op |-> call[e].op, path |-> call[e].path]]
           told == [e \in Calls |-> call[e].answer]
<1>4. asked' = asked
  BY <1>1, <1>2
<1>5. asked[c] = [op |-> r.op, path |-> r.path] /\ told[c] = NoAnswer /\ told'[c] = r.answer
  BY <1>1, <1>2, <1>3
<1>6. told' = [told EXCEPT ![c] = r.answer]
  BY <1>2
<1>7. NoAnswer = Tree!Untold
  BY DEF NoAnswer, NoFsid, Tree!Untold, Tree!NoFsid
<1>8. CASE r.phase = "answered"
  <2>1. Tree!Promised(drive, asked[c], told'[c])
    BY <1>1, <1>5, <1>8 DEF Kept
  <2>2. asked[c] # Tree!Unasked
    <3>1. asked[c].op # "none"
      BY DEF Ops
    <3>2. QED BY <3>1 DEF Tree!Unasked
  <2>3. told[c] = Tree!Untold
    BY <1>5, <1>7
  <2>4. told' = [told EXCEPT ![c] = told'[c]]
    BY <1>5, <1>6
  <2>5. Tree!Tell(c)
    BY <1>1, <1>4, <2>1, <2>2, <2>3, <2>4 DEF Tree!Tell
  <2>6. QED BY <2>5 DEF Tree!Next
<1>9. CASE r.phase # "answered"
  <2>1. r.answer = NoAnswer
    BY <1>1, <1>9 DEF Held
  <2>2. told' = told
    BY <1>2, <1>3, <2>1
  <2>3. QED BY <1>1, <1>4, <2>2 DEF Tree!tree
<1>10. QED BY <1>8, <1>9

LEMMA ServeTree ==
  ASSUME HInv, NEW c \in Calls, Serve(c)
  PROVE  [Tree!Next]_Tree!tree
<1>1. PICK r : Serves(c, r)
  BY ServeServes
<1>2. call[c].phase \in {"waiting", "load", "lookup", "fetch"}
  BY DEF Serve, Begin, PassOver, LoadDrive, LoadFails, LoadCutShort, LoadPanics, Loads, LookUp,
         LookUpFails, LookUpPanics, FindComponent, ListEntries, ListingFails, ListingPanics, Listing,
         ReadData, Serving
<1>3. call[c].phase # "answered" /\ call[c].op \in Ops
  BY <1>2 DEF HInv, IInv, Good, Going, UnderWay
<1>4. QED BY <1>1, <1>3, ServesTree, SMTT(30)

(* A caller that asks. *)
LEMMA RequestTree ==
  ASSUME HInv, NEW c \in Calls, Request(c)
  PROVE  HInv' /\ [Tree!Next]_Tree!tree
<1>1. PICK op \in Ops, path \in Paths :
        call' = [call EXCEPT ![c] = [Idle EXCEPT !.phase = "waiting", !.op = op, !.path = path]]
  BY DEF Request
<1> DEFINE q == [Idle EXCEPT !.phase = "waiting", !.op = op, !.path = path]
<1>2. q.phase = "waiting" /\ q.op = op /\ q.path = path /\ q.answer = NoAnswer
  BY DEF Idle
<1>3. call' = [call EXCEPT ![c] = q] /\ drive' = drive /\ outages' = outages
      /\ call[c].phase \in {"idle", "answered"} /\ call \in [Calls -> Call]
  BY <1>1 DEF Request, HInv, IInv, TypeOK
<1> HIDE DEF q
<1>4. \A e \in Calls : call'[e] = IF e = c THEN q ELSE call[e]
  BY <1>3
<1>5. Held(drive, q)
  BY <1>2 DEF Held, UnderWay
<1>6. (\A e \in Calls : Held(drive, call[e]))'
  BY <1>3, <1>4, <1>5 DEF HInv
<1>7. IInv'
  BY RequestKeeps DEF HInv
<1> DEFINE asked == [e \in Calls |-> [op |-> call[e].op, path |-> call[e].path]]
           told == [e \in Calls |-> call[e].answer]
<1>8. NoAnswer = Tree!Untold
  BY DEF NoAnswer, NoFsid, Tree!Untold, Tree!NoFsid
<1>9. asked[c] = Tree!Unasked \/ told[c] # Tree!Untold
  BY <1>3, <1>8 DEF HInv, Held, Tree!Unasked
<1>10. told' = [told EXCEPT ![c] = Tree!Untold]
  BY <1>2, <1>4, <1>8
<1>11. asked' = [asked EXCEPT ![c] = [op |-> op, path |-> path]]
  BY <1>2, <1>4
<1>12. Tree!Ask(c)
  BY <1>3, <1>9, <1>10, <1>11 DEF Tree!Ask
<1>13. QED BY <1>6, <1>7, <1>12 DEF HInv, Tree!Next

(* The drive goes away, or comes back; a read is handed to the worker. *)
LEMMA OutageTree ==
  ASSUME HInv, GoAway \/ ComeBack \/ \E c \in Calls : Dispatch(c)
  PROVE  HInv' /\ [Tree!Next]_Tree!tree
<1>1. UNCHANGED <<drive, call>> /\ outages \in Nat
      /\ (outages' = outages \/ outages' = outages + 1)
  BY MaxOutagesAssumption DEF GoAway, ComeBack, Dispatch, HInv, IInv, TypeOK
<1>2. IInv'
  BY OutageKeeps, DispatchKeeps DEF HInv
<1>3. HInv'
  BY <1>1, <1>2 DEF HInv
<1>4. CASE outages' = outages
  <2>1. UNCHANGED Tree!tree
    BY <1>1, <1>4 DEF Tree!tree
  <2>2. QED BY <1>3, <2>1
<1>5. CASE outages' = outages + 1
  <2>1. (outages' > 0) = TRUE
    BY <1>1, <1>5
  <2>2. Tree!Fail
    BY <1>1, <2>1 DEF Tree!Fail
  <2>3. QED BY <1>3, <2>2 DEF Tree!Next
<1>6. QED BY <1>1, <1>4, <1>5

(* The file system implements the promise of FileTree: a call, served over
   several loads of the drive with others and outages in between, is told at
   one moment what its path and the drive alone promise.  Without outages
   that is what the one file the path leads to has; after one, also what a
   part of the drive answers for an inode or a place in a listing where it
   is cut short allow, and the last component is never passed over. *)
THEOREM KeepsItsPromise == Spec => ImplementsTree
<1>1. Init => HInv
  <2> SUFFICES ASSUME Init PROVE HInv
    OBVIOUS
  <2>1. Held(drive, Idle)
    BY DEF Held, Idle, UnderWay
  <2>2. QED BY <2>1, InitGood DEF HInv, Init
<1>2. Init => Tree!Init
  <2> SUFFICES ASSUME Init PROVE Tree!Init
    OBVIOUS
  <2>1. /\ Idle.op = Tree!Unasked.op /\ Idle.path = Tree!Unasked.path
        /\ Idle.answer = Tree!Untold
    BY DEF Idle, NoAnswer, NoFsid, Tree!Unasked, Tree!Untold, Tree!NoFsid
  <2>2. [op |-> Idle.op, path |-> Idle.path] = Tree!Unasked
    BY DEF Idle, Tree!Unasked
  <2>3. (outages > 0) = FALSE
    BY DEF Init
  <2>4. QED BY <2>1, <2>2, <2>3 DEF Init, Tree!Init
<1>3. HInv /\ [Next]_vars => HInv' /\ [Tree!Next]_Tree!tree
  <2> SUFFICES ASSUME HInv, [Next]_vars PROVE HInv' /\ [Tree!Next]_Tree!tree
    OBVIOUS
  <2>1. CASE UNCHANGED vars
    <3>1. HInv'
      BY <2>1, StepGood DEF HInv, vars
    <3>2. UNCHANGED Tree!tree
      BY <2>1 DEF vars, Tree!tree
    <3>3. QED BY <3>1, <3>2
  <2>2. CASE \E c \in Calls : Request(c)
    BY <2>2, RequestTree
  <2>3. CASE GoAway \/ ComeBack \/ \E c \in Calls : Dispatch(c)
    BY <2>3, OutageTree
  <2>4. CASE \E c \in Calls : Serve(c)
    BY <2>4, ServesKeeps, ServeTree
  <2>5. QED BY <2>1, <2>2, <2>3, <2>4 DEF Next, Session, Worker
<1>4. QED BY <1>1, <1>2, <1>3, PTL DEF Spec, ImplementsTree, Tree!Spec
=============================================================================
