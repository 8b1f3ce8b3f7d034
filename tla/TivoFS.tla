-------------------------------- MODULE TivoFS --------------------------------
(***************************************************************************)
(* The FUSE file system: resolution of a path to an fsid and the handlers  *)
(* getattr, opendir, readdir, open and read, as fuse_mt runs them: one     *)
(* session thread takes the requests in order and hands reads to a pool of *)
(* one worker.                                                             *)
(*                                                                         *)
(* A call keeps nothing from another call.  For every component of its     *)
(* path, and once more for the operation itself, it loads the drive, looks *)
(* an inode up and lists its entries, each on its own and each of which    *)
(* may fail, panic or be cut short while the drive is away.  A component   *)
(* that is not found leaves previous_fsid as it is, and the next one is    *)
(* looked for there; only the outcome of the last component decides.       *)
(*                                                                         *)
(* What a load, a lookup and a listing come to are data here; they are the *)
(* results of DriveLoad, FsidLookup and Directory.                         *)
(***************************************************************************)
EXTENDS Integers, Sequences

CONSTANTS
  Calls,        \* identities of callers, each of which has one call at a time
  Drives,       \* the drives considered
  Paths,        \* the paths asked for, sequences of names
  Unnameable,   \* components that are not UTF-8
  MaxOutages    \* how often the drive may go away

Ops == {"getattr", "opendir", "readdir", "open", "read"}
Root == 1
NoFsid == 0   \* None

(* An entry of a directory, and what its name may be cut to when the block
   it is in is read short: the bytes behind are zeros, which end a name. *)
Entry == [name : STRING \ Unnameable, fsid : Nat \ {NoFsid}, stubs : SUBSET (STRING \ Unnameable)]

(* What get_inode_from_fsid comes to for an fsid: an error, a panic, or an
   inode with a type and a listing, kept in the inode itself (resident) or
   in data blocks.  The inode may be another one than the one asked for.
   The entries are also those of a listing that is an error or a panic when
   it is read in full, and not when it is cut short. *)
Outcomes == {"ok", "error", "panic"}
LookedUp == [outcome : Outcomes, type : {"Node", "File", "Stream", "Dir", "Db"}, resident : BOOLEAN,
             listing : Outcomes, entries : Seq(Entry)]

(* What from_disk_image comes to, and what every lookup then does: with the
   drive loaded in full, and with the parts of its map, its volumes and its
   zones that may be left where reads fail on the way.  A part may lack
   zones of inodes; the hash is then taken for fewer inodes, and a lookup
   may answer any other inode, fail or panic. *)
IsTable(t, fsids) ==
  /\ DOMAIN t = fsids
  /\ \A f \in fsids :
       /\ t[f] \in LookedUp
       /\ \A i \in DOMAIN t[f].entries : t[f].entries[i].fsid \in fsids

IsDrive(d) ==
  /\ d.loads \in Outcomes
  /\ Root \in DOMAIN d.whole
  /\ IsTable(d.whole, DOMAIN d.whole)
  /\ DOMAIN d.parts \subseteq Nat \ {0}
  /\ \A k \in DOMAIN d.parts : IsTable(d.parts[k], DOMAIN d.whole)

ASSUME DrivesAssumption == \A d \in Drives : IsDrive(d)
ASSUME PathsAssumption == Paths \subseteq Seq(STRING)
ASSUME MaxOutagesAssumption == MaxOutages \in Nat

VARIABLES
  drive,      \* the drive that is mounted; never changes
  online,     \* whether the drive can be read all through a step
  outages,    \* how often it has gone away
  requests,   \* the calls the session thread has before it, in order
  reads,      \* the calls in the queue of the worker
  alive,      \* whether the process still runs
  call        \* the call of every caller, the last one once it is answered

vars == <<drive, online, outages, requests, reads, alive, call>>

Answer == [kind : {"none", "error", "lost", "handle", "attr", "list", "data"},
           fsid : Nat, dir : BOOLEAN, names : SUBSET STRING, intact : BOOLEAN]

(* A call: what it asks, the fsids of the components resolved so far, that
   of the root first, and what it was answered.  `part` is the part of the
   drive it has loaded, 0 for the whole; `cut` keeps whether it has ever
   loaded less, for the properties. *)
Call == [phase : {"idle", "waiting", "load", "lookup", "fetch", "answered"},
         op : Ops \cup {"none"}, path : Paths \cup {<<>>},
         fsids : Seq(Nat), previous_fsid : Nat, part : Nat, cut : BOOLEAN,
         answer : Answer]

NoAnswer == [kind |-> "none", fsid |-> NoFsid, dir |-> FALSE, names |-> {}, intact |-> FALSE]
Idle == [phase |-> "idle", op |-> "none", path |-> <<>>, fsids |-> <<>>,
         previous_fsid |-> NoFsid, part |-> 0, cut |-> FALSE, answer |-> NoAnswer]

Init ==
  /\ drive \in Drives
  /\ online = TRUE
  /\ outages = 0
  /\ requests = <<>>
  /\ reads = <<>>
  /\ alive = TRUE
  /\ call = [c \in Calls |-> Idle]

-----------------------------------------------------------------------------
(* The world outside: callers behind the kernel, and the drive. *)

Told(r, kind) == r.phase = "answered" /\ r.answer.kind = kind

Above(path) == SubSeq(path, 1, Len(path) - 1)

(* The kernel walks a path: it looks a name up in what it was told is a
   directory, and opens a path before it lists or reads it. *)
KnownDir(r, path) == path = <<>> \/ (Told(r, "attr") /\ r.answer.dir /\ path = r.path)
MayAsk(r, op, path) ==
  CASE op = "getattr" ->
         KnownDir(r, path) \/ KnownDir(r, Above(path))
    [] op = "opendir" -> KnownDir(r, path)
    [] op = "readdir" -> Told(r, "handle") /\ r.op = "opendir" /\ path = r.path
    [] op = "open" -> Told(r, "attr") /\ ~r.answer.dir /\ path = r.path
    [] op = "read" -> Told(r, "handle") /\ r.op = "open" /\ path = r.path

Request(c) ==
  /\ alive
  /\ call[c].phase \in {"idle", "answered"}
  /\ \E op \in Ops, path \in Paths :
       /\ MayAsk(call[c], op, path)
       /\ call' = [call EXCEPT ![c] = [Idle EXCEPT !.phase = "waiting", !.op = op, !.path = path]]
  /\ requests' = Append(requests, c)
  /\ UNCHANGED <<drive, online, outages, reads, alive>>

(* While the drive is away a step may still have begun before or end after
   it: it is cut short anywhere, or goes through. *)
GoAway ==
  /\ online
  /\ outages < MaxOutages
  /\ online' = FALSE
  /\ outages' = outages + 1
  /\ UNCHANGED <<drive, requests, reads, alive, call>>

ComeBack ==
  /\ ~online
  /\ online' = TRUE
  /\ UNCHANGED <<drive, outages, requests, reads, alive, call>>

-----------------------------------------------------------------------------
(* The call a thread is working on. *)
AtHead(queue, c) == queue # <<>> /\ Head(queue) = c

InSession(c) == AtHead(requests, c) /\ call[c].op # "read"
InWorker(c) == AtHead(reads, c)
Serving(c, phase) == alive /\ (InSession(c) \/ InWorker(c)) /\ call[c].phase = phase

(* Slip: the first answer empties the queue. *)
LeaveAll(c) ==
  IF InWorker(c) THEN reads' = <<>> /\ UNCHANGED requests
                 ELSE requests' = <<>> /\ UNCHANGED reads

LeaveQueue(c) ==
  IF InWorker(c) THEN reads' = Tail(reads) /\ UNCHANGED requests
                 ELSE requests' = Tail(requests) /\ UNCHANGED reads

Last(r) == r.fsids[Len(r.fsids)]
Resolving(r) == Len(r.fsids) <= Len(r.path)
Component(r) == r.path[Len(r.fsids)]
Target(r) == IF Resolving(r) THEN r.previous_fsid ELSE Last(r)

Finished(r, kind) ==
  [r EXCEPT !.phase = "answered", !.answer = [NoAnswer EXCEPT !.kind = kind, !.fsid = Last(r)]]

(* Err(0), for a path and for an operation. *)
Failed(r) == [r EXCEPT !.phase = "answered", !.answer = [NoAnswer EXCEPT !.kind = "error"]]

(* One component further: fsids.last() decides after the last one.  open
   and opendir answer it as a handle, the others load the drive again. *)
Resolved(r) ==
  IF Resolving(r) THEN [r EXCEPT !.phase = "load", !.part = 0]
  ELSE IF Last(r) = NoFsid THEN Failed(r)
  ELSE IF r.op \in {"open", "opendir"} THEN Finished(r, "handle")
  ELSE [r EXCEPT !.phase = "load", !.part = 0]

(* Slip: a component that is not found is taken for its directory. *)
NotFoundIsDirectory(r) == Resolved([r EXCEPT !.fsids = Append(r.fsids, r.previous_fsid)])

(* Slip: a missing component is noted as -1. *)
NotFoundMinusOne(r) == Resolved([r EXCEPT !.fsids = Append(r.fsids, 0 - 1)])

NotFound(r) == Resolved([r EXCEPT !.fsids = Append(r.fsids, NoFsid)])

(* Slip: the next component is looked for in the same directory again. *)
FoundKeepsDirectory(r, fsid) == Resolved([r EXCEPT !.fsids = Append(r.fsids, fsid)])

Found(r, fsid) ==
  Resolved([r EXCEPT !.fsids = Append(r.fsids, fsid), !.previous_fsid = fsid])

Becomes(c, r) ==
  /\ call' = [call EXCEPT ![c] = r]
  /\ IF r.phase = "answered" THEN LeaveQueue(c) ELSE UNCHANGED <<requests, reads>>
  /\ UNCHANGED <<drive, online, outages, alive>>

(* Slip: a panic of the worker ends the process, too. *)
PanicEndsAll(c) ==
  /\ call' = [call EXCEPT ![c].phase = "answered", ![c].answer.kind = "lost"]
  /\ LeaveQueue(c)
  /\ alive' = FALSE
  /\ UNCHANGED <<drive, online, outages>>

(* A panic unwinds the thread.  The pool replaces its worker, and the reply
   that is dropped reports an I/O error; the session thread is the main
   thread, and the process ends with it. *)
Panic(c) ==
  /\ call' = [call EXCEPT ![c].phase = "answered", ![c].answer.kind = "lost"]
  /\ LeaveQueue(c)
  /\ alive' = (alive /\ InWorker(c))
  /\ UNCHANGED <<drive, online, outages>>

-----------------------------------------------------------------------------
Dispatch(c) ==
  /\ alive
  /\ AtHead(requests, c)
  /\ call[c].op = "read"
  /\ requests' = Tail(requests)
  /\ reads' = Append(reads, c)
  /\ UNCHANGED <<drive, online, outages, alive, call>>

(* Component::RootDir, with which every path of fuse_mt starts. *)
Begin(c) ==
  /\ Serving(c, "waiting")
  /\ Becomes(c, Resolved([call[c] EXCEPT !.fsids = <<Root>>, !.previous_fsid = Root]))

(* A name that is not UTF-8: None without a look at the drive. *)
PassOver(c) ==
  /\ Serving(c, "load")
  /\ Resolving(call[c])
  /\ Component(call[c]) \in Unnameable
  /\ Becomes(c, NotFound(call[c]))

Loads(c) ==
  /\ Serving(c, "load")
  /\ Resolving(call[c]) => Component(call[c]) \notin Unnameable

LoadDrive(c) ==
  /\ Loads(c)
  /\ online
  /\ drive.loads = "ok"
  /\ Becomes(c, [call[c] EXCEPT !.phase = "lookup"])

LoadFails(c) ==
  /\ Loads(c)
  /\ ~online \/ drive.loads = "error"
  /\ Becomes(c, IF Resolving(call[c]) THEN NotFound(call[c]) ELSE Failed(call[c]))

(* A read that fails or is short ends the map of partitions or the list of
   zones where it is, and the drive loads with what came before. *)
LoadCutShort(c) ==
  /\ Loads(c)
  /\ ~online
  /\ \E k \in DOMAIN drive.parts :
       Becomes(c, [call[c] EXCEPT !.phase = "lookup", !.part = k, !.cut = TRUE])

(* No MFS partition in the map, or a sector in no volume. *)
LoadPanics(c) ==
  /\ Loads(c)
  /\ ~online \/ drive.loads = "panic"
  /\ Panic(c)

-----------------------------------------------------------------------------
(* The inodes as the call finds them with what it has loaded. *)
View(r) == IF r.part = 0 THEN drive.whole ELSE drive.parts[r.part]
Inode(c) == View(call[c])[Target(call[c])]

LookUp(c) ==
  /\ Serving(c, "lookup")
  /\ Inode(c).outcome = "ok"
  /\ Becomes(c,
       IF ~Resolving(call[c]) /\ call[c].op = "getattr"
       THEN [Finished(call[c], "attr") EXCEPT !.answer.dir = Inode(c).type = "Dir"]
       ELSE [call[c] EXCEPT !.phase = "fetch"])

(* getattr makes a regular file up where the inode cannot be read. *)
LookUpFails(c) ==
  /\ Serving(c, "lookup")
  /\ ~online \/ Inode(c).outcome = "error"
  /\ Becomes(c,
       IF Resolving(call[c]) THEN NotFound(call[c])
       ELSE IF call[c].op = "getattr" THEN Finished(call[c], "attr")
       ELSE Failed(call[c]))

(* A sector in no volume; without zones of inodes also the mask of the
   hash, inode_count - 1, in a build with overflow checks. *)
LookUpPanics(c) ==
  /\ Serving(c, "lookup")
  /\ Inode(c).outcome = "panic"
  /\ Panic(c)

-----------------------------------------------------------------------------
(* Slip: the position of the entry is taken for its fsid. *)
PositionNamed(entries, name) ==
  LET found == {i \in DOMAIN entries : entries[i].name = name}
  IN  CHOOSE i \in found : \A j \in found : i <= j

(* entries.iter().find(...) *)
FirstNamed(entries, name) ==
  LET found == {i \in DOMAIN entries : entries[i].name = name}
  IN  entries[CHOOSE i \in found : \A j \in found : i <= j].fsid

Present(entries, name) == \E i \in DOMAIN entries : entries[i].name = name

(* What is left of entries whose blocks are read short: those before some
   place, with the name of the last one whole or cut. *)
CutShort(entries) ==
  {SubSeq(entries, 1, n) : n \in 0..Len(entries)} \cup
  UNION {{Append(SubSeq(entries, 1, n - 1), [entries[n] EXCEPT !.name = stub]) :
            stub \in entries[n].stubs} : n \in DOMAIN entries}

(* The entries that may be listed; an inode that holds its entries itself
   is not read again for them. *)
Fetchable(c) == online \/ Inode(c).resident
Shown(c) ==
  (IF Inode(c).listing = "ok" THEN {Inode(c).entries} ELSE {}) \cup
  (IF Fetchable(c) THEN {} ELSE CutShort(Inode(c).entries))

Listing(c) == Serving(c, "fetch") /\ (Resolving(call[c]) \/ call[c].op = "readdir")

(* The next component in the entries of the directory it is looked for in,
   which need not be a directory. *)
FindComponent(c) ==
  /\ Listing(c)
  /\ Resolving(call[c])
  /\ \E shown \in Shown(c) :
       Becomes(c, IF Present(shown, Component(call[c]))
                  THEN Found(call[c], FirstNamed(shown, Component(call[c])))
                  ELSE NotFound(call[c]))

(* readdir gives every entry the kind of the inode it is listed for. *)
ListEntries(c) ==
  /\ Listing(c)
  /\ ~Resolving(call[c])
  /\ \E shown \in Shown(c) :
       Becomes(c, [Finished(call[c], "list") EXCEPT
         !.answer.dir = Inode(c).type = "Dir",
         !.answer.names = {shown[i].name : i \in DOMAIN shown} \ {""}])

ListingFails(c) ==
  /\ Listing(c)
  /\ ~Fetchable(c) \/ Inode(c).listing = "error"
  /\ Becomes(c, IF Resolving(call[c]) THEN NotFound(call[c]) ELSE Failed(call[c]))

ListingPanics(c) ==
  /\ Listing(c)
  /\ ~Fetchable(c) \/ Inode(c).listing = "panic"
  /\ Panic(c)

(* read answers all data of the inode, whatever offset and size were asked
   for, with dummy text for the blocks that cannot be read and zeros where
   they are read short.  `intact`: with none of these, and from the inode
   that the drive loaded in full has for the fsid. *)
ReadData(c) ==
  /\ Serving(c, "fetch")
  /\ ~Resolving(call[c])
  /\ call[c].op = "read"
  /\ Becomes(c, [Finished(call[c], "data") EXCEPT !.answer.intact = Fetchable(c) /\ call[c].part = 0])

Serve(c) ==
  \/ Begin(c)
  \/ PassOver(c)
  \/ LoadDrive(c)
  \/ LoadFails(c)
  \/ LoadCutShort(c)
  \/ LoadPanics(c)
  \/ LookUp(c)
  \/ LookUpFails(c)
  \/ LookUpPanics(c)
  \/ FindComponent(c)
  \/ ListEntries(c)
  \/ ListingFails(c)
  \/ ListingPanics(c)
  \/ ReadData(c)

Session == \E c \in Calls : Dispatch(c) \/ (InSession(c) /\ Serve(c))
Worker == \E c \in Calls : InWorker(c) /\ Serve(c)

Next ==
  \/ \E c \in Calls : Request(c)
  \/ GoAway
  \/ ComeBack
  \/ Session
  \/ Worker

Spec == Init /\ [][Next]_vars

(* Two threads, each of which goes on while it has something to do.  The
   drive need not come back. *)
FairSpec == Spec /\ WF_vars(Session) /\ WF_vars(Worker)

-----------------------------------------------------------------------------
(* Every variable keeps the form the code gives it, and the queues hold
   callers that wait for an answer. *)
TypeOK ==
  /\ IsDrive(drive)
  /\ online \in BOOLEAN
  /\ outages \in 0..MaxOutages
  /\ requests \in Seq(Calls)
  /\ reads \in Seq(Calls)
  /\ alive \in BOOLEAN
  /\ call \in [Calls -> Call]

Tree == INSTANCE FileTree WITH
  asked <- [c \in Calls |-> [op |-> call[c].op, path |-> call[c].path]],
  told <- [c \in Calls |-> call[c].answer],
  faulty <- outages > 0

(* The file system keeps the promise of FileTree: what a call is answered
   depends on its path and the drive alone, and before any outage it is the
   file the path leads to. *)
ImplementsTree == Tree!Spec

LastIsMissing(d, r) ==
  /\ r.path # <<>>
  /\ Tree!Leads(d, Above(r.path), SubSeq(r.fsids, 1, Len(r.path)))
  /\ Tree!Children(d, r.fsids[Len(r.path)], r.path[Len(r.path)], FALSE) = {}

RightAnswer(d, r) ==
  CASE r.answer.kind = "lost" -> TRUE
    [] r.answer.kind = "error" ->
         LastIsMissing(d, r) \/ (Tree!Leads(d, r.path, r.fsids) /\ Tree!Refuses(d, r.op, Last(r)))
    [] OTHER -> Tree!Leads(d, r.path, r.fsids) /\ r.answer.fsid = Last(r)

(* Until the drive first goes away, the components of a path the kernel asks for are
   followed one by one from the root and none is passed over: an answer is
   about the last of them, and an error means that this one is not in its
   directory or that its inode refuses the operation. *)
AnsweredForItsPath ==
  outages = 0 =>
    \A c \in Calls : call[c].phase = "answered" => RightAnswer(drive, call[c])

(* What can be reached from the root through entries of the inodes that
   some of the tables answer. *)
Reachable(tables, fsids) ==
  {f \in fsids : \A S \in SUBSET fsids :
     (Root \in S /\ \A g \in S, t \in tables :
        \A i \in DOMAIN t[g].entries : t[g].entries[i].fsid \in S) => f \in S}

Parts(d) == {d.parts[k] : k \in DOMAIN d.parts}

(* What a call may get to: the tree, and once it has loaded less than the
   whole drive also what the inodes lead to that are then answered in place
   of others. *)
Within(d, cut) ==
  Reachable({d.whole} \cup (IF cut THEN Parts(d) ELSE {}), DOMAIN d.whole)

(* Whatever fails on the way, a call that never took a part of the drive
   for the whole does not leave the tree: an fsid that is resolved,
   searched or answered is that of an inode below the root.  Where it did,
   it gets no further than the inodes answered in place of others lead. *)
StaysInTree ==
  \A c \in Calls :
    LET within == {NoFsid} \cup Within(drive, call[c].cut)
    IN  /\ call[c].previous_fsid \in within
        /\ call[c].answer.fsid \in within
        /\ \A i \in DOMAIN call[c].fsids : call[c].fsids[i] \in within

(* Only a panic of the session thread ends the process: a read never does,
   and while the drive stays nothing else does than a drive on which the
   load panics, or an inode on the path that is in no volume or whose
   directory is malformed. *)
PanicNeedsCause ==
  ~alive =>
    \E c \in Calls :
      /\ Told(call[c], "lost")
      /\ call[c].op # "read"
      /\ \/ outages > 0
         \/ drive.loads = "panic"
         \/ "panic" \in {drive.whole[Target(call[c])].outcome, drive.whole[Target(call[c])].listing}

(* Every call is answered, by a reply or by an error for the reply that was
   dropped, unless the process has ended. *)
CallsAnswered ==
  \A c \in Calls : (call[c].phase = "waiting") ~> (call[c].phase = "answered" \/ ~alive)
=============================================================================
