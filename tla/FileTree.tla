------------------------------- MODULE FileTree -------------------------------
(***************************************************************************)
(* What a mounted drive promises its callers, without saying how: calls    *)
(* are asked and answered, and an answer depends on the path and the drive *)
(* alone, never on other calls or on the order in which they are served.   *)
(*                                                                         *)
(* A path means the file its components lead to from the root.  Once reads *)
(* fail (faulty) the promise is weaker: any components but the last may be *)
(* passed over, an inode may be looked up by any of the tables the drive   *)
(* has when it is loaded in part, and the entries of a directory may be    *)
(* those before a place where it is cut short.                             *)
(***************************************************************************)
EXTENDS Naturals, Sequences

CONSTANTS
  Calls,      \* identities of callers
  Ops,        \* what can be asked
  Paths,      \* the paths asked for
  Drives      \* the drives considered

VARIABLES
  drive,      \* the drive; never changes
  asked,      \* what each caller asked last: [op, path]
  told,       \* what it was answered
  faulty      \* whether a read may have failed

tree == <<drive, asked, told, faulty>>

Root == 1
NoFsid == 0
Unasked == [op |-> "none", path |-> <<>>]
Untold == [kind |-> "none", fsid |-> NoFsid, dir |-> FALSE, names |-> {}, intact |-> FALSE]

-----------------------------------------------------------------------------
(* What the drive may be taken to hold, where reads fail or not. *)
Tables(d, faults) ==
  (IF d.loads = "ok" THEN {d.whole} ELSE {}) \cup
  (IF faults THEN {d.parts[k] : k \in DOMAIN d.parts} ELSE {})

Listed(t, f) == t[f].outcome = "ok" /\ t[f].listing = "ok"
Cut(t, f, faults) == faults /\ t[f].outcome = "ok" /\ ~t[f].resident

(* A name is found at the i-th entry: it is its name, or what is left of
   it, and no entry before has that name. *)
FoundAt(t, f, i, name, faults) ==
  /\ \/ (Listed(t, f) \/ Cut(t, f, faults)) /\ t[f].entries[i].name = name
     \/ Cut(t, f, faults) /\ name \in t[f].entries[i].stubs
  /\ \A j \in 1..(i - 1) : t[f].entries[j].name # name

(* What a name may be taken for in a directory: one file at most until
   reads fail. *)
Children(d, f, name, faults) ==
  UNION {{t[f].entries[i].fsid : i \in {k \in DOMAIN t[f].entries : FoundAt(t, f, k, name, faults)}} :
           t \in Tables(d, faults)}

(* trail leads from the root along the path, one file per component. *)
Leads(d, path, trail) ==
  /\ Len(trail) = Len(path) + 1
  /\ trail[1] = Root
  /\ \A i \in 1..Len(path) : trail[i + 1] \in Children(d, trail[i], path[i], FALSE)

(* What a path may be taken for. *)
Meanings(d, path, faults) ==
  LET walk[n \in 0..Len(path)] ==
        IF n = 0 THEN {Root}
        ELSE (IF faults /\ n < Len(path) THEN walk[n - 1] ELSE {})
               \cup UNION {Children(d, f, path[n], faults) : f \in walk[n - 1]}
  IN  walk[Len(path)]

(* The names that may be listed, without those of entries that have none:
   all of them, or those of the first n and what is left of the next. *)
NamesBefore(t, f, n) == {t[f].entries[i].name : i \in 1..n}
Remains(t, f, n) == IF n < Len(t[f].entries) THEN t[f].entries[n + 1].stubs ELSE {}
Listings(t, f, faults) ==
  (IF Listed(t, f) THEN {NamesBefore(t, f, Len(t[f].entries)) \ {""}} ELSE {}) \cup
  (IF Cut(t, f, faults)
   THEN UNION {{(NamesBefore(t, f, n) \cup last) \ {""} :
                  last \in {{}} \cup {{s} : s \in Remains(t, f, n)}} : n \in 0..Len(t[f].entries)}
   ELSE {})

IsDir(t, f) == t[f].outcome = "ok" /\ t[f].type = "Dir"

-----------------------------------------------------------------------------
Error == [Untold EXCEPT !.kind = "error"]
Answer(kind, f, dir, names, intact) ==
  [kind |-> kind, fsid |-> f, dir |-> dir, names |-> names, intact |-> intact]

(* The answers about a file. *)
About(d, op, f, faults) ==
  CASE op \in {"open", "opendir"} -> {Answer("handle", f, FALSE, {}, FALSE)}
    [] op = "getattr" ->
         {Answer("attr", f, IsDir(t, f), {}, FALSE) :
            t \in {u \in Tables(d, faults) : u[f].outcome # "panic"}}
           \cup (IF faults THEN {Answer("attr", f, FALSE, {}, FALSE)} ELSE {})
    [] op = "readdir" ->
         UNION {{Answer("list", f, IsDir(t, f), names, FALSE) : names \in Listings(t, f, faults)} :
                  t \in Tables(d, faults)}
    [] op = "read" ->
         {Answer("data", f, FALSE, {}, intact) :
            intact \in {i \in BOOLEAN : \E t \in Tables(d, faults) :
                          t[f].outcome = "ok" /\ (IF i THEN t = d.whole ELSE faults)}}

(* The file cannot be asked that. *)
Refuses(d, op, f) ==
  \/ d.loads = "error" /\ op \in {"getattr", "readdir", "read"}
  \/ d.whole[f].outcome = "error" /\ op \in {"readdir", "read"}
  \/ d.whole[f].listing = "error" /\ op = "readdir"

(* Something on the drive makes the code panic. *)
Malformed(d) ==
  \/ d.loads = "panic"
  \/ \E f \in DOMAIN d.whole : d.whole[f].outcome = "panic" \/ d.whole[f].listing = "panic"

(* What may be answered; nothing at all ("lost") once reads fail or on a
   malformed drive. *)
Promised(d, ask, a) ==
  LET meanings == Meanings(d, ask.path, faulty)
  IN  \/ \E f \in meanings : a \in About(d, ask.op, f, faulty)
      \/ a = Error /\ (faulty \/ meanings = {} \/ \E f \in meanings : Refuses(d, ask.op, f))
      \/ a.kind = "lost" /\ (faulty \/ Malformed(d))

Init ==
  /\ drive \in Drives
  /\ asked = [c \in Calls |-> Unasked]
  /\ told = [c \in Calls |-> Untold]
  /\ faulty = FALSE

(* A caller asks, for the first time or after it was answered. *)
Ask(c) ==
  /\ asked[c] = Unasked \/ told[c] # Untold
  /\ \E op \in Ops, path \in Paths :
       asked' = [asked EXCEPT ![c] = [op |-> op, path |-> path]]
  /\ told' = [told EXCEPT ![c] = Untold]
  /\ UNCHANGED <<drive, faulty>>

Tell(c) ==
  /\ asked[c] # Unasked
  /\ told[c] = Untold
  /\ told' = [told EXCEPT ![c] = told'[c]]
  /\ Promised(drive, asked[c], told'[c])
  /\ UNCHANGED <<drive, asked, faulty>>

Fail ==
  /\ faulty' = TRUE
  /\ UNCHANGED <<drive, asked, told>>

Next == (\E c \in Calls : Ask(c) \/ Tell(c)) \/ Fail

Spec == Init /\ [][Next]_tree
=============================================================================
