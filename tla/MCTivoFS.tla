------------------------------- MODULE MCTivoFS -------------------------------
(* Mounts for the checks of TivoFS. *)
EXTENDS TivoFS, TLC

CONSTANTS c1, c2

E(name, fsid) == [name |-> name, fsid |-> fsid, stubs |-> {}]
LongE(name, fsid, stub) == [name |-> name, fsid |-> fsid, stubs |-> {stub, ""}]
Inode_(type, resident, listing, entries) ==
  [outcome |-> "ok", type |-> type, resident |-> resident, listing |-> listing, entries |-> entries]
Dir(entries) == Inode_("Dir", TRUE, "ok", entries)
BlockDir(entries) == Inode_("Dir", FALSE, "ok", entries)
File(resident) == Inode_("File", resident, "error", <<>>)
NoInode(outcome) == [Inode_("Node", TRUE, "error", <<>>) EXCEPT !.outcome = outcome]

(* The same names at several places, a name twice, an entry without a name,
   a directory in a data block whose first entry may be cut to the name of
   the second, and a database item. *)
ShadowedWhole == 1 :> Dir(<<E("a", 3), E("b", 5), E("", 5), E("a", 5)>>)
              @@ 3 :> BlockDir(<<LongE("bb", 3, "b"), E("b", 6)>>)
              @@ 5 :> File(FALSE)
              @@ 6 :> Inode_("Db", TRUE, "ok", <<E("b", 5)>>)
              @@ 8 :> File(TRUE)   \* nothing leads to it

(* The drive without the last of its zones of inodes: for 3 another inode is
   answered, that of a directory outside the tree, and for 6 none. *)
ShadowedFewerZones == [ShadowedWhole EXCEPT ![3] = Dir(<<E("b", 8)>>), ![6] = NoInode("panic")]

Shadowed == [loads |-> "ok", whole |-> ShadowedWhole, parts |-> <<ShadowedFewerZones>>]

(* A root in a data block and a directory whose entries do not parse: an
   error, a panic, unless they are cut short before the place. *)
Malformed(listing) ==
  [loads |-> "ok", parts |-> <<>>,
   whole |-> 1 :> BlockDir(<<E("a", 3)>>) @@ 3 :> Inode_("Dir", FALSE, listing, <<E("b", 3)>>)]

(* An inode that cannot be read, or is in no volume. *)
Holed(outcome) ==
  [loads |-> "ok", parts |-> <<>>, whole |-> 1 :> Dir(<<E("a", 3)>>) @@ 3 :> NoInode(outcome)]

(* Drives that do not load, except without any zones. *)
Small == 1 :> Dir(<<E("a", 3)>>) @@ 3 :> File(TRUE)
NoZones == [f \in DOMAIN Small |-> NoInode("panic")]
Unloadable(loads) == [loads |-> loads, whole |-> Small, parts |-> <<NoZones>>]

MCDrives ==
  {Shadowed} \cup {Malformed(o) : o \in {"error", "panic"}} \cup {Holed(o) : o \in {"error", "panic"}}
             \cup {Unloadable(o) : o \in {"error", "panic"}}
MCPaths == {<<>>, <<"a">>, <<"n">>, <<"a", "b">>}
NotUtf8 == {"n"}
=============================================================================
