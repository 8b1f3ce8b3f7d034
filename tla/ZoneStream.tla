----------------------------- MODULE ZoneStream -----------------------------
(***************************************************************************)
(* What a reader of MFSZoneMap is promised, without pointers, copies or    *)
(* damage: a fixed list of zones is delivered one zone at a time, from the *)
(* beginning, each zone once.  Delivery may stop anywhere (the code's None *)
(* does not say whether the list has ended) and may be resumed later.      *)
(***************************************************************************)
EXTENDS Naturals, Sequences

CONSTANT Lists      \* the lists of zones a drive may hold

VARIABLES
  list,             \* the zones on the drive, in the order of the links
  delivered         \* the zones handed out so far

Init ==
  /\ list \in Lists
  /\ delivered = <<>>

Deliver ==
  /\ Len(delivered) < Len(list)
  /\ delivered' = Append(delivered, list[Len(delivered) + 1])
  /\ UNCHANGED list

Spec == Init /\ [][Deliver]_<<list, delivered>>
=============================================================================
