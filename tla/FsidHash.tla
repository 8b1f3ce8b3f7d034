------------------------------ MODULE FsidHash ------------------------------
(***************************************************************************)
(* fsid_hash.  The mask never has more bits than the model's words, so the *)
(* bits lost by wrapping_mul never reach the result and the product needs  *)
(* no reduction.                                                           *)
(***************************************************************************)
EXTENDS Integers
LOCAL INSTANCE Bitwise

FSID_HASH == 67289   \* 0x106d9

FsidHash(fsid, size) == (fsid * FSID_HASH) & size
=============================================================================
