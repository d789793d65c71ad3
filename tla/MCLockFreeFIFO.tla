--------------------------- MODULE MCLockFreeFIFO ---------------------------
(* A finite instance of LockFreeFIFO for TLC. *)
EXTENDS LockFreeFIFO, TLC

ThreeLinks == 1 .. 3
=============================================================================
