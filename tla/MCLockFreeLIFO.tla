--------------------------- MODULE MCLockFreeLIFO ---------------------------
(* A finite instance of LockFreeLIFO for TLC. *)
EXTENDS LockFreeLIFO, TLC

ThreeLinks == 1 .. 3
=============================================================================
