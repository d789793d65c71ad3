------------------------- MODULE MCStallingTaskQueue -------------------------
(* Finite instances of StallingTaskQueue for TLC. *)
EXTENDS StallingTaskQueue, TLC

\* The callers of EnqueueFromOtherThread are interchangeable.
PusherSymmetry == Permutations(Pushers)
=============================================================================
