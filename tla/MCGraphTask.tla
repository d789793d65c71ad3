----------------------------- MODULE MCGraphTask -----------------------------
(* Finite instances of GraphTask for TLC. *)
EXTENDS GraphTask, TLC

\* Tasks that are created in the same way are interchangeable.
TaskSymmetry == Permutations(Held) \cup Permutations(Tasks \ Held)
=============================================================================
