--------------------------- MODULE MCLinkAllocator ---------------------------
(* Finite instances of LinkAllocator for TLC. *)
EXTENDS LinkAllocator, TLC

\* Either all threads work, or only one of them does and reserves one bundle more:
\* it takes a fourth bundle for one to be taken from the shared list while another
\* lies below it.
VARIABLE working

MCInit ==
    /\ Init
    /\ working \in {Procs, {CHOOSE x \in Procs : TRUE}}

MCNext ==
    /\ \E x \in working : Step(x)
    /\ working = Procs => nextIndex' <= 3 * NUM_PER_BUNDLE + 1
    /\ UNCHANGED working

MCSpec == MCInit /\ [][MCNext]_<<vars, working>>

=============================================================================
