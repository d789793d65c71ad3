-------------------------------- MODULE LIFO --------------------------------
(***************************************************************************)
(* What FLockFreePointerListLIFORoot promises: an atomic stack of links.   *)
(***************************************************************************)
EXTENDS SequencesExt

CONSTANT Procs

VARIABLES
    stack,  \* the links, top first
    held    \* the links each thread holds

vars == <<stack, held>>

Push(x) ==
    \E link \in held[x] :
        /\ stack' = <<link>> \o stack
        /\ held' = [held EXCEPT ![x] = @ \ {link}]

Pop(x) ==
    /\ stack # <<>>
    /\ stack' = Tail(stack)
    /\ held' = [held EXCEPT ![x] = @ \cup {Head(stack)}]

PopAll(x) ==
    /\ stack # <<>>
    /\ stack' = <<>>
    /\ held' = [held EXCEPT ![x] = @ \cup ToSet(stack)]

Init ==
    /\ stack = <<>>
    /\ \A x, y \in Procs : x # y => held[x] \cap held[y] = {}

Next == \E x \in Procs : Push(x) \/ Pop(x) \/ PopAll(x)

Spec == Init /\ [][Next]_vars
=============================================================================
