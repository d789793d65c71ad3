-------------------------------- MODULE FIFO --------------------------------
(***************************************************************************)
(* What FLockFreePointerFIFOBase promises: an atomic FIFO of payloads.     *)
(***************************************************************************)
EXTENDS Naturals, Sequences

CONSTANTS Pushers, Poppers, MaxPushes, NoPayload

VARIABLES
    queue,  \* the payloads, oldest first
    put,    \* how many payloads each pusher has pushed
    got     \* the payload that each popper's last successful Pop returned

vars == <<queue, put, got>>

Init ==
    /\ queue = <<>>
    /\ put = [p \in Pushers |-> 0]
    /\ got = [c \in Poppers |-> NoPayload]

Push(p) ==
    /\ put[p] < MaxPushes
    /\ put' = [put EXCEPT ![p] = @ + 1]
    /\ queue' = Append(queue, <<p, put[p] + 1>>)
    /\ UNCHANGED got

Pop(c) ==
    /\ queue # <<>>
    /\ got' = [got EXCEPT ![c] = Head(queue)]
    /\ queue' = Tail(queue)
    /\ UNCHANGED put

Next == (\E p \in Pushers : Push(p)) \/ (\E c \in Poppers : Pop(c))

Spec == Init /\ [][Next]_vars
=============================================================================
