------------------------------ MODULE TaskQueue ------------------------------
(***************************************************************************)
(* What FStallingTaskQueue promises, with nothing of how it does it: tasks *)
(* are put into one FIFO per priority, a servicing thread with nothing to  *)
(* do takes the oldest task of some priority, and every task is executed.  *)
(***************************************************************************)
EXTENDS Integers, Sequences

CONSTANTS Pushers, Threads, NumPriorities, UsedPriorities, MaxPushes

Priorities == 0 .. NumPriorities - 1
NoTask == [by |-> "none"]

VARIABLES
    queues,   \* one FIFO of tasks per priority
    put,      \* how many tasks each pusher has put
    running,  \* the task each thread has taken, NoTask for none
    done      \* the tasks executed

vars == <<queues, put, running, done>>

Init ==
    /\ queues = [i \in Priorities |-> <<>>]
    /\ put = [p \in Pushers |-> 0]
    /\ running = [t \in Threads |-> NoTask]
    /\ done = {}

\* A pusher's next task goes to the end of a queue.
Put(p, pri) ==
    /\ put[p] < MaxPushes
    /\ put' = [put EXCEPT ![p] = @ + 1]
    /\ queues' = [queues EXCEPT ![pri] =
                    Append(@, [by |-> p, num |-> put[p] + 1, pri |-> pri])]
    /\ UNCHANGED <<running, done>>

\* An idle thread takes the oldest task of one of the queues.
Take(t, pri) ==
    /\ running[t] = NoTask /\ queues[pri] # <<>>
    /\ running' = [running EXCEPT ![t] = Head(queues[pri])]
    /\ queues' = [queues EXCEPT ![pri] = Tail(@)]
    /\ UNCHANGED <<put, done>>

\* The task has been executed.
Finish(t) ==
    /\ running[t] # NoTask
    /\ done' = done \cup {running[t]}
    /\ running' = [running EXCEPT ![t] = NoTask]
    /\ UNCHANGED <<queues, put>>

TakeSome == \E t \in Threads, pri \in Priorities : Take(t, pri)

Next ==
    \/ \E p \in Pushers, pri \in UsedPriorities : Put(p, pri)
    \/ TakeSome
    \/ \E t \in Threads : Finish(t)

Spec == Init /\ [][Next]_vars

\* Tasks do not wait for ever while a thread is idle, and executions end.
FairSpec == Spec /\ WF_vars(TakeSome) /\ \A t \in Threads : WF_vars(Finish(t))
=============================================================================
