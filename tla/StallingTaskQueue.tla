-------------------------- MODULE StallingTaskQueue --------------------------
(***************************************************************************)
(* FStallingTaskQueue (UE/LockFreeList.h) together with the two loops that *)
(* drive it (UE/TaskGraph.cpp): pushers run EnqueueFromOtherThread, the    *)
(* threads that service the queue run ProcessTasksNamedThread.             *)
(*                                                                         *)
(* A thread that finds every priority queue empty sets its bit in          *)
(* MasterState and waits on StallRestartEvent; a pusher that sees a bit    *)
(* clears it and signals the event.  Both sides synchronise only through   *)
(* the compare-and-swap of MasterState, and the priority queues themselves *)
(* are separate lock-free FIFOs: the hard question is whether a task can   *)
(* be pushed while the last thread goes to sleep and never be noticed.     *)
(*                                                                         *)
(* One action is one access to shared memory.  The priority queues are     *)
(* atomic sequences here (see LockFreeFIFO for their implementation).      *)
(* The program services each queue with the single thread 0; the class is  *)
(* written for a set of threads, and so is this module.                    *)
(***************************************************************************)
EXTENDS IndexedPointer, Integers, Sequences

CONSTANTS Pushers,        \* callers of EnqueueFromOtherThread
          Threads,        \* bit numbers of the servicing threads; {0} in the program
          NumPriorities,  \* template parameter; 2 in the program
          UsedPriorities, \* priorities that callers pass; {0} in the program
          MaxPushes       \* bound: how many tasks each pusher pushes

ASSUME QueueAssumption ==
    /\ Threads # {} /\ Threads \subseteq Nat
    /\ Pushers \cap Threads = {} /\ "none" \notin Pushers
    /\ NumPriorities \in Nat \ {0}
    /\ UsedPriorities \subseteq 0 .. NumPriorities - 1
    /\ MaxPushes \in Nat

Procs      == Pushers \cup Threads
Priorities == 0 .. NumPriorities - 1

\* The num-th task that a pusher pushes, and the priority it goes to.
Task == [by : Pushers, num : 1 .. MaxPushes, pri : Priorities]
NoTask == [by |-> "none"]

VARIABLES
    masterState,    \* MasterState: counter and the set of stall bits (ptr)
    priorityQueues, \* PriorityQueues: one FIFO of tasks per priority
    restartEvent,   \* StallRestartEvent of each thread (auto-reset)
    pc,             \* where each process is in Push or Pop
    localState,     \* LocalMasterState of each process
    item,           \* InPayload of a pusher, Result of a thread
    pushed,         \* how many tasks each pusher has pushed
    threadToWake,   \* ThreadToWake of each pusher, -1 for none
    index,          \* Index of the scan in Pop
    executed,       \* the tasks whose Execute was called
    lag             \* MasterState changes since the process read it (history)

vars == <<masterState, priorityQueues, restartEvent, pc, localState, item,
          pushed, threadToWake, index, executed, lag>>

-----------------------------------------------------------------------------
(* Stall bits. *)

\* FindThreadToWake: the lowest bit that is on, -1 if there is none.
FindThreadToWake(bits) ==
    IF bits = {} THEN -1
    ELSE CHOOSE t \in bits : \A u \in bits : t <= u

TurnOffBit(bits, t) == bits \ {t}
TurnOnBit(bits, t)  == bits \cup {t}

\* Mutant of PushedState: the bit of the thread to wake stays on.
PushedStateKeepsBit(from) == SetAll(from.ptr, AdvanceCounter(from))

\* The state a push installs over "from": counter advanced, one bit cleared.
PushedState(from) ==
    SetAll(TurnOffBit(from.ptr, FindThreadToWake(from.ptr)), AdvanceCounter(from))

\* The state a successful Pop installs: only the counter moves.
PoppedState(from) == SetAll(from.ptr, AdvanceCounter(from))

\* The state a stalling Pop installs: the thread's own bit goes on.
StalledState(from, t) == SetAll(TurnOnBit(from.ptr, t), AdvanceCounter(from))

-----------------------------------------------------------------------------
(* The shared word. *)

\* Program points between a read of MasterState and the CAS that uses it.
Holding(x) == pc[x] \in {"enqueue", "pushCas", "scan", "popCas"}

\* AtomicRead of MasterState into the local copy of x.
ReadMasterState(x) ==
    /\ localState' = [localState EXCEPT ![x] = masterState]
    /\ lag' = [lag EXCEPT ![x] = 0]
    /\ UNCHANGED masterState

\* Bound on starvation: no other process has held its copy of MasterState for
\* as many changes as the counter has values (2^38 in the code).
NobodyStarves(x) ==
    \A y \in Procs \ {x} : Holding(y) => lag[y] + 1 < MAX_TagBitsValue

\* InterlockedCompareExchange of MasterState, when it succeeds ...
CasSucceeds(x, new) ==
    /\ masterState = localState[x]
    /\ NobodyStarves(x)
    /\ masterState' = new
    /\ lag' = [y \in Procs |-> IF y # x /\ Holding(y) THEN lag[y] + 1 ELSE 0]
    /\ UNCHANGED localState

\* ... and when it does not.
CasFails(x) ==
    /\ masterState # localState[x]
    /\ lag' = [lag EXCEPT ![x] = 0]
    /\ UNCHANGED <<masterState, localState>>

Goto(x, label) == pc' = [pc EXCEPT ![x] = label]

-----------------------------------------------------------------------------
(* EnqueueFromOtherThread: Push, then Trigger if a thread is to be woken. *)

\* Push starts: MasterState is read before the task goes into its queue.
PushRead(p, pri) ==
    /\ pc[p] = "idle" /\ pushed[p] < MaxPushes
    /\ item' = [item EXCEPT ![p] = [by |-> p, num |-> pushed[p] + 1, pri |-> pri]]
    /\ pushed' = [pushed EXCEPT ![p] = @ + 1]
    /\ ReadMasterState(p)
    /\ Goto(p, "enqueue")
    /\ UNCHANGED <<priorityQueues, restartEvent, threadToWake, index, executed>>

\* PriorityQueues[Priority].Push(InPayload).
PushEnqueue(p) ==
    /\ pc[p] = "enqueue"
    /\ priorityQueues' = [priorityQueues EXCEPT ![item[p].pri] = Append(@, item[p])]
    /\ Goto(p, "pushCas")
    /\ UNCHANGED <<masterState, restartEvent, localState, item, pushed,
                   threadToWake, index, executed, lag>>

\* Mutant of PushCas: ThreadToWake > 0 is tested where >= 0 is meant.
PushCasIgnoresThread0(p) ==
    /\ pc[p] = "pushCas"
    /\ \/ /\ CasSucceeds(p, PushedState(localState[p]))
          /\ threadToWake' = [threadToWake EXCEPT ![p] = FindThreadToWake(localState[p].ptr)]
          /\ Goto(p, IF threadToWake'[p] > 0 THEN "trigger" ELSE "idle")
       \/ /\ CasFails(p)
          /\ Goto(p, "pushReread")
          /\ UNCHANGED threadToWake
    /\ UNCHANGED <<priorityQueues, restartEvent, item, pushed, index, executed>>

\* The CAS of the push loop; Push returns ThreadToWake.
PushCas(p) ==
    /\ pc[p] = "pushCas"
    /\ \/ /\ CasSucceeds(p, PushedState(localState[p]))
          /\ threadToWake' = [threadToWake EXCEPT ![p] = FindThreadToWake(localState[p].ptr)]
          /\ Goto(p, IF threadToWake'[p] >= 0 THEN "trigger" ELSE "idle")
       \/ /\ CasFails(p)
          /\ Goto(p, "pushReread")
          /\ UNCHANGED threadToWake
    /\ UNCHANGED <<priorityQueues, restartEvent, item, pushed, index, executed>>

\* The loop body: MasterState is read again.
PushReread(p) ==
    /\ pc[p] = "pushReread"
    /\ ReadMasterState(p)
    /\ Goto(p, "pushCas")
    /\ UNCHANGED <<priorityQueues, restartEvent, item, pushed, threadToWake,
                   index, executed>>

\* StallRestartEvent->Trigger().
Trigger(p) ==
    /\ pc[p] = "trigger"
    /\ restartEvent' = [restartEvent EXCEPT ![threadToWake[p]] = TRUE]
    /\ threadToWake' = [threadToWake EXCEPT ![p] = -1]
    /\ Goto(p, "idle")
    /\ UNCHANGED <<masterState, priorityQueues, localState, item, pushed,
                   index, executed, lag>>

-----------------------------------------------------------------------------
(* ProcessTasksNamedThread: Pop with bAllowStall, then Execute or Wait. *)

\* Pop (re)starts: MasterState is read before the queues are scanned.
PopRead(t) ==
    /\ pc[t] = "popRead"
    /\ ReadMasterState(t)
    /\ index' = [index EXCEPT ![t] = 0]
    /\ Goto(t, "scan")
    /\ UNCHANGED <<priorityQueues, restartEvent, item, pushed, threadToWake, executed>>

\* PriorityQueues[Index].Pop() finds a task, or the scan moves on.
PopScan(t) ==
    /\ pc[t] = "scan" /\ index[t] < NumPriorities
    /\ \/ /\ priorityQueues[index[t]] # <<>>
          /\ item' = [item EXCEPT ![t] = Head(priorityQueues[index[t]])]
          /\ priorityQueues' = [priorityQueues EXCEPT ![index[t]] = Tail(@)]
          /\ Goto(t, "popCas")
          /\ UNCHANGED index
       \/ /\ priorityQueues[index[t]] = <<>>
          /\ index' = [index EXCEPT ![t] = @ + 1]
          /\ UNCHANGED <<item, priorityQueues, pc>>
    /\ UNCHANGED <<masterState, restartEvent, localState, pushed, threadToWake,
                   executed, lag>>

\* Mutant of PopCas: when the CAS fails Pop starts again and forgets Result.
PopCasRestarts(t) ==
    /\ pc[t] = "popCas"
    /\ \/ CasSucceeds(t, PoppedState(localState[t])) /\ Goto(t, "execute") /\ UNCHANGED item
       \/ CasFails(t) /\ Goto(t, "popRead") /\ item' = [item EXCEPT ![t] = NoTask]
    /\ UNCHANGED <<priorityQueues, restartEvent, pushed, threadToWake, index, executed>>

\* A task was found: the counter of MasterState is advanced before it is returned.
PopCas(t) ==
    /\ pc[t] = "popCas"
    /\ \/ CasSucceeds(t, PoppedState(localState[t])) /\ Goto(t, "execute")
       \/ CasFails(t) /\ Goto(t, "popReread")
    /\ UNCHANGED <<priorityQueues, restartEvent, item, pushed, threadToWake,
                   index, executed>>

PopReread(t) ==
    /\ pc[t] = "popReread"
    /\ ReadMasterState(t)
    /\ Goto(t, "popCas")
    /\ UNCHANGED <<priorityQueues, restartEvent, item, pushed, threadToWake,
                   index, executed>>

\* Mutant of PopStall: the bit goes into MasterState as it is now, not as it was
\* before the scan.
PopStallBlindly(t) ==
    /\ pc[t] = "scan" /\ index[t] = NumPriorities
    /\ NobodyStarves(t)
    /\ masterState' = StalledState(masterState, t)
    /\ lag' = [y \in Procs |-> IF y # t /\ Holding(y) THEN lag[y] + 1 ELSE 0]
    /\ Goto(t, "wait")
    /\ UNCHANGED <<localState, priorityQueues, restartEvent, item, pushed,
                   threadToWake, index, executed>>

\* Every queue was found empty: the thread sets its bit and Pop returns null,
\* or MasterState has moved since it was read and Pop starts again.
PopStall(t) ==
    /\ pc[t] = "scan" /\ index[t] = NumPriorities
    /\ \/ CasSucceeds(t, StalledState(localState[t], t)) /\ Goto(t, "wait")
       \/ CasFails(t) /\ Goto(t, "popRead")
    /\ UNCHANGED <<priorityQueues, restartEvent, item, pushed, threadToWake,
                   index, executed>>

\* StallRestartEvent->Wait(INFINITE) returns and resets the event.
Wait(t) ==
    /\ pc[t] = "wait" /\ restartEvent[t]
    /\ restartEvent' = [restartEvent EXCEPT ![t] = FALSE]
    /\ Goto(t, "popRead")
    /\ UNCHANGED <<masterState, priorityQueues, localState, item, pushed,
                   threadToWake, index, executed, lag>>

\* Task->Execute().
Execute(t) ==
    /\ pc[t] = "execute"
    /\ executed' = executed \cup {item[t]}
    /\ item' = [item EXCEPT ![t] = NoTask]
    /\ Goto(t, "popRead")
    /\ UNCHANGED <<masterState, priorityQueues, restartEvent, localState, pushed,
                   threadToWake, index, lag>>

-----------------------------------------------------------------------------

Init ==
    /\ masterState = SetAll({}, 0)
    /\ priorityQueues = [i \in Priorities |-> <<>>]
    /\ restartEvent = [t \in Threads |-> FALSE]
    /\ pc = [x \in Procs |-> IF x \in Pushers THEN "idle" ELSE "popRead"]
    /\ localState = [x \in Procs |-> SetAll({}, 0)]
    /\ item = [x \in Procs |-> NoTask]
    /\ pushed = [p \in Pushers |-> 0]
    /\ threadToWake = [p \in Pushers |-> -1]
    /\ index = [t \in Threads |-> 0]
    /\ executed = {}
    /\ lag = [x \in Procs |-> 0]

\* What a pusher does once it has called Push.
PushStep(p) == PushEnqueue(p) \/ PushCas(p) \/ PushReread(p) \/ Trigger(p)

ThreadStep(t) ==
    \/ PopRead(t) \/ PopScan(t) \/ PopCas(t) \/ PopReread(t) \/ PopStall(t)
    \/ Wait(t) \/ Execute(t)

Next ==
    \/ \E p \in Pushers : PushStep(p) \/ \E pri \in UsedPriorities : PushRead(p, pri)
    \/ \E t \in Threads : ThreadStep(t)

Spec == Init /\ [][Next]_vars

\* Every thread that can run does run; nothing obliges a caller to push.
Fairness ==
    /\ \A p \in Pushers : WF_vars(PushStep(p))
    /\ \A t \in Threads : WF_vars(ThreadStep(t))

FairSpec == Spec /\ Fairness

-----------------------------------------------------------------------------
(* Properties. *)

PushPoints == {"idle", "enqueue", "pushCas", "pushReread", "trigger"}
PopPoints  == {"popRead", "scan", "popCas", "popReread", "wait", "execute"}

WordTypeOK ==
    /\ masterState \in IndexedPointers(SUBSET Threads)
    /\ localState \in [Procs -> IndexedPointers(SUBSET Threads)]
    /\ lag \in [Procs -> 0 .. MAX_TagBitsValue - 1]

ControlTypeOK ==
    /\ pc \in [Procs -> PushPoints \cup PopPoints]
    /\ \A p \in Pushers : pc[p] \in PushPoints
    /\ \A t \in Threads : pc[t] \in PopPoints
    /\ index \in [Threads -> 0 .. NumPriorities]

TaskTypeOK ==
    /\ priorityQueues \in [Priorities -> Seq(Task)]
    /\ item \in [Procs -> Task \cup {NoTask}]
    /\ pushed \in [Pushers -> 0 .. MaxPushes]
    /\ executed \subseteq Task

WakeTypeOK ==
    /\ restartEvent \in [Threads -> BOOLEAN]
    /\ threadToWake \in [Pushers -> Threads \cup {-1}]

TypeOK == WordTypeOK /\ ControlTypeOK /\ TaskTypeOK /\ WakeTypeOK

\* Pushers that have put their task into a queue and have still to install
\* their change of MasterState.
Announcing == {p \in Pushers : pc[p] \in {"pushCas", "pushReread"}}

\* No wake-up is lost.  When every servicing thread has its stall bit on while
\* a task is queued, the pusher of some task has still to run its CAS, which
\* will clear a bit: a task never sits in the queue with everybody asleep and
\* nobody on the way to wake them.
NoLostWakeup ==
    (\E i \in Priorities : priorityQueues[i] # <<>>) /\ masterState.ptr = Threads
        => Announcing # {}

\* A stalled thread has exactly one wake-up outstanding (its stall bit, which a
\* pusher will clear; one pusher that has cleared it and not yet signalled; or
\* the event) and a running thread has none.  So no signal of the auto-reset
\* event is swallowed by an earlier one, and a thread that asks for a task is
\* never marked stalled (the check that Pop keeps as a comment: "you should not
\* be stalled if you are asking for a task").
OneWake(t) ==
    LET stalled == t \in masterState.ptr
        wakers  == {p \in Pushers : threadToWake[p] = t}
        woken   == restartEvent[t]
    IN  /\ pc[t] = "wait" <=> stalled \/ wakers # {} \/ woken
        /\ ~ (stalled /\ woken)
        /\ stalled \/ woken => wakers = {}
        /\ \A p, q \in wakers : p = q

OneWakePerStall == \A t \in Threads : OneWake(t)

\* A queued task is executed in the end, whatever the races it was pushed in.
EveryTaskExecuted ==
    \A p \in Pushers : \A n \in 1 .. MaxPushes :
        pushed[p] >= n ~> \E task \in executed : task.by = p /\ task.num = n

-----------------------------------------------------------------------------
(* What makes NoLostWakeup and OneWakePerStall inductive. *)

\* As long as nobody starves, a copy of MasterState equals MasterState exactly
\* if nothing changed since it was read: the counter rules out ABA.
NoABA ==
    \A x \in Procs :
        IF Holding(x)
        THEN /\ localState[x].counter = CounterBefore(masterState.counter, lag[x])
             /\ lag[x] = 0 => localState[x] = masterState
        ELSE lag[x] = 0

\* If MasterState has not moved since a thread read it, then a queue that the
\* thread has already scanned can only have been filled by a pusher that has
\* still to announce its task.
ScanIsCurrent ==
    \A t \in Threads : \A i \in Priorities :
        /\ pc[t] = "scan" /\ lag[t] = 0
        /\ i < index[t] /\ priorityQueues[i] # <<>>
        => Announcing # {}

\* A pusher knows whom to wake exactly while it is about to signal.
WakersTrigger == \A p \in Pushers : threadToWake[p] # -1 <=> pc[p] = "trigger"

\* A pusher in Push has its latest task in hand; a thread has one from the pop
\* that returned it until Execute has run, and none otherwise.
TaskInHand ==
    /\ \A p \in Pushers : pc[p] \in {"enqueue", "pushCas", "pushReread"} =>
         /\ item[p] \in Task
         /\ item[p].by = p /\ item[p].num = pushed[p] /\ item[p].pri \in UsedPriorities
    /\ \A t \in Threads :
         IF pc[t] \in {"popCas", "popReread", "execute"} THEN item[t] \in Task
                                                         ELSE item[t] = NoTask

\* The inductive invariant: together these facts are preserved
\* by every step of EnqueueFromOtherThread and ProcessTasksNamedThread.
InductiveInv ==
    /\ TypeOK
    /\ NoABA
    /\ ScanIsCurrent
    /\ WakersTrigger
    /\ OneWakePerStall
    /\ NoLostWakeup
    /\ TaskInHand

-----------------------------------------------------------------------------
(* What the queue promises its callers: the abstract task queue. *)

Abstract == INSTANCE TaskQueue WITH
    queues  <- priorityQueues,
    put     <- [p \in Pushers |-> IF pc[p] = "enqueue" THEN pushed[p] - 1 ELSE pushed[p]],
    running <- [t \in Threads |-> item[t]],
    done    <- executed

\* Stalling, waking and the compare-and-swap loops are invisible to the callers:
\* the queue behaves as per-priority FIFOs from which some thread takes a task
\* whenever there is one and a thread is idle.
ImplementsTaskQueue == Abstract!FairSpec
=============================================================================
