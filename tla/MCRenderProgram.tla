---------------------------- MODULE MCRenderProgram ----------------------------
(* A finite instance of the program of TaskGraph.cpp for TLC, as two parts that *)
(* are looked at one at a time: main with the start-up and the commands         *)
(* (RenderProgram, where the queue is one step), and the queue of the rendering *)
(* thread in detail, with the one thread that services it and every task at     *)
(* priority 0 (StallingTaskQueue, for callers that enqueue twice each).         *)
EXTENDS RenderProgram, TLC

CONSTANTS
    MAX_TagBitsValue,   \* the counters that MasterState has
    Pushers,            \* callers of EnqueueFromOtherThread
    MaxPushes           \* bound: tasks of each

VARIABLES
    part,               \* the part that is looked at
    masterState, priorityQueues, restartEvent, pc, localState, item, pushed,
    threadToWake, index, executed, lag

Queue == INSTANCE StallingTaskQueue WITH
             Threads <- {0}, NumPriorities <- 2, UsedPriorities <- {0}

queueVars == <<masterState, priorityQueues, restartEvent, pc, localState, item, pushed,
               threadToWake, index, executed, lag>>

allVars == <<part, vars, queueVars>>

\* The ordinals of the named threads are those of ENamedThreads.
RenderingThreadOrdinal == 2

PartsInit == part \in {"program", "queue"} /\ Init /\ Queue!Init

ProgramDoes(Step) == part = "program" /\ Step /\ UNCHANGED <<part, queueVars>>
QueueDoes(Step)   == part = "queue" /\ Step /\ UNCHANGED <<part, vars>>

PartsNext == ProgramDoes(Next) \/ QueueDoes(Queue!Next)

\* main, the rendering thread and the callers are scheduled; nothing obliges a
\* caller to push.
PartsSpec ==
    /\ PartsInit /\ [][PartsNext]_allVars
    /\ WF_allVars(ProgramDoes(MainStep)) /\ WF_allVars(ProgramDoes(RenderStep))
    /\ \A p \in Pushers : WF_allVars(QueueDoes(Queue!PushStep(p)))
    /\ WF_allVars(QueueDoes(Queue!ThreadStep(0)))

\* Every task that a caller enqueues is executed in the end, whatever the races it
\* was pushed in (Push, Pop and the event of LockFreeList.h and TaskGraph.cpp).
EveryTaskExecuted == Queue!EveryTaskExecuted

\* The queue behaves as a FIFO from which the rendering thread takes a task whenever
\* there is one and it is idle: stalling, waking and the loops around the
\* compare-and-swap are invisible to the callers.
ImplementsTaskQueue == Queue!ImplementsTaskQueue
=============================================================================
