---------------------------- MODULE RenderProgram ----------------------------
(***************************************************************************)
(* The program of UE/TaskGraph.cpp as a whole: main starts the task graph  *)
(* and the rendering thread, then counts and enqueues one render command   *)
(* per count; the rendering thread starts up, finds the task graph through *)
(* the singleton and executes the commands.                                *)
(*                                                                         *)
(* What StallingTaskQueue and GraphTask model in detail is one step here:  *)
(* enqueueing, and executing the oldest command.  The objects that one     *)
(* thread makes and another uses are pointers that are null until then.    *)
(* main reaches Startup through Get() while the singleton is null, which   *)
(* does no harm in a static member function.                               *)
(***************************************************************************)
EXTENDS Integers, Sequences

CONSTANTS NumThreads,             \* ENamedThreads::AnyThread: 3
          ActualRenderingThread,  \* 2
          MaxCommands             \* bound: commands that main enqueues

ASSUME ProgramAssumption ==
    /\ NumThreads \in Nat /\ ActualRenderingThread \in 0 .. NumThreads - 1
    /\ MaxCommands \in Nat

VARIABLES
    mainAt,         \* where main is
    WorkerThreads,  \* the FWorkerThread of each named thread
    linkCache,      \* does GetLockFreeAllocator find the TLS cache built?
    singleton,      \* is TaskGraphImplementationSingleton set?
    thread,         \* the FRunnableThreadWin object
    osThread,       \* the thread that CreateThread makes: none, suspended, runnable
    renderAt,       \* where the rendering thread is
    badUse,         \* what the rendering thread has used too early
    a,              \* the local of main that every command captures by reference
    commands,       \* commands queued for the rendering thread, by number
    printed         \* what each executed command printed, in order (history)

main   == <<mainAt, WorkerThreads, linkCache, singleton, thread, osThread>>
vars   == <<main, renderAt, badUse, a, commands, printed>>

ThreadIndexes == 0 .. NumThreads - 1

-----------------------------------------------------------------------------
(* What the two threads share. *)

\* FWorkerThread(): no worker yet.
NoWorker == [TaskGraphWorker |-> FALSE, ThreadId |-> -1, StallRestartEvent |-> FALSE,
             QuitForReturn |-> FALSE]

\* A worker as its constructors leave it: its flags are off, its event is made,
\* reset and automatic, and ThreadId, which they do not set, is any number.
\* (RecursionGuard and QuitForShutdown are never read or never changed.)
NewWorker(id) == [TaskGraphWorker |-> TRUE, ThreadId |-> id, StallRestartEvent |-> TRUE,
                  QuitForReturn |-> FALSE]

\* FRunnableThreadWin(), and before it no such object.
NoThread  == [exists |-> FALSE, Runnable |-> FALSE, Thread |-> FALSE]
NewThread == [NoThread EXCEPT !.exists = TRUE]

-----------------------------------------------------------------------------
(* main *)

\* The first call builds the cache, without any lock.
GetLockFreeAllocator == linkCache' = TRUE

\* FTaskGraphImplementation makes the next worker.  Its stalling queue allocates
\* the first link of its FIFOs.
ConstructWorker ==
    /\ mainAt = "construct"
    /\ \E t \in ThreadIndexes :
        /\ ~WorkerThreads[t].TaskGraphWorker
        /\ \A s \in 0 .. t - 1 : WorkerThreads[s].TaskGraphWorker
        /\ \E id \in -1 .. NumThreads : WorkerThreads' = [WorkerThreads EXCEPT ![t] = NewWorker(id)]
    /\ GetLockFreeAllocator
    /\ mainAt' = "setup"
    /\ UNCHANGED <<singleton, thread, osThread, renderAt, badUse, a, commands, printed>>

\* Setup of the worker just made.
SetupWorker ==
    /\ mainAt = "setup"
    /\ \E t \in ThreadIndexes :
        /\ WorkerThreads[t].TaskGraphWorker
        /\ \A s \in t + 1 .. NumThreads - 1 : ~WorkerThreads[s].TaskGraphWorker
        /\ WorkerThreads' = [WorkerThreads EXCEPT ![t].ThreadId = t]
        /\ mainAt' = IF t + 1 < NumThreads THEN "construct" ELSE "publish"
    /\ UNCHANGED <<linkCache, singleton, thread, osThread, renderAt, badUse, a, commands, printed>>

\* The constructor ends with the singleton.
PublishSingleton ==
    /\ mainAt = "publish"
    /\ singleton' = TRUE
    /\ mainAt' = "newThread"
    /\ UNCHANGED <<WorkerThreads, linkCache, thread, osThread, renderAt, badUse, a,
                   commands, printed>>

\* StartRenderingThread makes the runnable, FRunnableThread::Create the thread object.
CreateRunnableThread ==
    /\ mainAt = "newThread"
    /\ thread' = NewThread
    /\ mainAt' = "createThread"
    /\ UNCHANGED <<WorkerThreads, linkCache, singleton, osThread, renderAt, badUse, a,
                   commands, printed>>

\* Mutant of CreateThread: the thread starts at once.
CreateThreadRunning ==
    /\ mainAt = "createThread"
    /\ thread' = [thread EXCEPT !.Runnable = TRUE]
    /\ osThread' = "runnable"
    /\ mainAt' = "storeHandle"
    /\ UNCHANGED <<WorkerThreads, linkCache, singleton, renderAt, badUse, a, commands, printed>>

\* CreateInternal: Runnable, then CreateThread with CREATE_SUSPENDED ...
CreateThread ==
    /\ mainAt = "createThread"
    /\ thread' = [thread EXCEPT !.Runnable = TRUE]
    /\ osThread' = "suspended"
    /\ mainAt' = "storeHandle"
    /\ UNCHANGED <<WorkerThreads, linkCache, singleton, renderAt, badUse, a, commands, printed>>

\* ... whose result is stored ...
StoreHandle ==
    /\ mainAt = "storeHandle"
    /\ thread' = [thread EXCEPT !.Thread = TRUE]
    /\ mainAt' = "resume"
    /\ UNCHANGED <<WorkerThreads, linkCache, singleton, osThread, renderAt, badUse, a,
                   commands, printed>>

\* ... before ResumeThread.
ResumeThread ==
    /\ mainAt = "resume"
    /\ osThread' = "runnable"
    /\ mainAt' = "count"
    /\ UNCHANGED <<WorkerThreads, linkCache, singleton, thread, renderAt, badUse, a,
                   commands, printed>>

\* The loop: a++ ...
Count ==
    /\ mainAt = "count" /\ a < MaxCommands
    /\ a' = a + 1
    /\ mainAt' = "enqueue"
    /\ UNCHANGED <<WorkerThreads, linkCache, singleton, thread, osThread, renderAt, badUse,
                   commands, printed>>

\* ... and ENQUEUE_RENDER_COMMAND with a lambda that refers to a.
Enqueue ==
    /\ mainAt = "enqueue"
    /\ commands' = Append(commands, a)
    /\ mainAt' = "count"
    /\ UNCHANGED <<WorkerThreads, linkCache, singleton, thread, osThread, renderAt, badUse,
                   a, printed>>

-----------------------------------------------------------------------------
(* The rendering thread. *)

\* What the thread finds missing when it needs it.
Needs(thing, there) == badUse' = IF there THEN badUse ELSE badUse \cup {thing}

\* _ThreadProc finds its object, GuardedRun names the thread through the handle.
DescribeThread ==
    /\ renderAt = "entry" /\ osThread = "runnable"
    /\ Needs("handle", thread.exists /\ thread.Thread)
    /\ renderAt' = "run"
    /\ UNCHANGED <<main, a, commands, printed>>

\* Run calls Init of the runnable, which answers true, and then its Run; Exit is
\* not reached.
RunRunnable ==
    /\ renderAt = "run"
    /\ Needs("runnable", thread.Runnable)
    /\ renderAt' = "attach"
    /\ UNCHANGED <<main, a, commands, printed>>

\* RenderingThreadMain: Get().ProcessThreadUntilRequestReturn(ActualRenderingThread).
FindTaskGraph ==
    /\ renderAt = "attach"
    /\ Needs("task graph",
             singleton /\ WorkerThreads[ActualRenderingThread].ThreadId = ActualRenderingThread)
    /\ renderAt' = "enter"
    /\ UNCHANGED <<main, a, commands, printed>>

\* ProcessTasksUntilQuit resets the flag that would end it.
EnterLoop ==
    /\ renderAt = "enter"
    /\ WorkerThreads' = [WorkerThreads EXCEPT ![ActualRenderingThread].QuitForReturn = FALSE]
    /\ renderAt' = "process"
    /\ UNCHANGED <<mainAt, linkCache, singleton, thread, osThread, badUse, a, commands, printed>>

Processing ==
    /\ renderAt = "process" /\ commands # <<>>
    /\ ~WorkerThreads[ActualRenderingThread].QuitForReturn

\* Mutant of ExecuteCommand: the newest command first.
ExecuteNewest ==
    /\ Processing
    /\ LET n == Len(commands) IN
         /\ commands' = SubSeq(commands, 1, n - 1)
         /\ printed' = Append(printed, [command |-> commands[n], value |-> a])
    /\ UNCHANGED <<main, renderAt, badUse, a>>

\* Mutant of ExecuteCommand: the thread stops at the first command.
ExecuteOnce ==
    /\ Processing
    /\ commands' = Tail(commands)
    /\ printed' = Append(printed, [command |-> Head(commands), value |-> a])
    /\ renderAt' = "done"
    /\ UNCHANGED <<main, badUse, a>>

\* The oldest command prints what a is now.  Popping it frees a link into the
\* cache, which must have been built by then: the two threads would otherwise
\* both build it.
ExecuteCommand ==
    /\ Processing
    /\ Needs("queue", linkCache /\ WorkerThreads[ActualRenderingThread].StallRestartEvent)
    /\ commands' = Tail(commands)
    /\ printed' = Append(printed, [command |-> Head(commands), value |-> a])
    /\ UNCHANGED <<main, renderAt, a>>

-----------------------------------------------------------------------------

Init ==
    /\ mainAt = "construct" /\ WorkerThreads = [t \in ThreadIndexes |-> NoWorker]
    /\ linkCache = FALSE /\ singleton = FALSE
    /\ thread = NoThread /\ osThread = "none"
    /\ renderAt = "entry" /\ badUse = {}
    /\ a = 0 /\ commands = <<>> /\ printed = <<>>

MainStep ==
    \/ ConstructWorker \/ SetupWorker \/ PublishSingleton \/ CreateRunnableThread
    \/ CreateThread \/ StoreHandle \/ ResumeThread \/ Count \/ Enqueue

RenderStep == DescribeThread \/ RunRunnable \/ FindTaskGraph \/ EnterLoop \/ ExecuteCommand

Next == MainStep \/ RenderStep

Spec == Init /\ [][Next]_vars

\* Both threads are scheduled.
FairSpec == Spec /\ WF_vars(MainStep) /\ WF_vars(RenderStep)

-----------------------------------------------------------------------------
(* Properties. *)

Workers == [TaskGraphWorker : BOOLEAN, ThreadId : -1 .. NumThreads,
            StallRestartEvent : BOOLEAN, QuitForReturn : BOOLEAN]

TypeOK ==
    /\ mainAt \in {"construct", "setup", "publish", "newThread", "createThread", "storeHandle",
                   "resume", "count", "enqueue"}
    /\ WorkerThreads \in [ThreadIndexes -> Workers]
    /\ linkCache \in BOOLEAN /\ singleton \in BOOLEAN
    /\ thread \in [exists : BOOLEAN, Runnable : BOOLEAN, Thread : BOOLEAN]
    /\ osThread \in {"none", "suspended", "runnable"}
    /\ renderAt \in {"entry", "run", "attach", "enter", "process"}
    /\ badUse \subseteq {"handle", "runnable", "task graph", "queue"}
    /\ a \in 0 .. MaxCommands
    /\ commands \in Seq(1 .. MaxCommands)
    /\ printed \in Seq([command : 1 .. MaxCommands, value : 1 .. MaxCommands])

\* The rendering thread never uses what main has not set up yet: it is created
\* suspended, so that even its own handle is stored before it runs; and the lazy
\* and unlocked construction of the link cache is over before it can take part.
StartedInOrder == badUse = {}

\* Commands are executed in the order they were enqueued, each once.  A command
\* prints the count at its execution, which is its own number or, if main has
\* counted on, a later one; the printed numbers never go back.
PrintsInOrder ==
    \A i \in 1 .. Len(printed) :
        /\ printed[i].command = i
        /\ printed[i].value >= i
        /\ i > 1 => printed[i].value >= printed[i - 1].value

\* Every command that is counted is printed in the end.
EveryCommandPrints == \A n \in 1 .. MaxCommands : a >= n ~> Len(printed) >= n
=============================================================================
