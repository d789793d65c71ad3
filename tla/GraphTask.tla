------------------------------ MODULE GraphTask ------------------------------
(***************************************************************************)
(* The life of a TGraphTask (UE/TaskGraphInterfaces.h) from CreateTask to  *)
(* DeleteTask, between the thread that creates it and the thread that      *)
(* executes it.  The task object owns itself: whoever executes it deletes  *)
(* it, and "the task may complete before these routines even return".      *)
(*                                                                         *)
(* The queue between the two threads is the FIFO that StallingTaskQueue    *)
(* implements; here it is atomic.  A use of a deleted object ends the      *)
(* model: what the program does from there on is undefined.                *)
(***************************************************************************)
EXTENDS Naturals, Sequences, SequencesExt, FiniteSets

CONSTANTS Tasks,         \* TGraphTask objects
          Held,          \* those created with ConstructAndHold, then unlocked
          NamedThreads,  \* RHIThread, GameThread, ActualRenderingThread
          ActualRenderingThread

ASSUME GraphTaskAssumption ==
    /\ Held \subseteq Tasks
    /\ ActualRenderingThread \in NamedThreads
    /\ "none" \notin Tasks

VARIABLES
    caller,       \* how far the creator of each task is
    memory,       \* the TGraphTask object: unallocated, allocated, freed
    embedded,     \* TaskStorage: raw, built, destroyed
    outstanding,  \* NumberOfPrerequistitesOutstanding
    queue,        \* tasks queued on each named thread
    running,      \* task and step that each named thread is at
    stages,       \* the life stages each task has passed (history)
    undefined     \* the tasks that were used after their deletion

vars == <<caller, memory, embedded, outstanding, queue, running,
          stages, undefined>>

Idle == [task |-> "none", at |-> "pop"]

Counter == INSTANCE ThreadSafeCounter

-----------------------------------------------------------------------------
(* The creating thread. *)

Passed(t, stage) == [stages EXCEPT ![t] = Append(@, stage)]

\* The base constructor: the prerequisites, and one that is the lock.
InitialCount(NumberOfPrerequistitesOutstanding) ==
    Counter!Init(NumberOfPrerequistitesOutstanding + 1)

\* CreateTask: NumPrereq = 0.  (The FGraphEvent that it allocates is dropped by the
\* constructor: it is leaked, and not modelled.)
CreateTask(t) ==
    /\ caller[t] = "start"
    /\ caller' = [caller EXCEPT ![t] = "created"]
    /\ memory' = [memory EXCEPT ![t] = "allocated"]
    /\ outstanding' = [outstanding EXCEPT ![t] = InitialCount(0)]
    /\ stages' = Passed(t, "Contructed")
    /\ UNCHANGED <<embedded, queue, running, undefined>>

\* Placement new of the TTask.
ConstructTask(t) ==
    /\ caller[t] = "created"
    /\ caller' = [caller EXCEPT ![t] = "constructed"]
    /\ embedded' = [embedded EXCEPT ![t] = "built"]
    /\ UNCHANGED <<memory, outstanding, queue, running, stages, undefined>>

\* QueueTask of the task graph: whatever ThreadToExecuteOn holds, the target is
\* the rendering thread.
QueueTask(t) == queue' = [queue EXCEPT ![ActualRenderingThread] = Append(@, t)]

\* QueueTask of the task itself, which has passed the stages "before".
BaseQueueTask(t, before) ==
    /\ stages' = [before EXCEPT ![t] = Append(@, "Queued")]
    /\ QueueTask(t)

\* Mutant of SetupPrereqs: the task is queued before its TTask is constructed.
SetupPrereqsTooEarly(t) ==
    /\ caller[t] = "created"
    /\ caller' = [caller EXCEPT ![t] = "setUp"]
    /\ BaseQueueTask(t, Passed(t, "PrequisitesSetup"))
    /\ UNCHANGED <<memory, embedded, outstanding, running, undefined>>

\* Setup and Hold alike: SetupPrereqs passes bUnlock where PrerequisitesComplete
\* expects a count, the count is not subtracted and the test on it is disabled,
\* so the task is queued in both cases.
SetupPrereqs(t) ==
    /\ caller[t] = "constructed"
    /\ caller' = [caller EXCEPT ![t] = "setUp"]
    /\ BaseQueueTask(t, Passed(t, "PrequisitesSetup"))
    /\ UNCHANGED <<memory, embedded, outstanding, running, undefined>>

\* Mutant of ReturnFromSetup: Subsequents is read after the task was queued.
ReturnReadsTask(t) ==
    /\ caller[t] = "setUp"
    /\ caller' = [caller EXCEPT ![t] = "returned"]
    /\ undefined' = IF memory[t] = "freed" THEN undefined \cup {t} ELSE undefined
    /\ UNCHANGED <<memory, embedded, outstanding, queue, running, stages>>

\* Setup returns the event reference it copied before queueing, Hold returns
\* "this": neither looks at the object again.
ReturnFromSetup(t) ==
    /\ caller[t] = "setUp"
    /\ caller' = [caller EXCEPT ![t] = "returned"]
    /\ UNCHANGED <<memory, embedded, outstanding, queue, running,
                   stages, undefined>>

\* Mutant of Unlock: dispatched tasks are unlocked like held ones.
UnlockAny(t) ==
    /\ caller[t] = "returned"
    /\ caller' = [caller EXCEPT ![t] = "unlocked"]
    /\ IF memory[t] = "freed"
       THEN undefined' = undefined \cup {t} /\ UNCHANGED <<outstanding, queue, stages>>
       ELSE /\ outstanding' = [outstanding EXCEPT ![t] = @ - 1]
            /\ BaseQueueTask(t, stages)
            /\ UNCHANGED undefined
    /\ UNCHANGED <<memory, embedded, running>>

\* Unlock of a held task: ConditionalQueueTask decrements and queues at zero.
Unlock(t) ==
    /\ t \in Held /\ caller[t] = "returned"
    /\ caller' = [caller EXCEPT ![t] = "unlocked"]
    /\ IF memory[t] = "freed"
       THEN undefined' = undefined \cup {t} /\ UNCHANGED <<outstanding, queue, stages>>
       ELSE /\ outstanding' = [outstanding EXCEPT ![t] = Counter!Decrement(@).Counter]
            /\ IF Counter!Decrement(outstanding[t]).returned = 0
               THEN BaseQueueTask(t, stages)
               ELSE UNCHANGED <<queue, stages>>
            /\ UNCHANGED undefined
    /\ UNCHANGED <<memory, embedded, running>>

-----------------------------------------------------------------------------
(* The executing thread. *)

\* Pop, then Execute on the object that the queue named.
Execute(th) ==
    /\ running[th] = Idle /\ queue[th] # <<>>
    /\ queue' = [queue EXCEPT ![th] = Tail(@)]
    /\ LET t == Head(queue[th]) IN
       IF memory[t] = "freed"
       THEN undefined' = undefined \cup {t} /\ UNCHANGED <<running, stages>>
       ELSE /\ running' = [running EXCEPT ![th] = [task |-> t, at |-> "doTask"]]
            /\ stages' = Passed(t, "Executing")
            /\ UNCHANGED undefined
    /\ UNCHANGED <<caller, memory, embedded, outstanding>>

\* DoTask of the embedded task, then its destructor.
DoTask(th) ==
    /\ running[th].at = "doTask"
    /\ running' = [running EXCEPT ![th].at = "delete"]
    /\ embedded' = [embedded EXCEPT ![running[th].task] = "destroyed"]
    /\ UNCHANGED <<caller, memory, outstanding, queue, stages, undefined>>

\* Mutant of DeleteTask: bDeleteOnCompletion is false.
KeepTask(th) ==
    /\ running[th].at = "delete"
    /\ running' = [running EXCEPT ![th] = Idle]
    /\ UNCHANGED <<caller, memory, embedded, outstanding, queue, stages, undefined>>

\* bDeleteOnCompletion is always true: delete this.
DeleteTask(th) ==
    /\ running[th].at = "delete"
    /\ memory' = [memory EXCEPT ![running[th].task] = "freed"]
    /\ stages' = Passed(running[th].task, "Deconstucted")
    /\ running' = [running EXCEPT ![th] = Idle]
    /\ UNCHANGED <<caller, embedded, outstanding, queue, undefined>>

-----------------------------------------------------------------------------

Init ==
    /\ caller = [t \in Tasks |-> "start"]
    /\ memory = [t \in Tasks |-> "unallocated"]
    /\ embedded = [t \in Tasks |-> "raw"]
    /\ outstanding = [t \in Tasks |-> Counter!Zero]
    /\ queue = [th \in NamedThreads |-> <<>>]
    /\ running = [th \in NamedThreads |-> Idle]
    /\ stages = [t \in Tasks |-> <<>>]
    /\ undefined = {}

CallerStep(t) ==
    \/ CreateTask(t) \/ ConstructTask(t) \/ SetupPrereqs(t) \/ ReturnFromSetup(t)
    \/ Unlock(t)

ThreadStep(th) == Execute(th) \/ DoTask(th) \/ DeleteTask(th)

Next ==
    /\ undefined = {}
    /\ \/ \E t \in Tasks : CallerStep(t)
       \/ \E th \in NamedThreads : ThreadStep(th)

Spec == Init /\ [][Next]_vars

\* The servicing threads keep going; callers need not create tasks.
FairSpec == Spec /\ \A th \in NamedThreads : WF_vars(ThreadStep(th))

-----------------------------------------------------------------------------
(* Properties. *)

LifeStages == <<"Contructed", "PrequisitesSetup", "Queued", "Executing", "Deconstucted">>

TypeOK ==
    /\ caller \in [Tasks -> {"start", "created", "constructed", "setUp", "returned", "unlocked"}]
    /\ memory \in [Tasks -> {"unallocated", "allocated", "freed"}]
    /\ embedded \in [Tasks -> {"raw", "built", "destroyed"}]
    /\ outstanding \in [Tasks -> {0, 1}]
    /\ queue \in [NamedThreads -> Seq(Tasks)]
    /\ running \in [NamedThreads -> [task : Tasks, at : {"doTask", "delete"}] \cup {Idle}]
    /\ stages \in [Tasks -> Seq(Range(LifeStages))]
    /\ undefined \subseteq Tasks

\* A task goes through its life stages in order, each of them once.
LifeStagesInOrder(t) == IsPrefix(stages[t], LifeStages)

\* "Tasks go through a very specific life stage progression": every task that is
\* dispatched does, even while others are held, queued twice and executed twice.
DispatchedInOrder == \A t \in Tasks \ Held : LifeStagesInOrder(t)

\* No thread uses a dispatched task that another has deleted, though the executing
\* thread may delete it while its creator is still inside Setup.
NoUseAfterDelete == undefined \subseteq Held

\* The embedded task that a thread executes is built and not yet destroyed, and
\* a task that is queued has not been started (of the dispatched tasks).
ExecutesBuiltTask ==
    \A th \in NamedThreads :
        /\ running[th].at = "doTask" /\ running[th].task \notin Held =>
             embedded[running[th].task] = "built"
        /\ \A t \in Range(queue[th]) \ Held : embedded[t] = "built"

\* Hold completes the setup "but doesn't allow the task to dispatch yet".
HoldDefersDispatch ==
    \A t \in Held : caller[t] \in {"setUp", "returned"} =>
        \A th \in NamedThreads : t \notin Range(queue[th]) /\ running[th].task # t

\* A task that has been queued is executed and deleted in the end, even while
\* others are held, unless one of those was used after its deletion.
DispatchedIsDeleted ==
    \A t \in Tasks : caller[t] = "setUp" ~> memory[t] = "freed" \/ undefined # {}
=============================================================================
