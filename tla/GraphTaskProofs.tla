--------------------------- MODULE GraphTaskProofs ---------------------------
(***************************************************************************)
(* Proofs about graph tasks, for any number of tasks and named threads:    *)
(* the life of a dispatched task, which no held task can disturb although  *)
(* that one is queued twice and may be used after its deletion.            *)
(***************************************************************************)
EXTENDS GraphTask, SequenceTheorems, TLAPS

-----------------------------------------------------------------------------
(* The invariant. *)

(* The life stages of a task that has reached the k-th of them.            *)
Until(k) == [i \in 1 .. k |-> LifeStages[i]]

In(q, t) == \E i \in 1 .. Len(q) : q[i] = t

(* A dispatched task is in the queue at most once.                         *)
Once(q) == \A i, j \in 1 .. Len(q) : q[i] = q[j] /\ q[i] \notin Held => i = j

Waiting(t) == In(queue[ActualRenderingThread], t)

Running(t) == running[ActualRenderingThread].task = t

(* Where a dispatched task can be in its life: with its creator alone ...  *)
Fresh(t) ==
    /\ caller[t] = "start" /\ memory[t] = "unallocated" /\ embedded[t] = "raw"
    /\ stages[t] = Until(0) /\ ~Waiting(t) /\ ~Running(t)

Created(t) ==
    /\ caller[t] = "created" /\ memory[t] = "allocated" /\ embedded[t] = "raw"
    /\ stages[t] = Until(1) /\ ~Waiting(t) /\ ~Running(t)

Constructed(t) ==
    /\ caller[t] = "constructed" /\ memory[t] = "allocated" /\ embedded[t] = "built"
    /\ stages[t] = Until(1) /\ ~Waiting(t) /\ ~Running(t)

(* ... or queued, whether its creator has returned from Setup or not: then *)
(* it is in one place, the queue or the hands of the rendering thread.     *)
Queued(t) ==
    /\ caller[t] \in {"setUp", "returned"}
    /\ memory[t] = "allocated" /\ embedded[t] = "built"
    /\ stages[t] = Until(3) /\ Waiting(t) /\ ~Running(t)

Executing(t) ==
    /\ caller[t] \in {"setUp", "returned"}
    /\ memory[t] = "allocated" /\ stages[t] = Until(4) /\ ~Waiting(t) /\ Running(t)
    /\ running[ActualRenderingThread].at = "doTask" => embedded[t] = "built"

Deleted(t) ==
    /\ caller[t] \in {"setUp", "returned"}
    /\ memory[t] = "freed"
    /\ stages[t] = Until(5) /\ ~Waiting(t) /\ ~Running(t)

Alive(t) ==
    Fresh(t) \/ Created(t) \/ Constructed(t) \/ Queued(t) \/ Executing(t) \/ Deleted(t)

(* Only the rendering thread is given tasks.                               *)
OthersIdle ==
    \A th \in NamedThreads \ {ActualRenderingThread} :
        queue[th] = <<>> /\ running[th] = Idle

(* Whoever may still unlock a task finds the lock that InitialCount set.   *)
Locked ==
    \A t \in Tasks : caller[t] \notin {"start", "unlocked"} => outstanding[t] = 1

LifeInv ==
    /\ OthersIdle /\ Locked
    /\ Once(queue[ActualRenderingThread])
    /\ \A t \in Tasks \ Held : Alive(t)
    /\ undefined \subseteq Held

Inv == TypeOK /\ LifeInv

-----------------------------------------------------------------------------
(* Sequences. *)

LEMMA LifeStagesTypes ==
    /\ LifeStages \in Seq({"Contructed", "PrequisitesSetup", "Queued", "Executing", "Deconstucted"})
    /\ Len(LifeStages) = 5
    /\ DOMAIN LifeStages = 1 .. 5
    /\ LifeStages[1] = "Contructed" /\ LifeStages[2] = "PrequisitesSetup"
    /\ LifeStages[3] = "Queued" /\ LifeStages[4] = "Executing"
    /\ LifeStages[5] = "Deconstucted"
<1>1. Len(LifeStages) = 5
  BY DEF LifeStages
<1>2. /\ LifeStages[1] = "Contructed" /\ LifeStages[2] = "PrequisitesSetup"
      /\ LifeStages[3] = "Queued" /\ LifeStages[4] = "Executing"
      /\ LifeStages[5] = "Deconstucted"
  BY DEF LifeStages
<1>3. LifeStages \in Seq({"Contructed", "PrequisitesSetup", "Queued", "Executing", "Deconstucted"})
  BY DEF LifeStages
<1>4. DOMAIN LifeStages = 1 .. 5
  BY <1>1, <1>3, LenProperties
<1> QED
  BY <1>1, <1>2, <1>3, <1>4

LEMMA UntilTypes ==
    ASSUME NEW k \in 0 .. 5
    PROVE  /\ Until(k) \in Seq(Range(LifeStages))
           /\ Len(Until(k)) = k
           /\ IsPrefix(Until(k), LifeStages)
<1>1. Until(k) \in Seq(Range(LifeStages)) /\ Len(Until(k)) = k
  <2>1. \A i \in 1 .. k : LifeStages[i] \in Range(LifeStages)
    BY LifeStagesTypes DEF Range
  <2> QED
    BY <2>1, IsASeq DEF Until
<1>2. SubSeq(Until(k), 1, k) = SubSeq(LifeStages, 1, k)
  BY LifeStagesTypes DEF Until
<1> QED
  BY <1>1, <1>2, LifeStagesTypes DEF IsPrefix

LEMMA NextStage ==
    ASSUME NEW k \in 0 .. 4
    PROVE  Append(Until(k), LifeStages[k + 1]) = Until(k + 1)
<1>0. k \in 0 .. 5 /\ k + 1 \in 0 .. 5
  OBVIOUS
<1>1. Len(Until(k)) = k /\ Len(Until(k+1)) = k+1 /\ Until(k) \in Seq(Range(LifeStages)) /\ Until(k+1) \in Seq(Range(LifeStages))
  BY <1>0, UntilTypes
<1>2. LifeStages[k + 1] \in Range(LifeStages)
  BY LifeStagesTypes DEF Range
<1>3. Append(Until(k), LifeStages[k + 1]) \in Seq(Range(LifeStages))
  BY <1>1, <1>2
<1>4. \A i \in 1 .. k + 1 : Append(Until(k), LifeStages[k + 1])[i] = Until(k + 1)[i]
  BY <1>1, <1>2, AppendProperties DEF Until
<1> QED
  BY <1>1, <1>2, <1>3, <1>4, AppendProperties, SeqEqual

LEMMA StagesInOrder ==
    /\ Append(Until(0), "Contructed") = Until(1)
    /\ Append(Append(Until(1), "PrequisitesSetup"), "Queued") = Until(3)
    /\ Append(Until(3), "Executing") = Until(4)
    /\ Append(Until(4), "Deconstucted") = Until(5)
<1>1. /\ Append(Until(0), LifeStages[1]) = Until(1) /\ Append(Until(1), LifeStages[2]) = Until(2)
      /\ Append(Until(2), LifeStages[3]) = Until(3) /\ Append(Until(3), LifeStages[4]) = Until(4)
      /\ Append(Until(4), LifeStages[5]) = Until(5)
  <2>1. /\ Append(Until(0), LifeStages[0 + 1]) = Until(0 + 1)
        /\ Append(Until(1), LifeStages[1 + 1]) = Until(1 + 1)
        /\ Append(Until(2), LifeStages[2 + 1]) = Until(2 + 1)
        /\ Append(Until(3), LifeStages[3 + 1]) = Until(3 + 1)
        /\ Append(Until(4), LifeStages[4 + 1]) = Until(4 + 1)
    BY NextStage
  <2> QED
    BY <2>1
<1> QED
  BY <1>1, LifeStagesTypes

(* Putting a task at the end of a queue.                                   *)
LEMMA AppendToQueue ==
    ASSUME NEW q \in Seq(Tasks), NEW t \in Tasks
    PROVE  /\ Append(q, t) \in Seq(Tasks)
           /\ \A u : In(Append(q, t), u) <=> In(q, u) \/ u = t
           /\ Once(q) /\ (t \in Held \/ ~In(q, t)) => Once(Append(q, t))
<1>1. /\ Append(q, t) \in Seq(Tasks) /\ Len(Append(q, t)) = Len(q) + 1 /\ Len(q) \in Nat
      /\ \A i \in 1 .. Len(q) : Append(q, t)[i] = q[i]
      /\ Append(q, t)[Len(q) + 1] = t
  BY AppendProperties
<1>2. ASSUME NEW u PROVE In(Append(q, t), u) <=> In(q, u) \/ u = t
  BY <1>1 DEF In
<1>3. ASSUME Once(q), t \in Held \/ ~In(q, t) PROVE Once(Append(q, t))
  BY <1>1, <1>3 DEF Once, In
<1> QED
  BY <1>1, <1>2, <1>3

(* Taking the first task of a queue.                                       *)
LEMMA TakeFromQueue ==
    ASSUME NEW q \in Seq(Tasks), q # <<>>
    PROVE  /\ Head(q) \in Tasks /\ In(q, Head(q))
           /\ Tail(q) \in Seq(Tasks)
           /\ \A u : In(q, u) <=> In(Tail(q), u) \/ u = Head(q)
           /\ Once(q) => Once(Tail(q))
           /\ Once(q) /\ Head(q) \notin Held => ~In(Tail(q), Head(q))
<1>1. /\ Head(q) \in Tasks /\ Tail(q) \in Seq(Tasks) /\ Len(q) \in Nat \ {0}
      /\ Head(q) = q[1] /\ Len(Tail(q)) = Len(q) - 1
      /\ \A i \in 1 .. Len(q) - 1 : Tail(q)[i] = q[i + 1]
  BY HeadTailProperties, EmptySeq, LenProperties
<1>2. ASSUME NEW u PROVE In(q, u) <=> In(Tail(q), u) \/ u = Head(q)
  <2>1. ASSUME NEW i \in 1 .. Len(q), q[i] = u, i # 1 PROVE In(Tail(q), u)
    <3>1. i - 1 \in 1 .. Len(Tail(q)) /\ Tail(q)[i - 1] = u
      BY <1>1, <2>1
    <3> QED
      BY <3>1 DEF In
  <2>2. ASSUME NEW i \in 1 .. Len(Tail(q)), Tail(q)[i] = u PROVE In(q, u)
    <3>1. i + 1 \in 1 .. Len(q) /\ q[i + 1] = u
      BY <1>1, <2>2
    <3> QED
      BY <3>1 DEF In
  <2> QED
    BY <1>1, <2>1, <2>2 DEF In
<1>3. ASSUME Once(q) PROVE Once(Tail(q))
  <2>1. SUFFICES ASSUME NEW i \in 1 .. Len(Tail(q)), NEW j \in 1 .. Len(Tail(q)),
                        Tail(q)[i] = Tail(q)[j], Tail(q)[i] \notin Held
                 PROVE  i = j
    BY DEF Once
  <2>2. /\ i + 1 \in 1 .. Len(q) /\ j + 1 \in 1 .. Len(q)
        /\ q[i + 1] = q[j + 1] /\ q[i + 1] \notin Held
    BY <1>1, <2>1
  <2>3. i + 1 = j + 1
    BY <1>3, <2>2 DEF Once
  <2> QED
    BY <2>1, <2>3
<1>4. ASSUME Once(q), Head(q) \notin Held PROVE ~In(Tail(q), Head(q))
  <2>1. SUFFICES ASSUME NEW i \in 1 .. Len(Tail(q)), Tail(q)[i] = Head(q) PROVE FALSE
    BY DEF In
  <2>2. i + 1 \in 1 .. Len(q) /\ 1 \in 1 .. Len(q) /\ q[i + 1] = q[1] /\ q[1] \notin Held
    BY <1>1, <1>4, <2>1
  <2>3. i + 1 = 1
    BY <1>4, <2>2 DEF Once
  <2> QED
    BY <2>1, <2>3, <1>1
<1> QED
  BY <1>1, <1>2, <1>3, <1>4

-----------------------------------------------------------------------------
(* Steps. *)

LEMMA Types ==
    ASSUME TypeOK
    PROVE  /\ ActualRenderingThread \in NamedThreads
           /\ queue[ActualRenderingThread] \in Seq(Tasks)
           /\ \A t \in Tasks : stages[t] \in Seq(Range(LifeStages))
           /\ Idle.task \notin Tasks /\ Idle.at = "pop"
           /\ running[ActualRenderingThread] \in
                  [task : Tasks, at : {"doTask", "delete"}] \cup {Idle}
  BY GraphTaskAssumption DEF TypeOK, Idle

LEMMA InitInv == Init => Inv
<1>1. SUFFICES ASSUME Init PROVE Inv
  OBVIOUS
<1>2. <<>> \in Seq(Range(LifeStages)) /\ <<>> \in Seq(Tasks) /\ Len(<<>>) = 0
  OBVIOUS
<1>3. TypeOK
  BY <1>1, <1>2 DEF Init, TypeOK, Counter!Zero
<1>4. OthersIdle /\ Locked
  BY <1>1 DEF Init, OthersIdle, Locked
<1>5. queue[ActualRenderingThread] = <<>> /\ running[ActualRenderingThread] = Idle
  BY <1>1, GraphTaskAssumption DEF Init
<1>6. Once(queue[ActualRenderingThread])
  BY <1>2, <1>5 DEF Once
<1>7. Until(0) = <<>>
  BY UntilTypes, EmptySeq
<1>8. ASSUME NEW t \in Tasks PROVE Fresh(t)
  BY <1>1, <1>2, <1>5, <1>7, GraphTaskAssumption DEF Init, Fresh, Waiting, In, Running, Idle
<1> QED
  BY <1>1, <1>3, <1>4, <1>6, <1>8 DEF Init, Inv, LifeInv, Alive

(* A task that a step does not touch goes on living.                       *)
LEMMA Untouched ==
    ASSUME NEW t \in Tasks, Alive(t),
           caller[t]' = caller[t], memory[t]' = memory[t], embedded[t]' = embedded[t],
           stages[t]' = stages[t], Waiting(t)' <=> Waiting(t), Running(t)' <=> Running(t),
           Running(t) => UNCHANGED running[ActualRenderingThread]
    PROVE  Alive(t)'
<1>1. Until(0)' = Until(0) /\ Until(1)' = Until(1) /\ Until(3)' = Until(3)
      /\ Until(4)' = Until(4) /\ Until(5)' = Until(5)
  BY DEF Until
<1> QED
  BY <1>1 DEF Alive, Fresh, Created, Constructed, Queued, Executing, Deleted

(* A stage is passed: only the history of t changes.                       *)
LEMMA PassedTypes ==
    ASSUME TypeOK, NEW t \in Tasks, NEW stage \in Range(LifeStages)
    PROVE  /\ Passed(t, stage) \in [Tasks -> Seq(Range(LifeStages))]
           /\ Passed(t, stage)[t] = Append(stages[t], stage)
           /\ \A u \in Tasks \ {t} : Passed(t, stage)[u] = stages[u]
<1>1. stages \in [Tasks -> Seq(Range(LifeStages))]
  BY DEF TypeOK
<1>2. Append(stages[t], stage) \in Seq(Range(LifeStages))
  BY <1>1
<1> QED
  BY <1>1, <1>2 DEF Passed

LEMMA StageNames ==
    \A stage \in {"Contructed", "PrequisitesSetup", "Queued", "Executing", "Deconstucted"} :
        stage \in Range(LifeStages)
  BY LifeStagesTypes DEF Range

LEMMA CreateTaskStep ==
    ASSUME Inv, NEW t \in Tasks, CreateTask(t)
    PROVE  Inv'
<1> USE DEF CreateTask
<1>0. outstanding' = [outstanding EXCEPT ![t] = 1] /\ stages' \in [Tasks -> Seq(Range(LifeStages))]
  BY PassedTypes, StageNames DEF Inv, InitialCount, Counter!Init
<1>1. TypeOK'
  BY <1>0 DEF Inv, TypeOK, Idle
<1>2. OthersIdle' /\ Once(queue[ActualRenderingThread])'
  BY DEF Inv, LifeInv, OthersIdle, Once
<1>4. Locked'
  <2>2. ASSUME NEW u \in Tasks, caller'[u] \notin {"start", "unlocked"}
        PROVE  outstanding'[u] = 1
    BY <1>0, <2>2 DEF Inv, LifeInv, Locked, TypeOK
  <2> QED
    BY <2>2 DEF Locked
<1>3. ASSUME NEW u \in Tasks \ Held PROVE Alive(u)'
  <2>1. CASE u = t
    <3>1. Fresh(u)
      BY <1>3, <2>1 DEF Inv, LifeInv, Alive, Created, Constructed, Queued, Executing, Deleted
    <3>2. stages'[u] = Until(1)
      BY <2>1, <3>1, PassedTypes, StageNames, StagesInOrder DEF Inv, Fresh
    <3>3. Created(u)'
      BY <2>1, <3>1, <3>2 DEF Inv, TypeOK, Fresh, Created, Waiting, Running, In, Until
    <3> QED
      BY <3>3 DEF Alive
  <2>2. CASE u # t
    BY <1>3, <2>2, Untouched, PassedTypes, StageNames DEF Inv, LifeInv, TypeOK, Waiting, Running, In
  <2> QED
    BY <2>1, <2>2
<1> QED
  BY <1>1, <1>2, <1>3, <1>4 DEF Inv, LifeInv

LEMMA ConstructTaskStep ==
    ASSUME Inv, NEW t \in Tasks, ConstructTask(t)
    PROVE  Inv'
<1> USE DEF ConstructTask
<1>1. TypeOK'
  BY DEF Inv, TypeOK
<1>2. OthersIdle' /\ Locked' /\ Once(queue[ActualRenderingThread])'
  BY DEF Inv, LifeInv, OthersIdle, Locked, TypeOK, Once
<1>3. ASSUME NEW u \in Tasks \ Held PROVE Alive(u)'
  <2>1. CASE u = t
    <3>1. Created(u)
      BY <1>3, <2>1 DEF Inv, LifeInv, Alive, Fresh, Constructed, Queued, Executing, Deleted
    <3>2. Constructed(u)'
      BY <2>1, <3>1 DEF Inv, TypeOK, Created, Constructed, Waiting, Running, In, Until
    <3> QED
      BY <3>2 DEF Alive
  <2>2. CASE u # t
    BY <1>3, <2>2, Untouched DEF Inv, LifeInv, TypeOK, Waiting, Running, In
  <2> QED
    BY <2>1, <2>2
<1> QED
  BY <1>1, <1>2, <1>3 DEF Inv, LifeInv

(* QueueTask puts the task into the queue of the rendering thread.         *)
LEMMA Queueing ==
    ASSUME TypeOK, NEW t \in Tasks, QueueTask(t)
    PROVE  /\ queue' \in [NamedThreads -> Seq(Tasks)]
           /\ \A th \in NamedThreads \ {ActualRenderingThread} : queue'[th] = queue[th]
           /\ \A u : Waiting(u)' <=> Waiting(u) \/ u = t
           /\ Once(queue[ActualRenderingThread]) /\ (t \in Held \/ ~Waiting(t))
                 => Once(queue[ActualRenderingThread])'
<1> DEFINE q == queue[ActualRenderingThread]
<1>1. q \in Seq(Tasks) /\ queue \in [NamedThreads -> Seq(Tasks)] /\ ActualRenderingThread \in NamedThreads
  BY Types DEF TypeOK
<1>2. queue' = [queue EXCEPT ![ActualRenderingThread] = Append(q, t)]
  BY DEF QueueTask
<1>3. /\ Append(q, t) \in Seq(Tasks)
      /\ \A u : In(Append(q, t), u) <=> In(q, u) \/ u = t
      /\ Once(q) /\ (t \in Held \/ ~In(q, t)) => Once(Append(q, t))
  BY <1>1, AppendToQueue
<1>4. queue'[ActualRenderingThread] = Append(q, t)
  BY <1>1, <1>2
<1>5. \A u : Waiting(u)' <=> In(Append(q, t), u)
  BY <1>4 DEF Waiting, In
<1>6. Once(queue[ActualRenderingThread])' <=> Once(Append(q, t))
  BY <1>4 DEF Once
<1> QED
  BY <1>1, <1>2, <1>3, <1>5, <1>6 DEF Waiting

LEMMA SetupPrereqsStep ==
    ASSUME Inv, NEW t \in Tasks, SetupPrereqs(t)
    PROVE  Inv'
<1> USE DEF SetupPrereqs, BaseQueueTask
<1>0. /\ stages' \in [Tasks -> Seq(Range(LifeStages))]
      /\ stages'[t] = Append(Append(stages[t], "PrequisitesSetup"), "Queued")
      /\ \A u \in Tasks \ {t} : stages'[u] = stages[u]
  <2>1. /\ Passed(t, "PrequisitesSetup") \in [Tasks -> Seq(Range(LifeStages))]
        /\ Passed(t, "PrequisitesSetup")[t] = Append(stages[t], "PrequisitesSetup")
        /\ \A u \in Tasks \ {t} : Passed(t, "PrequisitesSetup")[u] = stages[u]
    BY PassedTypes, StageNames DEF Inv
  <2>2. Append(Passed(t, "PrequisitesSetup")[t], "Queued") \in Seq(Range(LifeStages))
    BY <2>1, StageNames, AppendProperties
  <2> QED
    BY <2>1, <2>2
<1>1. TypeOK'
  BY <1>0, Queueing DEF Inv, TypeOK
<1>2. OthersIdle' /\ Locked'
  BY Queueing DEF Inv, LifeInv, OthersIdle, Locked, TypeOK
<1>3. t \in Held \/ Constructed(t)
  BY DEF Inv, LifeInv, Alive, Fresh, Created, Queued, Executing, Deleted
<1>4. Once(queue[ActualRenderingThread])'
  BY <1>3, Queueing DEF Inv, LifeInv, Constructed
<1>5. ASSUME NEW u \in Tasks \ Held PROVE Alive(u)'
  <2>1. CASE u = t
    <3>1. Constructed(u)
      BY <1>3, <1>5, <2>1
    <3>2. stages'[u] = Until(3)
      BY <1>0, <2>1, <3>1, StagesInOrder DEF Constructed
    <3>3. Waiting(u)'
      BY <2>1, Queueing DEF Inv
    <3>4. Queued(u)'
      BY <2>1, <3>1, <3>2, <3>3 DEF Inv, TypeOK, Constructed, Queued, Running, Until
    <3> QED
      BY <3>4 DEF Alive
  <2>2. CASE u # t
    <3>1. Waiting(u)' <=> Waiting(u)
      BY <2>2, Queueing DEF Inv
    <3> QED
      BY <1>0, <1>5, <2>2, <3>1, Untouched DEF Inv, LifeInv, TypeOK, Running
  <2> QED
    BY <2>1, <2>2
<1> QED
  BY <1>1, <1>2, <1>4, <1>5 DEF Inv, LifeInv

LEMMA ReturnFromSetupStep ==
    ASSUME Inv, NEW t \in Tasks, ReturnFromSetup(t)
    PROVE  Inv'
<1> USE DEF ReturnFromSetup
<1>1. TypeOK'
  BY DEF Inv, TypeOK
<1>2. OthersIdle' /\ Locked' /\ Once(queue[ActualRenderingThread])'
  BY DEF Inv, LifeInv, OthersIdle, Locked, TypeOK, Once
<1>3. ASSUME NEW u \in Tasks \ Held PROVE Alive(u)'
  <2>1. CASE u = t
    <3>1. Queued(u) \/ Executing(u) \/ Deleted(u)
      BY <1>3, <2>1 DEF Inv, LifeInv, Alive, Fresh, Created, Constructed
    <3>2. Queued(u)' \/ Executing(u)' \/ Deleted(u)'
      BY <2>1, <3>1 DEF Inv, TypeOK, Queued, Executing, Deleted, Waiting, Running, In, Until
    <3> QED
      BY <3>2 DEF Alive
  <2>2. CASE u # t
    BY <1>3, <2>2, Untouched DEF Inv, LifeInv, TypeOK, Waiting, Running, In
  <2> QED
    BY <2>1, <2>2
<1> QED
  BY <1>1, <1>2, <1>3 DEF Inv, LifeInv

(* A held task disturbs nobody but itself.                                 *)
LEMMA UnlockStep ==
    ASSUME Inv, NEW t \in Tasks, Unlock(t)
    PROVE  Inv'
<1> USE DEF Unlock
<1>1. CASE memory[t] = "freed"
  <2>1. TypeOK'
    BY <1>1 DEF Inv, TypeOK
  <2>2. OthersIdle' /\ Locked' /\ Once(queue[ActualRenderingThread])' /\ undefined' \subseteq Held
    BY <1>1 DEF Inv, LifeInv, OthersIdle, Locked, TypeOK, Once
  <2>3. ASSUME NEW u \in Tasks \ Held PROVE Alive(u)'
    BY <1>1, <2>3, Untouched DEF Inv, LifeInv, TypeOK, Waiting, Running, In
  <2> QED
    BY <2>1, <2>2, <2>3 DEF Inv, LifeInv
<1>2. CASE memory[t] # "freed"
  <2>1. outstanding[t] = 1
    BY DEF Inv, LifeInv, Locked
  <2>2. Counter!Decrement(outstanding[t]).returned = 0 /\ Counter!Decrement(outstanding[t]).Counter = 0
    BY <2>1 DEF Counter!Decrement, Counter!Op
  <2>3. /\ caller' = [caller EXCEPT ![t] = "unlocked"]
        /\ outstanding' = [outstanding EXCEPT ![t] = 0]
        /\ BaseQueueTask(t, stages)
        /\ UNCHANGED <<memory, embedded, running, undefined>>
    BY <1>2, <2>2
  <2>4. /\ stages' \in [Tasks -> Seq(Range(LifeStages))]
        /\ \A u \in Tasks \ {t} : stages'[u] = stages[u]
    <3>1. stages' = Passed(t, "Queued")
      BY <2>3 DEF BaseQueueTask, Passed
    <3> QED
      BY <3>1, PassedTypes, StageNames DEF Inv
  <2>5. QueueTask(t)
    BY <2>3 DEF BaseQueueTask
  <2>6. TypeOK'
    BY <2>3, <2>4, <2>5, Queueing DEF Inv, TypeOK
  <2>7. OthersIdle' /\ Locked' /\ Once(queue[ActualRenderingThread])'
    BY <2>3, <2>5, Queueing DEF Inv, LifeInv, OthersIdle, Locked, TypeOK
  <2>8. ASSUME NEW u \in Tasks \ Held PROVE Alive(u)'
    <3>1. u # t /\ (Waiting(u)' <=> Waiting(u))
      BY <2>5, <2>8, Queueing DEF Inv
    <3> QED
      BY <2>3, <2>4, <2>8, <3>1, Untouched DEF Inv, LifeInv, TypeOK, Running
  <2> QED
    BY <2>3, <2>6, <2>7, <2>8 DEF Inv, LifeInv
<1> QED
  BY <1>1, <1>2

LEMMA ExecuteStep ==
    ASSUME Inv, NEW th \in NamedThreads, Execute(th)
    PROVE  Inv'
<1> USE DEF Execute
<1> DEFINE t == Head(queue[th])
<1>1. th = ActualRenderingThread
  BY DEF Inv, LifeInv, OthersIdle
<1>2. queue[th] \in Seq(Tasks) /\ queue[th] # <<>> /\ running[th] = Idle
  BY <1>1, Types DEF Inv
<1>3. /\ t \in Tasks /\ Waiting(t)
      /\ Tail(queue[th]) \in Seq(Tasks)
      /\ \A u : In(queue[th], u) <=> In(Tail(queue[th]), u) \/ u = t
      /\ Once(queue[th]) => Once(Tail(queue[th]))
      /\ Once(queue[th]) /\ t \notin Held => ~In(Tail(queue[th]), t)
  BY <1>1, <1>2, TakeFromQueue DEF Waiting
<1>4. queue' \in [NamedThreads -> Seq(Tasks)] /\ queue'[th] = Tail(queue[th])
      /\ \A other \in NamedThreads \ {th} : queue'[other] = queue[other]
  BY <1>3 DEF Inv, TypeOK
<1>5. Once(queue[ActualRenderingThread])'
  <2>1. Once(queue[ActualRenderingThread])' <=> Once(Tail(queue[th]))
    BY <1>1, <1>4 DEF Once
  <2> QED
    BY <1>1, <1>3, <2>1 DEF Inv, LifeInv
<1>6. \A u : Waiting(u)' <=> In(Tail(queue[th]), u)
  BY <1>1, <1>4 DEF Waiting, In
<1>7. \A u \in Tasks : ~Running(u)
  BY <1>1, <1>2, Types DEF Running, Inv
<1>8. ASSUME NEW u \in Tasks \ Held, u # t PROVE Waiting(u)' <=> Waiting(u)
  BY <1>1, <1>3, <1>6, <1>8 DEF Waiting
<1>9. t \in Held \/ Queued(t)
  BY <1>3 DEF Inv, LifeInv, Alive, Fresh, Created, Constructed, Executing, Deleted
<1> HIDE DEF t
<1>10. CASE memory[t] = "freed"
  <2>1. undefined' = undefined \cup {t} /\ UNCHANGED <<running, stages, caller, memory, embedded, outstanding>>
    BY <1>10 DEF t
  <2>2. t \in Held
    BY <1>9, <1>10 DEF Queued
  <2>3. TypeOK'
    BY <1>3, <1>4, <2>1 DEF Inv, TypeOK
  <2>4. OthersIdle' /\ Locked' /\ undefined' \subseteq Held
    BY <1>1, <1>4, <2>1, <2>2 DEF Inv, LifeInv, OthersIdle, Locked
  <2>5. ASSUME NEW u \in Tasks \ Held PROVE Alive(u)'
    BY <1>7, <1>8, <2>1, <2>2, <2>5, Untouched DEF Inv, LifeInv, Running
  <2> QED
    BY <1>5, <2>3, <2>4, <2>5 DEF Inv, LifeInv
<1>11. CASE memory[t] # "freed"
  <2>1. /\ running' = [running EXCEPT ![th] = [task |-> t, at |-> "doTask"]]
        /\ stages' = Passed(t, "Executing")
        /\ UNCHANGED <<undefined, caller, memory, embedded, outstanding>>
    BY <1>11 DEF t
  <2>2. /\ stages' \in [Tasks -> Seq(Range(LifeStages))]
        /\ stages'[t] = Append(stages[t], "Executing")
        /\ \A u \in Tasks \ {t} : stages'[u] = stages[u]
    BY <1>3, <2>1, PassedTypes, StageNames DEF Inv
  <2>3. TypeOK'
    BY <1>3, <1>4, <2>1, <2>2 DEF Inv, TypeOK
  <2>4. running'[ActualRenderingThread] = [task |-> t, at |-> "doTask"]
    BY <1>1, <2>1 DEF Inv, TypeOK
  <2>5. OthersIdle' /\ Locked'
    BY <1>1, <1>4, <2>1 DEF Inv, LifeInv, OthersIdle, Locked, TypeOK
  <2>6. ASSUME NEW u \in Tasks \ Held PROVE Alive(u)'
    <3>1. CASE u = t
      <4>1. Queued(u)
        BY <1>9, <2>6, <3>1
      <4>2. stages'[u] = Until(4)
        BY <2>2, <3>1, <4>1, StagesInOrder DEF Queued
      <4>3. ~Waiting(u)'
        BY <1>1, <1>3, <1>6, <2>6, <3>1 DEF Inv, LifeInv
      <4>4. Executing(u)'
        BY <2>1, <2>4, <3>1, <4>1, <4>2, <4>3 DEF Queued, Executing, Running, Until
      <4> QED
        BY <4>4 DEF Alive
    <3>2. CASE u # t
      <4>1. ~Running(u) /\ ~Running(u)'
        BY <1>7, <2>4, <3>2 DEF Running
      <4> QED
        BY <1>8, <2>1, <2>2, <2>6, <3>2, <4>1, Untouched DEF Inv, LifeInv
    <3> QED
      BY <3>1, <3>2
  <2> QED
    BY <1>5, <2>1, <2>3, <2>5, <2>6 DEF Inv, LifeInv
<1> QED
  BY <1>10, <1>11

LEMMA DoTaskStep ==
    ASSUME Inv, NEW th \in NamedThreads, DoTask(th)
    PROVE  Inv'
<1> USE DEF DoTask
<1> DEFINE t == running[th].task
<1>1. th = ActualRenderingThread /\ running[th] \in [task : Tasks, at : {"doTask", "delete"}]
  BY Types DEF Inv, LifeInv, OthersIdle
<1>2. t \in Tasks /\ Running(t) /\ \A u : Running(u) <=> u = t
  BY <1>1 DEF Running
<1>3. running'[th] = [task |-> t, at |-> "delete"] /\ [task |-> t, at |-> "delete"] \in [task : Tasks, at : {"doTask", "delete"}]
  BY <1>1 DEF Inv, TypeOK
<1>4. \A u : Running(u)' <=> u = t
  BY <1>1, <1>3 DEF Running
<1>5. embedded' = [embedded EXCEPT ![t] = "destroyed"] /\ running' = [running EXCEPT ![th] = [task |-> t, at |-> "delete"]]
  BY <1>1, <1>3 DEF Inv, TypeOK
<1> HIDE DEF t
<1>6. TypeOK'
  <2>1. running' \in [NamedThreads -> [task : Tasks, at : {"doTask", "delete"}] \cup {Idle}]
    BY <1>3, <1>5 DEF Inv, TypeOK
  <2>2. embedded' \in [Tasks -> {"raw", "built", "destroyed"}]
    BY <1>2, <1>5 DEF Inv, TypeOK
  <2> QED
    BY <2>1, <2>2 DEF Inv, TypeOK
<1>7. OthersIdle' /\ Locked' /\ Once(queue[ActualRenderingThread])'
  BY <1>1, <1>5 DEF Inv, LifeInv, OthersIdle, Locked, TypeOK, Once
<1>8. ASSUME NEW u \in Tasks \ Held PROVE Alive(u)'
  <2>1. CASE u = t
    <3>1. Executing(u)
      BY <1>2, <1>8, <2>1 DEF Inv, LifeInv, Alive, Fresh, Created, Constructed, Queued, Deleted
    <3>2. Executing(u)'
      BY <1>1, <1>3, <1>4, <2>1, <3>1 DEF Executing, Waiting, In, Until
    <3> QED
      BY <3>2 DEF Alive
  <2>2. CASE u # t
    BY <1>2, <1>4, <1>5, <1>8, <2>2, Untouched DEF Inv, LifeInv, TypeOK, Waiting, In
  <2> QED
    BY <2>1, <2>2
<1> QED
  BY <1>6, <1>7, <1>8 DEF Inv, LifeInv

LEMMA DeleteTaskStep ==
    ASSUME Inv, NEW th \in NamedThreads, DeleteTask(th)
    PROVE  Inv'
<1> USE DEF DeleteTask
<1> DEFINE t == running[th].task
<1>1. th = ActualRenderingThread /\ running[th] \in [task : Tasks, at : {"doTask", "delete"}]
  BY Types DEF Inv, LifeInv, OthersIdle
<1>2. t \in Tasks /\ Running(t) /\ \A u : Running(u) <=> u = t
  BY <1>1 DEF Running
<1>3. running'[th] = Idle
  BY DEF Inv, TypeOK
<1>4. \A u \in Tasks : ~Running(u)'
  BY <1>1, <1>3, Types DEF Running, Inv
<1>5. /\ memory' = [memory EXCEPT ![t] = "freed"]
      /\ stages' \in [Tasks -> Seq(Range(LifeStages))]
      /\ stages'[t] = Append(stages[t], "Deconstucted")
      /\ \A u \in Tasks \ {t} : stages'[u] = stages[u]
  BY <1>2, PassedTypes, StageNames DEF Inv
<1> HIDE DEF t
<1>6. TypeOK'
  BY <1>2, <1>5 DEF Inv, TypeOK
<1>7. OthersIdle' /\ Locked' /\ Once(queue[ActualRenderingThread])'
  BY <1>1 DEF Inv, LifeInv, OthersIdle, Locked, TypeOK, Once
<1>8. ASSUME NEW u \in Tasks \ Held PROVE Alive(u)'
  <2>1. CASE u = t
    <3>1. Executing(u)
      BY <1>2, <1>8, <2>1 DEF Inv, LifeInv, Alive, Fresh, Created, Constructed, Queued, Deleted
    <3>2. stages'[u] = Until(5)
      BY <1>5, <2>1, <3>1, StagesInOrder DEF Executing
    <3>3. Deleted(u)'
      BY <1>4, <1>5, <2>1, <3>1, <3>2 DEF Inv, TypeOK, Executing, Deleted, Waiting, In, Until
    <3> QED
      BY <3>3 DEF Alive
  <2>2. CASE u # t
    BY <1>2, <1>4, <1>5, <1>8, <2>2, Untouched DEF Inv, LifeInv, TypeOK, Waiting, In
  <2> QED
    BY <2>1, <2>2
<1> QED
  BY <1>6, <1>7, <1>8 DEF Inv, LifeInv

LEMMA StutterStep ==
    ASSUME Inv, UNCHANGED vars
    PROVE  Inv'
  BY DEF Inv, LifeInv, TypeOK, OthersIdle, Locked, Once, Alive, Fresh, Created,
         Constructed, Queued, Executing, Deleted, Waiting, Running, In, Until, vars

LEMMA NextInv == Inv /\ [Next]_vars => Inv'
<1>1. SUFFICES ASSUME Inv, [Next]_vars PROVE Inv'
  OBVIOUS
<1>2. ASSUME NEW t \in Tasks, CallerStep(t) PROVE Inv'
  BY <1>1, <1>2, CreateTaskStep, ConstructTaskStep, SetupPrereqsStep, ReturnFromSetupStep, UnlockStep
     DEF CallerStep
<1>3. ASSUME NEW th \in NamedThreads, ThreadStep(th) PROVE Inv'
  BY <1>1, <1>3, ExecuteStep, DoTaskStep, DeleteTaskStep DEF ThreadStep
<1> QED
  BY <1>1, <1>2, <1>3, StutterStep DEF Next

-----------------------------------------------------------------------------
(* Theorems. *)

(* The invariant holds for any number of tasks and threads.                *)
THEOREM LifeInvariant == Spec => []Inv
  BY InitInv, NextInv, PTL DEF Spec

(* Every variable keeps its type; no lock count leaves {0, 1}.             *)
THEOREM GraphTaskTypeCorrect == Spec => []TypeOK
<1>1. Inv => TypeOK
  BY DEF Inv
<1> QED
  BY <1>1, LifeInvariant, PTL

(* A dispatched task passes its life stages in their order, each once,     *)
(* whatever happens to held tasks (TaskGraphInterfaces.h asserts it).      *)
THEOREM LifeInOrder == Spec => []DispatchedInOrder
<1>1. ASSUME Inv, NEW t \in Tasks \ Held PROVE LifeStagesInOrder(t)
  <2>1. \E k \in 0 .. 5 : stages[t] = Until(k)
    BY <1>1 DEF Inv, LifeInv, Alive, Fresh, Created, Constructed, Queued, Executing, Deleted
  <2> QED
    BY <2>1, UntilTypes DEF LifeStagesInOrder
<1>2. Inv => DispatchedInOrder
  BY <1>1 DEF DispatchedInOrder
<1> QED
  BY <1>2, LifeInvariant, PTL

(* A dispatched task is built when it is queued and when it is executed.   *)
THEOREM OnlyBuiltTasksExecute == Spec => []ExecutesBuiltTask
<1>1. ASSUME Inv, NEW th \in NamedThreads, running[th].at = "doTask", running[th].task \notin Held
      PROVE  embedded[running[th].task] = "built"
  <2>1. th = ActualRenderingThread /\ running[th].task \in Tasks /\ Running(running[th].task)
    BY <1>1, Types DEF Inv, LifeInv, OthersIdle, Running
  <2>2. Executing(running[th].task)
    BY <1>1, <2>1 DEF Inv, LifeInv, Alive, Fresh, Created, Constructed, Queued, Deleted
  <2> QED
    BY <1>1, <2>1, <2>2 DEF Executing
<1>2. ASSUME Inv, NEW th \in NamedThreads, NEW t \in Range(queue[th]) \ Held
      PROVE  embedded[t] = "built"
  <2>1. queue[th] \in Seq(Tasks) /\ \E i \in 1 .. Len(queue[th]) : queue[th][i] = t
    BY <1>2, LenProperties DEF Range, Inv, TypeOK
  <2>2. t \in Tasks
    BY <2>1, ElementOfSeq
  <2>3. th = ActualRenderingThread
    BY <1>2, <2>1 DEF Inv, LifeInv, OthersIdle
  <2>4. Waiting(t)
    BY <2>1, <2>3 DEF Waiting, In
  <2>5. Queued(t)
    BY <1>2, <2>2, <2>4 DEF Inv, LifeInv, Alive, Fresh, Created, Constructed, Executing, Deleted
  <2> QED
    BY <2>5 DEF Queued
<1>3. Inv => ExecutesBuiltTask
  BY <1>1, <1>2 DEF ExecutesBuiltTask
<1> QED
  BY <1>3, LifeInvariant, PTL

(* Neither the creator in Setup nor the rendering thread uses a dispatched *)
(* task after "delete this".                                               *)
THEOREM NoDispatchedUseAfterDelete == Spec => []NoUseAfterDelete
<1>1. Inv => NoUseAfterDelete
  BY DEF Inv, LifeInv, NoUseAfterDelete
<1> QED
  BY <1>1, LifeInvariant, PTL
=============================================================================
