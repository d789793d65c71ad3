----------------------- MODULE StallingTaskQueueProofs -----------------------
(***************************************************************************)
(* Machine-checked proofs about StallingTaskQueue, for every set of        *)
(* pushers, every set of servicing threads, any number of priorities and   *)
(* tasks, and every width of the counter.                                  *)
(***************************************************************************)
EXTENDS StallingTaskQueue, SequenceTheorems, WellFoundedInduction, TLAPS

-----------------------------------------------------------------------------
(* Operators of the model. *)

\* AdvanceCounterAndState yields a counter again, wrap included.
LEMMA AdvanceCounterType ==
    ASSUME NEW Ptrs, NEW word \in IndexedPointers(Ptrs)
    PROVE  AdvanceCounter(word) \in Counter
BY TagBitsAssumption DEF AdvanceCounter, Counter, IndexedPointers

\* FindThreadToWake returns a bit that is on, and -1 only when none is.
LEMMA FindThreadToWakeFindsABit ==
    ASSUME NEW bits \in SUBSET Threads
    PROVE  IF bits = {} THEN FindThreadToWake(bits) = -1
                        ELSE FindThreadToWake(bits) \in bits
<1>1. CASE bits = {}
  BY <1>1 DEF FindThreadToWake
<1>2. CASE bits # {}
  <2>1. bits \subseteq Nat
    BY QueueAssumption
  <2>2. PICK t \in bits : \A u \in bits : ~ (<<u, t>> \in OpToRel(<, Nat))
    BY <1>2, <2>1, NatLessThanWellFounded, WFMin
  <2>3. \A u \in bits : t <= u
    <3>1. SUFFICES ASSUME NEW u \in bits PROVE ~ (u < t)
      BY <2>1
    <3>2. <<u, t>> \in Nat \X Nat
      BY <2>1
    <3>3. QED
      BY <2>2, <3>2 DEF OpToRel
  <2>4. QED
    BY <1>2, <2>3 DEF FindThreadToWake
<1>3. QED
  BY <1>1, <1>2

\* The three states that a compare-and-swap may install are master states.
LEMMA InstalledStates ==
    ASSUME NEW from \in IndexedPointers(SUBSET Threads), NEW t \in Threads
    PROVE  /\ PushedState(from) \in IndexedPointers(SUBSET Threads)
           /\ PoppedState(from) \in IndexedPointers(SUBSET Threads)
           /\ StalledState(from, t) \in IndexedPointers(SUBSET Threads)
<1>1. AdvanceCounter(from) \in Counter
  BY AdvanceCounterType
<1>2. from.ptr \in SUBSET Threads
  BY DEF IndexedPointers
<1>3. QED
  BY <1>1, <1>2 DEF PushedState, PoppedState, StalledState, SetAll, TurnOffBit,
                    TurnOnBit, IndexedPointers

-----------------------------------------------------------------------------
(* Type correctness. *)

LEMMA ProcsPartition ==
    /\ Pushers \subseteq Procs /\ Threads \subseteq Procs
    /\ \A p \in Pushers : p \notin Threads
BY QueueAssumption DEF Procs

\* The steps that read or change MasterState keep the types of the variables
\* they share.
LEMMA MasterStateTypes ==
    ASSUME WordTypeOK, NEW x \in Procs, NEW new \in IndexedPointers(SUBSET Threads),
           \/ ReadMasterState(x) \/ CasSucceeds(x, new) \/ CasFails(x)
    PROVE  WordTypeOK'
<1>0. 0 \in 0 .. MAX_TagBitsValue - 1
  BY TagBitsAssumption
<1>1. CASE ReadMasterState(x)
  BY <1>0, <1>1 DEF ReadMasterState, WordTypeOK
<1>2. CASE CasSucceeds(x, new)
  <2>1. \A y \in Procs : lag[y] \in Nat /\ (y # x /\ Holding(y) => lag[y] + 1 < MAX_TagBitsValue)
    BY <1>2, TagBitsAssumption DEF CasSucceeds, NobodyStarves, WordTypeOK
  <2>2. lag' \in [Procs -> 0 .. MAX_TagBitsValue - 1]
    <3>1. \A y \in Procs : (IF y # x /\ Holding(y) THEN lag[y] + 1 ELSE 0) \in 0 .. MAX_TagBitsValue - 1
      BY <2>1, TagBitsAssumption
    <3>2. QED
      BY <1>2, <3>1 DEF CasSucceeds
  <2>3. QED
    BY <1>2, <2>2 DEF CasSucceeds, WordTypeOK
<1>3. CASE CasFails(x)
  BY <1>0, <1>3 DEF CasFails, WordTypeOK
<1>4. QED
  BY <1>1, <1>2, <1>3

LEMMA InitTypeOK == Init => TypeOK
<1>1. SUFFICES ASSUME Init PROVE TypeOK
  OBVIOUS
<1>2. SetAll({}, 0) \in IndexedPointers(SUBSET Threads) /\ 0 \in 0 .. MAX_TagBitsValue - 1
  BY TagBitsAssumption DEF SetAll, IndexedPointers, Counter
<1>3. WordTypeOK
  BY <1>1, <1>2 DEF Init, WordTypeOK
<1>4. ControlTypeOK
  BY <1>1, ProcsPartition, QueueAssumption DEF Init, ControlTypeOK, PushPoints, PopPoints
<1>5. TaskTypeOK
  BY <1>1, QueueAssumption DEF Init, TaskTypeOK
<1>6. WakeTypeOK
  BY <1>1 DEF Init, WakeTypeOK
<1>7. QED
  BY <1>3, <1>4, <1>5, <1>6 DEF TypeOK

LEMMA PusherTypeOK ==
    ASSUME TypeOK, TaskInHand, NEW p \in Pushers,
           \/ \E pri \in UsedPriorities : PushRead(p, pri)
           \/ PushStep(p)
    PROVE  TypeOK'
<1> USE ProcsPartition
<1>1. WordTypeOK'
  <2>1. localState[p] \in IndexedPointers(SUBSET Threads)
    BY DEF TypeOK, WordTypeOK
  <2>2. PushedState(localState[p]) \in IndexedPointers(SUBSET Threads)
    BY <2>1, InstalledStates, QueueAssumption
  <2>3. CASE UNCHANGED <<masterState, localState, lag>>
    BY <2>3 DEF TypeOK, WordTypeOK
  <2>4. CASE \/ ReadMasterState(p) \/ CasSucceeds(p, PushedState(localState[p])) \/ CasFails(p)
    BY <2>2, <2>4, MasterStateTypes DEF TypeOK
  <2>5. QED
    BY <2>3, <2>4 DEF PushRead, PushStep, PushEnqueue, PushCas, PushReread, Trigger
<1>2. ControlTypeOK'
  <2>1. \E label \in PushPoints : pc' = [pc EXCEPT ![p] = label]
    BY DEF PushRead, PushStep, PushEnqueue, PushCas, PushReread, Trigger, Goto, PushPoints
  <2>2. index' = index
    BY DEF PushRead, PushStep, PushEnqueue, PushCas, PushReread, Trigger
  <2>3. QED
    BY <2>1, <2>2 DEF TypeOK, ControlTypeOK
<1>3. TaskTypeOK'
  <2>1. ASSUME NEW pri \in UsedPriorities, PushRead(p, pri) PROVE TaskTypeOK'
    <3>1. [by |-> p, num |-> pushed[p] + 1, pri |-> pri] \in Task
      BY <2>1, QueueAssumption DEF PushRead, TypeOK, TaskTypeOK, Task, Priorities
    <3>2. pushed' \in [Pushers -> 0 .. MaxPushes]
      BY <2>1, QueueAssumption DEF PushRead, TypeOK, TaskTypeOK
    <3>3. QED
      BY <2>1, <3>1, <3>2 DEF PushRead, TypeOK, TaskTypeOK
  <2>2. CASE PushEnqueue(p)
    <3>1. item[p] \in Task /\ item[p].pri \in Priorities
      BY <2>2 DEF PushEnqueue, TaskInHand, Task
    <3>2. Append(priorityQueues[item[p].pri], item[p]) \in Seq(Task)
      BY <3>1, AppendProperties DEF TypeOK, TaskTypeOK
    <3>3. QED
      BY <2>2, <3>1, <3>2 DEF PushEnqueue, TypeOK, TaskTypeOK
  <2>3. CASE PushCas(p) \/ PushReread(p) \/ Trigger(p)
    BY <2>3 DEF PushCas, PushReread, Trigger, TypeOK, TaskTypeOK
  <2>4. QED
    BY <2>1, <2>2, <2>3 DEF PushStep
<1>4. WakeTypeOK'
  <2>1. FindThreadToWake(localState[p].ptr) \in Threads \cup {-1}
    BY FindThreadToWakeFindsABit DEF TypeOK, WordTypeOK, IndexedPointers
  <2>2. CASE PushCas(p)
    BY <2>1, <2>2 DEF PushCas, TypeOK, WakeTypeOK
  <2>3. CASE Trigger(p)
    BY <2>3 DEF Trigger, TypeOK, WakeTypeOK
  <2>4. CASE PushEnqueue(p) \/ PushReread(p) \/ \E pri \in UsedPriorities : PushRead(p, pri)
    BY <2>4 DEF PushRead, PushEnqueue, PushReread, TypeOK, WakeTypeOK
  <2>5. QED
    BY <2>2, <2>3, <2>4 DEF PushStep
<1>5. QED
  BY <1>1, <1>2, <1>3, <1>4 DEF TypeOK

LEMMA ThreadTypeOK ==
    ASSUME TypeOK, TaskInHand, NEW t \in Threads, ThreadStep(t)
    PROVE  TypeOK'
<1> USE ProcsPartition
<1>1. WordTypeOK'
  <2>1. /\ PoppedState(localState[t]) \in IndexedPointers(SUBSET Threads)
        /\ StalledState(localState[t], t) \in IndexedPointers(SUBSET Threads)
    BY InstalledStates DEF TypeOK, WordTypeOK
  <2>2. CASE UNCHANGED <<masterState, localState, lag>>
    BY <2>2 DEF TypeOK, WordTypeOK
  <2>3. CASE \/ ReadMasterState(t) \/ CasFails(t)
             \/ CasSucceeds(t, PoppedState(localState[t]))
             \/ CasSucceeds(t, StalledState(localState[t], t))
    BY <2>1, <2>3, MasterStateTypes DEF TypeOK
  <2>4. QED
    BY <2>2, <2>3 DEF ThreadStep, PopRead, PopScan, PopCas, PopReread, PopStall, Wait, Execute
<1>2. ControlTypeOK'
  <2>1. (\E label \in PopPoints : pc' = [pc EXCEPT ![t] = label]) \/ pc' = pc
    BY DEF ThreadStep, PopRead, PopScan, PopCas, PopReread, PopStall, Wait, Execute, Goto,
           PopPoints
  <2>2. index' \in [Threads -> 0 .. NumPriorities]
    <3>1. CASE PopScan(t)
      <4>1. index[t] + 1 \in 0 .. NumPriorities
        BY <3>1, QueueAssumption DEF PopScan, TypeOK, ControlTypeOK
      <4>2. QED
        BY <3>1, <4>1 DEF PopScan, TypeOK, ControlTypeOK
    <3>2. CASE PopRead(t)
      BY <3>2, QueueAssumption DEF PopRead, TypeOK, ControlTypeOK
    <3>3. CASE PopCas(t) \/ PopReread(t) \/ PopStall(t) \/ Wait(t) \/ Execute(t)
      BY <3>3 DEF PopCas, PopReread, PopStall, Wait, Execute, TypeOK, ControlTypeOK
    <3>4. QED
      BY <3>1, <3>2, <3>3 DEF ThreadStep
  <2>3. QED
    BY <2>1, <2>2 DEF TypeOK, ControlTypeOK
<1>3. TaskTypeOK'
  <2>1. CASE PopScan(t)
    <3>1. index[t] \in Priorities
      BY <2>1, QueueAssumption DEF PopScan, TypeOK, ControlTypeOK, Priorities
    <3>2. CASE priorityQueues[index[t]] # <<>>
      <4>1. /\ Head(priorityQueues[index[t]]) \in Task
            /\ Tail(priorityQueues[index[t]]) \in Seq(Task)
        BY <3>1, <3>2, HeadTailProperties DEF TypeOK, TaskTypeOK
      <4>2. QED
        BY <2>1, <3>1, <3>2, <4>1 DEF PopScan, TypeOK, TaskTypeOK
    <3>3. CASE priorityQueues[index[t]] = <<>>
      BY <2>1, <3>3 DEF PopScan, TypeOK, TaskTypeOK
    <3>4. QED
      BY <3>2, <3>3
  <2>2. CASE Execute(t)
    <3>1. item[t] \in Task
      BY <2>2 DEF Execute, TaskInHand
    <3>2. QED
      BY <2>2, <3>1 DEF Execute, TypeOK, TaskTypeOK
  <2>3. CASE PopRead(t) \/ PopCas(t) \/ PopReread(t) \/ PopStall(t) \/ Wait(t)
    BY <2>3 DEF PopRead, PopCas, PopReread, PopStall, Wait, TypeOK, TaskTypeOK
  <2>4. QED
    BY <2>1, <2>2, <2>3 DEF ThreadStep
<1>4. WakeTypeOK'
  BY DEF ThreadStep, PopRead, PopScan, PopCas, PopReread, PopStall, Wait, Execute,
         TypeOK, WakeTypeOK
<1>5. QED
  BY <1>1, <1>2, <1>3, <1>4 DEF TypeOK

LEMMA TaskInHandStep ==
    ASSUME TypeOK, TaskInHand, [Next]_vars
    PROVE  TaskInHand'
<1> USE ProcsPartition DEF Goto
<1>1. ASSUME NEW p \in Pushers, NEW pri \in UsedPriorities, PushRead(p, pri)
      PROVE  TaskInHand'
  <2>1. [by |-> p, num |-> pushed[p] + 1, pri |-> pri] \in Task
    BY <1>1, QueueAssumption DEF PushRead, TypeOK, TaskTypeOK, Task, Priorities
  <2>2. QED
    BY <1>1, <2>1 DEF PushRead, TaskInHand, TypeOK, ControlTypeOK, TaskTypeOK
<1>2. ASSUME NEW p \in Pushers, PushStep(p) PROVE TaskInHand'
  BY <1>2 DEF PushStep, PushEnqueue, PushCas, PushReread, Trigger, TaskInHand, TypeOK, ControlTypeOK
<1>3. ASSUME NEW t \in Threads, PopScan(t) PROVE TaskInHand'
  <2>1. index[t] \in Priorities
    BY <1>3, QueueAssumption DEF PopScan, TypeOK, ControlTypeOK, Priorities
  <2>2. priorityQueues[index[t]] # <<>> => Head(priorityQueues[index[t]]) \in Task
    BY <2>1, HeadTailProperties DEF TypeOK, TaskTypeOK
  <2>3. CASE priorityQueues[index[t]] # <<>>
    <3>1. /\ item' = [item EXCEPT ![t] = Head(priorityQueues[index[t]])]
          /\ pc' = [pc EXCEPT ![t] = "popCas"]
          /\ pushed' = pushed
      BY <1>3, <2>3 DEF PopScan
    <3>2. QED
      BY <2>2, <2>3, <3>1 DEF TaskInHand, TypeOK, ControlTypeOK, TaskTypeOK
  <2>4. CASE priorityQueues[index[t]] = <<>>
    BY <1>3, <2>4 DEF PopScan, TaskInHand
  <2>5. QED
    BY <2>3, <2>4
<1>4. ASSUME NEW t \in Threads,
             \/ PopRead(t) \/ PopCas(t) \/ PopReread(t) \/ PopStall(t) \/ Wait(t) \/ Execute(t)
      PROVE  TaskInHand'
  BY <1>4 DEF PopRead, PopCas, PopReread, PopStall, Wait, Execute, TaskInHand, TypeOK, ControlTypeOK, TaskTypeOK
<1>5. CASE UNCHANGED vars
  BY <1>5 DEF vars, TaskInHand
<1>6. QED
  BY <1>1, <1>2, <1>3, <1>4, <1>5 DEF Next, ThreadStep

\* Every variable keeps its type, and whoever runs Push, Pop or Execute with a
\* task has one: EnqueueFromOtherThread and ProcessTasksNamedThread never act
\* on a null task.
THEOREM TypeCorrect == Spec => [](TypeOK /\ TaskInHand)
<1>1. Init => TypeOK /\ TaskInHand
  <2>1. Init => TaskInHand
    BY ProcsPartition DEF Init, TaskInHand
  <2>2. QED
    BY <2>1, InitTypeOK
<1>2. TypeOK /\ TaskInHand /\ [Next]_vars => TypeOK' /\ TaskInHand'
  <2> SUFFICES ASSUME TypeOK, TaskInHand, [Next]_vars PROVE TypeOK'
    BY TaskInHandStep
  <2>2. CASE UNCHANGED vars
    BY <2>2 DEF vars, TypeOK, WordTypeOK, ControlTypeOK, TaskTypeOK, WakeTypeOK
  <2>3. CASE Next
    BY <2>3, PusherTypeOK, ThreadTypeOK DEF Next
  <2>4. QED
    BY <2>2, <2>3
<1>3. QED
  BY <1>1, <1>2, PTL DEF Spec

-----------------------------------------------------------------------------
(* The counter: a copy of MasterState that is not stale is equal to it. *)

\* The counter before n + 1 changes, seen from one change later.
LEMMA CounterBeforeStep ==
    ASSUME NEW word, word.counter \in Counter, NEW n \in Nat,
           n + 1 < MAX_TagBitsValue
    PROVE  CounterBefore(AdvanceCounter(word), n + 1) = CounterBefore(word.counter, n)
BY TagBitsAssumption DEF CounterBefore, AdvanceCounter, Counter

\* The compare-and-swap succeeds only if nothing changed since the read.
LEMMA CasOnlyIfCurrent ==
    ASSUME TypeOK, NoABA, NEW x \in Procs, Holding(x), masterState = localState[x]
    PROVE  lag[x] = 0
<1>1. /\ masterState.counter \in 0 .. MAX_TagBitsValue - 1
      /\ lag[x] \in 0 .. MAX_TagBitsValue - 1
  BY DEF TypeOK, WordTypeOK, IndexedPointers, Counter
<1>2. masterState.counter = CounterBefore(masterState.counter, lag[x])
  BY DEF NoABA
<1>3. QED
  BY <1>1, <1>2, TagBitsAssumption DEF CounterBefore

LEMMA InstalledCounter ==
    ASSUME NEW from, NEW t
    PROVE  /\ PushedState(from).counter = AdvanceCounter(from)
           /\ PoppedState(from).counter = AdvanceCounter(from)
           /\ StalledState(from, t).counter = AdvanceCounter(from)
BY DEF PushedState, PoppedState, StalledState, SetAll

\* NoABA survives the three kinds of access to MasterState, whatever the new
\* program points are, as long as only x moves and it holds a copy afterwards
\* exactly when it has just read one.
LEMMA NoABAStep ==
    ASSUME TypeOK, NoABA, NEW x \in Procs,
           \A y \in Procs \ {x} : pc'[y] = pc[y],
           \/ ReadMasterState(x) /\ Holding(x)'
           \/ /\ \E new : CasSucceeds(x, new) /\ new.counter = AdvanceCounter(masterState)
              /\ ~ Holding(x)'
           \/ CasFails(x) /\ ~ Holding(x)'
           \/ /\ UNCHANGED <<masterState, localState, lag>>
              /\ Holding(x)' <=> Holding(x)
    PROVE  NoABA'
<1>0. \A y \in Procs \ {x} : Holding(y)' <=> Holding(y)
  BY DEF Holding
<1> DEFINE OK(y) == IF Holding(y)
                    THEN /\ localState[y].counter = CounterBefore(masterState.counter, lag[y])
                         /\ lag[y] = 0 => localState[y] = masterState
                    ELSE lag[y] = 0
<1>1. SUFFICES ASSUME NEW y \in Procs PROVE OK(y)'
  BY DEF NoABA
<1>2. OK(y)
  BY DEF NoABA
<1>3. CASE ReadMasterState(x) /\ Holding(x)'
  <2>1. CASE y = x
    <3>1. masterState.counter = CounterBefore(masterState.counter, 0)
      BY TagBitsAssumption DEF CounterBefore, TypeOK, WordTypeOK, IndexedPointers, Counter
    <3>2. localState'[y] = masterState /\ lag'[y] = 0 /\ masterState' = masterState
      BY <1>3, <2>1 DEF ReadMasterState, TypeOK, WordTypeOK
    <3>3. QED
      BY <1>3, <2>1, <3>1, <3>2
  <2>2. CASE y # x
    <3>1. localState'[y] = localState[y] /\ lag'[y] = lag[y] /\ masterState' = masterState
      BY <1>3, <2>2 DEF ReadMasterState, TypeOK, WordTypeOK
    <3>2. QED
      BY <1>0, <1>2, <2>2, <3>1
  <2>3. QED
    BY <2>1, <2>2
<1>4. ASSUME NEW new, CasSucceeds(x, new), new.counter = AdvanceCounter(masterState),
             ~ Holding(x)'
      PROVE  OK(y)'
  <2>1. lag'[y] = IF y # x /\ Holding(y) THEN lag[y] + 1 ELSE 0
    BY <1>4 DEF CasSucceeds
  <2>2. CASE y = x \/ ~ Holding(y)
    BY <1>0, <1>4, <2>1, <2>2
  <2>3. CASE y # x /\ Holding(y)
    <3>1. lag[y] \in Nat /\ lag[y] + 1 < MAX_TagBitsValue
      BY <1>4, <2>3, TagBitsAssumption DEF CasSucceeds, NobodyStarves, TypeOK, WordTypeOK
    <3>2. masterState.counter \in Counter
      BY DEF TypeOK, WordTypeOK, IndexedPointers
    <3>3. CounterBefore(AdvanceCounter(masterState), lag[y] + 1) = CounterBefore(masterState.counter, lag[y])
      BY <3>1, <3>2, CounterBeforeStep
    <3>4. /\ masterState'.counter = AdvanceCounter(masterState)
          /\ localState'[y] = localState[y]
      BY <1>4 DEF CasSucceeds
    <3>5. Holding(y)' /\ lag'[y] = lag[y] + 1 /\ lag'[y] # 0
      BY <1>0, <2>1, <2>3, <3>1
    <3>6. QED
      BY <1>2, <2>3, <3>3, <3>4, <3>5
  <2>4. QED
    BY <2>2, <2>3
<1>5. CASE CasFails(x) /\ ~ Holding(x)'
  <2>1. CASE y = x
    BY <1>5, <2>1 DEF CasFails, TypeOK, WordTypeOK
  <2>2. CASE y # x
    <3>1. localState'[y] = localState[y] /\ lag'[y] = lag[y] /\ masterState' = masterState
      BY <1>5, <2>2 DEF CasFails, TypeOK, WordTypeOK
    <3>2. QED
      BY <1>0, <1>2, <2>2, <3>1
  <2>3. QED
    BY <2>1, <2>2
<1>6. CASE UNCHANGED <<masterState, localState, lag>> /\ (Holding(x)' <=> Holding(x))
  BY <1>0, <1>2, <1>6
<1>7. QED
  BY <1>3, <1>4, <1>5, <1>6

LEMMA NoABANext ==
    ASSUME TypeOK, NoABA, [Next]_vars
    PROVE  NoABA'
<1> USE ProcsPartition DEF Goto
<1>1. ASSUME NEW p \in Pushers, \/ \E pri \in UsedPriorities : PushRead(p, pri)
                                \/ PushStep(p)
      PROVE  NoABA'
  <2>1. \A y \in Procs \ {p} : pc'[y] = pc[y]
    BY <1>1 DEF PushRead, PushStep, PushEnqueue, PushCas, PushReread, Trigger,
                TypeOK, ControlTypeOK
  <2>2. CASE PushReread(p) \/ \E pri \in UsedPriorities : PushRead(p, pri)
    <3>1. ReadMasterState(p) /\ Holding(p)'
      BY <2>2 DEF PushRead, PushReread, Holding, TypeOK, ControlTypeOK
    <3>2. QED
      BY <2>1, <3>1, NoABAStep
  <2>3. CASE PushCas(p)
    <3>1. ~ Holding(p)'
      BY <2>3 DEF PushCas, Holding, TypeOK, ControlTypeOK
    <3>2. CASE CasSucceeds(p, PushedState(localState[p]))
      <4>1. PushedState(localState[p]).counter = AdvanceCounter(masterState)
        BY <3>2, InstalledCounter DEF CasSucceeds
      <4>2. QED
        BY <2>1, <3>1, <3>2, <4>1, NoABAStep
    <3>3. CASE CasFails(p)
      BY <2>1, <3>1, <3>3, NoABAStep
    <3>4. QED
      BY <2>3, <3>2, <3>3 DEF PushCas
  <2>4. CASE PushEnqueue(p) \/ Trigger(p)
    <3>1. Holding(p)' <=> Holding(p)
      BY <2>4 DEF PushEnqueue, Trigger, Holding, TypeOK, ControlTypeOK
    <3>2. UNCHANGED <<masterState, localState, lag>>
      BY <2>4 DEF PushEnqueue, Trigger
    <3>3. QED
      BY <2>1, <3>1, <3>2, NoABAStep
  <2>5. QED
    BY <1>1, <2>2, <2>3, <2>4 DEF PushStep
<1>2. ASSUME NEW t \in Threads, ThreadStep(t)
      PROVE  NoABA'
  <2>1. \A y \in Procs \ {t} : pc'[y] = pc[y]
    BY <1>2 DEF ThreadStep, PopRead, PopScan, PopCas, PopReread, PopStall, Wait, Execute,
                TypeOK, ControlTypeOK
  <2>2. CASE PopRead(t) \/ PopReread(t)
    <3>1. ReadMasterState(t) /\ Holding(t)'
      BY <2>2 DEF PopRead, PopReread, Holding, TypeOK, ControlTypeOK
    <3>2. QED
      BY <2>1, <3>1, NoABAStep
  <2>3. CASE PopCas(t) \/ PopStall(t)
    <3>1. ~ Holding(t)'
      BY <2>3 DEF PopCas, PopStall, Holding, TypeOK, ControlTypeOK
    <3>2. ASSUME NEW new \in {PoppedState(localState[t]), StalledState(localState[t], t)},
                 CasSucceeds(t, new)
          PROVE  NoABA'
      <4>1. new.counter = AdvanceCounter(masterState)
        BY <3>2, InstalledCounter DEF CasSucceeds
      <4>2. QED
        BY <2>1, <3>1, <3>2, <4>1, NoABAStep
    <3>3. CASE CasFails(t)
      BY <2>1, <3>1, <3>3, NoABAStep
    <3>4. QED
      BY <2>3, <3>2, <3>3 DEF PopCas, PopStall
  <2>4. CASE PopScan(t) \/ Wait(t) \/ Execute(t)
    <3>1. Holding(t)' <=> Holding(t)
      BY <2>4 DEF PopScan, Wait, Execute, Holding, TypeOK, ControlTypeOK
    <3>2. UNCHANGED <<masterState, localState, lag>>
      BY <2>4 DEF PopScan, Wait, Execute
    <3>3. QED
      BY <2>1, <3>1, <3>2, NoABAStep
  <2>5. QED
    BY <1>2, <2>2, <2>3, <2>4 DEF ThreadStep
<1>3. CASE UNCHANGED vars
  BY <1>3 DEF vars, NoABA, Holding
<1>4. QED
  BY <1>1, <1>2, <1>3 DEF Next

-----------------------------------------------------------------------------
(* Wake-ups. *)

LEMMA WakersTriggerNext ==
    ASSUME TypeOK, WakersTrigger, [Next]_vars
    PROVE  WakersTrigger'
<1> USE ProcsPartition DEF Goto, WakersTrigger
<1>1. ASSUME NEW p \in Pushers, PushCas(p) PROVE WakersTrigger'
  <2>1. CASE CasFails(p)
    BY <1>1, <2>1 DEF PushCas, CasFails, CasSucceeds, TypeOK, ControlTypeOK, WakeTypeOK
  <2>2. CASE CasSucceeds(p, PushedState(localState[p]))
    <3>1. FindThreadToWake(localState[p].ptr) \in Threads \cup {-1}
      BY FindThreadToWakeFindsABit DEF TypeOK, WordTypeOK, IndexedPointers
    <3>2. threadToWake'[p] \in Nat \cup {-1}
      BY <1>1, <2>2, <3>1, QueueAssumption DEF PushCas, CasSucceeds, CasFails, TypeOK, WakeTypeOK
    <3>3. threadToWake'[p] >= 0 <=> threadToWake'[p] # -1
      BY <3>2
    <3>4. pc'[p] = "trigger" <=> threadToWake'[p] >= 0
      BY <1>1, <2>2 DEF PushCas, CasSucceeds, CasFails, TypeOK, ControlTypeOK
    <3>5. \A q \in Pushers \ {p} : threadToWake'[q] = threadToWake[q] /\ pc'[q] = pc[q]
      BY <1>1, <2>2 DEF PushCas, CasSucceeds, CasFails, TypeOK, ControlTypeOK, WakeTypeOK
    <3>6. QED
      BY <3>3, <3>4, <3>5
  <2>3. QED
    BY <1>1, <2>1, <2>2 DEF PushCas
<1>2. ASSUME NEW p \in Pushers, Trigger(p) PROVE WakersTrigger'
  BY <1>2 DEF Trigger, TypeOK, ControlTypeOK, WakeTypeOK
<1>3. ASSUME NEW p \in Pushers,
             PushEnqueue(p) \/ PushReread(p) \/ \E pri \in UsedPriorities : PushRead(p, pri)
      PROVE  WakersTrigger'
  BY <1>3 DEF PushRead, PushEnqueue, PushReread, TypeOK, ControlTypeOK, WakeTypeOK
<1>4. ASSUME NEW t \in Threads, ThreadStep(t) PROVE WakersTrigger'
  BY <1>4 DEF ThreadStep, PopRead, PopScan, PopCas, PopReread, PopStall, Wait, Execute,
              TypeOK, ControlTypeOK
<1>5. CASE UNCHANGED vars
  BY <1>5 DEF vars
<1>6. QED
  BY <1>1, <1>2, <1>3, <1>4, <1>5 DEF Next, PushStep

LEMMA OneWakePerStallNext ==
    ASSUME TypeOK, NoABA, WakersTrigger, OneWakePerStall, [Next]_vars
    PROVE  OneWakePerStall'
<1> USE ProcsPartition DEF Goto, OneWakePerStall, OneWake
<1>1. ASSUME NEW p \in Pushers, PushCas(p) PROVE OneWakePerStall'
  <2>1. CASE CasFails(p)
    <3>1. /\ UNCHANGED <<masterState, restartEvent, threadToWake>>
          /\ \A t \in Threads : pc'[t] = pc[t]
      BY <1>1, <2>1 DEF PushCas, CasFails, CasSucceeds, TypeOK, ControlTypeOK
    <3>2. QED
      BY <3>1
  <2>2. CASE CasSucceeds(p, PushedState(localState[p]))
    <3> DEFINE u == FindThreadToWake(masterState.ptr)
    <3>1. /\ masterState'.ptr = masterState.ptr \ {u}
          /\ threadToWake' = [threadToWake EXCEPT ![p] = u]
          /\ restartEvent' = restartEvent
          /\ \A t \in Threads : pc'[t] = pc[t]
      BY <1>1, <2>2 DEF PushCas, CasFails, CasSucceeds, PushedState, SetAll, TurnOffBit,
                        TypeOK, ControlTypeOK
    <3>2. threadToWake[p] = -1
      BY <1>1 DEF PushCas, WakersTrigger, TypeOK, WakeTypeOK
    <3>3. masterState.ptr \in SUBSET Threads
      BY DEF TypeOK, WordTypeOK, IndexedPointers
    <3>4. u \in masterState.ptr \/ (u = -1 /\ masterState.ptr = {})
      BY <3>3, FindThreadToWakeFindsABit
    <3>5. \A t \in Threads : t # -1
      BY QueueAssumption
    <3> HIDE DEF u
    <3>6. \A q \in Pushers : threadToWake'[q] = IF q = p THEN u ELSE threadToWake[q]
      BY <3>1 DEF TypeOK, WakeTypeOK
    <3>7. QED
      BY <3>1, <3>2, <3>3, <3>4, <3>5, <3>6
  <2>3. QED
    BY <1>1, <2>1, <2>2 DEF PushCas
<1>2. ASSUME NEW p \in Pushers, Trigger(p) PROVE OneWakePerStall'
  <2>1. threadToWake[p] \in Threads
    BY <1>2 DEF Trigger, WakersTrigger, TypeOK, WakeTypeOK
  <2>2. \A q \in Pushers : threadToWake'[q] = IF q = p THEN -1 ELSE threadToWake[q]
    BY <1>2 DEF Trigger, TypeOK, WakeTypeOK
  <2>3. \A t \in Threads : restartEvent'[t] = IF t = threadToWake[p] THEN TRUE ELSE restartEvent[t]
    BY <1>2, <2>1 DEF Trigger, TypeOK, WakeTypeOK
  <2>4. masterState' = masterState /\ \A t \in Threads : pc'[t] = pc[t] /\ t # -1
    BY <1>2, QueueAssumption DEF Trigger, TypeOK, ControlTypeOK
  <2> SUFFICES ASSUME NEW t \in Threads PROVE OneWake(t)'
    OBVIOUS
  <2>6. CASE t = threadToWake[p]
    <3>1. {q \in Pushers : threadToWake'[q] = t} = {}
      BY <2>2, <2>4, <2>6
    <3>2. restartEvent'[t] /\ pc[t] = "wait" /\ t \notin masterState.ptr
      BY <2>1, <2>3, <2>6
    <3>3. QED
      BY <2>4, <3>1, <3>2
  <2>7. CASE t # threadToWake[p]
    <3>1. {q \in Pushers : threadToWake'[q] = t} = {q \in Pushers : threadToWake[q] = t}
      BY <2>2, <2>4, <2>7
    <3>2. restartEvent'[t] = restartEvent[t]
      BY <2>3, <2>7
    <3>3. QED
      BY <2>4, <3>1, <3>2
  <2>8. QED
    BY <2>6, <2>7
<1>3. ASSUME NEW p \in Pushers,
             PushEnqueue(p) \/ PushReread(p) \/ \E pri \in UsedPriorities : PushRead(p, pri)
      PROVE  OneWakePerStall'
  <2>1. /\ UNCHANGED <<masterState, restartEvent, threadToWake>>
        /\ \A t \in Threads : pc'[t] = pc[t]
    BY <1>3 DEF PushRead, PushEnqueue, PushReread, ReadMasterState, TypeOK, ControlTypeOK
  <2>2. QED
    BY <2>1
<1>4. ASSUME NEW t \in Threads,
             PopRead(t) \/ PopScan(t) \/ PopReread(t) \/ Execute(t)
      PROVE  OneWakePerStall'
  <2>1. /\ UNCHANGED <<masterState, restartEvent, threadToWake>>
        /\ \A u \in Threads : pc'[u] = "wait" <=> pc[u] = "wait"
    BY <1>4 DEF PopRead, PopScan, PopReread, Execute, ReadMasterState, TypeOK, ControlTypeOK
  <2>2. QED
    BY <2>1
<1>5. ASSUME NEW t \in Threads, PopCas(t) PROVE OneWakePerStall'
  <2>1. /\ masterState'.ptr = masterState.ptr
        /\ UNCHANGED <<restartEvent, threadToWake>>
        /\ \A u \in Threads : pc'[u] = "wait" <=> pc[u] = "wait"
    BY <1>5 DEF PopCas, CasSucceeds, CasFails, PoppedState, SetAll, TypeOK, ControlTypeOK
  <2>2. QED
    BY <2>1
<1>6. ASSUME NEW t \in Threads, PopStall(t) PROVE OneWakePerStall'
  <2>1. pc[t] # "wait" /\ UNCHANGED <<restartEvent, threadToWake>>
    BY <1>6 DEF PopStall
  <2>2. CASE CasSucceeds(t, StalledState(localState[t], t))
    <3>1. /\ masterState'.ptr = masterState.ptr \cup {t}
          /\ \A u \in Threads : pc'[u] = IF u = t THEN "wait" ELSE pc[u]
      BY <1>6, <2>2 DEF PopStall, CasSucceeds, CasFails, StalledState, SetAll, TurnOnBit,
                        TypeOK, ControlTypeOK
    <3>2. QED
      BY <2>1, <3>1
  <2>3. CASE CasFails(t)
    <3>1. /\ masterState' = masterState
          /\ \A u \in Threads : pc'[u] = "wait" <=> pc[u] = "wait"
      BY <1>6, <2>3 DEF PopStall, CasSucceeds, CasFails, TypeOK, ControlTypeOK
    <3>2. QED
      BY <2>1, <3>1
  <2>4. QED
    BY <1>6, <2>2, <2>3 DEF PopStall
<1>7. ASSUME NEW t \in Threads, Wait(t) PROVE OneWakePerStall'
  <2>1. /\ masterState' = masterState /\ threadToWake' = threadToWake
        /\ pc[t] = "wait" /\ pc'[t] = "popRead"
        /\ restartEvent[t] /\ restartEvent'[t] = FALSE
        /\ \A u \in Threads \ {t} : pc'[u] = pc[u] /\ restartEvent'[u] = restartEvent[u]
    BY <1>7 DEF Wait, TypeOK, ControlTypeOK, WakeTypeOK
  <2>2. OneWake(t)'
    <3>1. {p \in Pushers : threadToWake[p] = t} = {} /\ t \notin masterState.ptr
      BY <2>1
    <3>2. {p \in Pushers : threadToWake'[p] = t} = {} /\ t \notin masterState'.ptr
      BY <2>1, <3>1
    <3>3. ~ restartEvent'[t] /\ pc'[t] # "wait"
      BY <2>1
    <3>4. QED
      BY <3>2, <3>3
  <2>3. ASSUME NEW u \in Threads \ {t} PROVE OneWake(u)'
    <3>1. OneWake(u)
      OBVIOUS
    <3>2. pc'[u] = pc[u] /\ restartEvent'[u] = restartEvent[u]
      BY <2>1
    <3>3. QED
      BY <2>1, <3>1, <3>2
  <2>4. QED
    BY <2>2, <2>3
<1>8. CASE UNCHANGED vars
  BY <1>8 DEF vars
<1>9. QED
  BY <1>1, <1>2, <1>3, <1>4, <1>5, <1>6, <1>7, <1>8 DEF Next, PushStep, ThreadStep

-----------------------------------------------------------------------------
(* No lost wake-up. *)

\* The threads that service the queue neither fill a queue nor change who has
\* still to announce a task.
LEMMA ThreadsOnlyTake ==
    ASSUME TypeOK, NEW t \in Threads, ThreadStep(t)
    PROVE  /\ \A i \in Priorities : priorityQueues'[i] # <<>> => priorityQueues[i] # <<>>
           /\ Announcing' = Announcing
           /\ \A u \in Threads \ {t} : pc'[u] = pc[u] /\ index'[u] = index[u]
<1> USE ProcsPartition DEF Goto
<1>1. \A i \in Priorities : priorityQueues'[i] # <<>> => priorityQueues[i] # <<>>
  <2>1. CASE PopScan(t)
    BY <2>1 DEF PopScan, TypeOK, TaskTypeOK
  <2>2. CASE PopRead(t) \/ PopCas(t) \/ PopReread(t) \/ PopStall(t) \/ Wait(t) \/ Execute(t)
    BY <2>2 DEF PopRead, PopCas, PopReread, PopStall, Wait, Execute
  <2>3. QED
    BY <2>1, <2>2 DEF ThreadStep
<1>2. \A x \in Procs \ {t} : pc'[x] = pc[x]
  BY DEF ThreadStep, PopRead, PopScan, PopCas, PopReread, PopStall, Wait, Execute,
         TypeOK, ControlTypeOK
<1>3. \A u \in Threads \ {t} : index'[u] = index[u]
  BY DEF ThreadStep, PopRead, PopScan, PopCas, PopReread, PopStall, Wait, Execute,
         TypeOK, ControlTypeOK
<1>4. Announcing' = Announcing
  BY <1>2 DEF Announcing
<1>5. QED
  BY <1>1, <1>2, <1>3, <1>4

\* A change of MasterState makes every scan that is under way stale.
LEMMA ChangeMakesScansStale ==
    ASSUME TypeOK, NEW x \in Procs, NEW new, CasSucceeds(x, new),
           NEW t \in Threads \ {x}, pc[t] = "scan"
    PROVE  lag'[t] # 0
BY ProcsPartition DEF CasSucceeds, Holding, TypeOK, WordTypeOK

LEMMA ScanIsCurrentNext ==
    ASSUME TypeOK, ScanIsCurrent, [Next]_vars
    PROVE  ScanIsCurrent'
<1> USE ProcsPartition DEF Goto
<1>1. ASSUME NEW p \in Pushers, PushEnqueue(p) PROVE ScanIsCurrent'
  <2>1. p \in Announcing'
    BY <1>1 DEF PushEnqueue, Announcing, TypeOK, ControlTypeOK
  <2>2. QED
    BY <2>1 DEF ScanIsCurrent
<1>2. ASSUME NEW p \in Pushers, PushCas(p) PROVE ScanIsCurrent'
  <2>1. \A t \in Threads : pc'[t] = pc[t]
    BY <1>2 DEF PushCas, TypeOK, ControlTypeOK
  <2>2. CASE CasSucceeds(p, PushedState(localState[p]))
    BY <2>1, <2>2, ChangeMakesScansStale DEF ScanIsCurrent
  <2>3. CASE CasFails(p)
    <3>1. Announcing' = Announcing
      BY <1>2, <2>3 DEF PushCas, CasFails, CasSucceeds, Announcing, TypeOK, ControlTypeOK
    <3>2. /\ \A t \in Threads : lag'[t] = lag[t]
          /\ UNCHANGED <<priorityQueues, index>>
      BY <1>2, <2>3 DEF PushCas, CasFails, TypeOK, WordTypeOK
    <3>3. QED
      BY <2>1, <3>1, <3>2 DEF ScanIsCurrent
  <2>4. QED
    BY <1>2, <2>2, <2>3 DEF PushCas
<1>3. ASSUME NEW p \in Pushers,
             PushReread(p) \/ Trigger(p) \/ \E pri \in UsedPriorities : PushRead(p, pri)
      PROVE  ScanIsCurrent'
  <2>1. Announcing' = Announcing
    BY <1>3 DEF PushReread, Trigger, PushRead, Announcing, TypeOK, ControlTypeOK
  <2>2. /\ \A t \in Threads : pc'[t] = pc[t] /\ lag'[t] = lag[t]
        /\ UNCHANGED <<priorityQueues, index>>
    BY <1>3 DEF PushReread, Trigger, PushRead, ReadMasterState, TypeOK, ControlTypeOK, WordTypeOK
  <2>3. QED
    BY <2>1, <2>2 DEF ScanIsCurrent
<1>4. ASSUME NEW t \in Threads, ThreadStep(t) PROVE ScanIsCurrent'
  <2> SUFFICES ASSUME NEW u \in Threads, NEW i \in Priorities,
                      pc'[u] = "scan", lag'[u] = 0, i < index'[u], priorityQueues'[i] # <<>>
               PROVE  Announcing' # {}
    BY DEF ScanIsCurrent
  <2>1. priorityQueues[i] # <<>> /\ Announcing' = Announcing
    BY <1>4, ThreadsOnlyTake
  <2>2. CASE u # t
    <3>1. pc[u] = "scan" /\ i < index[u]
      BY <1>4, <2>2, ThreadsOnlyTake
    <3>2. lag[u] = 0
      <4>1. CASE PopRead(t) \/ PopReread(t) \/ PopScan(t) \/ Wait(t) \/ Execute(t)
        BY <2>2, <4>1 DEF PopRead, PopReread, PopScan, Wait, Execute, ReadMasterState,
                          TypeOK, WordTypeOK
      <4>2. CASE PopCas(t) \/ PopStall(t)
        <5>1. \A new : ~ CasSucceeds(t, new)
          BY <2>2, <3>1, ChangeMakesScansStale
        <5>2. CasFails(t)
          BY <4>2, <5>1 DEF PopCas, PopStall
        <5>3. QED
          BY <2>2, <5>2 DEF CasFails, TypeOK, WordTypeOK
      <4>3. QED
        BY <1>4, <4>1, <4>2 DEF ThreadStep
    <3>3. QED
      BY <2>1, <3>1, <3>2 DEF ScanIsCurrent
  <2>3. CASE u = t
    <3>1. CASE PopRead(t)
      <4>1. index'[t] = 0
        BY <3>1 DEF PopRead, TypeOK, ControlTypeOK
      <4>2. QED
        BY <2>3, <4>1 DEF Priorities
    <3>2. CASE PopScan(t)
      <4>1. priorityQueues[index[t]] = <<>>
        BY <2>3, <3>2 DEF PopScan, TypeOK, ControlTypeOK
      <4>2. pc[t] = "scan" /\ lag[t] = 0 /\ index'[t] = index[t] + 1
        BY <2>3, <3>2, <4>1 DEF PopScan, TypeOK, ControlTypeOK
      <4>3. i # index[t]
        BY <2>1, <4>1
      <4>4. i < index[t]
        BY <2>3, <4>2, <4>3 DEF Priorities, TypeOK, ControlTypeOK
      <4>5. QED
        BY <2>1, <4>2, <4>4 DEF ScanIsCurrent
    <3>3. CASE PopCas(t) \/ PopReread(t) \/ PopStall(t) \/ Wait(t) \/ Execute(t)
      BY <2>3, <3>3 DEF PopCas, PopReread, PopStall, Wait, Execute, TypeOK, ControlTypeOK
    <3>4. QED
      BY <1>4, <3>1, <3>2, <3>3 DEF ThreadStep
  <2>4. QED
    BY <2>2, <2>3
<1>5. CASE UNCHANGED vars
  BY <1>5 DEF vars, ScanIsCurrent, Announcing
<1>6. QED
  BY <1>1, <1>2, <1>3, <1>4, <1>5 DEF Next, PushStep

LEMMA NoLostWakeupNext ==
    ASSUME TypeOK, NoABA, ScanIsCurrent, NoLostWakeup, [Next]_vars
    PROVE  NoLostWakeup'
<1> USE ProcsPartition DEF Goto
<1>1. ASSUME NEW p \in Pushers, PushEnqueue(p) PROVE NoLostWakeup'
  <2>1. p \in Announcing'
    BY <1>1 DEF PushEnqueue, Announcing, TypeOK, ControlTypeOK
  <2>2. QED
    BY <2>1 DEF NoLostWakeup
<1>2. ASSUME NEW p \in Pushers, PushCas(p) PROVE NoLostWakeup'
  <2>1. CASE CasSucceeds(p, PushedState(localState[p]))
    <3> DEFINE u == FindThreadToWake(masterState.ptr)
    <3>1. masterState.ptr \in SUBSET Threads
      BY DEF TypeOK, WordTypeOK, IndexedPointers
    <3>2. u \in masterState.ptr \/ masterState.ptr = {}
      BY <3>1, FindThreadToWakeFindsABit
    <3>3. masterState'.ptr = masterState.ptr \ {u}
      BY <2>1 DEF CasSucceeds, PushedState, SetAll, TurnOffBit
    <3>4. masterState'.ptr # Threads
      BY <3>1, <3>2, <3>3, QueueAssumption
    <3>5. QED
      BY <3>4 DEF NoLostWakeup
  <2>2. CASE CasFails(p)
    <3>1. Announcing' = Announcing
      BY <1>2, <2>2 DEF PushCas, CasFails, CasSucceeds, Announcing, TypeOK, ControlTypeOK
    <3>2. UNCHANGED <<priorityQueues, masterState>>
      BY <1>2, <2>2 DEF PushCas, CasFails
    <3>3. QED
      BY <3>1, <3>2 DEF NoLostWakeup
  <2>3. QED
    BY <1>2, <2>1, <2>2 DEF PushCas
<1>3. ASSUME NEW p \in Pushers,
             PushReread(p) \/ Trigger(p) \/ \E pri \in UsedPriorities : PushRead(p, pri)
      PROVE  NoLostWakeup'
  <2>1. Announcing' = Announcing
    BY <1>3 DEF PushReread, Trigger, PushRead, Announcing, TypeOK, ControlTypeOK
  <2>2. UNCHANGED <<priorityQueues, masterState>>
    BY <1>3 DEF PushReread, Trigger, PushRead, ReadMasterState
  <2>3. QED
    BY <2>1, <2>2 DEF NoLostWakeup
<1>4. ASSUME NEW t \in Threads, ThreadStep(t) PROVE NoLostWakeup'
  <2>1. /\ \A i \in Priorities : priorityQueues'[i] # <<>> => priorityQueues[i] # <<>>
        /\ Announcing' = Announcing
    BY <1>4, ThreadsOnlyTake
  <2>2. CASE masterState'.ptr = masterState.ptr
    BY <2>1, <2>2 DEF NoLostWakeup
  <2>3. CASE PopStall(t) /\ CasSucceeds(t, StalledState(localState[t], t))
    <3>1. pc[t] = "scan" /\ Holding(t) /\ index[t] = NumPriorities
      BY <2>3 DEF PopStall, Holding
    <3>2. lag[t] = 0
      BY <2>3, <3>1, CasOnlyIfCurrent DEF CasSucceeds
    <3>3. ASSUME NEW i \in Priorities, priorityQueues[i] # <<>> PROVE Announcing # {}
      BY <3>1, <3>2, <3>3, QueueAssumption DEF ScanIsCurrent, Priorities
    <3>4. QED
      BY <2>1, <3>3 DEF NoLostWakeup
  <2>4. masterState'.ptr = masterState.ptr \/
          (PopStall(t) /\ CasSucceeds(t, StalledState(localState[t], t)))
    BY <1>4 DEF ThreadStep, PopRead, PopScan, PopCas, PopReread, PopStall, Wait, Execute,
                ReadMasterState, CasFails, CasSucceeds, PoppedState, SetAll
  <2>5. QED
    BY <2>2, <2>3, <2>4
<1>5. CASE UNCHANGED vars
  BY <1>5 DEF vars, NoLostWakeup, Announcing
<1>6. QED
  BY <1>1, <1>2, <1>3, <1>4, <1>5 DEF Next, PushStep

-----------------------------------------------------------------------------

LEMMA InitInductiveInv == Init => InductiveInv
<1>1. SUFFICES ASSUME Init PROVE InductiveInv
  OBVIOUS
<1>2. TypeOK
  BY <1>1, InitTypeOK
<1>3. NoABA
  BY <1>1, ProcsPartition DEF Init, NoABA, Holding
<1>4. ScanIsCurrent
  BY <1>1, ProcsPartition DEF Init, ScanIsCurrent
<1>5. WakersTrigger
  BY <1>1, ProcsPartition DEF Init, WakersTrigger
<1>6. OneWakePerStall
  <2>1. \A t \in Threads : t # -1
    BY QueueAssumption
  <2>2. \A t \in Threads : {p \in Pushers : threadToWake[p] = t} = {}
    BY <1>1, <2>1 DEF Init
  <2>3. QED
    BY <1>1, <2>2, ProcsPartition DEF Init, OneWakePerStall, OneWake, SetAll
<1>7. NoLostWakeup
  BY <1>1 DEF Init, NoLostWakeup
<1>8. TaskInHand
  BY <1>1, ProcsPartition DEF Init, TaskInHand
<1>9. QED
  BY <1>2, <1>3, <1>4, <1>5, <1>6, <1>7, <1>8 DEF InductiveInv

\* The facts that keep MasterState, the scans and the wake-ups consistent hold
\* in every reachable state of EnqueueFromOtherThread and
\* ProcessTasksNamedThread.
THEOREM InductiveInvariant == Spec => []InductiveInv
<1>1. InductiveInv /\ TypeOK' /\ TaskInHand' /\ [Next]_vars => InductiveInv'
  BY NoABANext, ScanIsCurrentNext, WakersTriggerNext, OneWakePerStallNext, NoLostWakeupNext
  DEF InductiveInv
<1>2. QED
  BY <1>1, InitInductiveInv, TypeCorrect, PTL DEF Spec

\* For every number of callers and of servicing threads, and however their
\* steps interleave: a task is never left in a queue with every servicing
\* thread asleep and no pusher about to wake one.
THEOREM NoWakeupIsLost == Spec => []NoLostWakeup
<1>1. InductiveInv => NoLostWakeup
  BY DEF InductiveInv
<1>2. QED
  BY <1>1, InductiveInvariant, PTL

\* A stalled thread always has exactly one wake-up outstanding, a running
\* thread none: no signal of StallRestartEvent is ever swallowed or spurious.
THEOREM ExactlyOneWake == Spec => []OneWakePerStall
<1>1. InductiveInv => OneWakePerStall
  BY DEF InductiveInv
<1>2. QED
  BY <1>1, InductiveInvariant, PTL

-----------------------------------------------------------------------------
(* The queue implements the abstract task queue (its safety part). *)

\* A task is a task and not the absence of one.
LEMMA TaskIsSome == NoTask \notin Task
BY QueueAssumption DEF NoTask, Task

\* The pusher steps map to Put or to a step the callers cannot see.
LEMMA PusherImplements ==
    ASSUME TypeOK, TaskInHand, NEW p \in Pushers,
           \/ \E pri \in UsedPriorities : PushRead(p, pri)
           \/ PushStep(p)
    PROVE  [Abstract!Next]_Abstract!vars
<1> DEFINE Put(q) == IF pc[q] = "enqueue" THEN pushed[q] - 1 ELSE pushed[q]
<1> USE ProcsPartition DEF Goto
<1>1. \A t \in Threads : item'[t] = item[t]
  BY DEF PushRead, PushStep, PushEnqueue, PushCas, PushReread, Trigger, TypeOK, TaskTypeOK
<1>2. [t \in Threads |-> item'[t]] = [t \in Threads |-> item[t]]
  BY <1>1
<1>3. executed' = executed
  BY DEF PushRead, PushStep, PushEnqueue, PushCas, PushReread, Trigger
<1>4. CASE PushEnqueue(p)
  <2>1. PICK pri \in UsedPriorities :
          item[p].by = p /\ item[p].num = pushed[p] /\ item[p].pri = pri /\ item[p] \in Task
    BY <1>4 DEF PushEnqueue, TaskInHand
  <2>2. item[p] = [by |-> p, num |-> Put(p) + 1, pri |-> pri]
    BY <1>4, <2>1, QueueAssumption DEF PushEnqueue, Task, TypeOK, TaskTypeOK
  <2>3. Put(p) < MaxPushes
    BY <1>4, <2>1, QueueAssumption DEF PushEnqueue, Task, TypeOK, TaskTypeOK
  <2>4. [q \in Pushers |-> Put(q)]' = [[q \in Pushers |-> Put(q)] EXCEPT ![p] = @ + 1]
    <3>1. \A q \in Pushers \ {p} : Put(q)' = Put(q)
      BY <1>4 DEF PushEnqueue, TypeOK, ControlTypeOK
    <3>2. Put(p)' = Put(p) + 1
      BY <1>4, QueueAssumption DEF PushEnqueue, TypeOK, ControlTypeOK, TaskTypeOK
    <3> HIDE DEF Put
    <3>3. QED
      BY <3>1, <3>2
  <2>5. priorityQueues' = [priorityQueues EXCEPT ![pri] =
                             Append(@, [by |-> p, num |-> Put(p) + 1, pri |-> pri])]
    BY <1>4, <2>1, <2>2 DEF PushEnqueue
  <2>6. Abstract!Put(p, pri)
    BY <1>2, <1>3, <2>3, <2>4, <2>5 DEF Abstract!Put
  <2>7. QED
    BY <2>6 DEF Abstract!Next
<1>5. CASE PushCas(p) \/ PushReread(p) \/ Trigger(p) \/ \E pri \in UsedPriorities : PushRead(p, pri)
  <2>1. \A q \in Pushers : Put(q)' = Put(q)
    <3>1. CASE \E pri \in UsedPriorities : PushRead(p, pri)
      BY <3>1, QueueAssumption DEF PushRead, TypeOK, ControlTypeOK, TaskTypeOK
    <3>2. CASE PushCas(p) \/ PushReread(p) \/ Trigger(p)
      BY <3>2 DEF PushCas, PushReread, Trigger, TypeOK, ControlTypeOK
    <3>3. QED
      BY <1>5, <3>1, <3>2
  <2>2. [q \in Pushers |-> Put(q)]' = [q \in Pushers |-> Put(q)]
    BY <2>1
  <2>3. priorityQueues' = priorityQueues
    BY <1>5 DEF PushCas, PushReread, Trigger, PushRead
  <2>4. QED
    BY <1>2, <1>3, <2>2, <2>3 DEF Abstract!vars
<1>6. QED
  BY <1>4, <1>5 DEF PushStep

\* The steps of a servicing thread map to Take, to Finish or to nothing.
LEMMA ThreadImplements ==
    ASSUME TypeOK, TaskInHand, NEW t \in Threads, ThreadStep(t)
    PROVE  [Abstract!Next]_Abstract!vars
<1> DEFINE Put(q) == IF pc[q] = "enqueue" THEN pushed[q] - 1 ELSE pushed[q]
<1> USE ProcsPartition DEF Goto
<1>1. [q \in Pushers |-> Put(q)]' = [q \in Pushers |-> Put(q)]
  <2>1. \A q \in Pushers : pc'[q] = pc[q]
    BY DEF ThreadStep, PopRead, PopScan, PopCas, PopReread, PopStall, Wait, Execute,
           TypeOK, ControlTypeOK
  <2>2. pushed' = pushed
    BY DEF ThreadStep, PopRead, PopScan, PopCas, PopReread, PopStall, Wait, Execute
  <2>3. QED
    BY <2>1, <2>2
<1>2. CASE PopScan(t) /\ priorityQueues[index[t]] # <<>>
  <2>1. PICK i \in Priorities : index[t] = i
    BY <1>2, QueueAssumption DEF PopScan, TypeOK, ControlTypeOK, Priorities
  <2>2. [u \in Threads |-> item'[u]] =
          [[u \in Threads |-> item[u]] EXCEPT ![t] = Head(priorityQueues[i])]
    BY <1>2, <2>1 DEF PopScan, TypeOK, TaskTypeOK
  <2>3. item[t] = NoTask
    BY <1>2 DEF PopScan, TaskInHand
  <2>4. Abstract!Take(t, i)
    BY <1>1, <1>2, <2>1, <2>2, <2>3 DEF Abstract!Take, Abstract!NoTask, NoTask, PopScan
  <2>5. QED
    BY <2>4 DEF Abstract!Next, Abstract!TakeSome, Abstract!Priorities, Priorities
<1>3. CASE Execute(t)
  <2>1. item[t] # NoTask
    BY <1>3, TaskIsSome DEF Execute, TaskInHand
  <2>2. [u \in Threads |-> item'[u]] = [[u \in Threads |-> item[u]] EXCEPT ![t] = NoTask]
    BY <1>3 DEF Execute, TypeOK, TaskTypeOK
  <2>3. Abstract!Finish(t)
    BY <1>1, <1>3, <2>1, <2>2 DEF Abstract!Finish, Abstract!NoTask, NoTask, Execute
  <2>4. QED
    BY <2>3 DEF Abstract!Next
<1>4. CASE \/ PopRead(t) \/ PopCas(t) \/ PopReread(t) \/ PopStall(t) \/ Wait(t)
           \/ PopScan(t) /\ priorityQueues[index[t]] = <<>>
  <2>1. UNCHANGED <<priorityQueues, item, executed>>
    BY <1>4 DEF PopRead, PopScan, PopCas, PopReread, PopStall, Wait
  <2>2. QED
    BY <1>1, <2>1 DEF Abstract!vars
<1>5. QED
  BY <1>2, <1>3, <1>4 DEF ThreadStep

\* Every behaviour of EnqueueFromOtherThread and ProcessTasksNamedThread is,
\* seen from the callers, a behaviour of plain FIFOs: no task is lost,
\* duplicated or overtaken within its priority.
THEOREM ImplementsFIFOs == Spec => Abstract!Spec
<1>1. Init => Abstract!Init
  <2>1. SUFFICES ASSUME Init PROVE Abstract!Init
    OBVIOUS
  <2>2. [t \in Threads |-> item[t]] = [t \in Threads |-> NoTask]
    BY <2>1, ProcsPartition DEF Init
  <2>3. \A p \in Pushers : pc[p] = "idle" /\ pushed[p] = 0
    BY <2>1, ProcsPartition DEF Init
  <2>4. [p \in Pushers |-> IF pc[p] = "enqueue" THEN pushed[p] - 1 ELSE pushed[p]] =
          [p \in Pushers |-> 0]
    BY <2>3
  <2>5. QED
    BY <2>1, <2>2, <2>4
    DEF Init, Abstract!Init, Priorities, Abstract!Priorities, NoTask, Abstract!NoTask
<1>2. TypeOK /\ TaskInHand /\ [Next]_vars => [Abstract!Next]_Abstract!vars
  <2>1. CASE UNCHANGED vars
    BY <2>1 DEF vars, Abstract!vars
  <2>2. ASSUME TypeOK, TaskInHand, Next PROVE [Abstract!Next]_Abstract!vars
    BY <2>2, PusherImplements, ThreadImplements DEF Next
  <2>3. QED
    BY <2>1, <2>2
<1>3. QED
  BY <1>1, <1>2, TypeCorrect, PTL DEF Spec, Abstract!Spec
=============================================================================
