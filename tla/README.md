# A verification project for SyntaxExample

SyntaxExample is a collection of C++ programs by one author: a re-creation of
the task graph, the lock-free containers and the rendering thread of a game
engine (`src/UE`), re-creations of its delegates, function references, tuples
and containers (`src/TMP`), a finite element program for plane frames inside a
collection of language notes (`src/filamentNotes`), and small demos.

This directory holds TLA+ models of its core logic, the TLC configurations that
check them on small instances, and proofs that hold for every size.

## 1. Inventory

### 1.1 The task graph program (`src/UE`)

`main` (TaskGraph.cpp:376) starts a task graph and a rendering thread, then
counts for ever and enqueues one *render command* per count, each a `TGraphTask`
that prints the counter. Layers, from the top:

| part | state | operations | interacts through |
|---|---|---|---|
| start-up and main loop (TaskGraph.cpp, RenderingThread.*, WindowsRunnableThread.*) | singleton, workers, link cache, thread handle, counter | construct and set up workers, `CreateThread` suspended, resume, enqueue, execute | the singleton, the OS thread, the counter captured by reference |
| graph tasks (TaskGraphInterfaces.h) | task object, embedded task, count of prerequisites, life stage | `CreateTask`, construct and dispatch or hold, `Unlock`, `Execute`, `DeleteTask` | a raw pointer in the queue; whoever executes the task deletes it |
| stalling task queue and servicing loop (LockFreeList.h, TaskGraph.cpp, Event.h) | `MasterState` (stall bits and counter), one FIFO per priority, auto-reset events | `Push`, `Pop`, `Trigger`, `Wait` | compare-and-swap of `MasterState`, the events |
| lock-free FIFO (LockFreeList.h) | `Head`, `Tail`, `DoubleNext` and `Payload` of the links | `Push`, `Pop` | compare-and-swap of tagged indices; links that are recycled |
| lock-free LIFO (LockFreeList.h) | `Head`, `SingleNext` | `Push`, `Pop`, `PopAll` | as the FIFO |
| link allocator (LockFreeList.cpp and .h) | two bundles per thread, the shared list of bundles, pages, `NextIndex` | `Pop` (allocate), `Push` (free) | the shared list (a lock-free LIFO), page pointers set by compare-and-swap |
| thread-safe counter (ThreadSafeCounter.h) | one integer | increment, add, decrement, subtract, set, reset, get | one interlocked instruction each; used by the allocator and the tasks |

Everything hard here is interleaving: what a thread read may be stale when it
compares and swaps, links and tasks are recycled or deleted while others still
hold their index or pointer, a thread must not sleep through a push, signals of
an auto-reset event may coalesce. What makes each part correct:

- queue: no lost wake-up, one wake-up per stall, commands of one caller in
  order, every command executed, the behaviour of plain FIFOs;
- FIFO and LIFO: the behaviour of an atomic queue and an atomic stack, no link
  lost or doubled, no waiting for a thread that is suspended;
- allocator: bundles of the right length, each link in one place, links
  constructed in the page that is in use and handed out clean;
- tasks: life stages in order, executed when built and only once, not touched
  after deletion, deleted in the end, held tasks held;
- program: nothing used before it is set up, commands print and in order.

### 1.2 The template programs (`src/TMP`)

The project has several `main`s and builds one at a time. They are sequential;
their hazards are memory and long sequences of legal calls.

| part | state | operations | correct if |
|---|---|---|---|
| delegates (`delegate/`) | the pointer of each delegate, blocks of the heap with an instance in place | bind a function or lambda with a payload, copy, assign, `Execute`, `ExecuteIfSafe`, queries, `Unbind`, destroy | a block has one owner and is not used after it was freed; delegates hold values; their answers are true |
| function references (`function/`) | a stack of lambdas and references, the address in each reference | declare, pass, return, call | a call reaches the lambda that was meant, if everything it refers to still lives |
| arrays and memory (Array.h, ContainerAllocationPolicies.h, FMemory.inl, UnrealMemory.*) | `ArrayMax`, the block, whether the allocator exists | construct, `Reserve`, destroy; `Memswap`, `Memzero`, `Memmove` | an array claims what was reserved, and has a block for it; bytes end up where they should and no others change |
| tuples and type traits (Tuple.h, Invoke.h) | elements that are members or refer to variables | construct, copy, move, `Get` by index and by type, `ApplyAfter`, in every cv and reference category | an access has the type `std::get` would give; a value is moved away only where the client gave it up |

### 1.3 The frame program (`src/filamentNotes/CommandType.cpp`, `TestMITC`)

A sequential program: it reads a structure of truss and frame elements with its
loads from `test05.txt`, echoes them, numbers the degrees of freedom (unknown
ones first, coupled ones sharing a number), stores the lower triangle of the
stiffness matrix row by row from its first nonzero column, applies the loads,
solves by an in-place LDL^T factorisation, derives the forces at the ends of the
elements and the reactions of the supports, and prints three tables. `main` in
filamentNote.cpp has the call commented out; the sample inputs and their results
are in the repository.

Its hazards are those of index arithmetic and of arrays that are overwritten in
place and read again later: the layout of the input, numbering, profile, loads
accumulated one after the other, fixed end forces written out by hand for
eight types of load, reactions from a matrix that has partly been
factorised, the choice of rows to print. It is correct if the stored matrix is
the stiffness of the structure, the displacements satisfy the equilibrium
equations, the forces balance at every node, and the printed reactions hold the
whole structure under its loads.

### 1.4 The rest: see 7, "Not modelled".

`PROJECT.json` lists all components with their files, and the hazards line by
line.

## 2. Modules

| module | models | relation |
|---|---|---|
| `IndexedPointer` | `FIndexedPointer`: an index and a counter in one word | used by the next three |
| `StallingTaskQueue` | `FStallingTaskQueue`, `EnqueueFromOtherThread`, `ProcessTasksNamedThread`, `FEventWin` | implements `TaskQueue` |
| `TaskQueue` | abstract: FIFOs from which idle threads take tasks | |
| `LockFreeFIFO` | `FLockFreePointerFIFOBase` | implements `FIFO`, which `StallingTaskQueue` assumes of its priority queues |
| `LockFreeLIFO` | `FLockFreePointerListLIFORoot` | implements `LIFO`, which `LinkAllocator` assumes of its shared list |
| `LinkAllocator` | `LockFreeLinkAllocator_TLSCache`, `TLockFreeAllocOnceIndexedAllocator` | provides the links of the two above |
| `ThreadSafeCounter` | `FThreadSafeCounter`, the operations that are called: the value each leaves and the one it returns | used by `LinkAllocator` and `GraphTask` |
| `GraphTask` | `TGraphTask`, `QueueTask` | over an atomic queue |
| `RenderProgram` | `main`, start-up, thread creation, commands | composes tasks and queue, one step each |
| `Tuple` | `TTuple` as a payload | used by the next three |
| `DelegateValues` | abstract: delegates are variables that hold a binding | |
| `Delegate` | `TDelegate`, its instances and their blocks | implements `DelegateValues` |
| `TypeTraits`, `TupleAccess` | `Invoke.h`; `Get`, `ApplyAfter`, construction and assignment of `TTuple` in all categories | |
| `FunctionRef` | `TFunctionRef` and the stack it points into | |
| `NumericLimits`, `Array` | integer limits by width; `TArray::Reserve` down to the allocator | |
| `Memory` | the free `Memswap`, `Memzero`, `Memmove`, `MemIsZero` on bytes | |
| `DofNumbering`, `BarSystem` | the computation of `TestMITC` | `BarSystem` extends `DofNumbering` |
| `FrameProgram` | all of `TestMITC`, from the input file to the tables | extends `BarSystem` |
| `*Proofs` | theorems about the module they extend, see 5 | |
| `MC*` | instances for TLC | |

The composition of the task graph is by layers. A layer is checked against an
abstract specification, and the layer above uses that specification as one step:
the FIFO in the queue, the LIFO in the allocator, the queue in the tasks and the
program. `MCTemplatePrograms` runs one of the template programs at a time, as
the project builds one at a time.

### What could be added

Every safety property that a passing run checks is stated by a theorem (see 5). What
could be proved beyond them needs other tools: the liveness properties, and what
rounding does to the frame program.

Runs are merged or exchanged rather than added: eight that pass and four that show a
disagreement between the code and its comments (see 6) are what a reader can keep in
mind. A property is there for a hazard, never
for a variable's type. Type invariants are proved; where a run checks a deeper
invariant that contains the types or would fail without them, it does not check
them again.

## 3. How the modules correspond to the code

`PROJECT.json` maps every definition to lines. The conventions:

- In the concurrent modules one action is one access to shared memory, with the
  local computation around it. Thread-local state is a function from threads;
  `pc` names the next access. In the sequential ones an action is a call.
- A definition that begins "Mutant of" is a plausible bug, used to see that a
  property notices it; no specification refers to it.
- A tagged word is `[ptr, counter]`; the counter counts modulo
  `MAX_TagBitsValue`, 2^38 in the code. `CasSucceeds` and `CasFails` are the two
  outcomes of a compare-and-swap.
- `lag` counts how often `MasterState` changed since a thread read it, and
  `NobodyStarves` keeps it below the number of counter values. That is the
  explicit form of what the code relies on: 2^38 changes do not happen between
  two instructions of a thread. In `LockFreeLIFO` the same is said of `Head`, and
  only of threads inside `Pop`: `Push` and `PopAll` may find a recurring head. In
  its instance the bound never holds a thread up, so that `CallsReturn` does not
  rest on it. `LockFreeFIFO` says it of the three words that a call compares and
  swaps, `Head`, `Tail` and the `DoubleNext` behind the tail it saw, again with
  a counter that the instance never uses up. `CounterBefore` of `IndexedPointer`
  is the counter some changes ago.
- The list of `LockFreeLIFO` is the sequence of links that `SingleNext` leads
  through from `Head` to null (`LinkedFrom`), which is unique if there is one.
- Variables whose comment says "history" only record what happened.
- `LinksConserved` of `LinkAllocator` says that the bundles of the threads and of
  the shared list, the links in use and those being cut are a partition of the
  links that `NextIndex` has passed.
- `StallingTaskQueue` gives the class a set of servicing threads, as it is
  written; the program has one per queue, numbered 0.
- In `LockFreeFIFO` any thread may take any free link, which recycles links in
  more ways than the per-thread caches do.
- In `GraphTask` a use of a deleted task is recorded in `undefined` and the task
  stops there. In `RenderProgram` a use of what is not there yet is recorded in
  `badUse`; the fields of a worker that no constructor sets are any value.
- In `Delegate` the pointer of a new delegate is whatever the memory holds, a
  second binding loses the block of the first, and `Unbind` does nothing, as in
  the code. Clients bind before they call and before a delegate ends, as
  `UE_Delegate.cpp` does: the second condition is in `DelegateNext`, not in
  `Destroy`, which frees whatever its pointer happens to hold. `last` keeps the answer
  of the last question; `DelegateValues` says nothing of answers, nor of `Unbind`,
  of which 6 reports what the comments promise. A lambda with state counts its
  calls, up to `MaxCalls`.
- In `FunctionRef` an address is an index of the stack and a slot that was freed
  is used again. `lasting` says of a reference that it was bound to objects whose
  scopes enclose its own; calls through other references have any result, and
  `LastingRefsReach` is silent about them. One that would last if the constructor
  were the one its comment speaks of is in 6.
- In `Array` the block is its size. `QuantizeSize` and `Realloc` have their calls
  of the allocator commented out and answer 0 and null once it exists; the model
  does the same. `SizeBits` is the width of the index type and `SizeTBits` that of
  `SIZE_T`, in which `NumBytes` wraps around; the Win32 builds have the two alike.
- `Memory` has the free `Memswap` (UnrealMemory.h:50-103), for every size;
  `FMemory::Memswap` (200-203) calls itself and is left out.
- In `TupleAccess` a place is a member of a tuple or a variable of the client,
  and `held` the places whose value has not been moved away. Between tuples with
  reference elements of the same type the copy assignment is deleted, and the
  client passes every whole value once.
- `BarSystem` has one action per function that `TestMITC` calls. Doubles are
  elements of the field of integers modulo the prime `P`: + - * / satisfy the laws
  of rational numbers, and results are exact. It shows what holds up to rounding; it
  says nothing about rounding, and a zero pivot modulo `P` may be accidental (with P
  = 89 the same instances are singular as with 101). Loops that add into an array
  are sums (`Total`, modulo `P`), loops that read what they have written are
  recursive functions, `DiagonalAddresses` among them. `GKAssembly` writes the
  matrices of the elements to ElemStiff.dat in their order and `InternalForceCalcu`
  reads them back in the same order; `elemStiff` is indexed by the element. `Legal`
  and `LegalLoads` say what an input file has to obey for the program to make sense
  of it, and `FileAssumption` that a file is as long as its counts say and
  constrains nodes that are there; the program does not look. Reading pDiag[-1]
  (line 1140, when row 0 is not coupled to row 1) has no effect on the result, as
  the loop it controls is then empty, and is left out.
- `FrameProgram` takes a file as the sequence of its numbers and a table as its
  rows, one operator each (`DisplacementTable`, `EndForceTable`, `ReactionTable`);
  headings, widths and precision are left out. So `EchoIsInput` says which number
  goes into which cell, and not that the echo could be read again: the program
  prints six digits in columns of 10 or 12 (lines 586-652), and a value with more
  is rounded or runs into the next one.
- `Resultant` says what a load does to the element it lies on, from the type of the
  load alone; `FixedEndForces` has the formulas of the program as they are. The
  properties `LateralForcesHold` and `MemberLoadsHeld` compare the two, and `Applied`, which
  `ReactionsBalanceLoads` compares the reactions with, is made from `Resultant` and
  the forces on nodes. Where it needs fixed end forces that hold their load, it says
  so: `OnlyHeldTypes`.

Left out on purpose: `FGraphEvent` (leaked by the code, never stored), `Pop` with
`bAllowStall = false`, `IsEmpty` and `GetState`, the queries that delegates have
for a timer manager (no caller), the quit flags (nothing sets them), the
destructors of the lock-free containers (never run), and the exhaustion of 2^26
links (the hook is empty and indexing goes out of range).

## 4. Runs

| run | instance | shows |
|---|---|---|
| `stalling_task_queue` | 2 callers with 1 task, 2 servicing threads, 2 priorities, counter of 3 values | `NoLostWakeup`, `OneWakePerStall`, and the whole inductive invariant of the proofs, types included |
| `lock_free_fifo` | 2 pushers, 2 poppers, 3 links, one pusher may stop for ever | atomic queue, no lost link, no null index followed, null only if it was empty, `CallsReturn` |
| `lock_free_lifo` | 2 threads, 3 calls each, 3 links, counter of 4, one may stop for ever | atomic stack, links conserved, `CallsReturn` |
| `link_allocator` | bundles of 2, pages of 3; 2 threads with three bundles, or 1 thread with four | bundle lengths, each link in one place, page race, links handed out clean |
| `graph_tasks` | 3 tasks, one held, 3 named threads | life of dispatched tasks, no use after deletion, all deleted |
| `hold_queues_at_once` | the same | **violation**, see 6 |
| `render_program` | either main and the rendering thread with 3 workers, 6 commands and the queue as one step; or the queue in detail, with 2 callers of 2 tasks each and 1 servicing thread | start-up order, commands print, in order; `EveryTaskExecuted`, `ImplementsTaskQueue` (with the abstract fairness; the order of tasks is part of it) |
| `frame_program` | 376 inputs (14 structures of 4 nodes under 2 loads) and the two sample files of the repository | numbering, storage, solution, balance of forces; what is echoed, and where the supports are printed; reactions against the loads of the input |
| `support_moves` | the structures with 2 support movements | **violation**, see 6 |
| `member_loads` | a chain of 8 beams with one load of each type | **violation**, see 6 |
| `template_programs` | one at a time: 2 delegates and 3 blocks; 4 objects and 3 frames of references; 2 arrays with a 4-bit index; 33 bytes of memory; 2 tuples and 3 variables | delegates own their block and hold values, references reach their lambda, what is reserved is claimed, bytes are exchanged, elements have the type of `std::get` and are moved only if given up |
| `reserve_keeps_memory` | the same, with a `SIZE_T` in which nothing wraps | **violation**, see 6 |

Why the bounds are enough to mean something. A counter of three values wraps, and
`lag` reaches its bound, so that the case the counter exists for occurs. Two
priorities let a scan pass a queue that is filled behind it. With three links and a
queue of one or two payloads every link is freed and pushed again while others hold
its index. Bundles of two and pages of three make one bundle straddle two pages, as
the 256th of the code does; one thread that reserves a fourth bundle takes one from
the shared list while another lies below it. Three blocks let a delegate lose one
and be copied still. Four objects make a chain of three references, or a shorter one
while the slots of a returned frame are used again. A 4-bit index has 7 as its
largest number, so that what is reserved meets the saturation of the slack, and with
a `SIZE_T` of 4 bits and elements of 3 bytes the product wraps around. The sizes of
`Memswap` take every case of its switch and both kinds of size that it ignores; the
two addresses are 16 apart, so that a word too wide or too far reaches a neighbour.
The element types of the tuples have each reference kind and a qualifier.
`MaxPushes`, `MaxCalls`, `MaxTotalItems`, `MaxOps`, `MaxObjects`, `MaxFrames` and
`MaxCommands` stop the callers and leave the algorithms alone; runs whose callers
stop have `CHECK_DEADLOCK FALSE` for that reason, as the frame program has, which
ends. The structures of `MCBarSystem` have couplings, supports of every kind,
elements in both directions, rows that are shorter than the rows before them
(without those a wrong start of the inner product goes unnoticed), and one that is a
mechanism and cannot be solved. Each property has a mutant of the code in
`PROJECT.json` that TLC finds to violate it.

Fairness. Every thread that is not suspended for ever takes its next step in
the end (weak fairness of its steps), which is what a preemptive scheduler
gives; callers need not call. `Suspended` threads of the lock-free containers
have none inside a call: the others must finish without them, which is what
lock-free means there. `CallsReturn` holds since a compare-and-swap fails only if
another call made progress and the number of calls is bounded.

## 5. Proofs

Eight modules hold theorems. `ProgramsProofs` holds those about the programs of
`src/TMP` and about the render program, which do not depend on each other;
`FrameSolutionProofs` continues `FrameProgramProofs`. None takes anything on trust
but the assumptions on the constants that the modules name; TLC evaluates those in
the runs.

| module | theorem | statement |
|---|---|---|
| `StallingTaskQueueProofs` | `TypeCorrect` | `Spec => [](TypeOK /\ TaskInHand)` |
| | `InductiveInvariant` | `Spec => []InductiveInv` |
| | `NoWakeupIsLost` | `Spec => []NoLostWakeup` |
| | `ExactlyOneWake` | `Spec => []OneWakePerStall` |
| | `ImplementsFIFOs` | `Spec => Abstract!Spec`: every step is a step of `TaskQueue` or a stutter |
| `LockFreeLIFOProofs` | `ListConservesLinks` | `Spec => []LinksConserved` |
| | `ListIsLIFO` | `Spec => ImplementsLIFO`, which is `Abstract!Spec` of `LIFO` |
| `GraphTaskProofs` | `GraphTaskTypeCorrect` | `Spec => []TypeOK` |
| | `LifeInOrder` | `Spec => []DispatchedInOrder` |
| | `OnlyBuiltTasksExecute` | `Spec => []ExecutesBuiltTask` |
| | `NoDispatchedUseAfterDelete` | `Spec => []NoUseAfterDelete` |
| `LockFreeFIFOProofs` | `QueueConservesLinks` | `Spec => []LinksConserved` |
| | `TailStaysOnChain` | `Spec => []TailOnChain` |
| | `PopFindsNext` | `Spec => []NoNullDereference` |
| | `NullMeansQueueWasEmpty` | `Spec => []NullMeansEmpty` |
| | `QueueIsFIFO` | `Spec => ImplementsFIFO`, which is `Abstract!Spec` of `FIFO` |
| `LinkAllocatorProofs` | `Invariant` | `Spec => []IInv` |
| | `BundlesStayFull` | `Spec => []BundlesAreFull` |
| | `NoLinkLostOrShared` | `Spec => []LinksConserved` |
| | `LinksComeClean` | `Spec => []HandedOutClean` |
| | `LinksAreConstructedInPlace` | `Spec => []ConstructedInPlace` |
| `ProgramsProofs` | `DelegateTypeCorrect` | `DelegateSpec => []DelegateTypeOK` |
| | `EveryBlockOwnedOnce` | `DelegateSpec => []OwnedOnce` |
| | `DelegatesAreValues` | `DelegateSpec => ImplementsValues` |
| | `ReferencesInvariant` | `FunctionRefSpec => []RefInv` |
| | `CallsReachTheirLambda` | `FunctionRefSpec => []LastingRefsReach` |
| | `ArrayTypeCorrect` | `ArraySpec => []ArrayTypeOK` |
| | `ReserveCovers` | `ArraySpec => []ReservedIsCounted` |
| | `MemswapExchangesBytes` | `MemorySpec => []MemswapExchanges` |
| | `AccessTypeCorrect` | `AccessSpec => []AccessTypeOK` |
| | `GetReturnsWhatStdDoes` | `AccessSpec => []GetsLikeStd` |
| | `ValuesAreGivenUp` | `AccessSpec => OnlyRvaluesGiveUp` |
|  | `ProgramTypeCorrect` | `Spec => []TypeOK` |
| | `NothingUsedTooEarly` | `Spec => []StartedInOrder` |
| | `CommandsPrintInOrder` | `Spec => []PrintsInOrder` |
| `FrameProgramProofs` | `FrameInvariant` | `FrameSpec => []FrameIInv` |
| | `ComputationInvariant` | `Spec => [](IInv /\ NumberedOnce)` |
| | `DOFsAreNumberedOnce` | `FrameSpec => []NumberedOnce` |
| | `LateralForcesAreHeld` | `FrameSpec => []LateralForcesHold` |
| | `InputIsEchoed` | `FrameSpec => []EchoIsInput` |
| | `SupportsArePrintedAsPrescribed` | `FrameSpec => []PrintedAsPrescribed` |
| `FrameSolutionProofs` | `StiffnessIsAssembled` | `FrameSpec => []StiffnessAssembled` |
| | `DisplacementsAreASolution` | `FrameSpec => [](OneMove => Equilibrium)` |
| | `NodesAreBalanced` | `FrameSpec => [](OneMove /\ OneLoadPerElement => NodesBalance)` |
| | `ReactionsAreBalanced` | `FrameSpec => [](OneMove /\ CoupledTogether /\ OneRowPerNode => ReactionsBalanceLoads)` |

**Stalling queue**, for all sets of pushers and servicing threads, numbers of
priorities and tasks, and counter sizes, from `TagBitsAssumption` (the counter
has at least the values that the module names) and `QueueAssumption` (threads are
numbers, callers are not threads). "All asleep on a full queue" is excluded by
`NoLostWakeup` only together with why a thread that goes to sleep was right to.

1. `NoABA`: a thread's copy of `MasterState` equals the word if and only if it
   did not change since it was read. This is where the counter and
   `NobodyStarves` enter: stall bits alone return to old values.
2. `ScanIsCurrent`: if the word did not change since a thread began to scan, a
   queue it has passed is nonempty only if its pusher is still to announce the
   task. So when the stalling compare-and-swap succeeds, a nonempty queue has a
   pusher in `Announcing`, which is `NoLostWakeup` for the new state.
3. `WakersTrigger` and `OneWakePerStall`: a stall bit, a pusher on its way to
   signal and a set event exclude each other, hence a pusher that clears a bit
   makes the only wake-up of that thread.
4. `TaskInHand` ties `item` to the program counter; the type of what is executed
   and the refinement need it.

**Lock-free stack**, for any links, threads, calls and counter sizes, from
`LIFOAssumption` (links are numbers other than 0, and finitely many). What makes
it hard is that `Pop` reads `SingleNext` of a link that may be somebody else's.

1. `ListEnds`: from `Head`, `SingleNext` leads to null through no link twice. The
   sequence is unique (`ChainIs`), by a least place where two would differ.
2. `ItemInHand` and `WritesItsOwn`: a thread writes the `SingleNext` of links it
   holds and of no others; with `LinksConserved` nobody writes to a listed link.
3. `NoABA`, as for the stalling queue but for poppers only, and `NextIsCurrent`:
   if `Head` did not move since a popper read it, the successor the popper read is
   still the one of the first link. So the compare-and-swap that succeeds
   installs the tail of the list.
4. `ListStep`: every step of `Inv` is a push, a pop, a pop of everything, or
   leaves list and holders alone. Conservation and the refinement both follow.

`Push` and `PopAll` appear in step 3 not at all: their compare-and-swaps are right
whether or not `Head` changed in between and came back.

**Lock-free queue**, for any links, pushers, poppers, numbers of pushes and
counter sizes, from `FIFOAssumption`. It is harder than the stack since two words
move, `Tail` may lag, and `Pop` reads three words one after the other.

1. `ListEnds`: from `Head`, `DoubleNext` leads to an end through no link twice,
   and `Tail` is its last link or the one before. With `LinksConserved` the links
   of this chain, those in hand and the free ones are all links, each once.
2. `HeadNoABA`, `TailNoABA`, `NextNoABA`: a copy is current exactly if nothing
   changed since it was read. `DoubleNext` needs its own form, as freeing a
   link clears the index and keeps the counter.
3. `ItemInHand`: a link that is being pushed leads nowhere and carries its payload.
4. `TailCopies`: a pusher whose compare-and-swap of `DoubleNext` is to succeed
   still sees the last link, since whoever moves `Tail` first links behind it.
   So an old `Tail` that was freed and pushed again is not appended to.
5. `HeadCopies`: a popper that found `Tail` elsewhere than `Head` may move `Head`,
   since `Tail` does not come back to `Head` while `Head` stays; the payload it
   read before is that of the link it installs; and if it found nothing behind
   `Head`, the queue was empty at that moment.

Every step of the conjunction is a push, a pop or a stutter of `FIFO`; the
payload of the stub is of no one.

**Link allocator**, for any threads, bundle and page sizes and numbers of links,
from `AllocatorAssumption`. A bundle is a chain of `Payload`s that ends after the
right number of links (`LinkedBundle`), and its links are those that the model's
recursive function `Bundle` collects: that the two agree, that a chain has no
second one, and that a chain is kept if none of its links is written to, are
shown by a smallest counterexample, as the library's induction cannot be used.
`IInv` adds to `LinksConserved` where a thread is in `Pop` (`CutInOrder`: new
links are cut only with both bundles used up, so that the writes of one thread
meet no bundle of another), what the links of a bundle hold (`BundlesClean`: the
shared list writes to `SingleNext` of its own links only, and a pop clears it),
and that a link below `NextIndex` is constructed in the page that was installed
or is still to be constructed by the thread that cut it (`ConstructedOrCut`).

**Graph tasks**, for any tasks, any of them held, and any threads. A held task
breaks its promise (see 6): it is queued twice and may be used after its
deletion. The invariant `LifeInv` shows that this cannot touch a dispatched one:
such a task is in one of six situations, each of which fixes where its creator
is, what its memory holds, the stages it has gone through, and that it is in the
queue at most once or in the hands of the rendering thread, never both.

**Program**, for any number of workers and commands. `WorkersInv` and `StartInv`
say what main has set up at each point where it is, and that the operating
system's thread runs only at the last of them. For the order of printing: the
commands printed and those queued together are the numbers counted so far, and
no number printed is greater than the counter.

**Delegates**, for any delegates, blocks, functions and payloads. The type
invariant and `OwnedOnce` are inductive together: a binding takes a block that
nobody owns and so cannot overwrite an instance in use, a destructor frees a
block that nobody else points to. Under the mapping "the value of a bound
delegate is the instance in its block" every step is then a step of
`DelegateValues`; a copy is one because the block is new. All of this is for
clients that bind a delegate before it ends (`DelegateSpec`), and about what
delegates hold and do when they are called; what they answer is not part of it.

**Function references**, for any lambdas, depth of calls and stack. `RefInv`:
frames are nested, and a lasting reference points to an older lasting object that
was meant for the same lambda. A return cuts the stack at a frame, and what it
cuts no lasting object below refers to. That a chain of such references ends at
its lambda in at most as many calls as there are objects is an induction over
the address. The library's induction theorems take an operator; the module uses
one about sets of numbers, derived from the well-foundedness of `<`.

**Arrays**, for every width of the index and of `SIZE_T` and every size of an
element. A slack computed in bytes, which may wrap around, and narrowed is some
value of the index type, and the comparison after it makes it at least what was
asked for; so whatever `ArrayMax` was before, it is never below what was reserved
(`ReservedIsCounted`). That is what an array claims. That there is memory behind
the claim does not hold (`ReserveReserves`, see 6), so no theorem says it.

**Memory**, for any bytes and two ranges that do not overlap. Every size of the
switch is a row of word exchanges; a lemma about one exchange and one about a row
say which bytes have changed and that no others have. Blocks of 0 to 8 and of 16
bytes are exchanged; blocks of any other size, which the switch does not have, are
left as they are, and the property says both.

**Tuples**, for every element type, qualifier and category. A type is given by
its object, its qualifiers and its reference; the traits are computed on these
three parts, and the cases value, lvalue reference and rvalue reference of an
element are compared with the rule of `std::get`. That values move only from what
the client gave up (`OnlyRvaluesGiveUp`) then needs two more things: the fold of
`TransferAll`, whatever places the elements share, takes from the places of its
rvalue arguments only and fills only those of its elements (`TransferGivesAndFills`,
an induction over the number of the last element), and no value outlives the
function in one of its parameters (`AccessInv`), which are objects of their own
(`ParametersAssumption`).

**Frame program**, for any set of files that `FileAssumption` admits. What is
numbered: a rank counts the degrees of freedom before one in the order of the
loops, so the ranks in a finite set are the numbers below its size, each once
(`NumberedOnce`).

What is assembled (`StiffnessAssembled`), along four facts:

1. Modulo a prime everything but 0 has a reciprocal: the smallest remainder of
   the multiples of `a` divides `P`, or the remainder of `P` by it were smaller
   (`UnitsExist`). So `Div` is defined where the code divides by a length.
2. The matrix of an element is the bilinear form of its local stiffness, turned
   by its rotation, for the table that the truss writes out as for the product of
   three matrices of the frame (`ElementStiffness`), and so it is symmetric; and
   the answer to a displacement of 1 at some places is the sum of its columns
   there (`UnitResponse`).
3. Every element of the profile has an address of its own in the stored array
   (`OwnAddress`), and the degrees of freedom that a bar couples lie in the
   profile (`CoupledInProfile`), as the half band of a row begins at the smallest
   number that shares a bar with it.
4. What is stored at an address is therefore the sum of the blocks of its row and
   column, and no other; outside of the profile the blocks are empty; the upper
   triangle is the lower one by the symmetry.

The assumptions are those a structure meets: positions and stiffnesses are
numbers, and every element has a length other than 0 (`Measured`), by which the
code divides without a test; so has a heated beam a height (`LegalLoads`).

What is solved (`Equilibrium`), as long as one support moves at most (`OneMove`;
with two the property is violated, finding 2):

1. Where the factorisation has come to an address, every element before it is
   what it is reduced to, and those after it are as assembled (`Reduced`,
   `FactorIs`); an element that lies outside of the stored part of its row is 0
   in the factor too. So, once the last row is reduced and no pivot was 0, the
   stored triangle is the factor of the unknown part of the stiffness:
   its product with its transpose and the reciprocals of the pivots is that part.
2. The two substitutions solve with the two factors (`ForwardIs`, `BackwardIs`),
   the second although it looks at a shrinking range of rows: a row that the
   range has dropped does not reach any column to the left. Together they solve
   the equations (`SubstitutionsSolve`, `LDLTSolveSolves`), and leave the
   displacements of the supports alone.
3. Before that, every load has added what it gives to its row, and the move of the
   support has taken its column off (`LoadStep`, `VectAfterLoads`), so that the
   right hand side is the load less what the supports hold (`RightHandSideIsSet`).
4. A row of the stiffness is its unknown part and its supports' (`RowSplits`), so
   the equations of the unknown part are those of the whole (`SolutionBalances`).

The recursive functions of `LDLTSolve` and `LoadVectorAssembly` are reasoned about
by the smallest prefix that goes wrong. `Loaded` is what the steps hand on;
with it `Equilibrium` is inductive (`SolvedIInv`).

What balances at the nodes (`NodesBalance`), if moreover no element has two loads
between its ends (`OneLoadPerElement`; the second would replace the end forces of
the first):

1. The end forces that an element answers with, turned to global directions, are
   the rows of its matrix times the displacements (`Response`); over all elements
   they are the row of the stiffness (`ElementsMakeStiffness`).
2. What the loads hold an element with is the opposite of what they do to its nodes
   (`HeldEndsOfElement`, `HeldEndsAddUp`), and `LoadVectorAssembly` leaves every
   element with just that (`HeldEndsAreSet`). So the end forces at a degree of
   freedom are the stiffness times the displacements, less what the loads between
   the ends do there (`EndsAddUp`): at an unknown one the force on the node.
3. `LDLTSolve` overwrites the rows of the unknown degrees of freedom only: the
   first support's row begins behind the last address that it touches
   (`SupportRowsStay`). So `SupportReactionCalcu` multiplies with the stiffness,
   and what it finds is what the end forces lack at a support.

`SupportRows` and `Carried` are what the steps hand on from the loads to the
reactions; with them and `SolvedIInv`, `NodesBalance` is inductive (`BalancedIInv`).

What holds the whole structure (`ReactionsBalanceLoads`), if nodes that share a
number are in one place (`CoupledTogether`) and no node has two rows of constraints,
by which its reactions would be printed twice (`OneRowPerNode`), and the loads
between the ends of elements are of the types that the fixed end forces hold
(`OnlyHeldTypes`, a hypothesis of the property itself). The loads are those of the
input, not what the program makes of them. Two loads on one
element do no harm here. The property speaks of a force or a moment about the
origin; each is the work done when the structure moves by one, or turns by one, as
a whole (`Swing`, `ActionIsWork`).

1. An element that moves or turns with the structure is not strained
   (`TrussUnstrained`, `FrameUnstrained`, identities of the rotation and the local
   stiffness), so its stiffness makes nothing of it (`RigidMotionIsFree`). As the
   stiffness is symmetric, what it makes of any displacements does no work
   (`ElementIsBalanced`): the element is in equilibrium.
2. Number by number instead of element by element this is the sum over all rows of
   the stiffness times the displacements, `RowsAreBalanced`. It is here that a
   number which several nodes share must be displaced by the same at each of them.
3. The loads are such a sum as well. A load on a node is one by itself. A load
   between the ends is met by the clamped ends, which push the nodes as the load
   would: for lateral forces, uniform pressures and temperatures, the types of
   `HeldTypes`, this is where the formulas of `FixedEndForceCalcu` are compared with
   the load itself (`ClampParts`, `HeldLoadPushes`, `AppliedIsPushed`), and it is not
   true of the others. What the ends push is the sum over the rows of the load vector
   (`MemberPush`, `LoadWork`, `PushedIsWork`).
4. `Supports` gathers every constrained node that is held, once
   (`SupportsAreGathered`, by the smallest prefix that goes wrong), and the cells of
   its row that count are the reactions (`RowIsWork`). So the table is the sum over
   the known degrees of freedom (`TableIsWork`) and, as each has a number of its
   own from `nFreeDOF` on, over the numbers (`ReactionWork`).
5. In every row the reaction and the load are what the stiffness makes of the
   displacements: by `Equilibrium` where there is no reaction, by `SupportRows`
   where there is one (`RowsAreAnswered`). Summed up, they are zero.

What clamped elements hold (`LateralForcesHold`): an element's end forces are zero
before the loop over the loads, and the loop assigns what it keeps of a load's
fixed end forces, so that the only load on an element leaves exactly these
(`Clamped`, `ForceAfterLoads`). A quotient `c = a / l` of the program satisfies
`c * l = a` modulo `P` (`DivSolves`); with it, the sum of the forces and the sum of
the moments are combinations of such equations, identities of cubic polynomials
(`LateralForceHeld`, `UniformPressureHeld`), for a load anywhere on the line of
the element. Two loads on one element are outside of it: the second replaces the
forces of the first.

What is echoed (`EchoIsInput`): the rows that are read from a section, put one after
the other, have the numbers of the part of the file they were read from, in their
order (`RowsSpell`); the parts of the sections lie one behind the other, from the
first number to the last that the counts promise (`SectionsLie`); and parts that lie
so join to the file (`PartsJoin`, `FlattenSpells`). A file is a sequence of integers
whose counts are natural numbers, and as long as they say.

What is printed: `pDisp` at a support is the sum of its
movements after the loads have been assembled, since the order of the additions
does not matter (`SumOver` and its lemmas replace the fold of `Total`); the
solver writes below `nFreeDOF` only (shown for every prefix of its loops by a
smallest counterexample, after the recursive functions are shown to exist); and
the tables are rows of `DOFIndexes`.

`IInv` is what the steps hand on to each
other, `FrameIInv` where the computation stands when the program prints.

Each invariant was checked by TLC first. Proofs have a lemma per part and a step
per action.

Only model-checked:

- liveness (`EveryTaskExecuted`, `CallsReturn`, `DispatchedIsDeleted`,
  `EveryCommandPrints` and the fairness part of `ImplementsTaskQueue`): the prover
  cannot reason about fairness.

Of the properties of the frame program, `Equilibrium`, `NodesBalance` and
`ReactionsBalanceLoads` are proved under the conditions on the input that their
theorems name, and are not true without them: a second movement of a support is
subtracted twice, the end forces of two loads on one element overwrite each other
(see 6), loads of the other types are lost or held by wrong forces, and a coupling
between distant nodes is a lever that nothing holds. The
program does not check them; the inputs of the run and the sample files meet them.

`NobodyStarves` excludes a full cycle of the 38-bit counter between two instructions
of one thread; neither runs nor proofs say what would happen then.

## 6. Findings

Shown by a run:

1. `hold_queues_at_once`, TaskGraphInterfaces.h:412. `Hold` passes `bUnlock`
   where `PrerequisitesComplete` expects a count, whose use is commented out, so
   a held task is queued at once, although line 436 promises that it is not
   allowed to dispatch yet; `Unlock` then queues it again or uses it after its
   deletion. The program has no caller of `ConstructAndHold`.
2. `support_moves`, CommandType.cpp:1260. Every movement of a support subtracts
   the effect of all movements so far: with two, the first counts twice and the
   displacements do not satisfy the equilibrium equations.
3. `member_loads`, CommandType.cpp:1412, 1357, 1367, 1380. Lines 1278-1285 say of eight
   types of member loads that they are handled. For five of them the fixed end forces do
   not hold the element under the load:
   - the axial forces of `AXIAL_PRESSURE` and `AXIAL_FORCE` are computed (1371-1376)
     and dropped (1412), so that such a load has no effect on any result;
   - `dYi` and `dYj` of `MOMENT_ON_A_POINT` have each other's sign (1357-1358);
   - `dMi` and `dMj` of `LATERAL_LINEARLY_PRESSURE` have the wrong sign, and `dMj` the
     coefficient 0.5 instead of 0.8 (1367-1368);
   - `dYi` and `dYj` of `MOMENT_ON_BEAM` have each other's sign (1380-1381).

   With the signs and the coefficient put right the forces hold the element, and with
   the opposite sign of the load, as they are, they do not. The last state of the
   counterexample has the end forces of a beam under each type.
4. `reserve_keeps_memory`, FMemory.inl:36. `QuantizeSize` answers 0 once the
   allocator exists although UnrealMemory.h:238 says "The return value will always
   be >= Count", and `Realloc` answers null. The second `Reserve` that grows any
   array leaves it with the largest `ArrayMax` and no block, although Array.h:91
   promises memory for the number.

Read in the code, without a run:

- Task graph. `QueueTask` sends every task to the rendering thread whatever
  `GetDesiredThread` says (TaskGraph.cpp:316; `FRenderCommand` says `RHIThread`).
  The lazy construction in `GetLockFreeAllocator` has no lock; it is safe only
  because the FIFO constructors on the main thread come first, which
  `StartedInOrder` shows. The loser of the page race frees with `::free` a block
  from `mi_malloc_aligned` (LockFreeList.h:82). `main` calls a static function
  through the null singleton, which is harmless.
- Delegates. Four calls do something else than their comments say:
  - the constructor does not set `ptr` although DelegateBase.h:16 says "Creates and
    initializes a new instance", and the destructor deletes it (28): a delegate that
    ends unbound deletes what its pointer happens to hold, the block of another one
    perhaps. `OwnedOnce` holds for clients that bind first;
  - `ExecuteIfSafe` of a functor answers true although the line that would call it is
    commented out (DelegateInstancesImpl.h:134); DelegateInstanceInterface.h:27 says
    "Returns true if the function was executed";
  - `IsBoundToObject` has its call of `HasSameObject` commented out and is true of any
    object that is not null (DelegateBase.h:218); DelegateInstancesImpl.h:108 and 214
    say that functors and functions "can never match";
  - `Unbind` does nothing, its body being commented out (DelegateBase.h:58); line 56
    says "Unbinds this delegate".

  A second binding leaks the block of the first, and leaves no destructor run.
- Function references. `UE_Function.cpp:126` calls through the member of `abe_b`,
  which refers to a lambda that was a temporary of the declaration before and is
  gone; the result of `GetTransform` (93-104) refers to a lambda of the function.
  The model has both (`DeclareRefToTemporary`, `ReturnRef`); such calls have any
  result, and `LastingRefsReach` is not about them. The constructors that the comments
  at Function.h:213 and 221 call disabled for references are not, the condition
  (203-208) being commented out: a copy refers to the reference it was made from,
  so that a copy of a parameter dangles when it is returned although the lambda of
  the parameter lives on.
- Arrays and memory. `TArray` has no constructor that sets its members, and its
  destructor frees nothing. In Win32 builds the products in bytes wrap around in
  `SIZE_T` (ContainerAllocationPolicies.h:28, 117, 126), and the block is smaller than
  `ArrayMax` says. `GCreateMalloc` creates an object of the abstract class `FMalloc`
  (UnrealMemory.cpp:89, MemoryBase.h:11), which no compiler accepts; the model takes
  some allocator in its place. `Memswap` does nothing for the sizes 9 to 15 and above
  16, and `FMemory::Memswap` (UnrealMemory.h:200-203) calls itself for ever, its own
  name hiding the free function.
- Tuples. `Get` names the member `Value`, which the first element of a pair does
  not have (it is `Key`): tuples of two do not compile where they are read.
- Frame program. Of a temperature the axial part is dropped as that of an axial load is
  (1398-1399). Loads on the same element overwrite
  each other's share of `daEndInterForce` (line 1406). A degree of freedom coupled
  to one of a later node that is itself coupled copies a code instead of a number
  (line 768). `SupportReactionOutput` prints the load, not a reaction, for the
  free directions of a support. The comment at line 407 says that 1 means "known";
  the code and the sample input use -1, and the model follows the code.

## 7. Not modelled

| part | why |
|---|---|
| mimalloc (`src/UE/temp`) | vendored third-party headers and libraries |
| compile-time demos (`src/TMP`: TMP.cpp, enable_if*, SFINAE, UE_Child, ...) | decided by the compiler, no run-time state |
| persistent auxiliary allocator and string program (UnrealMemory.cpp:180-240, String.cpp, UnrealString.h) | bodies commented out or a few statements without state |
| `FMemory::Memswap` (UnrealMemory.h:200-203) | calls itself and never returns |
| `Subtract`, `Set`, `Reset` and `GetValue` of the thread-safe counter | no caller |
| language demos of `src/filamentNotes` | short programs without state of their own |
| array experiments (`src/algorithm`) | the behaviour is that of MFC and of `std::deque` |
| MFC dialog (`src/mfc`), `src/SyntaxExample` | wizard output, a `main` of a few lines |
| widths, precision and wording of printed tables, rounding of doubles | numbers are exact and cells have no width |

What remains of the covered files are comments, which in the re-creations of
engine code make up most lines, and declarations.
