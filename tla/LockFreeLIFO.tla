---------------------------- MODULE LockFreeLIFO ----------------------------
(***************************************************************************)
(* FLockFreePointerListLIFORoot (UE/LockFreeList.h): the lock-free stack   *)
(* on which the link allocator keeps its bundles.  Head packs the index of *)
(* the top link with a counter; the links are chained by SingleNext, which *)
(* is an ordinary field: a popper reads it from a link that another thread *)
(* may have popped, cleared and pushed again in the meantime.              *)
(*                                                                         *)
(* One action is one access to shared memory.                              *)
(***************************************************************************)
EXTENDS IndexedPointer, Integers, SequencesExt

CONSTANTS Links,      \* link indices; the null index 0 is not one of them
          Procs,      \* threads that push and pop
          Suspended,  \* threads that may stop for ever in the middle of a call
          MaxCalls    \* bound: calls each thread makes

ASSUME LIFOAssumption ==
    /\ Links \subseteq Nat \ {0} /\ IsFiniteSet(Links)
    /\ Suspended \subseteq Procs /\ MaxCalls \in Nat

VARIABLES
    head,        \* Head
    singleNext,  \* SingleNext of each link
    pc,          \* where each thread is in Push, Pop or PopAll
    localHead,   \* LocalHead of each thread
    item,        \* Item of each thread
    newNext,     \* the SingleNext that Pop read for NewHead
    held,        \* the links each thread holds
    calls,       \* calls each thread has made
    lag          \* changes of Head since a popper read it (history, for the bound)

vars == <<head, singleNext, pc, localHead, item, newNext, held, calls, lag>>

Goto(x, label) == pc' = [pc EXCEPT ![x] = label]

\* The call returns; its locals go out of scope.
Return(x) ==
    /\ Goto(x, "idle")
    /\ localHead' = [localHead EXCEPT ![x] = SetAll(0, 0)]
    /\ item' = [item EXCEPT ![x] = 0]
    /\ newNext' = [newNext EXCEPT ![x] = 0]

\* A call of one of the three methods.
Call(x, label) ==
    /\ pc[x] = "idle" /\ calls[x] < MaxCalls
    /\ calls' = [calls EXCEPT ![x] = @ + 1]
    /\ Goto(x, label)

\* Pop between its read of Head and the compare-and-swap that installs a
\* SingleNext read in between: the one method a recurring Head would mislead.
Holding(x) == pc[x] \in {"popNext", "popCas"}

\* Bound on starvation: no other thread has held its copy of Head inside Pop for
\* as many changes as the counter has values (2^38 in the code).
NobodyStarves(x) ==
    \A y \in Procs \ {x} : Holding(y) => lag[y] + 1 < MAX_TagBitsValue

\* Head.InterlockedCompareExchange(NewHead, LocalHead) with NewHead = <<ptr, next
\* counter>>, when it succeeds ...
CasHead(x, ptr) ==
    /\ head = localHead[x]
    /\ NobodyStarves(x)
    /\ head' = SetAll(ptr, AdvanceCounter(localHead[x]))
    /\ lag' = [y \in Procs |-> IF y # x /\ Holding(y) THEN lag[y] + 1 ELSE 0]

\* ... and when it does not.
CasFails(x) ==
    /\ head # localHead[x]
    /\ lag' = [lag EXCEPT ![x] = 0]
    /\ UNCHANGED head

-----------------------------------------------------------------------------
(* Push *)

PushCall(x) ==
    /\ Call(x, "pushRead")
    /\ \E link \in held[x] : item' = [item EXCEPT ![x] = link]
    /\ UNCHANGED <<head, singleNext, localHead, newNext, held, lag>>

PushRead(x) ==
    /\ pc[x] = "pushRead"
    /\ localHead' = [localHead EXCEPT ![x] = head]
    /\ Goto(x, "pushLink")
    /\ UNCHANGED <<head, singleNext, item, newNext, held, calls, lag>>

\* SingleNext of the item, which is not shared yet.
PushLink(x) ==
    /\ pc[x] = "pushLink"
    /\ singleNext' = [singleNext EXCEPT ![item[x]] = localHead[x].ptr]
    /\ Goto(x, "pushCas")
    /\ UNCHANGED <<head, localHead, item, newNext, held, calls, lag>>

\* Mutant of PushCas: after a failure Head is not read again.
PushCasNoReread(x) ==
    /\ pc[x] = "pushCas"
    /\ \/ /\ CasHead(x, item[x])
          /\ held' = [held EXCEPT ![x] = @ \ {item[x]}]
          /\ Return(x)
       \/ /\ CasFails(x)
          /\ Goto(x, "pushLink")
          /\ UNCHANGED <<localHead, item, newNext, held>>
    /\ UNCHANGED <<singleNext, calls>>

PushCas(x) ==
    /\ pc[x] = "pushCas"
    /\ \/ /\ CasHead(x, item[x])
          /\ held' = [held EXCEPT ![x] = @ \ {item[x]}]
          /\ Return(x)
       \/ /\ CasFails(x)
          /\ Goto(x, "pushRead")
          /\ UNCHANGED <<localHead, item, newNext, held>>
    /\ UNCHANGED <<singleNext, calls>>

-----------------------------------------------------------------------------
(* Pop *)

PopCall(x) ==
    /\ Call(x, "popRead")
    /\ UNCHANGED <<head, singleNext, localHead, item, newNext, held, lag>>

\* An empty list ends the call.
PopRead(x) ==
    /\ pc[x] = "popRead"
    /\ IF head.ptr = 0 THEN Return(x)
       ELSE /\ localHead' = [localHead EXCEPT ![x] = head]
            /\ item' = [item EXCEPT ![x] = head.ptr]
            /\ Goto(x, "popNext")
            /\ UNCHANGED newNext
    /\ UNCHANGED <<head, singleNext, held, calls, lag>>

\* Mutant of PopNext: SingleNext is cleared before the link was taken.
PopNextClears(x) ==
    /\ pc[x] = "popNext"
    /\ newNext' = [newNext EXCEPT ![x] = singleNext[item[x]]]
    /\ singleNext' = [singleNext EXCEPT ![item[x]] = 0]
    /\ Goto(x, "popCas")
    /\ UNCHANGED <<head, localHead, item, held, calls, lag>>

\* SingleNext of a link that may be somebody else's by now.
PopNext(x) ==
    /\ pc[x] = "popNext"
    /\ newNext' = [newNext EXCEPT ![x] = singleNext[item[x]]]
    /\ Goto(x, "popCas")
    /\ UNCHANGED <<head, singleNext, localHead, item, held, calls, lag>>

PopCas(x) ==
    /\ pc[x] = "popCas"
    /\ \/ /\ CasHead(x, newNext[x])
          /\ held' = [held EXCEPT ![x] = @ \cup {item[x]}]
          /\ Goto(x, "popClear")
       \/ /\ CasFails(x)
          /\ Goto(x, "popRead")
          /\ UNCHANGED held
    /\ UNCHANGED <<singleNext, localHead, item, newNext, calls>>

\* SingleNext is cleared after the link was taken.
PopClear(x) ==
    /\ pc[x] = "popClear"
    /\ singleNext' = [singleNext EXCEPT ![item[x]] = 0]
    /\ Return(x)
    /\ UNCHANGED <<head, held, calls, lag>>

-----------------------------------------------------------------------------
(* PopAll *)

\* The links reached from "first" by SingleNext are those of s, in this order.
LinkedFrom(next, first, s) ==
    /\ first = IF s = <<>> THEN 0 ELSE s[1]
    /\ IsInjective(s)
    /\ \A k \in DOMAIN s : next[s[k]] = IF k = Len(s) THEN 0 ELSE s[k + 1]

\* That sequence; empty if there is none, which ListEnds excludes.
ChainOf(next, first) ==
    LET chains == {s \in SeqOf(Links, Cardinality(Links)) : LinkedFrom(next, first, s)}
    IN  IF chains = {} THEN <<>> ELSE CHOOSE s \in chains : TRUE

\* The list that starts with a link.
Chain(first) == ChainOf(singleNext, first)

PopAllCall(x) ==
    /\ Call(x, "allRead")
    /\ UNCHANGED <<head, singleNext, localHead, item, newNext, held, lag>>

PopAllRead(x) ==
    /\ pc[x] = "allRead"
    /\ IF head.ptr = 0 THEN Return(x)
       ELSE /\ localHead' = [localHead EXCEPT ![x] = head]
            /\ item' = [item EXCEPT ![x] = head.ptr]
            /\ Goto(x, "allCas")
            /\ UNCHANGED newNext
    /\ UNCHANGED <<head, singleNext, held, calls, lag>>

\* The caller gets the whole chain, links as they are.
PopAllCas(x) ==
    /\ pc[x] = "allCas"
    /\ \/ /\ CasHead(x, 0)
          /\ held' = [held EXCEPT ![x] = @ \cup ToSet(Chain(item[x]))]
          /\ Return(x)
       \/ /\ CasFails(x)
          /\ Goto(x, "allRead")
          /\ UNCHANGED <<localHead, item, newNext, held>>
    /\ UNCHANGED <<singleNext, calls>>

-----------------------------------------------------------------------------

\* Reset, and the links shared out among the threads in some way.
Init ==
    /\ head = SetAll(0, 0)
    /\ singleNext = [link \in Links |-> 0]
    /\ pc = [x \in Procs |-> "idle"]
    /\ localHead = [x \in Procs |-> SetAll(0, 0)]
    /\ item = [x \in Procs |-> 0]
    /\ newNext = [x \in Procs |-> 0]
    /\ \E owner \in [Links -> Procs] :
         held = [x \in Procs |-> {link \in Links : owner[link] = x}]
    /\ calls = [x \in Procs |-> 0]
    /\ lag = [x \in Procs |-> 0]

Step(x) ==
    \/ PushRead(x) \/ PushLink(x) \/ PushCas(x)
    \/ PopRead(x) \/ PopNext(x) \/ PopCas(x) \/ PopClear(x)
    \/ PopAllRead(x) \/ PopAllCas(x)

Next == \E x \in Procs : PushCall(x) \/ PopCall(x) \/ PopAllCall(x) \/ Step(x)

Spec == Init /\ [][Next]_vars

\* Whoever is not suspended keeps running its call.
FairSpec == Spec /\ \A x \in Procs \ Suspended : WF_vars(Step(x))

-----------------------------------------------------------------------------
(* Properties. *)

\* Every link is in exactly one place, on the list or with one thread: nothing is
\* handed out twice and nothing is lost, whatever a stale SingleNext said.
LinksConserved ==
    LET listed == ToSet(Chain(head.ptr)) IN
    /\ Links = listed \cup UNION {held[x] : x \in Procs}
    /\ \A x \in Procs : held[x] \cap listed = {}
    /\ \A x, y \in Procs : x # y => held[x] \cap held[y] = {}

\* Seen from its callers the list is an atomic stack.
Abstract == INSTANCE LIFO WITH stack <- Chain(head.ptr)
ImplementsLIFO == Abstract!Spec

\* Lock freedom: a suspended thread does not keep the others from returning.
CallsReturn ==
    \A x \in Procs \ Suspended : pc[x] \in {"pushRead", "popRead", "allRead"} ~> pc[x] = "idle"

-----------------------------------------------------------------------------
(* What makes LinksConserved and ImplementsLIFO inductive. *)

\* Where a thread can be.
Points == {"idle", "pushRead", "pushLink", "pushCas", "popRead", "popNext", "popCas",
           "popClear", "allRead", "allCas"}

HeadTypeOK ==
    /\ head \in IndexedPointers(Links \cup {0})
    /\ localHead \in [Procs -> IndexedPointers(Links \cup {0})]
    /\ lag \in [Procs -> 0 .. MAX_TagBitsValue - 1]

LinkTypeOK ==
    /\ singleNext \in [Links -> Links \cup {0}]
    /\ item \in [Procs -> Links \cup {0}]
    /\ newNext \in [Procs -> Links \cup {0}]
    /\ held \in [Procs -> SUBSET Links]

ControlTypeOK == pc \in [Procs -> Points] /\ calls \in [Procs -> 0 .. MaxCalls]

TypeOK == HeadTypeOK /\ LinkTypeOK /\ ControlTypeOK

\* As long as nobody starves, a popper's copy of Head equals Head exactly if
\* nothing changed since it was read: the counter rules out ABA.
NoABA ==
    \A x \in Procs :
        IF Holding(x)
        THEN /\ localHead[x].counter = CounterBefore(head.counter, lag[x])
             /\ lag[x] = 0 => localHead[x] = head
        ELSE lag[x] = 0

\* SingleNext leads from Head to the null index, through no link twice.
ListEnds == \E s \in Seq(Links) : LinkedFrom(singleNext, head.ptr, s)

\* A thread works on a link that it holds, or on the one its copy of Head names;
\* a pusher's link leads to the Head it read.
ItemInHand ==
    \A x \in Procs :
        /\ pc[x] \in {"pushRead", "pushLink", "pushCas", "popClear"} => item[x] \in held[x]
        /\ pc[x] = "pushCas" => singleNext[item[x]] = localHead[x].ptr
        /\ pc[x] \in {"popNext", "popCas", "allCas"} =>
              item[x] = localHead[x].ptr /\ item[x] # 0

\* If Head has not moved since a popper read it, what the popper then read from
\* SingleNext is still there.
NextIsCurrent ==
    \A x \in Procs : pc[x] = "popCas" /\ lag[x] = 0 => newNext[x] = singleNext[item[x]]

Inv ==
    /\ TypeOK /\ NoABA /\ ListEnds /\ ItemInHand /\ NextIsCurrent
    /\ LinksConserved
=============================================================================
