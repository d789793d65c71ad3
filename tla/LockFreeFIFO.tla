---------------------------- MODULE LockFreeFIFO ----------------------------
(***************************************************************************)
(* FLockFreePointerFIFOBase (UE/LockFreeList.h): the two-pointer lock-free *)
(* queue that holds the tasks of one priority.  Head points to a stub link *)
(* whose DoubleNext chain carries the payloads; Tail points to the last    *)
(* link or lags behind it.  Links are recycled: a popped stub goes back to *)
(* the allocator, keeps its DoubleNext counter, and may be pushed again    *)
(* while other threads still hold its index.                               *)
(*                                                                         *)
(* One action is one access to a shared word.  The allocator is a pool of  *)
(* links that any thread may take from (see LinkAllocator): a coarser and  *)
(* more hostile recycler than the per-thread caches of the code.           *)
(***************************************************************************)
EXTENDS IndexedPointer, Integers, Sequences, FiniteSets, Functions

CONSTANTS Links,      \* link indices; the null index 0 is not one of them
          Stub,       \* the link the constructor allocates
          Pushers, Poppers,
          Suspended,  \* threads that may stop for ever in the middle of a call
          MaxPushes   \* bound: payloads each pusher pushes

ASSUME FIFOAssumption ==
    /\ Links \subseteq Nat \ {0} /\ IsFiniteSet(Links) /\ Stub \in Links
    /\ Pushers \cap Poppers = {}
    /\ Suspended \subseteq Pushers \cup Poppers
    /\ MaxPushes \in Nat

Procs == Pushers \cup Poppers
NoPayload == <<>>
Payloads  == Pushers \X (1 .. MaxPushes)
Word      == IndexedPointers(Links \cup {0})
NullWord  == SetAll(0, 0)

VARIABLES
    head, tail,  \* Head and Tail
    doubleNext,  \* DoubleNext of each link
    payload,     \* Payload of each link
    free,        \* links that the allocator can hand out
    pc,          \* where each thread is in Push or Pop
    localHead, localTail, localNext,  \* LocalHead, LocalTail, LocalNext
    item,        \* the link that a pusher is pushing
    result,      \* Result of a popper
    put,         \* pushes that have taken effect (history)
    got,         \* what each popper's last successful Pop returned (history)
    sawEmpty,    \* was the queue empty when this Pop read LocalNext? (history)
    lagHead, lagTail, lagNext
                 \* changes of Head, Tail and the DoubleNext of LocalTail since the
                 \* thread read them in this round (history, for the bound)

shared == <<head, tail, doubleNext, payload, free>>
locals == <<localHead, localTail, localNext, item, result>>
history == <<put, got, sawEmpty>>
lags == <<lagHead, lagTail, lagNext>>
vars == <<shared, pc, locals, history, lags>>

-----------------------------------------------------------------------------
(* The queue that the links spell out. *)

\* The n-th link from Head, 0 past the end.
LinkAt[n \in 0 .. Cardinality(Links)] ==
    IF n = 0 THEN head.ptr
    ELSE IF LinkAt[n - 1] = 0 THEN 0 ELSE doubleNext[LinkAt[n - 1]].ptr

\* How many links follow the stub.
QueueLength == Cardinality({n \in 1 .. Cardinality(Links) : LinkAt[n] # 0})

Contents == [n \in 1 .. QueueLength |-> payload[LinkAt[n]]]

Chain == {LinkAt[n] : n \in 0 .. Cardinality(Links)} \ {0}

-----------------------------------------------------------------------------
Goto(x, label) == pc' = [pc EXCEPT ![x] = label]

\* The threads that hold a copy of Head, of Tail, and of the DoubleNext of a link
\* that they may compare it with in this round.
HeadHolders ==
    {c \in Poppers : pc[c] \in {"popTail", "popNext", "testHead", "returnNull", "popHelp",
                               "readPayload", "casHead"}}
TailHolders ==
    {p \in Pushers : pc[p] \in {"readNext", "testTail", "helpTail", "casNext", "swingTail"}}
      \cup {c \in Poppers : pc[c] \in {"popNext", "testHead", "returnNull", "popHelp",
                                      "readPayload", "casHead"}}
NextHolders(link) ==
    {p \in Pushers : pc[p] \in {"testTail", "helpTail", "casNext"} /\ localTail[p].ptr = link}

\* Bound on starvation: nobody holds a copy of a word for as many of its changes as
\* the counter has values (2^38 in the code).
NobodyStarves(lag, holders) == \A y \in holders : lag[y] + 1 < MAX_TagBitsValue

\* x has changed a word: the other holders' copies are one change older.
Older(lag, x, holders) ==
    [y \in Procs |-> IF y = x THEN 0 ELSE IF y \in holders THEN lag[y] + 1 ELSE lag[y]]

Forget(lag, x) == [lag EXCEPT ![x] = 0]

\* The loop starts again: what was read in this round goes out of scope.
Restart(x, label) ==
    /\ Goto(x, label)
    /\ localHead' = [localHead EXCEPT ![x] = NullWord]
    /\ localTail' = [localTail EXCEPT ![x] = NullWord]
    /\ localNext' = [localNext EXCEPT ![x] = NullWord]
    /\ lagHead' = Forget(lagHead, x) /\ lagNext' = Forget(lagNext, x)

\* AdvanceCounterAndState then SetPtr: "from" with the next counter and "ptr".
Advanced(from, ptr) == SetAll(ptr, AdvanceCounter(from))

\* Mutant of CasTail: a plain store.
StoreTail(x, ptr) ==
    /\ tail' = Advanced(localTail[x], ptr)
    /\ lagTail' = Older(lagTail, x, TailHolders \ {x})

\* Tail.InterlockedCompareExchange, whose outcome nobody looks at.
CasTail(x, ptr) ==
    IF tail = localTail[x]
    THEN /\ NobodyStarves(lagTail, TailHolders \ {x})
         /\ tail' = Advanced(localTail[x], ptr)
         /\ lagTail' = Older(lagTail, x, TailHolders \ {x})
    ELSE tail' = tail /\ lagTail' = Forget(lagTail, x)

-----------------------------------------------------------------------------
(* Push *)

\* AllocLockFreeLink and the store of the payload into the new link.
PushAlloc(p) ==
    /\ pc[p] = "idle" /\ put[p] < MaxPushes
    /\ \E link \in free :
         /\ free' = free \ {link}
         /\ item' = [item EXCEPT ![p] = link]
         /\ payload' = [payload EXCEPT ![link] = <<p, put[p] + 1>>]
    /\ Goto(p, "readTail")
    /\ UNCHANGED <<head, tail, doubleNext, localHead, localTail, localNext, result, history, lags>>

PushReadTail(p) ==
    /\ pc[p] = "readTail"
    /\ localTail' = [localTail EXCEPT ![p] = tail]
    /\ Goto(p, "readNext")
    /\ UNCHANGED <<shared, localHead, localNext, item, result, history, lags>>

PushReadNext(p) ==
    /\ pc[p] = "readNext"
    /\ localNext' = [localNext EXCEPT ![p] = doubleNext[localTail[p].ptr]]
    /\ Goto(p, "testTail")
    /\ UNCHANGED <<shared, localHead, localTail, item, result, history, lags>>

\* TestLocalTail == LocalTail, and is there a next link already?
PushTestTail(p) ==
    /\ pc[p] = "testTail"
    /\ IF tail # localTail[p] THEN Restart(p, "readTail") /\ lagTail' = Forget(lagTail, p)
       ELSE /\ Goto(p, IF localNext[p].ptr # 0 THEN "helpTail" ELSE "casNext")
            /\ UNCHANGED <<localHead, localTail, localNext, lags>>
    /\ UNCHANGED <<shared, item, result, history>>

\* Tail lags: move it on for the pusher that has not done so yet.
PushHelpTail(p) ==
    /\ pc[p] = "helpTail"
    /\ CasTail(p, localNext[p].ptr)
    /\ Restart(p, "readTail")
    /\ UNCHANGED <<head, doubleNext, payload, free, item, result, history>>

\* The CAS that links the new item in.
PushCasNext(p) ==
    /\ pc[p] = "casNext"
    /\ LET last == localTail[p].ptr IN
       IF doubleNext[last] = localNext[p]
       THEN /\ NobodyStarves(lagNext, NextHolders(last) \ {p})
            /\ doubleNext' = [doubleNext EXCEPT ![last] = Advanced(localNext[p], item[p])]
            /\ lagNext' = Older(lagNext, p, NextHolders(last) \ {p})
            /\ put' = [put EXCEPT ![p] = @ + 1]
            /\ Goto(p, "swingTail")
            /\ UNCHANGED <<localHead, localTail, localNext, lagHead, lagTail>>
       ELSE /\ Restart(p, "readTail") /\ lagTail' = Forget(lagTail, p)
            /\ UNCHANGED <<doubleNext, put>>
    /\ UNCHANGED <<head, tail, payload, free, item, result, got, sawEmpty>>

\* One attempt to move Tail to the new item; Push returns.
PushSwingTail(p) ==
    /\ pc[p] = "swingTail"
    /\ CasTail(p, item[p])
    /\ item' = [item EXCEPT ![p] = 0]
    /\ Restart(p, "idle")
    /\ UNCHANGED <<head, doubleNext, payload, free, result, history>>

-----------------------------------------------------------------------------
(* Pop *)

PopReadHead(c) ==
    /\ pc[c] \in {"popIdle", "readHead"}
    /\ localHead' = [localHead EXCEPT ![c] = head]
    /\ Goto(c, "popTail")
    /\ UNCHANGED <<shared, localTail, localNext, item, result, history, lags>>

PopReadTail(c) ==
    /\ pc[c] = "popTail"
    /\ localTail' = [localTail EXCEPT ![c] = tail]
    /\ Goto(c, "popNext")
    /\ UNCHANGED <<shared, localHead, localNext, item, result, history, lags>>

PopReadNext(c) ==
    /\ pc[c] = "popNext"
    /\ localNext' = [localNext EXCEPT ![c] = doubleNext[localHead[c].ptr]]
    /\ sawEmpty' = [sawEmpty EXCEPT ![c] = QueueLength = 0]
    /\ Goto(c, "testHead")
    /\ UNCHANGED <<shared, localHead, localTail, item, result, put, got, lags>>

\* Mutant of PopTestHead: Head is not read a second time.
PopNoTest(c) ==
    /\ pc[c] = "testHead"
    /\ Goto(c, IF localHead[c].ptr # localTail[c].ptr THEN "readPayload"
               ELSE IF localNext[c].ptr = 0 THEN "returnNull"
               ELSE "popHelp")
    /\ UNCHANGED <<shared, locals, history, lags>>

\* Mutant of PopTestHead: Head = Tail is taken for an empty queue.
PopNoHelp(c) ==
    /\ pc[c] = "testHead"
    /\ IF head # localHead[c] THEN Restart(c, "readHead") /\ lagTail' = Forget(lagTail, c)
       ELSE /\ Goto(c, IF localHead[c].ptr # localTail[c].ptr THEN "readPayload"
                       ELSE "returnNull")
            /\ UNCHANGED <<localHead, localTail, localNext, lags>>
    /\ UNCHANGED <<shared, item, result, history>>

\* LocalHead == LocalHeadTest, then: return null, help Tail, or take the next.
PopTestHead(c) ==
    /\ pc[c] = "testHead"
    /\ IF head # localHead[c] THEN Restart(c, "readHead") /\ lagTail' = Forget(lagTail, c)
       ELSE /\ Goto(c, IF localHead[c].ptr # localTail[c].ptr THEN "readPayload"
                       ELSE IF localNext[c].ptr = 0 THEN "returnNull"
                       ELSE "popHelp")
            /\ UNCHANGED <<localHead, localTail, localNext, lags>>
    /\ UNCHANGED <<shared, item, result, history>>

PopReturnNull(c) ==
    /\ pc[c] = "returnNull"
    /\ Restart(c, "popIdle") /\ lagTail' = Forget(lagTail, c)
    /\ sawEmpty' = [sawEmpty EXCEPT ![c] = FALSE]
    /\ UNCHANGED <<shared, item, result, put, got>>

\* Mutant of PopHelpTail: the popper waits for the pusher to move Tail.
PopAwaitTail(c) ==
    /\ pc[c] = "popHelp"
    /\ Restart(c, "readHead") /\ lagTail' = Forget(lagTail, c)
    /\ UNCHANGED <<shared, item, result, history>>

\* Head has caught up with a Tail that lags: Tail moves on before Head may pass it.
PopHelpTail(c) ==
    /\ pc[c] = "popHelp"
    /\ CasTail(c, localNext[c].ptr)
    /\ Restart(c, "readHead")
    /\ UNCHANGED <<head, doubleNext, payload, free, item, result, history>>

\* The payload is read from a link that another popper may take meanwhile.
PopReadPayload(c) ==
    /\ pc[c] = "readPayload"
    /\ result' = [result EXCEPT ![c] = payload[localNext[c].ptr]]
    /\ Goto(c, "casHead")
    /\ UNCHANGED <<shared, localHead, localTail, localNext, item, history, lags>>

PopCasHead(c) ==
    /\ pc[c] = "casHead"
    /\ IF head = localHead[c]
       THEN /\ NobodyStarves(lagHead, HeadHolders \ {c})
            /\ head' = Advanced(localHead[c], localNext[c].ptr)
            /\ lagHead' = Older(lagHead, c, HeadHolders \ {c})
            /\ got' = [got EXCEPT ![c] = result[c]]
            /\ Goto(c, "freeLink")
            /\ UNCHANGED <<localHead, localTail, localNext, lagNext>>
       ELSE Restart(c, "readHead") /\ UNCHANGED <<head, got>>
    /\ lagTail' = Forget(lagTail, c)
    /\ result' = [result EXCEPT ![c] = NoPayload]
    /\ UNCHANGED <<tail, doubleNext, payload, free, item, put, sawEmpty>>

\* Mutant of PopFreeLink: the new stub is freed instead of the old one.
PopFreeNext(c) ==
    /\ pc[c] = "freeLink"
    /\ LET old == localNext[c].ptr IN
         /\ doubleNext' = [doubleNext EXCEPT ![old] = SetPtr(@, 0)]
         /\ payload' = [payload EXCEPT ![old] = NoPayload]
         /\ free' = free \cup {old}
    /\ sawEmpty' = [sawEmpty EXCEPT ![c] = FALSE]
    /\ Restart(c, "popIdle")
    /\ UNCHANGED <<head, tail, item, result, put, got, lagTail>>

\* FreeLockFreeLink of the old stub: DoubleNext loses its index and keeps its
\* counter, the payload field is reused by the allocator.
PopFreeLink(c) ==
    /\ pc[c] = "freeLink"
    /\ LET old == localHead[c].ptr IN
         /\ doubleNext' = [doubleNext EXCEPT ![old] = SetPtr(@, 0)]
         /\ payload' = [payload EXCEPT ![old] = NoPayload]
         /\ free' = free \cup {old}
    /\ sawEmpty' = [sawEmpty EXCEPT ![c] = FALSE]
    /\ Restart(c, "popIdle")
    /\ UNCHANGED <<head, tail, item, result, put, got, lagTail>>

-----------------------------------------------------------------------------

\* The constructor: Head and Tail point to the stub.
Init ==
    /\ head = SetAll(Stub, 0) /\ tail = SetAll(Stub, 0)
    /\ doubleNext = [link \in Links |-> NullWord]
    /\ payload = [link \in Links |-> NoPayload]
    /\ free = Links \ {Stub}
    /\ pc = [x \in Procs |-> IF x \in Pushers THEN "idle" ELSE "popIdle"]
    /\ localHead = [x \in Procs |-> NullWord]
    /\ localTail = [x \in Procs |-> NullWord]
    /\ localNext = [x \in Procs |-> NullWord]
    /\ item = [x \in Procs |-> 0]
    /\ result = [x \in Procs |-> NoPayload]
    /\ put = [p \in Pushers |-> 0]
    /\ got = [c \in Poppers |-> NoPayload]
    /\ sawEmpty = [c \in Poppers |-> FALSE]
    /\ lagHead = [x \in Procs |-> 0]
    /\ lagTail = [x \in Procs |-> 0]
    /\ lagNext = [x \in Procs |-> 0]

PushStep(p) ==
    \/ PushReadTail(p) \/ PushReadNext(p) \/ PushTestTail(p)
    \/ PushHelpTail(p) \/ PushCasNext(p) \/ PushSwingTail(p)

PopStep(c) ==
    \/ PopReadHead(c) \/ PopReadTail(c) \/ PopReadNext(c) \/ PopTestHead(c)
    \/ PopReturnNull(c) \/ PopHelpTail(c) \/ PopReadPayload(c) \/ PopCasHead(c)
    \/ PopFreeLink(c)

Next ==
    \/ \E p \in Pushers : PushAlloc(p) \/ PushStep(p)
    \/ \E c \in Poppers : PopStep(c)

Spec == Init /\ [][Next]_vars

\* Whoever is not suspended keeps running its call.
FairSpec ==
    /\ Spec
    /\ \A p \in Pushers \ Suspended : WF_vars(PushStep(p))
    /\ \A c \in Poppers \ Suspended : WF_vars(PopStep(c))

-----------------------------------------------------------------------------
(* Properties. *)

\* Tail is never behind Head: it is on the chain and no more than one link from
\* its end, so neither Head nor Tail ever refers to a link that the allocator
\* may hand out again, and following DoubleNext from Head ends.
TailOnChain ==
    /\ Chain \cap free = {}
    /\ tail.ptr \in {LinkAt[QueueLength], LinkAt[IF QueueLength = 0 THEN 0 ELSE QueueLength - 1]}
    /\ LinkAt[QueueLength] # 0 /\ doubleNext[LinkAt[QueueLength]].ptr = 0

\* A link that a thread has: an item that it has not linked in yet, or an old stub
\* that it is about to free.
InHand(x) ==
    CASE pc[x] \in {"readTail", "readNext", "testTail", "helpTail", "casNext"} -> {item[x]}
      [] pc[x] = "freeLink" -> {localHead[x].ptr}
      [] OTHER -> {}

\* Each link is in exactly one place: free, on the chain, held by a pusher that
\* has not linked it in, or an old stub that a popper is about to free.
LinksConserved ==
    /\ Links = free \cup Chain \cup UNION {InHand(x) : x \in Procs}
    /\ free \cap Chain = {}
    /\ \A x \in Procs : InHand(x) \cap (free \cup Chain) = {}
    /\ \A x, y \in Procs : x # y => InHand(x) \cap InHand(y) = {}

\* Pop never dereferences the null index: when Head has not moved and differs
\* from the Tail read after it, the next link exists.
NoNullDereference ==
    \A c \in Poppers : pc[c] \in {"readPayload", "popHelp"} => localNext[c].ptr # 0

\* Pop returns null only if the queue was empty at a moment during the call.
\* FStallingTaskQueue puts its thread to sleep on the strength of this answer.
NullMeansEmpty == \A c \in Poppers : pc[c] = "returnNull" => sawEmpty[c]

\* Seen from its callers the queue is an atomic FIFO: Push takes effect at the
\* CAS of DoubleNext, Pop at the CAS of Head, and Pop returns the payload that
\* was at the front although it was read before the CAS from a link that may
\* have been recycled.
Abstract == INSTANCE FIFO WITH queue <- Contents
ImplementsFIFO == Abstract!Spec

\* Lock freedom: a thread suspended in the middle of its call does not stop the
\* others from finishing theirs (pushes are finite in number here).
CallsReturn ==
    /\ \A p \in Pushers \ Suspended : pc[p] = "readTail" ~> pc[p] = "idle"
    /\ \A c \in Poppers \ Suspended : pc[c] = "popTail" ~> pc[c] = "popIdle"

-----------------------------------------------------------------------------
(* What makes these properties inductive. *)

PushPoints == {"idle", "readTail", "readNext", "testTail", "helpTail", "casNext", "swingTail"}
PopPoints  == {"popIdle", "readHead", "popTail", "popNext", "testHead", "returnNull", "popHelp",
               "readPayload", "casHead", "freeLink"}

Lags == 0 .. MAX_TagBitsValue - 1

SharedTypeOK ==
    /\ head \in Word /\ tail \in Word
    /\ doubleNext \in [Links -> Word]
    /\ payload \in [Links -> Payloads \cup {NoPayload}]
    /\ free \in SUBSET Links

ControlTypeOK ==
    /\ pc \in [Procs -> PushPoints \cup PopPoints]
    /\ \A p \in Pushers : pc[p] \in PushPoints
    /\ \A c \in Poppers : pc[c] \in PopPoints

LocalTypeOK ==
    /\ localHead \in [Procs -> Word] /\ localTail \in [Procs -> Word]
    /\ localNext \in [Procs -> Word]
    /\ item \in [Procs -> Links \cup {0}]
    /\ result \in [Procs -> Payloads \cup {NoPayload}]

HistoryTypeOK ==
    /\ put \in [Pushers -> 0 .. MaxPushes]
    /\ got \in [Poppers -> Payloads \cup {NoPayload}]
    /\ sawEmpty \in [Poppers -> BOOLEAN]
    /\ lagHead \in [Procs -> Lags] /\ lagTail \in [Procs -> Lags] /\ lagNext \in [Procs -> Lags]

TypeOK == SharedTypeOK /\ ControlTypeOK /\ LocalTypeOK /\ HistoryTypeOK

\* The links that "next" leads through from "first" are those of s, in this order.
LinkedFrom(next, first, s) ==
    /\ s # <<>> /\ s[1] = first
    /\ IsInjective(s)
    /\ \A k \in DOMAIN s : next[s[k]].ptr = IF k = Len(s) THEN 0 ELSE s[k + 1]

\* A link is the last of s or the one before.
NearEnd(s, link) == link = s[Len(s)] \/ (Len(s) > 1 /\ link = s[Len(s) - 1])

\* DoubleNext leads from Head past Tail to an end, through no link twice.
ListEnds ==
    \E s \in Seq(Links) : LinkedFrom(doubleNext, head.ptr, s) /\ NearEnd(s, tail.ptr)

\* As long as nobody starves, a copy of a word equals the word exactly if nothing
\* changed since it was read: the counters rule out ABA.
Copy(word, current, lag) ==
    /\ word.counter = CounterBefore(current.counter, lag)
    /\ lag = 0 => word = current

HeadNoABA ==
    \A x \in Procs : IF x \in HeadHolders THEN Copy(localHead[x], head, lagHead[x])
                                          ELSE lagHead[x] = 0
TailNoABA ==
    \A x \in Procs : IF x \in TailHolders THEN Copy(localTail[x], tail, lagTail[x])
                                          ELSE lagTail[x] = 0

\* The index in DoubleNext is also cleared, when the link is freed: what does not
\* come back is a null index with its counter.
NextNoABA ==
    \A x \in Procs :
        IF x \in NextHolders(localTail[x].ptr)
        THEN localNext[x].counter = CounterBefore(doubleNext[localTail[x].ptr].counter, lagNext[x])
        ELSE lagNext[x] = 0

\* A pusher's new link is linked to nothing and carries its payload.
ItemInHand ==
    /\ \A link \in free : doubleNext[link].ptr = 0
    /\ \A p \in Pushers :
         /\ pc[p] \in {"readTail", "readNext", "testTail", "helpTail", "casNext"} =>
              /\ item[p] # 0 /\ doubleNext[item[p]].ptr = 0
              /\ payload[item[p]] = <<p, put[p] + 1>> /\ put[p] < MaxPushes
         /\ pc[p] = "swingTail" => item[p] # 0

\* What a thread knows of the link behind Tail, as long as Tail has not moved.  A
\* pusher that found nothing there and is not outdated still sees the last link.
TailCopies ==
    /\ \A x \in TailHolders : localTail[x].ptr # 0
    /\ \A x \in Procs :
         /\ pc[x] = "testTail" /\ lagTail[x] = 0 /\ (localNext[x].ptr # 0 \/ lagNext[x] = 0) =>
              doubleNext[tail.ptr] = localNext[x]
         /\ pc[x] \in {"helpTail", "popHelp"} =>
              localNext[x].ptr # 0 /\ (lagTail[x] = 0 => doubleNext[tail.ptr] = localNext[x])
         /\ pc[x] = "casNext" =>
              /\ localNext[x].ptr = 0
              /\ lagNext[x] = 0 => lagTail[x] = 0 /\ doubleNext[tail.ptr] = localNext[x]
         /\ pc[x] = "swingTail" /\ lagTail[x] = 0 => doubleNext[tail.ptr].ptr = item[x]

\* What a popper knows of the link behind Head, as long as Head has not moved: a
\* Tail that was seen elsewhere has not come back, so that Head cannot pass it.
HeadCopies ==
    \A c \in Poppers :
        /\ c \in HeadHolders \/ pc[c] = "freeLink" => localHead[c].ptr # 0
        /\ pc[c] = "returnNull" => sawEmpty[c]
        /\ pc[c] \in {"readPayload", "casHead"} =>
             localNext[c].ptr # 0 /\ localTail[c].ptr # localHead[c].ptr
        /\ lagHead[c] = 0 =>
             /\ pc[c] \in {"popNext", "testHead", "readPayload", "casHead"} =>
                  (localTail[c].ptr # localHead[c].ptr => tail.ptr # head.ptr)
             /\ pc[c] = "testHead" =>
                  IF localNext[c].ptr = 0
                  THEN sawEmpty[c] /\ localTail[c].ptr = localHead[c].ptr
                  ELSE localNext[c] = doubleNext[head.ptr]
             /\ pc[c] \in {"readPayload", "casHead"} => localNext[c] = doubleNext[head.ptr]
             /\ pc[c] = "casHead" => result[c] = payload[localNext[c].ptr]

Inv ==
    /\ TypeOK /\ ListEnds /\ LinksConserved
    /\ HeadNoABA /\ TailNoABA /\ NextNoABA
    /\ ItemInHand /\ TailCopies /\ HeadCopies
=============================================================================
