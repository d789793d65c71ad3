-------------------------- MODULE LockFreeFIFOProofs --------------------------
(***************************************************************************)
(* Machine-checked proofs about LockFreeFIFO, for every set of links,      *)
(* every set of threads, any number of pushes and every width of the       *)
(* counter.                                                                *)
(***************************************************************************)
EXTENDS LockFreeFIFO, FiniteSetTheorems, SequenceTheorems, WellFoundedInduction, TLAPS

-----------------------------------------------------------------------------
(* Linked lists. *)

\* The null index names no link.
LEMMA NullIsNoLink == 0 \notin Links
BY FIFOAssumption

\* A linked list is as long as there are links, at most.
LEMMA ChainLength ==
    ASSUME NEW next, NEW first, NEW s \in Seq(Links), LinkedFrom(next, first, s)
    PROVE  Len(s) \in 1 .. Cardinality(Links) /\ Cardinality(Links) \in Nat
<1>1. s \in Injection(1 .. Len(s), Links)
  BY DEF LinkedFrom, Injection
<1>2. Cardinality(1 .. Len(s)) <= Cardinality(Links)
  BY <1>1, FS_Injection, FIFOAssumption
<1>3. Len(s) \in Nat /\ Len(s) \in Int /\ 1 \in Int /\ Len(s) # 0
  BY DEF LinkedFrom
<1>4. Cardinality(1 .. Len(s)) = IF 1 > Len(s) THEN 0 ELSE Len(s) - 1 + 1
  BY <1>3, FS_Interval
<1>5. Cardinality(Links) \in Nat
  BY FS_CardinalityType, FIFOAssumption
<1>6. QED
  BY <1>2, <1>3, <1>4, <1>5

\* What is not on the list may be linked in any way.
LEMMA ChainUnchanged ==
    ASSUME NEW next, NEW next2, NEW first, NEW s \in Seq(Links), LinkedFrom(next, first, s),
           \A link \in Range(s) : next2[link].ptr = next[link].ptr
    PROVE  LinkedFrom(next2, first, s)
BY DEF LinkedFrom, Range

\* A new link behind the last one makes a list that is longer by it.
LEMMA ChainAppended ==
    ASSUME NEW next, NEW next2, NEW first, NEW s \in Seq(Links), LinkedFrom(next, first, s),
           NEW link \in Links \ Range(s), next2[link].ptr = 0, next2[s[Len(s)]].ptr = link,
           \A other \in Range(s) \ {s[Len(s)]} : next2[other].ptr = next[other].ptr
    PROVE  LinkedFrom(next2, first, Append(s, link))
<1> DEFINE t == Append(s, link)
<1>1. /\ t \in Seq(Links) /\ t # <<>> /\ Len(t) = Len(s) + 1 /\ Len(s) \in Nat \ {0}
      /\ t[Len(t)] = link /\ \A k \in 1 .. Len(s) : t[k] = s[k]
  BY DEF LinkedFrom
<1>2. \A k \in 1 .. Len(t) : k = Len(t) \/ (k \in 1 .. Len(s) /\ t[k] = s[k] /\ s[k] \in Range(s))
  BY <1>1 DEF Range
<1>3. IsInjective(t)
  <2>1. SUFFICES ASSUME NEW a \in 1 .. Len(t), NEW b \in 1 .. Len(t), t[a] = t[b]
                 PROVE  a = b
    BY <1>1 DEF IsInjective
  <2>2. CASE a = Len(t) \/ b = Len(t)
    BY <1>1, <1>2, <2>1, <2>2
  <2>3. CASE a # Len(t) /\ b # Len(t)
    BY <1>2, <2>1, <2>3 DEF LinkedFrom, IsInjective
  <2>4. QED
    BY <2>2, <2>3
<1>4. ASSUME NEW k \in 1 .. Len(t)
      PROVE  next2[t[k]].ptr = IF k = Len(t) THEN 0 ELSE t[k + 1]
  <2>1. CASE k = Len(t)
    BY <1>1, <2>1
  <2>2. CASE k = Len(s)
    BY <1>1, <2>2
  <2>3. CASE k \in 1 .. Len(s) /\ k # Len(s)
    <3>1. s[k] \in Range(s) \ {s[Len(s)]}
      BY <1>1, <2>3 DEF LinkedFrom, IsInjective, Range
    <3>2. next2[s[k]].ptr = s[k + 1]
      BY <2>3, <3>1 DEF LinkedFrom
    <3>3. QED
      BY <1>1, <2>3, <3>2
  <2>4. QED
    BY <1>1, <2>1, <2>2, <2>3
<1>5. t[1] = first
  BY <1>1 DEF LinkedFrom
<1>6. QED
  BY <1>1, <1>3, <1>4, <1>5 DEF LinkedFrom

\* It holds that link too, and what was the last link is the one before it.
LEMMA AppendedLinks ==
    ASSUME NEW s \in Seq(Links), s # <<>>, NEW link \in Links
    PROVE  /\ Append(s, link) \in Seq(Links)
           /\ Range(Append(s, link)) = Range(s) \cup {link}
           /\ NearEnd(Append(s, link), s[Len(s)])
<1> DEFINE t == Append(s, link)
<1>1. /\ t \in Seq(Links) /\ Len(t) = Len(s) + 1 /\ Len(s) \in Nat \ {0}
      /\ t[Len(t)] = link /\ \A k \in 1 .. Len(s) : t[k] = s[k]
  OBVIOUS
<1>2. DOMAIN t = 1 .. Len(t) /\ DOMAIN s = 1 .. Len(s) /\ 1 .. Len(s) \subseteq 1 .. Len(t)
  BY <1>1
<1>3. Len(t) \in DOMAIN t /\ \A k \in DOMAIN t : k = Len(t) \/ k \in DOMAIN s
  BY <1>1, <1>2
<1>4. Range(t) = Range(s) \cup {link}
  BY <1>1, <1>2, <1>3 DEF Range
<1>5. Len(t) > 1 /\ Len(t) - 1 = Len(s) /\ t[Len(s)] = s[Len(s)]
  BY <1>1
<1>6. NearEnd(t, s[Len(s)])
  BY <1>5 DEF NearEnd
<1>7. QED
  BY <1>1, <1>4, <1>6

\* Without its first link the list is what that link leads to.
LEMMA ChainPopped ==
    ASSUME NEW next, NEW first, NEW s \in Seq(Links), LinkedFrom(next, first, s),
           next[first].ptr # 0
    PROVE  /\ Len(s) > 1 /\ Tail(s) \in Seq(Links) /\ s[2] = next[first].ptr
           /\ LinkedFrom(next, next[first].ptr, Tail(s))
           /\ Len(Tail(s)) = Len(s) - 1 /\ \A k \in 1 .. Len(s) - 1 : Tail(s)[k] = s[k + 1]
           /\ first \notin Range(Tail(s)) /\ Range(s) = {first} \cup Range(Tail(s))
<1> DEFINE t == Tail(s)
<1>1. s # <<>> /\ s[1] = first /\ Len(s) \in Nat \ {0}
  BY DEF LinkedFrom
<1>2. Len(s) > 1 /\ s[2] = next[first].ptr
  BY <1>1 DEF LinkedFrom
<1>3. /\ t \in Seq(Links) /\ Len(t) = Len(s) - 1 /\ t # <<>> /\ t[1] = s[2]
      /\ \A k \in 1 .. Len(t) : t[k] = s[k + 1] /\ k + 1 \in DOMAIN s
  <2>1. /\ t \in Seq(Links) /\ Len(t) = Len(s) - 1
        /\ \A k \in 1 .. Len(t) : t[k] = s[k + 1] /\ k + 1 \in DOMAIN s
    BY <1>1
  <2>2. Len(t) \in Nat \ {0} /\ 1 \in 1 .. Len(t)
    BY <1>1, <1>2, <2>1
  <2>3. t[1] = s[2] /\ t # <<>>
    BY <2>1, <2>2
  <2>4. QED
    BY <2>1, <2>3
<1>4. IsInjective(t)
  BY <1>3 DEF LinkedFrom, IsInjective
<1>5. first \notin Range(t)
  BY <1>1, <1>3 DEF LinkedFrom, IsInjective, Range
<1>6. Range(s) = {first} \cup Range(t)
  <2>1. \A k \in DOMAIN s : k = 1 \/ (k - 1 \in DOMAIN t /\ s[k] = t[k - 1])
    BY <1>1, <1>3
  <2>2. 1 \in DOMAIN s /\ \A k \in DOMAIN t : k + 1 \in DOMAIN s /\ s[k + 1] = t[k]
    BY <1>1, <1>3
  <2>3. ASSUME NEW link \in Range(s) PROVE link \in {first} \cup Range(t)
    BY <1>1, <2>1, <2>3 DEF Range
  <2>4. ASSUME NEW link \in {first} \cup Range(t) PROVE link \in Range(s)
    BY <1>1, <2>2, <2>4 DEF Range
  <2>5. QED
    BY <2>3, <2>4
<1>7. \A k \in DOMAIN t : next[t[k]].ptr = IF k = Len(t) THEN 0 ELSE t[k + 1]
  <2>1. SUFFICES ASSUME NEW k \in DOMAIN t
                 PROVE  next[t[k]].ptr = IF k = Len(t) THEN 0 ELSE t[k + 1]
    OBVIOUS
  <2>2. next[s[k + 1]].ptr = IF k + 1 = Len(s) THEN 0 ELSE s[k + 2]
    BY <1>3 DEF LinkedFrom
  <2>3. QED
    BY <1>3, <2>2
<1>8. QED
  BY <1>2, <1>3, <1>4, <1>5, <1>6, <1>7 DEF LinkedFrom

-----------------------------------------------------------------------------
(* What the definitions of LockFreeFIFO say of a linked list. *)

\* LinkAt, QueueLength, Chain and Contents of any DoubleNext, Head and payloads.
FollowsFrom(next, first, f) ==
    f = [n \in 0 .. Cardinality(Links) |->
           IF n = 0 THEN first ELSE IF f[n - 1] = 0 THEN 0 ELSE next[f[n - 1]].ptr]
LinkFrom(next, first) ==
    CHOOSE f : f = [n \in 0 .. Cardinality(Links) |->
           IF n = 0 THEN first ELSE IF f[n - 1] = 0 THEN 0 ELSE next[f[n - 1]].ptr]
LengthFrom(next, first) ==
    Cardinality({n \in 1 .. Cardinality(Links) : LinkFrom(next, first)[n] # 0})
ChainFrom(next, first) == {LinkFrom(next, first)[n] : n \in 0 .. Cardinality(Links)} \ {0}

LEMMA QueueOf ==
    /\ LinkAt = LinkFrom(doubleNext, head.ptr)
    /\ QueueLength = LengthFrom(doubleNext, head.ptr)
    /\ Chain = ChainFrom(doubleNext, head.ptr)
<1>1. LinkAt = LinkFrom(doubleNext, head.ptr)
  BY DEF LinkAt, LinkFrom
<1>2. QED
  BY <1>1 DEF QueueLength, LengthFrom, Chain, ChainFrom

LEMMA QueueOfPrime ==
    /\ LinkAt' = LinkFrom(doubleNext', head'.ptr)
    /\ QueueLength' = LengthFrom(doubleNext', head'.ptr)
    /\ Chain' = ChainFrom(doubleNext', head'.ptr)
<1>1. LinkAt' = LinkFrom(doubleNext', head'.ptr)
  BY DEF LinkAt, LinkFrom
<1>2. QED
  BY <1>1 DEF QueueLength, LengthFrom, Chain, ChainFrom

\* There is one way to follow the links: along the list.
LEMMA FollowsList ==
    ASSUME NEW next, NEW first, NEW s \in Seq(Links), LinkedFrom(next, first, s)
    PROVE  LinkFrom(next, first) =
              [n \in 0 .. Cardinality(Links) |-> IF n < Len(s) THEN s[n + 1] ELSE 0]
<1> DEFINE g == [n \in 0 .. Cardinality(Links) |-> IF n < Len(s) THEN s[n + 1] ELSE 0]
<1>1. Len(s) \in 1 .. Cardinality(Links) /\ Cardinality(Links) \in Nat
  BY ChainLength
<1>2. \A n \in 0 .. Cardinality(Links) : g[n] = IF n < Len(s) THEN s[n + 1] ELSE 0
  OBVIOUS
<1>3. ASSUME NEW n \in 0 .. Cardinality(Links)
      PROVE  g[n] = IF n = 0 THEN first ELSE IF g[n - 1] = 0 THEN 0 ELSE next[g[n - 1]].ptr
  <2>1. CASE n = 0
    BY <1>1, <2>1 DEF LinkedFrom
  <2>2. CASE n # 0
    <3>1. n - 1 \in 0 .. Cardinality(Links) /\ n \in Nat \ {0}
      BY <1>1, <2>2
    <3>2. CASE n - 1 < Len(s)
      <4>1. g[n - 1] = s[n] /\ n \in DOMAIN s
        BY <1>1, <3>1, <3>2
      <4>2. s[n] # 0 /\ next[s[n]].ptr = IF n = Len(s) THEN 0 ELSE s[n + 1]
        BY <4>1, NullIsNoLink DEF LinkedFrom
      <4>3. QED
        BY <1>1, <2>2, <3>1, <3>2, <4>1, <4>2
    <3>3. CASE ~ (n - 1 < Len(s))
      BY <1>1, <2>2, <3>1, <3>3
    <3>4. QED
      BY <3>2, <3>3
  <2>3. QED
    BY <2>1, <2>2
<1>4. FollowsFrom(next, first, g)
  BY <1>3 DEF FollowsFrom
<1>5. FollowsFrom(next, first, LinkFrom(next, first))
  BY <1>4 DEF LinkFrom, FollowsFrom
<1>6. ASSUME NEW f, FollowsFrom(next, first, f) PROVE f = g
  <2> DEFINE Differ == {n \in 0 .. Cardinality(Links) : f[n] # g[n]}
  <2>1. CASE Differ = {}
    <3>1. \A n \in 0 .. Cardinality(Links) : f[n] = g[n]
      BY <2>1
    <3>2. f = [n \in 0 .. Cardinality(Links) |-> f[n]]
      BY <1>6, Zenon DEF FollowsFrom
    <3>3. QED
      BY <3>1, <3>2
  <2>2. CASE Differ # {}
    <3>1. Differ \subseteq Nat
      BY <1>1
    <3>2. PICK n \in Differ : \A j \in Differ : ~ (<<j, n>> \in OpToRel(<, Nat))
      BY <2>2, <3>1, NatLessThanWellFounded, WFMin
    <3>3. n \in 0 .. Cardinality(Links) /\ f[n] # g[n]
      OBVIOUS
    <3>4. f[n] = IF n = 0 THEN first ELSE IF f[n - 1] = 0 THEN 0 ELSE next[f[n - 1]].ptr
      BY <1>6, <3>3 DEF FollowsFrom
    <3>5. n # 0
      BY <1>3, <3>3, <3>4
    <3>6. n - 1 \in 0 .. Cardinality(Links) /\ n - 1 \in Nat /\ n \in Nat /\ n - 1 < n
      BY <1>1, <3>3, <3>5
    <3>7. n - 1 \notin Differ
      BY <3>2, <3>6 DEF OpToRel
    <3>8. f[n - 1] = g[n - 1]
      BY <3>6, <3>7
    <3>9. g[n] = IF n = 0 THEN first ELSE IF g[n - 1] = 0 THEN 0 ELSE next[g[n - 1]].ptr
      BY <1>3, <3>3
    <3>10. QED
      BY <3>3, <3>4, <3>8, <3>9, Zenon
  <2>3. QED
    BY <2>1, <2>2
<1>7. QED
  BY <1>5, <1>6

\* The queue is what the list holds behind its stub.
LEMMA QueueIsList ==
    ASSUME NEW next, NEW first, NEW s \in Seq(Links), LinkedFrom(next, first, s)
    PROVE  /\ LengthFrom(next, first) = Len(s) - 1
           /\ ChainFrom(next, first) = Range(s)
           /\ \A n \in 0 .. Len(s) - 1 : LinkFrom(next, first)[n] = s[n + 1]
<1> DEFINE f == LinkFrom(next, first)
<1>1. Len(s) \in 1 .. Cardinality(Links) /\ Cardinality(Links) \in Nat
  BY ChainLength
<1>2. \A n \in 0 .. Cardinality(Links) : f[n] = IF n < Len(s) THEN s[n + 1] ELSE 0
  BY FollowsList
<1> HIDE DEF f
<1>3. \A k \in 1 .. Len(s) : s[k] \in Links /\ s[k] # 0
  BY NullIsNoLink
<1>4. {n \in 1 .. Cardinality(Links) : f[n] # 0} = 1 .. (Len(s) - 1)
  BY <1>1, <1>2, <1>3
<1>5. Cardinality(1 .. (Len(s) - 1)) = Len(s) - 1
  <2>1. Len(s) - 1 \in Int /\ 1 \in Int
    BY <1>1
  <2>2. Cardinality(1 .. (Len(s) - 1)) =
          IF 1 > Len(s) - 1 THEN 0 ELSE (Len(s) - 1) - 1 + 1
    BY <2>1, FS_Interval
  <2>3. QED
    BY <1>1, <2>2
<1>6. {f[n] : n \in 0 .. Cardinality(Links)} \ {0} = Range(s)
  <2>1. ASSUME NEW n \in 0 .. Cardinality(Links), f[n] # 0 PROVE f[n] \in Range(s)
    <3>1. n + 1 \in DOMAIN s /\ f[n] = s[n + 1]
      BY <1>1, <1>2, <2>1
    <3>2. QED
      BY <3>1 DEF Range
  <2>2. ASSUME NEW k \in DOMAIN s
        PROVE  s[k] # 0 /\ k - 1 \in 0 .. Cardinality(Links) /\ s[k] = f[k - 1]
    BY <1>1, <1>2, <1>3
  <2>3. QED
    BY <2>1, <2>2 DEF Range
<1>7. \A n \in 0 .. Len(s) - 1 : f[n] = s[n + 1]
  BY <1>1, <1>2
<1>8. QED
  BY <1>4, <1>5, <1>6, <1>7 DEF f, LengthFrom, ChainFrom

-----------------------------------------------------------------------------
(* What one step does to the shared words. *)

\* A step of one thread.
Acts(x) ==
    \/ x \in Pushers /\ (PushAlloc(x) \/ PushStep(x))
    \/ x \in Poppers /\ PopStep(x)

LEMMA NextActs == Next => \E x \in Procs : Acts(x)
BY DEF Next, Acts, Procs

\* Pushers and poppers are different threads.
LEMMA ProcsSplit ==
    /\ \A p \in Pushers : p \in Procs /\ p \notin Poppers
    /\ \A c \in Poppers : c \in Procs /\ c \notin Pushers
BY FIFOAssumption DEF Procs

\* The counter before n + 1 changes, seen from one change later.
LEMMA CounterBeforeStep ==
    ASSUME NEW word, word.counter \in Counter, NEW n \in Nat, n + 1 < MAX_TagBitsValue
    PROVE  CounterBefore(AdvanceCounter(word), n + 1) = CounterBefore(word.counter, n)
BY TagBitsAssumption DEF CounterBefore, AdvanceCounter, Counter

\* A word that carries the present counter is not outdated.
LEMMA EqualIsCurrent ==
    ASSUME NEW word \in Word, NEW n \in Lags, word.counter = CounterBefore(word.counter, n)
    PROVE  n = 0
<1>1. word.counter \in Nat /\ word.counter < MAX_TagBitsValue
  BY TagBitsAssumption DEF Word, IndexedPointers, Counter
<1>2. n \in Nat /\ n < MAX_TagBitsValue
  BY TagBitsAssumption DEF Lags
<1>3. QED
  BY <1>1, <1>2, TagBitsAssumption DEF CounterBefore

\* A compare-and-swap of Tail succeeds only if nothing changed since it was read.
LEMMA TailIsCurrent ==
    ASSUME Inv, NEW x \in TailHolders, tail = localTail[x]
    PROVE  lagTail[x] = 0
<1>1. x \in Procs
  BY DEF TailHolders, Procs
<1>2. tail \in Word /\ lagTail[x] \in Lags
  BY <1>1 DEF Inv, TypeOK, SharedTypeOK, HistoryTypeOK
<1>3. tail.counter = CounterBefore(tail.counter, lagTail[x])
  BY <1>1 DEF Inv, TailNoABA, Copy
<1>4. QED
  BY <1>2, <1>3, EqualIsCurrent

\* The same of Head ...
LEMMA HeadIsCurrent ==
    ASSUME Inv, NEW x \in HeadHolders, head = localHead[x]
    PROVE  lagHead[x] = 0
<1>1. x \in Procs
  BY DEF HeadHolders, Procs
<1>2. head \in Word /\ lagHead[x] \in Lags
  BY <1>1 DEF Inv, TypeOK, SharedTypeOK, HistoryTypeOK
<1>3. head.counter = CounterBefore(head.counter, lagHead[x])
  BY <1>1 DEF Inv, HeadNoABA, Copy
<1>4. QED
  BY <1>2, <1>3, EqualIsCurrent

\* ... and of DoubleNext, whose link is then the last of the list.
LEMMA NextIsCurrent ==
    ASSUME Inv, NEW x \in Pushers, pc[x] = "casNext", doubleNext[localTail[x].ptr] = localNext[x]
    PROVE  /\ lagNext[x] = 0 /\ lagTail[x] = 0 /\ localTail[x] = tail
           /\ doubleNext[tail.ptr] = localNext[x] /\ localNext[x].ptr = 0
<1>1. x \in Procs /\ x \in TailHolders /\ x \in NextHolders(localTail[x].ptr)
  BY DEF TailHolders, NextHolders, Procs
<1>2. localNext[x] \in Word /\ lagNext[x] \in Lags
  BY <1>1 DEF Inv, TypeOK, LocalTypeOK, HistoryTypeOK
<1>3. localNext[x].counter = CounterBefore(localNext[x].counter, lagNext[x])
  BY <1>1 DEF Inv, NextNoABA
<1>4. lagNext[x] = 0
  BY <1>2, <1>3, EqualIsCurrent
<1>5. lagTail[x] = 0 /\ doubleNext[tail.ptr] = localNext[x] /\ localNext[x].ptr = 0
  BY <1>1, <1>4 DEF Inv, TailCopies
<1>6. localTail[x] = tail
  BY <1>1, <1>5 DEF Inv, TailNoABA, Copy
<1>7. QED
  BY <1>4, <1>5, <1>6

\* A step that moves Tail moves it to the next link, which there is.
MovesTail(x) ==
    /\ doubleNext[tail.ptr].ptr # 0
    /\ tail' = Advanced(tail, doubleNext[tail.ptr].ptr)
    /\ NobodyStarves(lagTail, TailHolders \ {x})
    /\ lagTail' = Older(lagTail, x, TailHolders \ {x})
    /\ UNCHANGED <<head, doubleNext, payload, free>>
KeepsTail(x) == tail' = tail /\ \A y \in Procs \ {x} : lagTail'[y] = lagTail[y]

\* A step that moves Head moves it to the next link, and not past Tail.
MovesHead(x) ==
    /\ x \in Poppers /\ pc[x] = "casHead" /\ pc'[x] = "freeLink"
    /\ localHead[x] = head /\ localHead' = localHead
    /\ doubleNext[head.ptr].ptr # 0 /\ tail.ptr # head.ptr
    /\ head' = Advanced(head, doubleNext[head.ptr].ptr)
    /\ NobodyStarves(lagHead, HeadHolders \ {x})
    /\ lagHead' = Older(lagHead, x, HeadHolders \ {x})
    /\ got' = [got EXCEPT ![x] = payload[doubleNext[head.ptr].ptr]]
    /\ UNCHANGED <<tail, doubleNext, payload, free, put>>
KeepsHead(x) == head' = head /\ \A y \in Procs \ {x} : lagHead'[y] = lagHead[y]

\* A step that links an item in does so behind the last link.
LinksItem(x) ==
    /\ x \in Pushers /\ pc[x] = "casNext" /\ pc'[x] = "swingTail"
    /\ doubleNext[tail.ptr].ptr = 0
    /\ doubleNext' = [doubleNext EXCEPT ![tail.ptr] = Advanced(@, item[x])]
    /\ NobodyStarves(lagNext, NextHolders(tail.ptr) \ {x})
    /\ lagNext' = Older(lagNext, x, NextHolders(tail.ptr) \ {x})
    /\ put' = [put EXCEPT ![x] = @ + 1]
    /\ UNCHANGED <<head, tail, payload, free, item, got>>
KeepsNext(x) ==
    /\ doubleNext' = doubleNext \/ (x \in Poppers /\ PopFreeLink(x))
    /\ \A y \in Procs \ {x} : lagNext'[y] = lagNext[y]

\* Only the allocator's calls touch the pool and the payloads.
KeepsPool(x) ==
    \/ free' = free /\ payload' = payload
    \/ x \in Pushers /\ PushAlloc(x)
    \/ x \in Poppers /\ PopFreeLink(x)

\* The CAS of Tail after the reading of localNext and after the linking in of item.
LEMMA CasTailMoves ==
    ASSUME Inv, NEW x \in TailHolders, NEW ptr, CasTail(x, ptr),
           ptr # 0, lagTail[x] = 0 => doubleNext[tail.ptr].ptr = ptr,
           UNCHANGED <<head, doubleNext, payload, free>>
    PROVE  MovesTail(x) \/ KeepsTail(x)
<1>1. CASE tail = localTail[x]
  BY <1>1, TailIsCurrent DEF CasTail, MovesTail
<1>2. CASE tail # localTail[x]
  BY <1>2 DEF CasTail, Forget, KeepsTail, Inv, TypeOK, HistoryTypeOK
<1>3. QED
  BY <1>1, <1>2

LEMMA TailMoves ==
    ASSUME Inv, NEW x \in Procs, Acts(x)
    PROVE  MovesTail(x) \/ KeepsTail(x)
<1>1. CASE x \in Pushers /\ PushHelpTail(x)
  <2>1. x \in TailHolders
    BY <1>1 DEF PushHelpTail, TailHolders
  <2>2. localNext[x].ptr # 0 /\ (lagTail[x] = 0 => doubleNext[tail.ptr] = localNext[x])
    BY <1>1 DEF PushHelpTail, Inv, TailCopies
  <2>3. QED
    BY <1>1, <2>1, <2>2, CasTailMoves DEF PushHelpTail
<1>2. CASE x \in Poppers /\ PopHelpTail(x)
  <2>1. x \in TailHolders
    BY <1>2 DEF PopHelpTail, TailHolders
  <2>2. localNext[x].ptr # 0 /\ (lagTail[x] = 0 => doubleNext[tail.ptr] = localNext[x])
    BY <1>2 DEF PopHelpTail, Inv, TailCopies
  <2>3. QED
    BY <1>2, <2>1, <2>2, CasTailMoves DEF PopHelpTail
<1>3. CASE x \in Pushers /\ PushSwingTail(x)
  <2>1. x \in TailHolders
    BY <1>3 DEF PushSwingTail, TailHolders
  <2>2. item[x] # 0 /\ (lagTail[x] = 0 => doubleNext[tail.ptr].ptr = item[x])
    BY <1>3 DEF PushSwingTail, Inv, TailCopies, ItemInHand
  <2>3. QED
    BY <1>3, <2>1, <2>2, CasTailMoves DEF PushSwingTail
<1>4. CASE tail' = tail /\ (lagTail' = lagTail \/ lagTail' = Forget(lagTail, x))
  BY <1>4 DEF KeepsTail, Forget, Inv, TypeOK, HistoryTypeOK
<1>5. QED
  BY <1>1, <1>2, <1>3, <1>4 DEF Acts, PushStep, PopStep, PushAlloc, PushReadTail, PushReadNext,
     PushTestTail, PushCasNext, PopReadHead, PopReadTail, PopReadNext, PopTestHead, PopReturnNull,
     PopReadPayload, PopCasHead, PopFreeLink, shared, lags

\* The CAS of Head, when it succeeds.
LEMMA CasHeadMoves ==
    ASSUME Inv, NEW x \in Poppers, PopCasHead(x), head = localHead[x]
    PROVE  MovesHead(x)
<1>1. pc[x] = "casHead" /\ x \in HeadHolders /\ x \in Procs
  BY DEF PopCasHead, HeadHolders, Procs
<1>2. lagHead[x] = 0
  BY <1>1, HeadIsCurrent
<1>3. /\ localNext[x].ptr # 0 /\ localTail[x].ptr # localHead[x].ptr
      /\ tail.ptr # head.ptr /\ localNext[x] = doubleNext[head.ptr]
      /\ result[x] = payload[localNext[x].ptr]
  BY <1>1, <1>2 DEF Inv, HeadCopies
<1>4. pc'[x] = "freeLink"
  BY <1>1 DEF PopCasHead, Goto, Inv, TypeOK, ControlTypeOK
<1>5. QED
  BY <1>1, <1>3, <1>4 DEF PopCasHead, MovesHead

LEMMA HeadMoves ==
    ASSUME Inv, NEW x \in Procs, Acts(x)
    PROVE  MovesHead(x) \/ KeepsHead(x)
<1>1. CASE x \in Poppers /\ PopCasHead(x) /\ head = localHead[x]
  BY <1>1, CasHeadMoves
<1>2. CASE head' = head /\ (lagHead' = lagHead \/ lagHead' = Forget(lagHead, x))
  BY <1>2 DEF KeepsHead, Forget, Inv, TypeOK, HistoryTypeOK
<1>3. QED
  BY <1>1, <1>2 DEF Acts, PushStep, PopStep, PushAlloc, PushReadTail, PushReadNext, PushTestTail,
     PushHelpTail, PushCasNext, PushSwingTail, PopReadHead, PopReadTail, PopReadNext, PopTestHead,
     PopReturnNull, PopHelpTail, PopReadPayload, PopCasHead, PopFreeLink, Restart, shared, lags

\* The CAS of DoubleNext, when it succeeds.
LEMMA CasNextLinks ==
    ASSUME Inv, NEW x \in Pushers, PushCasNext(x), doubleNext[localTail[x].ptr] = localNext[x]
    PROVE  LinksItem(x)
<1>1. pc[x] = "casNext" /\ x \in Procs
  BY DEF PushCasNext, Procs
<1>2. localTail[x] = tail /\ doubleNext[tail.ptr] = localNext[x] /\ localNext[x].ptr = 0
  BY <1>1, NextIsCurrent
<1>3. pc'[x] = "swingTail"
  BY <1>1 DEF PushCasNext, Goto, Inv, TypeOK, ControlTypeOK
<1>4. QED
  BY <1>1, <1>2, <1>3 DEF PushCasNext, LinksItem

LEMMA NextMoves ==
    ASSUME Inv, NEW x \in Procs, Acts(x)
    PROVE  LinksItem(x) \/ KeepsNext(x)
<1>1. CASE x \in Pushers /\ PushCasNext(x) /\ doubleNext[localTail[x].ptr] = localNext[x]
  BY <1>1, CasNextLinks
<1>2. CASE /\ doubleNext' = doubleNext \/ (x \in Poppers /\ PopFreeLink(x))
           /\ lagNext' = lagNext \/ lagNext' = Forget(lagNext, x)
  BY <1>2 DEF KeepsNext, Forget, Inv, TypeOK, HistoryTypeOK
<1>3. QED
  BY <1>1, <1>2 DEF Acts, PushStep, PopStep, PushAlloc, PushReadTail, PushReadNext, PushTestTail,
     PushHelpTail, PushCasNext, PushSwingTail, PopReadHead, PopReadTail, PopReadNext, PopTestHead,
     PopReturnNull, PopHelpTail, PopReadPayload, PopCasHead, PopFreeLink, Restart, shared, lags

LEMMA PoolMoves ==
    ASSUME NEW x \in Procs, Acts(x)
    PROVE  KeepsPool(x)
BY DEF KeepsPool, Acts, PushStep, PopStep, PushReadTail, PushReadNext, PushTestTail,
     PushHelpTail, PushCasNext, PushSwingTail, PopReadHead, PopReadTail, PopReadNext, PopTestHead,
     PopReturnNull, PopHelpTail, PopReadPayload, PopCasHead, shared

\* The other threads stay where they are and keep their locals.
Keeps(y) ==
    /\ pc'[y] = pc[y] /\ localHead'[y] = localHead[y] /\ localTail'[y] = localTail[y]
    /\ localNext'[y] = localNext[y] /\ item'[y] = item[y] /\ result'[y] = result[y]
    /\ y \in Pushers => put'[y] = put[y]
    /\ y \in Poppers => sawEmpty'[y] = sawEmpty[y]

LEMMA OthersKeep ==
    ASSUME TypeOK, NEW x \in Procs, Acts(x), NEW y \in Procs \ {x}
    PROVE  Keeps(y)
<1>1. \E label : pc' = [pc EXCEPT ![x] = label]
  BY DEF Acts, PushStep, PopStep, PushAlloc, PushReadTail, PushReadNext, PushTestTail,
     PushHelpTail, PushCasNext, PushSwingTail, PopReadHead, PopReadTail, PopReadNext, PopTestHead,
     PopReturnNull, PopHelpTail, PopReadPayload, PopCasHead, PopFreeLink, Restart, Goto
<1>2. pc'[y] = pc[y]
  BY <1>1 DEF TypeOK, ControlTypeOK
<1>3. localHead'[y] = localHead[y] /\ localTail'[y] = localTail[y] /\ localNext'[y] = localNext[y]
  BY DEF TypeOK, LocalTypeOK, Acts, PushStep, PopStep, PushAlloc, PushReadTail, PushReadNext,
     PushTestTail, PushHelpTail, PushCasNext, PushSwingTail, PopReadHead, PopReadTail, PopReadNext,
     PopTestHead, PopReturnNull, PopHelpTail, PopReadPayload, PopCasHead, PopFreeLink, Restart
<1>4. item'[y] = item[y] /\ result'[y] = result[y]
  BY DEF TypeOK, LocalTypeOK, Acts, PushStep, PopStep, PushAlloc, PushReadTail, PushReadNext,
     PushTestTail, PushHelpTail, PushCasNext, PushSwingTail, PopReadHead, PopReadTail, PopReadNext,
     PopTestHead, PopReturnNull, PopHelpTail, PopReadPayload, PopCasHead, PopFreeLink
<1>5. (y \in Pushers => put'[y] = put[y]) /\ (y \in Poppers => sawEmpty'[y] = sawEmpty[y])
  BY DEF TypeOK, HistoryTypeOK, Acts, PushStep, PopStep, PushAlloc, PushReadTail, PushReadNext,
     PushTestTail, PushHelpTail, PushCasNext, PushSwingTail, PopReadHead, PopReadTail, PopReadNext,
     PopTestHead, PopReturnNull, PopHelpTail, PopReadPayload, PopCasHead, PopFreeLink, history
<1>6. QED
  BY <1>2, <1>3, <1>4, <1>5 DEF Keeps

-----------------------------------------------------------------------------
(* Type correctness. *)

\* Words with an advanced counter or a new index are words.
LEMMA WordTypes ==
    /\ NullWord \in Word
    /\ \A word \in Word, ptr \in Links \cup {0} : Advanced(word, ptr) \in Word
    /\ \A word \in Word : SetPtr(word, 0) \in Word
    /\ \A word \in Word : word.ptr \in Links \cup {0} /\ word.counter \in Counter
BY TagBitsAssumption
   DEF Word, IndexedPointers, Counter, NullWord, Advanced, SetAll, SetPtr, AdvanceCounter

\* Copies that nobody holds for too long have ages in range.
LEMMA LagTypes ==
    ASSUME NEW lag \in [Procs -> Lags], NEW x \in Procs
    PROVE  /\ Forget(lag, x) \in [Procs -> Lags]
           /\ \A holders : NobodyStarves(lag, holders) => Older(lag, x, holders) \in [Procs -> Lags]
<1>1. 0 \in Lags /\ \A n \in Lags : n + 1 < MAX_TagBitsValue => n + 1 \in Lags
  BY TagBitsAssumption DEF Lags
<1>2. Forget(lag, x) \in [Procs -> Lags]
  BY <1>1 DEF Forget
<1>3. ASSUME NEW holders, NobodyStarves(lag, holders)
      PROVE  Older(lag, x, holders) \in [Procs -> Lags]
  <2>1. \A y \in Procs : y \in holders => lag[y] + 1 \in Lags
    BY <1>1, <1>3 DEF NobodyStarves
  <2>2. QED
    BY <1>1, <2>1 DEF Older
<1>4. QED
  BY <1>2, <1>3

\* Where threads go.
LEMMA ControlTypeOKStep ==
    ASSUME ControlTypeOK, NEW x \in Procs, Acts(x)
    PROVE  ControlTypeOK'
<1>1. CASE x \in Pushers
  <2>1. \E label \in PushPoints : pc' = [pc EXCEPT ![x] = label]
    BY <1>1, ProcsSplit DEF Acts, PushStep, PushAlloc, PushReadTail, PushReadNext, PushTestTail,
       PushHelpTail, PushCasNext, PushSwingTail, Restart, Goto, PushPoints
  <2>2. QED
    BY <1>1, <2>1, ProcsSplit DEF ControlTypeOK
<1>2. CASE x \in Poppers
  <2>1. \E label \in PopPoints : pc' = [pc EXCEPT ![x] = label]
    BY <1>2, ProcsSplit DEF Acts, PopStep, PopReadHead, PopReadTail, PopReadNext, PopTestHead,
       PopReturnNull, PopHelpTail, PopReadPayload, PopCasHead, PopFreeLink, Restart, Goto, PopPoints
  <2>2. QED
    BY <1>2, <2>1, ProcsSplit DEF ControlTypeOK
<1>3. QED
  BY <1>1, <1>2 DEF Procs

\* The links that words name when they are dereferenced.
LEMMA NamedLinks ==
    ASSUME Inv
    PROVE  /\ head.ptr \in Links /\ tail.ptr \in Links
           /\ \A x \in TailHolders : localTail[x].ptr \in Links
           /\ \A c \in Poppers :
                /\ c \in HeadHolders \/ pc[c] = "freeLink" => localHead[c].ptr \in Links
                /\ pc[c] \in {"readPayload", "casHead"} => localNext[c].ptr \in Links
           /\ \A p \in Pushers : pc[p] \in {"readTail", "readNext", "testTail", "helpTail",
                                            "casNext", "swingTail"} => item[p] \in Links
<1>1. PICK s \in Seq(Links) : LinkedFrom(doubleNext, head.ptr, s) /\ NearEnd(s, tail.ptr)
  BY DEF Inv, ListEnds
<1>2. head.ptr \in Links /\ tail.ptr \in Links
  BY <1>1 DEF LinkedFrom, NearEnd
<1>3. \A x \in Procs : /\ localTail[x].ptr \in Links \cup {0} /\ localHead[x].ptr \in Links \cup {0}
                       /\ localNext[x].ptr \in Links \cup {0} /\ item[x] \in Links \cup {0}
  BY WordTypes DEF Inv, TypeOK, LocalTypeOK
<1>4. \A x \in TailHolders : x \in Procs
  BY DEF TailHolders, Procs
<1>5. \A x \in TailHolders : localTail[x].ptr \in Links
  BY <1>3, <1>4 DEF Inv, TailCopies
<1>6. \A c \in Poppers :
        /\ c \in HeadHolders \/ pc[c] = "freeLink" => localHead[c].ptr \in Links
        /\ pc[c] \in {"readPayload", "casHead"} => localNext[c].ptr \in Links
  BY <1>3, ProcsSplit DEF Inv, HeadCopies
<1>7. \A p \in Pushers : pc[p] \in {"readTail", "readNext", "testTail", "helpTail",
                                    "casNext", "swingTail"} => item[p] \in Links
  BY <1>3, ProcsSplit DEF Inv, ItemInHand
<1>8. QED
  BY <1>2, <1>5, <1>6, <1>7

\* The shared words name links or null.
LEMMA SharedTypeOKStep ==
    ASSUME Inv, NEW x \in Procs, Acts(x)
    PROVE  SharedTypeOK'
<1>1. SharedTypeOK /\ head.ptr \in Links /\ tail.ptr \in Links
  BY NamedLinks DEF Inv, TypeOK
<1>2. head' \in Word
  BY <1>1, HeadMoves, WordTypes DEF MovesHead, KeepsHead, SharedTypeOK
<1>3. tail' \in Word
  BY <1>1, TailMoves, WordTypes DEF MovesTail, KeepsTail, SharedTypeOK
<1>4. doubleNext' \in [Links -> Word]
  <2>1. CASE LinksItem(x)
    <3>1. item[x] \in Links
      BY <2>1, NamedLinks DEF LinksItem
    <3>2. Advanced(doubleNext[tail.ptr], item[x]) \in Word
      BY <1>1, <3>1, WordTypes DEF SharedTypeOK
    <3>3. QED
      BY <1>1, <2>1, <3>2 DEF LinksItem, SharedTypeOK
  <2>2. CASE x \in Poppers /\ PopFreeLink(x)
    <3>1. localHead[x].ptr \in Links
      BY <2>2, NamedLinks DEF PopFreeLink
    <3>2. SetPtr(doubleNext[localHead[x].ptr], 0) \in Word
      BY <1>1, <3>1, WordTypes DEF SharedTypeOK
    <3>3. QED
      BY <1>1, <2>2, <3>2 DEF PopFreeLink, SharedTypeOK
  <2>3. QED
    BY <1>1, <2>1, <2>2, NextMoves DEF KeepsNext, SharedTypeOK
<1>5. free' \in SUBSET Links /\ payload' \in [Links -> Payloads \cup {NoPayload}]
  <2>1. CASE x \in Pushers /\ PushAlloc(x)
    <3>1. put[x] \in 0 .. MaxPushes /\ put[x] < MaxPushes
      BY <2>1 DEF PushAlloc, Inv, TypeOK, HistoryTypeOK
    <3>2. put[x] + 1 \in 1 .. MaxPushes
      BY <3>1, FIFOAssumption
    <3>3. <<x, put[x] + 1>> \in Payloads
      BY <2>1, <3>2 DEF Payloads
    <3>4. QED
      BY <1>1, <2>1, <3>3 DEF PushAlloc, SharedTypeOK
  <2>2. CASE x \in Poppers /\ PopFreeLink(x)
    <3>1. localHead[x].ptr \in Links
      BY <2>2, NamedLinks DEF PopFreeLink
    <3>2. QED
      BY <1>1, <2>2, <3>1 DEF PopFreeLink, SharedTypeOK
  <2>3. QED
    BY <1>1, <2>1, <2>2, PoolMoves DEF KeepsPool, SharedTypeOK
<1>6. QED
  BY <1>2, <1>3, <1>4, <1>5 DEF SharedTypeOK

\* Locals are copies of the shared words, or forgotten.
LEMMA LocalTypeOKStep ==
    ASSUME Inv, NEW x \in Procs, Acts(x)
    PROVE  LocalTypeOK'
<1>1. SharedTypeOK /\ LocalTypeOK
  BY DEF Inv, TypeOK
<1>2. NullWord \in Word
  BY WordTypes
<1>3. localHead' \in [Procs -> Word]
  BY <1>1, <1>2 DEF SharedTypeOK, LocalTypeOK, Acts, PushStep, PopStep, PushAlloc, PushReadTail,
     PushReadNext, PushTestTail, PushHelpTail, PushCasNext, PushSwingTail, PopReadHead, PopReadTail,
     PopReadNext, PopTestHead, PopReturnNull, PopHelpTail, PopReadPayload, PopCasHead, PopFreeLink,
     Restart
<1>4. localTail' \in [Procs -> Word]
  BY <1>1, <1>2 DEF SharedTypeOK, LocalTypeOK, Acts, PushStep, PopStep, PushAlloc, PushReadTail,
     PushReadNext, PushTestTail, PushHelpTail, PushCasNext, PushSwingTail, PopReadHead, PopReadTail,
     PopReadNext, PopTestHead, PopReturnNull, PopHelpTail, PopReadPayload, PopCasHead, PopFreeLink,
     Restart
<1>5. localNext' \in [Procs -> Word]
  <2>1. CASE x \in Pushers /\ PushReadNext(x)
    <3>1. localTail[x].ptr \in Links
      BY <2>1, NamedLinks DEF PushReadNext, TailHolders
    <3>2. QED
      BY <1>1, <2>1, <3>1 DEF PushReadNext, SharedTypeOK, LocalTypeOK
  <2>2. CASE x \in Poppers /\ PopReadNext(x)
    <3>1. localHead[x].ptr \in Links
      BY <2>2, NamedLinks DEF PopReadNext, HeadHolders
    <3>2. QED
      BY <1>1, <2>2, <3>1 DEF PopReadNext, SharedTypeOK, LocalTypeOK
  <2>3. QED
    BY <1>1, <1>2, <2>1, <2>2 DEF LocalTypeOK, Acts, PushStep, PopStep, PushAlloc, PushReadTail,
       PushTestTail, PushHelpTail, PushCasNext, PushSwingTail, PopReadHead, PopReadTail,
       PopTestHead, PopReturnNull, PopHelpTail, PopReadPayload, PopCasHead, PopFreeLink, Restart
<1>6. item' \in [Procs -> Links \cup {0}]
  BY <1>1 DEF SharedTypeOK, LocalTypeOK, Acts, PushStep, PopStep, PushAlloc, PushReadTail,
     PushReadNext, PushTestTail, PushHelpTail, PushCasNext, PushSwingTail, PopReadHead, PopReadTail,
     PopReadNext, PopTestHead, PopReturnNull, PopHelpTail, PopReadPayload, PopCasHead, PopFreeLink
<1>7. result' \in [Procs -> Payloads \cup {NoPayload}]
  <2>1. CASE x \in Poppers /\ PopReadPayload(x)
    <3>1. localNext[x].ptr \in Links
      BY <2>1, NamedLinks DEF PopReadPayload
    <3>2. QED
      BY <1>1, <2>1, <3>1 DEF PopReadPayload, SharedTypeOK, LocalTypeOK
  <2>2. QED
    BY <1>1, <2>1 DEF LocalTypeOK, Acts, PushStep, PopStep, PushAlloc, PushReadTail,
       PushReadNext, PushTestTail, PushHelpTail, PushCasNext, PushSwingTail, PopReadHead,
       PopReadTail, PopReadNext, PopTestHead, PopReturnNull, PopHelpTail, PopCasHead, PopFreeLink
<1>8. QED
  BY <1>3, <1>4, <1>5, <1>6, <1>7 DEF LocalTypeOK

\* The histories stay in range: counts because a pusher pushes its last payload once,
\* ages because nobody starves.
LEMMA HistoryTypeOKStep ==
    ASSUME Inv, NEW x \in Procs, Acts(x)
    PROVE  HistoryTypeOK'
<1>1. HistoryTypeOK
  BY DEF Inv, TypeOK
<1>2. put' \in [Pushers -> 0 .. MaxPushes]
  <2>1. CASE x \in Pushers /\ PushCasNext(x)
    <3>1. put[x] \in 0 .. MaxPushes /\ put[x] < MaxPushes
      BY <1>1, <2>1 DEF PushCasNext, HistoryTypeOK, Inv, ItemInHand
    <3>2. put[x] + 1 \in 0 .. MaxPushes
      BY <3>1, FIFOAssumption
    <3>3. QED
      BY <1>1, <2>1, <3>2 DEF PushCasNext, HistoryTypeOK
  <2>2. QED
    BY <1>1, <2>1 DEF HistoryTypeOK, Acts, PushStep, PopStep, PushAlloc, PushReadTail, PushReadNext,
       PushTestTail, PushHelpTail, PushSwingTail, PopReadHead, PopReadTail, PopReadNext,
       PopTestHead, PopReturnNull, PopHelpTail, PopReadPayload, PopCasHead, PopFreeLink, history
<1>3. got' \in [Poppers -> Payloads \cup {NoPayload}]
  BY <1>1 DEF HistoryTypeOK, Inv, TypeOK, LocalTypeOK, Acts, PushStep, PopStep, PushAlloc,
     PushReadTail, PushReadNext, PushTestTail, PushHelpTail, PushCasNext, PushSwingTail,
     PopReadHead, PopReadTail, PopReadNext, PopTestHead, PopReturnNull, PopHelpTail,
     PopReadPayload, PopCasHead, PopFreeLink, history
<1>4. sawEmpty' \in [Poppers -> BOOLEAN]
  BY <1>1, Zenon DEF HistoryTypeOK, Acts, PushStep, PopStep, PushAlloc, PushReadTail, PushReadNext,
     PushTestTail, PushHelpTail, PushCasNext, PushSwingTail, PopReadHead, PopReadTail, PopReadNext,
     PopTestHead, PopReturnNull, PopHelpTail, PopReadPayload, PopCasHead, PopFreeLink, history
<1>5. lagHead' \in [Procs -> Lags]
  BY <1>1, LagTypes DEF HistoryTypeOK, Acts, PushStep, PopStep, PushAlloc, PushReadTail,
     PushReadNext, PushTestTail, PushHelpTail, PushCasNext, PushSwingTail, PopReadHead,
     PopReadTail, PopReadNext, PopTestHead, PopReturnNull, PopHelpTail, PopReadPayload,
     PopCasHead, PopFreeLink, Restart, lags
<1>6. lagTail' \in [Procs -> Lags]
  BY <1>1, LagTypes DEF HistoryTypeOK, Acts, PushStep, PopStep, PushAlloc, PushReadTail,
     PushReadNext, PushTestTail, PushHelpTail, PushCasNext, PushSwingTail, PopReadHead,
     PopReadTail, PopReadNext, PopTestHead, PopReturnNull, PopHelpTail, PopReadPayload,
     PopCasHead, PopFreeLink, CasTail, lags
<1>7. lagNext' \in [Procs -> Lags]
  BY <1>1, LagTypes DEF HistoryTypeOK, Acts, PushStep, PopStep, PushAlloc, PushReadTail,
     PushReadNext, PushTestTail, PushHelpTail, PushCasNext, PushSwingTail, PopReadHead,
     PopReadTail, PopReadNext, PopTestHead, PopReturnNull, PopHelpTail, PopReadPayload,
     PopCasHead, PopFreeLink, Restart, lags
<1>8. QED
  BY <1>2, <1>3, <1>4, <1>5, <1>6, <1>7 DEF HistoryTypeOK

-----------------------------------------------------------------------------
(* The counters rule out ABA. *)

\* Who holds a copy is a matter of where the thread is.
LEMMA HoldersKeep ==
    ASSUME NEW y \in Procs, Keeps(y)
    PROVE  /\ y \in HeadHolders' <=> y \in HeadHolders
           /\ y \in TailHolders' <=> y \in TailHolders
           /\ \A link : y \in NextHolders(link)' <=> y \in NextHolders(link)
BY DEF Keeps, HeadHolders, TailHolders, NextHolders

\* A copy ages by one change when its word changes ...
LEMMA CopyAges ==
    ASSUME NEW word, NEW current \in Word, NEW ptr, NEW lag \in Lags, lag + 1 < MAX_TagBitsValue,
           word.counter = CounterBefore(current.counter, lag)
    PROVE  word.counter = CounterBefore(Advanced(current, ptr).counter, lag + 1) /\ lag + 1 # 0
<1>1. lag \in Nat /\ current.counter \in Counter
  BY TagBitsAssumption, WordTypes DEF Lags
<1>2. Advanced(current, ptr).counter = AdvanceCounter(current)
  BY DEF Advanced, SetAll
<1>3. QED
  BY <1>1, <1>2, CounterBeforeStep

\* ... and is equal to it when it has just been made.
LEMMA CopyFresh == \A word \in Word : Copy(word, word, 0)
BY WordTypes, TagBitsAssumption DEF Copy, CounterBefore, Counter

LEMMA HeadNoABAStep ==
    ASSUME Inv, NEW x \in Procs, Acts(x)
    PROVE  HeadNoABA'
<1> DEFINE OK(y) == IF y \in HeadHolders THEN Copy(localHead[y], head, lagHead[y])
                                         ELSE lagHead[y] = 0
<1>1. SUFFICES ASSUME NEW y \in Procs PROVE OK(y)'
  BY DEF HeadNoABA
<1>2. OK(y) /\ head \in Word /\ lagHead \in [Procs -> Lags]
  BY DEF Inv, HeadNoABA, TypeOK, SharedTypeOK, HistoryTypeOK
<1>3. CASE y # x
  <2>1. Keeps(y) /\ (y \in HeadHolders' <=> y \in HeadHolders)
    BY <1>3, OthersKeep, HoldersKeep DEF Inv
  <2>2. CASE KeepsHead(x)
    BY <1>2, <1>3, <2>1, <2>2 DEF KeepsHead, Keeps
  <2>3. CASE MovesHead(x) /\ y \in HeadHolders
    <3>1. lagHead[y] + 1 < MAX_TagBitsValue /\ lagHead'[y] = lagHead[y] + 1
      BY <1>3, <2>3 DEF MovesHead, NobodyStarves, Older
    <3>2. localHead[y].counter = CounterBefore(head'.counter, lagHead'[y]) /\ lagHead'[y] # 0
      BY <1>2, <2>3, <3>1, CopyAges DEF MovesHead, Copy
    <3>3. QED
      BY <2>1, <2>3, <3>2 DEF Copy, Keeps
  <2>4. CASE MovesHead(x) /\ y \notin HeadHolders
    BY <1>2, <1>3, <2>1, <2>4 DEF MovesHead, Older
  <2>5. QED
    BY <2>2, <2>3, <2>4, HeadMoves
<1>4. CASE y = x
  <2>1. CASE x \notin HeadHolders' /\ lagHead'[x] = 0
    BY <1>4, <2>1
  <2>2. CASE /\ x \in HeadHolders /\ x \in HeadHolders'
             /\ UNCHANGED <<head, lagHead>> /\ localHead'[x] = localHead[x]
    BY <1>2, <1>4, <2>2
  <2>3. CASE x \in Poppers /\ PopReadHead(x)
    <3>1. x \notin HeadHolders /\ lagHead'[x] = 0
      BY <1>2, <1>4, <2>3 DEF PopReadHead, HeadHolders, lags
    <3>2. localHead'[x] = head /\ head' = head
      BY <1>4, <2>3 DEF PopReadHead, Inv, TypeOK, LocalTypeOK, shared
    <3>3. QED
      BY <1>2, <1>4, <3>1, <3>2, CopyFresh
  <2>4. CASE x \in Pushers
    <3>1. x \notin HeadHolders /\ x \notin HeadHolders'
      BY <2>4, ProcsSplit DEF HeadHolders
    <3>2. lagHead' = lagHead \/ lagHead' = Forget(lagHead, x)
      BY <2>4, ProcsSplit DEF Acts, PushStep, PushAlloc, PushReadTail, PushReadNext,
         PushTestTail, PushHelpTail, PushCasNext, PushSwingTail, Restart, lags
    <3>3. QED
      BY <1>2, <1>4, <3>1, <3>2 DEF Forget
  <2>5. CASE x \in Poppers
    <3>1. pc \in [Procs -> PushPoints \cup PopPoints] /\ x \notin Pushers
      BY <2>5, ProcsSplit DEF Inv, TypeOK, ControlTypeOK
    <3>2. CASE lagHead' = Forget(lagHead, x) /\ pc'[x] \in {"popIdle", "readHead"}
      BY <1>2, <2>1, <3>2 DEF Forget, HeadHolders
    <3>3. CASE /\ PopReadTail(x) \/ PopReadNext(x) \/ PopReadPayload(x)
                  \/ (PopTestHead(x) /\ head = localHead[x])
      <4>1. x \in HeadHolders /\ UNCHANGED <<head, lagHead, localHead>>
        BY <2>5, <3>3 DEF PopReadTail, PopReadNext, PopReadPayload, PopTestHead, HeadHolders,
           shared, lags
      <4>2. x \in HeadHolders'
        BY <2>5, <3>1, <3>3 DEF PopReadTail, PopReadNext, PopReadPayload, PopTestHead, HeadHolders,
           Goto
      <4>3. QED
        BY <2>2, <4>1, <4>2
    <3>4. CASE PopCasHead(x) /\ head = localHead[x]
      <4>1. pc'[x] = "freeLink" /\ lagHead'[x] = 0
        BY <1>2, <3>1, <3>4 DEF PopCasHead, Goto, Older
      <4>2. QED
        BY <2>1, <4>1 DEF HeadHolders
    <3>5. CASE PopReturnNull(x) \/ PopHelpTail(x) \/ PopFreeLink(x)
               \/ (PopTestHead(x) /\ head # localHead[x]) \/ (PopCasHead(x) /\ head # localHead[x])
      BY <3>1, <3>2, <3>5 DEF PopReturnNull, PopHelpTail, PopFreeLink, PopTestHead, PopCasHead,
         Restart, Goto
    <3>6. QED
      BY <2>3, <2>5, <3>1, <3>3, <3>4, <3>5 DEF Acts, PopStep
  <2>6. QED
    BY <2>4, <2>5 DEF Procs
<1>5. QED
  BY <1>3, <1>4

LEMMA TailNoABAStep ==
    ASSUME Inv, NEW x \in Procs, Acts(x)
    PROVE  TailNoABA'
<1> DEFINE OK(y) == IF y \in TailHolders THEN Copy(localTail[y], tail, lagTail[y])
                                         ELSE lagTail[y] = 0
<1>1. SUFFICES ASSUME NEW y \in Procs PROVE OK(y)'
  BY DEF TailNoABA
<1>2. OK(y) /\ tail \in Word /\ lagTail \in [Procs -> Lags]
  BY DEF Inv, TailNoABA, TypeOK, SharedTypeOK, HistoryTypeOK
<1>3. CASE y # x
  <2>1. Keeps(y) /\ (y \in TailHolders' <=> y \in TailHolders)
    BY <1>3, OthersKeep, HoldersKeep DEF Inv
  <2>2. CASE KeepsTail(x)
    BY <1>2, <1>3, <2>1, <2>2 DEF KeepsTail, Keeps
  <2>3. CASE MovesTail(x) /\ y \in TailHolders
    <3>1. lagTail[y] + 1 < MAX_TagBitsValue /\ lagTail'[y] = lagTail[y] + 1
      BY <1>3, <2>3 DEF MovesTail, NobodyStarves, Older
    <3>2. localTail[y].counter = CounterBefore(tail'.counter, lagTail'[y]) /\ lagTail'[y] # 0
      BY <1>2, <2>3, <3>1, CopyAges DEF MovesTail, Copy
    <3>3. QED
      BY <2>1, <2>3, <3>2 DEF Copy, Keeps
  <2>4. CASE MovesTail(x) /\ y \notin TailHolders
    BY <1>2, <1>3, <2>1, <2>4 DEF MovesTail, Older
  <2>5. QED
    BY <2>2, <2>3, <2>4, TailMoves
<1>4. CASE y = x
  <2>1. CASE x \notin TailHolders' /\ lagTail'[x] = 0
    BY <1>4, <2>1
  <2>2. CASE /\ x \in TailHolders /\ x \in TailHolders'
             /\ UNCHANGED <<tail, lagTail>> /\ localTail'[x] = localTail[x]
    BY <1>2, <1>4, <2>2
  <2>3. CASE /\ x \notin TailHolders /\ x \notin TailHolders' /\ lagTail' = lagTail
    BY <1>2, <1>4, <2>1, <2>3
  <2>4. CASE /\ x \notin TailHolders /\ UNCHANGED <<tail, lagTail>>
             /\ localTail' = [localTail EXCEPT ![x] = tail]
    <3>1. localTail'[x] = tail /\ lagTail'[x] = 0
      BY <1>2, <1>4, <2>4 DEF Inv, TypeOK, LocalTypeOK
    <3>2. QED
      BY <1>2, <1>4, <2>4, <3>1, CopyFresh
  <2>5. pc \in [Procs -> PushPoints \cup PopPoints]
    BY DEF Inv, TypeOK, ControlTypeOK
  <2>6. CASE x \in Pushers
    <3>1. x \notin Poppers
      BY <2>6, ProcsSplit
    <3>2. CASE PushAlloc(x)
      BY <2>3, <2>5, <3>1, <3>2 DEF PushAlloc, TailHolders, Goto, lags
    <3>3. CASE PushReadTail(x)
      BY <2>4, <3>1, <3>3 DEF PushReadTail, TailHolders, shared, lags
    <3>4. CASE PushReadNext(x) \/ (PushTestTail(x) /\ tail = localTail[x])
               \/ (PushCasNext(x) /\ doubleNext[localTail[x].ptr] = localNext[x])
      <4>1. x \in TailHolders /\ UNCHANGED <<tail, lagTail, localTail>>
        BY <2>6, <3>4 DEF PushReadNext, PushTestTail, PushCasNext, TailHolders, shared, lags
      <4>2. x \in TailHolders'
        BY <2>5, <2>6, <3>4 DEF PushReadNext, PushTestTail, PushCasNext, TailHolders, Goto
      <4>3. QED
        BY <2>2, <4>1, <4>2
    <3>5. CASE /\ pc'[x] \in {"readTail", "idle"}
               /\ \/ lagTail' = Forget(lagTail, x)
                  \/ lagTail' = Older(lagTail, x, TailHolders \ {x})
      BY <1>2, <2>1, <3>1, <3>5 DEF Forget, Older, TailHolders
    <3>6. QED
      BY <2>5, <2>6, <3>1, <3>2, <3>3, <3>4, <3>5 DEF Acts, PushStep, PushTestTail, PushHelpTail,
         PushCasNext, PushSwingTail, Restart, Goto, CasTail
  <2>7. CASE x \in Poppers
    <3>1. x \notin Pushers
      BY <2>7, ProcsSplit
    <3>2. CASE PopReadHead(x) \/ PopFreeLink(x)
      BY <2>3, <2>5, <3>1, <3>2 DEF PopReadHead, PopFreeLink, TailHolders, Restart, Goto, lags
    <3>3. CASE PopReadTail(x)
      BY <2>4, <3>1, <3>3 DEF PopReadTail, TailHolders, shared, lags
    <3>4. CASE PopReadNext(x) \/ PopReadPayload(x) \/ (PopTestHead(x) /\ head = localHead[x])
      <4>1. x \in TailHolders /\ UNCHANGED <<tail, lagTail, localTail>>
        BY <2>7, <3>4 DEF PopReadNext, PopReadPayload, PopTestHead, TailHolders, shared, lags
      <4>2. x \in TailHolders'
        BY <2>5, <2>7, <3>4 DEF PopReadNext, PopReadPayload, PopTestHead, TailHolders, Goto
      <4>3. QED
        BY <2>2, <4>1, <4>2
    <3>5. CASE /\ pc'[x] \in {"readHead", "popIdle", "freeLink"}
               /\ \/ lagTail' = Forget(lagTail, x)
                  \/ lagTail' = Older(lagTail, x, TailHolders \ {x})
      BY <1>2, <2>1, <3>1, <3>5 DEF Forget, Older, TailHolders
    <3>6. QED
      BY <2>5, <2>7, <3>1, <3>2, <3>3, <3>4, <3>5 DEF Acts, PopStep, PopTestHead, PopReturnNull,
         PopHelpTail, PopCasHead, Restart, Goto, CasTail
  <2>8. QED
    BY <2>6, <2>7 DEF Procs
<1>5. QED
  BY <1>3, <1>4

\* A freed link keeps its counter.
LEMMA FreeKeepsCounters ==
    ASSUME Inv, NEW c \in Poppers, PopFreeLink(c), NEW link \in Links
    PROVE  doubleNext'[link].counter = doubleNext[link].counter
BY DEF PopFreeLink, SetPtr, Inv, TypeOK, SharedTypeOK, Word, IndexedPointers

LEMMA NextNoABAStep ==
    ASSUME Inv, NEW x \in Procs, Acts(x)
    PROVE  NextNoABA'
<1> DEFINE Holds(y) == y \in NextHolders(localTail[y].ptr)
           OK(y) == IF Holds(y)
                    THEN localNext[y].counter =
                           CounterBefore(doubleNext[localTail[y].ptr].counter, lagNext[y])
                    ELSE lagNext[y] = 0
<1>1. SUFFICES ASSUME NEW y \in Procs PROVE OK(y)'
  BY DEF NextNoABA
<1>2. OK(y) /\ doubleNext \in [Links -> Word] /\ lagNext \in [Procs -> Lags]
  BY DEF Inv, NextNoABA, TypeOK, SharedTypeOK, HistoryTypeOK
<1>3. Holds(y) => localTail[y].ptr \in Links
  BY NamedLinks DEF NextHolders, TailHolders
<1>4. CASE y # x
  <2>1. Keeps(y) /\ (Holds(y)' <=> Holds(y))
    <3>1. Keeps(y)
      BY <1>4, OthersKeep DEF Inv
    <3>2. QED
      BY <3>1 DEF Keeps, NextHolders
  <2>2. CASE KeepsNext(x)
    <3>1. lagNext'[y] = lagNext[y]
      BY <1>4, <2>2 DEF KeepsNext
    <3>2. Holds(y) => doubleNext'[localTail[y].ptr].counter = doubleNext[localTail[y].ptr].counter
      BY <1>3, <2>2, FreeKeepsCounters DEF KeepsNext
    <3>3. QED
      BY <1>2, <2>1, <3>1, <3>2 DEF Keeps
  <2>3. CASE LinksItem(x) /\ y \in NextHolders(tail.ptr)
    <3>1. localTail[y].ptr = tail.ptr /\ tail.ptr \in Links /\ Holds(y)
      BY <2>3, NamedLinks DEF NextHolders
    <3>2. lagNext[y] + 1 < MAX_TagBitsValue /\ lagNext'[y] = lagNext[y] + 1
      BY <1>4, <2>3 DEF LinksItem, NobodyStarves, Older
    <3>3. doubleNext'[tail.ptr] = Advanced(doubleNext[tail.ptr], item[x])
      BY <1>2, <2>3, <3>1 DEF LinksItem
    <3>4. localNext[y].counter = CounterBefore(doubleNext'[tail.ptr].counter, lagNext'[y])
      BY <1>2, <3>1, <3>2, <3>3, CopyAges
    <3>5. QED
      BY <2>1, <3>1, <3>4 DEF Keeps
  <2>4. CASE LinksItem(x) /\ y \notin NextHolders(tail.ptr)
    <3>1. lagNext'[y] = lagNext[y]
      BY <1>4, <2>4 DEF LinksItem, Older
    <3>2. Holds(y) => localTail[y].ptr # tail.ptr
      BY <2>4
    <3>3. Holds(y) => doubleNext'[localTail[y].ptr] = doubleNext[localTail[y].ptr]
      BY <1>2, <1>3, <2>4, <3>2 DEF LinksItem
    <3>4. QED
      BY <1>2, <2>1, <3>1, <3>3 DEF Keeps
  <2>5. QED
    BY <2>2, <2>3, <2>4, NextMoves
<1>5. CASE y = x
  <2>1. CASE ~ Holds(x)' /\ lagNext'[x] = 0
    BY <1>5, <2>1
  <2>2. pc \in [Procs -> PushPoints \cup PopPoints] /\ (~ Holds(x) => lagNext[x] = 0)
    BY <1>2, <1>5 DEF Inv, TypeOK, ControlTypeOK
  <2>3. Forget(lagNext, x)[x] = 0
    BY <1>2 DEF Forget
  <2>4. CASE x \in Poppers
    <3>1. x \notin Pushers
      BY <2>4, ProcsSplit
    <3>2. ~ Holds(x) /\ ~ Holds(x)'
      BY <3>1 DEF NextHolders
    <3>3. lagNext' = lagNext \/ lagNext' = Forget(lagNext, x)
      BY <2>4, <3>1 DEF Acts, PopStep, PopReadHead, PopReadTail, PopReadNext, PopTestHead,
         PopReturnNull, PopHelpTail, PopReadPayload, PopCasHead, PopFreeLink, Restart, lags
    <3>4. QED
      BY <2>1, <2>2, <2>3, <3>2, <3>3
  <2>5. CASE x \in Pushers
    <3>1. x \notin Poppers
      BY <2>5, ProcsSplit
    <3>2. CASE PushAlloc(x) \/ PushReadTail(x)
      <4>1. ~ Holds(x) /\ lagNext' = lagNext /\ pc'[x] \in {"readTail", "readNext"}
        BY <2>2, <3>2 DEF PushAlloc, PushReadTail, Goto, NextHolders, lags
      <4>2. QED
        BY <2>1, <2>2, <4>1 DEF NextHolders
    <3>3. CASE PushReadNext(x)
      <4>1. ~ Holds(x) /\ lagNext' = lagNext /\ doubleNext' = doubleNext /\ localTail' = localTail
        BY <3>3 DEF PushReadNext, NextHolders, lags, shared
      <4>2. localNext'[x] = doubleNext[localTail[x].ptr] /\ lagNext'[x] = 0
        BY <2>2, <3>3, <4>1 DEF PushReadNext, Inv, TypeOK, LocalTypeOK
      <4>3. localTail[x].ptr \in Links
        BY <2>5, <3>3, NamedLinks DEF PushReadNext, TailHolders
      <4>4. doubleNext[localTail[x].ptr] \in Word
        BY <1>2, <4>3
      <4>5. QED
        BY <1>5, <4>1, <4>2, <4>4, CopyFresh DEF Copy
    <3>4. CASE PushTestTail(x) /\ tail = localTail[x]
      <4>1. Holds(x) /\ UNCHANGED <<lagNext, doubleNext, localTail, localNext>>
        BY <2>5, <3>4 DEF PushTestTail, NextHolders, lags, shared
      <4>2. Holds(x)'
        BY <2>2, <2>5, <3>4, <4>1 DEF PushTestTail, NextHolders, Goto
      <4>3. QED
        BY <1>2, <1>5, <4>1, <4>2
    <3>5. CASE PushCasNext(x) /\ doubleNext[localTail[x].ptr] = localNext[x]
      <4>1. pc'[x] = "swingTail" /\ lagNext'[x] = 0
        BY <2>2, <3>5 DEF PushCasNext, Goto, Older
      <4>2. QED
        BY <2>1, <4>1 DEF NextHolders
    <3>6. CASE lagNext' = Forget(lagNext, x) /\ pc'[x] \in {"readTail", "idle"}
      BY <2>1, <2>3, <3>6 DEF NextHolders
    <3>7. QED
      BY <2>2, <2>5, <3>1, <3>2, <3>3, <3>4, <3>5, <3>6 DEF Acts, PushStep, PushTestTail,
         PushHelpTail, PushCasNext, PushSwingTail, Restart, Goto
  <2>6. QED
    BY <2>4, <2>5 DEF Procs
<1>6. QED
  BY <1>4, <1>5

-----------------------------------------------------------------------------
(* Every link is in one place. *)

\* Links shared out among the pool, the list and the threads.
Placed(pool, chain, hands) ==
    /\ Links = pool \cup chain \cup UNION {hands[x] : x \in Procs}
    /\ pool \cap chain = {}
    /\ \A x \in Procs : hands[x] \cap (pool \cup chain) = {}
    /\ \A x, y \in Procs : x # y => hands[x] \cap hands[y] = {}

\* A link that goes from one place to another is in one place again.
LEMMA PlacedMove ==
    ASSUME NEW pool, NEW chain, NEW hands, Placed(pool, chain, hands),
           NEW pool2, NEW chain2, NEW hands2, NEW x \in Procs, NEW link,
           \A y \in Procs \ {x} : hands2[y] = hands[y],
           \/ /\ link \in pool /\ hands[x] = {} /\ chain2 = chain
              /\ pool2 = pool \ {link} /\ hands2[x] = {link}
           \/ /\ hands[x] = {link} /\ pool2 = pool
              /\ chain2 = chain \cup {link} /\ hands2[x] = {}
           \/ /\ link \in chain /\ hands[x] = {} /\ pool2 = pool
              /\ chain2 = chain \ {link} /\ hands2[x] = {link}
           \/ /\ hands[x] = {link} /\ chain2 = chain
              /\ pool2 = pool \cup {link} /\ hands2[x] = {}
           \/ pool2 = pool /\ chain2 = chain /\ hands2[x] = hands[x]
    PROVE  Placed(pool2, chain2, hands2)
<1>1. \A l : l \in Links <=> l \in pool \/ l \in chain \/ \E y \in Procs : l \in hands[y]
  BY DEF Placed
<1>2. \A l : l \in hands2[x] => l = link \/ l \in hands[x]
  OBVIOUS
<1>3. \A l : l \in Links <=> l \in pool2 \/ l \in chain2 \/ \E y \in Procs : l \in hands2[y]
  <2>1. ASSUME NEW l, l \in Links PROVE l \in pool2 \/ l \in chain2 \/ \E y \in Procs : l \in hands2[y]
    BY <1>1, <2>1
  <2>2. ASSUME NEW l, l \in pool2 \/ l \in chain2 \/ \E y \in Procs : l \in hands2[y] PROVE l \in Links
    BY <1>1, <2>2
  <2>3. QED
    BY <2>1, <2>2
<1>4. pool2 \cap chain2 = {}
  BY DEF Placed
<1>5. ASSUME NEW y \in Procs PROVE hands2[y] \cap (pool2 \cup chain2) = {}
  BY <1>5 DEF Placed
<1>6. ASSUME NEW y \in Procs, NEW z \in Procs, y # z PROVE hands2[y] \cap hands2[z] = {}
  <2>1. \A u \in Procs : hands[u] \cap (pool \cup chain) = {}
    BY DEF Placed
  <2>2. hands[y] \cap hands[z] = {} /\ hands[z] \cap hands[y] = {}
    BY <1>6 DEF Placed
  <2>3. QED
    BY <1>6, <2>1, <2>2
<1>7. Links = pool2 \cup chain2 \cup UNION {hands2[y] : y \in Procs}
  BY <1>3
<1>8. QED
  BY <1>4, <1>5, <1>6, <1>7 DEF Placed

\* In particular a link that a thread gives to the pool.
LEMMA PlacedFreed ==
    ASSUME NEW pool, NEW chain, NEW hands, Placed(pool, chain, hands), NEW hands2,
           NEW x \in Procs, NEW link, hands[x] = {link}, hands2[x] = {},
           \A y \in Procs \ {x} : hands2[y] = hands[y]
    PROVE  Placed(pool \cup {link}, chain, hands2)
BY PlacedMove

\* What a thread holds, by where it is.
LEMMA HandOf ==
    ASSUME NEW x \in Procs
    PROVE  /\ pc[x] \in {"readTail", "readNext", "testTail", "helpTail", "casNext"} =>
                InHand(x) = {item[x]}
           /\ pc[x] = "freeLink" => InHand(x) = {localHead[x].ptr}
           /\ pc[x] \notin {"readTail", "readNext", "testTail", "helpTail", "casNext", "freeLink"} =>
                InHand(x) = {}
BY DEF InHand

LEMMA HandOfPrime ==
    ASSUME NEW x \in Procs
    PROVE  /\ pc'[x] \in {"readTail", "readNext", "testTail", "helpTail", "casNext"} =>
                InHand(x)' = {item'[x]}
           /\ pc'[x] = "freeLink" => InHand(x)' = {localHead'[x].ptr}
           /\ pc'[x] \notin {"readTail", "readNext", "testTail", "helpTail", "casNext", "freeLink"} =>
                InHand(x)' = {}
BY DEF InHand

\* Apart from the four steps that move a link, a thread holds what it held.
LEMMA HandKept ==
    ASSUME Inv, NEW x \in Procs, Acts(x), ~ LinksItem(x), ~ MovesHead(x),
           ~ (x \in Pushers /\ PushAlloc(x)), ~ (x \in Poppers /\ PopFreeLink(x))
    PROVE  InHand(x)' = InHand(x)
<1>1. pc \in [Procs -> PushPoints \cup PopPoints]
  BY DEF Inv, TypeOK, ControlTypeOK
<1>2. CASE x \in Pushers
  <2>1. x \notin Poppers
    BY <1>2, ProcsSplit
  <2>2. CASE PushSwingTail(x)
    <3>1. pc[x] = "swingTail" /\ pc'[x] = "idle"
      BY <1>1, <2>2 DEF PushSwingTail, Restart, Goto
    <3>2. QED
      BY <3>1, HandOf, HandOfPrime
  <2>3. CASE PushCasNext(x) /\ doubleNext[localTail[x].ptr] = localNext[x]
    BY <1>2, <2>3, CasNextLinks
  <2>4. CASE PushReadTail(x) \/ PushReadNext(x) \/ PushTestTail(x) \/ PushHelpTail(x)
             \/ (PushCasNext(x) /\ doubleNext[localTail[x].ptr] # localNext[x])
    <3>1. /\ pc[x] \in {"readTail", "readNext", "testTail", "helpTail", "casNext"}
          /\ pc'[x] \in {"readTail", "readNext", "testTail", "helpTail", "casNext"}
      BY <1>1, <2>4 DEF PushReadTail, PushReadNext, PushTestTail, PushHelpTail, PushCasNext,
         Restart, Goto
    <3>2. item' = item
      BY <2>4 DEF PushReadTail, PushReadNext, PushTestTail, PushHelpTail, PushCasNext
    <3>3. QED
      BY <3>1, <3>2, HandOf, HandOfPrime
  <2>5. QED
    BY <1>2, <2>1, <2>2, <2>3, <2>4 DEF Acts, PushStep
<1>3. CASE x \in Poppers
  <2>1. x \notin Pushers
    BY <1>3, ProcsSplit
  <2>2. CASE PopCasHead(x) /\ head = localHead[x]
    BY <1>3, <2>2, CasHeadMoves
  <2>3. CASE PopCasHead(x) /\ head # localHead[x]
    <3>1. pc[x] = "casHead" /\ pc'[x] = "readHead"
      BY <1>1, <2>3 DEF PopCasHead, Restart, Goto
    <3>2. QED
      BY <3>1, HandOf, HandOfPrime
  <2>4. CASE PopReadHead(x) \/ PopReadTail(x) \/ PopReadNext(x) \/ PopTestHead(x)
             \/ PopReturnNull(x) \/ PopHelpTail(x) \/ PopReadPayload(x)
    <3>1. pc[x] \notin {"readTail", "readNext", "testTail", "helpTail", "casNext", "freeLink"}
      BY <2>4 DEF PopReadHead, PopReadTail, PopReadNext, PopTestHead, PopReturnNull, PopHelpTail,
         PopReadPayload
    <3>2. pc'[x] \notin {"readTail", "readNext", "testTail", "helpTail", "casNext", "freeLink"}
      BY <1>1, <2>4 DEF PopReadHead, PopReadTail, PopReadNext, PopTestHead, PopReturnNull,
         PopHelpTail, PopReadPayload, Restart, Goto
    <3>3. QED
      BY <3>1, <3>2, HandOf, HandOfPrime
  <2>5. QED
    BY <1>3, <2>1, <2>2, <2>3, <2>4 DEF Acts, PopStep
<1>4. QED
  BY <1>2, <1>3 DEF Procs

\* Every step leaves the list as it is, adds the new link at its end, or drops the
\* first one; Tail stays near the end.
LEMMA ListStep ==
    ASSUME Inv, NEW x \in Procs, Acts(x), NEW s \in Seq(Links),
           LinkedFrom(doubleNext, head.ptr, s), NearEnd(s, tail.ptr)
    PROVE  \E t \in Seq(Links) :
              /\ LinkedFrom(doubleNext', head'.ptr, t) /\ NearEnd(t, tail'.ptr)
              /\ \/ ~ LinksItem(x) /\ ~ MovesHead(x) /\ t = s
                 \/ LinksItem(x) /\ t = Append(s, item[x]) /\ Range(t) = Range(s) \cup {item[x]}
                 \/ MovesHead(x) /\ Len(s) > 1 /\ t = Tail(s) /\ Range(t) = Range(s) \ {head.ptr}
<1>1. /\ Len(s) \in Nat \ {0} /\ DOMAIN s = 1 .. Len(s) /\ s[1] = head.ptr
      /\ \A k \in 1 .. Len(s) : s[k] \in Links /\ s[k] \in Range(s)
  BY DEF LinkedFrom, Range
<1>2. tail.ptr \in Range(s) /\ head.ptr \in Range(s)
  BY <1>1 DEF NearEnd
<1>3. Range(s) \cap free = {} /\ \A y \in Procs : InHand(y) \cap Range(s) = {}
  <2>1. Chain = Range(s)
    BY QueueOf, QueueIsList
  <2>2. QED
    BY <2>1 DEF Inv, LinksConserved
<1>4. \/ doubleNext[tail.ptr].ptr = 0 /\ tail.ptr = s[Len(s)]
      \/ doubleNext[tail.ptr].ptr = s[Len(s)] /\ Len(s) > 1 /\ tail.ptr = s[Len(s) - 1]
  <2>1. CASE tail.ptr = s[Len(s)]
    BY <1>1, <2>1 DEF LinkedFrom
  <2>2. CASE Len(s) > 1 /\ tail.ptr = s[Len(s) - 1]
    <3>1. Len(s) - 1 \in 1 .. Len(s) /\ Len(s) - 1 # Len(s) /\ Len(s) - 1 + 1 = Len(s)
      BY <2>2
    <3>2. doubleNext[s[Len(s) - 1]].ptr = s[Len(s)]
      BY <1>1, <3>1 DEF LinkedFrom
    <3>3. QED
      BY <2>2, <3>2
  <2>3. QED
    BY <2>1, <2>2 DEF NearEnd
<1>5. CASE LinksItem(x)
  <2>1. tail.ptr = s[Len(s)] /\ doubleNext[tail.ptr].ptr = 0
    BY <1>1, <1>4, <1>5, NullIsNoLink DEF LinksItem
  <2>2. item[x] \in Links /\ item[x] \notin Range(s) /\ doubleNext[item[x]].ptr = 0
    <3>1. InHand(x) = {item[x]}
      BY <1>5, HandOf DEF LinksItem
    <3>2. QED
      BY <1>3, <1>5, <3>1, NamedLinks DEF LinksItem, Inv, ItemInHand
  <2>3. doubleNext \in [Links -> Word]
    BY DEF Inv, TypeOK, SharedTypeOK
  <2>4. /\ doubleNext'[tail.ptr].ptr = item[x]
        /\ \A link \in Links \ {tail.ptr} : doubleNext'[link] = doubleNext[link]
    BY <1>1, <1>5, <2>1, <2>3 DEF LinksItem, Advanced, SetAll
  <2>5. Range(s) \subseteq Links
    BY DEF Range
  <2>6. PICK link \in Links : link = item[x]
    BY <2>2
  <2>7. /\ doubleNext'[link].ptr = 0 /\ doubleNext'[s[Len(s)]].ptr = link
        /\ link \in Links \ Range(s)
    BY <1>2, <2>1, <2>2, <2>4, <2>6
  <2>8. \A other \in Range(s) \ {s[Len(s)]} : doubleNext'[other].ptr = doubleNext[other].ptr
    BY <2>1, <2>4, <2>5
  <2>9. LinkedFrom(doubleNext', head.ptr, Append(s, link))
    BY <2>7, <2>8, ChainAppended
  <2>10. /\ Append(s, link) \in Seq(Links) /\ Range(Append(s, link)) = Range(s) \cup {link}
         /\ NearEnd(Append(s, link), s[Len(s)])
    BY AppendedLinks DEF LinkedFrom
  <2>11. QED
    BY <1>5, <2>1, <2>6, <2>9, <2>10 DEF LinksItem
<1>6. CASE MovesHead(x)
  <2>1. /\ Len(s) > 1 /\ Tail(s) \in Seq(Links)
        /\ LinkedFrom(doubleNext, doubleNext[head.ptr].ptr, Tail(s))
        /\ Len(Tail(s)) = Len(s) - 1 /\ \A k \in 1 .. Len(s) - 1 : Tail(s)[k] = s[k + 1]
        /\ head.ptr \notin Range(Tail(s)) /\ Range(s) = {head.ptr} \cup Range(Tail(s))
    BY <1>6, ChainPopped DEF MovesHead
  <2>2. NearEnd(Tail(s), tail.ptr)
    <3>1. tail.ptr # s[1]
      BY <1>1, <1>6 DEF MovesHead
    <3>2. CASE tail.ptr = s[Len(s)]
      BY <1>1, <2>1, <3>2 DEF NearEnd
    <3>3. CASE Len(s) > 1 /\ tail.ptr = s[Len(s) - 1]
      <4>1. Len(s) - 1 # 1
        BY <3>1, <3>3
      <4>2. Len(Tail(s)) > 1 /\ Len(Tail(s)) - 1 \in 1 .. Len(s) - 1
        BY <1>1, <2>1, <4>1
      <4>3. Tail(s)[Len(Tail(s)) - 1] = s[Len(s) - 1]
        BY <1>1, <2>1, <4>2
      <4>4. QED
        BY <3>3, <4>2, <4>3 DEF NearEnd
    <3>4. QED
      BY <3>2, <3>3 DEF NearEnd
  <2>3. Range(Tail(s)) = Range(s) \ {head.ptr}
    BY <2>1
  <2>4. /\ head'.ptr = doubleNext[head.ptr].ptr /\ tail' = tail /\ doubleNext' = doubleNext
    BY <1>6 DEF MovesHead, Advanced, SetAll
  <2>5. QED
    BY <1>6, <2>1, <2>2, <2>3, <2>4
<1>7. CASE ~ LinksItem(x) /\ ~ MovesHead(x)
  <2>1. head' = head /\ KeepsNext(x)
    BY <1>7, HeadMoves, NextMoves DEF KeepsHead
  <2>2. LinkedFrom(doubleNext', head.ptr, s)
    <3>1. CASE x \in Poppers /\ PopFreeLink(x)
      <4>1. localHead[x].ptr \notin Range(s)
        BY <1>3, <3>1, HandOf DEF PopFreeLink
      <4>2. Range(s) \subseteq Links
        BY DEF Range
      <4>3. \A link \in Range(s) : doubleNext'[link] = doubleNext[link]
        BY <3>1, <4>1, <4>2 DEF PopFreeLink, Inv, TypeOK, SharedTypeOK
      <4>4. QED
        BY <4>3, ChainUnchanged
    <3>2. QED
      BY <2>1, <3>1 DEF KeepsNext
  <2>3. NearEnd(s, tail'.ptr)
    <3>1. CASE MovesTail(x)
      <4>1. tail'.ptr = s[Len(s)]
        BY <1>4, <3>1 DEF MovesTail, Advanced, SetAll
      <4>2. QED
        BY <4>1 DEF NearEnd
    <3>2. QED
      BY <3>1, TailMoves DEF KeepsTail
  <2>4. QED
    BY <1>7, <2>1, <2>2, <2>3
<1>8. QED
  BY <1>5, <1>6, <1>7

LEMMA LinksConservedStep ==
    ASSUME Inv, NEW x \in Procs, Acts(x)
    PROVE  ListEnds' /\ LinksConserved'
<1>1. PICK s \in Seq(Links) : LinkedFrom(doubleNext, head.ptr, s) /\ NearEnd(s, tail.ptr)
  BY DEF Inv, ListEnds
<1>2. PICK t \in Seq(Links) :
              /\ LinkedFrom(doubleNext', head'.ptr, t) /\ NearEnd(t, tail'.ptr)
              /\ \/ ~ LinksItem(x) /\ ~ MovesHead(x) /\ t = s
                 \/ LinksItem(x) /\ t = Append(s, item[x]) /\ Range(t) = Range(s) \cup {item[x]}
                 \/ MovesHead(x) /\ Len(s) > 1 /\ t = Tail(s) /\ Range(t) = Range(s) \ {head.ptr}
  BY <1>1, ListStep
<1>3. Chain = Range(s) /\ Chain' = Range(t)
  BY <1>1, <1>2, QueueOf, QueueOfPrime, QueueIsList
<1> DEFINE hands == [y \in Procs |-> InHand(y)]
           hands2 == [y \in Procs |-> InHand(y)']
<1>4. Placed(free, Range(s), hands)
  BY <1>3 DEF Inv, LinksConserved, Placed
<1>5. /\ \A y \in Procs : hands[y] = InHand(y) /\ hands2[y] = InHand(y)'
      /\ \A y \in Procs \ {x} : hands2[y] = hands[y]
  BY OthersKeep DEF Inv, InHand, Keeps
<1> HIDE DEF hands, hands2
<1>6. pc \in [Procs -> PushPoints \cup PopPoints] /\ item \in [Procs -> Links \cup {0}]
  BY DEF Inv, TypeOK, ControlTypeOK, LocalTypeOK
<1>7. Placed(free', Range(t), hands2)
  <2>1. CASE LinksItem(x)
    <3>1. PICK link : link = item[x]
      OBVIOUS
    <3>2. hands[x] = {link} /\ hands2[x] = {}
      BY <1>5, <2>1, <3>1, HandOf, HandOfPrime DEF LinksItem
    <3>3. Range(t) = Range(s) \cup {link} /\ free' = free
      BY <1>2, <2>1, <3>1 DEF LinksItem, MovesHead
    <3>4. QED
      BY <1>4, <1>5, <3>2, <3>3, PlacedMove
  <2>2. CASE MovesHead(x)
    <3>1. hands[x] = {} /\ hands2[x] = {head.ptr}
      BY <1>5, <2>2, HandOf, HandOfPrime DEF MovesHead
    <3>2. Range(t) = Range(s) \ {head.ptr} /\ free' = free
      BY <1>2, <2>2 DEF LinksItem, MovesHead
    <3>3. head.ptr \in Range(s)
      BY <1>1 DEF LinkedFrom, Range
    <3>4. QED
      BY <1>4, <1>5, <3>1, <3>2, <3>3, PlacedMove
  <2>3. CASE x \in Pushers /\ PushAlloc(x)
    <3>1. PICK link \in free : free' = free \ {link} /\ item' = [item EXCEPT ![x] = link]
      BY <2>3 DEF PushAlloc
    <3>2. pc[x] = "idle" /\ pc'[x] = "readTail" /\ item'[x] = link
      BY <1>6, <2>3, <3>1 DEF PushAlloc, Goto
    <3>3. hands[x] = {} /\ hands2[x] = {link} /\ Range(t) = Range(s)
      BY <1>2, <1>5, <3>2, HandOf, HandOfPrime DEF LinksItem, MovesHead
    <3>4. QED
      BY <1>4, <1>5, <3>1, <3>3, PlacedMove
  <2>4. CASE x \in Poppers /\ PopFreeLink(x)
    <3>1. PICK link : link = localHead[x].ptr
      OBVIOUS
    <3>2. /\ pc[x] = "freeLink" /\ pc'[x] = "popIdle"
          /\ free' = free \cup {link}
      BY <1>6, <2>4, <3>1 DEF PopFreeLink, Restart, Goto
    <3>3. hands[x] = {link} /\ hands2[x] = {} /\ Range(t) = Range(s)
      BY <1>2, <1>5, <3>1, <3>2, HandOf, HandOfPrime DEF LinksItem, MovesHead
    <3>4. QED
      BY <1>4, <1>5, <3>2, <3>3, PlacedFreed
  <2>5. CASE /\ ~ LinksItem(x) /\ ~ MovesHead(x) /\ ~ (x \in Pushers /\ PushAlloc(x))
             /\ ~ (x \in Poppers /\ PopFreeLink(x))
    <3>1. hands2[x] = hands[x] /\ Range(t) = Range(s) /\ free' = free
      BY <1>2, <1>5, <2>5, HandKept, PoolMoves DEF KeepsPool
    <3>2. QED
      BY <1>4, <1>5, <3>1, PlacedMove
  <2>6. QED
    BY <2>1, <2>2, <2>3, <2>4, <2>5
<1>8. LinksConserved'
  <2>1. \A y \in Procs : hands2[y] = InHand(y)'
    BY <1>5
  <2>2. UNION {hands2[y] : y \in Procs} = UNION {InHand(y)' : y \in Procs}
    BY <2>1
  <2>3. QED
    BY <1>3, <1>7, <2>1, <2>2 DEF LinksConserved, Placed
<1>9. ListEnds'
  BY <1>2 DEF ListEnds
<1>10. QED
  BY <1>8, <1>9

-----------------------------------------------------------------------------
(* What threads know is true as long as their copies are current. *)

\* What the list says about Head and Tail.
LEMMA ListFacts ==
    ASSUME Inv
    PROVE  /\ head.ptr \in Chain /\ tail.ptr \in Chain
           /\ doubleNext[head.ptr].ptr # 0 => doubleNext[head.ptr].ptr \in Chain
           /\ doubleNext[head.ptr].ptr = 0 => QueueLength = 0 /\ tail.ptr = head.ptr
           /\ doubleNext[tail.ptr].ptr # head.ptr
<1>1. PICK s \in Seq(Links) : LinkedFrom(doubleNext, head.ptr, s) /\ NearEnd(s, tail.ptr)
  BY DEF Inv, ListEnds
<1>2. Chain = Range(s) /\ QueueLength = Len(s) - 1
  BY <1>1, QueueOf, QueueIsList
<1>3. /\ Len(s) \in Nat \ {0} /\ DOMAIN s = 1 .. Len(s) /\ s[1] = head.ptr
      /\ \A k \in 1 .. Len(s) : s[k] \in Range(s) /\ s[k] \in Links /\ s[k] # 0
  BY <1>1, NullIsNoLink DEF LinkedFrom, Range
<1>4. tail.ptr \in Range(s) /\ head.ptr \in Range(s)
  BY <1>1, <1>3 DEF NearEnd
<1>5. doubleNext[head.ptr].ptr = IF Len(s) = 1 THEN 0 ELSE s[2]
  BY <1>1, <1>3 DEF LinkedFrom
<1>6. doubleNext[head.ptr].ptr # 0 => doubleNext[head.ptr].ptr \in Chain
  BY <1>2, <1>3, <1>5
<1>7. doubleNext[head.ptr].ptr = 0 => QueueLength = 0 /\ tail.ptr = head.ptr
  BY <1>1, <1>2, <1>3, <1>5 DEF NearEnd
<1>8. doubleNext[tail.ptr].ptr # head.ptr
  <2>1. PICK k \in 1 .. Len(s) : tail.ptr = s[k]
    BY <1>3, <1>4 DEF Range
  <2>2. doubleNext[s[k]].ptr = IF k = Len(s) THEN 0 ELSE s[k + 1]
    BY <1>1, <1>3 DEF LinkedFrom
  <2>3. CASE k = Len(s)
    BY <1>3, <2>1, <2>2, <2>3
  <2>4. CASE k # Len(s)
    <3>1. Len(s) \in Nat /\ k \in Nat /\ 1 <= k /\ k < Len(s)
      BY <2>4
    <3>2. k + 1 \in 1 .. Len(s) /\ 1 \in 1 .. Len(s) /\ k + 1 # 1
      BY <3>1
    <3>3. s[k + 1] # s[1]
      BY <1>1, <1>3, <3>2 DEF LinkedFrom, IsInjective
    <3>4. QED
      BY <1>3, <2>1, <2>2, <2>4, <3>3
  <2>5. QED
    BY <2>3, <2>4
<1>9. QED
  BY <1>2, <1>4, <1>6, <1>7, <1>8

\* Only the linking in of an item changes DoubleNext of a link on the list.
LEMMA ListedNextKept ==
    ASSUME Inv, NEW x \in Procs, Acts(x), NEW link \in Chain, ~ LinksItem(x)
    PROVE  doubleNext'[link] = doubleNext[link]
<1>1. CASE x \in Poppers /\ PopFreeLink(x)
  <2>1. InHand(x) = {localHead[x].ptr}
    BY <1>1, HandOf DEF PopFreeLink
  <2>2. localHead[x].ptr # link /\ link \in Links
    BY <2>1 DEF Inv, LinksConserved
  <2>3. QED
    BY <1>1, <2>2 DEF PopFreeLink, Inv, TypeOK, SharedTypeOK
<1>2. QED
  BY <1>1, NextMoves DEF KeepsNext

\* Who holds a current copy of Tail after another thread's step held it before.
LEMMA TailStill ==
    ASSUME Inv, NEW x \in Procs, Acts(x), NEW y \in Procs \ {x}, y \in TailHolders,
           lagTail'[y] = 0
    PROVE  tail' = tail /\ lagTail[y] = 0 /\ localTail[y] = tail
<1>1. lagTail[y] \in Nat
  BY TagBitsAssumption DEF Inv, TypeOK, HistoryTypeOK, Lags
<1>2. ~ MovesTail(x)
  BY <1>1 DEF MovesTail, Older
<1>3. tail' = tail /\ lagTail[y] = 0
  BY <1>2, TailMoves DEF KeepsTail
<1>4. QED
  BY <1>3 DEF Inv, TailNoABA, Copy

LEMMA HeadStill ==
    ASSUME Inv, NEW x \in Procs, Acts(x), NEW y \in Procs \ {x}, y \in HeadHolders,
           lagHead'[y] = 0
    PROVE  head' = head /\ lagHead[y] = 0 /\ localHead[y] = head
<1>1. lagHead[y] \in Nat
  BY TagBitsAssumption DEF Inv, TypeOK, HistoryTypeOK, Lags
<1>2. ~ MovesHead(x)
  BY <1>1 DEF MovesHead, Older
<1>3. head' = head /\ lagHead[y] = 0
  BY <1>2, HeadMoves DEF KeepsHead
<1>4. QED
  BY <1>3 DEF Inv, HeadNoABA, Copy

\* A pusher's new link is its own: whatever another thread does, it stays linked to
\* nothing and keeps its payload.
LEMMA ItemKept ==
    ASSUME Inv, NEW x \in Procs, Acts(x), NEW p \in Pushers \ {x},
           pc[p] \in {"readTail", "readNext", "testTail", "helpTail", "casNext"}
    PROVE  doubleNext'[item[p]].ptr = 0 /\ payload'[item[p]] = payload[item[p]]
<1>1. /\ item[p] \in Links /\ doubleNext[item[p]].ptr = 0
      /\ doubleNext \in [Links -> Word] /\ payload \in [Links -> Payloads \cup {NoPayload}]
  BY NamedLinks DEF Inv, ItemInHand, TypeOK, SharedTypeOK
<1>2. InHand(p) = {item[p]} /\ p \in Procs
  BY HandOf, ProcsSplit
<1>3. item[p] \notin Chain /\ item[p] \notin free
  BY <1>2 DEF Inv, LinksConserved
<1>4. CASE x \in Poppers /\ PopFreeLink(x)
  <2>1. InHand(x) = {localHead[x].ptr}
    BY <1>4, HandOf DEF PopFreeLink
  <2>2. localHead[x].ptr # item[p]
    BY <1>2, <2>1 DEF Inv, LinksConserved
  <2>3. QED
    BY <1>1, <1>4, <2>2 DEF PopFreeLink
<1>5. CASE ~ (x \in Poppers /\ PopFreeLink(x))
  <2>1. doubleNext'[item[p]] = doubleNext[item[p]]
    <3>1. CASE LinksItem(x)
      <4>1. tail.ptr # item[p]
        BY <1>3, ListFacts
      <4>2. QED
        BY <1>1, <3>1, <4>1 DEF LinksItem
    <3>2. QED
      BY <1>5, <3>1, NextMoves DEF KeepsNext
  <2>2. payload'[item[p]] = payload[item[p]]
    <3>1. CASE x \in Pushers /\ PushAlloc(x)
      <4>1. PICK link \in free : payload' = [payload EXCEPT ![link] = <<x, put[x] + 1>>]
        BY <3>1 DEF PushAlloc
      <4>2. link # item[p]
        BY <1>3
      <4>3. QED
        BY <1>1, <4>1, <4>2
    <3>2. QED
      BY <1>5, <3>1, PoolMoves DEF KeepsPool
  <2>3. QED
    BY <1>1, <2>1, <2>2
<1>6. QED
  BY <1>4, <1>5

LEMMA ItemInHandStep ==
    ASSUME Inv, NEW x \in Procs, Acts(x)
    PROVE  ItemInHand'
<1>1. /\ doubleNext \in [Links -> Word] /\ payload \in [Links -> Payloads \cup {NoPayload}]
      /\ free \subseteq Links /\ pc \in [Procs -> PushPoints \cup PopPoints]
      /\ item \in [Procs -> Links \cup {0}]
  BY DEF Inv, TypeOK, SharedTypeOK, ControlTypeOK, LocalTypeOK
<1>2. ASSUME NEW link \in free' PROVE doubleNext'[link].ptr = 0
  <2>1. CASE x \in Poppers /\ PopFreeLink(x)
    <3>1. localHead[x].ptr \in Links
      BY <2>1, NamedLinks DEF PopFreeLink
    <3>2. link \in Links /\ (link = localHead[x].ptr \/ link \in free)
      BY <1>1, <1>2, <2>1, <3>1 DEF PopFreeLink
    <3>3. link = localHead[x].ptr \/ doubleNext[link].ptr = 0
      BY <3>2 DEF Inv, ItemInHand
    <3>4. doubleNext[link] \in Word /\ doubleNext[localHead[x].ptr] \in Word
      BY <1>1, <3>1, <3>2
    <3>5. SetPtr(doubleNext[localHead[x].ptr], 0).ptr = 0
      BY <3>4 DEF SetPtr, Word, IndexedPointers
    <3>6. QED
      BY <1>1, <2>1, <3>1, <3>2, <3>3, <3>5 DEF PopFreeLink
  <2>2. CASE ~ (x \in Poppers /\ PopFreeLink(x))
    <3>1. link \in free
      BY <1>2, <2>2, PoolMoves DEF KeepsPool, PushAlloc
    <3>2. doubleNext[link].ptr = 0 /\ link \in Links
      BY <1>1, <3>1 DEF Inv, ItemInHand
    <3>3. CASE LinksItem(x)
      <4>1. tail.ptr # link
        BY <3>1, ListFacts DEF Inv, LinksConserved
      <4>2. QED
        BY <1>1, <3>2, <3>3, <4>1 DEF LinksItem
    <3>4. QED
      BY <2>2, <3>2, <3>3, NextMoves DEF KeepsNext
  <2>3. QED
    BY <2>1, <2>2
<1> DEFINE OK(p) ==
         /\ pc[p] \in {"readTail", "readNext", "testTail", "helpTail", "casNext"} =>
              /\ item[p] # 0 /\ doubleNext[item[p]].ptr = 0
              /\ payload[item[p]] = <<p, put[p] + 1>> /\ put[p] < MaxPushes
         /\ pc[p] = "swingTail" => item[p] # 0
<1>3. ASSUME NEW p \in Pushers PROVE OK(p)'
  <2>1. OK(p) /\ p \in Procs /\ p \notin Poppers
    BY ProcsSplit DEF Inv, ItemInHand
  <2>2. CASE p # x
    <3>1. Keeps(p)
      BY <2>1, <2>2, OthersKeep DEF Inv
    <3>2. pc[p] \in {"readTail", "readNext", "testTail", "helpTail", "casNext"} =>
              doubleNext'[item[p]].ptr = 0 /\ payload'[item[p]] = payload[item[p]]
      BY <2>2, ItemKept
    <3>3. QED
      BY <2>1, <3>1, <3>2 DEF Keeps
  <2>3. CASE p = x
    <3>1. CASE PushAlloc(x)
      <4>1. PICK link \in free : /\ item' = [item EXCEPT ![x] = link]
                                 /\ payload' = [payload EXCEPT ![link] = <<x, put[x] + 1>>]
        BY <3>1 DEF PushAlloc
      <4>2. link \in Links /\ link # 0 /\ doubleNext[link].ptr = 0
        BY <1>1, NullIsNoLink DEF Inv, ItemInHand
      <4>3. item'[x] = link /\ payload'[link] = <<x, put[x] + 1>>
        BY <1>1, <4>1, <4>2
      <4>4. /\ doubleNext' = doubleNext /\ put' = put /\ put[x] < MaxPushes
            /\ pc'[x] = "readTail"
        BY <1>1, <3>1 DEF PushAlloc, Goto, history
      <4>5. QED
        BY <2>3, <4>2, <4>3, <4>4
    <3>2. CASE PushReadTail(x) \/ PushReadNext(x) \/ PushTestTail(x) \/ PushHelpTail(x)
               \/ (PushCasNext(x) /\ doubleNext[localTail[x].ptr] # localNext[x])
      <4>1. pc[x] \in {"readTail", "readNext", "testTail", "helpTail", "casNext"}
        BY <3>2 DEF PushReadTail, PushReadNext, PushTestTail, PushHelpTail, PushCasNext
      <4>2. pc'[x] # "swingTail"
        BY <1>1, <3>2 DEF PushReadTail, PushReadNext, PushTestTail, PushHelpTail, PushCasNext,
           Restart, Goto
      <4>3. UNCHANGED <<doubleNext, payload, item, put>>
        BY <3>2 DEF PushReadTail, PushReadNext, PushTestTail, PushHelpTail, PushCasNext,
           shared, history
      <4>4. QED
        BY <2>1, <2>3, <4>1, <4>2, <4>3
    <3>3. CASE PushCasNext(x) /\ doubleNext[localTail[x].ptr] = localNext[x]
      <4>1. pc'[x] = "swingTail" /\ item' = item /\ pc[x] = "casNext"
        BY <1>1, <3>3 DEF PushCasNext, Goto
      <4>2. QED
        BY <2>1, <2>3, <4>1
    <3>4. CASE PushSwingTail(x)
      <4>1. pc'[x] = "idle"
        BY <1>1, <3>4 DEF PushSwingTail, Restart, Goto
      <4>2. QED
        BY <2>3, <4>1
    <3>5. QED
      BY <2>1, <2>3, <3>1, <3>2, <3>3, <3>4 DEF Acts, PushStep
  <2>4. QED
    BY <2>2, <2>3
<1>4. QED
  BY <1>2, <1>3 DEF ItemInHand

\* What a thread knows of the link behind Tail.
KnowsTail(y) ==
    /\ y \in TailHolders => localTail[y].ptr # 0
    /\ pc[y] = "testTail" /\ lagTail[y] = 0 /\ (localNext[y].ptr # 0 \/ lagNext[y] = 0) =>
         doubleNext[tail.ptr] = localNext[y]
    /\ pc[y] \in {"helpTail", "popHelp"} =>
         localNext[y].ptr # 0 /\ (lagTail[y] = 0 => doubleNext[tail.ptr] = localNext[y])
    /\ pc[y] = "casNext" =>
         /\ localNext[y].ptr = 0
         /\ lagNext[y] = 0 => lagTail[y] = 0 /\ doubleNext[tail.ptr] = localNext[y]
    /\ pc[y] = "swingTail" /\ lagTail[y] = 0 => doubleNext[tail.ptr].ptr = item[y]

LEMMA TailCopiesKnow == TailCopies <=> \A y \in Procs : KnowsTail(y)
<1>1. \A y \in TailHolders : y \in Procs
  BY DEF TailHolders, Procs
<1>2. QED
  BY <1>1 DEF TailCopies, KnowsTail

LEMMA TailCopiesKnowPrime == (\A y \in Procs : KnowsTail(y)') => TailCopies'
<1>1. \A y \in TailHolders' : y \in Procs
  BY DEF TailHolders, Procs
<1>2. QED
  BY <1>1 DEF TailCopies, KnowsTail

\* Threads at these points are of one kind and hold a copy of Tail.
LEMMA TailHoldersAt ==
    ASSUME Inv, NEW y \in Procs
    PROVE  /\ pc[y] \in {"readNext", "testTail", "helpTail", "casNext", "swingTail"} =>
                y \in Pushers /\ y \in TailHolders
           /\ pc[y] \in {"popNext", "testHead", "returnNull", "popHelp", "readPayload", "casHead"} =>
                y \in Poppers /\ y \in TailHolders /\ y \in HeadHolders
BY DEF Inv, TypeOK, ControlTypeOK, Procs, PushPoints, PopPoints, TailHolders, HeadHolders

LEMMA TailCopiesOthers ==
    ASSUME Inv, NEW x \in Procs, Acts(x), NEW y \in Procs \ {x}
    PROVE  KnowsTail(y)'
<1>1. KnowsTail(y) /\ Keeps(y)
  BY TailCopiesKnow, OthersKeep DEF Inv
<1>2. (y \in TailHolders' <=> y \in TailHolders) /\ tail.ptr \in Chain /\ tail.ptr \in Links
  BY <1>1, HoldersKeep, ListFacts, NamedLinks
<1>3. y \in TailHolders => y \in TailHolders' /\ (lagTail'[y] = 0 =>
                              tail' = tail /\ lagTail[y] = 0 /\ localTail[y] = tail)
  BY <1>2, TailStill
<1>4. doubleNext \in [Links -> Word] /\ lagNext[y] \in Nat
  BY TagBitsAssumption DEF Inv, TypeOK, SharedTypeOK, HistoryTypeOK, Lags
<1>5. CASE ~ LinksItem(x)
  <2>1. doubleNext'[tail.ptr] = doubleNext[tail.ptr] /\ lagNext'[y] = lagNext[y]
    BY <1>2, <1>5, ListedNextKept, NextMoves DEF KeepsNext
  <2>2. pc[y] = "casNext" /\ lagNext[y] = 0 => lagTail'[y] = 0 /\ tail' = tail
    <3>1. SUFFICES ASSUME pc[y] = "casNext", lagNext[y] = 0 PROVE lagTail'[y] = 0 /\ tail' = tail
      OBVIOUS
    <3>2. lagTail[y] = 0 /\ doubleNext[tail.ptr].ptr = 0
      BY <1>1, <3>1 DEF KnowsTail
    <3>3. ~ MovesTail(x)
      BY <3>2 DEF MovesTail
    <3>4. QED
      BY <3>2, <3>3, TailMoves DEF KeepsTail
  <2>3. y \in TailHolders' => localTail'[y].ptr # 0
    BY <1>1, <1>2 DEF KnowsTail, Keeps
  <2>4. pc'[y] = pc[y] /\ localNext'[y] = localNext[y] /\ item'[y] = item[y]
    BY <1>1 DEF Keeps
  <2>5. pc[y] \in {"testTail", "helpTail", "popHelp", "casNext", "swingTail"} => y \in TailHolders
    BY TailHoldersAt
  <2>6. QED
    BY <1>1, <1>3, <2>1, <2>2, <2>3, <2>4, <2>5 DEF KnowsTail
<1>6. CASE LinksItem(x)
  <2>1. /\ doubleNext[tail.ptr].ptr = 0 /\ tail' = tail
        /\ lagNext'[y] = IF y \in NextHolders(tail.ptr) THEN lagNext[y] + 1 ELSE lagNext[y]
    BY <1>6 DEF LinksItem, Older
  <2>2. pc'[y] = pc[y] /\ localNext'[y] = localNext[y] /\ item'[y] = item[y]
        /\ localTail'[y] = localTail[y]
    BY <1>1 DEF Keeps
  <2>3. pc[y] \in {"testTail", "helpTail", "popHelp", "casNext", "swingTail"} => y \in TailHolders
    BY TailHoldersAt
  <2>4. y \in TailHolders' => localTail'[y].ptr # 0
    BY <1>1, <1>2, <2>2 DEF KnowsTail
  <2>5. ASSUME pc[y] = "testTail", lagTail'[y] = 0 PROVE localNext[y].ptr = 0 /\ lagNext'[y] # 0
    <3>1. lagTail[y] = 0 /\ localTail[y] = tail
      BY <1>3, <2>3, <2>5
    <3>2. y \in NextHolders(tail.ptr)
      BY <2>5, <3>1, TailHoldersAt DEF NextHolders
    <3>3. localNext[y].ptr = 0
      BY <1>1, <2>1, <2>5, <3>1 DEF KnowsTail
    <3>4. QED
      BY <1>4, <2>1, <3>2, <3>3
  <2>6. ASSUME pc[y] \in {"helpTail", "popHelp"} PROVE lagTail'[y] # 0
    BY <1>1, <1>3, <2>1, <2>3, <2>6 DEF KnowsTail
  <2>7. ASSUME pc[y] = "casNext" PROVE lagNext'[y] # 0
    <3>1. SUFFICES ASSUME lagNext'[y] = 0 PROVE FALSE
      OBVIOUS
    <3>2. lagNext[y] = 0
      BY <1>4, <2>1, <3>1
    <3>3. lagTail[y] = 0
      BY <1>1, <2>7, <3>2 DEF KnowsTail
    <3>4. localTail[y] = tail
      BY <2>3, <2>7, <3>3 DEF Inv, TailNoABA, Copy
    <3>5. y \in NextHolders(tail.ptr)
      BY <2>7, <3>4, TailHoldersAt DEF NextHolders
    <3>6. QED
      BY <1>4, <2>1, <3>1, <3>5
  <2>8. ASSUME pc[y] = "swingTail" PROVE lagTail'[y] # 0
    <3>1. item[y] # 0
      BY <2>8, TailHoldersAt DEF Inv, ItemInHand
    <3>2. QED
      BY <1>1, <1>3, <2>1, <2>3, <2>8, <3>1 DEF KnowsTail
  <2>9. QED
    BY <1>1, <2>2, <2>4, <2>5, <2>6, <2>7, <2>8 DEF KnowsTail
<1>7. QED
  BY <1>5, <1>6

LEMMA TailCopiesOwn ==
    ASSUME Inv, NEW x \in Procs, Acts(x)
    PROVE  KnowsTail(x)'
<1>1. /\ pc \in [Procs -> PushPoints \cup PopPoints]
      /\ localTail \in [Procs -> Word] /\ localNext \in [Procs -> Word]
  BY DEF Inv, TypeOK, ControlTypeOK, LocalTypeOK
<1>2. KnowsTail(x) /\ tail.ptr \in Links /\ tail.ptr # 0
  BY TailCopiesKnow, NamedLinks, NullIsNoLink DEF Inv
<1>3. x \in TailHolders /\ lagTail[x] = 0 => localTail[x] = tail
  BY DEF Inv, TailNoABA, Copy
<1>4. CASE pc'[x] \in {"idle", "readTail", "popIdle", "readHead", "popTail", "freeLink"}
  BY <1>4 DEF KnowsTail, TailHolders
<1>5. CASE /\ pc'[x] \in {"readNext", "popNext", "testHead", "returnNull", "readPayload", "casHead"}
           /\ localTail'[x] = tail \/ (x \in TailHolders /\ localTail' = localTail)
  BY <1>2, <1>5 DEF KnowsTail
<1>6. CASE x \in Pushers
  <2>1. x \notin Poppers
    BY <1>6, ProcsSplit
  <2>2. CASE PushAlloc(x) \/ PushHelpTail(x) \/ PushSwingTail(x)
    <3>1. pc'[x] \in {"idle", "readTail"}
      BY <1>1, <2>2 DEF PushAlloc, PushHelpTail, PushSwingTail, Restart, Goto
    <3>2. QED
      BY <1>4, <3>1
  <2>3. CASE PushReadTail(x)
    <3>1. pc'[x] = "readNext" /\ localTail'[x] = tail
      BY <1>1, <2>3 DEF PushReadTail, Goto
    <3>2. QED
      BY <1>5, <3>1
  <2>4. CASE PushReadNext(x)
    <3>1. /\ pc'[x] = "testTail" /\ localNext'[x] = doubleNext[localTail[x].ptr]
          /\ localTail' = localTail /\ x \in TailHolders
      BY <1>1, <1>6, <2>4 DEF PushReadNext, Goto, TailHolders
    <3>2. UNCHANGED <<doubleNext, tail, lagTail>>
      BY <2>4 DEF PushReadNext, shared, lags
    <3>3. QED
      BY <1>2, <1>3, <3>1, <3>2 DEF KnowsTail
  <2>5. CASE PushTestTail(x) /\ tail = localTail[x]
    <3>1. /\ pc[x] = "testTail" /\ x \in TailHolders
          /\ pc'[x] = IF localNext[x].ptr # 0 THEN "helpTail" ELSE "casNext"
      BY <1>1, <1>6, <2>5 DEF PushTestTail, Goto, TailHolders
    <3>2. lagTail[x] = 0
      BY <2>5, <3>1, TailIsCurrent
    <3>3. UNCHANGED <<doubleNext, tail, localTail, localNext, lagTail, lagNext>>
      BY <2>5 DEF PushTestTail, shared, lags
    <3>4. QED
      BY <1>2, <3>1, <3>2, <3>3 DEF KnowsTail
  <2>6. CASE PushTestTail(x) /\ tail # localTail[x]
    <3>1. pc'[x] = "readTail"
      BY <1>1, <2>6 DEF PushTestTail, Restart, Goto
    <3>2. QED
      BY <1>4, <3>1
  <2>7. CASE PushCasNext(x) /\ doubleNext[localTail[x].ptr] = localNext[x]
    <3>1. pc[x] = "casNext" /\ pc'[x] = "swingTail" /\ x \in TailHolders
      BY <1>1, <1>6, <2>7 DEF PushCasNext, Goto, TailHolders
    <3>2. localTail[x] = tail
      BY <1>6, <2>7, <3>1, NextIsCurrent
    <3>3. UNCHANGED <<tail, localTail, item>>
      BY <2>7 DEF PushCasNext
    <3>4. doubleNext' = [doubleNext EXCEPT ![tail.ptr] = Advanced(localNext[x], item[x])]
      BY <2>7, <3>2 DEF PushCasNext
    <3>5. doubleNext'[tail.ptr].ptr = item[x]
      BY <1>2, <3>4 DEF Inv, TypeOK, SharedTypeOK, Advanced, SetAll
    <3>6. QED
      BY <1>2, <3>1, <3>2, <3>3, <3>5 DEF KnowsTail
  <2>8. CASE PushCasNext(x) /\ doubleNext[localTail[x].ptr] # localNext[x]
    <3>1. pc'[x] = "readTail"
      BY <1>1, <2>8 DEF PushCasNext, Restart, Goto
    <3>2. QED
      BY <1>4, <3>1
  <2>9. QED
    BY <1>6, <2>1, <2>2, <2>3, <2>4, <2>5, <2>6, <2>7, <2>8 DEF Acts, PushStep
<1>7. CASE x \in Poppers
  <2>1. x \notin Pushers
    BY <1>7, ProcsSplit
  <2>2. CASE PopReadHead(x) \/ PopReturnNull(x) \/ PopHelpTail(x) \/ PopCasHead(x)
             \/ PopFreeLink(x) \/ (PopTestHead(x) /\ head # localHead[x])
    <3>1. pc'[x] \in {"popTail", "popIdle", "readHead", "freeLink"}
      BY <1>1, <2>2 DEF PopReadHead, PopReturnNull, PopHelpTail, PopCasHead, PopFreeLink,
         PopTestHead, Restart, Goto
    <3>2. QED
      BY <1>4, <3>1
  <2>3. CASE PopReadTail(x)
    <3>1. pc'[x] = "popNext" /\ localTail'[x] = tail
      BY <1>1, <2>3 DEF PopReadTail, Goto
    <3>2. QED
      BY <1>5, <3>1
  <2>4. CASE PopReadNext(x) \/ PopReadPayload(x)
    <3>1. /\ pc'[x] \in {"testHead", "casHead"} /\ localTail' = localTail
          /\ x \in TailHolders
      BY <1>1, <1>7, <2>4 DEF PopReadNext, PopReadPayload, Goto, TailHolders
    <3>2. QED
      BY <1>5, <3>1
  <2>5. CASE PopTestHead(x) /\ head = localHead[x]
    <3>1. /\ pc[x] = "testHead" /\ x \in TailHolders /\ x \in HeadHolders
          /\ pc'[x] = IF localHead[x].ptr # localTail[x].ptr THEN "readPayload"
                      ELSE IF localNext[x].ptr = 0 THEN "returnNull" ELSE "popHelp"
          /\ UNCHANGED <<tail, doubleNext, localTail, localNext, lagTail>>
      BY <1>1, <1>7, <2>5 DEF PopTestHead, Goto, TailHolders, HeadHolders, shared, lags
    <3>2. CASE pc'[x] # "popHelp"
      BY <1>5, <3>1, <3>2
    <3>3. CASE pc'[x] = "popHelp"
      <4>1. localHead[x].ptr = localTail[x].ptr /\ localNext[x].ptr # 0
        BY <3>1, <3>3
      <4>2. lagHead[x] = 0
        BY <2>5, <3>1, HeadIsCurrent
      <4>3. localNext[x] = doubleNext[head.ptr]
        BY <1>7, <3>1, <4>1, <4>2 DEF Inv, HeadCopies
      <4>4. lagTail[x] = 0 => doubleNext[tail.ptr] = localNext[x]
        BY <1>3, <2>5, <3>1, <4>1, <4>3
      <4>5. QED
        BY <1>2, <3>1, <3>3, <4>1, <4>4 DEF KnowsTail
    <3>4. QED
      BY <3>2, <3>3
  <2>6. QED
    BY <1>7, <2>1, <2>2, <2>3, <2>4, <2>5 DEF Acts, PopStep
<1>8. QED
  BY <1>6, <1>7 DEF Procs

\* What a popper knows of the link behind Head.
KnowsHead(c) ==
    /\ c \in HeadHolders \/ pc[c] = "freeLink" => localHead[c].ptr # 0
    /\ pc[c] = "returnNull" => sawEmpty[c]
    /\ pc[c] \in {"readPayload", "casHead"} =>
         localNext[c].ptr # 0 /\ localTail[c].ptr # localHead[c].ptr
    /\ lagHead[c] = 0 =>
         /\ pc[c] \in {"popNext", "testHead", "readPayload", "casHead"} =>
              (localTail[c].ptr # localHead[c].ptr => tail.ptr # head.ptr)
         /\ pc[c] = "testHead" =>
              IF localNext[c].ptr = 0
              THEN sawEmpty[c] /\ localTail[c].ptr = localHead[c].ptr
              ELSE localNext[c] = doubleNext[head.ptr]
         /\ pc[c] \in {"readPayload", "casHead"} => localNext[c] = doubleNext[head.ptr]
         /\ pc[c] = "casHead" => result[c] = payload[localNext[c].ptr]

LEMMA HeadCopiesKnow == HeadCopies <=> \A c \in Poppers : KnowsHead(c)
BY DEF HeadCopies, KnowsHead

LEMMA HeadCopiesKnowPrime == (\A c \in Poppers : KnowsHead(c)') => HeadCopies'
BY DEF HeadCopies, KnowsHead

\* A listed link keeps its payload.
LEMMA ListedPayloadKept ==
    ASSUME Inv, NEW x \in Procs, Acts(x), NEW link \in Chain
    PROVE  payload'[link] = payload[link]
<1>1. link \in Links /\ link \notin free /\ payload \in [Links -> Payloads \cup {NoPayload}]
  BY DEF Inv, LinksConserved, TypeOK, SharedTypeOK
<1>2. CASE x \in Poppers /\ PopFreeLink(x)
  <2>1. InHand(x) = {localHead[x].ptr}
    BY <1>2, HandOf DEF PopFreeLink
  <2>2. localHead[x].ptr # link
    BY <2>1 DEF Inv, LinksConserved
  <2>3. QED
    BY <1>1, <1>2, <2>2 DEF PopFreeLink
<1>3. CASE x \in Pushers /\ PushAlloc(x)
  <2>1. PICK new \in free : payload' = [payload EXCEPT ![new] = <<x, put[x] + 1>>]
    BY <1>3 DEF PushAlloc
  <2>2. new # link
    BY <1>1
  <2>3. QED
    BY <1>1, <2>1, <2>2
<1>4. QED
  BY <1>2, <1>3, PoolMoves DEF KeepsPool

LEMMA HeadCopiesOthers ==
    ASSUME Inv, NEW x \in Procs, Acts(x), NEW c \in Poppers \ {x}
    PROVE  KnowsHead(c)'
<1>1. c \in Procs /\ KnowsHead(c) /\ Keeps(c)
  BY HeadCopiesKnow, OthersKeep, ProcsSplit DEF Inv
<1>2. /\ c \in HeadHolders' <=> c \in HeadHolders
      /\ pc[c] \in {"popNext", "testHead", "readPayload", "casHead"} => c \in HeadHolders
  BY <1>1, HoldersKeep, TailHoldersAt
<1>3. /\ pc'[c] = pc[c] /\ localHead'[c] = localHead[c] /\ localTail'[c] = localTail[c]
      /\ localNext'[c] = localNext[c] /\ result'[c] = result[c] /\ sawEmpty'[c] = sawEmpty[c]
  BY <1>1 DEF Keeps
<1>4. ASSUME c \in HeadHolders, lagHead'[c] = 0
      PROVE  /\ head' = head /\ lagHead[c] = 0
             /\ tail.ptr # head.ptr => tail'.ptr # head.ptr
             /\ doubleNext[head.ptr].ptr # 0 =>
                  /\ doubleNext'[head.ptr] = doubleNext[head.ptr]
                  /\ payload'[doubleNext[head.ptr].ptr] = payload[doubleNext[head.ptr].ptr]
  <2>1. head' = head /\ lagHead[c] = 0
    BY <1>1, <1>4, HeadStill
  <2>2. tail.ptr # head.ptr => tail'.ptr # head.ptr
    <3>1. CASE MovesTail(x)
      <4>1. tail'.ptr = doubleNext[tail.ptr].ptr
        BY <3>1 DEF MovesTail, Advanced, SetAll
      <4>2. QED
        BY <4>1, ListFacts
    <3>2. QED
      BY <3>1, TailMoves DEF KeepsTail
  <2>3. ASSUME doubleNext[head.ptr].ptr # 0 PROVE doubleNext'[head.ptr] = doubleNext[head.ptr]
    <3>1. CASE LinksItem(x)
      <4>1. tail.ptr # head.ptr /\ head.ptr \in Links
        BY <2>3, <3>1, NamedLinks DEF LinksItem
      <4>2. QED
        BY <3>1, <4>1 DEF LinksItem, Inv, TypeOK, SharedTypeOK
    <3>2. QED
      BY <3>1, ListFacts, ListedNextKept
  <2>4. doubleNext[head.ptr].ptr # 0 =>
          payload'[doubleNext[head.ptr].ptr] = payload[doubleNext[head.ptr].ptr]
    BY ListFacts, ListedPayloadKept
  <2>5. QED
    BY <2>1, <2>2, <2>3, <2>4
<1>5. c \in HeadHolders' \/ pc'[c] = "freeLink" => localHead'[c].ptr # 0
  BY <1>1, <1>2, <1>3 DEF KnowsHead
<1>6. pc'[c] = "returnNull" => sawEmpty'[c]
  BY <1>1, <1>3, Zenon DEF KnowsHead
<1>7. pc'[c] \in {"readPayload", "casHead"} =>
        localNext'[c].ptr # 0 /\ localTail'[c].ptr # localHead'[c].ptr
  BY <1>1, <1>3 DEF KnowsHead
<1>8. ASSUME lagHead'[c] = 0
      PROVE  pc'[c] \in {"popNext", "testHead", "readPayload", "casHead"} =>
               (localTail'[c].ptr # localHead'[c].ptr => tail'.ptr # head'.ptr)
  BY <1>1, <1>2, <1>3, <1>4, <1>8 DEF KnowsHead
<1>9. ASSUME lagHead'[c] = 0, pc'[c] = "testHead"
      PROVE  IF localNext'[c].ptr = 0
             THEN sawEmpty'[c] /\ localTail'[c].ptr = localHead'[c].ptr
             ELSE localNext'[c] = doubleNext'[head'.ptr]
  <2>1. lagHead[c] = 0 /\ head' = head /\ pc[c] = "testHead"
    BY <1>2, <1>3, <1>4, <1>9
  <2>2. CASE localNext[c].ptr = 0
    <3>1. sawEmpty[c] /\ localTail[c].ptr = localHead[c].ptr
      BY <1>1, <2>1, <2>2, Zenon DEF KnowsHead
    <3>2. QED
      BY <1>3, <2>2, <3>1, Zenon
  <2>3. CASE localNext[c].ptr # 0
    <3>1. localNext[c] = doubleNext[head.ptr]
      BY <1>1, <2>1, <2>3 DEF KnowsHead
    <3>2. localNext'[c] = doubleNext'[head'.ptr]
      BY <1>2, <1>3, <1>4, <1>9, <2>1, <2>3, <3>1
    <3>3. QED
      BY <1>3, <2>3, <3>2, Zenon
  <2>4. QED
    BY <2>2, <2>3
<1>10. ASSUME lagHead'[c] = 0
       PROVE  /\ pc'[c] \in {"readPayload", "casHead"} => localNext'[c] = doubleNext'[head'.ptr]
              /\ pc'[c] = "casHead" => result'[c] = payload'[localNext'[c].ptr]
  BY <1>1, <1>2, <1>3, <1>4, <1>10 DEF KnowsHead
<1>11. QED
  BY <1>5, <1>6, <1>7, <1>8, <1>9, <1>10, Zenon DEF KnowsHead

LEMMA HeadCopiesOwn ==
    ASSUME Inv, NEW x \in Poppers, Acts(x)
    PROVE  KnowsHead(x)'
<1>1. /\ pc \in [Procs -> PushPoints \cup PopPoints] /\ x \in Procs /\ x \notin Pushers
      /\ localHead \in [Procs -> Word] /\ localTail \in [Procs -> Word]
      /\ localNext \in [Procs -> Word] /\ result \in [Procs -> Payloads \cup {NoPayload}]
  BY ProcsSplit DEF Inv, TypeOK, ControlTypeOK, LocalTypeOK
<1>2. KnowsHead(x)
  BY HeadCopiesKnow DEF Inv
<1>3. x \in HeadHolders /\ lagHead[x] = 0 => localHead[x] = head
  BY <1>1 DEF Inv, HeadNoABA, Copy
<1>4. CASE pc'[x] \in {"popIdle", "readHead"}
  BY <1>4 DEF KnowsHead, HeadHolders
<1>5. CASE PopReadHead(x)
  <2>1. pc'[x] = "popTail" /\ localHead'[x] = head
    BY <1>1, <1>5 DEF PopReadHead, Goto
  <2>2. head.ptr # 0
    BY NamedLinks, NullIsNoLink
  <2>3. QED
    BY <2>1, <2>2 DEF KnowsHead
<1>6. CASE PopReadTail(x)
  <2>1. /\ pc'[x] = "popNext" /\ localTail'[x] = tail /\ x \in HeadHolders
        /\ UNCHANGED <<head, tail, localHead, lagHead>>
    BY <1>1, <1>6 DEF PopReadTail, Goto, HeadHolders, shared, lags
  <2>2. QED
    BY <1>2, <1>3, <2>1 DEF KnowsHead
<1>7. CASE PopReadNext(x)
  <2>1. /\ pc[x] = "popNext" /\ pc'[x] = "testHead" /\ x \in HeadHolders
        /\ localNext'[x] = doubleNext[localHead[x].ptr]
        /\ UNCHANGED <<head, tail, doubleNext, localHead, localTail, lagHead>>
    BY <1>1, <1>7 DEF PopReadNext, Goto, HeadHolders, shared, lags
  <2>2. sawEmpty'[x] = (QueueLength = 0)
    BY <1>7, Zenon DEF PopReadNext, Inv, TypeOK, HistoryTypeOK
  <2>3. ASSUME lagHead[x] = 0
        PROVE  IF localNext'[x].ptr = 0
               THEN sawEmpty'[x] /\ localTail[x].ptr = localHead[x].ptr
               ELSE localNext'[x] = doubleNext[head.ptr]
    <3>1. localHead[x] = head
      BY <1>3, <2>1, <2>3
    <3>2. localTail[x].ptr # localHead[x].ptr => tail.ptr # head.ptr
      BY <1>2, <2>1, <2>3 DEF KnowsHead
    <3>3. CASE doubleNext[head.ptr].ptr = 0
      <4>1. QueueLength = 0 /\ tail.ptr = head.ptr
        BY <3>3, ListFacts
      <4>2. sawEmpty'[x]
        BY <2>2, <4>1, Zenon
      <4>3. QED
        BY <2>1, <3>1, <3>2, <3>3, <4>1, <4>2, Zenon
    <3>4. CASE doubleNext[head.ptr].ptr # 0
      BY <2>1, <3>1, <3>4, Zenon
    <3>5. QED
      BY <3>3, <3>4
  <2>4. lagHead[x] = 0 => (localTail[x].ptr # localHead[x].ptr => tail.ptr # head.ptr)
    BY <1>2, <2>1 DEF KnowsHead
  <2>5. localHead[x].ptr # 0
    BY <1>2, <2>1 DEF KnowsHead
  <2>6. /\ x \in HeadHolders' \/ pc'[x] = "freeLink" => localHead'[x].ptr # 0
        /\ lagHead'[x] = 0 /\ pc'[x] = "testHead" =>
              IF localNext'[x].ptr = 0
              THEN sawEmpty'[x] /\ localTail'[x].ptr = localHead'[x].ptr
              ELSE localNext'[x] = doubleNext'[head'.ptr]
        /\ lagHead'[x] = 0 => (localTail'[x].ptr # localHead'[x].ptr => tail'.ptr # head'.ptr)
    BY <2>1, <2>3, <2>4, <2>5, Zenon
  <2>7. /\ pc'[x] # "returnNull" /\ pc'[x] \notin {"readPayload", "casHead"}
        /\ pc'[x] # "casHead"
    BY <2>1
  <2>8. QED
    BY <2>6, <2>7, Zenon DEF KnowsHead
<1>8. CASE PopTestHead(x) /\ head = localHead[x]
  <2>1. /\ pc[x] = "testHead" /\ x \in HeadHolders
        /\ pc'[x] = IF localHead[x].ptr # localTail[x].ptr THEN "readPayload"
                    ELSE IF localNext[x].ptr = 0 THEN "returnNull" ELSE "popHelp"
        /\ UNCHANGED <<head, tail, doubleNext, localHead, localTail, localNext, lagHead, sawEmpty>>
    BY <1>1, <1>8 DEF PopTestHead, Goto, HeadHolders, shared, history, lags
  <2>2. lagHead[x] = 0 /\ localHead[x].ptr # 0
    BY <1>2, <1>8, <2>1, HeadIsCurrent DEF KnowsHead
  <2>3. IF localNext[x].ptr = 0
        THEN sawEmpty[x] /\ localTail[x].ptr = localHead[x].ptr
        ELSE localNext[x] = doubleNext[head.ptr]
    BY <1>2, <2>1, <2>2, Zenon DEF KnowsHead
  <2>4. localTail[x].ptr # localHead[x].ptr => tail.ptr # head.ptr
    BY <1>2, <2>1, <2>2 DEF KnowsHead
  <2>5. pc'[x] = "returnNull" => sawEmpty'[x]
    BY <2>1, <2>3, Zenon
  <2>6. pc'[x] = "readPayload" =>
          localNext[x].ptr # 0 /\ localTail[x].ptr # localHead[x].ptr
            /\ localNext[x] = doubleNext[head.ptr]
    BY <2>1, <2>3
  <2>7. pc'[x] \in {"readPayload", "returnNull", "popHelp"}
    BY <2>1
  <2>8. QED
    BY <2>1, <2>2, <2>4, <2>5, <2>6, <2>7, Zenon DEF KnowsHead
<1>9. CASE PopReadPayload(x)
  <2>1. /\ pc[x] = "readPayload" /\ pc'[x] = "casHead" /\ x \in HeadHolders
        /\ result'[x] = payload[localNext[x].ptr]
        /\ UNCHANGED <<head, tail, doubleNext, payload, localHead, localTail, localNext, lagHead>>
    BY <1>1, <1>9 DEF PopReadPayload, Goto, HeadHolders, shared, lags
  <2>2. QED
    BY <1>2, <2>1 DEF KnowsHead
<1>10. CASE PopCasHead(x) /\ head = localHead[x]
  <2>1. pc'[x] = "freeLink" /\ localHead' = localHead
    BY <1>10, CasHeadMoves DEF MovesHead
  <2>2. localHead[x].ptr # 0
    BY <1>2, <1>10 DEF KnowsHead, PopCasHead, HeadHolders
  <2>3. QED
    BY <2>1, <2>2 DEF KnowsHead
<1>11. CASE PopReturnNull(x) \/ PopHelpTail(x) \/ PopFreeLink(x)
            \/ (PopTestHead(x) /\ head # localHead[x]) \/ (PopCasHead(x) /\ head # localHead[x])
  <2>1. pc'[x] \in {"popIdle", "readHead"}
    BY <1>1, <1>11 DEF PopReturnNull, PopHelpTail, PopFreeLink, PopTestHead, PopCasHead,
       Restart, Goto
  <2>2. QED
    BY <1>4, <2>1
<1>12. QED
  BY <1>1, <1>5, <1>6, <1>7, <1>8, <1>9, <1>10, <1>11 DEF Acts, PopStep

-----------------------------------------------------------------------------
(* The invariant. *)

\* The constructor's list is the stub.
LEMMA InitList ==
    ASSUME Init
    PROVE  <<Stub>> \in Seq(Links) /\ LinkedFrom(doubleNext, head.ptr, <<Stub>>)
<1>1. Stub \in Links /\ head.ptr = Stub /\ doubleNext[Stub].ptr = 0
  BY FIFOAssumption DEF Init, SetAll, NullWord
<1>2. QED
  BY <1>1 DEF LinkedFrom, IsInjective

LEMMA InitTypeOK == Init => TypeOK
<1>1. SUFFICES ASSUME Init PROVE TypeOK
  OBVIOUS
<1>2. NullWord \in Word /\ SetAll(Stub, 0) \in Word /\ 0 \in Lags
  BY TagBitsAssumption, FIFOAssumption DEF NullWord, SetAll, Word, IndexedPointers, Counter, Lags
<1>3. SharedTypeOK
  BY <1>1, <1>2 DEF Init, SharedTypeOK
<1>4. ControlTypeOK
  BY <1>1, ProcsSplit DEF Init, ControlTypeOK, PushPoints, PopPoints
<1>5. LocalTypeOK
  BY <1>1, <1>2 DEF Init, LocalTypeOK
<1>6. HistoryTypeOK
  <2>1. put \in [Pushers -> 0 .. MaxPushes]
    BY <1>1, FIFOAssumption DEF Init
  <2>2. got \in [Poppers -> Payloads \cup {NoPayload}] /\ sawEmpty \in [Poppers -> BOOLEAN]
    BY <1>1 DEF Init
  <2>3. lagHead \in [Procs -> Lags] /\ lagTail \in [Procs -> Lags] /\ lagNext \in [Procs -> Lags]
    BY <1>1, <1>2 DEF Init
  <2>4. QED
    BY <2>1, <2>2, <2>3 DEF HistoryTypeOK
<1>7. QED
  BY <1>3, <1>4, <1>5, <1>6 DEF TypeOK

LEMMA InitInv == Init => Inv
<1>1. SUFFICES ASSUME Init PROVE Inv
  OBVIOUS
<1>2. TypeOK
  BY <1>1, InitTypeOK
<1>3. /\ \A p \in Pushers : pc[p] = "idle" /\ p \notin Poppers
      /\ \A c \in Poppers : pc[c] = "popIdle" /\ c \notin Pushers
      /\ \A x \in Procs : pc[x] \in {"idle", "popIdle"}
  BY <1>1, ProcsSplit DEF Init, Procs
<1>4. \A x \in Procs : lagHead[x] = 0 /\ lagTail[x] = 0 /\ lagNext[x] = 0
  BY <1>1 DEF Init
<1>5. HeadHolders = {} /\ TailHolders = {} /\ \A link : NextHolders(link) = {}
  BY <1>3 DEF HeadHolders, TailHolders, NextHolders
<1>6. HeadNoABA /\ TailNoABA /\ NextNoABA
  BY <1>4, <1>5 DEF HeadNoABA, TailNoABA, NextNoABA
<1>7. ItemInHand
  BY <1>1, <1>3 DEF Init, ItemInHand, NullWord, SetAll
<1>8. TailCopies /\ HeadCopies
  BY <1>3, <1>5 DEF TailCopies, HeadCopies
<1>9. Range(<<Stub>>) = {Stub}
  BY DEF Range
<1>10. Chain = {Stub}
  BY <1>1, <1>9, InitList, QueueOf, QueueIsList
<1>11. ListEnds
  <2>1. NearEnd(<<Stub>>, tail.ptr)
    BY <1>1 DEF Init, SetAll, NearEnd
  <2>2. QED
    BY <1>1, <2>1, InitList DEF ListEnds
<1>12. LinksConserved
  <2>1. \A x \in Procs : InHand(x) = {}
    BY <1>3, HandOf
  <2>2. free = Links \ {Stub} /\ Stub \in Links
    BY <1>1, FIFOAssumption DEF Init
  <2>3. QED
    BY <1>10, <2>1, <2>2 DEF LinksConserved
<1>13. QED
  BY <1>2, <1>6, <1>7, <1>8, <1>11, <1>12 DEF Inv

\* No step of any thread breaks it.
LEMMA InvStep ==
    ASSUME Inv, NEW x \in Procs, Acts(x)
    PROVE  Inv'
<1>1. TypeOK'
  <2>1. ControlTypeOK'
    BY ControlTypeOKStep DEF Inv, TypeOK
  <2>2. QED
    BY <2>1, SharedTypeOKStep, LocalTypeOKStep, HistoryTypeOKStep DEF TypeOK
<1>2. ListEnds' /\ LinksConserved'
  BY LinksConservedStep
<1>3. HeadNoABA' /\ TailNoABA' /\ NextNoABA'
  BY HeadNoABAStep, TailNoABAStep, NextNoABAStep
<1>4. ItemInHand'
  BY ItemInHandStep
<1>5. TailCopies'
  BY TailCopiesOwn, TailCopiesOthers, TailCopiesKnowPrime
<1>6. HeadCopies'
  <2>1. \A c \in Poppers : KnowsHead(c)'
    BY HeadCopiesOwn, HeadCopiesOthers
  <2>2. QED
    BY <2>1, HeadCopiesKnowPrime
<1>7. QED
  BY <1>1, <1>2, <1>3, <1>4, <1>5, <1>6 DEF Inv

LEMMA InvStutter == Inv /\ UNCHANGED vars => Inv'
<1>1. SUFFICES ASSUME Inv, UNCHANGED vars PROVE Inv'
  OBVIOUS
<1> USE DEF vars, shared, locals, history, lags
<1>2. TypeOK'
  BY <1>1 DEF Inv, TypeOK, SharedTypeOK, ControlTypeOK, LocalTypeOK, HistoryTypeOK
<1>3. Chain' = Chain
  BY <1>1, QueueOf, QueueOfPrime
<1>4. ListEnds' /\ LinksConserved'
  BY <1>1, <1>3 DEF Inv, ListEnds, LinksConserved, InHand
<1>5. HeadHolders' = HeadHolders /\ TailHolders' = TailHolders
      /\ \A link : NextHolders(link)' = NextHolders(link)
  BY <1>1 DEF HeadHolders, TailHolders, NextHolders
<1>6. HeadNoABA' /\ TailNoABA'
  BY <1>1, <1>5 DEF Inv, HeadNoABA, TailNoABA, Copy
<1>7. NextNoABA'
  BY <1>1 DEF Inv, NextNoABA, NextHolders
<1>8. ItemInHand' /\ TailCopies' /\ HeadCopies'
  BY <1>1, <1>5 DEF Inv, ItemInHand, TailCopies, HeadCopies
<1>9. QED
  BY <1>2, <1>4, <1>6, <1>7, <1>8 DEF Inv

\* The invariant of all reachable states.
LEMMA Invariance == Spec => []Inv
<1>1. Inv /\ [Next]_vars => Inv'
  BY NextActs, InvStep, InvStutter
<1>2. QED
  BY InitInv, <1>1, PTL DEF Spec

-----------------------------------------------------------------------------
(* The theorems. *)

\* Every link is in exactly one place: in the pool, on the list, or in the hands of
\* one thread that is pushing or freeing it.
THEOREM QueueConservesLinks == Spec => []LinksConserved
<1>1. Inv => LinksConserved
  BY DEF Inv
<1>2. QED
  BY Invariance, <1>1, PTL

\* Tail is never behind Head, and neither ever names a link of the pool.
THEOREM TailStaysOnChain == Spec => []TailOnChain
<1>1. Inv => TailOnChain
  <2>1. SUFFICES ASSUME Inv PROVE TailOnChain
    OBVIOUS
  <2>2. PICK s \in Seq(Links) : LinkedFrom(doubleNext, head.ptr, s) /\ NearEnd(s, tail.ptr)
    BY <2>1 DEF Inv, ListEnds
  <2>3. /\ QueueLength = Len(s) - 1
        /\ \A n \in 0 .. Len(s) - 1 : LinkAt[n] = s[n + 1]
    BY <2>2, QueueOf, QueueIsList
  <2>4. Len(s) \in Nat \ {0} /\ doubleNext[s[Len(s)]].ptr = 0 /\ s[Len(s)] # 0
    BY <2>2, NullIsNoLink DEF LinkedFrom
  <2>5. LinkAt[QueueLength] = s[Len(s)]
    BY <2>3, <2>4
  <2>6. tail.ptr \in {LinkAt[QueueLength], LinkAt[IF QueueLength = 0 THEN 0 ELSE QueueLength - 1]}
    <3>1. CASE tail.ptr = s[Len(s)]
      BY <2>5, <3>1
    <3>2. CASE Len(s) > 1 /\ tail.ptr = s[Len(s) - 1]
      <4>1. QueueLength # 0 /\ QueueLength - 1 \in 0 .. Len(s) - 1 /\ QueueLength - 1 + 1 = Len(s) - 1
        BY <2>3, <2>4, <3>2
      <4>2. LinkAt[QueueLength - 1] = s[Len(s) - 1]
        BY <2>3, <4>1
      <4>3. QED
        BY <3>2, <4>1, <4>2
    <3>3. QED
      BY <2>2, <3>1, <3>2 DEF NearEnd
  <2>7. Chain \cap free = {}
    BY <2>1 DEF Inv, LinksConserved
  <2>8. QED
    BY <2>4, <2>5, <2>6, <2>7 DEF TailOnChain
<1>2. QED
  BY Invariance, <1>1, PTL

\* Pop never follows the null index.
THEOREM PopFindsNext == Spec => []NoNullDereference
<1>1. Inv => NoNullDereference
  BY ProcsSplit DEF Inv, TailCopies, HeadCopies, NoNullDereference
<1>2. QED
  BY Invariance, <1>1, PTL

\* Pop says that the queue is empty only if it was, at a moment during the call.
THEOREM NullMeansQueueWasEmpty == Spec => []NullMeansEmpty
<1>1. Inv => NullMeansEmpty
  BY Zenon DEF Inv, HeadCopies, NullMeansEmpty
<1>2. QED
  BY Invariance, <1>1, PTL

\* The payloads behind the stub.
PayloadsOf(pay, s) == [n \in 1 .. Len(s) - 1 |-> pay[s[n + 1]]]

LEMMA ContentsIs ==
    ASSUME NEW s \in Seq(Links), LinkedFrom(doubleNext, head.ptr, s)
    PROVE  Contents = PayloadsOf(payload, s)
<1>1. QueueLength = Len(s) - 1 /\ \A n \in 0 .. Len(s) - 1 : LinkAt[n] = s[n + 1]
  BY QueueOf, QueueIsList
<1>2. Len(s) \in Nat
  OBVIOUS
<1>3. \A n \in 1 .. Len(s) - 1 : LinkAt[n] = s[n + 1]
  BY <1>1, <1>2
<1>4. QED
  BY <1>1, <1>3 DEF Contents, PayloadsOf

LEMMA ContentsIsPrime ==
    ASSUME NEW s \in Seq(Links), LinkedFrom(doubleNext', head'.ptr, s)
    PROVE  Contents' = PayloadsOf(payload', s)
<1>1. QueueLength' = Len(s) - 1 /\ \A n \in 0 .. Len(s) - 1 : LinkAt'[n] = s[n + 1]
  BY QueueOfPrime, QueueIsList
<1>2. Len(s) \in Nat
  OBVIOUS
<1>3. \A n \in 1 .. Len(s) - 1 : LinkAt'[n] = s[n + 1]
  BY <1>1, <1>2
<1>4. QED
  BY <1>1, <1>3 DEF Contents, PayloadsOf

\* Only the two compare-and-swaps take effect.
LEMMA OthersTakeNoEffect ==
    ASSUME Inv, NEW x \in Procs, Acts(x), ~ LinksItem(x), ~ MovesHead(x)
    PROVE  put' = put /\ got' = got
<1>1. CASE x \in Pushers /\ PushCasNext(x)
  BY <1>1, CasNextLinks DEF PushCasNext
<1>2. CASE x \in Poppers /\ PopCasHead(x)
  BY <1>2, CasHeadMoves DEF PopCasHead
<1>3. QED
  BY <1>1, <1>2 DEF Acts, PushStep, PopStep, PushAlloc, PushReadTail, PushReadNext, PushTestTail,
     PushHelpTail, PushSwingTail, PopReadHead, PopReadTail, PopReadNext, PopTestHead,
     PopReturnNull, PopHelpTail, PopReadPayload, PopFreeLink, history

(* The payloads behind the head do not depend on the stub's own payload. *)
LEMMA PayloadsKept ==
    ASSUME NEW pay, NEW pay2, NEW s \in Seq(Links), Len(s) \in Nat \ {0},
           \A k \in 1 .. Len(s) : pay2[s[k]] = pay[s[k]]
    PROVE  PayloadsOf(pay2, s) = PayloadsOf(pay, s)
<1>1. \A n \in 1 .. Len(s) - 1 : n + 1 \in 1 .. Len(s)
  OBVIOUS
<1>2. \A n \in 1 .. Len(s) - 1 : pay2[s[n + 1]] = pay[s[n + 1]]
  BY <1>1
<1>3. QED
  BY <1>2 DEF PayloadsOf

(* Taking the first link off leaves the payloads without their first. *)
LEMMA PayloadsPopped ==
    ASSUME NEW pay, NEW s \in Seq(Links), Len(s) \in Nat, Len(s) > 1
    PROVE  /\ PayloadsOf(pay, s) # <<>>
           /\ Head(PayloadsOf(pay, s)) = pay[s[2]]
           /\ PayloadsOf(pay, Tail(s)) = Tail(PayloadsOf(pay, s))
<1> DEFINE V == {pay[s[n + 1]] : n \in 1 .. Len(s) - 1}
           p == PayloadsOf(pay, s)
<1>1. p \in [1 .. Len(s) - 1 -> V] /\ Len(s) - 1 \in Nat
  BY DEF PayloadsOf
<1>2. p \in Seq(V) /\ Len(p) = Len(s) - 1
  <2> HIDE DEF p, V
  <2>1. PICK m \in Nat : m = Len(s) - 1
    BY <1>1
  <2>2. p \in [1 .. m -> V]
    BY <1>1, <2>1
  <2>3. p \in Seq(V) /\ Len(p) = m
    BY <2>2
  <2>4. QED
    BY <2>1, <2>3
<1>3. \A n \in 1 .. Len(s) - 1 : p[n] = pay[s[n + 1]]
  BY DEF PayloadsOf
<1>4. p # <<>>
  BY <1>2
<1>5. Head(p) = pay[s[2]]
  <2>1. p[1] = pay[s[1 + 1]]
    BY <1>3
  <2> HIDE DEF p
  <2>2. QED
    BY <1>2, <1>4, <2>1
<1>6. PayloadsOf(pay, Tail(s)) = Tail(p)
  <2> DEFINE q == PayloadsOf(pay, Tail(s))
  <2>1. Len(Tail(s)) = Len(s) - 1 /\ \A n \in 1 .. Len(s) - 1 : Tail(s)[n] = s[n + 1]
    OBVIOUS
  <2>2. q = [n \in 1 .. Len(s) - 2 |-> pay[Tail(s)[n + 1]]]
    BY <2>1 DEF PayloadsOf
  <2> HIDE DEF p, q
  <2>3. Tail(p) = [n \in 1 .. Len(s) - 2 |-> p[n + 1]]
    <3> HIDE DEF V
    <3>1. PICK m \in Nat : m = Len(p)
      BY <1>2
    <3>2. Tail(p) \in [1 .. m - 1 -> V]
      <4>1. Tail(p) \in Seq(V) /\ Len(Tail(p)) = m - 1
        BY <1>2, <1>4, <3>1
      <4>2. Tail(p) \in [1 .. Len(Tail(p)) -> V]
        BY <4>1, LenProperties
      <4>3. QED
        BY <4>1, <4>2
    <3>3. \A n \in 1 .. m - 1 : Tail(p)[n] = p[n + 1]
      BY <1>2, <1>4, <3>1
    <3>4. Tail(p) = [n \in 1 .. m - 1 |-> p[n + 1]]
      BY <3>2, <3>3
    <3>5. m - 1 = Len(s) - 2
      BY <1>2, <3>1
    <3>6. QED
      BY <3>4, <3>5
  <2>4. \A n \in 1 .. Len(s) - 2 : pay[Tail(s)[n + 1]] = p[n + 1]
    <3>1. TAKE n \in 1 .. Len(s) - 2
    <3>2. n + 1 \in 1 .. Len(s) - 1
      OBVIOUS
    <3>3. Tail(s)[n + 1] = s[n + 1 + 1] /\ p[n + 1] = pay[s[n + 1 + 1]]
      BY <2>1, <1>3, <3>2
    <3>4. QED
      BY <3>3
  <2>5. q = Tail(p)
    BY <2>2, <2>3, <2>4
  <2>6. QED
    BY <2>5 DEF q
<1>7. QED
  BY <1>4, <1>5, <1>6

\* Push and Pop, access by access and interleaved in any way, are the atomic
\* operations of a queue.
THEOREM QueueIsFIFO == Spec => ImplementsFIFO
<1>1. Init => Abstract!Init
  <2>1. SUFFICES ASSUME Init PROVE Abstract!Init
    OBVIOUS
  <2>2. Contents = PayloadsOf(payload, <<Stub>>)
    BY <2>1, InitList, ContentsIs
  <2>3. Contents = <<>>
    BY <2>2 DEF PayloadsOf
  <2>4. QED
    BY <2>1, <2>3 DEF Init, Abstract!Init
<1>2. Inv /\ [Next]_vars => [Abstract!Next]_Abstract!vars
  <2>1. SUFFICES ASSUME Inv, [Next]_vars PROVE [Abstract!Next]_Abstract!vars
    OBVIOUS
  <2>2. CASE UNCHANGED vars
    <3>1. Contents' = Contents
      BY <2>2, QueueOf, QueueOfPrime DEF Contents, vars, shared
    <3>2. QED
      BY <2>2, <3>1 DEF vars, history, Abstract!vars
  <2>3. ASSUME NEW x \in Procs, Acts(x) PROVE [Abstract!Next]_Abstract!vars
    <3>1. PICK s \in Seq(Links) : LinkedFrom(doubleNext, head.ptr, s) /\ NearEnd(s, tail.ptr)
      BY <2>1 DEF Inv, ListEnds
    <3>2. PICK t \in Seq(Links) :
              /\ LinkedFrom(doubleNext', head'.ptr, t) /\ NearEnd(t, tail'.ptr)
              /\ \/ ~ LinksItem(x) /\ ~ MovesHead(x) /\ t = s
                 \/ LinksItem(x) /\ t = Append(s, item[x]) /\ Range(t) = Range(s) \cup {item[x]}
                 \/ MovesHead(x) /\ Len(s) > 1 /\ t = Tail(s) /\ Range(t) = Range(s) \ {head.ptr}
      BY <2>1, <2>3, <3>1, ListStep
    <3>3. /\ Contents = PayloadsOf(payload, s) /\ Contents' = PayloadsOf(payload', t)
          /\ Chain = Range(s) /\ Len(s) \in Nat \ {0}
      BY <3>1, <3>2, ContentsIs, ContentsIsPrime, QueueOf, QueueIsList DEF LinkedFrom
    <3>4. \A k \in 1 .. Len(s) : payload'[s[k]] = payload[s[k]]
      BY <2>1, <2>3, <3>3, ListedPayloadKept DEF Range
    <3>5. CASE ~ LinksItem(x) /\ ~ MovesHead(x)
      <4>1. t = s
        BY <3>2, <3>5
      <4>2. PayloadsOf(payload', s) = PayloadsOf(payload, s)
        BY <3>3, <3>4, PayloadsKept
      <4>3. QED
        BY <2>1, <2>3, <3>3, <3>5, <4>1, <4>2, OthersTakeNoEffect DEF Abstract!vars
    <3>6. CASE LinksItem(x)
      <4>1. x \in Pushers /\ pc[x] = "casNext" /\ payload' = payload
            /\ put' = [put EXCEPT ![x] = @ + 1] /\ got' = got
        BY <3>6 DEF LinksItem
      <4>2. PICK link \in Links : link = item[x]
        BY <2>1, <4>1, NamedLinks
      <4>3. payload[link] = <<x, put[x] + 1>> /\ put[x] < MaxPushes
        BY <2>1, <4>1, <4>2 DEF Inv, ItemInHand
      <4>4. t = Append(s, link)
        BY <3>2, <3>6, <4>1, <4>2 DEF MovesHead
      <4>5. PayloadsOf(payload, t) = Append(PayloadsOf(payload, s), payload[link])
        BY <3>3, <4>4 DEF PayloadsOf
      <4>6. Abstract!Push(x)
        BY <3>3, <4>1, <4>3, <4>5 DEF Abstract!Push
      <4>7. QED
        BY <4>1, <4>6 DEF Abstract!Next
    <3>7. CASE MovesHead(x)
      <4>1. x \in Poppers /\ payload' = payload /\ put' = put /\ pc[x] = "casHead"
            /\ got' = [got EXCEPT ![x] = payload[doubleNext[head.ptr].ptr]]
        BY <3>7 DEF MovesHead
      <4>2. Len(s) > 1 /\ t = Tail(s)
        BY <3>2, <3>7, <4>1 DEF LinksItem
      <4>3. s[2] = doubleNext[head.ptr].ptr
        BY <3>1, <3>7, ChainPopped DEF MovesHead
      <4>4. /\ PayloadsOf(payload, s) # <<>>
            /\ Head(PayloadsOf(payload, s)) = payload[s[2]]
            /\ PayloadsOf(payload, t) = Tail(PayloadsOf(payload, s))
        BY <3>3, <4>2, PayloadsPopped
      <4>5. Abstract!Pop(x)
        BY <3>3, <4>1, <4>3, <4>4 DEF Abstract!Pop
      <4>6. QED
        BY <4>1, <4>5 DEF Abstract!Next
    <3>8. QED
      BY <3>5, <3>6, <3>7
  <2>4. QED
    BY <2>1, <2>2, <2>3, NextActs
<1>3. QED
  BY Invariance, <1>1, <1>2, PTL DEF Spec, ImplementsFIFO, Abstract!Spec
=============================================================================
