-------------------------- MODULE LockFreeLIFOProofs --------------------------
(***************************************************************************)
(* Machine-checked proofs about LockFreeLIFO, for every set of links,      *)
(* every set of threads, any number of calls and every width of the        *)
(* counter.                                                                *)
(***************************************************************************)
EXTENDS LockFreeLIFO, FiniteSetTheorems, SequenceTheorems, WellFoundedInduction, TLAPS

-----------------------------------------------------------------------------
(* Linked lists. *)

\* The null index names no link.
LEMMA NullIsNoLink == 0 \notin Links
BY LIFOAssumption

\* Of two sequences that the same links lead through from the same first link,
\* the one goes as far as the other.
LEMMA LinkedPrefix ==
    ASSUME NEW next, NEW first, NEW s \in Seq(Links), NEW t \in Seq(Links),
           LinkedFrom(next, first, s), LinkedFrom(next, first, t)
    PROVE  \A k \in 1 .. Len(s) : k \in 1 .. Len(t) /\ t[k] = s[k]
<1> DEFINE Differ == {k \in 1 .. Len(s) : ~ (k \in 1 .. Len(t) /\ t[k] = s[k])}
<1>1. SUFFICES ASSUME Differ # {} PROVE FALSE
  OBVIOUS
<1>2. Differ \subseteq Nat
  OBVIOUS
<1>3. PICK k \in Differ : \A j \in Differ : ~ (<<j, k>> \in OpToRel(<, Nat))
  BY <1>1, <1>2, NatLessThanWellFounded, WFMin
<1>4. k \in 1 .. Len(s) /\ ~ (k \in 1 .. Len(t) /\ t[k] = s[k])
  OBVIOUS
<1>5. s[k] \in Links /\ s[k] # 0
  BY <1>4, NullIsNoLink
<1>6. CASE k = 1
  BY <1>4, <1>5, <1>6 DEF LinkedFrom
<1>7. CASE k > 1
  <2>1. k - 1 \in 1 .. Len(s) /\ k - 1 \in Nat /\ k \in Nat /\ k - 1 < k
    BY <1>4, <1>7
  <2>2. k - 1 \notin Differ
    BY <1>3, <2>1 DEF OpToRel
  <2>3. k - 1 \in 1 .. Len(t) /\ t[k - 1] = s[k - 1]
    BY <2>1, <2>2
  <2>4. next[s[k - 1]] = s[k]
    BY <1>4, <2>1 DEF LinkedFrom
  <2>5. next[t[k - 1]] = IF k - 1 = Len(t) THEN 0 ELSE t[k]
    BY <2>3, <2>1 DEF LinkedFrom
  <2>6. QED
    BY <1>4, <1>5, <2>1, <2>3, <2>4, <2>5
<1>8. QED
  BY <1>4, <1>6, <1>7

\* Links that lead through s from its first link make s the list.
LEMMA ChainIs ==
    ASSUME NEW next, NEW first, NEW s \in Seq(Links), LinkedFrom(next, first, s)
    PROVE  ChainOf(next, first) = s
<1> DEFINE chains == {t \in SeqOf(Links, Cardinality(Links)) : LinkedFrom(next, first, t)}
<1>1. s \in SeqOf(Links, Cardinality(Links))
  <2>1. s \in Injection(1 .. Len(s), Links)
    BY DEF LinkedFrom, Injection
  <2>2. Cardinality(1 .. Len(s)) <= Cardinality(Links)
    BY <2>1, FS_Injection, LIFOAssumption
  <2>3. Cardinality(1 .. Len(s)) = Len(s)
    <3>1. Len(s) \in Nat /\ Len(s) \in Int /\ 1 \in Int
      OBVIOUS
    <3>2. Cardinality(1 .. Len(s)) = IF 1 > Len(s) THEN 0 ELSE Len(s) - 1 + 1
      BY <3>1, FS_Interval
    <3>3. QED
      BY <3>1, <3>2
  <2>4. Cardinality(Links) \in Nat
    BY FS_CardinalityType, LIFOAssumption
  <2>5. Len(s) \in 0 .. Cardinality(Links) /\ s \in [1 .. Len(s) -> Links]
    BY <2>2, <2>3, <2>4
  <2>6. QED
    BY <2>5 DEF SeqOf
<1>2. \A t \in chains : t = s
  <2>1. SUFFICES ASSUME NEW t \in chains PROVE t = s
    OBVIOUS
  <2>2. t \in Seq(Links) /\ LinkedFrom(next, first, t)
    <3>1. Cardinality(Links) \in Nat
      BY FS_CardinalityType, LIFOAssumption
    <3>2. PICK n \in 0 .. Cardinality(Links) : t \in [1 .. n -> Links]
      BY DEF SeqOf
    <3>3. QED
      BY <3>1, <3>2
  <2>3. \A k \in 1 .. Len(s) : k \in 1 .. Len(t) /\ t[k] = s[k]
    BY <2>2, LinkedPrefix
  <2>4. \A k \in 1 .. Len(t) : k \in 1 .. Len(s) /\ s[k] = t[k]
    BY <2>2, LinkedPrefix
  <2>5. Len(s) = Len(t)
    <3>1. Len(s) \in Nat /\ Len(t) \in Nat
      BY <2>2
    <3>2. Len(s) <= Len(t)
      BY <2>3, <3>1
    <3>3. Len(t) <= Len(s)
      BY <2>4, <3>1
    <3>4. QED
      BY <3>1, <3>2, <3>3
  <2>6. QED
    BY <2>2, <2>3, <2>5, SeqEqual
<1>3. s \in chains
  BY <1>1
<1>4. QED
  BY <1>2, <1>3 DEF ChainOf

\* What is not on the list may be linked in any way.
LEMMA ChainUnchanged ==
    ASSUME NEW next, NEW next2, NEW first, NEW s \in Seq(Links), LinkedFrom(next, first, s),
           \A link \in ToSet(s) : next2[link] = next[link]
    PROVE  LinkedFrom(next2, first, s)
BY DEF LinkedFrom, ToSet

\* A link that leads to the first one makes a list with it in front.
LEMMA ChainPushed ==
    ASSUME NEW next, NEW first, NEW s \in Seq(Links), LinkedFrom(next, first, s),
           NEW link \in Links, link \notin ToSet(s), next[link] = first
    PROVE  LinkedFrom(next, link, <<link>> \o s)
<1> DEFINE t == <<link>> \o s
<1>1. /\ t \in Seq(Links) /\ t # <<>> /\ Len(t) = Len(s) + 1
      /\ t[1] = link /\ \A k \in 2 .. Len(t) : t[k] = s[k - 1]
  OBVIOUS
<1>2. IsInjective(t)
  <2>1. SUFFICES ASSUME NEW a \in 1 .. Len(t), NEW b \in 1 .. Len(t), t[a] = t[b]
                 PROVE  a = b
    BY <1>1 DEF IsInjective
  <2>2. \A k \in 2 .. Len(t) : k - 1 \in DOMAIN s /\ t[k] \in ToSet(s)
    BY <1>1 DEF ToSet
  <2>3. CASE a = 1 \/ b = 1
    BY <1>1, <2>1, <2>2, <2>3
  <2>4. CASE a # 1 /\ b # 1
    <3>1. a \in 2 .. Len(t) /\ b \in 2 .. Len(t)
      BY <2>4
    <3>2. s[a - 1] = s[b - 1] /\ a - 1 \in DOMAIN s /\ b - 1 \in DOMAIN s
      BY <1>1, <2>1, <2>2, <3>1
    <3>3. a - 1 = b - 1
      BY <3>2 DEF LinkedFrom, IsInjective
    <3>4. QED
      BY <3>1, <3>3
  <2>5. QED
    BY <2>3, <2>4
<1>3. ASSUME NEW k \in 1 .. Len(t)
      PROVE  next[t[k]] = IF k = Len(t) THEN 0 ELSE t[k + 1]
  <2>1. CASE k = 1
    <3>1. CASE s = <<>>
      BY <1>1, <2>1, <3>1 DEF LinkedFrom
    <3>2. CASE s # <<>>
      BY <1>1, <2>1, <3>2 DEF LinkedFrom
    <3>3. QED
      BY <3>1, <3>2
  <2>2. CASE k # 1
    <3>1. k \in 2 .. Len(t) /\ k - 1 \in DOMAIN s
      BY <1>1, <2>2
    <3>2. next[s[k - 1]] = IF k - 1 = Len(s) THEN 0 ELSE s[k]
      BY <3>1 DEF LinkedFrom
    <3>3. QED
      BY <1>1, <3>1, <3>2
  <2>3. QED
    BY <2>1, <2>2
<1>4. QED
  BY <1>1, <1>2, <1>3 DEF LinkedFrom

\* Without its first link the list is what that link leads to.
LEMMA ChainPopped ==
    ASSUME NEW next, NEW first, NEW s \in Seq(Links), LinkedFrom(next, first, s), first # 0
    PROVE  /\ s # <<>> /\ Head(s) = first /\ Tail(s) \in Seq(Links)
           /\ LinkedFrom(next, next[first], Tail(s))
           /\ first \notin ToSet(Tail(s)) /\ ToSet(s) = {first} \cup ToSet(Tail(s))
<1> DEFINE t == Tail(s)
<1>1. s # <<>> /\ s[1] = first /\ Head(s) = first
  BY DEF LinkedFrom
<1>2. /\ t \in Seq(Links) /\ Len(t) = Len(s) - 1 /\ Len(s) \in Nat \ {0}
      /\ \A k \in 1 .. Len(t) : t[k] = s[k + 1] /\ k + 1 \in DOMAIN s
  BY <1>1
<1>3. IsInjective(t)
  BY <1>2 DEF LinkedFrom, IsInjective
<1>4. first \notin ToSet(t)
  BY <1>1, <1>2 DEF LinkedFrom, IsInjective, ToSet
<1>5. ToSet(s) = {first} \cup ToSet(t)
  <2>1. \A k \in DOMAIN s : k = 1 \/ (k - 1 \in DOMAIN t /\ s[k] = t[k - 1])
    BY <1>2
  <2>2. 1 \in DOMAIN s /\ \A k \in DOMAIN t : k + 1 \in DOMAIN s /\ s[k + 1] = t[k]
    BY <1>2
  <2>3. ASSUME NEW link \in ToSet(s) PROVE link \in {first} \cup ToSet(t)
    BY <1>1, <2>1, <2>3 DEF ToSet
  <2>4. ASSUME NEW link \in {first} \cup ToSet(t) PROVE link \in ToSet(s)
    BY <1>1, <2>2, <2>4 DEF ToSet
  <2>5. QED
    BY <2>3, <2>4
<1>6. next[first] = IF t = <<>> THEN 0 ELSE t[1]
  <2>1. next[s[1]] = IF 1 = Len(s) THEN 0 ELSE s[2]
    BY <1>2 DEF LinkedFrom
  <2>2. QED
    BY <1>1, <1>2, <2>1
<1>7. \A k \in DOMAIN t : next[t[k]] = IF k = Len(t) THEN 0 ELSE t[k + 1]
  <2>1. SUFFICES ASSUME NEW k \in DOMAIN t
                 PROVE  next[t[k]] = IF k = Len(t) THEN 0 ELSE t[k + 1]
    OBVIOUS
  <2>2. next[s[k + 1]] = IF k + 1 = Len(s) THEN 0 ELSE s[k + 2]
    BY <1>2 DEF LinkedFrom
  <2>3. QED
    BY <1>2, <2>2
<1>8. QED
  BY <1>1, <1>2, <1>3, <1>4, <1>5, <1>6, <1>7 DEF LinkedFrom

-----------------------------------------------------------------------------
(* Type correctness. *)

\* A reset list is well typed.
LEMMA InitTypeOK == Init => TypeOK
<1>1. SUFFICES ASSUME Init PROVE TypeOK
  OBVIOUS
<1>2. SetAll(0, 0) \in IndexedPointers(Links \cup {0}) /\ 0 \in 0 .. MAX_TagBitsValue - 1
  BY TagBitsAssumption DEF SetAll, IndexedPointers, Counter
<1>3. HeadTypeOK
  BY <1>1, <1>2 DEF Init, HeadTypeOK
<1>4. LinkTypeOK
  BY <1>1 DEF Init, LinkTypeOK
<1>5. ControlTypeOK
  BY <1>1, LIFOAssumption DEF Init, ControlTypeOK, Points
<1>6. QED
  BY <1>3, <1>4, <1>5 DEF TypeOK

\* AdvanceCounterAndState yields a counter again, wrap included.
LEMMA InstalledType ==
    ASSUME NEW word \in IndexedPointers(Links \cup {0}), NEW ptr \in Links \cup {0}
    PROVE  SetAll(ptr, AdvanceCounter(word)) \in IndexedPointers(Links \cup {0})
BY TagBitsAssumption DEF AdvanceCounter, Counter, IndexedPointers, SetAll

\* The compare-and-swap keeps the types of the variables it changes.
LEMMA CasType ==
    ASSUME HeadTypeOK, NEW x \in Procs, NEW ptr \in Links \cup {0},
           CasHead(x, ptr) \/ CasFails(x)
    PROVE  /\ head' \in IndexedPointers(Links \cup {0})
           /\ lag' \in [Procs -> 0 .. MAX_TagBitsValue - 1]
<1>1. CASE CasHead(x, ptr)
  <2>1. \A y \in Procs : lag[y] \in Nat /\ (y # x /\ Holding(y) => lag[y] + 1 < MAX_TagBitsValue)
    BY <1>1 DEF CasHead, NobodyStarves, HeadTypeOK
  <2>2. \A y \in Procs :
          (IF y # x /\ Holding(y) THEN lag[y] + 1 ELSE 0) \in 0 .. MAX_TagBitsValue - 1
    BY <2>1, TagBitsAssumption
  <2>3. lag' \in [Procs -> 0 .. MAX_TagBitsValue - 1]
    BY <1>1, <2>2 DEF CasHead
  <2>4. head' \in IndexedPointers(Links \cup {0})
    BY <1>1, InstalledType DEF CasHead, HeadTypeOK
  <2>5. QED
    BY <2>3, <2>4
<1>2. CASE CasFails(x)
  <2>1. 0 \in 0 .. MAX_TagBitsValue - 1
    BY TagBitsAssumption
  <2>2. QED
    BY <1>2, <2>1 DEF CasFails, HeadTypeOK
<1>3. QED
  BY <1>1, <1>2

\* A call that returns leaves its locals at their defaults, which are of their types.
LEMMA ReturnType ==
    ASSUME HeadTypeOK, LinkTypeOK, NEW x \in Procs, Return(x)
    PROVE  /\ localHead' \in [Procs -> IndexedPointers(Links \cup {0})]
           /\ item' \in [Procs -> Links \cup {0}] /\ newNext' \in [Procs -> Links \cup {0}]
<1>1. SetAll(0, 0) \in IndexedPointers(Links \cup {0})
  BY TagBitsAssumption DEF SetAll, IndexedPointers, Counter
<1>2. QED
  BY <1>1 DEF Return, HeadTypeOK, LinkTypeOK

\* A list consists of links.
LEMMA ChainType ==
    ASSUME NEW next, NEW first
    PROVE  ToSet(ChainOf(next, first)) \subseteq Links
<1> DEFINE chains == {t \in SeqOf(Links, Cardinality(Links)) : LinkedFrom(next, first, t)}
<1>1. CASE chains = {}
  BY <1>1 DEF ChainOf, ToSet
<1>2. CASE chains # {}
  <2>1. ChainOf(next, first) \in SeqOf(Links, Cardinality(Links))
    BY <1>2 DEF ChainOf
  <2>2. PICK n \in 0 .. Cardinality(Links) : ChainOf(next, first) \in [1 .. n -> Links]
    BY <2>1 DEF SeqOf
  <2>3. QED
    BY <2>2 DEF ToSet
<1>3. QED
  BY <1>1, <1>2

\* Which threads move, and where to.
LEMMA ControlTypeOKStep ==
    ASSUME ControlTypeOK, NEW x \in Procs,
           PushCall(x) \/ PopCall(x) \/ PopAllCall(x) \/ Step(x)
    PROVE  ControlTypeOK'
<1>1. \E label \in Points : pc' = [pc EXCEPT ![x] = label]
  BY DEF PushCall, PopCall, PopAllCall, Call, Step, PushRead, PushLink, PushCas, PopRead, PopNext,
         PopCas, PopClear, PopAllRead, PopAllCas, Return, Goto, Points
<1>2. pc' \in [Procs -> Points]
  BY <1>1 DEF ControlTypeOK
<1>3. CASE UNCHANGED calls
  BY <1>2, <1>3 DEF ControlTypeOK
<1>4. CASE calls[x] < MaxCalls /\ calls' = [calls EXCEPT ![x] = @ + 1]
  <2>1. calls[x] + 1 \in 0 .. MaxCalls
    BY <1>4, LIFOAssumption DEF ControlTypeOK
  <2>2. QED
    BY <1>2, <1>4, <2>1 DEF ControlTypeOK
<1>5. QED
  BY <1>3, <1>4 DEF PushCall, PopCall, PopAllCall, Call, Step, PushRead, PushLink, PushCas,
         PopRead, PopNext, PopCas, PopClear, PopAllRead, PopAllCas

\* Head and the copies of it stay tagged words.
LEMMA HeadTypeOKStep ==
    ASSUME HeadTypeOK, LinkTypeOK, NEW x \in Procs,
           PushCall(x) \/ PopCall(x) \/ PopAllCall(x) \/ Step(x)
    PROVE  HeadTypeOK'
<1>1. CASE UNCHANGED <<head, localHead, lag>>
  BY <1>1 DEF HeadTypeOK
<1>2. CASE UNCHANGED <<head, lag>> /\ localHead' = [localHead EXCEPT ![x] = head]
  BY <1>2 DEF HeadTypeOK
<1>3. CASE UNCHANGED <<head, lag>> /\ Return(x)
  BY <1>3, ReturnType DEF HeadTypeOK
<1>4. ASSUME NEW ptr \in Links \cup {0}, CasHead(x, ptr) \/ CasFails(x),
             UNCHANGED localHead \/ Return(x)
      PROVE  HeadTypeOK'
  BY <1>4, CasType, ReturnType DEF HeadTypeOK
<1>5. item[x] \in Links \cup {0} /\ newNext[x] \in Links \cup {0} /\ 0 \in Links \cup {0}
  BY DEF LinkTypeOK
<1>6. CASE PushCas(x) \/ PopCas(x) \/ PopAllCas(x)
  BY <1>4, <1>5, <1>6 DEF PushCas, PopCas, PopAllCas
<1>7. QED
  BY <1>1, <1>2, <1>3, <1>6 DEF PushCall, PopCall, PopAllCall, Call, Step, PushRead, PushLink,
         PopRead, PopNext, PopClear, PopAllRead

\* Links lead to links or to null, and locals name links or null.
LEMMA LinkTypeOKStep ==
    ASSUME HeadTypeOK, LinkTypeOK, ItemInHand, NEW x \in Procs,
           PushCall(x) \/ PopCall(x) \/ PopAllCall(x) \/ Step(x)
    PROVE  LinkTypeOK'
<1>1. CASE UNCHANGED <<singleNext, item, newNext, held>>
  BY <1>1 DEF LinkTypeOK
<1>2. CASE PushCall(x)
  BY <1>2 DEF PushCall, LinkTypeOK
<1>3. CASE PushLink(x)
  BY <1>3 DEF PushLink, LinkTypeOK, HeadTypeOK, IndexedPointers
<1>4. CASE PopNext(x)
  <2>1. item[x] \in Links
    BY <1>4 DEF PopNext, ItemInHand, LinkTypeOK
  <2>2. QED
    BY <1>4, <2>1 DEF PopNext, LinkTypeOK
<1>5. CASE PopClear(x)
  BY <1>5, ReturnType DEF PopClear, LinkTypeOK
<1>6. CASE PopRead(x) \/ PopAllRead(x)
  <2>1. CASE Return(x) /\ UNCHANGED <<singleNext, held>>
    BY <2>1, ReturnType DEF LinkTypeOK
  <2>2. CASE item' = [item EXCEPT ![x] = head.ptr] /\ UNCHANGED <<singleNext, held, newNext>>
    BY <2>2 DEF LinkTypeOK, HeadTypeOK, IndexedPointers
  <2>3. QED
    BY <1>6, <2>1, <2>2 DEF PopRead, PopAllRead
<1>7. CASE PushCas(x)
  <2>1. CASE Return(x) /\ held' = [held EXCEPT ![x] = @ \ {item[x]}] /\ UNCHANGED singleNext
    BY <2>1, ReturnType DEF LinkTypeOK
  <2>2. QED
    BY <1>1, <1>7, <2>1 DEF PushCas
<1>8. CASE PopCas(x)
  <2>1. item[x] \in Links
    BY <1>8 DEF PopCas, ItemInHand, LinkTypeOK
  <2>2. QED
    BY <1>8, <2>1 DEF PopCas, LinkTypeOK
<1>9. CASE PopAllCas(x)
  <2>1. CASE /\ Return(x) /\ held' = [held EXCEPT ![x] = @ \cup ToSet(Chain(item[x]))]
             /\ UNCHANGED singleNext
    <3>1. ToSet(Chain(item[x])) \subseteq Links
      BY ChainType DEF Chain
    <3>2. QED
      BY <2>1, <3>1, ReturnType DEF LinkTypeOK
  <2>2. QED
    BY <1>1, <1>9, <2>1 DEF PopAllCas
<1>10. QED
  BY <1>1, <1>2, <1>3, <1>4, <1>5, <1>6, <1>7, <1>8, <1>9 DEF PopCall, PopAllCall, Call, Step,
         PushRead

\* The three parts together.
LEMMA TypeOKNext == TypeOK /\ ItemInHand /\ [Next]_vars => TypeOK'
<1>1. SUFFICES ASSUME TypeOK, ItemInHand, [Next]_vars PROVE TypeOK'
  OBVIOUS
<1>2. CASE UNCHANGED vars
  BY <1>1, <1>2 DEF TypeOK, HeadTypeOK, LinkTypeOK, ControlTypeOK, vars
<1>3. CASE Next
  BY <1>1, <1>3, HeadTypeOKStep, LinkTypeOKStep, ControlTypeOKStep DEF Next, TypeOK
<1>4. QED
  BY <1>1, <1>2, <1>3

-----------------------------------------------------------------------------
(* The counter: a popper's copy of Head that is not stale is equal to it. *)

\* The counter before n + 1 changes, seen from one change later.
LEMMA CounterBeforeStep ==
    ASSUME NEW word, word.counter \in Counter, NEW n \in Nat, n + 1 < MAX_TagBitsValue
    PROVE  CounterBefore(AdvanceCounter(word), n + 1) = CounterBefore(word.counter, n)
BY TagBitsAssumption DEF CounterBefore, AdvanceCounter, Counter

\* Pop's compare-and-swap succeeds only if nothing changed since its read.
LEMMA CasOnlyIfCurrent ==
    ASSUME TypeOK, NoABA, NEW x \in Procs, Holding(x), head = localHead[x]
    PROVE  lag[x] = 0
<1>1. head.counter \in 0 .. MAX_TagBitsValue - 1 /\ lag[x] \in 0 .. MAX_TagBitsValue - 1
  BY DEF TypeOK, HeadTypeOK, IndexedPointers, Counter
<1>2. head.counter = CounterBefore(head.counter, lag[x])
  BY DEF NoABA
<1>3. QED
  BY <1>1, <1>2, TagBitsAssumption DEF CounterBefore

\* NoABA survives whatever one thread does with Head, if it holds a copy
\* afterwards only when it has just read one or held it before.
LEMMA NoABAStep ==
    ASSUME TypeOK, NoABA, NEW x \in Procs,
           \A y \in Procs \ {x} : pc'[y] = pc[y] /\ localHead'[y] = localHead[y],
           \/ UNCHANGED <<head, lag>> /\ localHead'[x] = head /\ lag[x] = 0
           \/ (\E ptr : CasHead(x, ptr)) /\ ~ Holding(x)'
           \/ CasFails(x) /\ ~ Holding(x)'
           \/ UNCHANGED <<head, lag, localHead>> /\ (Holding(x)' <=> Holding(x))
           \/ UNCHANGED <<head, lag>> /\ ~ Holding(x) /\ ~ Holding(x)'
    PROVE  NoABA'
<1> DEFINE OK(y) == IF Holding(y)
                    THEN /\ localHead[y].counter = CounterBefore(head.counter, lag[y])
                         /\ lag[y] = 0 => localHead[y] = head
                    ELSE lag[y] = 0
<1>1. SUFFICES ASSUME NEW y \in Procs PROVE OK(y)'
  BY DEF NoABA
<1>2. OK(y) /\ OK(x)
  BY DEF NoABA
<1>3. y # x => (Holding(y)' <=> Holding(y)) /\ localHead'[y] = localHead[y]
  BY DEF Holding
<1>4. CASE UNCHANGED <<head, lag>> /\ localHead'[x] = head /\ lag[x] = 0
  <2>1. head.counter = CounterBefore(head.counter, 0)
    BY TagBitsAssumption DEF CounterBefore, TypeOK, HeadTypeOK, IndexedPointers, Counter
  <2>2. CASE y = x
    BY <1>4, <2>1, <2>2
  <2>3. CASE y # x
    BY <1>2, <1>3, <1>4, <2>3
  <2>4. QED
    BY <2>2, <2>3
<1>5. ASSUME NEW ptr, CasHead(x, ptr), ~ Holding(x)'
      PROVE  OK(y)'
  <2>1. lag'[y] = IF y # x /\ Holding(y) THEN lag[y] + 1 ELSE 0
    BY <1>5 DEF CasHead
  <2>2. CASE y = x \/ ~ Holding(y)
    BY <1>3, <1>5, <2>1, <2>2
  <2>3. CASE y # x /\ Holding(y)
    <3>1. lag[y] \in Nat /\ lag[y] + 1 < MAX_TagBitsValue
      BY <1>5, <2>3, TagBitsAssumption DEF CasHead, NobodyStarves, TypeOK, HeadTypeOK
    <3>2. head.counter \in Counter
      BY DEF TypeOK, HeadTypeOK, IndexedPointers
    <3>3. CounterBefore(AdvanceCounter(head), lag[y] + 1) = CounterBefore(head.counter, lag[y])
      BY <3>1, <3>2, CounterBeforeStep
    <3>4. head'.counter = AdvanceCounter(head)
      BY <1>5 DEF CasHead, SetAll
    <3>5. Holding(y)' /\ lag'[y] = lag[y] + 1 /\ lag'[y] # 0
      BY <1>3, <2>1, <2>3, <3>1
    <3>6. QED
      BY <1>2, <1>3, <2>3, <3>3, <3>4, <3>5
  <2>4. QED
    BY <2>2, <2>3
<1>6. CASE CasFails(x) /\ ~ Holding(x)'
  <2>1. CASE y = x
    BY <1>6, <2>1 DEF CasFails, TypeOK, HeadTypeOK
  <2>2. CASE y # x
    <3>1. lag'[y] = lag[y] /\ head' = head
      BY <1>6, <2>2 DEF CasFails, TypeOK, HeadTypeOK
    <3>2. QED
      BY <1>2, <1>3, <2>2, <3>1
  <2>3. QED
    BY <2>1, <2>2
<1>7. CASE UNCHANGED <<head, lag, localHead>> /\ (Holding(x)' <=> Holding(x))
  BY <1>2, <1>3, <1>7
<1>8. CASE UNCHANGED <<head, lag>> /\ ~ Holding(x) /\ ~ Holding(x)'
  BY <1>2, <1>3, <1>8
<1>9. QED
  BY <1>4, <1>5, <1>6, <1>7, <1>8

\* One case per kind of access to Head.
LEMMA NoABANext == TypeOK /\ NoABA /\ [Next]_vars => NoABA'
<1>1. SUFFICES ASSUME TypeOK, NoABA, [Next]_vars PROVE NoABA'
  OBVIOUS
<1>2. CASE UNCHANGED vars
  BY <1>1, <1>2 DEF NoABA, Holding, vars
<1>3. ASSUME NEW x \in Procs, PushCall(x) \/ PopCall(x) \/ PopAllCall(x) \/ Step(x)
      PROVE  NoABA'
  <2>1. \E label \in Points : pc' = [pc EXCEPT ![x] = label]
    BY <1>3 DEF PushCall, PopCall, PopAllCall, Call, Step, PushRead, PushLink, PushCas, PopRead,
           PopNext, PopCas, PopClear, PopAllRead, PopAllCas, Return, Goto, Points
  <2>2. localHead' = localHead \/ \E word : localHead' = [localHead EXCEPT ![x] = word]
    BY <1>3 DEF PushCall, PopCall, PopAllCall, Call, Step, PushRead, PushLink, PushCas, PopRead,
           PopNext, PopCas, PopClear, PopAllRead, PopAllCas, Return
  <2>3. /\ pc \in [Procs -> Points] /\ localHead \in [Procs -> IndexedPointers(Links \cup {0})]
        /\ \A y \in Procs \ {x} : pc'[y] = pc[y] /\ localHead'[y] = localHead[y]
    BY <1>1, <2>1, <2>2 DEF TypeOK, HeadTypeOK, ControlTypeOK
  <2>4. ~ Holding(x) => lag[x] = 0
    BY <1>1 DEF NoABA
  <2>5. CASE PushCas(x) \/ PopCas(x) \/ PopAllCas(x)
    <3>1. ~ Holding(x)'
      BY <2>3, <2>5 DEF PushCas, PopCas, PopAllCas, Return, Goto, Holding
    <3>2. (\E ptr : CasHead(x, ptr)) \/ CasFails(x)
      BY <2>5 DEF PushCas, PopCas, PopAllCas
    <3>3. QED
      BY <1>1, <2>3, <3>1, <3>2, NoABAStep
  <2>6. CASE PopNext(x)
    <3>1. UNCHANGED <<head, lag, localHead>> /\ Holding(x)' /\ Holding(x)
      BY <2>3, <2>6 DEF PopNext, Goto, Holding
    <3>2. QED
      BY <1>1, <2>3, <3>1, NoABAStep
  <2>7. CASE PopRead(x) /\ head.ptr # 0
    <3>1. UNCHANGED <<head, lag>> /\ localHead'[x] = head /\ lag[x] = 0
      BY <2>3, <2>4, <2>7 DEF PopRead, Holding
    <3>2. QED
      BY <1>1, <2>3, <3>1, NoABAStep
  <2>8. CASE \/ PushCall(x) \/ PopCall(x) \/ PopAllCall(x) \/ PushRead(x) \/ PushLink(x)
             \/ (PopRead(x) /\ head.ptr = 0) \/ PopClear(x) \/ PopAllRead(x)
    <3>1. UNCHANGED <<head, lag>>
      BY <2>8 DEF PushCall, PopCall, PopAllCall, PushRead, PushLink, PopRead, PopClear, PopAllRead
    <3>2. ~ Holding(x) /\ ~ Holding(x)'
      BY <2>3, <2>8 DEF PushCall, PopCall, PopAllCall, Call, PushRead, PushLink, PopRead, PopClear,
             PopAllRead, Return, Goto, Holding
    <3>3. QED
      BY <1>1, <2>3, <3>1, <3>2, NoABAStep
  <2>9. QED
    BY <1>3, <2>5, <2>6, <2>7, <2>8 DEF Step
<1>4. QED
  BY <1>1, <1>2, <1>3 DEF Next

-----------------------------------------------------------------------------
(* Links in hand. *)

\* A step of a thread leaves what the others hold and remember alone.
LEMMA OthersKeep ==
    ASSUME TypeOK, NEW x \in Procs, PushCall(x) \/ PopCall(x) \/ PopAllCall(x) \/ Step(x),
           NEW y \in Procs \ {x}
    PROVE  /\ pc'[y] = pc[y] /\ localHead'[y] = localHead[y] /\ item'[y] = item[y]
           /\ newNext'[y] = newNext[y] /\ held'[y] = held[y]
<1> USE DEF PushCall, PopCall, PopAllCall, Call, Step, PushRead, PushLink, PushCas, PopRead,
            PopNext, PopCas, PopClear, PopAllRead, PopAllCas, Return, Goto
<1>1. pc'[y] = pc[y]
  BY DEF TypeOK, ControlTypeOK
<1>2. localHead'[y] = localHead[y]
  BY DEF TypeOK, HeadTypeOK
<1>3. item'[y] = item[y] /\ newNext'[y] = newNext[y]
  BY DEF TypeOK, LinkTypeOK
<1>4. held'[y] = held[y]
  BY DEF TypeOK, LinkTypeOK
<1>5. QED
  BY <1>1, <1>2, <1>3, <1>4

\* A thread writes the SingleNext of links that it holds, and of no other.
LEMMA WritesItsOwn ==
    ASSUME TypeOK, ItemInHand, NEW x \in Procs,
           PushCall(x) \/ PopCall(x) \/ PopAllCall(x) \/ Step(x)
    PROVE  \A link \in Links \ held[x] : singleNext'[link] = singleNext[link]
<1>1. CASE PushLink(x)
  BY <1>1 DEF PushLink, ItemInHand, TypeOK, LinkTypeOK
<1>2. CASE PopClear(x)
  BY <1>2 DEF PopClear, ItemInHand, TypeOK, LinkTypeOK
<1>3. QED
  BY <1>1, <1>2 DEF PushCall, PopCall, PopAllCall, Step, PushRead, PushCas, PopRead,
            PopNext, PopCas, PopAllRead, PopAllCas

\* What a thread works on stays in its hand: nobody else writes to a link that it holds.
LEMMA ItemInHandNext ==
    TypeOK /\ ItemInHand /\ LinksConserved /\ [Next]_vars => ItemInHand'
<1>1. SUFFICES ASSUME TypeOK, ItemInHand, LinksConserved, [Next]_vars PROVE ItemInHand'
  OBVIOUS
<1>2. CASE UNCHANGED vars
  BY <1>1, <1>2 DEF ItemInHand, vars
<1> DEFINE OK(y) ==
      /\ pc[y] \in {"pushRead", "pushLink", "pushCas", "popClear"} => item[y] \in held[y]
      /\ pc[y] = "pushCas" => singleNext[item[y]] = localHead[y].ptr
      /\ pc[y] \in {"popNext", "popCas", "allCas"} => item[y] = localHead[y].ptr /\ item[y] # 0
<1>3. ASSUME NEW x \in Procs, PushCall(x) \/ PopCall(x) \/ PopAllCall(x) \/ Step(x),
             NEW y \in Procs
      PROVE  OK(y)'
  <2>1. OK(y) /\ OK(x)
    BY <1>1 DEF ItemInHand
  <2>2. CASE y # x
    <3>1. /\ pc'[y] = pc[y] /\ localHead'[y] = localHead[y] /\ item'[y] = item[y]
          /\ held'[y] = held[y]
      BY <1>1, <1>3, <2>2, OthersKeep
    <3>2. pc[y] = "pushCas" => singleNext'[item[y]] = singleNext[item[y]]
      <4>1. held[x] \cap held[y] = {} /\ held[y] \subseteq Links
        BY <1>1, <2>2 DEF LinksConserved, TypeOK, LinkTypeOK
      <4>2. QED
        BY <1>1, <1>3, <2>1, <4>1, WritesItsOwn
    <3>3. QED
      BY <2>1, <3>1, <3>2
  <2>3. CASE y = x
    <3> USE <1>1, <2>1, <2>3 DEF TypeOK, HeadTypeOK, LinkTypeOK, ControlTypeOK, Points
    <3>1. CASE PushCall(x)
      BY <3>1 DEF PushCall, Call, Goto
    <3>2. CASE PopCall(x) \/ PopAllCall(x)
      BY <3>2 DEF PopCall, PopAllCall, Call, Goto
    <3>3. CASE PushRead(x)
      BY <3>3 DEF PushRead, Goto
    <3>4. CASE PushLink(x)
      BY <3>4 DEF PushLink, Goto
    <3>5. CASE PushCas(x)
      BY <3>5 DEF PushCas, Return, Goto
    <3>6. CASE PopRead(x) \/ PopAllRead(x)
      BY <3>6 DEF PopRead, PopAllRead, Return, Goto
    <3>7. CASE PopNext(x)
      BY <3>7 DEF PopNext, Goto
    <3>8. CASE PopCas(x)
      BY <3>8 DEF PopCas, Goto
    <3>9. CASE PopClear(x)
      BY <3>9 DEF PopClear, Return, Goto
    <3>10. CASE PopAllCas(x)
      BY <3>10 DEF PopAllCas, Return, Goto
    <3>11. QED
      BY <1>3, <3>1, <3>2, <3>3, <3>4, <3>5, <3>6, <3>7, <3>8, <3>9, <3>10 DEF Step
  <2>4. QED
    BY <2>2, <2>3
<1>4. QED
  BY <1>1, <1>2, <1>3 DEF Next, ItemInHand

\* The first link of the list is nobody's.
LEMMA HeadIsListed ==
    ASSUME ListEnds, LinksConserved, head.ptr # 0
    PROVE  /\ head.ptr \in Links
           /\ \A x \in Procs : head.ptr \notin held[x]
<1>1. PICK s \in Seq(Links) : LinkedFrom(singleNext, head.ptr, s)
  BY DEF ListEnds
<1>2. Chain(head.ptr) = s
  BY <1>1, ChainIs DEF Chain
<1>3. head.ptr \in ToSet(s)
  BY <1>1, ChainPopped
<1>4. ToSet(s) \subseteq Links
  BY DEF ToSet
<1>5. QED
  BY <1>2, <1>3, <1>4 DEF LinksConserved

\* While Head stays the same its link is listed, and nobody writes to a listed link.
LEMMA NextIsCurrentNext == Inv /\ [Next]_vars => NextIsCurrent'
<1>1. SUFFICES ASSUME Inv, [Next]_vars PROVE NextIsCurrent'
  OBVIOUS
<1>2. CASE UNCHANGED vars
  BY <1>1, <1>2 DEF Inv, NextIsCurrent, vars
<1>3. ASSUME NEW x \in Procs, PushCall(x) \/ PopCall(x) \/ PopAllCall(x) \/ Step(x),
             NEW y \in Procs, pc'[y] = "popCas", lag'[y] = 0
      PROVE  newNext'[y] = singleNext'[item'[y]]
  <2>1. CASE y # x
    <3>1. pc[y] = "popCas" /\ newNext'[y] = newNext[y] /\ item'[y] = item[y]
      BY <1>1, <1>3, <2>1, OthersKeep DEF Inv
    <3>2. Holding(y) /\ item[y] = localHead[y].ptr /\ item[y] # 0
      BY <1>1, <3>1 DEF Holding, Inv, ItemInHand
    <3>3. lag[y] = 0
      <4>1. lag[y] \in Nat
        BY <1>1, TagBitsAssumption DEF Inv, TypeOK, HeadTypeOK
      <4>2. lag'[y] = lag[y] + 1 \/ lag'[y] = lag[y]
        <5>1. CASE UNCHANGED lag
          BY <5>1
        <5>2. CASE \E ptr : CasHead(x, ptr)
          BY <2>1, <3>2, <5>2 DEF CasHead
        <5>3. CASE CasFails(x)
          BY <1>1, <2>1, <5>3 DEF CasFails, Inv, TypeOK, HeadTypeOK
        <5>4. QED
          BY <1>3, <5>1, <5>2, <5>3 DEF PushCall, PopCall, PopAllCall, Step, PushRead, PushLink,
             PushCas, PopRead, PopNext, PopCas, PopClear, PopAllRead, PopAllCas
      <4>3. QED
        BY <1>3, <4>1, <4>2
    <3>4. head.ptr = item[y] /\ newNext[y] = singleNext[item[y]]
      BY <1>1, <3>1, <3>2, <3>3 DEF Inv, NoABA, NextIsCurrent
    <3>5. singleNext'[item[y]] = singleNext[item[y]]
      BY <1>1, <1>3, <3>2, <3>4, HeadIsListed, WritesItsOwn DEF Inv
    <3>6. QED
      BY <3>1, <3>4, <3>5
  <2>2. CASE y = x
    <3>1. PopNext(x)
      BY <1>1, <1>3, <2>2 DEF Inv, TypeOK, ControlTypeOK, PushCall, PopCall, PopAllCall, Call, Step,
         PushRead, PushLink, PushCas, PopRead, PopNext, PopCas, PopClear, PopAllRead, PopAllCas,
         Return, Goto
    <3>2. QED
      BY <1>1, <2>2, <3>1 DEF PopNext, Inv, TypeOK, LinkTypeOK
  <2>3. QED
    BY <2>1, <2>2
<1>4. QED
  BY <1>1, <1>2, <1>3 DEF Next, NextIsCurrent

-----------------------------------------------------------------------------
(* The list is an atomic stack. *)

\* The list moves as a stack does, together with what its threads hold: t is what
\* becomes of s.
StackMove(s, t) ==
    \/ t = s /\ held' = held
    \/ \E x \in Procs :
         \/ \E link \in held[x] : /\ t = <<link>> \o s
                                  /\ held' = [held EXCEPT ![x] = @ \ {link}]
         \/ /\ s # <<>> /\ t = Tail(s)
            /\ held' = [held EXCEPT ![x] = @ \cup {Head(s)}]
         \/ /\ s # <<>> /\ t = <<>>
            /\ held' = [held EXCEPT ![x] = @ \cup ToSet(s)]

\* Every step of the code moves the list as a stack moves, or not at all.
LEMMA ListStep ==
    ASSUME Inv, [Next]_vars, NEW s \in Seq(Links), LinkedFrom(singleNext, head.ptr, s)
    PROVE  \E t \in Seq(Links) : /\ LinkedFrom(singleNext', head'.ptr, t)
                                 /\ StackMove(s, t)
<1>1. Chain(head.ptr) = s
  BY ChainIs DEF Chain
<1>2. UNCHANGED vars \/ \E x \in Procs : PushCall(x) \/ PopCall(x) \/ PopAllCall(x) \/ Step(x)
  BY DEF Next
<1>3. CASE UNCHANGED vars
  BY <1>3 DEF StackMove, vars
<1>4. ASSUME NEW x \in Procs, PushCall(x) \/ PopCall(x) \/ PopAllCall(x) \/ Step(x)
      PROVE  \E t \in Seq(Links) : LinkedFrom(singleNext', head'.ptr, t) /\ StackMove(s, t)
  <2>1. CASE head' = head /\ held' = held
    <3>1. \A link \in ToSet(s) : link \in Links \ held[x]
      BY <1>1 DEF Inv, LinksConserved, ToSet
    <3>2. LinkedFrom(singleNext', head.ptr, s)
      BY <1>4, <3>1, WritesItsOwn, ChainUnchanged DEF Inv
    <3>3. QED
      BY <2>1, <3>2 DEF StackMove
  <2>2. CASE PushCas(x) /\ CasHead(x, item[x]) /\ held' = [held EXCEPT ![x] = @ \ {item[x]}]
    <3>1. item[x] \in held[x] /\ singleNext[item[x]] = head.ptr /\ item[x] \in Links
      BY <2>2 DEF PushCas, CasHead, Inv, ItemInHand, TypeOK, LinkTypeOK
    <3>2. item[x] \notin ToSet(s)
      BY <1>1, <3>1 DEF Inv, LinksConserved
    <3>3. LinkedFrom(singleNext, item[x], <<item[x]>> \o s)
      BY <3>1, <3>2, ChainPushed
    <3>4. singleNext' = singleNext /\ head'.ptr = item[x]
      BY <2>2 DEF PushCas, CasHead, SetAll
    <3>5. <<item[x]>> \o s \in Seq(Links)
      BY <3>1
    <3>6. StackMove(s, <<item[x]>> \o s)
      BY <2>2, <3>1 DEF StackMove
    <3>7. QED
      BY <3>3, <3>4, <3>5, <3>6
  <2>3. CASE PopCas(x) /\ CasHead(x, newNext[x]) /\ held' = [held EXCEPT ![x] = @ \cup {item[x]}]
    <3>1. lag[x] = 0
      BY <2>3, CasOnlyIfCurrent DEF PopCas, CasHead, Holding, Inv
    <3>2. item[x] = head.ptr /\ item[x] # 0 /\ newNext[x] = singleNext[head.ptr]
      BY <2>3, <3>1 DEF PopCas, CasHead, Inv, ItemInHand, NextIsCurrent
    <3>3. /\ s # <<>> /\ Head(s) = head.ptr /\ Tail(s) \in Seq(Links)
          /\ LinkedFrom(singleNext, newNext[x], Tail(s))
      BY <3>2, ChainPopped
    <3>4. singleNext' = singleNext /\ head'.ptr = newNext[x]
      BY <2>3 DEF PopCas, CasHead, SetAll
    <3>5. StackMove(s, Tail(s))
      BY <2>3, <3>2, <3>3 DEF StackMove
    <3>6. QED
      BY <3>3, <3>4, <3>5
  <2>4. CASE /\ PopAllCas(x) /\ CasHead(x, 0)
             /\ held' = [held EXCEPT ![x] = @ \cup ToSet(Chain(item[x]))]
    <3>1. item[x] = head.ptr /\ item[x] # 0
      BY <2>4 DEF PopAllCas, CasHead, Inv, ItemInHand
    <3>2. s # <<>>
      BY <3>1 DEF LinkedFrom
    <3>3. LinkedFrom(singleNext', 0, <<>>)
      BY DEF LinkedFrom, IsInjective
    <3>4. head'.ptr = 0 /\ <<>> \in Seq(Links)
      BY <2>4 DEF CasHead, SetAll
    <3>5. StackMove(s, <<>>)
      BY <1>1, <2>4, <3>1, <3>2 DEF StackMove
    <3>6. QED
      BY <3>3, <3>4, <3>5
  <2>5. QED
    BY <1>4, <2>1, <2>2, <2>3, <2>4 DEF PushCall, PopCall, PopAllCall, Step, PushRead, PushLink,
       PushCas, PopRead, PopNext, PopCas, PopClear, PopAllRead, PopAllCas, CasFails
<1>5. QED
  BY <1>2, <1>3, <1>4

\* The links are shared out between a list and the threads.
Shared(s, h) ==
    /\ Links = ToSet(s) \cup UNION {h[x] : x \in Procs}
    /\ \A x \in Procs : h[x] \cap ToSet(s) = {}
    /\ \A x, y \in Procs : x # y => h[x] \cap h[y] = {}

\* Links that a thread puts on the list are shared out as before ...
LEMMA SharedPut ==
    ASSUME NEW s, NEW t, NEW h \in [Procs -> SUBSET Links], Shared(s, h),
           NEW x \in Procs, NEW moved \in SUBSET h[x], ToSet(t) = ToSet(s) \cup moved
    PROVE  Shared(t, [h EXCEPT ![x] = @ \ moved])
<1> DEFINE g == [h EXCEPT ![x] = @ \ moved]
<1>1. g[x] = h[x] \ moved /\ \A y \in Procs \ {x} : g[y] = h[y]
  OBVIOUS
<1>2. \A y \in Procs : g[y] \subseteq h[y]
  BY <1>1
<1>3. Links = ToSet(t) \cup UNION {g[y] : y \in Procs}
  <2>1. ASSUME NEW link \in Links PROVE link \in ToSet(t) \cup UNION {g[y] : y \in Procs}
    <3>1. link \in ToSet(s) \/ \E y \in Procs : link \in h[y]
      BY DEF Shared
    <3>2. QED
      BY <1>1, <3>1
  <2>2. ToSet(t) \subseteq Links
    BY DEF Shared
  <2>3. QED
    BY <1>2, <2>1, <2>2
<1>4. \A y \in Procs : g[y] \cap ToSet(t) = {}
  <2>1. SUFFICES ASSUME NEW y \in Procs PROVE g[y] \cap ToSet(t) = {}
    OBVIOUS
  <2>2. h[y] \cap ToSet(s) = {} /\ (y # x => h[y] \cap h[x] = {})
    BY DEF Shared
  <2>3. QED
    BY <1>1, <2>2
<1>5. \A y, z \in Procs : y # z => g[y] \cap g[z] = {}
  BY <1>2 DEF Shared
<1>6. QED
  BY <1>3, <1>4, <1>5 DEF Shared

\* ... and so are those that a thread takes from it.
LEMMA SharedTaken ==
    ASSUME NEW s, NEW t, NEW h \in [Procs -> SUBSET Links], Shared(s, h),
           NEW x \in Procs, NEW moved \in SUBSET ToSet(s), ToSet(t) = ToSet(s) \ moved
    PROVE  Shared(t, [h EXCEPT ![x] = @ \cup moved])
<1> DEFINE g == [h EXCEPT ![x] = @ \cup moved]
<1>1. g[x] = h[x] \cup moved /\ \A y \in Procs \ {x} : g[y] = h[y]
  OBVIOUS
<1>2. \A y \in Procs : h[y] \cap ToSet(s) = {} /\ h[y] \subseteq Links
  BY DEF Shared
<1>3. Links = ToSet(t) \cup UNION {g[y] : y \in Procs}
  <2>1. ASSUME NEW link \in Links PROVE link \in ToSet(t) \cup UNION {g[y] : y \in Procs}
    <3>1. link \in ToSet(s) \/ \E y \in Procs : link \in h[y]
      BY DEF Shared
    <3>2. QED
      BY <1>1, <3>1
  <2>2. ToSet(s) \subseteq Links
    BY DEF Shared
  <2>3. \A y \in Procs : g[y] \subseteq Links
    BY <1>1, <1>2, <2>2
  <2>4. QED
    BY <2>1, <2>2, <2>3
<1>4. \A y \in Procs : g[y] \cap ToSet(t) = {}
  BY <1>1, <1>2
<1>5. \A y, z \in Procs : y # z => g[y] \cap g[z] = {}
  <2>1. ASSUME NEW y \in Procs, NEW z \in Procs, y # z PROVE g[y] \cap g[z] = {}
    <3>1. h[y] \cap h[z] = {} /\ h[y] \cap moved = {} /\ h[z] \cap moved = {}
      BY <1>2, <2>1, Zenon DEF Shared
    <3>2. (y = x \/ g[y] = h[y]) /\ (z = x \/ g[z] = h[z])
      BY <1>1
    <3>3. QED
      BY <1>1, <2>1, <3>1, <3>2
  <2>2. QED
    BY <2>1
<1>6. QED
  BY <1>3, <1>4, <1>5 DEF Shared

\* A move of the stack leaves every link in one place.
LEMMA LinksConservedNext == Inv /\ [Next]_vars => ListEnds' /\ LinksConserved'
<1>1. SUFFICES ASSUME Inv, [Next]_vars PROVE ListEnds' /\ LinksConserved'
  OBVIOUS
<1>2. PICK s \in Seq(Links) : LinkedFrom(singleNext, head.ptr, s)
  BY <1>1 DEF Inv, ListEnds
<1>3. PICK t \in Seq(Links) : LinkedFrom(singleNext', head'.ptr, t) /\ StackMove(s, t)
  BY <1>1, <1>2, ListStep
<1>4. Chain(head.ptr) = s /\ Chain(head.ptr)' = t
  BY <1>2, <1>3, ChainIs DEF Chain
<1>5. Shared(s, held) /\ held \in [Procs -> SUBSET Links]
  BY <1>1, <1>4 DEF Inv, LinksConserved, Shared, TypeOK, LinkTypeOK
<1>6. Shared(t, held')
  <2>1. CASE t = s /\ held' = held
    BY <1>5, <2>1
  <2>2. ASSUME NEW x \in Procs, NEW link \in held[x], t = <<link>> \o s,
               held' = [held EXCEPT ![x] = @ \ {link}]
        PROVE  Shared(t, held')
    <3>1. link \in Links
      BY <1>5
    <3>2. ToSet(t) = ToSet(s) \cup {link}
      <4>1. Len(t) = Len(s) + 1 /\ t[1] = link /\ \A k \in 1 .. Len(s) : t[k + 1] = s[k]
        BY <2>2, <3>1
      <4>2. DOMAIN t = 1 .. Len(s) + 1 /\ DOMAIN s = 1 .. Len(s) /\ Len(s) \in Nat
        BY <4>1
      <4>3. \A k \in DOMAIN t : t[k] = link \/ (k - 1 \in DOMAIN s /\ t[k] = s[k - 1])
        BY <4>1, <4>2
      <4>4. \A k \in DOMAIN s : k + 1 \in DOMAIN t /\ t[k + 1] = s[k]
        BY <4>1, <4>2
      <4>5. 1 \in DOMAIN t
        BY <4>2
      <4>6. QED
        BY <4>1, <4>3, <4>4, <4>5 DEF ToSet
    <3>3. QED
      BY <1>5, <2>2, <3>2, SharedPut
  <2>3. ASSUME NEW x \in Procs, s # <<>>, t = Tail(s),
               held' = [held EXCEPT ![x] = @ \cup {Head(s)}]
        PROVE  Shared(t, held')
    <3>1. head.ptr # 0
      BY <1>2, <2>3, NullIsNoLink DEF LinkedFrom
    <3>2. /\ Head(s) \notin ToSet(t) /\ ToSet(s) = {Head(s)} \cup ToSet(t)
      BY <1>2, <2>3, <3>1, ChainPopped
    <3>3. ToSet(t) = ToSet(s) \ {Head(s)} /\ {Head(s)} \in SUBSET ToSet(s)
      BY <3>2
    <3>4. QED
      BY <1>5, <2>3, <3>3, SharedTaken
  <2>4. ASSUME NEW x \in Procs, t = <<>>, held' = [held EXCEPT ![x] = @ \cup ToSet(s)]
        PROVE  Shared(t, held')
    <3>1. ToSet(t) = ToSet(s) \ ToSet(s)
      BY <2>4 DEF ToSet
    <3>2. QED
      BY <1>5, <2>4, <3>1, SharedTaken
  <2>5. QED
    BY <1>3, <2>1, <2>2, <2>3, <2>4 DEF StackMove
<1>7. LinksConserved'
  BY <1>4, <1>6 DEF LinksConserved, Shared
<1>8. QED
  BY <1>3, <1>7 DEF ListEnds

\* A reset list is empty.
LEMMA InitList == Init => LinkedFrom(singleNext, head.ptr, <<>>) /\ Chain(head.ptr) = <<>>
<1>1. SUFFICES ASSUME Init PROVE LinkedFrom(singleNext, head.ptr, <<>>) /\ Chain(head.ptr) = <<>>
  OBVIOUS
<1>2. head.ptr = 0
  BY <1>1 DEF Init, SetAll
<1>3. LinkedFrom(singleNext, head.ptr, <<>>) /\ <<>> \in Seq(Links)
  BY <1>2 DEF LinkedFrom, IsInjective
<1>4. QED
  BY <1>3, ChainIs DEF Chain

\* The invariant holds of a reset list, however the links are shared out.
LEMMA InitInv == Init => Inv
<1>1. SUFFICES ASSUME Init PROVE Inv
  OBVIOUS
<1>2. TypeOK
  BY <1>1, InitTypeOK
<1>3. \A x \in Procs : pc[x] = "idle" /\ lag[x] = 0
  BY <1>1 DEF Init
<1>4. NoABA /\ ItemInHand /\ NextIsCurrent
  BY <1>3 DEF NoABA, ItemInHand, NextIsCurrent, Holding
<1>5. ListEnds
  <2>1. <<>> \in Seq(Links)
    OBVIOUS
  <2>2. QED
    BY <1>1, <2>1, InitList DEF ListEnds
<1>6. LinksConserved
  <2>1. PICK owner \in [Links -> Procs] :
            held = [x \in Procs |-> {link \in Links : owner[link] = x}]
    BY <1>1 DEF Init
  <2>2. ToSet(Chain(head.ptr)) = {}
    BY <1>1, InitList DEF ToSet
  <2>3. QED
    BY <2>1, <2>2 DEF LinksConserved
<1>7. QED
  BY <1>2, <1>4, <1>5, <1>6 DEF Inv

\* The invariant of all reachable states.
LEMMA Invariance == Spec => []Inv
<1>1. Inv /\ [Next]_vars => Inv'
  BY TypeOKNext, NoABANext, ItemInHandNext, NextIsCurrentNext, LinksConservedNext DEF Inv
<1>2. QED
  BY InitInv, <1>1, PTL DEF Spec

\* Every link is in exactly one place, on the list or with one thread, although Pop
\* reads SingleNext of links that may be somebody else's.
THEOREM ListConservesLinks == Spec => []LinksConserved
<1>1. Inv => LinksConserved
  BY DEF Inv
<1>2. QED
  BY Invariance, <1>1, PTL

\* Push, Pop and PopAll, step by step and interleaved in any way, are the atomic
\* operations of a stack.
THEOREM ListIsLIFO == Spec => ImplementsLIFO
<1>1. Init => Abstract!Init
  <2>1. SUFFICES ASSUME Init PROVE Abstract!Init
    OBVIOUS
  <2>2. LinksConserved
    BY <2>1, InitInv DEF Inv
  <2>3. QED
    BY <2>1, <2>2, InitList DEF Abstract!Init, LinksConserved
<1>2. Inv /\ [Next]_vars => [Abstract!Next]_Abstract!vars
  <2>1. SUFFICES ASSUME Inv, [Next]_vars PROVE [Abstract!Next]_Abstract!vars
    OBVIOUS
  <2>2. PICK s \in Seq(Links) : LinkedFrom(singleNext, head.ptr, s)
    BY <2>1 DEF Inv, ListEnds
  <2>3. PICK t \in Seq(Links) : LinkedFrom(singleNext', head'.ptr, t) /\ StackMove(s, t)
    BY <2>1, <2>2, ListStep
  <2>4. Chain(head.ptr) = s /\ Chain(head.ptr)' = t
    BY <2>2, <2>3, ChainIs DEF Chain
  <2>5. CASE t = s /\ held' = held
    BY <2>4, <2>5 DEF Abstract!vars
  <2>6. ASSUME NEW x \in Procs, NEW link \in held[x], t = <<link>> \o s,
               held' = [held EXCEPT ![x] = @ \ {link}]
        PROVE  Abstract!Push(x)
    BY <2>4, <2>6 DEF Abstract!Push
  <2>7. ASSUME NEW x \in Procs, s # <<>>, t = Tail(s),
               held' = [held EXCEPT ![x] = @ \cup {Head(s)}]
        PROVE  Abstract!Pop(x)
    BY <2>4, <2>7 DEF Abstract!Pop
  <2>8. ASSUME NEW x \in Procs, s # <<>>, t = <<>>,
               held' = [held EXCEPT ![x] = @ \cup ToSet(s)]
        PROVE  Abstract!PopAll(x)
    BY <2>4, <2>8 DEF Abstract!PopAll, Abstract!ToSet, ToSet
  <2>9. QED
    BY <2>3, <2>5, <2>6, <2>7, <2>8 DEF StackMove, Abstract!Next
<1>3. QED
  BY Invariance, <1>1, <1>2, PTL DEF Spec, ImplementsLIFO, Abstract!Spec
=============================================================================
