---------------------------- MODULE LinkAllocator ----------------------------
(***************************************************************************)
(* The allocator of lock-free links (UE/LockFreeList.cpp and the allocate- *)
(* once allocator of UE/LockFreeList.h).  Each thread caches two bundles   *)
(* of free links in TLS; a full bundle too many goes to a list shared by   *)
(* all threads, and new links are cut from pages that are never returned.  *)
(* A bundle is a chain of links through their Payload field.               *)
(*                                                                         *)
(* The program allocates a link on the thread that pushes and frees one on *)
(* the thread that pops, so any thread may free any link that is in use.   *)
(* The shared list of bundles is atomic here (see LockFreeLIFO).           *)
(***************************************************************************)
EXTENDS Integers, Sequences, FiniteSets

CONSTANTS Procs,            \* threads
          NUM_PER_BUNDLE,   \* 64 in the code
          ItemsPerPage,     \* 16384 in the code
          MaxTotalItems     \* 2^26 in the code; the model stops there

Links == 1 .. MaxTotalItems - 1

MaxBlocks == (MaxTotalItems + ItemsPerPage - 1) \div ItemsPerPage

\* The page of a link.
Block(link) == link \div ItemsPerPage

\* What the user of a link stores in its Payload.
UserData == MaxTotalItems

\* The block of memory that a thread allocates for a page, "none" before.
NoBlock == "none"

ASSUME AllocatorAssumption ==
    /\ NUM_PER_BUNDLE \in Nat \ {0} /\ ItemsPerPage \in Nat \ {0}
    /\ MaxTotalItems \in Nat \ {0}
    /\ NoBlock \notin Procs

VARIABLES
    cache,        \* FThreadLocalCache of each thread
    globalList,   \* GlobalFreeListBundles: first links, top of the list first
    payload,      \* Payload of each link
    singleNext,   \* SingleNext of each link
    doubleNext,   \* is the index in DoubleNext of each link non-zero?
    nextIndex,    \* NextIndex
    pages,        \* Pages: whose block each page is
    constructed,  \* the block that each link was constructed in (history)
    pc,           \* where each thread is in Pop
    first,        \* FirstIndex of a thread that cuts a new bundle
    current,      \* CurrentItem of Alloc, then the link that Pop returns
    used          \* links in use by a queue

vars == <<cache, globalList, payload, singleNext, doubleNext, nextIndex, pages,
          constructed, pc, first, current, used>>

Counter == INSTANCE ThreadSafeCounter

NewLinks(x) == first[x] .. first[x] + NUM_PER_BUNDLE - 1

\* GetItem, which DerefLink and IndexToLink call: the block that a link is looked
\* for in.
GetItem(link) == pages[Block(link)]

-----------------------------------------------------------------------------
(* AllocLockFreeLink: LockFreeLinkAllocator_TLSCache::Pop. *)

\* The end of Pop: the first link of PartialBundle is handed out to its user, where
\* the bundle was found in "tls" and links are chained as "next" says.
HandOut(x, tls, next) ==
    LET result == tls.partial IN
    /\ cache' = [cache EXCEPT ![x] = [tls EXCEPT !.partial = next[result], !.num = @ - 1]]
    /\ payload' = [next EXCEPT ![result] = 0]
    /\ current' = [current EXCEPT ![x] = result]
    /\ pc' = [pc EXCEPT ![x] = "use"]

\* Mutant of PopCached: FullBundle keeps the bundle that became PartialBundle.
PopCachedKeepsFull(x) ==
    /\ pc[x] = "idle"
    /\ \/ cache[x].partial # 0 /\ HandOut(x, cache[x], payload)
       \/ /\ cache[x].partial = 0 /\ cache[x].full # 0
          /\ HandOut(x, [full |-> cache[x].full, partial |-> cache[x].full,
                         num |-> NUM_PER_BUNDLE], payload)
    /\ UNCHANGED <<globalList, singleNext, doubleNext, nextIndex, pages, constructed,
                   first, used>>

\* PartialBundle has a link, or FullBundle becomes PartialBundle.
PopCached(x) ==
    /\ pc[x] = "idle"
    /\ \/ cache[x].partial # 0 /\ HandOut(x, cache[x], payload)
       \/ /\ cache[x].partial = 0 /\ cache[x].full # 0
          /\ HandOut(x, [full |-> 0, partial |-> cache[x].full, num |-> NUM_PER_BUNDLE], payload)
    /\ UNCHANGED <<globalList, singleNext, doubleNext, nextIndex, pages, constructed,
                   first, used>>

\* Mutant of PopGlobal: SingleNext of the bundle taken from the list stays.
PopGlobalKeepsNext(x) ==
    /\ pc[x] = "idle"
    /\ cache[x].partial = 0 /\ cache[x].full = 0
    /\ IF globalList = <<>>
       THEN /\ pc' = [pc EXCEPT ![x] = "reserve"]
            /\ UNCHANGED <<cache, globalList, payload, current>>
       ELSE /\ globalList' = Tail(globalList)
            /\ HandOut(x, [full |-> 0, partial |-> Head(globalList), num |-> NUM_PER_BUNDLE],
                       payload)
    /\ UNCHANGED <<singleNext, doubleNext, nextIndex, pages, constructed, first, used>>

\* Both bundles are used up: the shared list gives one, if it has one.
PopGlobal(x) ==
    /\ pc[x] = "idle"
    /\ cache[x].partial = 0 /\ cache[x].full = 0
    /\ IF globalList = <<>>
       THEN /\ pc' = [pc EXCEPT ![x] = "reserve"]
            /\ UNCHANGED <<cache, globalList, payload, singleNext, current>>
       ELSE /\ globalList' = Tail(globalList)
            /\ singleNext' = [singleNext EXCEPT ![Head(globalList)] = 0]
            /\ HandOut(x, [full |-> 0, partial |-> Head(globalList), num |-> NUM_PER_BUNDLE],
                       payload)
    /\ UNCHANGED <<doubleNext, nextIndex, pages, constructed, first, used>>

\* NextIndex.Add(Count) in TLockFreeAllocOnceIndexedAllocator::Alloc.  Beyond
\* MaxTotalItems the code calls an empty hook and goes on; the model stops.
Reserve(x) ==
    /\ pc[x] = "reserve"
    /\ nextIndex + NUM_PER_BUNDLE <= MaxTotalItems
    /\ LET FirstItem == Counter!Add(nextIndex, NUM_PER_BUNDLE)
       IN  /\ first' = [first EXCEPT ![x] = FirstItem.returned]
           /\ current' = [current EXCEPT ![x] = FirstItem.returned]
           /\ nextIndex' = FirstItem.Counter
    /\ pc' = [pc EXCEPT ![x] = "testPage"]
    /\ UNCHANGED <<cache, globalList, payload, singleNext, doubleNext, pages,
                   constructed, used>>

\* GetRawItem: is there a page for CurrentItem?
TestPage(x) ==
    /\ pc[x] = "testPage"
    /\ pc' = [pc EXCEPT ![x] =
                IF GetItem(current[x]) = NoBlock THEN "installPage" ELSE "construct"]
    /\ UNCHANGED <<cache, globalList, payload, singleNext, doubleNext, nextIndex,
                   pages, constructed, first, current, used>>

\* Mutant of InstallPage: a plain store instead of the compare-and-swap.
InstallPageStore(x) ==
    /\ pc[x] = "installPage"
    /\ pages' = [pages EXCEPT ![Block(current[x])] = x]
    /\ pc' = [pc EXCEPT ![x] = "construct"]
    /\ UNCHANGED <<cache, globalList, payload, singleNext, doubleNext, nextIndex,
                   constructed, first, current, used>>

\* A new block becomes the page, unless another thread's has: then it is discarded.
InstallPage(x) ==
    /\ pc[x] = "installPage"
    /\ pages' = [pages EXCEPT ![Block(current[x])] = IF @ = NoBlock THEN x ELSE @]
    /\ pc' = [pc EXCEPT ![x] = "construct"]
    /\ UNCHANGED <<cache, globalList, payload, singleNext, doubleNext, nextIndex,
                   constructed, first, current, used>>

\* Placement new of the link, in the page that Pages holds now.
Construct(x) ==
    /\ pc[x] = "construct"
    /\ constructed' = [constructed EXCEPT ![current[x]] = GetItem(current[x])]
    /\ current' = [current EXCEPT ![x] = @ + 1]
    /\ pc' = [pc EXCEPT ![x] = IF current'[x] \in NewLinks(x) THEN "testPage" ELSE "chain"]
    /\ UNCHANGED <<cache, globalList, payload, singleNext, doubleNext, nextIndex,
                   pages, first, used>>

\* The new links are initialised and chained, each to the one before it, and the
\* last of them is handed out.
ChainNewLinks(x) ==
    /\ pc[x] = "chain"
    /\ doubleNext' = [l \in Links |-> IF l \in NewLinks(x) THEN FALSE ELSE doubleNext[l]]
    /\ singleNext' = [l \in Links |-> IF l \in NewLinks(x) THEN 0 ELSE singleNext[l]]
    /\ HandOut(x, [full |-> 0, partial |-> first[x] + NUM_PER_BUNDLE - 1, num |-> NUM_PER_BUNDLE],
               [l \in Links |-> IF l = first[x] THEN 0
                                ELSE IF l \in NewLinks(x) THEN l - 1 ELSE payload[l]])
    /\ first' = [first EXCEPT ![x] = 0]
    /\ UNCHANGED <<globalList, nextIndex, pages, constructed, used>>

-----------------------------------------------------------------------------
(* The user of a link, and FreeLockFreeLink. *)

\* FLockFreePointerFIFOBase::Push stores a payload in the link it was given and
\* links it into its queue, where a later Push sets its DoubleNext.
Use(x) ==
    /\ pc[x] = "use"
    /\ payload' = [payload EXCEPT ![current[x]] = UserData]
    /\ doubleNext' = [doubleNext EXCEPT ![current[x]] = TRUE]
    /\ used' = used \cup {current[x]}
    /\ current' = [current EXCEPT ![x] = 0]
    /\ pc' = [pc EXCEPT ![x] = "idle"]
    /\ UNCHANGED <<cache, globalList, singleNext, nextIndex, pages, constructed, first>>

\* Mutant of Free: the bundles shift one link too early.
FreeShiftsEarly(x, link) ==
    /\ pc[x] = "idle" /\ link \in used
    /\ LET tls   == cache[x]
           shift == tls.num >= NUM_PER_BUNDLE - 1 /\ tls.partial # 0
           to    == IF shift THEN [full |-> tls.partial, partial |-> 0, num |-> 0] ELSE tls
       IN  /\ globalList' = IF shift /\ tls.full # 0 THEN <<tls.full>> \o globalList
                            ELSE globalList
           /\ payload' = [payload EXCEPT ![link] = to.partial]
           /\ cache' = [cache EXCEPT ![x] = [to EXCEPT !.partial = link, !.num = @ + 1]]
    /\ doubleNext' = [doubleNext EXCEPT ![link] = FALSE]
    /\ used' = used \ {link}
    /\ UNCHANGED <<singleNext, nextIndex, pages, constructed, pc, first, current>>

\* LockFreeLinkAllocator_TLSCache::Push: with a full PartialBundle the bundles
\* shift, FullBundle to the shared list and PartialBundle to FullBundle.
Free(x, link) ==
    /\ pc[x] = "idle" /\ link \in used
    /\ LET tls   == cache[x]
           shift == tls.num >= NUM_PER_BUNDLE
           spill == shift /\ tls.full # 0
           to    == IF shift THEN [full |-> tls.partial, partial |-> 0, num |-> 0] ELSE tls
       IN  /\ globalList' = IF spill THEN <<tls.full>> \o globalList ELSE globalList
           /\ singleNext' = [l \in Links |->
                IF l = link THEN 0
                ELSE IF spill /\ l = tls.full
                     THEN IF globalList = <<>> THEN 0 ELSE Head(globalList)
                     ELSE singleNext[l]]
           /\ payload' = [payload EXCEPT ![link] = to.partial]
           /\ cache' = [cache EXCEPT ![x] = [to EXCEPT !.partial = link, !.num = @ + 1]]
    /\ doubleNext' = [doubleNext EXCEPT ![link] = FALSE]
    /\ used' = used \ {link}
    /\ UNCHANGED <<nextIndex, pages, constructed, pc, first, current>>

-----------------------------------------------------------------------------

\* The cache of a thread, which GetTLS constructs when the thread first asks.
FThreadLocalCache == [full |-> 0, partial |-> 0, num |-> 0]

\* The constructor of the allocate-once allocator: index 0 is the null link.
AllocateOnce ==
    /\ nextIndex = Counter!Increment(Counter!Zero).Counter
    /\ pages = [b \in 0 .. MaxBlocks - 1 |-> NoBlock]

Init ==
    /\ cache = [x \in Procs |-> FThreadLocalCache]
    /\ globalList = <<>>
    /\ payload = [l \in Links |-> 0]
    /\ singleNext = [l \in Links |-> 0]
    /\ doubleNext = [l \in Links |-> FALSE]
    /\ AllocateOnce
    /\ constructed = [l \in Links |-> NoBlock]
    /\ pc = [x \in Procs |-> "idle"]
    /\ first = [x \in Procs |-> 0]
    /\ current = [x \in Procs |-> 0]
    /\ used = {}

Step(x) ==
    \/ PopCached(x) \/ PopGlobal(x) \/ Reserve(x) \/ TestPage(x) \/ InstallPage(x)
    \/ Construct(x) \/ ChainNewLinks(x) \/ Use(x)
    \/ \E link \in used : Free(x, link)

Next == \E x \in Procs : Step(x)

Spec == Init /\ [][Next]_vars

-----------------------------------------------------------------------------
(* Properties. *)

\* The links from one link on, along Payload, where "next" is the Payload of each:
\* those of a bundle, and one link more if the bundle is too long.
BundleFrom(next, from) ==
    LET after[n \in 0 .. NUM_PER_BUNDLE] ==
            IF n = 0 THEN from ELSE IF after[n - 1] \in Links THEN next[after[n - 1]] ELSE 0
    IN  {after[n] : n \in 0 .. NUM_PER_BUNDLE} \cap Links

Bundle(from) == BundleFrom(payload, from)

\* Bundles move between threads without their length: a bundle that is called
\* full has NUM_PER_BUNDLE links, and NumPartial counts the links of
\* PartialBundle, so that a bundle from the shared list may be taken for full.
BundlesAreFull ==
    /\ \A x \in Procs :
         /\ cache[x].num = Cardinality(Bundle(cache[x].partial))
         /\ cache[x].full # 0 => Cardinality(Bundle(cache[x].full)) = NUM_PER_BUNDLE
    /\ \A i \in DOMAIN globalList : Cardinality(Bundle(globalList[i])) = NUM_PER_BUNDLE

\* The links that a thread was handed out and has not used yet, or that it is
\* about to construct.
Own(x) == IF pc[x] = "use" THEN {current[x]} ELSE IF first[x] # 0 THEN NewLinks(x) ELSE {}

Holds(x) == Bundle(cache[x].full) \cup Bundle(cache[x].partial) \cup Own(x)

\* Every link that was ever reserved is in exactly one place: in use, in one
\* bundle of one thread, on the shared list, or being constructed.  So no link is
\* handed out twice and none is lost.
LinksConserved ==
    /\ used \cup (UNION {Holds(x) : x \in Procs})
            \cup (UNION {Bundle(globalList[i]) : i \in DOMAIN globalList}) = 1 .. nextIndex - 1
    /\ \A x \in Procs :
         /\ Bundle(cache[x].full) \cap Bundle(cache[x].partial) = {}
         /\ Own(x) \cap (Bundle(cache[x].full) \cup Bundle(cache[x].partial)) = {}
         /\ Holds(x) \cap used = {}
         /\ \A y \in Procs \ {x} : Holds(x) \cap Holds(y) = {}
         /\ \A i \in DOMAIN globalList : Holds(x) \cap Bundle(globalList[i]) = {}
    /\ \A i \in DOMAIN globalList :
         /\ Bundle(globalList[i]) \cap used = {}
         /\ \A j \in DOMAIN globalList \ {i} : Bundle(globalList[i]) \cap Bundle(globalList[j]) = {}

\* A link is handed out clean (the checks that Pop and AllocLockFreeLink keep as
\* comments: no DoubleNext, no SingleNext, no Payload) although it has been in a
\* queue, in a bundle and perhaps at the top of the shared list before.
HandedOutClean ==
    \A x \in Procs : pc[x] = "use" =>
        LET link == current[x] IN
        payload[link] = 0 /\ ~doubleNext[link] /\ singleNext[link] = 0

\* Threads that race for a page construct their links in the page that won, where
\* GetItem will look for them.
ConstructedInPlace ==
    \A link \in used \cup UNION {Bundle(cache[x].partial) : x \in Procs} :
        constructed[link] = GetItem(link) /\ constructed[link] # NoBlock

-----------------------------------------------------------------------------
(* The inductive invariant. *)

Cutting == {"testPage", "installPage", "construct", "chain"}

Caches == [full : {0} \cup Links, partial : {0} \cup Links, num : 0 .. NUM_PER_BUNDLE]

TypeOK ==
    /\ cache \in [Procs -> Caches]
    /\ globalList \in Seq(Links)
    /\ payload \in [Links -> 0 .. MaxTotalItems]
    /\ singleNext \in [Links -> {0} \cup Links]
    /\ doubleNext \in [Links -> BOOLEAN]
    /\ nextIndex \in 1 .. MaxTotalItems
    /\ pages \in [0 .. MaxBlocks - 1 -> Procs \cup {NoBlock}]
    /\ constructed \in [Links -> Procs \cup {NoBlock}]
    /\ pc \in [Procs -> {"idle", "use", "reserve"} \cup Cutting]
    /\ first \in [Procs -> {0} \cup Links]
    /\ current \in [Procs -> 0 .. MaxTotalItems]
    /\ used \subseteq Links

\* A chain of n links from one link on, which ends; the empty one starts at 0.
LinkedBundle(next, from, n) ==
    \E links \in [1 .. n -> Links] :
        /\ IF n = 0 THEN from = 0 ELSE from = links[1] /\ next[links[n]] = 0
        /\ \A k \in 1 .. n - 1 : next[links[k]] = links[k + 1]
        /\ \A j, k \in 1 .. n : links[j] = links[k] => j = k

\* The bundles are chains as long as NumPartial says or as a bundle is.
BundlesLinked ==
    /\ \A x \in Procs :
         /\ LinkedBundle(payload, cache[x].partial, cache[x].num)
         /\ LinkedBundle(payload, cache[x].full, IF cache[x].full = 0 THEN 0 ELSE NUM_PER_BUNDLE)
    /\ \A i \in DOMAIN globalList : LinkedBundle(payload, globalList[i], NUM_PER_BUNDLE)

\* Where a thread is in Pop says what it has: new links are cut when both of its
\* bundles are used up, and a link is constructed in a page that is there.
InOrder(x) ==
    /\ pc[x] \in {"idle", "use", "reserve"} => first[x] = 0
    /\ pc[x] = "use" => current[x] \in Links
    /\ pc[x] \in {"reserve"} \cup Cutting => cache[x].partial = 0 /\ cache[x].full = 0
    /\ pc[x] \in Cutting => first[x] # 0 /\ first[x] + NUM_PER_BUNDLE <= nextIndex
    /\ pc[x] \in Cutting \ {"chain"} => current[x] \in NewLinks(x)
    /\ pc[x] = "chain" => current[x] = first[x] + NUM_PER_BUNDLE
    /\ pc[x] = "construct" => GetItem(current[x]) # NoBlock

CutInOrder == \A x \in Procs : InOrder(x)

\* The links of a bundle are clean but for the SingleNext of one that is on the
\* shared list.
BundlesClean ==
    /\ \A x \in Procs : \A link \in Bundle(cache[x].full) \cup Bundle(cache[x].partial) :
         ~doubleNext[link] /\ singleNext[link] = 0
    /\ \A i \in DOMAIN globalList : \A link \in Bundle(globalList[i]) :
         ~doubleNext[link] /\ (link # globalList[i] => singleNext[link] = 0)

\* A link is constructed where GetItem finds it, or a thread has yet to do it.
ConstructedOrCut ==
    \A link \in 1 .. nextIndex - 1 :
        \/ \E x \in Procs : first[x] # 0 /\ link \in current[x] .. first[x] + NUM_PER_BUNDLE - 1
        \/ constructed[link] = GetItem(link) /\ constructed[link] # NoBlock

IInv ==
    /\ TypeOK
    /\ BundlesLinked
    /\ LinksConserved
    /\ CutInOrder
    /\ BundlesClean /\ HandedOutClean
    /\ ConstructedOrCut
=============================================================================
