------------------------- MODULE LinkAllocatorProofs -------------------------
(***************************************************************************)
(* Machine-checked proofs about LinkAllocator, for every set of threads,   *)
(* every size of a bundle and of a page, and any number of links.          *)
(***************************************************************************)
EXTENDS LinkAllocator, FiniteSetTheorems, WellFoundedInduction, TLAPS

-----------------------------------------------------------------------------
(* Bundles as chains of links. *)

\* The null index is no link, and what a user stores is none either.
LEMMA NoLinks == 0 \notin Links /\ UserData \notin Links /\ Links \subseteq Nat \ {0}
  BY AllocatorAssumption DEF Links, UserData

\* The links 1 .. n of a chain that starts at one link.
Chain(next, from, n, links) ==
    /\ links \in [1 .. n -> Links]
    /\ IF n = 0 THEN from = 0 ELSE from = links[1] /\ next[links[n]] = 0
    /\ \A k \in 1 .. n - 1 : next[links[k]] = links[k + 1]
    /\ \A j, k \in 1 .. n : links[j] = links[k] => j = k

\* A linked bundle is a chain of links.
LEMMA BundleHasChain ==
    ASSUME NEW next, NEW from, NEW n
    PROVE  LinkedBundle(next, from, n) <=> \E links : Chain(next, from, n, links)
  BY DEF LinkedBundle, Chain

\* The equation that the links after the first obey.
Follows(next, from, f) ==
    f = [n \in 0 .. NUM_PER_BUNDLE |->
            IF n = 0 THEN from ELSE IF f[n - 1] \in Links THEN next[f[n - 1]] ELSE 0]

\* Following a chain from its first link finds its links, then nothing.
LEMMA ChainIsFollowed ==
    ASSUME NEW next, NEW from, NEW n \in 0 .. NUM_PER_BUNDLE, NEW links,
           Chain(next, from, n, links)
    PROVE  \A f : Follows(next, from, f) <=>
               f = [k \in 0 .. NUM_PER_BUNDLE |-> IF k < n THEN links[k + 1] ELSE 0]
<1> DEFINE g == [k \in 0 .. NUM_PER_BUNDLE |-> IF k < n THEN links[k + 1] ELSE 0]
           Rest(f, k) == IF k = 0 THEN from ELSE IF f[k - 1] \in Links THEN next[f[k - 1]] ELSE 0
<1>1. n \in Nat /\ NUM_PER_BUNDLE \in Nat \ {0} /\ n <= NUM_PER_BUNDLE
  BY AllocatorAssumption
<1>2. \A k \in 0 .. NUM_PER_BUNDLE : g[k] = IF k < n THEN links[k + 1] ELSE 0
  OBVIOUS
<1>3. ASSUME NEW k \in 0 .. NUM_PER_BUNDLE PROVE g[k] = Rest(g, k)
  <2>1. CASE k = 0
    BY <1>1, <1>2, <2>1 DEF Chain
  <2>2. CASE k # 0
    <3>1. k - 1 \in 0 .. NUM_PER_BUNDLE /\ k \in Nat \ {0}
      BY <1>1, <2>2
    <3>2. CASE k - 1 < n
      <4>1. k \in 1 .. n /\ g[k - 1] = links[k] /\ links[k] \in Links
        BY <1>1, <1>2, <3>1, <3>2 DEF Chain
      <4>2. next[links[k]] = IF k = n THEN 0 ELSE links[k + 1]
        BY <1>1, <4>1 DEF Chain
      <4>3. QED
        BY <1>1, <1>2, <2>2, <3>1, <4>1, <4>2
    <3>3. CASE ~ (k - 1 < n)
      BY <1>1, <1>2, <2>2, <3>1, <3>3, NoLinks
    <3>4. QED
      BY <3>2, <3>3
  <2>3. QED
    BY <2>1, <2>2
<1>4. Follows(next, from, g)
  <2> DEFINE h == [k \in 0 .. NUM_PER_BUNDLE |-> Rest(g, k)]
  <2>1. \A k \in 0 .. NUM_PER_BUNDLE : h[k] = g[k]
    BY <1>3
  <2>2. g = [k \in 0 .. NUM_PER_BUNDLE |-> g[k]] /\ h = [k \in 0 .. NUM_PER_BUNDLE |-> h[k]]
    OBVIOUS
  <2>3. h = [k \in 0 .. NUM_PER_BUNDLE |->
                IF k = 0 THEN from ELSE IF g[k - 1] \in Links THEN next[g[k - 1]] ELSE 0]
    OBVIOUS
  <2> HIDE DEF g, h
  <2>4. g = h
    BY <2>1, <2>2
  <2>5. QED
    BY <2>3, <2>4 DEF Follows
<1>5. ASSUME NEW f, Follows(next, from, f) PROVE f = g
  <2>1. \A k \in 0 .. NUM_PER_BUNDLE : f[k] = Rest(f, k)
    BY <1>5 DEF Follows
  <2>2. f = [k \in 0 .. NUM_PER_BUNDLE |-> f[k]]
    BY <1>5, Zenon DEF Follows
  <2> DEFINE Differ == {k \in 0 .. NUM_PER_BUNDLE : f[k] # g[k]}
  <2>3. CASE Differ = {}
    <3>1. \A k \in 0 .. NUM_PER_BUNDLE : f[k] = g[k]
      BY <2>3
    <3>2. g = [k \in 0 .. NUM_PER_BUNDLE |-> g[k]]
      OBVIOUS
    <3> HIDE DEF g
    <3>3. QED
      BY <2>2, <3>1, <3>2
  <2>4. CASE Differ # {}
    <3>1. Differ \subseteq Nat
      BY <1>1
    <3>2. PICK k \in Differ : \A j \in Differ : ~ (<<j, k>> \in OpToRel(<, Nat))
      BY <2>4, <3>1, NatLessThanWellFounded, WFMin
    <3>3. k \in 0 .. NUM_PER_BUNDLE /\ f[k] # g[k]
      OBVIOUS
    <3>4. k # 0
      BY <1>3, <2>1, <3>3
    <3>5. k - 1 \in 0 .. NUM_PER_BUNDLE /\ k - 1 \in Nat /\ k \in Nat /\ k - 1 < k
      BY <1>1, <3>3, <3>4
    <3>6. k - 1 \notin Differ
      BY <3>2, <3>5 DEF OpToRel
    <3>7. f[k - 1] = g[k - 1]
      BY <3>5, <3>6
    <3>8. Rest(f, k) = Rest(g, k)
      BY <3>7
    <3>9. f[k] = Rest(f, k) /\ g[k] = Rest(g, k)
      BY <1>3, <2>1, <3>3
    <3> HIDE DEF Rest, g
    <3>10. QED
      BY <3>3, <3>8, <3>9
  <2>5. QED
    BY <2>3, <2>4
<1>6. QED
  BY <1>4, <1>5

\* The links of a bundle are those of its chain.
LEMMA BundleIsChain ==
    ASSUME NEW next, NEW from, NEW n \in 0 .. NUM_PER_BUNDLE, NEW links,
           Chain(next, from, n, links)
    PROVE  BundleFrom(next, from) = {links[k] : k \in 1 .. n}
<1> DEFINE g == [k \in 0 .. NUM_PER_BUNDLE |-> IF k < n THEN links[k + 1] ELSE 0]
           after == CHOOSE f : Follows(next, from, f)
<1>1. n \in Nat /\ NUM_PER_BUNDLE \in Nat \ {0} /\ n <= NUM_PER_BUNDLE
  BY AllocatorAssumption
<1>2. after = g
  <2> HIDE DEF g
  <2>1. \A f : Follows(next, from, f) <=> f = g
    BY ChainIsFollowed DEF g
  <2>2. Follows(next, from, g)
    BY <2>1
  <2>3. Follows(next, from, after)
    BY <2>2
  <2>4. QED
    BY <2>1, <2>3
<1>3. BundleFrom(next, from) = {after[k] : k \in 0 .. NUM_PER_BUNDLE} \cap Links
  BY DEF BundleFrom, Follows
<1>4. \A k \in 0 .. NUM_PER_BUNDLE : after[k] = IF k < n THEN links[k + 1] ELSE 0
  BY <1>2
<1> HIDE DEF after, g
<1>5. ASSUME NEW k \in 0 .. NUM_PER_BUNDLE, after[k] \in Links
      PROVE  after[k] \in {links[j] : j \in 1 .. n}
  <2>1. k < n /\ after[k] = links[k + 1] /\ k + 1 \in 1 .. n
    BY <1>1, <1>4, <1>5, NoLinks
  <2>2. QED
    BY <2>1
<1>6. ASSUME NEW j \in 1 .. n
      PROVE  j - 1 \in 0 .. NUM_PER_BUNDLE /\ after[j - 1] = links[j] /\ links[j] \in Links
  <2>1. j - 1 \in 0 .. NUM_PER_BUNDLE /\ j - 1 < n
    BY <1>1
  <2>2. links[j] \in Links
    BY DEF Chain
  <2>3. QED
    BY <1>4, <2>1, <2>2
<1>7. QED
  BY <1>3, <1>5, <1>6

\* The null index starts an empty bundle.
LEMMA EmptyBundle ==
    ASSUME NEW next
    PROVE  LinkedBundle(next, 0, 0) /\ BundleFrom(next, 0) = {}
<1>1. Chain(next, 0, 0, [k \in 1 .. 0 |-> 0])
  <2> DEFINE e == [k \in 1 .. 0 |-> 0]
  <2>1. e \in [1 .. 0 -> Links]
    OBVIOUS
  <2> HIDE DEF e
  <2>2. QED
    BY <2>1 DEF Chain, e
<1>2. 0 \in 0 .. NUM_PER_BUNDLE /\ 1 .. 0 = {}
  BY AllocatorAssumption
<1>3. QED
  BY <1>1, <1>2, BundleIsChain, BundleHasChain

\* A bundle starts with one of its links, unless it is empty.
LEMMA BundleFirst ==
    ASSUME NEW next, NEW from, NEW n \in 0 .. NUM_PER_BUNDLE, LinkedBundle(next, from, n)
    PROVE  /\ n = 0 => from = 0 /\ BundleFrom(next, from) = {}
           /\ n # 0 => from \in Links /\ from \in BundleFrom(next, from)
           /\ BundleFrom(next, from) \subseteq Links
<1>1. PICK links : Chain(next, from, n, links)
  BY BundleHasChain
<1>2. BundleFrom(next, from) = {links[k] : k \in 1 .. n}
  BY <1>1, BundleIsChain
<1>3. n = 0 => from = 0 /\ 1 .. n = {}
  BY <1>1 DEF Chain
<1>4. n # 0 => from = links[1] /\ 1 \in 1 .. n
  BY <1>1 DEF Chain
<1>5. \A k \in 1 .. n : links[k] \in Links
  BY <1>1 DEF Chain
<1>6. QED
  BY <1>2, <1>3, <1>4, <1>5

\* A bundle of n links has n of them.
LEMMA BundleSize ==
    ASSUME NEW next, NEW from, NEW n \in 0 .. NUM_PER_BUNDLE, LinkedBundle(next, from, n)
    PROVE  Cardinality(BundleFrom(next, from)) = n
<1>1. PICK links : Chain(next, from, n, links)
  BY BundleHasChain
<1>2. BundleFrom(next, from) = {links[k] : k \in 1 .. n}
  BY <1>1, BundleIsChain
<1>3. links \in Bijection(1 .. n, {links[k] : k \in 1 .. n})
  <2> DEFINE S == {links[k] : k \in 1 .. n}
  <2>1. links \in [1 .. n -> S]
    BY <1>1 DEF Chain
  <2>2. \A j, k \in 1 .. n : links[j] = links[k] => j = k
    BY <1>1 DEF Chain
  <2>3. \A l \in S : \E k \in 1 .. n : links[k] = l
    OBVIOUS
  <2> HIDE DEF S
  <2>4. links \in Injection(1 .. n, S)
    BY <2>1, <2>2 DEF Injection, IsInjective
  <2>5. links \in Surjection(1 .. n, S)
    BY <2>1, <2>3 DEF Surjection
  <2>6. QED
    BY <2>4, <2>5 DEF Bijection, S
<1>4. n \in Nat /\ n \in Int /\ 1 \in Int
  BY AllocatorAssumption
<1>5. IsFiniteSet(1 .. n) /\ Cardinality(1 .. n) = n
  BY <1>4, FS_Interval
<1>6. Cardinality(1 .. n) = Cardinality({links[k] : k \in 1 .. n})
  <2> DEFINE S == {links[k] : k \in 1 .. n}
             T == 1 .. n
  <2>1. links \in Bijection(T, S) /\ IsFiniteSet(T)
    BY <1>3, <1>5
  <2> HIDE DEF S, T
  <2>2. Cardinality(T) = Cardinality(S)
    BY <2>1, FS_Bijection DEF ExistsBijection
  <2>3. QED
    BY <2>2 DEF S, T
<1>7. QED
  BY <1>2, <1>5, <1>6

\* A bundle stays what it is when no Payload of its links changes.
LEMMA BundleKept ==
    ASSUME NEW next, NEW next2, NEW from, NEW n \in 0 .. NUM_PER_BUNDLE,
           LinkedBundle(next, from, n),
           \A link \in BundleFrom(next, from) : next2[link] = next[link]
    PROVE  LinkedBundle(next2, from, n) /\ BundleFrom(next2, from) = BundleFrom(next, from)
<1>1. PICK links : Chain(next, from, n, links)
  BY BundleHasChain
<1>2. BundleFrom(next, from) = {links[k] : k \in 1 .. n}
  BY <1>1, BundleIsChain
<1>3. \A k \in 1 .. n : next2[links[k]] = next[links[k]]
  BY <1>2
<1>4. n \in Nat
  BY AllocatorAssumption
<1>5. \A k \in 1 .. n - 1 : k \in 1 .. n
  BY <1>4
<1>6. n # 0 => n \in 1 .. n
  BY <1>4
<1>7. Chain(next2, from, n, links)
  BY <1>1, <1>3, <1>5, <1>6 DEF Chain
<1>8. BundleFrom(next2, from) = {links[k] : k \in 1 .. n}
  BY <1>7, BundleIsChain
<1>9. QED
  BY <1>2, <1>7, <1>8, BundleHasChain

\* Without its first link a bundle starts at the next one.
LEMMA BundlePopped ==
    ASSUME NEW next, NEW from, NEW n \in 1 .. NUM_PER_BUNDLE, LinkedBundle(next, from, n)
    PROVE  LET next2 == [next EXCEPT ![from] = 0]
           IN  /\ LinkedBundle(next2, next[from], n - 1)
               /\ BundleFrom(next2, next[from]) = BundleFrom(next, from) \ {from}
<1> DEFINE next2 == [next EXCEPT ![from] = 0]
<1>1. PICK links : Chain(next, from, n, links)
  BY BundleHasChain
<1>2. /\ n \in Nat \ {0} /\ n \in 0 .. NUM_PER_BUNDLE /\ n - 1 \in 0 .. NUM_PER_BUNDLE
      /\ n - 1 \in Nat
  BY AllocatorAssumption
<1>3. BundleFrom(next, from) = {links[k] : k \in 1 .. n}
  BY <1>1, <1>2, BundleIsChain
<1>4. from = links[1] /\ 1 \in 1 .. n
  BY <1>1, <1>2 DEF Chain
<1> DEFINE rest == [k \in 1 .. n - 1 |-> links[k + 1]]
<1>5. \A k \in 1 .. n - 1 : /\ k + 1 \in 1 .. n /\ rest[k] = links[k + 1]
                            /\ links[k + 1] \in Links /\ links[k + 1] # from
                            /\ next2[links[k + 1]] = next[links[k + 1]]
  <2>1. TAKE k \in 1 .. n - 1
  <2>2. k + 1 \in 1 .. n /\ k + 1 # 1
    BY <1>2
  <2>3. links[k + 1] \in Links /\ links[k + 1] # links[1]
    BY <1>1, <1>4, <2>2 DEF Chain
  <2>4. next2[links[k + 1]] = next[links[k + 1]]
    BY <1>4, <2>3
  <2>5. QED
    BY <1>4, <2>2, <2>3, <2>4
<1>6. rest \in [1 .. n - 1 -> Links]
  BY <1>5
<1> HIDE DEF rest, next2
<1>7. IF n - 1 = 0 THEN next[from] = 0 ELSE next[from] = rest[1] /\ next2[rest[n - 1]] = 0
  <2>1. CASE n = 1
    BY <1>1, <1>4, <2>1 DEF Chain
  <2>2. CASE n # 1
    <3>1. 1 \in 1 .. n - 1 /\ n - 1 \in 1 .. n - 1 /\ n - 1 + 1 = n
      BY <1>2, <2>2
    <3>2. next[links[1]] = links[1 + 1] /\ next[links[n]] = 0
      BY <1>1, <1>2, <3>1 DEF Chain
    <3>3. rest[1] = links[1 + 1] /\ rest[n - 1] = links[n] /\ next2[links[n]] = next[links[n]]
      BY <1>5, <3>1
    <3>4. QED
      BY <1>2, <1>4, <2>2, <3>2, <3>3
  <2>3. QED
    BY <2>1, <2>2
<1>8. \A k \in 1 .. n - 1 - 1 : next2[rest[k]] = rest[k + 1]
  <2>1. TAKE k \in 1 .. n - 1 - 1
  <2>2. k \in 1 .. n - 1 /\ k + 1 \in 1 .. n - 1
    BY <1>2
  <2>3. next[links[k + 1]] = links[k + 1 + 1]
    BY <1>1, <2>2 DEF Chain
  <2>4. QED
    BY <1>5, <2>2, <2>3
<1>9. \A j, k \in 1 .. n - 1 : rest[j] = rest[k] => j = k
  <2>1. SUFFICES ASSUME NEW j \in 1 .. n - 1, NEW k \in 1 .. n - 1, rest[j] = rest[k] PROVE j = k
    OBVIOUS
  <2>2. links[j + 1] = links[k + 1] /\ j + 1 \in 1 .. n /\ k + 1 \in 1 .. n
    BY <1>5, <2>1
  <2>3. j + 1 = k + 1
    BY <1>1, <2>2 DEF Chain
  <2>4. QED
    BY <1>2, <2>3
<1>10. Chain(next2, next[from], n - 1, rest)
  BY <1>6, <1>7, <1>8, <1>9 DEF Chain
<1>11. BundleFrom(next2, next[from]) = {rest[k] : k \in 1 .. n - 1}
  BY <1>2, <1>10, BundleIsChain
<1>12. {rest[k] : k \in 1 .. n - 1} = {links[k] : k \in 1 .. n} \ {from}
  <2>1. ASSUME NEW k \in 1 .. n - 1 PROVE rest[k] \in {links[j] : j \in 1 .. n} \ {from}
    BY <1>5
  <2>2. ASSUME NEW j \in 1 .. n, links[j] # from PROVE links[j] \in {rest[k] : k \in 1 .. n - 1}
    <3>1. j # 1
      BY <1>4, <2>2
    <3>2. j - 1 \in 1 .. n - 1 /\ j - 1 + 1 = j
      BY <1>2, <3>1
    <3>3. rest[j - 1] = links[j]
      BY <1>5, <3>2
    <3>4. QED
      BY <3>2, <3>3
  <2>3. QED
    BY <2>1, <2>2
<1>13. QED
  BY <1>3, <1>10, <1>11, <1>12, BundleHasChain DEF next2

\* A link before the first one makes a bundle that is longer by it.
Pushes(next, next2, from, n, link) ==
    /\ next \in [Links -> 0 .. MaxTotalItems] /\ n \in 0 .. NUM_PER_BUNDLE - 1
    /\ LinkedBundle(next, from, n)
    /\ link \in Links \ BundleFrom(next, from) /\ from \in 0 .. MaxTotalItems
    /\ next2 = [next EXCEPT ![link] = from]

\* A link put in front of a bundle makes one that is longer by that link.
LEMMA BundlePushed ==
    ASSUME NEW next, NEW next2, NEW from, NEW n, NEW link, Pushes(next, next2, from, n, link)
    PROVE  /\ \A m : m = n + 1 => LinkedBundle(next2, link, m)
           /\ BundleFrom(next2, link) = BundleFrom(next, from) \cup {link}
<1>0. /\ next \in [Links -> 0 .. MaxTotalItems] /\ n \in 0 .. NUM_PER_BUNDLE - 1
      /\ LinkedBundle(next, from, n)
      /\ link \in Links \ BundleFrom(next, from) /\ from \in 0 .. MaxTotalItems
      /\ next2 = [next EXCEPT ![link] = from]
  BY DEF Pushes
<1>1. PICK links : Chain(next, from, n, links)
  BY <1>0, BundleHasChain
<1>2. n \in Nat /\ n \in 0 .. NUM_PER_BUNDLE /\ n + 1 \in 0 .. NUM_PER_BUNDLE
  BY <1>0, AllocatorAssumption
<1>3. BundleFrom(next, from) = {links[k] : k \in 1 .. n}
  BY <1>1, <1>2, BundleIsChain
<1>4. \A k \in 1 .. n : links[k] \in Links /\ links[k] # link
  BY <1>0, <1>1, <1>3 DEF Chain
<1>5. next2[link] = from /\ \A k \in 1 .. n : next2[links[k]] = next[links[k]]
  BY <1>0, <1>4
<1> DEFINE more == [k \in 1 .. n + 1 |-> IF k = 1 THEN link ELSE links[k - 1]]
<1>6. \A k \in 1 .. n + 1 : /\ k = 1 \/ k - 1 \in 1 .. n
                            /\ more[k] = IF k = 1 THEN link ELSE links[k - 1]
  BY <1>2
<1>7. more \in [1 .. n + 1 -> Links]
  BY <1>0, <1>4, <1>6
<1> HIDE DEF more
<1>8. n + 1 # 0 /\ link = more[1] /\ next2[more[n + 1]] = 0
  <2>1. 1 \in 1 .. n + 1 /\ n + 1 \in 1 .. n + 1 /\ n + 1 - 1 = n
    BY <1>2
  <2>2. CASE n = 0
    BY <1>1, <1>5, <1>6, <2>1, <2>2 DEF Chain
  <2>3. CASE n # 0
    <3>1. more[n + 1] = links[n] /\ n \in 1 .. n
      BY <1>2, <1>6, <2>1, <2>3
    <3>2. next[links[n]] = 0
      BY <1>1, <2>3 DEF Chain
    <3>3. QED
      BY <1>2, <1>5, <1>6, <2>1, <3>1, <3>2
  <2>4. QED
    BY <2>2, <2>3
<1>9. \A k \in 1 .. n + 1 - 1 : next2[more[k]] = more[k + 1]
  <2>1. TAKE k \in 1 .. n + 1 - 1
  <2>2. k \in 1 .. n /\ k \in 1 .. n + 1 /\ k + 1 \in 1 .. n + 1 /\ k + 1 # 1 /\ k + 1 - 1 = k
    BY <1>2
  <2>3. more[k + 1] = links[k]
    BY <1>6, <2>2
  <2>4. CASE k = 1
    <3>1. from = links[1]
      BY <1>1, <1>2, <2>2, <2>4 DEF Chain
    <3>2. QED
      BY <1>5, <1>6, <2>2, <2>3, <2>4, <3>1
  <2>5. CASE k # 1
    <3>1. more[k] = links[k - 1] /\ k - 1 \in 1 .. n - 1 /\ k - 1 \in 1 .. n
      BY <1>2, <1>6, <2>2, <2>5
    <3>2. next[links[k - 1]] = links[k - 1 + 1]
      BY <1>1, <3>1 DEF Chain
    <3>3. QED
      BY <1>2, <1>5, <2>3, <3>1, <3>2
  <2>6. QED
    BY <2>4, <2>5
<1>10. \A j, k \in 1 .. n + 1 : more[j] = more[k] => j = k
  <2>1. SUFFICES ASSUME NEW j \in 1 .. n + 1, NEW k \in 1 .. n + 1, more[j] = more[k] PROVE j = k
    OBVIOUS
  <2>2. CASE j = 1 \/ k = 1
    BY <1>4, <1>6, <2>1, <2>2
  <2>3. CASE j # 1 /\ k # 1
    <3>1. links[j - 1] = links[k - 1] /\ j - 1 \in 1 .. n /\ k - 1 \in 1 .. n
      BY <1>6, <2>1, <2>3
    <3>2. j - 1 = k - 1
      BY <1>1, <3>1 DEF Chain
    <3>3. QED
      BY <1>2, <3>2
  <2>4. QED
    BY <2>2, <2>3
<1>11. Chain(next2, link, n + 1, more)
  <2>1. PICK m : m = n + 1
    OBVIOUS
  <2>2. more \in [1 .. m -> Links]
    BY <1>7, <2>1
  <2>3. m # 0 /\ link = more[1] /\ next2[more[m]] = 0
    BY <1>8, <2>1
  <2>4. \A k \in 1 .. m - 1 : next2[more[k]] = more[k + 1]
    <3>1. m - 1 = n /\ n + 1 - 1 = n
      BY <1>2, <2>1
    <3>2. \A k \in 1 .. n : next2[more[k]] = more[k + 1]
      BY <1>9, <3>1
    <3>3. QED
      BY <3>1, <3>2
  <2>5. \A j, k \in 1 .. m : more[j] = more[k] => j = k
    BY <1>10, <2>1
  <2>6. Chain(next2, link, m, more)
    BY <2>2, <2>3, <2>4, <2>5 DEF Chain
  <2>7. QED
    BY <2>1, <2>6
<1>12. BundleFrom(next2, link) = {more[k] : k \in 1 .. n + 1}
  BY <1>2, <1>11, BundleIsChain
<1>13. {more[k] : k \in 1 .. n + 1} = {links[k] : k \in 1 .. n} \cup {link}
  <2>1. ASSUME NEW k \in 1 .. n + 1 PROVE more[k] \in {links[j] : j \in 1 .. n} \cup {link}
    BY <1>6
  <2>2. ASSUME NEW j \in 1 .. n PROVE links[j] \in {more[k] : k \in 1 .. n + 1}
    <3>1. j + 1 \in 1 .. n + 1 /\ j + 1 # 1 /\ j + 1 - 1 = j
      BY <1>2
    <3>2. more[j + 1] = links[j]
      BY <1>6, <3>1
    <3>3. QED
      BY <3>1, <3>2
  <2>3. link \in {more[k] : k \in 1 .. n + 1}
    BY <1>2, <1>6
  <2>4. QED
    BY <2>1, <2>2, <2>3
<1>14. QED
  BY <1>3, <1>11, <1>12, <1>13, BundleHasChain

\* New links, each chained to the one before it, are a bundle that starts with the
\* last of them.
LEMMA BundleOfNewLinks ==
    ASSUME NEW next, NEW f \in Nat, NEW n \in 1 .. NUM_PER_BUNDLE,
           f .. f + n - 1 \subseteq Links, next[f] = 0,
           \A link \in f + 1 .. f + n - 1 : next[link] = link - 1
    PROVE  /\ LinkedBundle(next, f + n - 1, n)
           /\ BundleFrom(next, f + n - 1) = f .. f + n - 1
<1> DEFINE links == [k \in 1 .. n |-> f + n - k]
<1>1. n \in Nat \ {0} /\ n \in 0 .. NUM_PER_BUNDLE
  BY AllocatorAssumption
<1>2. \A k \in 1 .. n : f + n - k \in f .. f + n - 1 /\ links[k] = f + n - k
  BY <1>1
<1>3. links \in [1 .. n -> Links]
  BY <1>2
<1> HIDE DEF links
<1>4. links[1] = f + n - 1 /\ next[links[n]] = 0
  <2>1. links[1] = f + n - 1 /\ links[n] = f + n - n /\ f + n - n = f
    BY <1>1, <1>2
  <2>2. QED
    BY <2>1
<1>5. \A k \in 1 .. n - 1 : next[links[k]] = links[k + 1]
  <2>1. TAKE k \in 1 .. n - 1
  <2>2. k \in 1 .. n /\ k + 1 \in 1 .. n /\ f + n - k \in f + 1 .. f + n - 1
    BY <1>1
  <2>3. next[f + n - k] = f + n - k - 1
    BY <2>2
  <2>4. f + n - k - 1 = f + n - (k + 1)
    BY <1>1
  <2>5. QED
    BY <1>2, <2>2, <2>3, <2>4
<1>6. \A j, k \in 1 .. n : links[j] = links[k] => j = k
  BY <1>1, <1>2
<1>7. Chain(next, f + n - 1, n, links)
  BY <1>1, <1>3, <1>4, <1>5, <1>6 DEF Chain
<1>8. BundleFrom(next, f + n - 1) = {links[k] : k \in 1 .. n}
  BY <1>1, <1>7, BundleIsChain
<1>9. {links[k] : k \in 1 .. n} = f .. f + n - 1
  <2>1. ASSUME NEW l \in f .. f + n - 1 PROVE l \in {links[k] : k \in 1 .. n}
    <3>1. f + n - l \in 1 .. n /\ f + n - (f + n - l) = l
      BY <1>1
    <3>2. QED
      BY <1>2, <3>1
  <2>2. QED
    BY <1>2, <2>1
<1>10. QED
  BY <1>7, <1>8, <1>9, BundleHasChain

-----------------------------------------------------------------------------
(* Where the links are: F and P are the bundles of the threads and O their own *)
(* links, G the n bundles of the shared list, U the links in use, and "last"   *)
(* the last link that was reserved.                                            *)

Has(F, P, O, x) == F[x] \cup P[x] \cup O[x]

Conserved(F, P, O, G, n, U, last) ==
    /\ U \cup (UNION {Has(F, P, O, x) : x \in Procs}) \cup (UNION {G[i] : i \in 1 .. n}) = 1 .. last
    /\ \A x \in Procs :
         /\ F[x] \cap P[x] = {} /\ O[x] \cap (F[x] \cup P[x]) = {}
         /\ Has(F, P, O, x) \cap U = {}
         /\ \A y \in Procs \ {x} : Has(F, P, O, x) \cap Has(F, P, O, y) = {}
         /\ \A i \in 1 .. n : Has(F, P, O, x) \cap G[i] = {}
    /\ \A i \in 1 .. n :
         /\ G[i] \cap U = {}
         /\ \A j \in (1 .. n) \ {i} : G[i] \cap G[j] = {}

\* No two places share a link, whatever their kinds.
LEMMA Apart ==
    ASSUME NEW F, NEW P, NEW O, NEW G, NEW n, NEW U, NEW last,
           Conserved(F, P, O, G, n, U, last)
    PROVE  /\ U \subseteq 1 .. last
           /\ \A x \in Procs : Has(F, P, O, x) \subseteq 1 .. last /\ Has(F, P, O, x) \cap U = {}
           /\ \A x, y \in Procs : x # y => Has(F, P, O, x) \cap Has(F, P, O, y) = {}
           /\ \A x \in Procs : \A i \in 1 .. n : Has(F, P, O, x) \cap G[i] = {}
           /\ \A i \in 1 .. n : G[i] \subseteq 1 .. last /\ G[i] \cap U = {}
           /\ \A i, j \in 1 .. n : i # j => G[i] \cap G[j] = {}
<1> DEFINE Old == 1 .. last
           I == 1 .. n
           Threads == {Has(F, P, O, x) : x \in Procs}
           Shared == {G[i] : i \in I}
<1>1. U \cup (UNION Threads) \cup (UNION Shared) = Old
  BY DEF Conserved
<1>2. \A x \in Procs : Has(F, P, O, x) \in Threads
  OBVIOUS
<1>3. \A i \in I : G[i] \in Shared
  OBVIOUS
<1> HIDE DEF Old, Threads, Shared
<1>4. U \subseteq Old
  BY <1>1
<1>5. \A x \in Procs : Has(F, P, O, x) \subseteq Old
  BY <1>1, <1>2
<1>6. \A i \in I : G[i] \subseteq Old
  BY <1>1, <1>3
<1>7. \A x \in Procs : /\ Has(F, P, O, x) \cap U = {}
                       /\ \A i \in 1 .. n : Has(F, P, O, x) \cap G[i] = {}
  BY DEF Conserved
<1>8. \A x, y \in Procs : x # y => Has(F, P, O, x) \cap Has(F, P, O, y) = {}
  BY DEF Conserved
<1>9. /\ \A i \in 1 .. n : G[i] \cap U = {}
      /\ \A i, j \in 1 .. n : i # j => G[i] \cap G[j] = {}
  BY DEF Conserved
<1>10. QED
  BY <1>4, <1>5, <1>6, <1>7, <1>8, <1>9 DEF Old

\* A thread moves links between its own places and those in use, and may reserve
\* more.
LEMMA ThreadMoves ==
    ASSUME NEW F, NEW P, NEW O, NEW G, NEW n, NEW U, NEW last \in Nat,
           Conserved(F, P, O, G, n, U, last),
           NEW F2, NEW P2, NEW O2, NEW U2, NEW last2 \in Nat, last <= last2, NEW x \in Procs,
           \A y \in Procs \ {x} : F2[y] = F[y] /\ P2[y] = P[y] /\ O2[y] = O[y],
           F2[x] \cap P2[x] = {}, O2[x] \cap (F2[x] \cup P2[x]) = {},
           Has(F2, P2, O2, x) \cap U2 = {},
           Has(F2, P2, O2, x) \cup U2 = Has(F, P, O, x) \cup U \cup (last + 1 .. last2)
    PROVE  Conserved(F2, P2, O2, G, n, U2, last2)
<1>1. \A link : link \in 1 .. last2 <=> link \in 1 .. last \/ link \in last + 1 .. last2
  OBVIOUS
<1>2. \A link : ~ (link \in 1 .. last /\ link \in last + 1 .. last2)
  OBVIOUS
<1> DEFINE New == last + 1 .. last2
           Old == 1 .. last
           All == 1 .. last2
           X == Has(F, P, O, x)
           X2 == Has(F2, P2, O2, x)
<1>3. All = Old \cup New /\ Old \cap New = {}
  BY <1>1, <1>2
<1>4. \A y \in Procs \ {x} : Has(F2, P2, O2, y) = Has(F, P, O, y)
  BY DEF Has
<1>5. X2 \cup U2 = X \cup U \cup New /\ X2 \cap U2 = {}
  OBVIOUS
<1>6. /\ \A y \in Procs : Has(F, P, O, y) \subseteq Old /\ Has(F, P, O, y) \cap U = {}
      /\ U \subseteq Old
      /\ \A i \in 1 .. n : G[i] \subseteq Old /\ G[i] \cap U = {}
  BY Apart
<1>7. /\ \A y \in Procs \ {x} : X \cap Has(F, P, O, y) = {}
      /\ \A i \in 1 .. n : X \cap G[i] = {}
  BY Apart
<1>8. U \cup (UNION {Has(F, P, O, y) : y \in Procs}) \cup (UNION {G[i] : i \in 1 .. n}) = Old
  BY DEF Conserved
<1> HIDE DEF New, Old, All, X, X2
<1>9. /\ \A y \in Procs \ {x} : X2 \cap Has(F, P, O, y) = {} /\ Has(F, P, O, y) \cap U2 = {}
      /\ \A i \in 1 .. n : X2 \cap G[i] = {} /\ G[i] \cap U2 = {}
  BY <1>3, <1>5, <1>6, <1>7
<1>10. U2 \cup (UNION {Has(F2, P2, O2, y) : y \in Procs}) \cup (UNION {G[i] : i \in 1 .. n}) = All
  <2> DEFINE W == UNION {Has(F, P, O, y) : y \in Procs \ {x}}
  <2>1. (UNION {Has(F2, P2, O2, y) : y \in Procs}) = W \cup X2
    BY <1>4 DEF X2
  <2>2. UNION {Has(F, P, O, y) : y \in Procs} = W \cup X
    BY DEF X
  <2> HIDE DEF W
  <2>3. QED
    BY <1>3, <1>5, <1>8, <2>1, <2>2
<1>11. \A y \in Procs : /\ F2[y] \cap P2[y] = {} /\ O2[y] \cap (F2[y] \cup P2[y]) = {}
                        /\ Has(F2, P2, O2, y) \cap U2 = {}
                        /\ \A i \in 1 .. n : Has(F2, P2, O2, y) \cap G[i] = {}
  <2>1. TAKE y \in Procs
  <2>2. CASE y = x
    BY <1>5, <1>9, <2>2 DEF X2
  <2>3. CASE y # x
    <3>1. y \in Procs \ {x} /\ F2[y] = F[y] /\ P2[y] = P[y] /\ O2[y] = O[y]
          /\ Has(F2, P2, O2, y) = Has(F, P, O, y)
      BY <1>4, <2>3
    <3>2. F[y] \cap P[y] = {} /\ O[y] \cap (F[y] \cup P[y]) = {}
          /\ \A i \in 1 .. n : Has(F, P, O, y) \cap G[i] = {}
      BY DEF Conserved
    <3>3. QED
      BY <1>9, <3>1, <3>2
  <2>4. QED
    BY <2>2, <2>3
<1>12. \A y, z \in Procs : z # y => Has(F2, P2, O2, y) \cap Has(F2, P2, O2, z) = {}
  <2>1. SUFFICES ASSUME NEW y \in Procs, NEW z \in Procs, z # y
                 PROVE  Has(F2, P2, O2, y) \cap Has(F2, P2, O2, z) = {}
    OBVIOUS
  <2>2. CASE y = x
    BY <1>4, <1>9, <2>1, <2>2 DEF X2
  <2>3. CASE z = x
    BY <1>4, <1>9, <2>1, <2>3 DEF X2
  <2>4. CASE y # x /\ z # x
    <3>1. Has(F2, P2, O2, y) = Has(F, P, O, y) /\ Has(F2, P2, O2, z) = Has(F, P, O, z)
      BY <1>4, <2>4
    <3>2. Has(F, P, O, y) \cap Has(F, P, O, z) = {}
      BY <2>1 DEF Conserved
    <3>3. QED
      BY <3>1, <3>2
  <2>5. QED
    BY <2>2, <2>3, <2>4
<1>13. \A i \in 1 .. n : /\ G[i] \cap U2 = {}
                         /\ \A j \in (1 .. n) \ {i} : G[i] \cap G[j] = {}
  <2>1. \A i \in 1 .. n : \A j \in (1 .. n) \ {i} : G[i] \cap G[j] = {}
    BY DEF Conserved
  <2>2. QED
    BY <1>9, <2>1
<1>14. QED
  BY <1>10, <1>11, <1>12, <1>13 DEF Conserved, All

\* A thread takes the first bundle of the shared list.
Takes(F, P, O, G, n, x, P2, G2, m) ==
    /\ F[x] = {} /\ P[x] = {} /\ O[x] = {}
    /\ \A y \in Procs \ {x} : P2[y] = P[y]
    /\ P2[x] = G[1]
    /\ n \in Nat \ {0} /\ m = n - 1
    /\ \A i \in 1 .. n - 1 : G2[i] = G[i + 1]

\* A thread whose places are empty takes the first bundle of the shared list.
LEMMA ThreadTakes ==
    ASSUME NEW F, NEW P, NEW O, NEW G, NEW n, NEW U, NEW last,
           Conserved(F, P, O, G, n, U, last), NEW x \in Procs,
           NEW P2, NEW G2, NEW m, Takes(F, P, O, G, n, x, P2, G2, m)
    PROVE  Conserved(F, P2, O, G2, m, U, last)
<1>0. /\ F[x] = {} /\ P[x] = {} /\ O[x] = {}
      /\ \A y \in Procs \ {x} : P2[y] = P[y]
      /\ P2[x] = G[1]
      /\ n \in Nat \ {0} /\ m = n - 1
      /\ \A i \in 1 .. n - 1 : G2[i] = G[i + 1]
  BY DEF Takes
<1>1. Has(F, P, O, x) = {} /\ Has(F, P2, O, x) = G[1] /\ 1 \in 1 .. n
  BY <1>0 DEF Has
<1>2. \A y \in Procs \ {x} : Has(F, P2, O, y) = Has(F, P, O, y)
  BY <1>0 DEF Has
<1>3. \A i \in 1 .. n - 1 : i + 1 \in 1 .. n /\ i + 1 # 1 /\ G2[i] = G[i + 1]
  BY <1>0
<1>4. U \cup (UNION {Has(F, P2, O, y) : y \in Procs}) \cup (UNION {G2[i] : i \in 1 .. n - 1}) = 1 .. last
  <2> DEFINE W == UNION {Has(F, P, O, y) : y \in Procs \ {x}}
  <2>1. UNION {Has(F, P2, O, y) : y \in Procs} = W \cup G[1]
    BY <1>1, <1>2
  <2>2. UNION {Has(F, P, O, y) : y \in Procs} = W
    BY <1>1
  <2>3. UNION {G[i] : i \in 1 .. n} = G[1] \cup UNION {G2[i] : i \in 1 .. n - 1}
    <3>1. \A i \in 1 .. n : i = 1 \/ (i - 1 \in 1 .. n - 1 /\ G2[i - 1] = G[i])
      <4>1. TAKE i \in 1 .. n
      <4>2. CASE i # 1
        <5>1. i - 1 \in 1 .. n - 1 /\ i - 1 + 1 = i
          BY <1>0, <4>2
        <5>2. QED
          BY <1>3, <5>1
      <4>3. QED
        BY <4>2
    <3>2. QED
      BY <1>1, <1>3, <3>1
  <2>4. U \cup (UNION {Has(F, P, O, y) : y \in Procs}) \cup (UNION {G[i] : i \in 1 .. n}) = 1 .. last
    BY DEF Conserved
  <2> HIDE DEF W
  <2>5. QED
    BY <2>1, <2>2, <2>3, <2>4
<1>5. \A y \in Procs : F[y] \cap P2[y] = {} /\ O[y] \cap (F[y] \cup P2[y]) = {}
  <2>1. TAKE y \in Procs
  <2>2. CASE y = x
    BY <1>0, <2>2
  <2>3. CASE y # x
    BY <1>0, <2>3 DEF Conserved
  <2>4. QED
    BY <2>2, <2>3
<1>6. \A y \in Procs : /\ Has(F, P2, O, y) \cap U = {}
                       /\ \A i \in 1 .. n - 1 : Has(F, P2, O, y) \cap G2[i] = {}
  <2>1. TAKE y \in Procs
  <2>2. CASE y = x
    <3>1. G[1] \cap U = {} /\ \A i \in (1 .. n) \ {1} : G[1] \cap G[i] = {}
      BY <1>1 DEF Conserved
    <3>2. QED
      BY <1>1, <1>3, <2>2, <3>1
  <2>3. CASE y # x
    <3>1. Has(F, P, O, y) \cap U = {} /\ \A i \in 1 .. n : Has(F, P, O, y) \cap G[i] = {}
      BY DEF Conserved
    <3>2. QED
      BY <1>2, <1>3, <2>3, <3>1
  <2>4. QED
    BY <2>2, <2>3
<1>7. \A y, z \in Procs : z # y => Has(F, P2, O, y) \cap Has(F, P2, O, z) = {}
  <2>1. SUFFICES ASSUME NEW y \in Procs, NEW z \in Procs, z # y
                 PROVE  Has(F, P2, O, y) \cap Has(F, P2, O, z) = {}
    OBVIOUS
  <2>2. \A w \in Procs : Has(F, P, O, w) \cap G[1] = {}
    BY <1>1 DEF Conserved
  <2>3. CASE y = x
    BY <1>1, <1>2, <2>1, <2>2, <2>3
  <2>4. CASE z = x
    BY <1>1, <1>2, <2>1, <2>2, <2>4
  <2>5. CASE y # x /\ z # x
    <3>1. Has(F, P2, O, y) = Has(F, P, O, y) /\ Has(F, P2, O, z) = Has(F, P, O, z)
      BY <1>2, <2>5
    <3>2. Has(F, P, O, y) \cap Has(F, P, O, z) = {}
      BY <2>1 DEF Conserved
    <3>3. QED
      BY <3>1, <3>2
  <2>6. QED
    BY <2>3, <2>4, <2>5
<1>8. \A i \in 1 .. n - 1 : /\ G2[i] \cap U = {}
                            /\ \A j \in (1 .. n - 1) \ {i} : G2[i] \cap G2[j] = {}
  <2>1. \A i \in 1 .. n : /\ G[i] \cap U = {}
                          /\ \A j \in (1 .. n) \ {i} : G[i] \cap G[j] = {}
    BY DEF Conserved
  <2>2. \A i, j \in 1 .. n - 1 : i # j => i + 1 # j + 1
    BY <1>0
  <2>3. QED
    BY <1>3, <2>1, <2>2
<1>9. Conserved(F, P2, O, G2, n - 1, U, last)
  BY <1>4, <1>5, <1>6, <1>7, <1>8 DEF Conserved
<1>10. QED
  BY <1>0, <1>9

\* A thread gives its full bundle to the shared list.
Gives(F, G, n, x, F2, G2, m) ==
    /\ \A y \in Procs \ {x} : F2[y] = F[y]
    /\ F2[x] = {} /\ G2[1] = F[x]
    /\ n \in Nat /\ m = n + 1
    /\ \A i \in 1 .. n : G2[i + 1] = G[i]

\* A thread gives its FullBundle to the shared list.
LEMMA ThreadGives ==
    ASSUME NEW F, NEW P, NEW O, NEW G, NEW n, NEW U, NEW last,
           Conserved(F, P, O, G, n, U, last), NEW x \in Procs,
           NEW F2, NEW G2, NEW m, Gives(F, G, n, x, F2, G2, m)
    PROVE  Conserved(F2, P, O, G2, m, U, last)
<1>0. /\ \A y \in Procs \ {x} : F2[y] = F[y]
      /\ F2[x] = {} /\ G2[1] = F[x]
      /\ n \in Nat /\ m = n + 1
      /\ \A i \in 1 .. n : G2[i + 1] = G[i]
  BY DEF Gives
<1>1. Has(F2, P, O, x) \subseteq Has(F, P, O, x) /\ F[x] \subseteq Has(F, P, O, x)
      /\ Has(F, P, O, x) = Has(F2, P, O, x) \cup F[x]
      /\ Has(F2, P, O, x) \cap F[x] = {}
  BY <1>0 DEF Has, Conserved
<1>2. \A y \in Procs \ {x} : Has(F2, P, O, y) = Has(F, P, O, y)
  BY <1>0 DEF Has
<1>3. \A i \in 1 .. n + 1 : i = 1 \/ (i - 1 \in 1 .. n /\ G2[i] = G[i - 1])
  <2>1. TAKE i \in 1 .. n + 1
  <2>2. CASE i # 1
    <3>1. i - 1 \in 1 .. n /\ i - 1 + 1 = i
      BY <1>0, <2>2
    <3>2. QED
      BY <1>0, <3>1
  <2>3. QED
    BY <1>0, <2>2
<1>4. U \cup (UNION {Has(F2, P, O, y) : y \in Procs}) \cup (UNION {G2[i] : i \in 1 .. n + 1}) = 1 .. last
  <2> DEFINE W == UNION {Has(F, P, O, y) : y \in Procs \ {x}}
  <2>1. UNION {Has(F2, P, O, y) : y \in Procs} = W \cup Has(F2, P, O, x)
    BY <1>2
  <2>2. UNION {Has(F, P, O, y) : y \in Procs} = W \cup Has(F2, P, O, x) \cup F[x]
    BY <1>1
  <2>3. UNION {G2[i] : i \in 1 .. n + 1} = F[x] \cup UNION {G[i] : i \in 1 .. n}
    <3>1. \A i \in 1 .. n : i + 1 \in 1 .. n + 1 /\ G2[i + 1] = G[i]
      BY <1>0
    <3>2. 1 \in 1 .. n + 1 /\ G2[1] = F[x]
      BY <1>0
    <3>3. QED
      BY <1>0, <1>3, <3>1, <3>2
  <2>4. U \cup (UNION {Has(F, P, O, y) : y \in Procs}) \cup (UNION {G[i] : i \in 1 .. n}) = 1 .. last
    BY DEF Conserved
  <2> HIDE DEF W
  <2>5. QED
    BY <2>1, <2>2, <2>3, <2>4
<1>5. \A y \in Procs : F2[y] \cap P[y] = {} /\ O[y] \cap (F2[y] \cup P[y]) = {}
  <2>1. \A y \in Procs : F2[y] \subseteq F[y]
    BY <1>0
  <2>2. \A y \in Procs : F[y] \cap P[y] = {} /\ O[y] \cap (F[y] \cup P[y]) = {}
    BY DEF Conserved
  <2>3. QED
    BY <2>1, <2>2
<1>6. \A y \in Procs : Has(F2, P, O, y) \subseteq Has(F, P, O, y)
  BY <1>1, <1>2
<1>7. \A y \in Procs : /\ Has(F2, P, O, y) \cap U = {}
                       /\ \A i \in 1 .. n + 1 : Has(F2, P, O, y) \cap G2[i] = {}
                       /\ \A z \in Procs \ {y} : Has(F2, P, O, y) \cap Has(F2, P, O, z) = {}
  <2>1. TAKE y \in Procs
  <2>2. /\ Has(F, P, O, y) \cap U = {}
        /\ \A i \in 1 .. n : Has(F, P, O, y) \cap G[i] = {}
        /\ \A z \in Procs \ {y} : Has(F, P, O, y) \cap Has(F, P, O, z) = {}
    BY DEF Conserved
  <2>3. Has(F2, P, O, y) \cap F[x] = {}
    <3>1. CASE y = x
      BY <1>1, <3>1
    <3>2. CASE y # x
      BY <1>1, <1>6, <2>2, <3>2
    <3>3. QED
      BY <3>1, <3>2
  <2>4. \A i \in 1 .. n + 1 : Has(F2, P, O, y) \cap G2[i] = {}
    BY <1>0, <1>3, <1>6, <2>2, <2>3
  <2>5. QED
    BY <1>6, <2>2, <2>4
<1>8. \A i \in 1 .. n + 1 : G2[i] \cap U = {}
  <2>1. F[x] \cap U = {}
    BY <1>1 DEF Conserved
  <2>2. \A i \in 1 .. n : G[i] \cap U = {}
    BY DEF Conserved
  <2>3. QED
    BY <1>0, <1>3, <2>1, <2>2
<1>9. \A i, j \in 1 .. n + 1 : i # j => G2[i] \cap G2[j] = {}
  <2>1. SUFFICES ASSUME NEW i \in 1 .. n + 1, NEW j \in 1 .. n + 1, i # j PROVE G2[i] \cap G2[j] = {}
    OBVIOUS
  <2>2. \A k \in 1 .. n : F[x] \cap G[k] = {}
    BY <1>1 DEF Conserved
  <2>3. CASE i = 1
    BY <1>0, <1>3, <2>1, <2>2, <2>3
  <2>4. CASE j = 1
    BY <1>0, <1>3, <2>1, <2>2, <2>4
  <2>5. CASE i # 1 /\ j # 1
    <3>1. i - 1 \in 1 .. n /\ j - 1 \in 1 .. n /\ i - 1 # j - 1 /\ G2[i] = G[i - 1] /\ G2[j] = G[j - 1]
      BY <1>0, <1>3, <2>1, <2>5
    <3>2. QED
      BY <3>1 DEF Conserved
  <2>6. QED
    BY <2>3, <2>4, <2>5
<1>10. Conserved(F2, P, O, G2, n + 1, U, last)
  BY <1>4, <1>5, <1>7, <1>8, <1>9 DEF Conserved
<1>11. QED
  BY <1>0, <1>10

-----------------------------------------------------------------------------
(* The places of a state. *)

Full(x) == Bundle(cache[x].full)
Partial(x) == Bundle(cache[x].partial)
FullSize(x) == IF cache[x].full = 0 THEN 0 ELSE NUM_PER_BUNDLE

FullOf == [x \in Procs |-> Full(x)]
PartialOf == [x \in Procs |-> Partial(x)]
OwnOf == [x \in Procs |-> Own(x)]
SharedOf == [i \in 1 .. Len(globalList) |-> Bundle(globalList[i])]

Placed == Conserved(FullOf, PartialOf, OwnOf, SharedOf, Len(globalList), used, nextIndex - 1)

\* LinksConserved, with the places as functions.
LEMMA PlacedIs ==
    ASSUME globalList \in Seq(Links)
    PROVE  LinksConserved <=> Placed
<1>1. DOMAIN globalList = 1 .. Len(globalList)
  OBVIOUS
<1>2. \A x \in Procs : /\ FullOf[x] = Bundle(cache[x].full) /\ PartialOf[x] = Bundle(cache[x].partial)
                       /\ OwnOf[x] = Own(x) /\ Has(FullOf, PartialOf, OwnOf, x) = Holds(x)
  BY DEF FullOf, PartialOf, OwnOf, Full, Partial, Has, Holds
<1>3. \A i \in 1 .. Len(globalList) : SharedOf[i] = Bundle(globalList[i])
  BY DEF SharedOf
<1>4. {Has(FullOf, PartialOf, OwnOf, x) : x \in Procs} = {Holds(x) : x \in Procs}
  BY <1>2
<1>5. {SharedOf[i] : i \in 1 .. Len(globalList)} = {Bundle(globalList[i]) : i \in DOMAIN globalList}
  BY <1>1, <1>3
<1> DEFINE A == used \cup (UNION {Holds(x) : x \in Procs})
                      \cup (UNION {Bundle(globalList[i]) : i \in DOMAIN globalList}) = 1 .. (nextIndex - 1)
           A2 == used \cup (UNION {Has(FullOf, PartialOf, OwnOf, x) : x \in Procs})
                       \cup (UNION {SharedOf[i] : i \in 1 .. Len(globalList)}) = 1 .. (nextIndex - 1)
           B(x) == /\ Bundle(cache[x].full) \cap Bundle(cache[x].partial) = {}
                   /\ Own(x) \cap (Bundle(cache[x].full) \cup Bundle(cache[x].partial)) = {}
                   /\ Holds(x) \cap used = {}
                   /\ \A y \in Procs \ {x} : Holds(x) \cap Holds(y) = {}
                   /\ \A i \in 1 .. Len(globalList) : Holds(x) \cap Bundle(globalList[i]) = {}
           B2(x) == /\ FullOf[x] \cap PartialOf[x] = {}
                    /\ OwnOf[x] \cap (FullOf[x] \cup PartialOf[x]) = {}
                    /\ Has(FullOf, PartialOf, OwnOf, x) \cap used = {}
                    /\ \A y \in Procs \ {x} :
                          Has(FullOf, PartialOf, OwnOf, x) \cap Has(FullOf, PartialOf, OwnOf, y) = {}
                    /\ \A i \in 1 .. Len(globalList) :
                          Has(FullOf, PartialOf, OwnOf, x) \cap SharedOf[i] = {}
           C(i) == /\ Bundle(globalList[i]) \cap used = {}
                   /\ \A j \in (1 .. Len(globalList)) \ {i} :
                         Bundle(globalList[i]) \cap Bundle(globalList[j]) = {}
           C2(i) == /\ SharedOf[i] \cap used = {}
                    /\ \A j \in (1 .. Len(globalList)) \ {i} : SharedOf[i] \cap SharedOf[j] = {}
<1>6. LinksConserved <=> A /\ (\A x \in Procs : B(x)) /\ (\A i \in 1 .. Len(globalList) : C(i))
  BY <1>1 DEF LinksConserved
<1>7. Placed <=> A2 /\ (\A x \in Procs : B2(x)) /\ (\A i \in 1 .. Len(globalList) : C2(i))
  BY DEF Placed, Conserved
<1>8. A <=> A2
  BY <1>4, <1>5
<1>9. \A x \in Procs : B(x) <=> B2(x)
  BY <1>2, <1>3
<1>10. \A i \in 1 .. Len(globalList) : C(i) <=> C2(i)
  BY <1>3
<1> HIDE DEF A, A2, B, B2, C, C2
<1>11. QED
  BY <1>6, <1>7, <1>8, <1>9, <1>10

\* The same of the next state.
LEMMA PlacedIsPrime ==
    ASSUME (globalList \in Seq(Links))'
    PROVE  LinksConserved' <=> Placed'
<1>1. DOMAIN globalList' = 1 .. Len(globalList')
  OBVIOUS
<1>2. \A x \in Procs : /\ FullOf'[x] = Bundle(cache[x].full)' /\ PartialOf'[x] = Bundle(cache[x].partial)'
                       /\ OwnOf'[x] = Own(x)' /\ Has(FullOf', PartialOf', OwnOf', x) = Holds(x)'
  BY DEF FullOf, PartialOf, OwnOf, Full, Partial, Has, Holds
<1>3. \A i \in 1 .. Len(globalList') : SharedOf'[i] = Bundle(globalList[i])'
  BY DEF SharedOf
<1>4. {Has(FullOf', PartialOf', OwnOf', x) : x \in Procs} = {Holds(x)' : x \in Procs}
  BY <1>2
<1>5. {SharedOf'[i] : i \in 1 .. Len(globalList')} = {Bundle(globalList[i])' : i \in DOMAIN globalList'}
  BY <1>1, <1>3
<1> DEFINE A == used' \cup (UNION {Holds(x)' : x \in Procs})
                      \cup (UNION {Bundle(globalList[i])' : i \in DOMAIN globalList'}) = 1 .. (nextIndex' - 1)
           A2 == used' \cup (UNION {Has(FullOf', PartialOf', OwnOf', x) : x \in Procs})
                       \cup (UNION {SharedOf'[i] : i \in 1 .. Len(globalList')}) = 1 .. (nextIndex' - 1)
           B(x) == /\ Bundle(cache[x].full)' \cap Bundle(cache[x].partial)' = {}
                   /\ Own(x)' \cap (Bundle(cache[x].full)' \cup Bundle(cache[x].partial)') = {}
                   /\ Holds(x)' \cap used' = {}
                   /\ \A y \in Procs \ {x} : Holds(x)' \cap Holds(y)' = {}
                   /\ \A i \in 1 .. Len(globalList') : Holds(x)' \cap Bundle(globalList[i])' = {}
           B2(x) == /\ FullOf'[x] \cap PartialOf'[x] = {}
                    /\ OwnOf'[x] \cap (FullOf'[x] \cup PartialOf'[x]) = {}
                    /\ Has(FullOf', PartialOf', OwnOf', x) \cap used' = {}
                    /\ \A y \in Procs \ {x} :
                          Has(FullOf', PartialOf', OwnOf', x) \cap Has(FullOf', PartialOf', OwnOf', y) = {}
                    /\ \A i \in 1 .. Len(globalList') :
                          Has(FullOf', PartialOf', OwnOf', x) \cap SharedOf'[i] = {}
           C(i) == /\ Bundle(globalList[i])' \cap used' = {}
                   /\ \A j \in (1 .. Len(globalList')) \ {i} :
                         Bundle(globalList[i])' \cap Bundle(globalList[j])' = {}
           C2(i) == /\ SharedOf'[i] \cap used' = {}
                    /\ \A j \in (1 .. Len(globalList')) \ {i} : SharedOf'[i] \cap SharedOf'[j] = {}
<1>6. LinksConserved' <=> A /\ (\A x \in Procs : B(x)) /\ (\A i \in 1 .. Len(globalList') : C(i))
  BY <1>1 DEF LinksConserved
<1>7. Placed' <=> A2 /\ (\A x \in Procs : B2(x)) /\ (\A i \in 1 .. Len(globalList') : C2(i))
  BY DEF Placed, Conserved
<1>8. A <=> A2
  BY <1>4, <1>5
<1>9. \A x \in Procs : B(x) <=> B2(x)
  BY <1>2, <1>3
<1>10. \A i \in 1 .. Len(globalList') : C(i) <=> C2(i)
  BY <1>3
<1> HIDE DEF A, A2, B, B2, C, C2
<1>11. QED
  BY <1>6, <1>7, <1>8, <1>9, <1>10

\* What LinksConserved says of two places.
LEMMA PlacesApart ==
    ASSUME TypeOK, LinksConserved
    PROVE  /\ 1 .. nextIndex - 1 \subseteq Links /\ nextIndex \in Nat \ {0}
           /\ used \subseteq 1 .. nextIndex - 1
           /\ \A x \in Procs : Holds(x) \subseteq 1 .. nextIndex - 1 /\ Holds(x) \cap used = {}
           /\ \A x, y \in Procs : x # y => Holds(x) \cap Holds(y) = {}
           /\ \A x \in Procs : \A i \in 1 .. Len(globalList) : Holds(x) \cap Bundle(globalList[i]) = {}
           /\ \A i \in 1 .. Len(globalList) : /\ Bundle(globalList[i]) \subseteq 1 .. nextIndex - 1
                                              /\ Bundle(globalList[i]) \cap used = {}
           /\ \A i, j \in 1 .. Len(globalList) :
                 i # j => Bundle(globalList[i]) \cap Bundle(globalList[j]) = {}
<1>1. nextIndex \in Nat \ {0} /\ 1 .. nextIndex - 1 \subseteq Links
  BY AllocatorAssumption DEF TypeOK, Links
<1>2. Placed
  BY PlacedIs DEF TypeOK
<1>3. \A x \in Procs : Has(FullOf, PartialOf, OwnOf, x) = Holds(x)
  BY DEF FullOf, PartialOf, OwnOf, Full, Partial, Has, Holds
<1>4. \A i \in 1 .. Len(globalList) : SharedOf[i] = Bundle(globalList[i])
  BY DEF SharedOf
<1> DEFINE F == FullOf
           P == PartialOf
           O == OwnOf
           G == SharedOf
           n == Len(globalList)
           last == nextIndex - 1
<1>5. Conserved(F, P, O, G, n, used, last)
  BY <1>2 DEF Placed
<1> HIDE DEF F, P, O, G, n, last
<1>6. /\ used \subseteq 1 .. last
      /\ \A x \in Procs : Has(F, P, O, x) \subseteq 1 .. last /\ Has(F, P, O, x) \cap used = {}
      /\ \A x, y \in Procs : x # y => Has(F, P, O, x) \cap Has(F, P, O, y) = {}
      /\ \A x \in Procs : \A i \in 1 .. n : Has(F, P, O, x) \cap G[i] = {}
      /\ \A i \in 1 .. n : G[i] \subseteq 1 .. last /\ G[i] \cap used = {}
      /\ \A i, j \in 1 .. n : i # j => G[i] \cap G[j] = {}
  BY <1>5, Apart
<1>7. QED
  BY <1>1, <1>3, <1>4, <1>6 DEF F, P, O, G, n, last

\* A bundle in which no Payload changes stays what it is.
LEMMA Untouched ==
    ASSUME NEW T, \A link \in Links \ T : payload'[link] = payload[link]
    PROVE  \A from : \A n \in 0 .. NUM_PER_BUNDLE :
              LinkedBundle(payload, from, n) /\ Bundle(from) \cap T = {}
                 => LinkedBundle(payload', from, n) /\ BundleFrom(payload', from) = Bundle(from)
<1>1. SUFFICES ASSUME NEW from, NEW n \in 0 .. NUM_PER_BUNDLE,
                      LinkedBundle(payload, from, n), Bundle(from) \cap T = {}
               PROVE  LinkedBundle(payload', from, n) /\ BundleFrom(payload', from) = Bundle(from)
  OBVIOUS
<1>2. BundleFrom(payload, from) \subseteq Links \ T
  BY <1>1, BundleFirst DEF Bundle
<1>3. \A link \in BundleFrom(payload, from) : payload'[link] = payload[link]
  BY <1>2
<1>4. QED
  BY <1>1, <1>3, BundleKept DEF Bundle

\* The bundles of a thread, and what is known of their lengths.
LEMMA BundleFacts ==
    ASSUME TypeOK, BundlesLinked
    PROVE  /\ NUM_PER_BUNDLE \in Nat \ {0} /\ NUM_PER_BUNDLE \in 1 .. NUM_PER_BUNDLE
           /\ \A x \in Procs :
                /\ cache[x] \in Caches /\ cache[x].num \in 0 .. NUM_PER_BUNDLE
                /\ FullSize(x) \in 0 .. NUM_PER_BUNDLE
                /\ LinkedBundle(payload, cache[x].partial, cache[x].num)
                /\ LinkedBundle(payload, cache[x].full, FullSize(x))
                /\ cache[x].partial = 0 <=> cache[x].num = 0
                /\ cache[x].partial = 0 => Partial(x) = {}
                /\ cache[x].full = 0 => Full(x) = {}
           /\ \A i \in 1 .. Len(globalList) :
                globalList[i] \in Links /\ LinkedBundle(payload, globalList[i], NUM_PER_BUNDLE)
<1>1. NUM_PER_BUNDLE \in Nat \ {0} /\ NUM_PER_BUNDLE \in 1 .. NUM_PER_BUNDLE
  BY AllocatorAssumption
<1>2. \A x \in Procs : cache[x] \in Caches /\ cache[x].num \in 0 .. NUM_PER_BUNDLE
                       /\ FullSize(x) \in 0 .. NUM_PER_BUNDLE
  BY <1>1 DEF TypeOK, Caches, FullSize
<1>3. \A x \in Procs : /\ LinkedBundle(payload, cache[x].partial, cache[x].num)
                       /\ LinkedBundle(payload, cache[x].full, FullSize(x))
  BY DEF BundlesLinked, FullSize
<1>4. ASSUME NEW x \in Procs PROVE /\ cache[x].partial = 0 <=> cache[x].num = 0
                                   /\ cache[x].partial = 0 => Partial(x) = {}
                                   /\ cache[x].full = 0 => Full(x) = {}
  <2>1. cache[x].partial = 0 <=> cache[x].num = 0
    BY <1>2, <1>3, BundleFirst, NoLinks
  <2>2. BundleFrom(payload, 0) = {}
    BY EmptyBundle
  <2>3. QED
    BY <2>1, <2>2 DEF Partial, Full, Bundle
<1>5. \A i \in 1 .. Len(globalList) :
          globalList[i] \in Links /\ LinkedBundle(payload, globalList[i], NUM_PER_BUNDLE)
  BY DEF TypeOK, BundlesLinked
<1>6. QED
  BY <1>1, <1>2, <1>3, <1>4, <1>5

-----------------------------------------------------------------------------
(* How the places change. *)

\* Only the places of one thread change, and what is in use.
LEMMA PlacesMove ==
    ASSUME TypeOK, LinksConserved, NEW x \in Procs,
           \A y \in Procs \ {x} :
              Full(y)' = Full(y) /\ Partial(y)' = Partial(y) /\ Own(y)' = Own(y),
           globalList' = globalList,
           \A i \in 1 .. Len(globalList) : BundleFrom(payload', globalList[i]) = Bundle(globalList[i]),
           nextIndex' \in Nat \ {0}, nextIndex <= nextIndex',
           Full(x)' \cap Partial(x)' = {}, Own(x)' \cap (Full(x)' \cup Partial(x)') = {},
           Holds(x)' \cap used' = {},
           Holds(x)' \cup used' = Holds(x) \cup used \cup (nextIndex .. nextIndex' - 1)
    PROVE  LinksConserved'
<1> DEFINE F == FullOf
           P == PartialOf
           O == OwnOf
           G == SharedOf
           F2 == FullOf'
           P2 == PartialOf'
           O2 == OwnOf'
           n == Len(globalList)
           last == nextIndex - 1
           last2 == nextIndex' - 1
<1>1. Conserved(F, P, O, G, n, used, last)
  BY PlacedIs DEF TypeOK, Placed
<1>2. SharedOf' = SharedOf
  <2>1. SharedOf' = [i \in 1 .. Len(globalList) |-> BundleFrom(payload', globalList[i])]
    BY DEF SharedOf, Bundle
  <2>2. SharedOf = [i \in 1 .. Len(globalList) |-> Bundle(globalList[i])]
    BY DEF SharedOf
  <2>3. QED
    BY <2>1, <2>2
<1>3. \A y \in Procs : /\ F[y] = Full(y) /\ P[y] = Partial(y) /\ O[y] = Own(y)
                       /\ F2[y] = Full(y)' /\ P2[y] = Partial(y)' /\ O2[y] = Own(y)'
  BY DEF FullOf, PartialOf, OwnOf
<1>4. Has(F, P, O, x) = Holds(x) /\ Has(F2, P2, O2, x) = Holds(x)'
  BY <1>3 DEF Has, Holds, Full, Partial
<1>5. last \in Nat /\ last2 \in Nat /\ last <= last2 /\ last + 1 = nextIndex
  <2>1. nextIndex \in Nat \ {0}
    BY AllocatorAssumption DEF TypeOK
  <2>2. \A k, m \in Nat \ {0} : k <= m => /\ k - 1 \in Nat /\ m - 1 \in Nat /\ k - 1 <= m - 1
                                          /\ k - 1 + 1 = k
    OBVIOUS
  <2> HIDE DEF F, P, O, G, F2, P2, O2, n
  <2>3. QED
    BY <2>1, <2>2
<1>6. Conserved(F2, P2, O2, G, n, used', last2)
  <2> HIDE DEF F, P, O, G, F2, P2, O2, n, last
  <2>1. \A y \in Procs \ {x} : F2[y] = F[y] /\ P2[y] = P[y] /\ O2[y] = O[y]
    BY <1>3
  <2>2. F2[x] \cap P2[x] = {} /\ O2[x] \cap (F2[x] \cup P2[x]) = {} /\ Has(F2, P2, O2, x) \cap used' = {}
    BY <1>3, <1>4
  <2>3. Has(F2, P2, O2, x) \cup used' = Has(F, P, O, x) \cup used \cup (last + 1 .. last2)
    BY <1>4, <1>5
  <2> HIDE DEF last2
  <2>4. QED
    BY <1>1, <1>5, <2>1, <2>2, <2>3, ThreadMoves
<1>7. Placed'
  BY <1>2, <1>6 DEF Placed
<1>8. QED
  BY <1>7, PlacedIsPrime DEF TypeOK

\* What the end of Pop does to the bundle that it takes its link from.
TookFrom(x, tls, next) ==
    /\ tls.partial \in Links /\ tls.partial \in BundleFrom(next, tls.partial)
    /\ payload' = [next EXCEPT ![tls.partial] = 0]
    /\ payload' \in [Links -> 0 .. MaxTotalItems]
    /\ cache' = [cache EXCEPT ![x] = cache'[x]] /\ cache' \in [Procs -> Caches]
    /\ cache'[x].full = tls.full
    /\ LinkedBundle(payload', cache'[x].partial, cache'[x].num)
    /\ BundleFrom(payload', cache'[x].partial) = BundleFrom(next, tls.partial) \ {tls.partial}
    /\ current' = [current EXCEPT ![x] = tls.partial]
    /\ pc' = [pc EXCEPT ![x] = "use"]

\* HandOut does that to every bundle that has a link.
LEMMA HandsOut ==
    ASSUME TypeOK, NEW x \in Procs, NEW next \in [Links -> 0 .. MaxTotalItems],
           NEW tls \in Caches, tls.num # 0, LinkedBundle(next, tls.partial, tls.num),
           HandOut(x, tls, next)
    PROVE  TookFrom(x, tls, next)
<1> DEFINE b == tls.partial
           after == [tls EXCEPT !.partial = next[b], !.num = tls.num - 1]
<1>1. tls.num \in 1 .. NUM_PER_BUNDLE /\ tls.num \in 0 .. NUM_PER_BUNDLE
      /\ tls.num - 1 \in 0 .. NUM_PER_BUNDLE
  BY AllocatorAssumption DEF Caches
<1>2. b \in Links /\ b \in BundleFrom(next, b)
  BY <1>1, BundleFirst
<1>3. payload' = [next EXCEPT ![b] = 0] /\ payload' \in [Links -> 0 .. MaxTotalItems]
  <2>1. payload' = [next EXCEPT ![b] = 0] /\ 0 \in 0 .. MaxTotalItems
    BY AllocatorAssumption DEF HandOut
  <2>2. QED
    BY <1>2, <2>1
<1>4. cache' = [cache EXCEPT ![x] = after]
  BY DEF HandOut
<1>5. /\ LinkedBundle([next EXCEPT ![b] = 0], next[b], tls.num - 1)
      /\ BundleFrom([next EXCEPT ![b] = 0], next[b]) = BundleFrom(next, b) \ {b}
  BY <1>1, BundlePopped
<1>6. next[b] \in {0} \cup Links
  <2>1. tls.num - 1 = 0 \/ tls.num - 1 # 0
    OBVIOUS
  <2>2. QED
    BY <1>1, <1>5, <2>1, BundleFirst
<1>7. after.partial = next[b] /\ after.num = tls.num - 1 /\ after.full = tls.full /\ after \in Caches
  BY <1>1, <1>6 DEF Caches
<1> HIDE DEF after, b
<1>8. cache'[x] = after /\ cache' \in [Procs -> Caches] /\ cache' = [cache EXCEPT ![x] = cache'[x]]
  BY <1>4, <1>7 DEF TypeOK
<1>9. current' = [current EXCEPT ![x] = b] /\ pc' = [pc EXCEPT ![x] = "use"]
  BY DEF HandOut, b
<1>10. QED
  BY <1>2, <1>3, <1>5, <1>7, <1>8, <1>9 DEF b, TookFrom

\* The bundles of the threads but one, and the shared ones, after a step that leaves
\* the Payload of their links alone.
LEMMA OthersUntouched ==
    ASSUME TypeOK, BundlesLinked, NEW x \in Procs, NEW T,
           \A link \in Links \ T : payload'[link] = payload[link],
           cache' = [cache EXCEPT ![x] = cache'[x]],
           \A y \in Procs \ {x} : Holds(y) \cap T = {}
    PROVE  \A y \in Procs \ {x} :
              /\ cache'[y] = cache[y]
              /\ Full(y)' = Full(y) /\ Partial(y)' = Partial(y)
              /\ LinkedBundle(payload', cache'[y].partial, cache'[y].num)
              /\ LinkedBundle(payload', cache'[y].full, FullSize(y)')
<1>1. SUFFICES ASSUME NEW y \in Procs \ {x}
               PROVE  /\ cache'[y] = cache[y]
                      /\ Full(y)' = Full(y) /\ Partial(y)' = Partial(y)
                      /\ LinkedBundle(payload', cache'[y].partial, cache'[y].num)
                      /\ LinkedBundle(payload', cache'[y].full, FullSize(y)')
  OBVIOUS
<1>2. cache'[y] = cache[y]
  BY DEF TypeOK
<1>3. Bundle(cache[y].full) \cap T = {} /\ Bundle(cache[y].partial) \cap T = {}
  BY DEF Holds
<1>4. /\ LinkedBundle(payload', cache[y].partial, cache[y].num)
      /\ BundleFrom(payload', cache[y].partial) = Bundle(cache[y].partial)
  BY <1>3, Untouched, BundleFacts
<1>5. /\ LinkedBundle(payload', cache[y].full, FullSize(y))
      /\ BundleFrom(payload', cache[y].full) = Bundle(cache[y].full)
  BY <1>3, Untouched, BundleFacts
<1>6. QED
  BY <1>2, <1>4, <1>5 DEF Full, Partial, Bundle, FullSize

\* The bundles of the shared list, likewise.
LEMMA SharedUntouched ==
    ASSUME TypeOK, BundlesLinked, NEW T,
           \A link \in Links \ T : payload'[link] = payload[link]
    PROVE  \A i \in 1 .. Len(globalList) : Bundle(globalList[i]) \cap T = {} =>
              /\ LinkedBundle(payload', globalList[i], NUM_PER_BUNDLE)
              /\ BundleFrom(payload', globalList[i]) = Bundle(globalList[i])
<1>1. \A i \in 1 .. Len(globalList) : LinkedBundle(payload, globalList[i], NUM_PER_BUNDLE)
  BY BundleFacts
<1>2. NUM_PER_BUNDLE \in 0 .. NUM_PER_BUNDLE
  BY AllocatorAssumption
<1>3. QED
  BY <1>1, <1>2, Untouched

\* The parts of the invariant that say where links are, from what they say of each
\* thread and of the shared list.
LEMMA BundlesLinkedPrime ==
    ASSUME NEW x \in Procs,
           \A y \in Procs \ {x} : /\ LinkedBundle(payload', cache'[y].partial, cache'[y].num)
                                  /\ LinkedBundle(payload', cache'[y].full, FullSize(y)'),
           LinkedBundle(payload', cache'[x].partial, cache'[x].num),
           LinkedBundle(payload', cache'[x].full, FullSize(x)'),
           \A i \in 1 .. Len(globalList') : LinkedBundle(payload', globalList'[i], NUM_PER_BUNDLE),
           (globalList \in Seq(Links))'
    PROVE  BundlesLinked'
<1>1. \A y \in Procs : /\ LinkedBundle(payload', cache'[y].partial, cache'[y].num)
                       /\ LinkedBundle(payload', cache'[y].full, FullSize(y)')
  OBVIOUS
<1>2. DOMAIN globalList' = 1 .. Len(globalList')
  OBVIOUS
<1>3. QED
  BY <1>1, <1>2 DEF BundlesLinked, FullSize

-----------------------------------------------------------------------------
(* The steps that hand a link out, and those of its user. *)

\* The parts of the invariant that the places depend on.
Where == TypeOK /\ BundlesLinked /\ LinksConserved /\ CutInOrder

\* A thread that is not cutting new links has none of its own.
LEMMA NoneOwned ==
    ASSUME CutInOrder, NEW x \in Procs, pc[x] \in {"idle", "reserve"}
    PROVE  Own(x) = {} /\ first[x] = 0
  BY DEF CutInOrder, InOrder, Own

\* Own links of a thread depend on its own variables only.
LEMMA OthersOwn ==
    ASSUME TypeOK, NEW x \in Procs, pc' = [pc EXCEPT ![x] = pc'[x]],
           first' = [first EXCEPT ![x] = first'[x]],
           current' = [current EXCEPT ![x] = current'[x]]
    PROVE  \A y \in Procs \ {x} : /\ Own(y)' = Own(y)
                                  /\ pc'[y] = pc[y] /\ first'[y] = first[y] /\ current'[y] = current[y]
<1>1. \A y \in Procs \ {x} : pc'[y] = pc[y] /\ first'[y] = first[y] /\ current'[y] = current[y]
  BY DEF TypeOK
<1>2. QED
  BY <1>1 DEF Own, NewLinks

\* A step that hands out a link that was in one of the thread's own bundles, or
\* among those that it has just cut: "next" is Payload when the bundle is found, S
\* its links.
LEMMA HandOutPlaces ==
    ASSUME Where, NEW x \in Procs, NEW next \in [Links -> 0 .. MaxTotalItems],
           NEW tls \in Caches, tls.num # 0, LinkedBundle(next, tls.partial, tls.num),
           HandOut(x, tls, next),
           NEW T \in SUBSET Links, T \subseteq Holds(x), \A link \in Links \ T : next[link] = payload[link],
           BundleFrom(next, tls.partial) \subseteq Holds(x),
           tls.full = 0 \/ (tls.full = cache[x].full /\ Full(x) \cap T = {}
                              /\ Full(x) \cap BundleFrom(next, tls.partial) = {}),
           BundleFrom(next, tls.partial) \cup (IF tls.full = 0 THEN {} ELSE Full(x)) = Holds(x),
           first' = [first EXCEPT ![x] = 0],
           globalList' = globalList, nextIndex' = nextIndex, used' = used
    PROVE  /\ BundlesLinked' /\ LinksConserved'
           /\ Full(x)' \cup Partial(x)' \subseteq Holds(x) \ {tls.partial}
           /\ tls.partial \in Holds(x)
           /\ \A y \in Procs \ {x} : Full(y)' = Full(y) /\ Partial(y)' = Partial(y)
           /\ \A i \in 1 .. Len(globalList) : BundleFrom(payload', globalList[i]) = Bundle(globalList[i])
<1> DEFINE b == tls.partial
           S == BundleFrom(next, b)
<1>1. /\ b \in Links /\ b \in S
      /\ payload' = [next EXCEPT ![b] = 0]
      /\ cache' = [cache EXCEPT ![x] = cache'[x]] /\ cache'[x].full = tls.full
      /\ LinkedBundle(payload', cache'[x].partial, cache'[x].num)
      /\ BundleFrom(payload', cache'[x].partial) = S \ {b}
      /\ current' = [current EXCEPT ![x] = b] /\ pc' = [pc EXCEPT ![x] = "use"]
  BY HandsOut DEF Where, TookFrom
<1>2. current'[x] = b /\ pc'[x] = "use" /\ first'[x] = 0
  BY <1>1 DEF Where, TypeOK
<1>3. b \in Holds(x) /\ Own(x)' = {b} /\ Partial(x)' = S \ {b}
  BY <1>1, <1>2 DEF Own, Partial, Bundle
<1> HIDE DEF b, S
<1> DEFINE U == T \cup {b}
<1>4. U \subseteq Holds(x) /\ \A link \in Links \ U : payload'[link] = payload[link]
  BY <1>1, <1>3
<1>5. /\ \A y \in Procs \ {x} : Holds(y) \cap U = {}
      /\ \A i \in 1 .. Len(globalList) : Bundle(globalList[i]) \cap U = {}
  BY <1>4, PlacesApart DEF Where
<1>6. \A y \in Procs \ {x} :
          /\ Full(y)' = Full(y) /\ Partial(y)' = Partial(y) /\ Own(y)' = Own(y)
          /\ LinkedBundle(payload', cache'[y].partial, cache'[y].num)
          /\ LinkedBundle(payload', cache'[y].full, FullSize(y)')
  <2>1. \A y \in Procs \ {x} :
          /\ Full(y)' = Full(y) /\ Partial(y)' = Partial(y)
          /\ LinkedBundle(payload', cache'[y].partial, cache'[y].num)
          /\ LinkedBundle(payload', cache'[y].full, FullSize(y)')
    <3> HIDE DEF U
    <3>1. QED
      BY <1>1, <1>4, <1>5, OthersUntouched DEF Where
  <2>2. \A y \in Procs \ {x} : Own(y)' = Own(y)
    BY <1>1, <1>2, OthersOwn DEF Where
  <2>3. QED
    BY <2>1, <2>2
<1>7. \A i \in 1 .. Len(globalList) :
          /\ LinkedBundle(payload', globalList[i], NUM_PER_BUNDLE)
          /\ BundleFrom(payload', globalList[i]) = Bundle(globalList[i])
  <2> HIDE DEF U
  <2>1. QED
    BY <1>4, <1>5, SharedUntouched DEF Where
<1>8. /\ Full(x)' = IF tls.full = 0 THEN {} ELSE Full(x)
      /\ LinkedBundle(payload', cache'[x].full, FullSize(x)')
  <2>1. CASE tls.full = 0
    <3>1. FullSize(x)' = 0 /\ cache'[x].full = 0
      BY <1>1, <2>1 DEF FullSize
    <3>2. QED
      BY <2>1, <3>1, EmptyBundle DEF Full, Bundle
  <2>2. CASE tls.full # 0
    <3>1. tls.full = cache[x].full /\ cache'[x].full = cache[x].full /\ FullSize(x)' = FullSize(x)
      BY <1>1, <2>2 DEF FullSize
    <3>2. Bundle(cache[x].full) \cap U = {}
      BY <1>1, <2>2 DEF Full, S, b
    <3>3. LinkedBundle(payload, cache[x].full, FullSize(x)) /\ FullSize(x) \in 0 .. NUM_PER_BUNDLE
      BY BundleFacts DEF Where
    <3> HIDE DEF U
    <3>4. /\ LinkedBundle(payload', cache[x].full, FullSize(x))
          /\ BundleFrom(payload', cache[x].full) = Bundle(cache[x].full)
      BY <1>4, <3>2, <3>3, Untouched
    <3>5. QED
      BY <2>2, <3>1, <3>4 DEF Full, Bundle
  <2>3. QED
    BY <2>1, <2>2
<1>9. /\ Full(x)' \cap Partial(x)' = {} /\ Own(x)' \cap (Full(x)' \cup Partial(x)') = {}
      /\ Full(x)' \cup Partial(x)' \cup Own(x)' = Holds(x)
  BY <1>1, <1>3, <1>8 DEF S, b
<1>10. Holds(x)' = Holds(x)
  BY <1>9 DEF Holds, Full, Partial
<1>11. BundlesLinked'
  BY <1>1, <1>6, <1>7, <1>8, BundlesLinkedPrime DEF Where, TypeOK
<1>12. LinksConserved'
  <2>1. nextIndex \in Nat \ {0} /\ nextIndex .. nextIndex - 1 = {}
    BY PlacesApart DEF Where
  <2>2. Holds(x)' \cap used' = {} /\ Holds(x)' \cup used' = Holds(x) \cup used
    BY <1>10, PlacesApart DEF Where
  <2>3. QED
    BY <1>6, <1>7, <1>9, <2>1, <2>2, PlacesMove DEF Where
<1>13. QED
  BY <1>3, <1>6, <1>7, <1>9, <1>11, <1>12 DEF b

\* What a step of one thread that hands out a link leaves well typed.
LEMMA HandOutTyped ==
    ASSUME TypeOK, NEW x \in Procs, NEW b \in Links,
           payload' \in [Links -> 0 .. MaxTotalItems], cache' \in [Procs -> Caches],
           current' = [current EXCEPT ![x] = b], pc' = [pc EXCEPT ![x] = "use"],
           first' = [first EXCEPT ![x] = 0], globalList' \in Seq(Links),
           singleNext' \in [Links -> {0} \cup Links], doubleNext' \in [Links -> BOOLEAN],
           UNCHANGED <<nextIndex, pages, constructed, used>>
    PROVE  TypeOK'
<1>1. b \in 0 .. MaxTotalItems
  BY AllocatorAssumption DEF Links
<1>2. current' \in [Procs -> 0 .. MaxTotalItems] /\ pc' \in [Procs -> {"idle", "use", "reserve"} \cup Cutting]
      /\ first' \in [Procs -> {0} \cup Links]
  BY <1>1 DEF TypeOK
<1>3. QED
  BY <1>2 DEF TypeOK

\* The first link of the bundle that Pop takes is handed out of it.
LEMMA PopCachedPlaces ==
    ASSUME Where, NEW x \in Procs, PopCached(x)
    PROVE  /\ TypeOK' /\ BundlesLinked' /\ LinksConserved'
           /\ \E b \in Full(x) \cup Partial(x) :
                /\ payload' = [payload EXCEPT ![b] = 0]
                /\ cache' = [cache EXCEPT ![x] = cache'[x]]
                /\ current' = [current EXCEPT ![x] = b] /\ pc' = [pc EXCEPT ![x] = "use"]
                /\ first' = [first EXCEPT ![x] = 0]
                /\ Full(x)' \cup Partial(x)' \subseteq Full(x) \cup Partial(x)
                /\ \A y \in Procs \ {x} : Full(y)' = Full(y) /\ Partial(y)' = Partial(y)
                /\ \A i \in 1 .. Len(globalList) : BundleFrom(payload', globalList[i]) = Bundle(globalList[i])
<1>1. pc[x] = "idle" /\ first[x] = 0 /\ Own(x) = {}
  BY NoneOwned DEF PopCached, Where
<1>2. /\ first' = [first EXCEPT ![x] = 0]
      /\ UNCHANGED <<globalList, singleNext, doubleNext, nextIndex, pages, constructed, used>>
  BY <1>1 DEF PopCached, Where, TypeOK
<1>3. Holds(x) = Full(x) \cup Partial(x) /\ Full(x) \cap Partial(x) = {}
  <2>1. Bundle(cache[x].full) \cap Bundle(cache[x].partial) = {}
    BY DEF Where, LinksConserved
  <2>2. QED
    BY <1>1, <2>1 DEF Holds, Full, Partial
<1>4. /\ payload \in [Links -> 0 .. MaxTotalItems] /\ cache[x] \in Caches
      /\ NUM_PER_BUNDLE \in Nat \ {0} /\ NUM_PER_BUNDLE \in 0 .. NUM_PER_BUNDLE
      /\ LinkedBundle(payload, cache[x].partial, cache[x].num)
      /\ LinkedBundle(payload, cache[x].full, FullSize(x))
      /\ cache[x].partial = 0 <=> cache[x].num = 0
      /\ cache[x].partial = 0 => Partial(x) = {}
      /\ cache[x].full = 0 => Full(x) = {}
  BY AllocatorAssumption, BundleFacts DEF Where, TypeOK
<1>5. \E tls \in Caches :
          /\ tls.num # 0 /\ LinkedBundle(payload, tls.partial, tls.num)
          /\ HandOut(x, tls, payload)
          /\ tls.full = 0 \/ (tls.full = cache[x].full /\ Full(x) \cap Bundle(tls.partial) = {})
          /\ Bundle(tls.partial) \cup (IF tls.full = 0 THEN {} ELSE Full(x)) = Holds(x)
  <2>1. CASE cache[x].partial # 0
    <3>1. HandOut(x, cache[x], payload)
      BY <2>1 DEF PopCached
    <3>2. Bundle(cache[x].partial) \cup (IF cache[x].full = 0 THEN {} ELSE Full(x)) = Holds(x)
      BY <1>3, <1>4 DEF Partial
    <3>3. Full(x) \cap Bundle(cache[x].partial) = {}
      BY <1>3 DEF Partial
    <3>4. QED
      BY <1>4, <2>1, <3>1, <3>2, <3>3
  <2>2. CASE cache[x].partial = 0
    <3> DEFINE tls == [full |-> 0, partial |-> cache[x].full, num |-> NUM_PER_BUNDLE]
    <3>1. cache[x].full # 0 /\ HandOut(x, tls, payload)
      BY <2>2 DEF PopCached
    <3>2. /\ tls.full = 0 /\ tls.partial = cache[x].full /\ tls.num = NUM_PER_BUNDLE
          /\ cache[x].full \in {0} \cup Links
      BY <1>4 DEF Caches
    <3>3. tls \in Caches
      BY <1>4, <3>2 DEF Caches
    <3>4. Bundle(tls.partial) = Holds(x) /\ FullSize(x) = NUM_PER_BUNDLE
      BY <1>3, <1>4, <2>2, <3>1, <3>2 DEF Full, FullSize
    <3> HIDE DEF tls
    <3>5. QED
      BY <1>4, <3>1, <3>2, <3>3, <3>4
  <2>3. QED
    BY <2>1, <2>2
<1>6. PICK tls \in Caches :
          /\ tls.num # 0 /\ LinkedBundle(payload, tls.partial, tls.num)
          /\ HandOut(x, tls, payload)
          /\ tls.full = 0 \/ (tls.full = cache[x].full /\ Full(x) \cap Bundle(tls.partial) = {})
          /\ Bundle(tls.partial) \cup (IF tls.full = 0 THEN {} ELSE Full(x)) = Holds(x)
  BY <1>5
<1>7. /\ tls.partial \in Links
      /\ payload' = [payload EXCEPT ![tls.partial] = 0]
      /\ payload' \in [Links -> 0 .. MaxTotalItems]
      /\ cache' = [cache EXCEPT ![x] = cache'[x]] /\ cache' \in [Procs -> Caches]
      /\ current' = [current EXCEPT ![x] = tls.partial] /\ pc' = [pc EXCEPT ![x] = "use"]
  BY <1>4, <1>6, HandsOut DEF Where, TookFrom
<1>8. BundleFrom(payload, tls.partial) = Bundle(tls.partial)
  BY DEF Bundle
<1>9. /\ BundlesLinked' /\ LinksConserved'
      /\ Full(x)' \cup Partial(x)' \subseteq Holds(x) \ {tls.partial}
      /\ tls.partial \in Holds(x)
      /\ \A y \in Procs \ {x} : Full(y)' = Full(y) /\ Partial(y)' = Partial(y)
      /\ \A i \in 1 .. Len(globalList) : BundleFrom(payload', globalList[i]) = Bundle(globalList[i])
  <2>1. {} \in SUBSET Links /\ {} \subseteq Holds(x) /\ \A link \in Links \ {} : payload[link] = payload[link]
    OBVIOUS
  <2>2. BundleFrom(payload, tls.partial) \subseteq Holds(x)
    BY <1>6, <1>8
  <2>3. /\ tls.full = 0 \/ (tls.full = cache[x].full /\ Full(x) \cap {} = {}
                              /\ Full(x) \cap BundleFrom(payload, tls.partial) = {})
        /\ BundleFrom(payload, tls.partial) \cup (IF tls.full = 0 THEN {} ELSE Full(x)) = Holds(x)
    BY <1>6, <1>8
  <2>4. globalList' = globalList /\ nextIndex' = nextIndex /\ used' = used
    BY <1>2
  <2>5. QED
    BY <1>2, <1>4, <1>6, <2>1, <2>2, <2>3, <2>4, HandOutPlaces
<1>10. TypeOK'
  BY <1>2, <1>7, HandOutTyped DEF Where, TypeOK
<1>11. QED
  BY <1>2, <1>3, <1>7, <1>9, <1>10

\* The links that a thread cuts are links, and its own.
LEMMA NewLinksAreOwn ==
    ASSUME TypeOK, CutInOrder, NEW x \in Procs, pc[x] \in Cutting
    PROVE  /\ first[x] \in Nat \ {0} /\ NUM_PER_BUNDLE \in Nat \ {0}
           /\ first[x] + NUM_PER_BUNDLE \in Nat /\ first[x] + NUM_PER_BUNDLE <= nextIndex
           /\ NewLinks(x) \subseteq Links /\ NewLinks(x) = first[x] .. first[x] + NUM_PER_BUNDLE - 1
           /\ Own(x) = NewLinks(x)
           /\ cache[x].partial = 0 /\ cache[x].full = 0
<1>1. /\ first[x] # 0 /\ first[x] + NUM_PER_BUNDLE <= nextIndex
      /\ cache[x].partial = 0 /\ cache[x].full = 0 /\ pc[x] # "use"
  BY DEF CutInOrder, InOrder, Cutting
<1>2. first[x] \in {0} \cup Links /\ nextIndex \in 1 .. MaxTotalItems
  BY DEF TypeOK
<1>3. first[x] \in Nat \ {0} /\ nextIndex \in Nat /\ nextIndex <= MaxTotalItems
  BY <1>1, <1>2, AllocatorAssumption DEF Links
<1>4. NUM_PER_BUNDLE \in Nat \ {0} /\ MaxTotalItems \in Nat
  BY AllocatorAssumption
<1>5. first[x] .. first[x] + NUM_PER_BUNDLE - 1 \subseteq 1 .. MaxTotalItems - 1
  <2>1. \A a, b, c, d \in Nat : a # 0 /\ a + b <= c /\ c <= d => a .. a + b - 1 \subseteq 1 .. d - 1
    OBVIOUS
  <2>2. QED
    BY <1>1, <1>3, <1>4, <2>1
<1>6. first[x] + NUM_PER_BUNDLE \in Nat
  BY <1>3, <1>4
<1>7. NewLinks(x) = first[x] .. first[x] + NUM_PER_BUNDLE - 1
  BY DEF NewLinks
<1>8. Own(x) = NewLinks(x)
  BY <1>1 DEF Own
<1>9. QED
  BY <1>1, <1>3, <1>4, <1>5, <1>6, <1>7, <1>8 DEF Links

\* The last of the new links is handed out of the bundle that they become.
LEMMA ChainPlaces ==
    ASSUME Where, NEW x \in Procs, ChainNewLinks(x)
    PROVE  /\ TypeOK' /\ BundlesLinked' /\ LinksConserved'
           /\ pc[x] = "chain"
           /\ \E b \in NewLinks(x) :
                /\ payload'[b] = 0 /\ \A link \in Links \ NewLinks(x) : payload'[link] = payload[link]
                /\ cache' = [cache EXCEPT ![x] = cache'[x]]
                /\ current' = [current EXCEPT ![x] = b] /\ pc' = [pc EXCEPT ![x] = "use"]
                /\ first' = [first EXCEPT ![x] = 0]
                /\ Full(x)' \cup Partial(x)' \subseteq NewLinks(x)
                /\ \A y \in Procs \ {x} : Full(y)' = Full(y) /\ Partial(y)' = Partial(y)
                /\ \A i \in 1 .. Len(globalList) : BundleFrom(payload', globalList[i]) = Bundle(globalList[i])
<1> DEFINE f == first[x]
           N == NUM_PER_BUNDLE
           next == [l \in Links |-> IF l = first[x] THEN 0
                                    ELSE IF l \in NewLinks(x) THEN l - 1 ELSE payload[l]]
           tls == [full |-> 0, partial |-> f + N - 1, num |-> N]
           T == NewLinks(x)
<1>1. pc[x] = "chain" /\ pc[x] \in Cutting
  BY DEF ChainNewLinks, Cutting
<1>2. /\ f \in Nat \ {0} /\ N \in Nat \ {0} /\ T \subseteq Links /\ T = f .. f + N - 1 /\ Own(x) = T
      /\ cache[x].partial = 0 /\ cache[x].full = 0
  BY <1>1, NewLinksAreOwn DEF Where
<1>3. /\ HandOut(x, tls, next) /\ first' = [first EXCEPT ![x] = 0]
      /\ UNCHANGED <<globalList, nextIndex, pages, constructed, used>>
  BY DEF ChainNewLinks
<1>4. \A l \in Links : next[l] = IF l = f THEN 0 ELSE IF l \in T THEN l - 1 ELSE payload[l]
  OBVIOUS
<1>5. next \in [Links -> 0 .. MaxTotalItems]
  <2>1. \A l \in Links : /\ 0 \in 0 .. MaxTotalItems /\ l - 1 \in 0 .. MaxTotalItems
                         /\ payload[l] \in 0 .. MaxTotalItems
    BY AllocatorAssumption DEF Links, Where, TypeOK
  <2> HIDE DEF f, T
  <2>2. QED
    BY <2>1
<1>6. tls.full = 0 /\ tls.partial = f + N - 1 /\ tls.num = N
  OBVIOUS
<1> HIDE DEF tls, next
<1>7. LinkedBundle(next, f + N - 1, N) /\ BundleFrom(next, f + N - 1) = T
  <2>1. N \in 1 .. NUM_PER_BUNDLE
    BY <1>2
  <2>2. f \in Links /\ next[f] = 0
    BY <1>2, <1>4
  <2>3. \A link \in f + 1 .. f + N - 1 : next[link] = link - 1
    <3>1. TAKE link \in f + 1 .. f + N - 1
    <3>2. link \in T /\ link # f
      BY <1>2
    <3>3. link \in Links
      BY <1>2, <3>2
    <3>4. QED
      BY <1>4, <3>2, <3>3
  <2>4. f \in Nat /\ f .. f + N - 1 \subseteq Links
    BY <1>2
  <2> HIDE DEF f, N, T
  <2>5. LinkedBundle(next, f + N - 1, N) /\ BundleFrom(next, f + N - 1) = f .. f + N - 1
    BY <2>1, <2>2, <2>3, <2>4, BundleOfNewLinks
  <2>6. QED
    BY <1>2, <2>5
<1>8. f + N - 1 \in T
  BY <1>2
<1>9. tls \in Caches
  <2>1. tls = [full |-> 0, partial |-> f + N - 1, num |-> N] /\ f + N - 1 \in Links /\ N \in 0 .. NUM_PER_BUNDLE
    BY <1>2, <1>8 DEF tls
  <2> HIDE DEF f, N
  <2>2. QED
    BY <2>1 DEF Caches
<1>10. Holds(x) = T
  <2>1. Full(x) = {} /\ Partial(x) = {}
    BY <1>2, BundleFacts DEF Where
  <2>2. QED
    BY <1>2, <2>1 DEF Holds, Full, Partial
<1> HIDE DEF f, N, T
<1>11. tls.num # 0 /\ LinkedBundle(next, tls.partial, tls.num) /\ BundleFrom(next, tls.partial) = T
  BY <1>2, <1>6, <1>7
<1>12. /\ tls.partial \in Links
       /\ payload' = [next EXCEPT ![tls.partial] = 0]
       /\ payload' \in [Links -> 0 .. MaxTotalItems]
       /\ cache' = [cache EXCEPT ![x] = cache'[x]] /\ cache' \in [Procs -> Caches]
       /\ current' = [current EXCEPT ![x] = tls.partial] /\ pc' = [pc EXCEPT ![x] = "use"]
  BY <1>3, <1>5, <1>9, <1>11, HandsOut DEF Where, TookFrom
<1>13. /\ BundlesLinked' /\ LinksConserved'
       /\ Full(x)' \cup Partial(x)' \subseteq Holds(x) \ {tls.partial}
       /\ \A y \in Procs \ {x} : Full(y)' = Full(y) /\ Partial(y)' = Partial(y)
       /\ \A i \in 1 .. Len(globalList) : BundleFrom(payload', globalList[i]) = Bundle(globalList[i])
  <2>1. T \in SUBSET Links /\ T \subseteq Holds(x) /\ \A link \in Links \ T : next[link] = payload[link]
    <3>1. f \in T
      BY <1>2
    <3>2. QED
      BY <1>2, <1>4, <1>10, <3>1
  <2>2. BundleFrom(next, tls.partial) \subseteq Holds(x)
    BY <1>10, <1>11
  <2>3. /\ tls.full = 0 \/ (tls.full = cache[x].full /\ Full(x) \cap T = {}
                              /\ Full(x) \cap BundleFrom(next, tls.partial) = {})
        /\ BundleFrom(next, tls.partial) \cup (IF tls.full = 0 THEN {} ELSE Full(x)) = Holds(x)
    BY <1>6, <1>10, <1>11
  <2>4. globalList' = globalList /\ nextIndex' = nextIndex /\ used' = used
    BY <1>3
  <2>5. QED
    BY <1>3, <1>5, <1>9, <1>11, <2>1, <2>2, <2>3, <2>4, HandOutPlaces
<1>14. TypeOK'
  <2>1. singleNext' \in [Links -> {0} \cup Links] /\ doubleNext' \in [Links -> BOOLEAN]
    BY DEF ChainNewLinks, Where, TypeOK
  <2>2. QED
    BY <1>3, <1>12, <2>1, HandOutTyped DEF Where, TypeOK
<1>15. /\ payload'[tls.partial] = 0 /\ tls.partial \in T
       /\ \A link \in Links \ T : payload'[link] = payload[link]
  <2>1. tls.partial \in T
    BY <1>6, <1>8
  <2>2. f \in T
    BY <1>2
  <2>3. QED
    BY <1>4, <1>5, <1>12, <2>1, <2>2
<1>16. PICK b : b = tls.partial
  OBVIOUS
<1>17. /\ b \in T /\ payload'[b] = 0 /\ \A link \in Links \ T : payload'[link] = payload[link]
       /\ cache' = [cache EXCEPT ![x] = cache'[x]]
       /\ current' = [current EXCEPT ![x] = b] /\ pc' = [pc EXCEPT ![x] = "use"]
       /\ first' = [first EXCEPT ![x] = 0]
  BY <1>3, <1>12, <1>15, <1>16
<1>18. /\ Full(x)' \cup Partial(x)' \subseteq T
       /\ \A y \in Procs \ {x} : Full(y)' = Full(y) /\ Partial(y)' = Partial(y)
       /\ \A i \in 1 .. Len(globalList) : BundleFrom(payload', globalList[i]) = Bundle(globalList[i])
  BY <1>10, <1>13
<1>19. T = NewLinks(x)
  BY DEF T
<1>20. QED
  BY <1>1, <1>13, <1>14, <1>17, <1>18, <1>19

\* The shared list has a bundle.
SomeShared == globalList # <<>>

\* The first link of the first shared bundle is handed out; the thread keeps the others.
LEMMA PopGlobalPlaces ==
    ASSUME Where, NEW x \in Procs, PopGlobal(x), SomeShared
    PROVE  /\ TypeOK' /\ BundlesLinked' /\ LinksConserved'
           /\ \E b \in Bundle(globalList[1]) :
                /\ b = globalList[1]
                /\ payload' = [payload EXCEPT ![b] = 0]
                /\ singleNext' = [singleNext EXCEPT ![b] = 0]
                /\ cache' = [cache EXCEPT ![x] = cache'[x]]
                /\ current' = [current EXCEPT ![x] = b] /\ pc' = [pc EXCEPT ![x] = "use"]
                /\ first' = [first EXCEPT ![x] = 0]
                /\ Full(x)' \cup Partial(x)' \subseteq Bundle(b) \ {b}
                /\ \A y \in Procs \ {x} : Full(y)' = Full(y) /\ Partial(y)' = Partial(y)
                /\ Len(globalList') = Len(globalList) - 1
                /\ \A i \in 1 .. Len(globalList') :
                      /\ i + 1 \in 1 .. Len(globalList) /\ globalList'[i] = globalList[i + 1]
                      /\ Bundle(globalList[i])' = Bundle(globalList[i + 1])
<1> DEFINE b == globalList[1]
           tls == [full |-> 0, partial |-> b, num |-> NUM_PER_BUNDLE]
           n == Len(globalList)
           S == Bundle(b)
<1>1. /\ pc[x] = "idle" /\ first[x] = 0 /\ Own(x) = {} /\ cache[x].partial = 0 /\ cache[x].full = 0
  BY NoneOwned DEF PopGlobal, Where
<1>2. Full(x) = {} /\ Partial(x) = {}
  BY <1>1, BundleFacts DEF Where
<1>3. globalList \in Seq(Links) /\ n \in Nat \ {0} /\ 1 \in 1 .. n
  <2>1. globalList \in Seq(Links)
    BY DEF Where, TypeOK
  <2>2. QED
    BY <2>1 DEF SomeShared
<1>4. b \in Links /\ LinkedBundle(payload, b, NUM_PER_BUNDLE) /\ NUM_PER_BUNDLE \in Nat \ {0}
  BY <1>3, BundleFacts DEF Where
<1>5. /\ globalList' = Tail(globalList) /\ first' = first
      /\ UNCHANGED <<doubleNext, nextIndex, pages, constructed, used>>
      /\ singleNext' = [singleNext EXCEPT ![b] = 0] /\ HandOut(x, tls, payload)
  BY <1>1, <1>3 DEF PopGlobal, SomeShared
<1>6. tls.full = 0 /\ tls.partial = b /\ tls.num = NUM_PER_BUNDLE /\ tls \in Caches
  BY <1>4 DEF Caches
<1> HIDE DEF tls
<1>7. /\ b \in Bundle(b)
      /\ payload' = [payload EXCEPT ![b] = 0]
      /\ payload' \in [Links -> 0 .. MaxTotalItems]
      /\ cache' = [cache EXCEPT ![x] = cache'[x]] /\ cache' \in [Procs -> Caches]
      /\ cache'[x].full = 0
      /\ LinkedBundle(payload', cache'[x].partial, cache'[x].num)
      /\ BundleFrom(payload', cache'[x].partial) = Bundle(b) \ {b}
      /\ current' = [current EXCEPT ![x] = b] /\ pc' = [pc EXCEPT ![x] = "use"]
  <2>1. payload \in [Links -> 0 .. MaxTotalItems] /\ tls.num # 0
        /\ LinkedBundle(payload, tls.partial, tls.num)
    BY <1>4, <1>6 DEF Where, TypeOK
  <2>2. Bundle(b) = BundleFrom(payload, b)
    BY DEF Bundle
  <2>8. HandOut(x, tls, payload) /\ tls \in Caches
    BY <1>5, <1>6
  <2>3. PICK with : with = tls
    OBVIOUS
  <2>4. /\ payload \in [Links -> 0 .. MaxTotalItems] /\ with.num # 0 /\ with \in Caches
        /\ LinkedBundle(payload, with.partial, with.num) /\ HandOut(x, with, payload)
    BY <2>1, <2>8, <2>3
  <2> HIDE DEF b, n, S
  <2>5. TookFrom(x, with, payload)
    BY <2>4, HandsOut DEF Where
  <2>6. with.partial = b /\ with.full = 0
    BY <1>6, <2>3
  <2>7. QED
    BY <2>2, <2>5, <2>6 DEF TookFrom
<1>8. /\ globalList' \in Seq(Links) /\ Len(globalList') = n - 1 /\ n - 1 \in Nat
      /\ \A i \in 1 .. n - 1 : i + 1 \in 1 .. n /\ i + 1 # 1 /\ globalList'[i] = globalList[i + 1]
  BY <1>3, <1>5
<1>9. first' = [first EXCEPT ![x] = 0]
  BY <1>1, <1>5 DEF Where, TypeOK
<1>10. TypeOK'
  <2>1. singleNext' \in [Links -> {0} \cup Links]
    BY <1>5 DEF Where, TypeOK
  <2> HIDE DEF b
  <2>2. QED
    BY <1>4, <1>5, <1>7, <1>8, <1>9, <2>1, HandOutTyped DEF Where, TypeOK
<1>11. \A link \in Links \ {b} : payload'[link] = payload[link]
  BY <1>7 DEF Where, TypeOK
<1>12. /\ \A y \in Procs : Holds(y) \cap S = {}
       /\ \A i \in 1 .. n : i # 1 => Bundle(globalList[i]) \cap S = {}
  <2>1. \A y \in Procs : \A i \in 1 .. n : Holds(y) \cap Bundle(globalList[i]) = {}
    BY PlacesApart DEF Where
  <2>2. \A i, j \in 1 .. n : i # j => Bundle(globalList[i]) \cap Bundle(globalList[j]) = {}
    BY PlacesApart DEF Where
  <2>3. QED
    BY <1>3, <2>1, <2>2
<1>13. \A y \in Procs \ {x} :
          /\ Full(y)' = Full(y) /\ Partial(y)' = Partial(y)
          /\ LinkedBundle(payload', cache'[y].partial, cache'[y].num)
          /\ LinkedBundle(payload', cache'[y].full, FullSize(y)')
  <2>1. \A y \in Procs \ {x} : Holds(y) \cap {b} = {}
    BY <1>7, <1>12
  <2> HIDE DEF b
  <2>2. QED
    BY <1>7, <1>11, <2>1, OthersUntouched DEF Where
<1>14. \A i \in 1 .. n - 1 : /\ LinkedBundle(payload', globalList'[i], NUM_PER_BUNDLE)
                             /\ BundleFrom(payload', globalList'[i]) = Bundle(globalList[i + 1])
  <2>1. \A i \in 1 .. n : i # 1 => Bundle(globalList[i]) \cap {b} = {}
    BY <1>7, <1>12
  <2>2. \A i \in 1 .. n : Bundle(globalList[i]) \cap {b} = {} =>
              /\ LinkedBundle(payload', globalList[i], NUM_PER_BUNDLE)
              /\ BundleFrom(payload', globalList[i]) = Bundle(globalList[i])
    <3> HIDE DEF b
    <3>1. QED
      BY <1>11, SharedUntouched DEF Where
  <2>3. QED
    BY <1>8, <2>1, <2>2
<1>15. FullSize(x)' = 0 /\ Full(x)' = {} /\ Partial(x)' = S \ {b} /\ Own(x)' = {b}
       /\ LinkedBundle(payload', cache'[x].full, FullSize(x)')
  <2>1. current'[x] = b /\ pc'[x] = "use"
    BY <1>7 DEF Where, TypeOK
  <2>2. Own(x)' = {b} /\ FullSize(x)' = 0 /\ cache'[x].full = 0
    BY <1>7, <2>1 DEF Own, FullSize
  <2>3. Full(x)' = {} /\ LinkedBundle(payload', cache'[x].full, FullSize(x)')
    BY <2>2, EmptyBundle DEF Full, Bundle
  <2>4. Partial(x)' = S \ {b}
    BY <1>7 DEF Partial, Bundle
  <2>5. QED
    BY <2>2, <2>3, <2>4
<1>16. BundlesLinked'
  <2>1. \A i \in 1 .. Len(globalList') : LinkedBundle(payload', globalList'[i], NUM_PER_BUNDLE)
    BY <1>8, <1>14
  <2>2. QED
    BY <1>7, <1>8, <1>13, <1>15, <2>1, BundlesLinkedPrime
<1> HIDE DEF b, n, S
<1>17. \A y \in Procs \ {x} : Own(y)' = Own(y)
  <2>1. pc' = [pc EXCEPT ![x] = pc'[x]] /\ first' = [first EXCEPT ![x] = first'[x]]
        /\ current' = [current EXCEPT ![x] = current'[x]]
    BY <1>7, <1>9 DEF Where, TypeOK
  <2>2. QED
    BY <2>1, OthersOwn DEF Where
<1>18. LinksConserved'
  <2> DEFINE F == FullOf
             P == PartialOf
             O == OwnOf
             G == SharedOf
             F2 == FullOf'
             P2 == PartialOf'
             O2 == OwnOf'
             G2 == SharedOf'
             last == nextIndex - 1
             P1 == [P EXCEPT ![x] = G[1]]
  <2>1. Conserved(F, P, O, G, n, used, last)
    BY PlacedIs DEF Where, TypeOK, Placed, n
  <2>2. \A y \in Procs : /\ F[y] = Full(y) /\ P[y] = Partial(y) /\ O[y] = Own(y)
                         /\ F2[y] = Full(y)' /\ P2[y] = Partial(y)' /\ O2[y] = Own(y)'
    BY DEF FullOf, PartialOf, OwnOf
  <2>3. \A i \in 1 .. n : G[i] = Bundle(globalList[i])
    BY DEF SharedOf, n
  <2>4. G2 = [i \in 1 .. Len(globalList') |-> BundleFrom(payload', globalList'[i])]
    BY DEF SharedOf, Bundle
  <2>5. \A i \in 1 .. n - 1 : G2[i] = G[i + 1]
    BY <1>8, <1>14, <2>3, <2>4
  <2>6. \A y \in Procs \ {x} : P1[y] = P[y]
    BY DEF PartialOf
  <2>7. P1[x] = G[1] /\ G[1] = S
    BY <1>3, <2>3 DEF PartialOf, S, b
  <2>8. last \in Nat
    <3>1. nextIndex \in Nat \ {0}
      BY PlacesApart DEF Where
    <3>2. QED
      BY <3>1
  <2> HIDE DEF F, P, O, G, F2, P2, O2, G2, last, P1
  <2>9. F[x] = {} /\ P[x] = {} /\ O[x] = {}
    BY <1>1, <1>2, <2>2
  <2> DEFINE m == n - 1
  <2> HIDE DEF m
  <2>10. Conserved(F, P1, O, G2, m, used, last)
    <3>1. m = n - 1 /\ n \in Nat \ {0}
      BY <1>3 DEF m
    <3>2. Takes(F, P, O, G, n, x, P1, G2, m)
      BY <2>5, <2>6, <2>7, <2>9, <3>1 DEF Takes
    <3>3. QED
      BY <2>1, <3>2, ThreadTakes
  <2>11. Has(F2, P2, O2, x) = S /\ Has(F, P1, O, x) = S
    BY <1>7, <1>15, <2>2, <2>7, <2>9 DEF Has, S
  <2>12. S \cap used = {}
    <3>1. Has(F, P1, O, x) \cap used = {}
      BY <2>10 DEF Conserved
    <3>2. QED
      BY <2>11, <3>1
  <2>13. F2[x] \cap P2[x] = {} /\ O2[x] \cap (F2[x] \cup P2[x]) = {}
    BY <1>15, <2>2
  <2>14. Has(F2, P2, O2, x) \cap used' = {}
    BY <1>5, <2>11, <2>12
  <2>15. Has(F2, P2, O2, x) \cup used' = Has(F, P1, O, x) \cup used \cup (last + 1 .. last)
    <3>1. last + 1 .. last = {}
      BY <2>8
    <3>2. QED
      BY <1>5, <2>11, <3>1
  <2>16. \A y \in Procs \ {x} : F2[y] = F[y] /\ P2[y] = P1[y] /\ O2[y] = O[y]
    BY <1>13, <1>17, <2>2, <2>6
  <2>17. Conserved(F2, P2, O2, G2, m, used', last)
    BY <2>8, <2>10, <2>13, <2>14, <2>15, <2>16, ThreadMoves
  <2>18. Placed'
    BY <1>5, <1>8, <2>17 DEF Placed, F2, P2, O2, G2, last, m
  <2>19. QED
    BY <1>8, <2>18, PlacedIsPrime
<1>19. \A i \in 1 .. Len(globalList') :
          /\ i + 1 \in 1 .. Len(globalList) /\ globalList'[i] = globalList[i + 1]
          /\ Bundle(globalList[i])' = Bundle(globalList[i + 1])
  BY <1>8, <1>14 DEF n, Bundle
<1>20. b = globalList[1] /\ n = Len(globalList)
  BY DEF b, n
<1>21. b \in Bundle(globalList[1]) /\ Full(x)' \cup Partial(x)' \subseteq Bundle(b) \ {b}
  BY <1>7, <1>15, <1>20 DEF S
<1>22. QED
  BY <1>5, <1>7, <1>8, <1>9, <1>10, <1>13, <1>16, <1>18, <1>19, <1>20, <1>21

-----------------------------------------------------------------------------
(* The steps that reserve and construct new links, and their user's. *)

\* Every link has a page.
LEMMA BlockInRange ==
    ASSUME NEW link \in Links
    PROVE  Block(link) \in 0 .. MaxBlocks - 1
<1> DEFINE I == ItemsPerPage
           M == MaxTotalItems
           q == link \div I
           m == (M + I - 1) \div I
<1>1. I \in Nat \ {0} /\ M \in Nat \ {0} /\ link \in Nat /\ link <= M - 1
  BY AllocatorAssumption DEF Links
<1> HIDE DEF I, M
<1>2. q \in Nat /\ q * I <= link
  BY <1>1
<1>3. m \in Nat /\ M + I - 1 < (m + 1) * I
  BY <1>1
<1> HIDE DEF q, m
<1>4. (m + 1) * I = m * I + I
  BY <1>1, <1>3
<1>5. q * I \in Nat /\ m * I \in Nat
  BY <1>1, <1>2, <1>3
<1>6. q * I < m * I
  BY <1>1, <1>2, <1>3, <1>4, <1>5
<1>7. q < m
  <2>1. SUFFICES ASSUME m <= q PROVE FALSE
    BY <1>2, <1>3
  <2>2. m * I <= q * I
    BY <1>1, <1>2, <1>3, <2>1
  <2>3. QED
    BY <1>5, <1>6, <2>2
<1>8. q \in 0 .. m - 1
  BY <1>2, <1>3, <1>7
<1>9. QED
  BY <1>8 DEF q, m, I, M, Block, MaxBlocks

\* The page that a link is looked for in.
LEMMA PageOf ==
    ASSUME TypeOK, NEW link \in Links
    PROVE  Block(link) \in DOMAIN pages /\ GetItem(link) \in Procs \cup {NoBlock}
  BY BlockInRange DEF TypeOK, GetItem

\* A thread that constructs works on one of its new links.
LEMMA CurrentIsNew ==
    ASSUME TypeOK, CutInOrder, NEW x \in Procs, pc[x] \in Cutting \ {"chain"}
    PROVE  /\ current[x] \in NewLinks(x) /\ current[x] \in Links /\ current[x] + 1 \in 0 .. MaxTotalItems
           /\ current[x] + 1 \in NewLinks(x) \/ current[x] + 1 = first[x] + NUM_PER_BUNDLE
<1>1. current[x] \in NewLinks(x)
  BY DEF CutInOrder, InOrder
<1>2. current[x] \in Links
  BY <1>1, NewLinksAreOwn
<1>3. current[x] + 1 \in 0 .. MaxTotalItems
  BY <1>2, AllocatorAssumption DEF Links
<1>4. /\ first[x] \in Nat \ {0} /\ NUM_PER_BUNDLE \in Nat \ {0}
      /\ NewLinks(x) = first[x] .. first[x] + NUM_PER_BUNDLE - 1
  BY NewLinksAreOwn
<1>5. \A f, n \in Nat : \A c \in f .. f + n - 1 : c + 1 \in f .. f + n - 1 \/ c + 1 = f + n
  OBVIOUS
<1>6. QED
  BY <1>1, <1>2, <1>3, <1>4, <1>5

\* A step that leaves bundles, links in use and the threads' own links alone.
LEMMA PlacesStay ==
    ASSUME Where, NEW x \in Procs, UNCHANGED <<cache, globalList, payload, nextIndex, used>>,
           Own(x)' = Own(x), \A y \in Procs \ {x} : Own(y)' = Own(y)
    PROVE  BundlesLinked' /\ LinksConserved'
<1>1. BundlesLinked'
  BY DEF Where, BundlesLinked
<1>2. \A y \in Procs : Full(y)' = Full(y) /\ Partial(y)' = Partial(y)
  BY DEF Full, Partial, Bundle
<1>3. \A i \in 1 .. Len(globalList) : BundleFrom(payload', globalList[i]) = Bundle(globalList[i])
  BY DEF Bundle
<1>4. nextIndex \in Nat \ {0} /\ Holds(x) \cap used = {}
  BY PlacesApart DEF Where
<1>5. nextIndex .. nextIndex' - 1 = {} /\ nextIndex' \in Nat \ {0} /\ nextIndex <= nextIndex'
  BY <1>4
<1>6. Holds(x)' = Holds(x)
  BY <1>2 DEF Holds, Full, Partial
<1>7. Full(x)' \cap Partial(x)' = {} /\ Own(x)' \cap (Full(x)' \cup Partial(x)') = {}
  BY <1>2 DEF Where, LinksConserved, Full, Partial
<1>8. Holds(x)' \cap used' = {} /\ Holds(x)' \cup used' = Holds(x) \cup used \cup (nextIndex .. nextIndex' - 1)
  BY <1>4, <1>5, <1>6
<1>9. LinksConserved'
  BY <1>2, <1>3, <1>5, <1>7, <1>8, PlacesMove DEF Where
<1>10. QED
  BY <1>1, <1>9

\* Own links depend on what a thread is doing, but not on where in it.
LEMMA OwnStays ==
    ASSUME TypeOK, NEW x \in Procs, pc' = [pc EXCEPT ![x] = pc'[x]], pc[x] # "use", pc'[x] # "use",
           first' = first, \A y \in Procs \ {x} : current'[y] = current[y]
    PROVE  Own(x)' = Own(x) /\ \A y \in Procs \ {x} : Own(y)' = Own(y)
<1>1. \A y \in Procs \ {x} : pc'[y] = pc[y]
  BY DEF TypeOK
<1>2. \A y \in Procs : NewLinks(y)' = NewLinks(y)
  BY DEF NewLinks
<1>3. \A y \in Procs \ {x} : Own(y)' = Own(y)
  BY <1>1, <1>2 DEF Own
<1>4. Own(x)' = Own(x)
  BY <1>2 DEF Own
<1>5. QED
  BY <1>3, <1>4

\* Without a shared bundle the thread goes on to cut new links.
LEMMA PopGlobalEmptyPlaces ==
    ASSUME Where, NEW x \in Procs, PopGlobal(x), ~ SomeShared
    PROVE  /\ TypeOK' /\ BundlesLinked' /\ LinksConserved'
           /\ pc[x] = "idle" /\ cache[x].partial = 0 /\ cache[x].full = 0
           /\ pc' = [pc EXCEPT ![x] = "reserve"]
           /\ UNCHANGED <<cache, globalList, payload, singleNext, doubleNext, nextIndex, pages,
                          constructed, first, current, used>>
<1>1. /\ pc[x] = "idle" /\ cache[x].partial = 0 /\ cache[x].full = 0
      /\ pc' = [pc EXCEPT ![x] = "reserve"]
      /\ UNCHANGED <<cache, globalList, payload, singleNext, doubleNext, nextIndex, pages,
                     constructed, first, current, used>>
  BY DEF PopGlobal, SomeShared
<1>2. pc' \in [Procs -> {"idle", "use", "reserve"} \cup Cutting] /\ pc'[x] = "reserve"
      /\ pc' = [pc EXCEPT ![x] = pc'[x]]
  BY <1>1 DEF Where, TypeOK
<1>3. TypeOK'
  BY <1>1, <1>2 DEF Where, TypeOK
<1>4. Own(x)' = Own(x) /\ \A y \in Procs \ {x} : Own(y)' = Own(y)
  BY <1>1, <1>2, OwnStays DEF Where
<1>5. QED
  BY <1>1, <1>3, <1>4, PlacesStay

\* The test for a page moves no link.
LEMMA TestPagePlaces ==
    ASSUME Where, NEW x \in Procs, TestPage(x)
    PROVE  TypeOK' /\ BundlesLinked' /\ LinksConserved'
<1>1. /\ pc[x] = "testPage" /\ pc'[x] \in {"installPage", "construct"} /\ pc' = [pc EXCEPT ![x] = pc'[x]]
      /\ UNCHANGED <<cache, globalList, payload, singleNext, doubleNext, nextIndex,
                     pages, constructed, first, current, used>>
  BY DEF TestPage, Where, TypeOK
<1>2. pc' \in [Procs -> {"idle", "use", "reserve"} \cup Cutting]
  BY <1>1 DEF Where, TypeOK, Cutting
<1>3. TypeOK'
  BY <1>1, <1>2 DEF Where, TypeOK
<1>4. Own(x)' = Own(x) /\ \A y \in Procs \ {x} : Own(y)' = Own(y)
  BY <1>1, OwnStays DEF Where
<1>5. QED
  BY <1>1, <1>3, <1>4, PlacesStay

\* Neither does the installation of one.
LEMMA InstallPagePlaces ==
    ASSUME Where, NEW x \in Procs, InstallPage(x)
    PROVE  TypeOK' /\ BundlesLinked' /\ LinksConserved'
<1>1. /\ pc[x] = "installPage" /\ pc'[x] = "construct" /\ pc' = [pc EXCEPT ![x] = pc'[x]]
      /\ UNCHANGED <<cache, globalList, payload, singleNext, doubleNext, nextIndex,
                     constructed, first, current, used>>
  BY DEF InstallPage, Where, TypeOK
<1>2. pc' \in [Procs -> {"idle", "use", "reserve"} \cup Cutting]
  BY <1>1 DEF Where, TypeOK, Cutting
<1>3. pages' \in [0 .. MaxBlocks - 1 -> Procs \cup {NoBlock}]
  <2>1. \A b \in 0 .. MaxBlocks - 1 : pages[b] \in Procs \cup {NoBlock}
    BY DEF Where, TypeOK
  <2>2. pages \in [0 .. MaxBlocks - 1 -> Procs \cup {NoBlock}]
    BY DEF Where, TypeOK
  <2>3. pages' = [pages EXCEPT ![Block(current[x])] = IF pages[Block(current[x])] = NoBlock THEN x ELSE @]
    BY DEF InstallPage
  <2>4. QED
    BY <2>1, <2>2, <2>3
<1>4. TypeOK'
  BY <1>1, <1>2, <1>3 DEF Where, TypeOK
<1>5. Own(x)' = Own(x) /\ \A y \in Procs \ {x} : Own(y)' = Own(y)
  BY <1>1, OwnStays DEF Where
<1>6. QED
  BY <1>1, <1>4, <1>5, PlacesStay

\* A link that is constructed is its thread's before and after.
LEMMA ConstructPlaces ==
    ASSUME Where, NEW x \in Procs, Construct(x)
    PROVE  TypeOK' /\ BundlesLinked' /\ LinksConserved'
<1>1. /\ pc[x] = "construct" /\ pc'[x] \in {"testPage", "chain"} /\ pc' = [pc EXCEPT ![x] = pc'[x]]
      /\ constructed' = [constructed EXCEPT ![current[x]] = GetItem(current[x])]
      /\ current' = [current EXCEPT ![x] = current[x] + 1]
      /\ UNCHANGED <<cache, globalList, payload, singleNext, doubleNext, nextIndex,
                     pages, first, used>>
  BY DEF Construct, Where, TypeOK
<1>2. pc' \in [Procs -> {"idle", "use", "reserve"} \cup Cutting] /\ pc[x] \in Cutting \ {"chain"}
  BY <1>1 DEF Where, TypeOK, Cutting
<1>3. current[x] \in Links /\ current[x] + 1 \in 0 .. MaxTotalItems
  BY <1>2, CurrentIsNew DEF Where
<1>4. GetItem(current[x]) \in Procs \cup {NoBlock}
  BY <1>3, PageOf DEF Where
<1>5. constructed' \in [Links -> Procs \cup {NoBlock}] /\ current' \in [Procs -> 0 .. MaxTotalItems]
      /\ \A y \in Procs \ {x} : current'[y] = current[y]
  BY <1>1, <1>3, <1>4 DEF Where, TypeOK
<1>6. TypeOK'
  BY <1>1, <1>2, <1>5 DEF Where, TypeOK
<1>7. Own(x)' = Own(x) /\ \A y \in Procs \ {x} : Own(y)' = Own(y)
  BY <1>1, <1>5, OwnStays DEF Where
<1>8. QED
  BY <1>1, <1>6, <1>7, PlacesStay

\* The reserved links are the thread's own.
LEMMA ReservePlaces ==
    ASSUME Where, NEW x \in Procs, Reserve(x)
    PROVE  /\ TypeOK' /\ BundlesLinked' /\ LinksConserved'
           /\ nextIndex' = nextIndex + NUM_PER_BUNDLE /\ nextIndex \in Nat \ {0} /\ nextIndex' \in Nat
           /\ first' = [first EXCEPT ![x] = nextIndex] /\ current' = [current EXCEPT ![x] = nextIndex]
           /\ NewLinks(x)' = nextIndex .. nextIndex' - 1
<1>1. /\ pc[x] = "reserve" /\ nextIndex + NUM_PER_BUNDLE <= MaxTotalItems
      /\ first' = [first EXCEPT ![x] = nextIndex] /\ current' = [current EXCEPT ![x] = nextIndex]
      /\ nextIndex' = nextIndex + NUM_PER_BUNDLE
      /\ pc' = [pc EXCEPT ![x] = "testPage"]
      /\ UNCHANGED <<cache, globalList, payload, singleNext, doubleNext, pages,
                     constructed, used>>
  BY DEF Reserve, Counter!Add, Counter!Op
<1>2. /\ nextIndex \in Nat \ {0} /\ NUM_PER_BUNDLE \in Nat \ {0} /\ MaxTotalItems \in Nat
  BY AllocatorAssumption DEF Where, TypeOK
<1>3. /\ nextIndex \in Links /\ nextIndex \in 0 .. MaxTotalItems /\ nextIndex' \in 1 .. MaxTotalItems
      /\ nextIndex' \in Nat \ {0} /\ nextIndex <= nextIndex'
  BY <1>1, <1>2 DEF Links
<1>4. first' \in [Procs -> {0} \cup Links] /\ current' \in [Procs -> 0 .. MaxTotalItems]
      /\ pc' \in [Procs -> {"idle", "use", "reserve"} \cup Cutting]
  BY <1>1, <1>3 DEF Where, TypeOK, Cutting
<1>5. TypeOK'
  BY <1>1, <1>3, <1>4 DEF Where, TypeOK
<1>6. pc'[x] = "testPage" /\ first'[x] = nextIndex /\ current'[x] = nextIndex
  BY <1>1 DEF Where, TypeOK
<1>7. NewLinks(x)' = nextIndex .. nextIndex' - 1 /\ Own(x)' = nextIndex .. nextIndex' - 1
  BY <1>1, <1>2, <1>6 DEF Own, NewLinks
<1>8. \A y \in Procs \ {x} : Own(y)' = Own(y)
  <2>1. pc' = [pc EXCEPT ![x] = pc'[x]] /\ first' = [first EXCEPT ![x] = first'[x]]
        /\ current' = [current EXCEPT ![x] = current'[x]]
    BY <1>1, <1>6
  <2>2. QED
    BY <2>1, OthersOwn DEF Where
<1>9. BundlesLinked'
  BY <1>1 DEF Where, BundlesLinked
<1>10. \A y \in Procs : Full(y)' = Full(y) /\ Partial(y)' = Partial(y)
  BY <1>1 DEF Full, Partial, Bundle
<1>11. \A i \in 1 .. Len(globalList) : BundleFrom(payload', globalList[i]) = Bundle(globalList[i])
  BY <1>1 DEF Bundle
<1>12. /\ Own(x) = {} /\ Full(x) \cap Partial(x) = {}
       /\ Holds(x) = Full(x) \cup Partial(x) /\ Holds(x)' = Holds(x) \cup Own(x)'
  <2>1. Own(x) = {}
    BY <1>1, NoneOwned DEF Where
  <2>2. Full(x) \cap Partial(x) = {}
    BY DEF Where, LinksConserved, Full, Partial
  <2>3. QED
    BY <1>10, <2>1, <2>2 DEF Holds, Full, Partial
<1>13. Holds(x) \cap Own(x)' = {} /\ used \cap Own(x)' = {} /\ Holds(x) \cap used = {}
  <2>1. Holds(x) \subseteq 1 .. nextIndex - 1 /\ used \subseteq 1 .. nextIndex - 1 /\ Holds(x) \cap used = {}
    BY PlacesApart DEF Where
  <2>2. \A k, m \in Nat : \A l \in 1 .. k - 1 : l \notin k .. m - 1
    OBVIOUS
  <2>3. \A l \in 1 .. nextIndex - 1 : l \notin Own(x)'
    BY <1>2, <1>3, <1>7, <2>2
  <2>4. QED
    BY <2>1, <2>3
<1>14. /\ Full(x)' \cap Partial(x)' = {} /\ Own(x)' \cap (Full(x)' \cup Partial(x)') = {}
       /\ Holds(x)' \cap used' = {}
       /\ Holds(x)' \cup used' = Holds(x) \cup used \cup (nextIndex .. nextIndex' - 1)
  <2>1. Full(x)' = Full(x) /\ Partial(x)' = Partial(x) /\ used' = used
    BY <1>1, <1>10
  <2>2. QED
    BY <1>7, <1>12, <1>13, <2>1
<1>15. LinksConserved'
  BY <1>1, <1>3, <1>8, <1>10, <1>11, <1>14, PlacesMove DEF Where
<1>16. QED
  BY <1>1, <1>2, <1>3, <1>5, <1>7, <1>9, <1>15

\* The link that a thread was handed out is in use.
LEMMA UsePlaces ==
    ASSUME Where, NEW x \in Procs, Use(x)
    PROVE  /\ TypeOK' /\ BundlesLinked' /\ LinksConserved'
           /\ current[x] \in Links /\ Own(x) = {current[x]} /\ first[x] = 0
           /\ \A y \in Procs : Full(y)' = Full(y) /\ Partial(y)' = Partial(y)
           /\ \A i \in 1 .. Len(globalList) : BundleFrom(payload', globalList[i]) = Bundle(globalList[i])
<1>1. /\ pc[x] = "use" /\ pc' = [pc EXCEPT ![x] = "idle"]
      /\ payload' = [payload EXCEPT ![current[x]] = UserData]
      /\ doubleNext' = [doubleNext EXCEPT ![current[x]] = TRUE]
      /\ used' = used \cup {current[x]}
      /\ current' = [current EXCEPT ![x] = 0]
      /\ UNCHANGED <<cache, globalList, singleNext, nextIndex, pages, constructed, first>>
  BY DEF Use
<1>2. current[x] \in Links /\ first[x] = 0 /\ Own(x) = {current[x]}
  BY <1>1 DEF Where, CutInOrder, InOrder, Own
<1>3. 0 \in 0 .. MaxTotalItems /\ UserData \in 0 .. MaxTotalItems
  BY AllocatorAssumption DEF UserData
<1>4. /\ payload' \in [Links -> 0 .. MaxTotalItems] /\ doubleNext' \in [Links -> BOOLEAN]
      /\ used' \subseteq Links /\ current' \in [Procs -> 0 .. MaxTotalItems]
      /\ pc' \in [Procs -> {"idle", "use", "reserve"} \cup Cutting]
  BY <1>1, <1>2, <1>3 DEF Where, TypeOK
<1>5. TypeOK'
  BY <1>1, <1>4 DEF Where, TypeOK
<1>6. \A link \in Links \ {current[x]} : payload'[link] = payload[link]
  BY <1>1 DEF Where, TypeOK
<1>7. /\ \A y \in Procs : (Full(y) \cup Partial(y)) \cap {current[x]} = {}
      /\ \A i \in 1 .. Len(globalList) : Bundle(globalList[i]) \cap {current[x]} = {}
  <2>1. current[x] \in Holds(x) /\ (Full(x) \cup Partial(x)) \cap {current[x]} = {}
    BY <1>2 DEF Where, LinksConserved, Holds, Full, Partial
  <2>2. \A y \in Procs \ {x} : Holds(y) \cap Holds(x) = {} /\ Full(y) \cup Partial(y) \subseteq Holds(y)
    BY PlacesApart DEF Where, Holds, Full, Partial
  <2>3. \A i \in 1 .. Len(globalList) : Holds(x) \cap Bundle(globalList[i]) = {}
    BY PlacesApart DEF Where
  <2>4. \A y \in Procs : y = x \/ y \in Procs \ {x}
    OBVIOUS
  <2>5. QED
    BY <2>1, <2>2, <2>3, <2>4
<1>8. \A y \in Procs : /\ LinkedBundle(payload', cache[y].partial, cache[y].num)
                       /\ LinkedBundle(payload', cache[y].full, FullSize(y))
                       /\ Full(y)' = Full(y) /\ Partial(y)' = Partial(y) /\ FullSize(y)' = FullSize(y)
  <2>1. TAKE y \in Procs
  <2>2. Bundle(cache[y].full) \cap {current[x]} = {} /\ Bundle(cache[y].partial) \cap {current[x]} = {}
    BY <1>7 DEF Full, Partial
  <2>3. /\ LinkedBundle(payload', cache[y].partial, cache[y].num)
        /\ BundleFrom(payload', cache[y].partial) = Bundle(cache[y].partial)
    BY <1>6, <2>2, Untouched, BundleFacts DEF Where
  <2>4. /\ LinkedBundle(payload', cache[y].full, FullSize(y))
        /\ BundleFrom(payload', cache[y].full) = Bundle(cache[y].full)
    BY <1>6, <2>2, Untouched, BundleFacts DEF Where
  <2>5. cache' = cache
    BY <1>1
  <2>6. QED
    BY <2>3, <2>4, <2>5 DEF Full, Partial, Bundle, FullSize
<1>9. \A i \in 1 .. Len(globalList) :
          /\ LinkedBundle(payload', globalList[i], NUM_PER_BUNDLE)
          /\ BundleFrom(payload', globalList[i]) = Bundle(globalList[i])
  BY <1>6, <1>7, SharedUntouched DEF Where
<1>10. BundlesLinked'
  <2>1. cache' = cache /\ globalList' = globalList
    BY <1>1
  <2>2. \A y \in Procs : /\ LinkedBundle(payload', cache'[y].partial, cache'[y].num)
                         /\ LinkedBundle(payload', cache'[y].full, FullSize(y)')
    BY <1>8, <2>1
  <2>3. \A i \in 1 .. Len(globalList') : LinkedBundle(payload', globalList'[i], NUM_PER_BUNDLE)
    BY <1>9, <2>1
  <2>4. (globalList \in Seq(Links))'
    BY <1>5 DEF TypeOK
  <2>5. QED
    BY <2>2, <2>3, <2>4, BundlesLinkedPrime
<1>11. /\ Own(x)' = {} /\ \A y \in Procs \ {x} : Own(y)' = Own(y)
  <2>1. pc'[x] = "idle" /\ first'[x] = 0
    BY <1>1, <1>2 DEF Where, TypeOK
  <2>2. pc' = [pc EXCEPT ![x] = pc'[x]] /\ first' = [first EXCEPT ![x] = first'[x]]
        /\ current' = [current EXCEPT ![x] = current'[x]]
    BY <1>1 DEF Where, TypeOK
  <2>3. \A y \in Procs \ {x} : Own(y)' = Own(y)
    BY <2>2, OthersOwn DEF Where
  <2>4. QED
    BY <2>1, <2>3 DEF Own
<1>12. LinksConserved'
  <2>1. nextIndex \in Nat \ {0} /\ Holds(x) \cap used = {}
    BY PlacesApart DEF Where
  <2>2. nextIndex .. nextIndex' - 1 = {} /\ nextIndex' \in Nat \ {0} /\ nextIndex <= nextIndex'
    BY <1>1, <2>1
  <2>3. Full(x)' \cap Partial(x)' = {} /\ Own(x)' \cap (Full(x)' \cup Partial(x)') = {}
    BY <1>8, <1>11 DEF Where, LinksConserved, Full, Partial
  <2>4. Holds(x) = Full(x) \cup Partial(x) \cup {current[x]} /\ Holds(x)' = Full(x) \cup Partial(x)
    BY <1>2, <1>8, <1>11 DEF Holds, Full, Partial
  <2>5. Holds(x)' \cap used' = {} /\ Holds(x)' \cup used' = Holds(x) \cup used \cup (nextIndex .. nextIndex' - 1)
    BY <1>1, <1>7, <2>1, <2>2, <2>4
  <2>6. globalList' = globalList
    BY <1>1
  <2>7. QED
    BY <1>8, <1>9, <1>11, <2>2, <2>3, <2>5, <2>6, PlacesMove DEF Where
<1>13. QED
  BY <1>2, <1>5, <1>8, <1>9, <1>10, <1>12

-----------------------------------------------------------------------------
(* The step that gives a link back. *)

\* What Free makes of the two bundles of a thread, and what goes to the shared list.
Shift(x) == cache[x].num >= NUM_PER_BUNDLE
Spill(x) == Shift(x) /\ cache[x].full # 0
To(x) == IF Shift(x) THEN [full |-> cache[x].partial, partial |-> 0, num |-> 0] ELSE cache[x]
NextShared == IF globalList = <<>> THEN 0 ELSE Head(globalList)

\* Free, with its local names spelled out.
LEMMA FreeIs ==
    ASSUME TypeOK, NEW x \in Procs, NEW link \in used, Free(x, link)
    PROVE  /\ pc[x] = "idle"
           /\ globalList' = IF Spill(x) THEN <<cache[x].full>> \o globalList ELSE globalList
           /\ singleNext' = [l \in Links |->
                IF l = link THEN 0
                ELSE IF Spill(x) /\ l = cache[x].full THEN NextShared ELSE singleNext[l]]
           /\ payload' = [payload EXCEPT ![link] = To(x).partial]
           /\ cache' = [cache EXCEPT ![x] = [To(x) EXCEPT !.partial = link, !.num = @ + 1]]
           /\ doubleNext' = [doubleNext EXCEPT ![link] = FALSE]
           /\ used' = used \ {link}
           /\ UNCHANGED <<nextIndex, pages, constructed, pc, first, current>>
  BY DEF Free, Shift, Spill, To, NextShared

\* The bundle that the link is pushed onto, and the one that becomes FullBundle.
LEMMA FreeBundles ==
    ASSUME Where, NEW x \in Procs
    PROVE  /\ To(x) \in Caches /\ To(x).num \in 0 .. NUM_PER_BUNDLE - 1 /\ To(x).num + 1 \in 0 .. NUM_PER_BUNDLE
           /\ LinkedBundle(payload, To(x).partial, To(x).num)
           /\ LinkedBundle(payload, To(x).full, IF To(x).full = 0 THEN 0 ELSE NUM_PER_BUNDLE)
           /\ Bundle(To(x).partial) = (IF Shift(x) THEN {} ELSE Partial(x))
           /\ Bundle(To(x).full) = (IF Shift(x) THEN Partial(x) ELSE Full(x))
           /\ Shift(x) => To(x).full # 0
<1>1. /\ NUM_PER_BUNDLE \in Nat \ {0}
      /\ cache[x] \in Caches /\ cache[x].num \in 0 .. NUM_PER_BUNDLE
      /\ LinkedBundle(payload, cache[x].partial, cache[x].num)
      /\ LinkedBundle(payload, cache[x].full, FullSize(x))
      /\ cache[x].partial = 0 <=> cache[x].num = 0
  BY BundleFacts DEF Where
<1>2. CASE Shift(x)
  <2>1. /\ To(x) = [full |-> cache[x].partial, partial |-> 0, num |-> 0]
        /\ To(x).full = cache[x].partial /\ To(x).partial = 0 /\ To(x).num = 0
    BY <1>2 DEF To
  <2>2. cache[x].num = NUM_PER_BUNDLE /\ cache[x].partial # 0 /\ cache[x].partial \in {0} \cup Links
    BY <1>1, <1>2 DEF Shift, Caches
  <2>3. To(x) \in Caches
    BY <1>1, <2>1, <2>2 DEF Caches
  <2>4. LinkedBundle(payload, 0, 0) /\ Bundle(0) = {}
    BY EmptyBundle DEF Bundle
  <2>5. LinkedBundle(payload, To(x).full, NUM_PER_BUNDLE) /\ To(x).full # 0
    BY <1>1, <2>1, <2>2
  <2>6. Bundle(To(x).full) = Partial(x)
    BY <2>1 DEF Partial
  <2>7. To(x).num \in 0 .. NUM_PER_BUNDLE - 1 /\ To(x).num + 1 \in 0 .. NUM_PER_BUNDLE
    BY <1>1, <2>1
  <2>8. QED
    BY <1>2, <2>1, <2>3, <2>4, <2>5, <2>6, <2>7
<1>3. CASE ~ Shift(x)
  <2>1. To(x) = cache[x]
    BY <1>3 DEF To
  <2>2. cache[x].num \in 0 .. NUM_PER_BUNDLE - 1 /\ cache[x].num + 1 \in 0 .. NUM_PER_BUNDLE
    BY <1>1, <1>3 DEF Shift
  <2>3. QED
    BY <1>1, <1>3, <2>1, <2>2 DEF Full, Partial, FullSize
<1>4. QED
  BY <1>2, <1>3

\* What a step that gives a link back does to the places.
Freed(x, link) ==
    /\ link \in Links /\ cache' = [cache EXCEPT ![x] = cache'[x]] /\ cache' \in [Procs -> Caches]
    /\ cache'[x].partial = link /\ cache'[x].full = To(x).full
    /\ payload' \in [Links -> 0 .. MaxTotalItems]
    /\ \A l \in Links \ {link} : payload'[l] = payload[l]
    /\ Partial(x)' = Bundle(To(x).partial) \cup {link} /\ Full(x)' = Bundle(To(x).full)
    /\ \A y \in Procs \ {x} : Full(y)' = Full(y) /\ Partial(y)' = Partial(y)
    /\ \A y \in Procs : Own(y)' = Own(y)
    /\ \A y \in Procs : /\ LinkedBundle(payload', cache'[y].partial, cache'[y].num)
                        /\ LinkedBundle(payload', cache'[y].full, FullSize(y)')
    /\ \A i \in 1 .. Len(globalList) : BundleFrom(payload', globalList[i]) = Bundle(globalList[i])
    /\ \A i \in 1 .. Len(globalList) : LinkedBundle(payload', globalList[i], NUM_PER_BUNDLE)
    /\ \A y \in Procs : link \notin Holds(y)
    /\ BundleFrom(payload', cache[x].full) = Full(x)
    /\ LinkedBundle(payload', cache[x].full, FullSize(x))

\* After Free the link is the first of PartialBundle, and FullBundle is what it was
\* or, if the bundles shifted, what PartialBundle was.
LEMMA FreeMoves ==
    ASSUME Where, NEW x \in Procs, NEW link \in used, Free(x, link)
    PROVE  Freed(x, link)
<1> DEFINE to == To(x)
<1>1. /\ pc[x] = "idle"
      /\ payload' = [payload EXCEPT ![link] = to.partial]
      /\ cache' = [cache EXCEPT ![x] = [to EXCEPT !.partial = link, !.num = @ + 1]]
      /\ UNCHANGED <<pc, first, current>>
  BY FreeIs DEF Where
<1>2. /\ to \in Caches /\ to.num \in 0 .. NUM_PER_BUNDLE - 1 /\ to.num + 1 \in 0 .. NUM_PER_BUNDLE
      /\ LinkedBundle(payload, to.partial, to.num)
      /\ LinkedBundle(payload, to.full, IF to.full = 0 THEN 0 ELSE NUM_PER_BUNDLE)
      /\ Bundle(to.partial) \subseteq Partial(x)
      /\ Bundle(to.full) \subseteq Full(x) \cup Partial(x)
  BY FreeBundles DEF Where
<1> HIDE DEF to
<1>3. /\ link \in Links /\ \A y \in Procs : link \notin Holds(y)
      /\ \A i \in 1 .. Len(globalList) : link \notin Bundle(globalList[i])
  <2>1. used \subseteq Links
    BY DEF Where, TypeOK
  <2>2. \A y \in Procs : Holds(y) \cap used = {}
    BY PlacesApart DEF Where
  <2>3. \A i \in 1 .. Len(globalList) : Bundle(globalList[i]) \cap used = {}
    BY PlacesApart DEF Where
  <2>4. QED
    BY <2>1, <2>2, <2>3
<1>4. to.partial \in {0} \cup Links /\ to.full \in {0} \cup Links /\ to.partial \in 0 .. MaxTotalItems
  BY <1>2, AllocatorAssumption DEF Caches, Links
<1> DEFINE after == [to EXCEPT !.partial = link, !.num = to.num + 1]
<1>5. after.partial = link /\ after.num = to.num + 1 /\ after.full = to.full /\ after \in Caches
  BY <1>2, <1>3 DEF Caches
<1>6. cache' = [cache EXCEPT ![x] = after]
  BY <1>1
<1> HIDE DEF after
<1>7. /\ cache'[x] = after /\ cache' = [cache EXCEPT ![x] = cache'[x]] /\ cache' \in [Procs -> Caches]
  BY <1>5, <1>6 DEF Where, TypeOK
<1>8. /\ payload' \in [Links -> 0 .. MaxTotalItems]
      /\ \A l \in Links \ {link} : payload'[l] = payload[l]
  <2>1. payload \in [Links -> 0 .. MaxTotalItems]
    BY DEF Where, TypeOK
  <2>2. QED
    BY <1>1, <1>3, <1>4, <2>1
<1>9. /\ LinkedBundle(payload', link, to.num + 1)
      /\ BundleFrom(payload', link) = Bundle(to.partial) \cup {link}
  <2>1. link \notin BundleFrom(payload, to.partial)
    BY <1>2, <1>3 DEF Holds, Partial, Bundle
  <2>2. payload \in [Links -> 0 .. MaxTotalItems]
    BY DEF Where, TypeOK
  <2>3. payload' = [payload EXCEPT ![link] = to.partial]
    BY <1>1
  <2>4. PICK next2 : next2 = payload'
    OBVIOUS
  <2>5. Pushes(payload, next2, to.partial, to.num, link)
    BY <1>2, <1>3, <1>4, <2>1, <2>2, <2>3, <2>4 DEF Pushes
  <2>6. BundleFrom(next2, link) = BundleFrom(payload, to.partial) \cup {link}
    BY <2>5, BundlePushed
  <2>7. \A m : m = to.num + 1 => LinkedBundle(next2, link, m)
    BY <2>5, BundlePushed
  <2>8. QED
    BY <2>4, <2>6, <2>7 DEF Bundle
<1>10. /\ LinkedBundle(payload', to.full, IF to.full = 0 THEN 0 ELSE NUM_PER_BUNDLE)
       /\ BundleFrom(payload', to.full) = Bundle(to.full)
  <2>1. Bundle(to.full) \cap {link} = {}
    BY <1>2, <1>3 DEF Holds, Full, Partial
  <2>2. (IF to.full = 0 THEN 0 ELSE NUM_PER_BUNDLE) \in 0 .. NUM_PER_BUNDLE
    BY AllocatorAssumption
  <2>3. QED
    BY <1>2, <1>8, <2>1, <2>2, Untouched
<1>11. /\ LinkedBundle(payload', cache[x].full, FullSize(x))
       /\ BundleFrom(payload', cache[x].full) = Full(x)
  <2>1. Bundle(cache[x].full) \cap {link} = {}
    BY <1>3 DEF Holds
  <2>2. FullSize(x) \in 0 .. NUM_PER_BUNDLE /\ LinkedBundle(payload, cache[x].full, FullSize(x))
    BY BundleFacts DEF Where
  <2>3. QED
    BY <1>8, <2>1, <2>2, Untouched DEF Full
<1>12. \A y \in Procs \ {x} :
          /\ Full(y)' = Full(y) /\ Partial(y)' = Partial(y)
          /\ LinkedBundle(payload', cache'[y].partial, cache'[y].num)
          /\ LinkedBundle(payload', cache'[y].full, FullSize(y)')
  <2>1. \A y \in Procs \ {x} : Holds(y) \cap {link} = {}
    BY <1>3
  <2>2. QED
    BY <1>7, <1>8, <2>1, OthersUntouched DEF Where
<1>13. \A i \in 1 .. Len(globalList) : /\ BundleFrom(payload', globalList[i]) = Bundle(globalList[i])
                                       /\ LinkedBundle(payload', globalList[i], NUM_PER_BUNDLE)
  <2>1. \A i \in 1 .. Len(globalList) : Bundle(globalList[i]) \cap {link} = {}
    BY <1>3
  <2>2. QED
    BY <1>8, <2>1, SharedUntouched DEF Where
<1>14. /\ Partial(x)' = Bundle(to.partial) \cup {link} /\ Full(x)' = Bundle(to.full)
       /\ LinkedBundle(payload', cache'[x].partial, cache'[x].num)
       /\ LinkedBundle(payload', cache'[x].full, FullSize(x)')
  BY <1>5, <1>7, <1>9, <1>10 DEF Partial, Full, FullSize, Bundle
<1>15. \A y \in Procs : Own(y)' = Own(y)
  BY <1>1 DEF Own, NewLinks
<1>16. \A y \in Procs : /\ LinkedBundle(payload', cache'[y].partial, cache'[y].num)
                        /\ LinkedBundle(payload', cache'[y].full, FullSize(y)')
  BY <1>12, <1>14
<1>17. cache'[x].partial = link /\ cache'[x].full = to.full
  BY <1>5, <1>7
<1>18. QED
  BY <1>3, <1>7, <1>8, <1>11, <1>12, <1>13, <1>14, <1>15, <1>16, <1>17 DEF Freed, to

\* No bundle goes to the shared list: the link joins those of the thread.
LEMMA FreeKeepsPlaces ==
    ASSUME Where, NEW x \in Procs, NEW link \in used, Free(x, link), Freed(x, link), ~ Spill(x)
    PROVE  LinksConserved'
<1>1. /\ globalList' = globalList /\ nextIndex' = nextIndex /\ used' = used \ {link}
  BY FreeIs DEF Where
<1>2. Bundle(To(x).partial) \cup Bundle(To(x).full) = Full(x) \cup Partial(x)
      /\ Bundle(To(x).partial) \cap Bundle(To(x).full) = {}
  <2>1. /\ Bundle(To(x).partial) = (IF Shift(x) THEN {} ELSE Partial(x))
        /\ Bundle(To(x).full) = (IF Shift(x) THEN Partial(x) ELSE Full(x))
    BY FreeBundles
  <2>2. Full(x) \cap Partial(x) = {}
    BY DEF Where, LinksConserved, Full, Partial
  <2>3. Shift(x) => Full(x) = {}
    BY BundleFacts DEF Spill, Where
  <2>4. QED
    BY <2>1, <2>2, <2>3
<1>3. /\ Partial(x)' = Bundle(To(x).partial) \cup {link} /\ Full(x)' = Bundle(To(x).full)
      /\ Own(x)' = Own(x) /\ link \notin Holds(x)
  BY DEF Freed
<1>4. Holds(x) = Full(x) \cup Partial(x) \cup Own(x) /\ Holds(x)' = Full(x)' \cup Partial(x)' \cup Own(x)'
      /\ Own(x) \cap (Full(x) \cup Partial(x)) = {}
  BY DEF Where, LinksConserved, Holds, Full, Partial
<1>5. Full(x)' \cap Partial(x)' = {} /\ Own(x)' \cap (Full(x)' \cup Partial(x)') = {}
      /\ Holds(x)' = Holds(x) \cup {link}
  BY <1>2, <1>3, <1>4
<1>6. nextIndex \in Nat \ {0} /\ Holds(x) \cap used = {}
  BY PlacesApart DEF Where
<1>7. nextIndex .. nextIndex' - 1 = {} /\ nextIndex' \in Nat \ {0} /\ nextIndex <= nextIndex'
  BY <1>1, <1>6
<1>8. Holds(x)' \cap used' = {} /\ Holds(x)' \cup used' = Holds(x) \cup used \cup (nextIndex .. nextIndex' - 1)
  BY <1>1, <1>5, <1>6, <1>7
<1>9. /\ \A y \in Procs \ {x} : Full(y)' = Full(y) /\ Partial(y)' = Partial(y) /\ Own(y)' = Own(y)
      /\ \A i \in 1 .. Len(globalList) : BundleFrom(payload', globalList[i]) = Bundle(globalList[i])
  BY DEF Freed
<1>10. QED
  BY <1>1, <1>5, <1>7, <1>8, <1>9, PlacesMove DEF Where

\* The shared list after the full bundle of the thread went to it.
LEMMA FreeSpills ==
    ASSUME Where, NEW x \in Procs, NEW link \in used, Free(x, link), Freed(x, link), Spill(x)
    PROVE  /\ globalList' \in Seq(Links) /\ Len(globalList') = Len(globalList) + 1
           /\ globalList'[1] = cache[x].full /\ cache[x].full \in Links
           /\ Bundle(globalList[1])' = Full(x) /\ LinkedBundle(payload', globalList'[1], NUM_PER_BUNDLE)
           /\ \A i \in 1 .. Len(globalList') : i = 1 \/ i - 1 \in 1 .. Len(globalList)
           /\ \A i \in 1 .. Len(globalList) :
                /\ i + 1 \in 1 .. Len(globalList') /\ globalList'[i + 1] = globalList[i]
                /\ Bundle(globalList[i + 1])' = Bundle(globalList[i])
                /\ LinkedBundle(payload', globalList'[i + 1], NUM_PER_BUNDLE)
<1>1. globalList' = <<cache[x].full>> \o globalList
  BY FreeIs DEF Where
<1>2. cache[x].full \in Links /\ FullSize(x) = NUM_PER_BUNDLE /\ globalList \in Seq(Links)
  BY DEF Spill, FullSize, Where, TypeOK, Caches
<1>3. /\ globalList' \in Seq(Links) /\ Len(globalList') = Len(globalList) + 1
      /\ globalList'[1] = cache[x].full
      /\ \A i \in 1 .. Len(globalList) : i + 1 \in 1 .. Len(globalList') /\ globalList'[i + 1] = globalList[i]
  <2>1. PICK b \in Links : b = cache[x].full
    BY <1>2
  <2>2. globalList' = <<b>> \o globalList
    BY <1>1, <2>1
  <2>3. /\ <<b>> \in Seq(Links) /\ Len(<<b>>) = 1 /\ <<b>>[1] = b
        /\ Len(globalList) \in Nat
    BY <1>2, <2>1
  <2>4. globalList' \in Seq(Links) /\ Len(globalList') = Len(globalList) + 1
    BY <1>2, <2>2, <2>3
  <2>5. \A i \in 1 .. Len(globalList) + 1 : globalList'[i] = IF i = 1 THEN b ELSE globalList[i - 1]
    BY <1>2, <2>2, <2>3
  <2>6. \A i \in 1 .. Len(globalList) : /\ i + 1 \in 1 .. Len(globalList) + 1 /\ i + 1 # 1 /\ i + 1 - 1 = i
    BY <2>3
  <2>7. 1 \in 1 .. Len(globalList) + 1
    BY <2>3
  <2>8. QED
    BY <2>1, <2>4, <2>5, <2>6, <2>7
<1>4. \A i \in 1 .. Len(globalList') : i = 1 \/ i - 1 \in 1 .. Len(globalList)
  BY <1>2, <1>3
<1>5. /\ BundleFrom(payload', cache[x].full) = Full(x) /\ LinkedBundle(payload', cache[x].full, FullSize(x))
      /\ \A i \in 1 .. Len(globalList) : /\ BundleFrom(payload', globalList[i]) = Bundle(globalList[i])
                                         /\ LinkedBundle(payload', globalList[i], NUM_PER_BUNDLE)
  BY DEF Freed
<1>6. Bundle(globalList[1])' = Full(x) /\ LinkedBundle(payload', globalList'[1], NUM_PER_BUNDLE)
  BY <1>2, <1>3, <1>5 DEF Bundle
<1>7. \A i \in 1 .. Len(globalList) : /\ Bundle(globalList[i + 1])' = Bundle(globalList[i])
                                      /\ LinkedBundle(payload', globalList'[i + 1], NUM_PER_BUNDLE)
  BY <1>3, <1>5 DEF Bundle
<1>8. QED
  BY <1>2, <1>3, <1>4, <1>6, <1>7

\* A bundle goes to the shared list, and the link becomes the thread's.
LEMMA FreeSpillPlaces ==
    ASSUME Where, NEW x \in Procs, NEW link \in used, Free(x, link), Freed(x, link), Spill(x)
    PROVE  LinksConserved'
<1> DEFINE F == FullOf
           P == PartialOf
           O == OwnOf
           G == SharedOf
           F2 == FullOf'
           P2 == PartialOf'
           O2 == OwnOf'
           G2 == SharedOf'
           n == Len(globalList)
           m == Len(globalList')
           last == nextIndex - 1
           F1 == [F EXCEPT ![x] = {}]
<1>1. Conserved(F, P, O, G, n, used, last)
  BY PlacedIs DEF Where, TypeOK, Placed
<1>2. \A y \in Procs : /\ F[y] = Full(y) /\ P[y] = Partial(y) /\ O[y] = Own(y)
                       /\ F2[y] = Full(y)' /\ P2[y] = Partial(y)' /\ O2[y] = Own(y)'
  BY DEF FullOf, PartialOf, OwnOf
<1>3. \A i \in 1 .. n : G[i] = Bundle(globalList[i])
  BY DEF SharedOf
<1>4. \A i \in 1 .. m : G2[i] = Bundle(globalList[i])'
  BY DEF SharedOf
<1>5. globalList' \in Seq(Links) /\ n \in Nat /\ m = n + 1 /\ m \in Nat /\ 1 \in 1 .. m
  <2>1. globalList \in Seq(Links)
    BY DEF Where, TypeOK
  <2>2. globalList' \in Seq(Links) /\ m = n + 1
    BY FreeSpills
  <2>3. QED
    BY <2>1, <2>2
<1>6. /\ G2[1] = F[x] /\ \A i \in 1 .. n : G2[i + 1] = G[i]
  <2>1. Bundle(globalList[1])' = Full(x)
    BY FreeSpills
  <2>2. \A i \in 1 .. n : i + 1 \in 1 .. m /\ Bundle(globalList[i + 1])' = Bundle(globalList[i])
    BY FreeSpills
  <2>3. QED
    BY <1>2, <1>3, <1>4, <1>5, <2>1, <2>2
<1>7. F1[x] = {} /\ \A y \in Procs \ {x} : F1[y] = F[y]
  BY DEF FullOf
<1>8. last \in Nat /\ last + 1 .. last = {}
  <2>1. nextIndex \in Nat \ {0}
    BY PlacesApart DEF Where
  <2>2. \A k \in Nat \ {0} : k - 1 \in Nat /\ k - 1 + 1 .. k - 1 = {}
    OBVIOUS
  <2>3. QED
    BY <2>1, <2>2
<1>9. nextIndex' = nextIndex /\ used' = used \ {link}
  BY FreeIs DEF Where
<1> HIDE DEF F, P, O, G, F2, P2, O2, G2, n, m, last, F1
<1>10. Conserved(F1, P, O, G2, m, used, last)
  <2>1. Gives(F, G, n, x, F1, G2, m)
    BY <1>5, <1>6, <1>7 DEF Gives
  <2>2. QED
    BY <1>1, <2>1, ThreadGives
<1>11. /\ P2[x] = {link} /\ F2[x] = P[x] /\ O2[x] = O[x] /\ link \notin Holds(x)
  <2>1. /\ Partial(x)' = Bundle(To(x).partial) \cup {link} /\ Full(x)' = Bundle(To(x).full)
        /\ Own(x)' = Own(x) /\ link \notin Holds(x)
    BY DEF Freed
  <2>2. Shift(x)
    BY DEF Spill
  <2>3. Bundle(To(x).partial) = {} /\ Bundle(To(x).full) = Partial(x)
    BY <2>2, FreeBundles
  <2>4. QED
    BY <1>2, <2>1, <2>3
<1>12. \A y \in Procs \ {x} : F2[y] = F1[y] /\ P2[y] = P[y] /\ O2[y] = O[y]
  <2>1. \A y \in Procs \ {x} : Full(y)' = Full(y) /\ Partial(y)' = Partial(y) /\ Own(y)' = Own(y)
    BY DEF Freed
  <2>2. QED
    BY <1>2, <1>7, <2>1
<1>13. Holds(x) = F[x] \cup P[x] \cup O[x]
  BY <1>2 DEF Holds, Full, Partial
<1>14. Has(F1, P, O, x) = P[x] \cup O[x] /\ Has(F2, P2, O2, x) = P[x] \cup O[x] \cup {link}
  BY <1>7, <1>11 DEF Has
<1>15. O[x] \cap P[x] = {} /\ (P[x] \cup O[x]) \cap used = {}
  <2>1. Has(F1, P, O, x) \cap used = {} /\ O[x] \cap (F1[x] \cup P[x]) = {}
    BY <1>10 DEF Conserved
  <2>2. QED
    BY <1>14, <2>1
<1>16. F2[x] \cap P2[x] = {} /\ O2[x] \cap (F2[x] \cup P2[x]) = {}
  BY <1>11, <1>13, <1>15
<1>17. Has(F2, P2, O2, x) \cap used' = {}
  BY <1>9, <1>14, <1>15
<1>18. Has(F2, P2, O2, x) \cup used' = Has(F1, P, O, x) \cup used \cup (last + 1 .. last)
  BY <1>8, <1>9, <1>14
<1>19. Conserved(F2, P2, O2, G2, m, used', last)
  BY <1>8, <1>10, <1>12, <1>16, <1>17, <1>18, ThreadMoves
<1>20. Placed'
  BY <1>9, <1>19 DEF Placed, F2, P2, O2, G2, m, last
<1>21. QED
  BY <1>5, <1>20, PlacedIsPrime

\* Free with and without a bundle that goes to the shared list.
LEMMA FreePlaces ==
    ASSUME Where, NEW x \in Procs, NEW link \in used, Free(x, link)
    PROVE  Freed(x, link) /\ TypeOK' /\ BundlesLinked' /\ LinksConserved'
<1>1. Freed(x, link)
  BY FreeMoves
<1>2. LinksConserved'
  BY <1>1, FreeKeepsPlaces, FreeSpillPlaces
<1>3. globalList' \in Seq(Links)
  <2>1. CASE Spill(x)
    BY <1>1, <2>1, FreeSpills
  <2>2. CASE ~ Spill(x)
    BY <2>2, FreeIs DEF Where, TypeOK
  <2>3. QED
    BY <2>1, <2>2
<1>4. \A i \in 1 .. Len(globalList') : LinkedBundle(payload', globalList'[i], NUM_PER_BUNDLE)
  <2>1. CASE Spill(x)
    <3>1. TAKE i \in 1 .. Len(globalList')
    <3>2. i = 1 \/ i - 1 \in 1 .. Len(globalList)
      BY <1>1, <2>1, FreeSpills
    <3>3. CASE i = 1
      BY <1>1, <2>1, <3>3, FreeSpills
    <3>4. CASE i - 1 \in 1 .. Len(globalList)
      <4>1. PICK j \in 1 .. Len(globalList) : j = i - 1
        BY <3>4
      <4>2. LinkedBundle(payload', globalList'[j + 1], NUM_PER_BUNDLE)
        BY <1>1, <2>1, FreeSpills
      <4>3. j + 1 = i
        BY <1>3, <4>1
      <4>4. QED
        BY <4>2, <4>3
    <3>5. QED
      BY <3>2, <3>3, <3>4
  <2>2. CASE ~ Spill(x)
    <3>1. globalList' = globalList
      BY <2>2, FreeIs DEF Where
    <3>2. QED
      BY <1>1, <3>1 DEF Freed
  <2>3. QED
    BY <2>1, <2>2
<1>5. BundlesLinked'
  <2>1. \A y \in Procs : /\ LinkedBundle(payload', cache'[y].partial, cache'[y].num)
                         /\ LinkedBundle(payload', cache'[y].full, FullSize(y)')
    BY <1>1 DEF Freed
  <2>2. QED
    BY <1>3, <1>4, <2>1, BundlesLinkedPrime
<1>6. singleNext' \in [Links -> {0} \cup Links]
  <2>1. \A l \in Links : singleNext[l] \in {0} \cup Links
    BY DEF Where, TypeOK
  <2>2. NextShared \in {0} \cup Links
    <3>1. globalList \in Seq(Links)
      BY DEF Where, TypeOK
    <3>2. QED
      BY <3>1 DEF NextShared
  <2>3. singleNext' = [l \in Links |->
                IF l = link THEN 0
                ELSE IF Spill(x) /\ l = cache[x].full THEN NextShared ELSE singleNext[l]]
    BY FreeIs DEF Where
  <2>4. QED
    BY <2>1, <2>2, <2>3
<1>7. TypeOK'
  <2>1. /\ doubleNext' = [doubleNext EXCEPT ![link] = FALSE] /\ used' = used \ {link}
        /\ UNCHANGED <<nextIndex, pages, constructed, pc, first, current>>
    BY FreeIs DEF Where
  <2>2. doubleNext' \in [Links -> BOOLEAN] /\ used' \subseteq Links
    BY <2>1 DEF Where, TypeOK
  <2>3. cache' \in [Procs -> Caches] /\ payload' \in [Links -> 0 .. MaxTotalItems]
    BY <1>1 DEF Freed
  <2>4. QED
    BY <1>3, <1>6, <2>1, <2>2, <2>3 DEF Where, TypeOK
<1>8. QED
  BY <1>1, <1>2, <1>5, <1>7

-----------------------------------------------------------------------------
(* The order of the steps of each thread. *)

\* Once a page has a block it keeps it.
PagesKept == \A link \in Links : GetItem(link) # NoBlock => GetItem(link)' = GetItem(link)

\* What the other threads have does not depend on a step of one thread.
LEMMA OthersInOrder ==
    ASSUME TypeOK, CutInOrder, NEW x \in Procs,
           \A y \in Procs \ {x} : /\ cache'[y] = cache[y] /\ pc'[y] = pc[y]
                                  /\ first'[y] = first[y] /\ current'[y] = current[y],
           nextIndex' \in Nat, nextIndex <= nextIndex', PagesKept, InOrder(x)'
    PROVE  CutInOrder'
<1>1. SUFFICES ASSUME NEW y \in Procs \ {x} PROVE InOrder(y)'
  BY DEF CutInOrder
<1>2. InOrder(y) /\ cache'[y] = cache[y] /\ pc'[y] = pc[y] /\ first'[y] = first[y] /\ current'[y] = current[y]
  BY DEF CutInOrder
<1>3. NewLinks(y)' = NewLinks(y)
  BY <1>2 DEF NewLinks
<1>4. pc[y] \in Cutting => first[y] + NUM_PER_BUNDLE <= nextIndex'
  <2>1. SUFFICES ASSUME pc[y] \in Cutting PROVE first[y] + NUM_PER_BUNDLE <= nextIndex'
    OBVIOUS
  <2>2. first[y] + NUM_PER_BUNDLE \in Nat /\ first[y] + NUM_PER_BUNDLE <= nextIndex
    BY <2>1, NewLinksAreOwn
  <2>3. nextIndex \in Nat
    BY AllocatorAssumption DEF TypeOK
  <2>4. \A a, b, c \in Nat : a <= b /\ b <= c => a <= c
    OBVIOUS
  <2>5. QED
    BY <2>2, <2>3, <2>4
<1>5. pc[y] = "construct" => GetItem(current[y])' # NoBlock
  <2>1. SUFFICES ASSUME pc[y] = "construct" PROVE GetItem(current[y])' # NoBlock
    OBVIOUS
  <2>2. pc[y] \in Cutting \ {"chain"}
    BY <2>1 DEF Cutting
  <2>3. PICK link \in Links : link = current[y]
    BY <2>2, CurrentIsNew
  <2>4. GetItem(link) # NoBlock
    BY <1>2, <2>1, <2>3 DEF InOrder
  <2>5. GetItem(link)' = GetItem(link)
    BY <2>4 DEF PagesKept
  <2>6. GetItem(current[y])' = GetItem(link)'
    BY <1>2, <2>3 DEF GetItem, Block
  <2>7. QED
    BY <2>4, <2>5, <2>6
<1>6. QED
  BY <1>2, <1>3, <1>4, <1>5 DEF InOrder

\* A thread that was handed a link has one, and cuts no new ones.
LEMMA HandOutInOrder ==
    ASSUME TypeOK, CutInOrder, NEW x \in Procs, NEW b \in Links,
           pc' = [pc EXCEPT ![x] = "use"], current' = [current EXCEPT ![x] = b],
           first' = [first EXCEPT ![x] = 0], cache' = [cache EXCEPT ![x] = cache'[x]],
           nextIndex' = nextIndex, pages' = pages
    PROVE  CutInOrder'
<1>1. pc'[x] = "use" /\ current'[x] = b /\ first'[x] = 0
  BY DEF TypeOK
<1>2. \A y \in Procs \ {x} : /\ cache'[y] = cache[y] /\ pc'[y] = pc[y]
                             /\ first'[y] = first[y] /\ current'[y] = current[y]
  BY DEF TypeOK
<1>3. nextIndex' \in Nat /\ nextIndex <= nextIndex'
  BY AllocatorAssumption DEF TypeOK
<1>4. PagesKept
  BY DEF PagesKept, GetItem, Block
<1>5. InOrder(x)'
  BY <1>1 DEF InOrder, Cutting
<1>6. QED
  BY <1>2, <1>3, <1>4, <1>5, OthersInOrder

\* A thread that took a link from a bundle of its own is to use it.
LEMMA PopCachedInOrder ==
    ASSUME Where, NEW x \in Procs, PopCached(x)
    PROVE  CutInOrder'
<1>1. PICK b \in Full(x) \cup Partial(x) :
                /\ cache' = [cache EXCEPT ![x] = cache'[x]]
                /\ current' = [current EXCEPT ![x] = b] /\ pc' = [pc EXCEPT ![x] = "use"]
                /\ first' = [first EXCEPT ![x] = 0]
  BY PopCachedPlaces
<1>2. b \in Links
  BY DEF Full, Partial, Bundle, BundleFrom
<1>3. nextIndex' = nextIndex /\ pages' = pages
  BY DEF PopCached
<1>4. QED
  BY <1>1, <1>2, <1>3, HandOutInOrder DEF Where

\* So is one that has chained new links,
LEMMA ChainInOrder ==
    ASSUME Where, NEW x \in Procs, ChainNewLinks(x)
    PROVE  CutInOrder'
<1>1. PICK b \in NewLinks(x) :
                /\ cache' = [cache EXCEPT ![x] = cache'[x]]
                /\ current' = [current EXCEPT ![x] = b] /\ pc' = [pc EXCEPT ![x] = "use"]
                /\ first' = [first EXCEPT ![x] = 0]
  BY ChainPlaces
<1>2. b \in Links
  BY ChainPlaces, NewLinksAreOwn DEF Where, Cutting
<1>3. nextIndex' = nextIndex /\ pages' = pages
  BY DEF ChainNewLinks
<1>4. QED
  BY <1>1, <1>2, <1>3, HandOutInOrder DEF Where

\* and one that took a bundle from the shared list, while an empty list makes it cut.
LEMMA PopGlobalInOrder ==
    ASSUME Where, NEW x \in Procs, PopGlobal(x)
    PROVE  CutInOrder'
<1>1. CASE SomeShared
  <2>1. PICK b \in Bundle(globalList[1]) :
                /\ cache' = [cache EXCEPT ![x] = cache'[x]]
                /\ current' = [current EXCEPT ![x] = b] /\ pc' = [pc EXCEPT ![x] = "use"]
                /\ first' = [first EXCEPT ![x] = 0]
    BY <1>1, PopGlobalPlaces
  <2>2. b \in Links
    BY DEF Bundle, BundleFrom
  <2>3. nextIndex' = nextIndex /\ pages' = pages
    BY DEF PopGlobal
  <2>4. QED
    BY <2>1, <2>2, <2>3, HandOutInOrder DEF Where
<1>2. CASE ~ SomeShared
  <2>1. /\ pc[x] = "idle" /\ cache[x].partial = 0 /\ cache[x].full = 0
        /\ pc' = [pc EXCEPT ![x] = "reserve"]
        /\ UNCHANGED <<cache, nextIndex, pages, first, current>>
    BY <1>2, PopGlobalEmptyPlaces
  <2>2. pc'[x] = "reserve" /\ first'[x] = 0 /\ cache'[x] = cache[x]
    BY <2>1, NoneOwned DEF Where, TypeOK
  <2>3. \A y \in Procs \ {x} : /\ cache'[y] = cache[y] /\ pc'[y] = pc[y]
                               /\ first'[y] = first[y] /\ current'[y] = current[y]
    BY <2>1 DEF Where, TypeOK
  <2>4. nextIndex' \in Nat /\ nextIndex <= nextIndex' /\ PagesKept
    BY <2>1, AllocatorAssumption DEF Where, TypeOK, PagesKept, GetItem, Block
  <2>5. InOrder(x)'
    BY <2>1, <2>2 DEF InOrder, Cutting
  <2>6. QED
    BY <2>3, <2>4, <2>5, OthersInOrder DEF Where
<1>3. QED
  BY <1>1, <1>2

\* A thread that has reserved links is to construct the first of them.
LEMMA ReserveInOrder ==
    ASSUME Where, NEW x \in Procs, Reserve(x)
    PROVE  CutInOrder'
<1>1. /\ pc[x] = "reserve" /\ pc' = [pc EXCEPT ![x] = "testPage"]
      /\ first' = [first EXCEPT ![x] = nextIndex] /\ current' = [current EXCEPT ![x] = nextIndex]
      /\ UNCHANGED <<cache, pages>>
  BY ReservePlaces DEF Reserve
<1>2. /\ nextIndex' = nextIndex + NUM_PER_BUNDLE /\ nextIndex \in Nat \ {0} /\ nextIndex' \in Nat
      /\ NewLinks(x)' = nextIndex .. nextIndex' - 1 /\ NUM_PER_BUNDLE \in Nat \ {0}
  BY ReservePlaces, AllocatorAssumption
<1>3. pc'[x] = "testPage" /\ first'[x] = nextIndex /\ current'[x] = nextIndex /\ cache'[x] = cache[x]
  BY <1>1 DEF Where, TypeOK
<1>4. cache[x].partial = 0 /\ cache[x].full = 0
  BY <1>1 DEF Where, CutInOrder, InOrder
<1>5. \A y \in Procs \ {x} : /\ cache'[y] = cache[y] /\ pc'[y] = pc[y]
                             /\ first'[y] = first[y] /\ current'[y] = current[y]
  BY <1>1 DEF Where, TypeOK
<1>6. nextIndex <= nextIndex' /\ nextIndex \in NewLinks(x)'
      /\ nextIndex # 0 /\ nextIndex + NUM_PER_BUNDLE <= nextIndex'
  BY <1>2
<1>7. PagesKept
  BY <1>1 DEF PagesKept, GetItem, Block
<1>8. InOrder(x)'
  BY <1>3, <1>4, <1>6 DEF InOrder, Cutting
<1>9. QED
  BY <1>2, <1>5, <1>6, <1>7, <1>8, OthersInOrder DEF Where

\* A thread that has new links to cut goes on with them.
LEMMA CuttingInOrder ==
    ASSUME TypeOK, CutInOrder, NEW x \in Procs, pc[x] \in Cutting,
           pc' = [pc EXCEPT ![x] = pc'[x]], current' = [current EXCEPT ![x] = current'[x]],
           first' = first, cache' = cache, nextIndex' = nextIndex, PagesKept,
           pc'[x] \in Cutting,
           pc'[x] # "chain" => current'[x] \in NewLinks(x),
           pc'[x] = "chain" => current'[x] = first[x] + NUM_PER_BUNDLE,
           pc'[x] = "construct" => GetItem(current[x])' # NoBlock
    PROVE  CutInOrder'
<1>1. \A y \in Procs \ {x} : /\ cache'[y] = cache[y] /\ pc'[y] = pc[y]
                             /\ first'[y] = first[y] /\ current'[y] = current[y]
  BY DEF TypeOK
<1>2. nextIndex' \in Nat /\ nextIndex <= nextIndex'
  BY AllocatorAssumption DEF TypeOK
<1>3. NewLinks(x)' = NewLinks(x)
  BY DEF NewLinks
<1>4. /\ cache[x].partial = 0 /\ cache[x].full = 0
      /\ first[x] # 0 /\ first[x] + NUM_PER_BUNDLE <= nextIndex
  BY DEF CutInOrder, InOrder
<1>5. InOrder(x)'
  BY <1>3, <1>4 DEF InOrder, Cutting
<1>6. QED
  BY <1>1, <1>2, <1>5, OthersInOrder

\* A link is constructed only where the test has found a page.
LEMMA TestPageInOrder ==
    ASSUME Where, NEW x \in Procs, TestPage(x)
    PROVE  CutInOrder'
<1>1. /\ pc[x] = "testPage"
      /\ pc' = [pc EXCEPT ![x] = IF GetItem(current[x]) = NoBlock THEN "installPage" ELSE "construct"]
      /\ UNCHANGED <<cache, nextIndex, pages, first, current>>
  BY DEF TestPage
<1>2. /\ pc'[x] = IF GetItem(current[x]) = NoBlock THEN "installPage" ELSE "construct"
      /\ pc' = [pc EXCEPT ![x] = pc'[x]] /\ current' = [current EXCEPT ![x] = current'[x]]
  BY <1>1 DEF Where, TypeOK
<1>3. GetItem(current[x])' = GetItem(current[x]) /\ PagesKept
  BY <1>1 DEF GetItem, Block, PagesKept
<1>4. pc[x] \in Cutting \ {"chain"} /\ pc'[x] \in Cutting \ {"chain"} /\ pc[x] \in Cutting
  BY <1>1, <1>2 DEF Cutting
<1>5. current'[x] \in NewLinks(x)
  BY <1>1, <1>4, CurrentIsNew DEF Where
<1>6. pc'[x] = "construct" => GetItem(current[x])' # NoBlock
  BY <1>2, <1>3
<1>7. QED
  BY <1>1, <1>2, <1>3, <1>4, <1>5, <1>6, CuttingInOrder DEF Where

\* A page that another thread has installed stays.
LEMMA InstallKeepsPages ==
    ASSUME Where, NEW x \in Procs, InstallPage(x)
    PROVE  PagesKept /\ GetItem(current[x])' # NoBlock
<1>1. /\ pc[x] \in Cutting \ {"chain"} /\ current' = current
      /\ pages' = [pages EXCEPT ![Block(current[x])] =
                      IF pages[Block(current[x])] = NoBlock THEN x ELSE pages[Block(current[x])]]
  BY DEF InstallPage, Cutting
<1>2. current[x] \in Links
  BY <1>1, CurrentIsNew DEF Where
<1>3. Block(current[x]) \in DOMAIN pages
  BY <1>2, PageOf DEF Where
<1>4. x # NoBlock
  BY AllocatorAssumption
<1>5. ASSUME NEW link \in Links, GetItem(link) # NoBlock PROVE GetItem(link)' = GetItem(link)
  <2>1. Block(link) \in DOMAIN pages
    BY PageOf DEF Where
  <2>2. pages'[Block(link)] = pages[Block(link)]
    BY <1>1, <1>5, <2>1 DEF GetItem
  <2>3. QED
    BY <2>2 DEF GetItem, Block
<1>6. pages'[Block(current[x])] # NoBlock
  BY <1>1, <1>3, <1>4
<1>7. QED
  BY <1>1, <1>5, <1>6 DEF PagesKept, GetItem, Block

\* After the installation there is a page, this thread's or another's.
LEMMA InstallPageInOrder ==
    ASSUME Where, NEW x \in Procs, InstallPage(x)
    PROVE  CutInOrder'
<1>1. /\ pc[x] = "installPage" /\ pc' = [pc EXCEPT ![x] = "construct"]
      /\ UNCHANGED <<cache, nextIndex, first, current>>
  BY DEF InstallPage
<1>2. /\ pc'[x] = "construct" /\ pc' = [pc EXCEPT ![x] = pc'[x]]
      /\ current' = [current EXCEPT ![x] = current'[x]]
  BY <1>1 DEF Where, TypeOK
<1>3. PagesKept /\ GetItem(current[x])' # NoBlock
  BY InstallKeepsPages
<1>4. pc[x] \in Cutting \ {"chain"} /\ pc'[x] \in Cutting \ {"chain"} /\ pc[x] \in Cutting
  BY <1>1, <1>2 DEF Cutting
<1>5. current'[x] \in NewLinks(x)
  BY <1>1, <1>4, CurrentIsNew DEF Where
<1>6. QED
  BY <1>1, <1>2, <1>3, <1>4, <1>5, CuttingInOrder DEF Where

\* The last link that is constructed is followed by the chaining.
LEMMA ConstructInOrder ==
    ASSUME Where, NEW x \in Procs, Construct(x)
    PROVE  CutInOrder'
<1>1. /\ pc[x] = "construct" /\ current' = [current EXCEPT ![x] = current[x] + 1]
      /\ pc' = [pc EXCEPT ![x] = IF current'[x] \in NewLinks(x) THEN "testPage" ELSE "chain"]
      /\ UNCHANGED <<cache, nextIndex, pages, first>>
  BY DEF Construct
<1>2. /\ current'[x] = current[x] + 1
      /\ pc'[x] = IF current[x] + 1 \in NewLinks(x) THEN "testPage" ELSE "chain"
      /\ pc' = [pc EXCEPT ![x] = pc'[x]] /\ current' = [current EXCEPT ![x] = current'[x]]
  BY <1>1 DEF Where, TypeOK
<1>3. PagesKept
  BY <1>1 DEF GetItem, Block, PagesKept
<1>4. pc[x] \in Cutting \ {"chain"} /\ pc'[x] \in Cutting /\ pc[x] \in Cutting /\ pc'[x] # "construct"
  BY <1>1, <1>2 DEF Cutting
<1>5. current[x] + 1 \in NewLinks(x) \/ current[x] + 1 = first[x] + NUM_PER_BUNDLE
  BY <1>4, CurrentIsNew DEF Where
<1>6. /\ pc'[x] # "chain" => current'[x] \in NewLinks(x)
      /\ pc'[x] = "chain" => current'[x] = first[x] + NUM_PER_BUNDLE
  BY <1>2, <1>5
<1>7. QED
  BY <1>1, <1>2, <1>3, <1>4, <1>6, CuttingInOrder DEF Where

\* A thread that has used its link is idle.
LEMMA UseInOrder ==
    ASSUME Where, NEW x \in Procs, Use(x)
    PROVE  CutInOrder'
<1>1. /\ pc' = [pc EXCEPT ![x] = "idle"] /\ current' = [current EXCEPT ![x] = 0]
      /\ UNCHANGED <<cache, nextIndex, pages, first>> /\ first[x] = 0
  BY UsePlaces DEF Use
<1>2. pc'[x] = "idle" /\ first'[x] = 0
  BY <1>1 DEF Where, TypeOK
<1>3. \A y \in Procs \ {x} : /\ cache'[y] = cache[y] /\ pc'[y] = pc[y]
                             /\ first'[y] = first[y] /\ current'[y] = current[y]
  BY <1>1 DEF Where, TypeOK
<1>4. nextIndex' \in Nat /\ nextIndex <= nextIndex' /\ PagesKept
  BY <1>1, AllocatorAssumption DEF Where, TypeOK, PagesKept, GetItem, Block
<1>5. InOrder(x)'
  BY <1>2 DEF InOrder, Cutting
<1>6. QED
  BY <1>3, <1>4, <1>5, OthersInOrder DEF Where

\* Free leaves a thread idle.
LEMMA FreeInOrder ==
    ASSUME Where, NEW x \in Procs, NEW link \in used, Free(x, link)
    PROVE  CutInOrder'
<1>1. /\ pc[x] = "idle" /\ UNCHANGED <<nextIndex, pages, pc, first, current>>
  BY FreeIs DEF Where
<1>2. first[x] = 0
  BY <1>1, NoneOwned DEF Where
<1>3. cache' = [cache EXCEPT ![x] = cache'[x]]
  BY FreePlaces DEF Freed
<1>4. \A y \in Procs \ {x} : /\ cache'[y] = cache[y] /\ pc'[y] = pc[y]
                             /\ first'[y] = first[y] /\ current'[y] = current[y]
  BY <1>1, <1>3 DEF Where, TypeOK
<1>5. nextIndex' \in Nat /\ nextIndex <= nextIndex' /\ PagesKept
  BY <1>1, AllocatorAssumption DEF Where, TypeOK, PagesKept, GetItem, Block
<1>6. InOrder(x)'
  BY <1>1, <1>2 DEF InOrder, Cutting
<1>7. QED
  BY <1>4, <1>5, <1>6, OthersInOrder DEF Where

-----------------------------------------------------------------------------
(* Links are clean when they are handed out. *)

CleanLink(link) == ~ doubleNext[link] /\ singleNext[link] = 0

CleanThread(x) ==
    /\ \A link \in Full(x) \cup Partial(x) : CleanLink(link)
    /\ pc[x] = "use" => payload[current[x]] = 0 /\ CleanLink(current[x])

CleanShared(i) ==
    \A link \in Bundle(globalList[i]) :
        ~ doubleNext[link] /\ (link # globalList[i] => singleNext[link] = 0)

\* The two parts of the invariant, thread by thread and bundle by bundle.
LEMMA CleanIs ==
    BundlesClean /\ HandedOutClean
        <=> /\ \A x \in Procs : CleanThread(x)
            /\ \A i \in DOMAIN globalList : CleanShared(i)
  BY DEF BundlesClean, HandedOutClean, CleanThread, CleanShared, CleanLink, Full, Partial

\* The same of the next state.
LEMMA CleanIsPrime ==
    (BundlesClean /\ HandedOutClean)'
        <=> /\ \A x \in Procs : CleanThread(x)'
            /\ \A i \in DOMAIN globalList' : CleanShared(i)'
  BY DEF BundlesClean, HandedOutClean, CleanThread, CleanShared, CleanLink, Full, Partial

\* Only the links T change.
OnlyOf(T) ==
    \A link \in Links \ T : /\ doubleNext'[link] = doubleNext[link]
                            /\ singleNext'[link] = singleNext[link]
                            /\ payload'[link] = payload[link]

\* Another thread's links stay clean.
LEMMA OthersClean ==
    ASSUME Where, BundlesClean, HandedOutClean, NEW y \in Procs, NEW T, OnlyOf(T), Holds(y) \cap T = {},
           Full(y)' = Full(y), Partial(y)' = Partial(y), pc'[y] = pc[y], current'[y] = current[y]
    PROVE  CleanThread(y)'
<1>1. CleanThread(y)
  BY CleanIs
<1>2. Full(y) \cup Partial(y) \subseteq Holds(y)
  BY DEF Holds, Full, Partial
<1>3. Full(y) \cup Partial(y) \subseteq Links
  BY DEF Full, Partial, Bundle, BundleFrom
<1>4. ASSUME NEW link \in Full(y)' \cup Partial(y)' PROVE CleanLink(link)'
  <2>1. link \in Links \ T /\ CleanLink(link)
    BY <1>1, <1>2, <1>3 DEF CleanThread
  <2>2. QED
    BY <2>1 DEF OnlyOf, CleanLink
<1>5. ASSUME pc'[y] = "use"
      PROVE  payload'[current'[y]] = 0 /\ CleanLink(current[y])'
  <2>1. pc[y] = "use" /\ current[y] \in Links /\ Own(y) = {current[y]}
    BY <1>5 DEF Where, CutInOrder, InOrder, Own
  <2>2. current[y] \in Links \ T
    BY <2>1 DEF Holds
  <2>3. payload[current[y]] = 0 /\ CleanLink(current[y])
    BY <1>1, <2>1 DEF CleanThread
  <2>4. QED
    BY <2>2, <2>3 DEF OnlyOf, CleanLink
<1>6. QED
  BY <1>4, <1>5 DEF CleanThread

\* So do the bundles of the shared list, where they stay on it.
LEMMA SharedStaysClean ==
    ASSUME Where, BundlesClean, HandedOutClean, NEW T, OnlyOf(T),
           NEW i \in 1 .. Len(globalList), Bundle(globalList[i]) \cap T = {},
           NEW j, globalList'[j] = globalList[i], Bundle(globalList[j])' = Bundle(globalList[i])
    PROVE  CleanShared(j)'
<1>1. CleanShared(i)
  BY CleanIs DEF Where, TypeOK
<1>2. Bundle(globalList[i]) \subseteq Links \ T
  BY DEF Bundle, BundleFrom
<1>3. QED
  BY <1>1, <1>2 DEF CleanShared, OnlyOf

\* A step of one thread that leaves the shared list alone.
LEMMA CleanStays ==
    ASSUME Where, BundlesClean, HandedOutClean, NEW x \in Procs, NEW T, OnlyOf(T),
           \A y \in Procs \ {x} : /\ Holds(y) \cap T = {}
                                  /\ Full(y)' = Full(y) /\ Partial(y)' = Partial(y)
                                  /\ pc'[y] = pc[y] /\ current'[y] = current[y],
           globalList' = globalList,
           \A i \in 1 .. Len(globalList) : /\ Bundle(globalList[i]) \cap T = {}
                                           /\ BundleFrom(payload', globalList[i]) = Bundle(globalList[i]),
           CleanThread(x)'
    PROVE  BundlesClean' /\ HandedOutClean'
<1>1. \A y \in Procs \ {x} : CleanThread(y)'
  BY OthersClean
<1>2. DOMAIN globalList = 1 .. Len(globalList)
  BY DEF Where, TypeOK
<1>3. ASSUME NEW i \in 1 .. Len(globalList) PROVE CleanShared(i)'
  <2>1. globalList'[i] = globalList[i] /\ Bundle(globalList[i])' = Bundle(globalList[i])
        /\ Bundle(globalList[i]) \cap T = {}
    BY DEF Bundle
  <2>2. QED
    BY <2>1, SharedStaysClean
<1>4. QED
  BY <1>1, <1>2, <1>3, CleanIsPrime

\* What the other threads hold, and the shared list, are apart from a thread's links.
LEMMA ApartFromOthers ==
    ASSUME Where, NEW x \in Procs, NEW T, T \subseteq Holds(x) \cup used
    PROVE  /\ \A y \in Procs \ {x} : Holds(y) \cap T = {}
           /\ \A i \in 1 .. Len(globalList) : Bundle(globalList[i]) \cap T = {}
<1>1. \A y \in Procs \ {x} : Holds(y) \cap Holds(x) = {} /\ Holds(y) \cap used = {}
  BY PlacesApart DEF Where
<1>2. \A i \in 1 .. Len(globalList) : /\ Holds(x) \cap Bundle(globalList[i]) = {}
                                      /\ Bundle(globalList[i]) \cap used = {}
  BY PlacesApart DEF Where
<1>3. QED
  BY <1>1, <1>2

\* A step in which no link changes and none is handed out.
LEMMA QuietClean ==
    ASSUME BundlesClean, HandedOutClean,
           UNCHANGED <<cache, globalList, payload, singleNext, doubleNext>>,
           \A y \in Procs : pc'[y] = "use" => pc[y] = "use" /\ current'[y] = current[y]
    PROVE  BundlesClean' /\ HandedOutClean'
<1>1. BundlesClean'
  BY DEF BundlesClean, Bundle
<1>2. HandedOutClean'
  BY DEF HandedOutClean
<1>3. QED
  BY <1>1, <1>2

\* No link is marked or handed out while new ones are cut.
LEMMA ReserveAndConstructClean ==
    ASSUME Where, BundlesClean, HandedOutClean, NEW x \in Procs,
           Reserve(x) \/ TestPage(x) \/ InstallPage(x) \/ Construct(x)
    PROVE  BundlesClean' /\ HandedOutClean'
<1>1. UNCHANGED <<cache, globalList, payload, singleNext, doubleNext>>
  BY DEF Reserve, TestPage, InstallPage, Construct
<1>2. /\ pc' = [pc EXCEPT ![x] = pc'[x]] /\ pc'[x] # "use"
      /\ current' = [current EXCEPT ![x] = current'[x]]
  <2>1. CASE Reserve(x)
    BY <2>1, ReservePlaces DEF Reserve, Where, TypeOK
  <2>2. CASE TestPage(x)
    BY <2>2 DEF TestPage, Where, TypeOK
  <2>3. CASE InstallPage(x)
    BY <2>3 DEF InstallPage, Where, TypeOK
  <2>4. CASE Construct(x)
    BY <2>4 DEF Construct, Where, TypeOK
  <2>5. QED
    BY <2>1, <2>2, <2>3, <2>4
<1>3. \A y \in Procs : pc'[y] = "use" => pc[y] = "use" /\ current'[y] = current[y]
  BY <1>2 DEF Where, TypeOK
<1>4. QED
  BY <1>1, <1>3, QuietClean

\* The other threads' steps and links, after a step of one thread.
LEMMA OthersStep ==
    ASSUME TypeOK, NEW x \in Procs, NEW p, NEW b,
           pc' = [pc EXCEPT ![x] = p], current' = [current EXCEPT ![x] = b]
    PROVE  /\ pc'[x] = p /\ current'[x] = b
           /\ \A y \in Procs \ {x} : pc'[y] = pc[y] /\ current'[y] = current[y]
  BY DEF TypeOK

\* A link from a bundle of the thread is clean but for its Payload, which Pop resets.
LEMMA PopCachedClean ==
    ASSUME Where, BundlesClean, HandedOutClean, NEW x \in Procs, PopCached(x)
    PROVE  BundlesClean' /\ HandedOutClean'
<1>1. PICK b \in Full(x) \cup Partial(x) :
                /\ payload' = [payload EXCEPT ![b] = 0]
                /\ current' = [current EXCEPT ![x] = b] /\ pc' = [pc EXCEPT ![x] = "use"]
                /\ Full(x)' \cup Partial(x)' \subseteq Full(x) \cup Partial(x)
                /\ \A y \in Procs \ {x} : Full(y)' = Full(y) /\ Partial(y)' = Partial(y)
                /\ \A i \in 1 .. Len(globalList) : BundleFrom(payload', globalList[i]) = Bundle(globalList[i])
  BY PopCachedPlaces
<1>2. b \in Links /\ b \in Holds(x)
  BY DEF Full, Partial, Bundle, BundleFrom, Holds
<1>3. UNCHANGED <<globalList, singleNext, doubleNext>>
  BY DEF PopCached
<1>4. OnlyOf({b}) /\ payload'[b] = 0
  BY <1>1, <1>2, <1>3 DEF OnlyOf, Where, TypeOK
<1>5. /\ pc'[x] = "use" /\ current'[x] = b
      /\ \A y \in Procs \ {x} : pc'[y] = pc[y] /\ current'[y] = current[y]
  BY <1>1, OthersStep DEF Where
<1>6. /\ \A y \in Procs \ {x} : Holds(y) \cap {b} = {}
      /\ \A i \in 1 .. Len(globalList) : Bundle(globalList[i]) \cap {b} = {}
  <2>1. {b} \subseteq Holds(x) \cup used
    BY <1>2
  <2>2. QED
    BY <2>1, ApartFromOthers
<1>7. CleanThread(x)'
  <2>1. CleanThread(x)
    BY CleanIs
  <2>2. \A link \in Full(x) \cup Partial(x) : CleanLink(link)'
    BY <1>3, <2>1 DEF CleanThread, CleanLink
  <2>3. \A link \in Full(x)' \cup Partial(x)' : CleanLink(link)'
    BY <1>1, <2>2
  <2>4. payload'[current'[x]] = 0 /\ CleanLink(current[x])'
    BY <1>4, <1>5, <2>2 DEF CleanLink
  <2>5. QED
    BY <2>3, <2>4 DEF CleanThread
<1>8. QED
  BY <1>1, <1>3, <1>4, <1>5, <1>6, <1>7, CleanStays

\* The new links are initialised before one of them is handed out.
LEMMA ChainClean ==
    ASSUME Where, BundlesClean, HandedOutClean, NEW x \in Procs, ChainNewLinks(x)
    PROVE  BundlesClean' /\ HandedOutClean'
<1> DEFINE T == NewLinks(x)
<1>1. PICK b \in T :
                /\ payload'[b] = 0 /\ \A link \in Links \ T : payload'[link] = payload[link]
                /\ current' = [current EXCEPT ![x] = b] /\ pc' = [pc EXCEPT ![x] = "use"]
                /\ Full(x)' \cup Partial(x)' \subseteq T
                /\ \A y \in Procs \ {x} : Full(y)' = Full(y) /\ Partial(y)' = Partial(y)
                /\ \A i \in 1 .. Len(globalList) : BundleFrom(payload', globalList[i]) = Bundle(globalList[i])
  BY ChainPlaces
<1>2. T \subseteq Links /\ T = Own(x)
  BY ChainPlaces, NewLinksAreOwn DEF Where, Cutting
<1>3. /\ doubleNext' = [l \in Links |-> IF l \in T THEN FALSE ELSE doubleNext[l]]
      /\ singleNext' = [l \in Links |-> IF l \in T THEN 0 ELSE singleNext[l]]
      /\ globalList' = globalList
  BY DEF ChainNewLinks
<1> HIDE DEF T
<1>4. OnlyOf(T) /\ \A link \in T : CleanLink(link)'
  BY <1>1, <1>2, <1>3 DEF OnlyOf, CleanLink
<1>5. /\ pc'[x] = "use" /\ current'[x] = b
      /\ \A y \in Procs \ {x} : pc'[y] = pc[y] /\ current'[y] = current[y]
  BY <1>1, OthersStep DEF Where
<1>6. /\ \A y \in Procs \ {x} : Holds(y) \cap T = {}
      /\ \A i \in 1 .. Len(globalList) : Bundle(globalList[i]) \cap T = {}
  <2>1. T \subseteq Holds(x) \cup used
    BY <1>2 DEF Holds
  <2>2. QED
    BY <2>1, ApartFromOthers
<1>7. CleanThread(x)'
  <2>1. \A link \in Full(x)' \cup Partial(x)' : CleanLink(link)'
    BY <1>1, <1>4
  <2>2. payload'[current'[x]] = 0 /\ CleanLink(current[x])'
    BY <1>1, <1>4, <1>5 DEF CleanLink
  <2>3. QED
    BY <2>1, <2>2 DEF CleanThread
<1>8. QED
  BY <1>1, <1>3, <1>4, <1>5, <1>6, <1>7, CleanStays

\* The link that is marked by its user is in no bundle.
LEMMA UseClean ==
    ASSUME Where, BundlesClean, HandedOutClean, NEW x \in Procs, Use(x)
    PROVE  BundlesClean' /\ HandedOutClean'
<1>1. /\ current[x] \in Links /\ Own(x) = {current[x]}
      /\ \A y \in Procs : Full(y)' = Full(y) /\ Partial(y)' = Partial(y)
      /\ \A i \in 1 .. Len(globalList) : BundleFrom(payload', globalList[i]) = Bundle(globalList[i])
  BY UsePlaces
<1>2. /\ pc' = [pc EXCEPT ![x] = "idle"] /\ current' = [current EXCEPT ![x] = 0]
      /\ payload' = [payload EXCEPT ![current[x]] = UserData]
      /\ doubleNext' = [doubleNext EXCEPT ![current[x]] = TRUE]
      /\ UNCHANGED <<globalList, singleNext>>
  BY DEF Use
<1> DEFINE T == {current[x]}
<1>3. OnlyOf(T)
  BY <1>1, <1>2 DEF OnlyOf, Where, TypeOK
<1>4. T \subseteq Holds(x) \cup used /\ (Full(x) \cup Partial(x)) \cap T = {}
  BY <1>1 DEF Holds, Full, Partial, Where, LinksConserved
<1> HIDE DEF T
<1>5. /\ pc'[x] = "idle" /\ \A y \in Procs \ {x} : pc'[y] = pc[y] /\ current'[y] = current[y]
  BY <1>2, OthersStep DEF Where
<1>6. /\ \A y \in Procs \ {x} : Holds(y) \cap T = {}
      /\ \A i \in 1 .. Len(globalList) : Bundle(globalList[i]) \cap T = {}
  BY <1>4, ApartFromOthers
<1>7. CleanThread(x)'
  <2>1. CleanThread(x) /\ Full(x) \cup Partial(x) \subseteq Links
    BY CleanIs DEF Full, Partial, Bundle, BundleFrom
  <2>2. \A link \in Full(x) \cup Partial(x) : CleanLink(link) /\ link \in Links \ T
    BY <1>4, <2>1 DEF CleanThread
  <2>3. \A link \in Full(x) \cup Partial(x) : CleanLink(link)'
    BY <1>3, <2>2 DEF OnlyOf, CleanLink
  <2>4. QED
    BY <1>1, <1>5, <2>3 DEF CleanThread
<1>8. QED
  BY <1>1, <1>2, <1>3, <1>5, <1>6, <1>7, CleanStays

\* The SingleNext of a bundle that is taken from the shared list is reset.
LEMMA PopGlobalClean ==
    ASSUME Where, BundlesClean, HandedOutClean, NEW x \in Procs, PopGlobal(x)
    PROVE  BundlesClean' /\ HandedOutClean'
<1>1. CASE ~ SomeShared
  <2>1. /\ pc' = [pc EXCEPT ![x] = "reserve"]
        /\ UNCHANGED <<cache, globalList, payload, singleNext, doubleNext, current>>
    BY <1>1, PopGlobalEmptyPlaces
  <2>2. \A y \in Procs : pc'[y] = "use" => pc[y] = "use" /\ current'[y] = current[y]
    BY <2>1 DEF Where, TypeOK
  <2>3. QED
    BY <2>1, <2>2, QuietClean
<1>2. CASE SomeShared
  <2>1. PICK b \in Bundle(globalList[1]) :
                /\ b = globalList[1]
                /\ payload' = [payload EXCEPT ![b] = 0]
                /\ singleNext' = [singleNext EXCEPT ![b] = 0]
                /\ current' = [current EXCEPT ![x] = b] /\ pc' = [pc EXCEPT ![x] = "use"]
                /\ Full(x)' \cup Partial(x)' \subseteq Bundle(b) \ {b}
                /\ \A y \in Procs \ {x} : Full(y)' = Full(y) /\ Partial(y)' = Partial(y)
                /\ \A i \in 1 .. Len(globalList') :
                      /\ i + 1 \in 1 .. Len(globalList) /\ globalList'[i] = globalList[i + 1]
                      /\ Bundle(globalList[i])' = Bundle(globalList[i + 1])
    BY <1>2, PopGlobalPlaces
  <2>2. b \in Links /\ Bundle(b) \subseteq Links /\ b \in Bundle(b)
    BY <2>1 DEF Bundle, BundleFrom
  <2>3. doubleNext' = doubleNext /\ globalList' = Tail(globalList)
    BY <1>2, <2>1 DEF PopGlobal, SomeShared
  <2>4. 1 \in 1 .. Len(globalList) /\ globalList \in Seq(Links)
    <3>1. globalList \in Seq(Links)
      BY DEF Where, TypeOK
    <3>2. QED
      BY <1>2, <3>1 DEF SomeShared
  <2>5. OnlyOf({b}) /\ payload'[b] = 0 /\ singleNext'[b] = 0
    <3>1. singleNext \in [Links -> {0} \cup Links] /\ payload \in [Links -> 0 .. MaxTotalItems]
      BY DEF Where, TypeOK
    <3>2. doubleNext' = doubleNext
      BY <2>3
    <3>3. QED
      BY <2>1, <2>2, <3>1, <3>2 DEF OnlyOf
  <2>6. /\ pc'[x] = "use" /\ current'[x] = b
        /\ \A y \in Procs \ {x} : pc'[y] = pc[y] /\ current'[y] = current[y]
    <3>1. /\ current' = [current EXCEPT ![x] = b] /\ pc' = [pc EXCEPT ![x] = "use"] /\ TypeOK
      BY <2>1 DEF Where
    <3>2. pc'[x] = "use" /\ current'[x] = b
      BY <3>1 DEF TypeOK
    <3>3. \A y \in Procs \ {x} : pc'[y] = pc[y] /\ current'[y] = current[y]
      BY <3>1 DEF TypeOK
    <3>4. QED
      BY <3>2, <3>3
  <2>7. /\ \A y \in Procs : Holds(y) \cap {b} = {}
        /\ \A i \in 1 .. Len(globalList) : i # 1 => Bundle(globalList[i]) \cap {b} = {}
    <3>1. \A y \in Procs : Holds(y) \cap Bundle(globalList[1]) = {}
      BY <2>4, PlacesApart DEF Where
    <3>2. \A i \in 1 .. Len(globalList) : i # 1 => Bundle(globalList[i]) \cap Bundle(globalList[1]) = {}
      BY <2>4, PlacesApart DEF Where
    <3>3. QED
      BY <3>1, <3>2
  <2>8. CleanThread(x)'
    <3>1. \A link \in Bundle(b) : ~ doubleNext[link] /\ (link # b => singleNext[link] = 0)
      <4>1. CleanShared(1)
        BY <2>4, CleanIs
      <4>2. QED
        BY <2>1, <4>1 DEF CleanShared
    <3>2. doubleNext' = doubleNext
      BY <2>3
    <3>3. \A link \in Bundle(b) : CleanLink(link)'
      BY <2>2, <2>5, <3>1, <3>2 DEF CleanLink, OnlyOf
    <3>4. \A link \in Full(x)' \cup Partial(x)' : CleanLink(link)'
      BY <2>1, <3>3
    <3>5. payload'[current'[x]] = 0 /\ CleanLink(current[x])'
      BY <2>2, <2>5, <2>6, <3>3 DEF CleanLink
    <3>6. QED
      BY <3>4, <3>5 DEF CleanThread
  <2>9. \A y \in Procs \ {x} : CleanThread(y)'
    BY <2>1, <2>5, <2>6, <2>7, OthersClean
  <2>10. ASSUME NEW j \in 1 .. Len(globalList') PROVE CleanShared(j)'
    <3>1. PICK i \in 1 .. Len(globalList) : i = j + 1
      BY <2>1
    <3>2. globalList'[j] = globalList[i] /\ Bundle(globalList[j])' = Bundle(globalList[i])
      BY <2>1, <3>1
    <3>3. globalList' \in Seq(Links) /\ Len(globalList') \in Nat
      BY <2>3, <2>4
    <3>4. i # 1
      BY <3>1, <3>3
    <3>5. Bundle(globalList[i]) \cap {b} = {}
      BY <2>7, <3>4
    <3>6. QED
      BY <2>5, <3>2, <3>5, SharedStaysClean
  <2>11. DOMAIN globalList' = 1 .. Len(globalList')
    BY <2>3, <2>4
  <2>12. \A y \in Procs : CleanThread(y)'
    BY <2>8, <2>9
  <2>13. QED
    BY <2>10, <2>11, <2>12, CleanIsPrime
<1>3. QED
  BY <1>1, <1>2

\* A link that is given back is cleaned, and so is the one that the shared list
\* starts with but for its SingleNext.
LEMMA FreeClean ==
    ASSUME Where, BundlesClean, HandedOutClean, NEW x \in Procs, NEW link \in used, Free(x, link)
    PROVE  BundlesClean' /\ HandedOutClean'
<1> DEFINE T == {link} \cup (IF Spill(x) THEN {cache[x].full} ELSE {})
<1>1. Freed(x, link)
  BY FreePlaces
<1>2. /\ pc[x] = "idle"
      /\ singleNext' = [l \in Links |->
                IF l = link THEN 0
                ELSE IF Spill(x) /\ l = cache[x].full THEN NextShared ELSE singleNext[l]]
      /\ doubleNext' = [doubleNext EXCEPT ![link] = FALSE]
      /\ UNCHANGED <<pc, current>>
  BY FreeIs DEF Where
<1>3. /\ link \in Links /\ (\A y \in Procs : link \notin Holds(y))
      /\ \A l \in Links \ {link} : payload'[l] = payload[l]
  BY <1>1 DEF Freed
<1>4. OnlyOf(T)
  <2>1. doubleNext \in [Links -> BOOLEAN]
    BY DEF Where, TypeOK
  <2>2. \A l \in Links \ {link} : doubleNext'[l] = doubleNext[l]
    BY <1>2, <2>1
  <2>3. \A l \in Links \ T : singleNext'[l] = singleNext[l]
    BY <1>2
  <2>4. QED
    BY <1>3, <2>2, <2>3 DEF OnlyOf
<1>5. CleanLink(link)'
  <2>1. doubleNext \in [Links -> BOOLEAN]
    BY DEF Where, TypeOK
  <2>2. doubleNext'[link] = FALSE
    BY <1>2, <1>3, <2>1
  <2>3. singleNext'[link] = 0
    BY <1>2, <1>3
  <2>4. QED
    BY <2>2, <2>3 DEF CleanLink
<1>6. Spill(x) => cache[x].full \in Full(x) /\ cache[x].full # link
  <2>1. LinkedBundle(payload, cache[x].full, FullSize(x)) /\ FullSize(x) \in 0 .. NUM_PER_BUNDLE
    BY BundleFacts DEF Where
  <2>2. Spill(x) => FullSize(x) # 0
    BY AllocatorAssumption DEF Spill, FullSize
  <2>3. Spill(x) => cache[x].full \in BundleFrom(payload, cache[x].full)
    BY <2>1, <2>2, BundleFirst
  <2>4. Spill(x) => cache[x].full \in Full(x)
    BY <2>3 DEF Full, Bundle
  <2>5. Full(x) \subseteq Holds(x)
    BY DEF Full, Holds
  <2>6. QED
    BY <1>3, <2>4, <2>5
<1>7. /\ \A y \in Procs \ {x} : Holds(y) \cap T = {}
      /\ \A i \in 1 .. Len(globalList) : Bundle(globalList[i]) \cap T = {}
  <2>1. T \subseteq Holds(x) \cup used
    BY <1>6 DEF Full, Holds
  <2> HIDE DEF T
  <2>2. QED
    BY <2>1, ApartFromOthers
<1>8. \A y \in Procs \ {x} : /\ Full(y)' = Full(y) /\ Partial(y)' = Partial(y)
                             /\ pc'[y] = pc[y] /\ current'[y] = current[y]
  BY <1>1, <1>2 DEF Freed
<1>9. \A y \in Procs \ {x} : CleanThread(y)'
  <2> HIDE DEF T
  <2>1. QED
    BY <1>4, <1>7, <1>8, OthersClean
<1>10. /\ CleanThread(x) /\ Full(x) \cup Partial(x) \subseteq Links /\ Full(x) \cup Partial(x) \subseteq Holds(x)
       /\ Full(x) \cap Partial(x) = {}
  BY CleanIs DEF Where, LinksConserved, Holds, Full, Partial, Bundle, BundleFrom
<1>11. \A l \in (Full(x) \cup Partial(x)) \ T : CleanLink(l)'
  <2>1. \A l \in Full(x) \cup Partial(x) : CleanLink(l) /\ l \in Links
    BY <1>10 DEF CleanThread
  <2> HIDE DEF T
  <2>2. QED
    BY <1>4, <2>1 DEF OnlyOf, CleanLink
<1>12. CleanThread(x)'
  <2>1. /\ Partial(x)' = Bundle(To(x).partial) \cup {link} /\ Full(x)' = Bundle(To(x).full)
    BY <1>1 DEF Freed
  <2>2. /\ Bundle(To(x).partial) = (IF Shift(x) THEN {} ELSE Partial(x))
        /\ Bundle(To(x).full) = (IF Shift(x) THEN Partial(x) ELSE Full(x))
    BY FreeBundles
  <2>3. \A l \in Full(x)' \cup Partial(x)' : l = link \/ l \in (Full(x) \cup Partial(x)) \ T
    <3>1. CASE Spill(x)
      <4>1. Full(x)' = Partial(x) /\ Partial(x)' = {link}
        BY <2>1, <2>2, <3>1 DEF Spill
      <4>2. QED
        BY <1>6, <1>10, <3>1, <4>1
    <3>2. CASE ~ Spill(x)
      <4>1. T = {link} /\ Full(x)' \cup Partial(x)' \subseteq Full(x) \cup Partial(x) \cup {link}
        BY <2>1, <2>2, <3>2
      <4>2. QED
        BY <4>1
    <3>3. QED
      BY <3>1, <3>2
  <2>4. \A l \in Full(x)' \cup Partial(x)' : CleanLink(l)'
    BY <1>5, <1>11, <2>3
  <2>5. pc'[x] # "use"
    BY <1>2
  <2>6. QED
    BY <2>4, <2>5 DEF CleanThread
<1>13. globalList' \in Seq(Links) /\ DOMAIN globalList' = 1 .. Len(globalList')
  BY FreePlaces DEF TypeOK
<1>14. ASSUME NEW j \in 1 .. Len(globalList') PROVE CleanShared(j)'
  <2>1. CASE ~ Spill(x)
    <3>1. globalList' = globalList
      BY <2>1, FreeIs DEF Where
    <3>2. Bundle(globalList[j])' = Bundle(globalList[j]) /\ Bundle(globalList[j]) \cap T = {}
      BY <1>1, <1>7, <3>1 DEF Freed, Bundle
    <3> HIDE DEF T
    <3>3. QED
      BY <1>4, <3>1, <3>2, SharedStaysClean
  <2>2. CASE Spill(x) /\ j = 1
    <3>1. globalList'[1] = cache[x].full /\ Bundle(globalList[1])' = Full(x)
      BY <1>1, <2>2, FreeSpills
    <3>2. \A l \in Full(x) \ {cache[x].full} : CleanLink(l)'
      BY <1>3, <1>10, <1>11
    <3>3. ~ doubleNext'[cache[x].full]
      <4>1. cache[x].full \in Links /\ cache[x].full # link /\ ~ doubleNext[cache[x].full]
        BY <1>6, <1>10, <2>2 DEF CleanThread, CleanLink
      <4>2. doubleNext \in [Links -> BOOLEAN]
        BY DEF Where, TypeOK
      <4>3. QED
        BY <1>2, <4>1, <4>2
    <3>4. QED
      BY <2>2, <3>1, <3>2, <3>3 DEF CleanShared, CleanLink
  <2>3. CASE Spill(x) /\ j # 1
    <3>1. PICK i \in 1 .. Len(globalList) : i = j - 1
      BY <1>1, <2>3, FreeSpills
    <3>2. globalList'[i + 1] = globalList[i] /\ Bundle(globalList[i + 1])' = Bundle(globalList[i])
      BY <1>1, <2>3, FreeSpills
    <3>3. i + 1 = j
      BY <1>13, <3>1
    <3>4. globalList'[j] = globalList[i] /\ Bundle(globalList[j])' = Bundle(globalList[i])
      BY <3>2, <3>3
    <3>5. Bundle(globalList[i]) \cap T = {}
      BY <1>7
    <3> HIDE DEF T
    <3>6. QED
      BY <1>4, <3>4, <3>5, SharedStaysClean
  <2>4. QED
    BY <2>1, <2>2, <2>3
<1>15. \A y \in Procs : CleanThread(y)'
  BY <1>9, <1>12
<1>16. QED
  BY <1>13, <1>14, <1>15, CleanIsPrime

-----------------------------------------------------------------------------
(* Links are constructed where they are looked for. *)

\* A link is still to be constructed by a thread.
ToConstruct(x, link) == first[x] # 0 /\ link \in current[x] .. first[x] + NUM_PER_BUNDLE - 1

InPlace(link) == constructed[link] = GetItem(link) /\ constructed[link] # NoBlock

\* A step that neither reserves nor constructs links.
LEMMA ConstructedStays ==
    ASSUME Where, ConstructedOrCut, NEW x \in Procs, nextIndex' = nextIndex, constructed' = constructed,
           PagesKept, \A y \in Procs \ {x} : first'[y] = first[y] /\ current'[y] = current[y],
           \/ first[x] = 0 \/ pc[x] = "chain"
           \/ first'[x] = first[x] /\ current'[x] = current[x]
    PROVE  ConstructedOrCut'
<1>1. SUFFICES ASSUME NEW link \in 1 .. nextIndex - 1
               PROVE  (\E y \in Procs : ToConstruct(y, link)') \/ InPlace(link)'
  BY DEF ConstructedOrCut, ToConstruct, InPlace, GetItem, Block
<1>2. link \in Links
  BY PlacesApart DEF Where
<1>3. CASE \E y \in Procs : ToConstruct(y, link)
  <2>1. PICK y \in Procs : ToConstruct(y, link)
    BY <1>3
  <2>2. first'[y] = first[y] /\ current'[y] = current[y]
    <3>1. CASE y = x
      <4>1. first[x] # 0
        BY <2>1, <3>1 DEF ToConstruct
      <4>2. pc[x] # "chain"
        <5>1. SUFFICES ASSUME pc[x] = "chain" PROVE FALSE
          OBVIOUS
        <5>2. current[x] = first[x] + NUM_PER_BUNDLE
          BY <5>1 DEF Where, CutInOrder, InOrder
        <5>3. first[x] \in Nat /\ NUM_PER_BUNDLE \in Nat
          BY <5>1, NewLinksAreOwn DEF Where, Cutting
        <5>4. \A f, m \in Nat : \A l : l \notin f + m .. f + m - 1
          OBVIOUS
        <5>5. link \in current[x] .. first[x] + NUM_PER_BUNDLE - 1
          BY <2>1, <3>1 DEF ToConstruct
        <5>6. link \in first[x] + NUM_PER_BUNDLE .. first[x] + NUM_PER_BUNDLE - 1
          BY <5>2, <5>5
        <5>7. QED
          BY <5>3, <5>4, <5>6
      <4>3. QED
        BY <3>1, <4>1, <4>2
    <3>2. QED
      BY <3>1
  <2>3. ToConstruct(y, link)'
    BY <2>1, <2>2 DEF ToConstruct
  <2>4. QED
    BY <2>3
<1>4. CASE ~ \E y \in Procs : ToConstruct(y, link)
  <2>1. InPlace(link)
    BY <1>4 DEF ConstructedOrCut, ToConstruct, InPlace
  <2>2. GetItem(link)' = GetItem(link)
    BY <1>2, <2>1 DEF PagesKept, InPlace
  <2>3. InPlace(link)'
    BY <2>1, <2>2 DEF InPlace
  <2>4. QED
    BY <2>3
<1>5. QED
  BY <1>3, <1>4

\* The links that are reserved are to be constructed by the thread that did it.
LEMMA ReserveConstructed ==
    ASSUME Where, ConstructedOrCut, NEW x \in Procs, Reserve(x)
    PROVE  ConstructedOrCut'
<1>1. /\ nextIndex' = nextIndex + NUM_PER_BUNDLE /\ nextIndex \in Nat \ {0} /\ nextIndex' \in Nat
      /\ first' = [first EXCEPT ![x] = nextIndex] /\ current' = [current EXCEPT ![x] = nextIndex]
  BY ReservePlaces
<1>2. pc[x] = "reserve" /\ UNCHANGED <<pages, constructed>>
  BY DEF Reserve
<1>3. /\ first[x] = 0 /\ first'[x] = nextIndex /\ current'[x] = nextIndex
      /\ \A y \in Procs \ {x} : first'[y] = first[y] /\ current'[y] = current[y]
  BY <1>1, <1>2, NoneOwned DEF Where, TypeOK
<1>4. SUFFICES ASSUME NEW link \in 1 .. nextIndex' - 1
               PROVE  (\E y \in Procs : ToConstruct(y, link)') \/ InPlace(link)'
  BY DEF ConstructedOrCut, ToConstruct, InPlace, GetItem, Block
<1>5. link \in 1 .. nextIndex - 1 \/ link \in nextIndex .. nextIndex + NUM_PER_BUNDLE - 1
  <2>1. \A m, n \in Nat : \A l \in 1 .. m + n - 1 : l \in 1 .. m - 1 \/ l \in m .. m + n - 1
    OBVIOUS
  <2>2. nextIndex \in Nat /\ NUM_PER_BUNDLE \in Nat /\ link \in 1 .. nextIndex + NUM_PER_BUNDLE - 1
    BY <1>1, AllocatorAssumption
  <2>3. QED
    BY <2>1, <2>2
<1>6. CASE link \in nextIndex .. nextIndex + NUM_PER_BUNDLE - 1
  <2>1. ToConstruct(x, link)'
    BY <1>1, <1>3, <1>6 DEF ToConstruct
  <2>2. QED
    BY <2>1
<1>7. CASE link \in 1 .. nextIndex - 1
  <2>1. (\E y \in Procs : ToConstruct(y, link)) \/ InPlace(link)
    BY <1>7 DEF ConstructedOrCut, ToConstruct, InPlace
  <2>2. CASE InPlace(link)
    BY <1>2, <2>2 DEF InPlace, GetItem, Block
  <2>3. CASE \E y \in Procs : ToConstruct(y, link)
    <3>1. PICK y \in Procs : ToConstruct(y, link)
      BY <2>3
    <3>2. y # x
      BY <1>3, <3>1 DEF ToConstruct
    <3>3. ToConstruct(y, link)'
      BY <1>3, <3>1, <3>2 DEF ToConstruct
    <3>4. QED
      BY <3>3
  <2>4. QED
    BY <2>1, <2>2, <2>3
<1>8. QED
  BY <1>5, <1>6, <1>7

\* A link that has been constructed is where GetItem looks for it.
LEMMA ConstructConstructed ==
    ASSUME Where, ConstructedOrCut, NEW x \in Procs, Construct(x)
    PROVE  ConstructedOrCut'
<1>1. /\ pc[x] = "construct"
      /\ constructed' = [constructed EXCEPT ![current[x]] = GetItem(current[x])]
      /\ current' = [current EXCEPT ![x] = current[x] + 1]
      /\ UNCHANGED <<nextIndex, pages, first>>
  BY DEF Construct
<1>2. pc[x] \in Cutting \ {"chain"}
  BY <1>1 DEF Cutting
<1>3. current[x] \in Links /\ GetItem(current[x]) # NoBlock
  BY <1>1, <1>2, CurrentIsNew DEF Where, CutInOrder, InOrder
<1>4. current'[x] = current[x] + 1 /\ \A y \in Procs \ {x} : current'[y] = current[y]
  BY <1>1 DEF Where, TypeOK
<1>5. /\ constructed'[current[x]] = GetItem(current[x])
      /\ \A link \in Links \ {current[x]} : constructed'[link] = constructed[link]
  BY <1>1, <1>3 DEF Where, TypeOK
<1>6. SUFFICES ASSUME NEW link \in 1 .. nextIndex - 1
               PROVE  (\E y \in Procs : ToConstruct(y, link)') \/ InPlace(link)'
  BY <1>1 DEF ConstructedOrCut, ToConstruct, InPlace, GetItem, Block
<1>7. link \in Links /\ GetItem(link)' = GetItem(link)
  BY <1>1, PlacesApart DEF Where, GetItem, Block
<1>8. CASE link = current[x]
  BY <1>3, <1>5, <1>7, <1>8 DEF InPlace
<1>9. CASE link # current[x]
  <2>1. (\E y \in Procs : ToConstruct(y, link)) \/ InPlace(link)
    BY DEF ConstructedOrCut, ToConstruct, InPlace
  <2>2. CASE InPlace(link)
    BY <1>5, <1>7, <1>9, <2>2 DEF InPlace
  <2>3. CASE \E y \in Procs : ToConstruct(y, link)
    <3>1. PICK y \in Procs : ToConstruct(y, link)
      BY <2>3
    <3>2. CASE y = x
      <4>1. /\ first[x] + NUM_PER_BUNDLE \in Nat /\ current[x] \in Nat
            /\ link \in current[x] .. first[x] + NUM_PER_BUNDLE - 1 /\ first[x] # 0
        BY <1>2, <1>3, <3>1, <3>2, NewLinksAreOwn DEF Where, Links, ToConstruct
      <4>2. \A c, n \in Nat : \A l \in c .. n - 1 : l # c => l \in c + 1 .. n - 1
        OBVIOUS
      <4>3. link \in current[x] + 1 .. first[x] + NUM_PER_BUNDLE - 1
        BY <1>9, <4>1, <4>2
      <4>4. ToConstruct(x, link)'
        BY <1>1, <1>4, <4>1, <4>3 DEF ToConstruct
      <4>5. QED
        BY <4>4
    <3>3. CASE y # x
      <4>1. ToConstruct(y, link)'
        BY <1>1, <1>4, <3>1, <3>3 DEF ToConstruct
      <4>2. QED
        BY <4>1
    <3>4. QED
      BY <3>2, <3>3
  <2>4. QED
    BY <2>1, <2>2, <2>3
<1>10. QED
  BY <1>8, <1>9

\* A thread that hands out one of the links it has, or one from the shared list, or
\* chains those it has constructed, has no link to construct.
LEMMA HandedOutConstructed ==
    ASSUME Where, ConstructedOrCut, NEW x \in Procs, pc[x] \in {"idle", "use", "chain"},
           NEW b, current' = [current EXCEPT ![x] = b], first' = [first EXCEPT ![x] = 0],
           UNCHANGED <<nextIndex, pages, constructed>>
    PROVE  ConstructedOrCut'
<1>1. PagesKept
  BY DEF PagesKept, GetItem, Block
<1>2. \A y \in Procs \ {x} : first'[y] = first[y] /\ current'[y] = current[y]
  BY DEF Where, TypeOK
<1>3. first[x] = 0 \/ pc[x] = "chain"
  BY DEF Where, CutInOrder, InOrder
<1>4. QED
  BY <1>1, <1>2, <1>3, ConstructedStays

\* A thread that has no link of its own has no first one.
LEMMA FirstStaysZero ==
    ASSUME Where, NEW x \in Procs, pc[x] \in {"idle", "use"}, first' = first
    PROVE  first' = [first EXCEPT ![x] = 0]
<1>1. first[x] = 0
  BY DEF Where, CutInOrder, InOrder
<1>2. QED
  BY <1>1 DEF Where, TypeOK

\* The steps that construct nothing, one after the other.
LEMMA PopCachedConstructed ==
    ASSUME Where, ConstructedOrCut, NEW x \in Procs, PopCached(x)
    PROVE  ConstructedOrCut'
<1>1. pc[x] \in {"idle", "use"} /\ UNCHANGED <<first, nextIndex, pages, constructed>>
  BY DEF PopCached
<1>2. PICK b \in Full(x) \cup Partial(x) : current' = [current EXCEPT ![x] = b]
  BY PopCachedPlaces
<1>3. QED
  BY <1>1, <1>2, FirstStaysZero, HandedOutConstructed

\* The shared list has no part in it.
LEMMA PopGlobalConstructed ==
    ASSUME Where, ConstructedOrCut, NEW x \in Procs, PopGlobal(x)
    PROVE  ConstructedOrCut'
<1>1. pc[x] \in {"idle", "use"} /\ UNCHANGED <<first, nextIndex, pages, constructed>>
  BY DEF PopGlobal
<1>2. CASE SomeShared
  <2>1. PICK b \in Bundle(globalList[1]) : current' = [current EXCEPT ![x] = b]
    BY <1>2, PopGlobalPlaces
  <2>2. QED
    BY <1>1, <2>1, FirstStaysZero, HandedOutConstructed
<1>3. CASE ~ SomeShared
  <2>1. UNCHANGED <<first, current, nextIndex, pages, constructed>>
    BY <1>3, PopGlobalEmptyPlaces
  <2>2. PagesKept
    BY <2>1 DEF PagesKept, GetItem, Block
  <2>3. QED
    BY <2>1, <2>2, ConstructedStays
<1>4. QED
  BY <1>2, <1>3

\* A thread that chains its links has constructed them all.
LEMMA ChainConstructed ==
    ASSUME Where, ConstructedOrCut, NEW x \in Procs, ChainNewLinks(x)
    PROVE  ConstructedOrCut'
<1>1. /\ pc[x] \in {"idle", "use", "chain"} /\ first' = [first EXCEPT ![x] = 0]
      /\ UNCHANGED <<nextIndex, pages, constructed>>
  BY DEF ChainNewLinks
<1>2. PICK b \in NewLinks(x) : current' = [current EXCEPT ![x] = b]
  BY ChainPlaces
<1>3. QED
  BY <1>1, <1>2, HandedOutConstructed

\* The user of a link does not construct it again.
LEMMA UseConstructed ==
    ASSUME Where, ConstructedOrCut, NEW x \in Procs, Use(x)
    PROVE  ConstructedOrCut'
<1>1. /\ pc[x] \in {"idle", "use"} /\ current' = [current EXCEPT ![x] = 0]
      /\ UNCHANGED <<first, nextIndex, pages, constructed>>
  BY DEF Use
<1>2. QED
  BY <1>1, FirstStaysZero, HandedOutConstructed

\* A link that is freed stays constructed.
LEMMA FreeConstructed ==
    ASSUME Where, ConstructedOrCut, NEW x \in Procs, NEW link \in used, Free(x, link)
    PROVE  ConstructedOrCut'
<1>1. UNCHANGED <<first, current, nextIndex, pages, constructed>>
  BY DEF Free
<1>2. PagesKept
  BY <1>1 DEF PagesKept, GetItem, Block
<1>3. QED
  BY <1>1, <1>2, ConstructedStays

\* A page is installed before a link in it is constructed, and stays.
LEMMA PageConstructed ==
    ASSUME Where, ConstructedOrCut, NEW x \in Procs, TestPage(x) \/ InstallPage(x)
    PROVE  ConstructedOrCut'
<1>1. UNCHANGED <<first, current, nextIndex, constructed>>
  BY DEF TestPage, InstallPage
<1>2. PagesKept
  <2>1. CASE TestPage(x)
    BY <2>1 DEF TestPage, PagesKept, GetItem, Block
  <2>2. CASE InstallPage(x)
    BY <2>2, InstallKeepsPages
  <2>3. QED
    BY <2>1, <2>2
<1>3. QED
  BY <1>1, <1>2, ConstructedStays

-----------------------------------------------------------------------------
(* The invariant. *)

\* The allocator starts with the null link and nothing else: no bundle, no page and
\* no thread that cuts links.
LEMMA InitIInv == Init => IInv
<1> SUFFICES ASSUME Init PROVE IInv
  OBVIOUS
<1>1. nextIndex = 1
  BY DEF Init, AllocateOnce, Counter!Increment, Counter!Zero, Counter!Op
<1>2. TypeOK
  <2>1. /\ cache \in [Procs -> Caches]
        /\ first \in [Procs -> {0} \cup Links]
        /\ pc \in [Procs -> {"idle", "use", "reserve"} \cup Cutting]
        /\ constructed \in [Links -> Procs \cup {NoBlock}]
        /\ pages \in [0 .. MaxBlocks - 1 -> Procs \cup {NoBlock}]
    <3>1. FThreadLocalCache \in Caches
      BY AllocatorAssumption DEF FThreadLocalCache, Caches
    <3>2. QED
      BY <3>1 DEF Init, AllocateOnce
  <2>2. /\ payload \in [Links -> 0 .. MaxTotalItems]
        /\ singleNext \in [Links -> {0} \cup Links] /\ doubleNext \in [Links -> BOOLEAN]
        /\ current \in [Procs -> 0 .. MaxTotalItems]
    <3>1. 0 \in 0 .. MaxTotalItems
      BY AllocatorAssumption
    <3>2. QED
      BY <3>1 DEF Init
  <2>3. nextIndex \in 1 .. MaxTotalItems
    BY <1>1, AllocatorAssumption
  <2>4. globalList \in Seq(Links) /\ used \subseteq Links
    BY DEF Init
  <2>5. QED
    BY <2>1, <2>2, <2>3, <2>4 DEF TypeOK
<1>3. /\ \A x \in Procs : /\ cache[x].full = 0 /\ cache[x].partial = 0 /\ cache[x].num = 0
                          /\ pc[x] = "idle" /\ first[x] = 0
      /\ DOMAIN globalList = {} /\ used = {}
  BY DEF Init, FThreadLocalCache
<1>4. Bundle(0) = {} /\ LinkedBundle(payload, 0, 0)
  BY EmptyBundle DEF Bundle
<1>5. BundlesLinked
  BY <1>3, <1>4 DEF BundlesLinked
<1>6. CutInOrder
  BY <1>3 DEF CutInOrder, InOrder, Cutting
<1>7. \A x \in Procs : Own(x) = {} /\ Holds(x) = {}
  BY <1>3, <1>4 DEF Own, Holds
<1>8. 1 .. nextIndex - 1 = {}
  BY <1>1
<1>9. LinksConserved
  BY <1>3, <1>4, <1>7, <1>8 DEF LinksConserved
<1>10. BundlesClean /\ HandedOutClean
  BY <1>3, <1>4 DEF BundlesClean, HandedOutClean
<1>11. ConstructedOrCut
  BY <1>8 DEF ConstructedOrCut
<1>12. QED
  BY <1>2, <1>5, <1>6, <1>9, <1>10, <1>11 DEF IInv

\* No step of a thread breaks a part of the invariant.
LEMMA StepIInv ==
    ASSUME IInv, NEW x \in Procs, Step(x)
    PROVE  IInv'
<1>1. Where /\ BundlesClean /\ HandedOutClean /\ ConstructedOrCut
  BY DEF IInv, Where
<1>2. CASE PopCached(x)
  BY <1>1, <1>2, PopCachedPlaces, PopCachedInOrder, PopCachedClean, PopCachedConstructed DEF IInv
<1>3. CASE PopGlobal(x)
  <2>1. TypeOK' /\ BundlesLinked' /\ LinksConserved'
    BY <1>1, <1>3, PopGlobalPlaces, PopGlobalEmptyPlaces
  <2>2. QED
    BY <1>1, <1>3, <2>1, PopGlobalInOrder, PopGlobalClean, PopGlobalConstructed DEF IInv
<1>4. CASE Reserve(x)
  BY <1>1, <1>4, ReservePlaces, ReserveInOrder, ReserveAndConstructClean, ReserveConstructed DEF IInv
<1>5. CASE TestPage(x)
  BY <1>1, <1>5, TestPagePlaces, TestPageInOrder, ReserveAndConstructClean, PageConstructed DEF IInv
<1>6. CASE InstallPage(x)
  BY <1>1, <1>6, InstallPagePlaces, InstallPageInOrder, ReserveAndConstructClean, PageConstructed
  DEF IInv
<1>7. CASE Construct(x)
  BY <1>1, <1>7, ConstructPlaces, ConstructInOrder, ReserveAndConstructClean, ConstructConstructed
  DEF IInv
<1>8. CASE ChainNewLinks(x)
  BY <1>1, <1>8, ChainPlaces, ChainInOrder, ChainClean, ChainConstructed DEF IInv
<1>9. CASE Use(x)
  BY <1>1, <1>9, UsePlaces, UseInOrder, UseClean, UseConstructed DEF IInv
<1>10. CASE \E link \in used : Free(x, link)
  <2>1. PICK link \in used : Free(x, link)
    BY <1>10
  <2>2. QED
    BY <1>1, <2>1, FreePlaces, FreeInOrder, FreeClean, FreeConstructed DEF IInv
<1>11. QED
  BY <1>2, <1>3, <1>4, <1>5, <1>6, <1>7, <1>8, <1>9, <1>10 DEF Step

\* Nor does a step that changes nothing.
LEMMA StutterIInv == IInv /\ UNCHANGED vars => IInv'
<1> SUFFICES ASSUME IInv, UNCHANGED vars PROVE IInv'
  OBVIOUS
<1>1. /\ UNCHANGED <<cache, globalList, payload, singleNext, doubleNext>>
      /\ UNCHANGED <<nextIndex, pages, constructed, pc, first, current, used>>
  BY DEF vars
<1>2. TypeOK'
  BY <1>1 DEF IInv, TypeOK
<1>3. BundlesLinked'
  BY <1>1 DEF IInv, BundlesLinked
<1>4. \A from : Bundle(from)' = Bundle(from)
  BY <1>1 DEF Bundle
<1>5. \A x \in Procs : Own(x)' = Own(x) /\ Holds(x)' = Holds(x)
  BY <1>1 DEF Own, Holds, NewLinks, Bundle
<1>6. LinksConserved'
  <2>1. {Holds(x)' : x \in Procs} = {Holds(x) : x \in Procs}
    BY <1>5
  <2>2. {Bundle(globalList[i])' : i \in DOMAIN globalList'}
          = {Bundle(globalList[i]) : i \in DOMAIN globalList}
    BY <1>1 DEF Bundle
  <2>3. used' \cup (UNION {Holds(x)' : x \in Procs})
           \cup (UNION {Bundle(globalList[i])' : i \in DOMAIN globalList'}) = 1 .. nextIndex' - 1
    BY <1>1, <2>1, <2>2 DEF IInv, LinksConserved
  <2>4. ASSUME NEW x \in Procs
        PROVE  /\ Bundle(cache[x].full)' \cap Bundle(cache[x].partial)' = {}
               /\ Own(x)' \cap (Bundle(cache[x].full)' \cup Bundle(cache[x].partial)') = {}
               /\ Holds(x)' \cap used' = {}
               /\ \A y \in Procs \ {x} : Holds(x)' \cap Holds(y)' = {}
               /\ \A i \in DOMAIN globalList' : Holds(x)' \cap Bundle(globalList[i])' = {}
    <3>1. /\ Bundle(cache[x].full)' = Bundle(cache[x].full)
          /\ Bundle(cache[x].partial)' = Bundle(cache[x].partial)
      BY <1>1 DEF Bundle
    <3>2. \A i \in DOMAIN globalList' :
             i \in DOMAIN globalList /\ Bundle(globalList[i])' = Bundle(globalList[i])
      BY <1>1 DEF Bundle
    <3>3. QED
      BY <1>1, <1>5, <3>1, <3>2 DEF IInv, LinksConserved
  <2>5. ASSUME NEW i \in DOMAIN globalList'
        PROVE  /\ Bundle(globalList[i])' \cap used' = {}
               /\ \A j \in DOMAIN globalList' \ {i} :
                     Bundle(globalList[i])' \cap Bundle(globalList[j])' = {}
    <3>1. DOMAIN globalList' = DOMAIN globalList
      BY <1>1
    <3>2. \A j \in DOMAIN globalList : Bundle(globalList[j])' = Bundle(globalList[j])
      BY <1>1 DEF Bundle
    <3>3. QED
      BY <1>1, <3>1, <3>2 DEF IInv, LinksConserved
  <2>6. QED
    BY <2>3, <2>4, <2>5 DEF LinksConserved
<1>7. CutInOrder'
  BY <1>1 DEF IInv, CutInOrder, InOrder, NewLinks, GetItem, Block
<1>8. BundlesClean' /\ HandedOutClean'
  BY <1>1 DEF IInv, BundlesClean, HandedOutClean, Bundle
<1>9. ConstructedOrCut'
  BY <1>1 DEF IInv, ConstructedOrCut, GetItem, Block
<1>10. QED
  BY <1>2, <1>3, <1>6, <1>7, <1>8, <1>9 DEF IInv

\* The inductive invariant holds in every state, whatever the number of threads, the
\* size of a bundle and of a page, and wherever Pop of one thread is interleaved with
\* that of the others.
THEOREM Invariant == Spec => []IInv
<1>1. IInv /\ [Next]_vars => IInv'
  BY StepIInv, StutterIInv DEF Next
<1>2. QED
  BY InitIInv, <1>1, PTL DEF Spec

-----------------------------------------------------------------------------
(* What the invariant implies. *)

\* NumPartial is the number of links of PartialBundle, and every bundle that passes
\* for full (FullBundle, and those on the shared list, which come without their
\* length) has NUM_PER_BUNDLE links.
THEOREM BundlesStayFull == Spec => []BundlesAreFull
<1>1. IInv => BundlesAreFull
  <2> SUFFICES ASSUME IInv PROVE BundlesAreFull
    OBVIOUS
  <2>1. TypeOK /\ BundlesLinked
    BY DEF IInv
  <2>2. ASSUME NEW x \in Procs
        PROVE  /\ cache[x].num = Cardinality(Bundle(cache[x].partial))
               /\ cache[x].full # 0 => Cardinality(Bundle(cache[x].full)) = NUM_PER_BUNDLE
    <3>1. cache[x].num = Cardinality(Bundle(cache[x].partial))
      BY <2>1, BundleFacts, BundleSize DEF Bundle
    <3>2. FullSize(x) = Cardinality(Bundle(cache[x].full))
      BY <2>1, BundleFacts, BundleSize DEF Bundle
    <3>3. QED
      BY <3>1, <3>2 DEF FullSize
  <2>3. ASSUME NEW i \in DOMAIN globalList
        PROVE  Cardinality(Bundle(globalList[i])) = NUM_PER_BUNDLE
    <3>1. i \in 1 .. Len(globalList) /\ NUM_PER_BUNDLE \in 0 .. NUM_PER_BUNDLE
      BY <2>1, AllocatorAssumption DEF TypeOK
    <3>2. LinkedBundle(payload, globalList[i], NUM_PER_BUNDLE)
      BY <2>1, <3>1, BundleFacts
    <3>3. QED
      BY <3>1, <3>2, BundleSize DEF Bundle
  <2>4. QED
    BY <2>2, <2>3 DEF BundlesAreFull
<1>2. QED
  BY <1>1, Invariant, PTL

\* Every link ever reserved is in exactly one place, so no link is handed out twice
\* and none is lost, whichever threads allocate and free it.
THEOREM NoLinkLostOrShared == Spec => []LinksConserved
<1>1. IInv => LinksConserved
  BY DEF IInv
<1>2. QED
  BY <1>1, Invariant, PTL

\* A link that AllocLockFreeLink returns has no payload, no SingleNext and no
\* DoubleNext left of what it was used for before.
THEOREM LinksComeClean == Spec => []HandedOutClean
<1>1. IInv => HandedOutClean
  BY DEF IInv
<1>2. QED
  BY <1>1, Invariant, PTL

\* A link that a thread has yet to construct is its own.
LEMMA ToConstructIsOwn ==
    ASSUME Where, NEW x \in Procs, NEW link \in Links, ToConstruct(x, link)
    PROVE  link \in Own(x) /\ cache[x].partial = 0
<1>1. pc[x] \in Cutting
  BY DEF ToConstruct, Where, TypeOK, CutInOrder, InOrder
<1>2. /\ first[x] \in Nat /\ first[x] + NUM_PER_BUNDLE \in Nat /\ cache[x].partial = 0
      /\ Own(x) = first[x] .. first[x] + NUM_PER_BUNDLE - 1
  BY <1>1, NewLinksAreOwn DEF Where
<1>3. link \in current[x] .. first[x] + NUM_PER_BUNDLE - 1
  BY DEF ToConstruct
<1>4. NUM_PER_BUNDLE \in Nat
  BY AllocatorAssumption
<1>5. CASE pc[x] = "chain"
  <2>1. current[x] = first[x] + NUM_PER_BUNDLE
    BY <1>5 DEF Where, CutInOrder, InOrder
  <2>2. link \in first[x] + NUM_PER_BUNDLE .. first[x] + NUM_PER_BUNDLE - 1
    BY <1>3, <2>1
  <2>3. \A f, m \in Nat : \A l : l \notin f + m .. f + m - 1
    OBVIOUS
  <2>4. QED
    BY <1>2, <1>4, <2>2, <2>3
<1>6. CASE pc[x] # "chain"
  <2>1. pc[x] \in Cutting \ {"chain"}
    BY <1>1, <1>6
  <2>2. current[x] \in NewLinks(x)
    BY <2>1 DEF Where, CutInOrder, InOrder
  <2>3. current[x] \in first[x] .. first[x] + NUM_PER_BUNDLE - 1
    BY <2>2 DEF NewLinks
  <2>4. \A f, m \in Nat : \A c \in f .. f + m - 1 : \A l \in c .. f + m - 1 : l \in f .. f + m - 1
    OBVIOUS
  <2>5. link \in first[x] .. first[x] + NUM_PER_BUNDLE - 1
    BY <1>2, <1>3, <1>4, <2>3, <2>4
  <2>6. QED
    BY <1>2, <2>5
<1>7. QED
  BY <1>5, <1>6

\* A link that is in use or next to be handed out has been constructed in the block
\* that the page of the link is, although threads race to install the page.
THEOREM LinksAreConstructedInPlace == Spec => []ConstructedInPlace
<1>1. IInv => ConstructedInPlace
  <2> SUFFICES ASSUME IInv PROVE ConstructedInPlace
    OBVIOUS
  <2>1. Where /\ ConstructedOrCut /\ TypeOK /\ BundlesLinked /\ LinksConserved
    BY DEF IInv, Where
  <2>2. SUFFICES ASSUME NEW link \in used \cup UNION {Bundle(cache[x].partial) : x \in Procs}
                 PROVE  InPlace(link)
    BY DEF ConstructedInPlace, InPlace
  <2>3. link \in used \/ \E x \in Procs : link \in Partial(x)
    BY DEF Partial
  <2>4. \A x \in Procs : Partial(x) \subseteq Holds(x) /\ Own(x) \subseteq Holds(x)
    BY DEF Partial, Holds
  <2>5. link \in 1 .. nextIndex - 1
    BY <2>1, <2>3, <2>4, PlacesApart
  <2>6. link \in Links
    BY <2>1, <2>5, PlacesApart
  <2>7. ASSUME NEW y \in Procs, ToConstruct(y, link) PROVE FALSE
    <3>1. link \in Own(y) /\ cache[y].partial = 0
      BY <2>1, <2>6, <2>7, ToConstructIsOwn
    <3>2. link \in Holds(y)
      BY <2>4, <3>1
    <3>3. Partial(y) = {}
      BY <2>1, <3>1, BundleFacts
    <3>4. link \notin used
      BY <2>1, <3>2, PlacesApart
    <3>5. PICK x \in Procs : link \in Partial(x)
      BY <2>3, <3>4
    <3>6. x # y /\ link \in Holds(x)
      BY <2>4, <3>3, <3>5
    <3>7. QED
      BY <2>1, <3>2, <3>6, PlacesApart
  <2>8. QED
    BY <2>1, <2>5, <2>7 DEF ConstructedOrCut, ToConstruct, InPlace
<1>2. QED
  BY <1>1, Invariant, PTL
=============================================================================
