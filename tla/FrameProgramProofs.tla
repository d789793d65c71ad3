------------------------- MODULE FrameProgramProofs -------------------------
(***************************************************************************)
(* Machine-checked proofs about the frame program, for every legal structure*)
(* and loads: the degrees of freedom are numbered once; the echo is the     *)
(* input; the printed displacements of the supports and of the coupled nodes*)
(* are the prescribed ones; clamped elements are held under lateral loads.  *)
(* FrameSolutionProofs continues them with the stiffness and the solution.  *)
(*                                                                          *)
(* The number of a degree of freedom is how many the loops visit before it, *)
(* so the numbers are different and have no gap (NumbersAreSharedOut).  The *)
(* matrix of an element is a symmetric bilinear form, turned by a rotation  *)
(* (ElementStiffness); every element of the profile has an address of its   *)
(* own (OwnAddress), and what a bar couples lies in the profile             *)
(* (CoupledInProfile).  The loads add the movements of a support one after  *)
(* the other, the property adds them in any order (MovementIsSum).          *)
(* LDLTSolve writes to numbers below nFreeDOF only (LDLTSolveKeeps).  Where *)
(* one would use induction, the smallest counterexample is shown not to be  *)
(* one.                                                                     *)
(***************************************************************************)
EXTENDS FrameProgram, FiniteSetTheorems, SequenceTheorems, WellFoundedInduction, TLAPS

-----------------------------------------------------------------------------
(* The numbers of the degrees of freedom. *)

\* Degrees of freedom as the loops over nodes and directions visit them.
LEMMA LegalStructure ==
    ASSUME NEW s, Legal(s)
    PROVE  /\ IsFiniteSet(DOFs(s)) /\ DOFs(s) \subseteq Nat \X Nat
           /\ Free(s) \subseteq DOFs(s) /\ Known(s) \subseteq DOFs(s) /\ Coupled(s) \subseteq DOFs(s)
           /\ DOFs(s) = Free(s) \cup Known(s) \cup Coupled(s)
           /\ Free(s) \cap Known(s) = {} /\ Coupled(s) \cap (Free(s) \cup Known(s)) = {}
           /\ \A d \in Coupled(s) : Master(s, d) \in Free(s) \cup Known(s)
<1>1. IsFiniteSet(DOFs(s)) /\ DOFs(s) \subseteq Nat \X Nat
  <2>1. s.nTotalNode \in Nat
    BY DEF Legal
  <2>2. 0 \in Int /\ s.nTotalNode - 1 \in Int /\ 2 \in Int
    BY <2>1
  <2>3. IsFiniteSet(Node(s)) /\ IsFiniteSet(0 .. 2)
    BY <2>2, FS_Interval, Zenon DEF Node
  <2>4. IsFiniteSet(Node(s) \X (0 .. 2))
    BY <2>3, FS_Product
  <2>5. DOFs(s) \in SUBSET (Node(s) \X (0 .. 2))
    BY DEF DOFs
  <2>6. IsFiniteSet(DOFs(s))
    BY <2>4, <2>5, FS_Subset
  <2>7. Node(s) \subseteq Nat /\ 0 .. 2 \subseteq Nat
    BY <2>1 DEF Node
  <2>8. QED
    BY <2>5, <2>6, <2>7
<1>2. /\ Free(s) \subseteq DOFs(s) /\ Known(s) \subseteq DOFs(s) /\ Coupled(s) \subseteq DOFs(s)
      /\ Free(s) \cap Known(s) = {} /\ Coupled(s) \cap (Free(s) \cup Known(s)) = {}
  BY CoupledAssumption DEF Free, Known, Coupled
<1>3. /\ DOFs(s) = Free(s) \cup Known(s) \cup Coupled(s)
      /\ \A d \in Coupled(s) : Master(s, d) \in Free(s) \cup Known(s)
  BY DEF Legal
<1>4. QED
  BY <1>1, <1>2, <1>3

\* The loops visit one degree of freedom before the other.
LEMMA BeforeIsTotal ==
    /\ \A d \in Nat \X Nat : ~ Before(d, d)
    /\ \A d, e \in Nat \X Nat : d # e => Before(d, e) \/ Before(e, d)
    /\ \A d, e, f \in Nat \X Nat : Before(d, e) /\ Before(e, f) => Before(d, f)
  BY DEF Before

\* iBuf counts upwards.
LEMMA RankGrows ==
    ASSUME NEW S \in SUBSET (Nat \X Nat), IsFiniteSet(S), NEW d \in S, NEW e \in S, Before(d, e)
    PROVE  Rank(S, d) < Rank(S, e)
<1> DEFINE T(f) == {x \in S : Before(x, f)}
<1>1. T(d) \subseteq T(e) /\ d \in T(e) /\ d \notin T(d)
  BY BeforeIsTotal
<1>2. IsFiniteSet(T(e)) /\ T(d) \in SUBSET T(e)
  BY <1>1, FS_Subset
<1>3. Rank(S, d) = Cardinality(T(d)) /\ Rank(S, e) = Cardinality(T(e))
  BY DEF Rank
<1> HIDE DEF T
<1>4. /\ Cardinality(T(d)) <= Cardinality(T(e)) /\ Cardinality(T(d)) # Cardinality(T(e))
      /\ IsFiniteSet(T(d))
  BY <1>1, <1>2, FS_Subset
<1>5. Cardinality(T(d)) \in Nat /\ Cardinality(T(e)) \in Nat
  BY <1>2, <1>4, FS_CardinalityType
<1>6. QED
  BY <1>3, <1>4, <1>5

\* The members of S are numbered 0, 1, 2, ... each with a number of its own.
LEMMA RankNumbers ==
    ASSUME NEW S \in SUBSET (Nat \X Nat), IsFiniteSet(S)
    PROVE  /\ Cardinality(S) \in Nat
           /\ \A d \in S : Rank(S, d) \in 0 .. Cardinality(S) - 1
           /\ \A d, e \in S : Rank(S, d) = Rank(S, e) => d = e
           /\ \A i \in 0 .. Cardinality(S) - 1 : \E d \in S : Rank(S, d) = i
<1>1. Cardinality(S) \in Nat
  BY FS_CardinalityType
<1>2. ASSUME NEW d \in S PROVE Rank(S, d) \in 0 .. Cardinality(S) - 1
  <2> DEFINE T == {x \in S : Before(x, d)}
  <2>1. T \in SUBSET S /\ d \notin T
    BY BeforeIsTotal
  <2>2. Rank(S, d) = Cardinality(T)
    BY DEF Rank
  <2> HIDE DEF T
  <2>3. IsFiniteSet(T) /\ Cardinality(T) <= Cardinality(S) /\ Cardinality(T) # Cardinality(S)
    BY <2>1, FS_Subset
  <2>4. Cardinality(T) \in Nat
    BY <2>3, FS_CardinalityType
  <2>5. QED
    BY <1>1, <2>2, <2>3, <2>4
<1>3. ASSUME NEW d \in S, NEW e \in S, Rank(S, d) = Rank(S, e) PROVE d = e
  <2>1. Rank(S, d) \in Nat
    BY <1>2
  <2>2. ~ (Rank(S, d) < Rank(S, e)) /\ ~ (Rank(S, e) < Rank(S, d))
    BY <1>3, <2>1
  <2>3. ~ Before(d, e) /\ ~ Before(e, d)
    BY <2>2, RankGrows
  <2>4. QED
    BY <2>3, BeforeIsTotal
<1>4. \A i \in 0 .. Cardinality(S) - 1 : \E d \in S : Rank(S, d) = i
  <2> DEFINE n == Cardinality(S)
             T == 0 .. n - 1
             f == [d \in S |-> Rank(S, d)]
  <2>1. IsFiniteSet(T) /\ Cardinality(T) = n
    <3>1. 0 \in Int /\ n - 1 \in Int /\ n \in Nat
      BY <1>1
    <3> HIDE DEF n
    <3>2. IsFiniteSet(0 .. n - 1) /\ Cardinality(0 .. n - 1) = IF 0 > n - 1 THEN 0 ELSE n - 1 - 0 + 1
      BY <3>1, FS_Interval
    <3>3. QED
      BY <3>1, <3>2
  <2>2. f \in [S -> T]
    BY <1>2
  <2>3. \A d, e \in S : f[d] = f[e] => d = e
    BY <1>3
  <2>4. \A d \in S : f[d] = Rank(S, d)
    OBVIOUS
  <2> HIDE DEF f, T
  <2>5. f \in Injection(S, T)
    BY <2>2, <2>3 DEF Injection, IsInjective
  <2>6. f \in Surjection(S, T)
    BY <2>1, <2>5, FS_Injection
  <2>7. \A i \in T : \E d \in S : f[d] = i
    BY <2>6 DEF Surjection
  <2>8. QED
    BY <2>4, <2>7 DEF T
<1>5. QED
  BY <1>1, <1>2, <1>3, <1>4

\* The number of an independent degree of freedom.
Independent(s) == Free(s) \cup Known(s)

\* First the unknown ones are numbered, without gaps, then the known ones.
LEMMA IndependentNumbers ==
    ASSUME NEW s, Legal(s)
    PROVE  /\ nFreeDOFs(s) \in Nat \ {0} /\ nTotalDOFs(s) \in Nat /\ nFreeDOFs(s) <= nTotalDOFs(s)
           /\ \A d \in Independent(s) : /\ IndependentNumber(s, d) \in 0 .. nTotalDOFs(s) - 1
                                        /\ IndependentNumber(s, d) < nFreeDOFs(s) <=> d \in Free(s)
           /\ \A d, e \in Independent(s) : IndependentNumber(s, d) = IndependentNumber(s, e) => d = e
           /\ \A i \in 0 .. nTotalDOFs(s) - 1 : \E d \in Independent(s) : IndependentNumber(s, d) = i
<1> DEFINE F == Free(s)
           K == Known(s)
           m == Cardinality(F)
           n == Cardinality(K)
<1>1. /\ IsFiniteSet(F) /\ IsFiniteSet(K) /\ F \cap K = {}
      /\ F \in SUBSET (Nat \X Nat) /\ K \in SUBSET (Nat \X Nat)
  BY LegalStructure, FS_Subset
<1>2. /\ nFreeDOFs(s) = m /\ nTotalDOFs(s) = m + n
      /\ \A d \in F : IndependentNumber(s, d) = Rank(F, d)
      /\ \A d \in K : IndependentNumber(s, d) = m + Rank(K, d)
  BY <1>1 DEF nFreeDOFs, nTotalDOFs, IndependentNumber
<1>3. F # {}
  BY DEF Legal
<1>4. Independent(s) = F \cup K
  BY DEF Independent
<1> HIDE DEF F, K
<1>5. m \in Nat \ {0} /\ n \in Nat
  BY <1>1, <1>3, FS_CardinalityType, FS_EmptySet
<1>6. /\ \A d \in F : Rank(F, d) \in 0 .. m - 1
      /\ \A d, e \in F : Rank(F, d) = Rank(F, e) => d = e
      /\ \A i \in 0 .. m - 1 : \E d \in F : Rank(F, d) = i
  BY <1>1, RankNumbers
<1>7. /\ \A d \in K : Rank(K, d) \in 0 .. n - 1
      /\ \A d, e \in K : Rank(K, d) = Rank(K, e) => d = e
      /\ \A i \in 0 .. n - 1 : \E d \in K : Rank(K, d) = i
  BY <1>1, RankNumbers
<1> HIDE DEF m, n
<1>8. ASSUME NEW d \in F \cup K
      PROVE  /\ IndependentNumber(s, d) \in 0 .. m + n - 1
             /\ IndependentNumber(s, d) < m <=> d \in F
  <2>1. CASE d \in F
    BY <1>2, <1>5, <1>6, <2>1
  <2>2. CASE d \in K
    <3>1. d \notin F
      BY <1>1, <2>2
    <3>2. QED
      BY <1>2, <1>5, <1>7, <2>2, <3>1
  <2>3. QED
    BY <2>1, <2>2
<1>9. ASSUME NEW d \in F \cup K, NEW e \in F \cup K, IndependentNumber(s, d) = IndependentNumber(s, e)
      PROVE  d = e
  <2>1. d \in F <=> e \in F
    BY <1>8, <1>9
  <2>2. CASE d \in F
    BY <1>2, <1>6, <1>9, <2>1, <2>2
  <2>3. CASE d \notin F
    <3>1. d \in K /\ e \in K
      BY <2>1, <2>3
    <3>2. m + Rank(K, d) = m + Rank(K, e)
      BY <1>2, <1>9, <3>1
    <3>3. Rank(K, d) = Rank(K, e)
      BY <1>5, <1>7, <3>1, <3>2
    <3>4. QED
      BY <1>7, <3>1, <3>3
  <2>4. QED
    BY <2>2, <2>3
<1>10. ASSUME NEW i \in 0 .. m + n - 1 PROVE \E d \in F \cup K : IndependentNumber(s, d) = i
  <2>1. CASE i < m
    <3>1. i \in 0 .. m - 1
      BY <1>5, <2>1
    <3>2. QED
      BY <1>2, <1>6, <3>1
  <2>2. CASE ~ (i < m)
    <3>1. i - m \in 0 .. n - 1 /\ i \in Nat
      BY <1>5, <2>2
    <3>2. PICK d \in K : Rank(K, d) = i - m
      BY <1>7, <3>1
    <3>3. IndependentNumber(s, d) = i
      BY <1>2, <1>5, <3>1, <3>2
    <3>4. QED
      BY <3>3
  <2>3. QED
    BY <2>1, <2>2
<1>11. m + n \in Nat /\ m <= m + n
  BY <1>5
<1>12. QED
  BY <1>2, <1>4, <1>5, <1>8, <1>9, <1>10, <1>11 DEF F

-----------------------------------------------------------------------------
(* Sums.  SumFunction picks the arguments of a function one after the other, *)
(* in no order that one could name; what it adds up to does not depend on    *)
(* that order.                                                               *)

\* Among the finite sets that violate something one has no smaller one in it:
\* proof by the smallest counterexample takes the place of induction.
LEMMA SmallestSet ==
    ASSUME NEW S, IsFiniteSet(S), NEW B \in SUBSET (SUBSET S), B # {}
    PROVE  \E T \in B : \A U \in SUBSET T : U # T => U \notin B
<1>1. IsWellFoundedOn(StrictSubsetOrdering(S), SUBSET S)
  BY FS_StrictSubsetOrderingWellFounded, FS_FiniteSubsetsOfFinite, Zenon
<1>2. PICK T \in B : \A U \in B : ~ (<<U, T>> \in StrictSubsetOrdering(S))
  BY <1>1, WFMin
<1>3. ASSUME NEW U \in SUBSET T, U # T, U \in B PROVE FALSE
  <2>1. <<U, T>> \in (SUBSET S) \X (SUBSET S) /\ U \subseteq T /\ U # T
    BY <1>3
  <2>2. <<U, T>> \in StrictSubsetOrdering(S)
    BY <2>1 DEF StrictSubsetOrdering
  <2>3. QED
    BY <1>2, <1>3, <2>2
<1>4. QED
  BY <1>3

\* g holds what f adds up to over each subset of S, as SumFunction finds it.
Chosen(s) == CHOOSE x \in s : TRUE
Sums(f, g, S) ==
    g = [s \in SUBSET S |-> IF s = {} THEN 0 ELSE f[Chosen(s)] + g[s \ {Chosen(s)}]]

SumOver(f, S) == (CHOOSE g : Sums(f, g, S))[S]

\* SumFunction looks the sum up in such a table.
LEMMA SumIsLookedUp ==
    ASSUME NEW f
    PROVE  SumFunction(f) = SumOver(f, DOMAIN f)
BY DEF SumFunction, SumFunctionOnSet, FoldFunctionOnSet, MapThenFoldSet, Sums, Chosen, SumOver

\* The rows of such a table.
LEMMA SumsRow ==
    ASSUME NEW f, NEW S, NEW g, Sums(f, g, S)
    PROVE  \A s \in SUBSET S : g[s] = IF s = {} THEN 0 ELSE f[Chosen(s)] + g[s \ {Chosen(s)}]
BY Zenon DEF Sums

\* A member to go on with is found while there is one.
LEMMA ChosenIsMember ==
    ASSUME NEW s, s # {}
    PROVE  Chosen(s) \in s
BY DEF Chosen

\* There is one such table at most.
LEMMA SumsAreUnique ==
    ASSUME NEW f, NEW S, IsFiniteSet(S), NEW g, NEW h, Sums(f, g, S), Sums(f, h, S)
    PROVE  g = h
<1> DEFINE B == {s \in SUBSET S : g[s] # h[s]}
<1>1. CASE B = {}
  <2>1. \A s \in SUBSET S : g[s] = h[s]
    BY <1>1
  <2>2. /\ g = [s \in SUBSET S |-> g[s]]
        /\ h = [s \in SUBSET S |-> h[s]]
    BY DEF Sums
  <2>3. QED
    BY <2>1, <2>2, Zenon
<1>2. CASE B # {}
  <2>0. B \in SUBSET (SUBSET S)
    OBVIOUS
  <2>1. PICK T \in B : \A U \in SUBSET T : U # T => U \notin B
    <3> HIDE DEF B
    <3>1. QED
      BY <1>2, <2>0, SmallestSet
  <2>2. T # {}
    BY SumsRow
  <2> DEFINE U == T \ {Chosen(T)}
  <2>3. U \in SUBSET T /\ U # T /\ U \in SUBSET S
    BY <2>2, ChosenIsMember
  <2>4. g[U] = h[U]
    BY <2>1, <2>3
  <2>5. g[T] = h[T]
    BY <2>2, <2>4, SumsRow
  <2>6. QED
    BY <2>5
<1>3. QED
  BY <1>1, <1>2

\* The part of a table for the subsets of a subset is one.
LEMMA SumsRestrict ==
    ASSUME NEW f, NEW S, NEW g, Sums(f, g, S), NEW T \in SUBSET S
    PROVE  Sums(f, [s \in SUBSET T |-> g[s]], T)
<1> DEFINE h == [s \in SUBSET T |-> g[s]]
<1>1. \A s \in SUBSET T : s \ {Chosen(s)} \in SUBSET T /\ s \in SUBSET S
  OBVIOUS
<1>2. \A s \in SUBSET T : g[s] = IF s = {} THEN 0 ELSE f[Chosen(s)] + h[s \ {Chosen(s)}]
  <2>1. \A s \in SUBSET S : g[s] = IF s = {} THEN 0 ELSE f[Chosen(s)] + g[s \ {Chosen(s)}]
    BY SumsRow
  <2>2. \A s \in SUBSET T : h[s \ {Chosen(s)}] = g[s \ {Chosen(s)}]
    BY <1>1
  <2>3. QED
    BY <1>1, <2>1, <2>2, Zenon
<1>3. h = [s \in SUBSET T |-> IF s = {} THEN 0 ELSE f[Chosen(s)] + h[s \ {Chosen(s)}]]
  BY <1>2, Zenon
<1>4. QED
  BY <1>3, Zenon DEF Sums

\* Where there is a table, the sum goes through the member that is picked.
LEMMA SumOverPicks ==
    ASSUME NEW f, NEW S, IsFiniteSet(S), NEW g, Sums(f, g, S)
    PROVE  /\ SumOver(f, S) = g[S]
           /\ SumOver(f, S) = IF S = {} THEN 0 ELSE f[Chosen(S)] + SumOver(f, S \ {Chosen(S)})
<1>1. ASSUME NEW T \in SUBSET S PROVE SumOver(f, T) = g[T]
  <2> DEFINE h == [s \in SUBSET T |-> g[s]]
             k == CHOOSE k : Sums(f, k, T)
  <2>1. Sums(f, h, T)
    BY SumsRestrict
  <2>2. Sums(f, k, T)
    BY <2>1
  <2>3. h = k
    BY <2>1, <2>2, SumsAreUnique, FS_Subset
  <2>4. h[T] = g[T]
    OBVIOUS
  <2> HIDE DEF h
  <2>5. QED
    BY <2>3, <2>4 DEF SumOver
<1>2. S \in SUBSET S /\ S \ {Chosen(S)} \in SUBSET S
  OBVIOUS
<1>3. g[S] = IF S = {} THEN 0 ELSE f[Chosen(S)] + g[S \ {Chosen(S)}]
  <2>1. \A s \in SUBSET S : g[s] = IF s = {} THEN 0 ELSE f[Chosen(s)] + g[s \ {Chosen(s)}]
    BY SumsRow
  <2>2. QED
    BY <1>2, <2>1, Zenon
<1>4. QED
  BY <1>1, <1>2, <1>3

\* There is a table for every finite set.
LEMMA SumsExist ==
    ASSUME NEW f, NEW S, IsFiniteSet(S)
    PROVE  \E g : Sums(f, g, S)
<1> DEFINE B == {T \in SUBSET S : ~ \E g : Sums(f, g, T)}
<1>1. ASSUME B # {} PROVE FALSE
  <2>0. B \in SUBSET (SUBSET S)
    OBVIOUS
  <2>1. PICK T \in B : \A U \in SUBSET T : U # T => U \notin B
    <3> HIDE DEF B
    <3>1. QED
      BY <1>1, <2>0, SmallestSet
  <2>2. \A U \in SUBSET T : IsFiniteSet(U)
    <3>1. \A U \in SUBSET T : U \in SUBSET S
      OBVIOUS
    <3>2. QED
      BY <3>1, FS_Subset
  <2>3. \A U \in SUBSET T : U # T => \E g : Sums(f, g, U)
    BY <2>1
  <2>4. \A U \in SUBSET T : U # T =>
            SumOver(f, U) = IF U = {} THEN 0 ELSE f[Chosen(U)] + SumOver(f, U \ {Chosen(U)})
    BY <2>2, <2>3, SumOverPicks
  <2> DEFINE Row(s) == IF s = {} THEN 0 ELSE f[Chosen(s)] + SumOver(f, s \ {Chosen(s)})
             g == [s \in SUBSET T |-> Row(s)]
  <2>5. ASSUME NEW s \in SUBSET T PROVE g[s] = IF s = {} THEN 0 ELSE f[Chosen(s)] + g[s \ {Chosen(s)}]
    <3>1. CASE s = {}
      BY <3>1
    <3>2. CASE s # {}
      <4> DEFINE U == s \ {Chosen(s)}
      <4>1. U \in SUBSET T /\ U # T
        BY <3>2, ChosenIsMember
      <4>2. SumOver(f, U) = Row(U)
        BY <2>4, <4>1, Zenon
      <4>3. g[U] = Row(U) /\ g[s] = f[Chosen(s)] + SumOver(f, U)
        BY <3>2, <4>1
      <4>4. QED
        BY <3>2, <4>2, <4>3, Zenon
    <3>3. QED
      BY <3>1, <3>2
  <2>6. g = [s \in SUBSET T |-> g[s]]
    OBVIOUS
  <2> HIDE DEF g
  <2>7. Sums(f, g, T)
    BY <2>5, <2>6, Zenon DEF Sums
  <2>8. QED
    BY <2>7
<1>2. S \in SUBSET S
  OBVIOUS
<1>3. QED
  BY <1>1, <1>2

\* A sum goes through the member that is picked.
LEMMA SumOverStep ==
    ASSUME NEW f, NEW S, IsFiniteSet(S)
    PROVE  SumOver(f, S) = IF S = {} THEN 0 ELSE f[Chosen(S)] + SumOver(f, S \ {Chosen(S)})
BY SumsExist, SumOverPicks, Zenon

\* A sum of integers is one.
LEMMA SumOverType ==
    ASSUME NEW f, NEW S, IsFiniteSet(S), \A x \in S : f[x] \in Int
    PROVE  SumOver(f, S) \in Int
<1> DEFINE B == {T \in SUBSET S : SumOver(f, T) \notin Int}
<1>1. ASSUME B # {} PROVE FALSE
  <2>0. B \in SUBSET (SUBSET S)
    OBVIOUS
  <2>1. PICK T \in B : \A U \in SUBSET T : U # T => U \notin B
    <3> HIDE DEF B
    <3>1. QED
      BY <1>1, <2>0, SmallestSet
  <2>2. IsFiniteSet(T)
    BY FS_Subset
  <2>3. SumOver(f, T) = IF T = {} THEN 0 ELSE f[Chosen(T)] + SumOver(f, T \ {Chosen(T)})
    BY <2>2, SumOverStep
  <2>4. T # {}
    BY <2>3
  <2>5. Chosen(T) \in T
    BY <2>4, ChosenIsMember
  <2>6. SumOver(f, T \ {Chosen(T)}) \in Int
    <3>1. T \ {Chosen(T)} \in SUBSET T /\ T \ {Chosen(T)} # T /\ T \ {Chosen(T)} \in SUBSET S
      BY <2>5
    <3>2. QED
      BY <2>1, <3>1
  <2>7. f[Chosen(T)] \in Int
    BY <2>5
  <2>8. QED
    BY <2>3, <2>4, <2>6, <2>7
<1>2. S \in SUBSET S
  OBVIOUS
<1>3. QED
  BY <1>1, <1>2

\* A sum goes through every member: the order does not matter.
LEMMA SumOverMember ==
    ASSUME NEW f, NEW S, IsFiniteSet(S), \A x \in S : f[x] \in Int, NEW x \in S
    PROVE  SumOver(f, S) = f[x] + SumOver(f, S \ {x})
<1> DEFINE B == {T \in SUBSET S : \E y \in T : SumOver(f, T) # f[y] + SumOver(f, T \ {y})}
<1>1. ASSUME B # {} PROVE FALSE
  <2>0. B \in SUBSET (SUBSET S)
    OBVIOUS
  <2>1. PICK T \in B : \A U \in SUBSET T : U # T => U \notin B
    <3> HIDE DEF B
    <3>1. QED
      BY <1>1, <2>0, SmallestSet
  <2>2. PICK y \in T : SumOver(f, T) # f[y] + SumOver(f, T \ {y})
    OBVIOUS
  <2>3. \A U \in SUBSET S : IsFiniteSet(U) /\ SumOver(f, U) \in Int
    BY FS_Subset, SumOverType
  <2> DEFINE c == Chosen(T)
             R == T \ {c, y}
  <2>4. c \in T
    BY ChosenIsMember
  <2>5. SumOver(f, T) = f[c] + SumOver(f, T \ {c})
    BY <2>3, <2>4, SumOverStep
  <2>6. c # y
    BY <2>2, <2>5
  <2> HIDE DEF c
  <2>7. \A U \in SUBSET T : U # T => \A z \in U : SumOver(f, U) = f[z] + SumOver(f, U \ {z})
    BY <2>1, Zenon
  <2>8. SumOver(f, T \ {c}) = f[y] + SumOver(f, R)
    <3>1. T \ {c} \in SUBSET T /\ T \ {c} # T /\ y \in T \ {c} /\ (T \ {c}) \ {y} = R
      BY <2>4, <2>6
    <3>2. QED
      BY <2>7, <3>1
  <2>9. SumOver(f, T \ {y}) = f[c] + SumOver(f, R)
    <3>1. T \ {y} \in SUBSET T /\ T \ {y} # T /\ c \in T \ {y} /\ (T \ {y}) \ {c} = R
      BY <2>4, <2>6
    <3>2. QED
      BY <2>7, <3>1
  <2>10. f[c] \in Int /\ f[y] \in Int /\ SumOver(f, R) \in Int
    <3>1. R \in SUBSET S
      OBVIOUS
    <3>2. QED
      BY <2>3, <2>4, <3>1
  <2> HIDE DEF R
  <2>11. f[c] + (f[y] + SumOver(f, R)) = f[y] + (f[c] + SumOver(f, R))
    BY <2>10
  <2>12. QED
    BY <2>2, <2>5, <2>8, <2>9, <2>11
<1>2. S \in SUBSET S
  OBVIOUS
<1>3. QED
  BY <1>1, <1>2, Zenon

\* A sum depends on the values over the set only.
LEMMA SumOverSame ==
    ASSUME NEW f, NEW g, NEW S, IsFiniteSet(S), \A x \in S : f[x] = g[x]
    PROVE  SumOver(f, S) = SumOver(g, S)
<1> DEFINE B == {T \in SUBSET S : SumOver(f, T) # SumOver(g, T)}
<1>1. ASSUME B # {} PROVE FALSE
  <2>0. B \in SUBSET (SUBSET S)
    OBVIOUS
  <2>1. PICK T \in B : \A U \in SUBSET T : U # T => U \notin B
    <3> HIDE DEF B
    <3>1. QED
      BY <1>1, <2>0, SmallestSet
  <2>2. IsFiniteSet(T)
    BY FS_Subset
  <2>3. /\ SumOver(f, T) = IF T = {} THEN 0 ELSE f[Chosen(T)] + SumOver(f, T \ {Chosen(T)})
        /\ SumOver(g, T) = IF T = {} THEN 0 ELSE g[Chosen(T)] + SumOver(g, T \ {Chosen(T)})
    BY <2>2, SumOverStep
  <2>4. T # {}
    BY <2>3
  <2>5. Chosen(T) \in T
    BY <2>4, ChosenIsMember
  <2>6. SumOver(f, T \ {Chosen(T)}) = SumOver(g, T \ {Chosen(T)})
    <3>1. T \ {Chosen(T)} \in SUBSET T /\ T \ {Chosen(T)} # T /\ T \ {Chosen(T)} \in SUBSET S
      BY <2>5
    <3>2. QED
      BY <2>1, <3>1
  <2>7. f[Chosen(T)] = g[Chosen(T)]
    BY <2>5
  <2>8. QED
    BY <2>3, <2>4, <2>6, <2>7
<1>2. S \in SUBSET S
  OBVIOUS
<1>3. QED
  BY <1>1, <1>2

\* Remainders are unique.
LEMMA RemainderIsUnique ==
    ASSUME NEW p \in Nat \ {0}, NEW q \in Int, NEW r \in 0 .. p - 1
    PROVE  (p * q + r) % p = r
OBVIOUS

\* A number is a multiple of p and its remainder.
LEMMA RemainderType ==
    ASSUME NEW p \in Nat \ {0}, NEW a \in Int
    PROVE  a = p * (a \div p) + (a % p) /\ a \div p \in Int /\ a % p \in 0 .. p - 1
OBVIOUS

\* It makes no difference whether a term is reduced before it is added.
LEMMA ReducedTerm ==
    ASSUME NEW p \in Nat \ {0}, NEW a \in Int, NEW b \in Int
    PROVE  ((a % p) + b) % p = (a + b) % p
<1>1. PICK q \in Int, r \in 0 .. p - 1 : a = p * q + r /\ a % p = r
  BY RemainderType, Zenon
<1>2. PICK q2 \in Int, r2 \in 0 .. p - 1 : r + b = p * q2 + r2 /\ (r + b) % p = r2
  <2>1. r + b \in Int
    OBVIOUS
  <2>2. QED
    BY <2>1, RemainderType, Zenon
<1>3. \A x, y, z \in Int : x * y + x * z = x * (y + z)
  OBVIOUS
<1>4. a + b = p * (q + q2) + r2
  <2>1. p * q + p * q2 = p * (q + q2)
    BY <1>3
  <2>2. p * q \in Int /\ p * q2 \in Int
    OBVIOUS
  <2>3. \A u, v, w \in Int : a = u + r /\ r + b = v + r2 /\ u + v = w => a + b = w + r2
    OBVIOUS
  <2>4. p * (q + q2) \in Int
    OBVIOUS
  <2>5. QED
    BY <1>1, <1>2, <2>1, <2>2, <2>3, <2>4
<1>5. q + q2 \in Int
  OBVIOUS
<1>6. (p * (q + q2) + r2) % p = r2
  BY <1>5, RemainderIsUnique
<1>7. QED
  BY <1>1, <1>2, <1>4, <1>6

-----------------------------------------------------------------------------
(* The layout of the stiffness matrix. *)

\* The largest of some integers below a bound.
LEMMA MaxIsMember ==
    ASSUME NEW S \in SUBSET Int, S # {}, NEW b \in Int, \A x \in S : x <= b
    PROVE  Max(S) \in S /\ \A y \in S : Max(S) >= y
<1> DEFINE T == {k \in Nat : b - k \in S}
<1>1. T # {}
  <2>1. PICK x \in S : TRUE
    BY Zenon
  <2>2. b - x \in Nat /\ b - (b - x) = x
    BY <2>1
  <2>3. QED
    BY <2>2, Zenon
<1>2. T \subseteq Nat
  OBVIOUS
<1>3. PICK k \in T : \A j \in T : ~ (<<j, k>> \in OpToRel(<, Nat))
  BY <1>1, <1>2, NatLessThanWellFounded, WFMin, Zenon
<1>4. \A j \in T : ~ (j < k)
  BY <1>2, <1>3, Zenon DEF OpToRel
<1>5. ASSUME NEW y \in S PROVE b - k >= y
  <2>1. b - y \in Nat /\ b - (b - y) = y
    OBVIOUS
  <2>2. b - y \in T
    BY <2>1
  <2>3. ~ (b - y < k)
    BY <1>4, <2>2
  <2>4. QED
    BY <1>2, <2>3
<1>6. \E x \in S : \A y \in S : x >= y
  BY <1>5
<1>7. QED
  BY <1>6, Zenon DEF Max

\* The smallest of some numbers.
LEMMA MinIsMember ==
    ASSUME NEW S \in SUBSET Nat, S # {}
    PROVE  Min(S) \in S /\ \A y \in S : Min(S) <= y
<1>1. PICK k \in S : \A j \in S : ~ (<<j, k>> \in OpToRel(<, Nat))
  BY NatLessThanWellFounded, WFMin, Zenon
<1>2. \A j \in S : k <= j
  <2>1. ASSUME NEW j \in S PROVE k <= j
    <3>1. k \in Nat /\ j \in Nat
      OBVIOUS
    <3>2. ~ (j < k)
      BY <1>1, <3>1, Zenon DEF OpToRel
    <3>3. QED
      BY <3>1, <3>2
  <2>2. QED
    BY <2>1
<1>3. QED
  BY <1>2, Zenon DEF Min

\* The elements' degrees of freedom have numbers.
AreNumbers(elemDOF) == \A e \in DOMAIN elemDOF : Range(elemDOF[e]) \in SUBSET Nat

\* A row is stored from some column before the diagonal, or the diagonal itself.
LEMMA HalfBandType ==
    ASSUME NEW elemDOF, AreNumbers(elemDOF), NEW i \in Nat
    PROVE  HalfBand(elemDOF, i) \in 1 .. i + 1
<1> DEFINE E == {f \in DOMAIN elemDOF : i \in Range(elemDOF[f])}
           S == {1} \cup {i - Min(Range(elemDOF[e])) + 1 : e \in E}
<1>1. \A e \in E : Min(Range(elemDOF[e])) \in 0 .. i
  BY MinIsMember DEF AreNumbers
<1>2. \A e \in E : i - Min(Range(elemDOF[e])) + 1 \in 1 .. i + 1
  BY <1>1
<1>3. S \in SUBSET Int /\ 1 \in S /\ i + 1 \in Int /\ \A x \in S : x <= i + 1
  BY <1>2
<1>4. HalfBand(elemDOF, i) = Max(S)
  BY DEF HalfBand
<1>5. Max(S) \in S /\ Max(S) >= 1
  <2> HIDE DEF S
  <2>1. QED
    BY <1>3, MaxIsMember, Zenon
<1>6. \A x \in S : x \in Int /\ x <= i + 1
  BY <1>2
<1> HIDE DEF S
<1>7. QED
  BY <1>4, <1>5, <1>6

\* The equation of the recursive function in DiagonalAddresses.
Addresses(elemDOF, n, f) ==
    f = [i \in 0 .. n - 1 |-> IF i = 0 THEN 0 ELSE HalfBand(elemDOF, i) + f[i - 1]]

\* The addresses exist and count upwards from 0.
LEMMA DiagonalAddressesType ==
    ASSUME NEW elemDOF, AreNumbers(elemDOF), NEW n \in Nat
    PROVE  /\ Addresses(elemDOF, n, DiagonalAddresses(elemDOF, n))
           /\ DiagonalAddresses(elemDOF, n) \in [0 .. n - 1 -> Nat]
<1> DEFINE B == {m \in Nat : ~ \E f : Addresses(elemDOF, m, f)}
<1>1. \A i \in Nat : HalfBand(elemDOF, i) \in Nat
  <2>1. \A i \in Nat : HalfBand(elemDOF, i) \in 1 .. i + 1
    BY HalfBandType
  <2>2. QED
    BY <2>1
<1>2. ASSUME B # {} PROVE FALSE
  <2>1. PICK m \in B : \A j \in B : ~ (<<j, m>> \in OpToRel(<, Nat))
    <3>1. B \subseteq Nat
      OBVIOUS
    <3> HIDE DEF B
    <3>2. QED
      BY <1>2, <3>1, NatLessThanWellFounded, WFMin, Zenon
  <2>2. m # 0
    <3>1. Addresses(elemDOF, 0, [i \in {} |-> 0])
      BY DEF Addresses
    <3>2. QED
      BY <3>1
  <2>3. m \in Nat /\ m - 1 \in Nat /\ m - 1 < m
    BY <2>2
  <2>4. m - 1 \notin B
    BY <2>1, <2>3, Zenon DEF OpToRel
  <2>5. PICK f : Addresses(elemDOF, m - 1, f)
    BY <2>3, <2>4
  <2> DEFINE g == [i \in 0 .. m - 1 |-> IF i = m - 1 /\ i # 0 THEN HalfBand(elemDOF, i) + f[i - 1]
                                         ELSE IF i = 0 THEN 0 ELSE f[i]]
  <2>6. ASSUME NEW i \in 0 .. m - 1
        PROVE  g[i] = IF i = 0 THEN 0 ELSE HalfBand(elemDOF, i) + g[i - 1]
    <3>1. CASE i = 0
      BY <3>1
    <3>2. CASE i # 0
      <4>1. i - 1 \in 0 .. (m - 1) - 1 /\ i - 1 \in 0 .. m - 1 /\ i - 1 # m - 1
        BY <2>3, <3>2
      <4>2. g[i - 1] = f[i - 1]
        BY <2>5, <4>1 DEF Addresses
      <4>3. CASE i = m - 1
        BY <3>2, <4>2, <4>3
      <4>4. CASE i # m - 1
        <5>1. i \in 0 .. (m - 1) - 1
          BY <2>3, <4>4
        <5>2. f[i] = HalfBand(elemDOF, i) + f[i - 1]
          BY <2>5, <3>2, <5>1 DEF Addresses
        <5>3. QED
          BY <3>2, <4>2, <4>4, <5>2
      <4>5. QED
        BY <4>3, <4>4
    <3>3. QED
      BY <3>1, <3>2
  <2>7. g = [i \in 0 .. m - 1 |-> g[i]]
    OBVIOUS
  <2> HIDE DEF g
  <2>8. Addresses(elemDOF, m, g)
    BY <2>6, <2>7, Zenon DEF Addresses
  <2>9. QED
    BY <2>8
<1>3. Addresses(elemDOF, n, DiagonalAddresses(elemDOF, n))
  <2>1. \E f : Addresses(elemDOF, n, f)
    BY <1>2
  <2>2. DiagonalAddresses(elemDOF, n) = CHOOSE f : Addresses(elemDOF, n, f)
    BY DEF DiagonalAddresses, Addresses
  <2>3. QED
    BY <2>1, <2>2, Zenon
<1> DEFINE d == DiagonalAddresses(elemDOF, n)
           C == {i \in 0 .. n - 1 : d[i] \notin Nat}
<1>4. ASSUME C # {} PROVE FALSE
  <2>1. PICK i \in C : \A j \in C : ~ (<<j, i>> \in OpToRel(<, Nat))
    <3>1. C \subseteq Nat
      OBVIOUS
    <3> HIDE DEF C
    <3>2. QED
      BY <1>4, <3>1, NatLessThanWellFounded, WFMin, Zenon
  <2>2. i \in 0 .. n - 1 /\ d[i] = IF i = 0 THEN 0 ELSE HalfBand(elemDOF, i) + d[i - 1]
    BY <1>3 DEF Addresses
  <2>3. i # 0
    BY <2>2
  <2>4. i - 1 \in 0 .. n - 1 /\ i - 1 < i /\ i - 1 \in Nat /\ i \in Nat
    BY <2>2, <2>3
  <2>5. d[i - 1] \in Nat
    BY <2>1, <2>4, Zenon DEF OpToRel
  <2>6. HalfBand(elemDOF, i) \in Nat
    BY <1>1, <2>4
  <2>7. QED
    BY <2>2, <2>3, <2>5, <2>6
<1>5. d = [i \in 0 .. n - 1 |-> d[i]]
  BY <1>3 DEF Addresses
<1>6. \A i \in 0 .. n - 1 : d[i] \in Nat
  BY <1>4
<1>7. QED
  BY <1>3, <1>5, <1>6

\* A coupled degree of freedom has its master's number; all have one below nTotalDOF.
LEMMA DOFNumbers ==
    ASSUME NEW s, Legal(s)
    PROVE  /\ \A d \in Independent(s) : DOFIndexes(s)[d] = IndependentNumber(s, d)
           /\ \A d \in Coupled(s) : /\ Master(s, d) \in Independent(s)
                                    /\ DOFIndexes(s)[d] = DOFIndexes(s)[Master(s, d)]
           /\ \A d \in DOFs(s) : DOFIndexes(s)[d] \in 0 .. nTotalDOFs(s) - 1
<1>1. /\ Independent(s) \subseteq DOFs(s) /\ Coupled(s) \subseteq DOFs(s)
      /\ Independent(s) \cap Coupled(s) = {} /\ DOFs(s) = Independent(s) \cup Coupled(s)
      /\ \A d \in Coupled(s) : Master(s, d) \in Independent(s)
  BY LegalStructure DEF Independent
<1>2. DOFs(s) \subseteq Node(s) \X (0 .. 2)
  BY DEF DOFs
<1>3. \A d \in DOFs(s) : DOFIndexes(s)[d] = IndependentNumber(s, IF d \in Coupled(s) THEN Master(s, d) ELSE d)
  BY <1>2 DEF DOFIndexes
<1>4. \A d \in Independent(s) : DOFIndexes(s)[d] = IndependentNumber(s, d)
  BY <1>1, <1>3
<1>5. \A d \in Coupled(s) : DOFIndexes(s)[d] = DOFIndexes(s)[Master(s, d)]
  BY <1>1, <1>3, <1>4
<1>6. \A d \in Independent(s) : IndependentNumber(s, d) \in 0 .. nTotalDOFs(s) - 1
  BY IndependentNumbers
<1>7. QED
  BY <1>1, <1>4, <1>5, <1>6, Zenon

\* The numbers are shared out as NumberedOnce says.
LEMMA NumbersAreSharedOut ==
    ASSUME NEW s, Legal(s), NEW i \in 0 .. nTotalDOFs(s) - 1
    PROVE  \E d \in Independent(s) :
              /\ DOFIndexes(s)[d] = i
              /\ \A e \in DOFs(s) : DOFIndexes(s)[e] = i =>
                     e = d \/ (e \in Coupled(s) /\ Master(s, e) = d)
              /\ i < nFreeDOFs(s) <=> d \in Free(s)
<1>1. PICK d \in Independent(s) : IndependentNumber(s, d) = i
  BY IndependentNumbers
<1>2. DOFIndexes(s)[d] = i
  BY <1>1, DOFNumbers
<1>3. i < nFreeDOFs(s) <=> d \in Free(s)
  BY <1>1, IndependentNumbers
<1>4. \A e \in Independent(s) : DOFIndexes(s)[e] = i => e = d
  BY <1>1, IndependentNumbers, DOFNumbers
<1>5. ASSUME NEW e \in DOFs(s), DOFIndexes(s)[e] = i
      PROVE  e = d \/ (e \in Coupled(s) /\ Master(s, e) = d)
  <2>1. CASE e \in Independent(s)
    BY <1>4, <1>5, <2>1
  <2>2. CASE e \in Coupled(s)
    <3>1. Master(s, e) \in Independent(s) /\ DOFIndexes(s)[Master(s, e)] = i
      BY <1>5, <2>2, DOFNumbers
    <3>2. QED
      BY <1>4, <2>2, <3>1
  <2>3. DOFs(s) = Independent(s) \cup Coupled(s)
    BY LegalStructure DEF Independent
  <2>4. QED
    BY <2>1, <2>2, <2>3
<1>6. QED
  BY <1>2, <1>3, <1>5

\* An element's degrees of freedom have numbers.
LEMMA ElementDOFsAreNumbers ==
    ASSUME NEW s, Legal(s), NEW e \in DOMAIN s.elem
    PROVE  Range(ElementDOFs(s.elem[e], DOFIndexes(s))) \in SUBSET (0 .. nTotalDOFs(s) - 1)
<1> DEFINE elem == s.elem[e]
           ix == DOFIndexes(s)
           T == 0 .. nTotalDOFs(s) - 1
<1>1. /\ elem.type \in {"truss", "frame"} /\ elem.node \in Node(s) \X Node(s)
      /\ elem.type = "frame" => \A k \in 1 .. 2 : s.type[elem.node[k]] = "frame"
  BY DEF Legal
<1>2. \A d \in DOFs(s) : ix[d] \in T
  BY DOFNumbers
<1>3. elem.node[1] \in Node(s) /\ elem.node[2] \in Node(s)
  BY <1>1
<1> HIDE DEF elem
<1>4. \A k \in 1 .. 2 : \A j \in 0 .. 1 : <<elem.node[k], j>> \in DOFs(s)
  <2>1. \A k \in 1 .. 2 : elem.node[k] \in Node(s)
    BY <1>3
  <2>2. QED
    BY <2>1 DEF DOFs
<1>5. elem.type = "frame" => \A k \in 1 .. 2 : \A j \in 0 .. 2 : <<elem.node[k], j>> \in DOFs(s)
  <2>1. \A k \in 1 .. 2 : elem.node[k] \in Node(s)
    BY <1>3
  <2>2. QED
    BY <1>1, <2>1 DEF DOFs
<1> HIDE DEF ix, T
<1>6. CASE elem.type = "truss"
  <2> DEFINE q == <<ix[<<elem.node[1], 0>>], ix[<<elem.node[1], 1>>],
                    ix[<<elem.node[2], 0>>], ix[<<elem.node[2], 1>>]>>
  <2>1. ElementDOFs(elem, ix) = q
    BY <1>6 DEF ElementDOFs
  <2>2. \A k \in DOMAIN q : q[k] \in T
    <3>1. /\ ix[<<elem.node[1], 0>>] \in T /\ ix[<<elem.node[1], 1>>] \in T
          /\ ix[<<elem.node[2], 0>>] \in T /\ ix[<<elem.node[2], 1>>] \in T
      BY <1>2, <1>4
    <3>2. QED
      BY <3>1
  <2> HIDE DEF q
  <2>3. QED
    BY <2>1, <2>2 DEF Range, ix, T, elem
<1>7. CASE elem.type = "frame"
  <2> DEFINE q == <<ix[<<elem.node[1], 0>>], ix[<<elem.node[1], 1>>], ix[<<elem.node[1], 2>>],
                    ix[<<elem.node[2], 0>>], ix[<<elem.node[2], 1>>], ix[<<elem.node[2], 2>>]>>
  <2>1. ElementDOFs(elem, ix) = q
    BY <1>7 DEF ElementDOFs
  <2>2. \A k \in DOMAIN q : q[k] \in T
    <3>1. /\ ix[<<elem.node[1], 0>>] \in T /\ ix[<<elem.node[1], 1>>] \in T /\ ix[<<elem.node[1], 2>>] \in T
          /\ ix[<<elem.node[2], 0>>] \in T /\ ix[<<elem.node[2], 1>>] \in T /\ ix[<<elem.node[2], 2>>] \in T
      BY <1>2, <1>5, <1>7
    <3>2. QED
      BY <3>1
  <2> HIDE DEF q
  <2>3. QED
    BY <2>1, <2>2 DEF Range, ix, T, elem
<1>8. QED
  BY <1>1, <1>6, <1>7

-----------------------------------------------------------------------------
(* The loads. *)

\* The values of the loads, and those of the first k that move support i.
Values == [m \in DOMAIN loads |-> loads[m].value]
MovedBy(i, k) == {m \in OnNumber("SUPPORT_MOVE", i) : m <= k}

\* The loads are a sequence of which every value is a number.
LEMMA LoadsType ==
    ASSUME LegalLoads(structure, loads)
    PROVE  /\ Len(loads) \in Nat /\ DOMAIN loads = 1 .. Len(loads)
           /\ \A m \in DOMAIN loads : Values[m] \in Int /\ loads[m].value = Values[m]
           /\ \A i, k : MovedBy(i, k) \subseteq DOMAIN loads /\ IsFiniteSet(MovedBy(i, k))
<1>1. loads \in Seq(Range(loads)) /\ \A m \in DOMAIN loads : loads[m].value \in Int
  BY DEF LegalLoads
<1>2. Len(loads) \in Nat /\ DOMAIN loads = 1 .. Len(loads)
  BY <1>1
<1>3. \A m \in DOMAIN loads : Values[m] \in Int /\ loads[m].value = Values[m]
  BY <1>1 DEF Values
<1>4. IsFiniteSet(DOMAIN loads)
  BY <1>2, FS_Interval
<1>5. \A i, k : MovedBy(i, k) \in SUBSET (DOMAIN loads)
  BY DEF MovedBy, OnNumber
<1>6. \A i, k : IsFiniteSet(MovedBy(i, k))
  BY <1>4, <1>5, FS_Subset
<1>7. QED
  BY <1>2, <1>3, <1>5, <1>6

\* A support moves by what all the loads move it.
LEMMA MovementIsSum ==
    ASSUME LegalLoads(structure, loads), NEW i
    PROVE  Movement(i) = SumOver(Values, MovedBy(i, Len(loads))) % P
<1> DEFINE S == OnNumber("SUPPORT_MOVE", i)
           f == [k \in S |-> loads[k].value]
<1>1. MovedBy(i, Len(loads)) = S
  BY LoadsType DEF MovedBy, OnNumber
<1>2. IsFiniteSet(S)
  BY <1>1, LoadsType
<1>3. SumFunction(f) = SumOver(f, S)
  BY SumIsLookedUp
<1>4. \A x \in S : f[x] = Values[x]
  BY LoadsType DEF OnNumber
<1>5. SumOver(f, S) = SumOver(Values, S)
  <2> HIDE DEF f, S
  <2>1. QED
    BY <1>2, <1>4, SumOverSame
<1>6. Movement(i) = SumFunction(f) % P
  BY DEF Movement, Total
<1>7. QED
  BY <1>1, <1>3, <1>5, <1>6

\* One load more adds its value to the support that it moves, if it moves one.
LEMMA OneLoadMore ==
    ASSUME LegalLoads(structure, loads), P \in Nat \ {0}, NEW k \in DOMAIN loads, NEW i
    PROVE  SumOver(Values, MovedBy(i, k)) % P =
               IF k \in OnNumber("SUPPORT_MOVE", i)
               THEN ((SumOver(Values, MovedBy(i, k - 1)) % P) + loads[k].value) % P
               ELSE SumOver(Values, MovedBy(i, k - 1)) % P
<1>1. k \in Nat
  BY LoadsType
<1>2. OnNumber("SUPPORT_MOVE", i) \subseteq Nat
  BY LoadsType DEF OnNumber
<1>3. CASE k \in OnNumber("SUPPORT_MOVE", i)
  <2>1. k \in MovedBy(i, k) /\ MovedBy(i, k) \ {k} = MovedBy(i, k - 1)
    BY <1>1, <1>2, <1>3 DEF MovedBy
  <2>2. IsFiniteSet(MovedBy(i, k)) /\ \A x \in MovedBy(i, k) : Values[x] \in Int
    BY LoadsType
  <2>3. SumOver(Values, MovedBy(i, k)) = Values[k] + SumOver(Values, MovedBy(i, k - 1))
    BY <2>1, <2>2, SumOverMember
  <2>4. SumOver(Values, MovedBy(i, k - 1)) \in Int
    BY LoadsType, SumOverType
  <2>5. Values[k] \in Int /\ loads[k].value = Values[k]
    BY LoadsType
  <2>6. \A a, b \in Int : ((a % P) + b) % P = (b + a) % P
    <3>1. \A a, b \in Int : ((a % P) + b) % P = (a + b) % P
      BY ReducedTerm, Zenon
    <3>2. \A a, b \in Int : a + b = b + a
      OBVIOUS
    <3>3. QED
      BY <3>1, <3>2, Zenon
  <2>7. ((SumOver(Values, MovedBy(i, k - 1)) % P) + Values[k]) % P
            = (Values[k] + SumOver(Values, MovedBy(i, k - 1))) % P
    BY <2>4, <2>5, <2>6, Zenon
  <2>8. QED
    BY <1>3, <2>3, <2>5, <2>7, Zenon
<1>4. CASE k \notin OnNumber("SUPPORT_MOVE", i)
  <2>1. MovedBy(i, k) = MovedBy(i, k - 1)
    BY <1>1, <1>2, <1>4 DEF MovedBy
  <2>2. QED
    BY <1>4, <2>1
<1>5. QED
  BY <1>3, <1>4

\* The equation of the recursive function in LoadVectorAssembly, for n loads.
AfterLoads(f, n) ==
    f = [k \in 0 .. n |-> IF k = 0 THEN [vect |-> pLoadVect, disp |-> pDisp, force |-> daEndInterForce]
                          ELSE AddLoad(loads[k], f[k - 1])]

\* Such a function exists.
LEMMA AfterLoadsExist ==
    ASSUME NEW n \in Nat
    PROVE  \E f : AfterLoads(f, n)
<1> DEFINE B == {m \in Nat : ~ \E f : AfterLoads(f, m)}
<1>1. ASSUME B # {} PROVE FALSE
  <2>1. PICK m \in B : \A j \in B : ~ (<<j, m>> \in OpToRel(<, Nat))
    <3>1. B \subseteq Nat
      OBVIOUS
    <3> HIDE DEF B
    <3>2. QED
      BY <1>1, <3>1, NatLessThanWellFounded, WFMin, Zenon
  <2> DEFINE w0 == [vect |-> pLoadVect, disp |-> pDisp, force |-> daEndInterForce]
  <2>2. m # 0
    <3> DEFINE f == [k \in 0 .. 0 |-> w0]
    <3>1. \A k \in 0 .. 0 : f[k] = IF k = 0 THEN w0 ELSE AddLoad(loads[k], f[k - 1])
      OBVIOUS
    <3>2. f = [k \in 0 .. 0 |-> f[k]]
      OBVIOUS
    <3> HIDE DEF f
    <3>3. AfterLoads(f, 0)
      BY <3>1, <3>2, Zenon DEF AfterLoads
    <3>4. QED
      BY <3>3
  <2>3. m \in Nat /\ m - 1 \in Nat /\ m - 1 < m
    BY <2>2
  <2>4. m - 1 \notin B
    BY <2>1, <2>3, Zenon DEF OpToRel
  <2>5. PICK f : AfterLoads(f, m - 1)
    BY <2>3, <2>4
  <2> HIDE DEF w0
  <2>6. \A k \in 0 .. m - 1 : f[k] = IF k = 0 THEN w0 ELSE AddLoad(loads[k], f[k - 1])
    BY <2>5 DEF AfterLoads, w0
  <2> DEFINE g == [k \in 0 .. m |-> IF k = m THEN AddLoad(loads[m], f[m - 1]) ELSE f[k]]
  <2>7. ASSUME NEW k \in 0 .. m
        PROVE  g[k] = IF k = 0 THEN w0 ELSE AddLoad(loads[k], g[k - 1])
    <3>1. CASE k = 0
      <4>1. 0 \in 0 .. m - 1 /\ 0 # m /\ 0 \in 0 .. m
        BY <2>3
      <4>2. QED
        BY <2>6, <3>1, <4>1
    <3>2. CASE k # 0
      <4>1. k - 1 \in 0 .. m /\ k - 1 # m /\ k \in Nat
        BY <2>3, <3>2
      <4>2. g[k - 1] = f[k - 1]
        BY <4>1
      <4>3. CASE k = m
        BY <3>2, <4>2, <4>3
      <4>4. CASE k # m
        <5>1. k \in 0 .. m - 1
          BY <2>3, <4>4
        <5>2. g[k] = f[k]
          BY <4>4
        <5>3. QED
          BY <2>6, <3>2, <4>2, <5>1, <5>2
      <4>5. QED
        BY <4>3, <4>4
    <3>3. QED
      BY <3>1, <3>2
  <2>8. g = [k \in 0 .. m |-> g[k]]
    OBVIOUS
  <2> HIDE DEF g
  <2>9. AfterLoads(g, m)
    BY <2>7, <2>8, Zenon DEF AfterLoads, w0
  <2>10. QED
    BY <2>9
<1>2. QED
  BY <1>1

\* After each load the supports stand where the loads so far have moved them.
LEMMA DispAfterLoads ==
    ASSUME LegalInput, P \in Nat \ {0},
           iaDOFIndex = DOFIndexes(structure), nTotalDOF = nTotalDOFs(structure),
           pDisp = VectorZeroize(0 .. nTotalDOF - 1),
           NEW f, AfterLoads(f, Len(loads)), NEW k \in 0 .. Len(loads)
    PROVE  /\ f[k] = [vect |-> f[k].vect, disp |-> f[k].disp, force |-> f[k].force]
           /\ f[k].disp = [i \in 0 .. nTotalDOF - 1 |-> SumOver(Values, MovedBy(i, k)) % P]
<1> DEFINE N == 0 .. nTotalDOF - 1
           Disp(m) == [i \in N |-> SumOver(Values, MovedBy(i, m)) % P]
           Good(m) == /\ f[m] = [vect |-> f[m].vect, disp |-> f[m].disp, force |-> f[m].force]
                      /\ f[m].disp = Disp(m)
           B == {m \in 0 .. Len(loads) : ~ Good(m)}
<1>1. LegalLoads(structure, loads) /\ Legal(structure)
  BY DEF LegalInput
<1>2. Len(loads) \in Nat /\ DOMAIN loads = 1 .. Len(loads)
  BY <1>1, LoadsType
<1>3. ASSUME B # {} PROVE FALSE
  <2>1. PICK m \in B : \A j \in B : ~ (<<j, m>> \in OpToRel(<, Nat))
    <3>1. B \subseteq Nat
      BY <1>2
    <3> HIDE DEF B
    <3>2. QED
      BY <1>3, <3>1, NatLessThanWellFounded, WFMin, Zenon
  <2>2. m # 0
    <3>1. f[0] = [vect |-> pLoadVect, disp |-> pDisp, force |-> daEndInterForce]
      BY <1>2 DEF AfterLoads
    <3>2. \A i : SumOver(Values, MovedBy(i, 0)) = 0
      <4>1. \A i : MovedBy(i, 0) = {}
        BY <1>2 DEF MovedBy, OnNumber
      <4>2. SumOver(Values, {}) = 0
        BY SumOverStep, FS_EmptySet, Zenon
      <4>3. QED
        BY <4>1, <4>2, Zenon
    <3>3. 0 % P = 0
      OBVIOUS
    <3>4. pDisp = Disp(0)
      BY <3>2, <3>3 DEF VectorZeroize
    <3> HIDE DEF Disp
    <3>5. Good(0)
      BY <3>1, <3>4
    <3>6. QED
      BY <3>5
  <2>3. m \in DOMAIN loads /\ m - 1 \in 0 .. Len(loads) /\ m \in 0 .. Len(loads)
        /\ m \in Nat /\ m - 1 \in Nat /\ m - 1 < m
    BY <1>2, <2>2
  <2>4. Good(m - 1)
    <3>1. m - 1 \notin B
      BY <2>1, <2>3, Zenon DEF OpToRel
    <3> HIDE DEF Good
    <3>2. QED
      BY <2>3, <3>1
  <2> DEFINE w == f[m - 1]
             load == loads[m]
  <2>5. f[m] = AddLoad(load, w)
    BY <2>2, <2>3, Zenon DEF AfterLoads
  <2>6. \A i : SumOver(Values, MovedBy(i, m)) % P =
               IF m \in OnNumber("SUPPORT_MOVE", i)
               THEN ((SumOver(Values, MovedBy(i, m - 1)) % P) + load.value) % P
               ELSE SumOver(Values, MovedBy(i, m - 1)) % P
    BY <1>1, <2>3, OneLoadMore
  <2>7. w = [vect |-> w.vect, disp |-> w.disp, force |-> w.force] /\ w.disp = Disp(m - 1)
    BY <2>4
  <2> HIDE DEF w
  <2>8. CASE load.type = "SUPPORT_MOVE"
    <3> DEFINE d == [w.disp EXCEPT ![iaDOFIndex[load.at]] = (@ + load.value) % P]
    <3>1. f[m] = [vect |-> LoadVectorModify(w.vect, d), disp |-> d, force |-> w.force]
      BY <2>5, <2>7, <2>8, Zenon DEF AddLoad
    <3>2. \A i : m \in OnNumber("SUPPORT_MOVE", i) <=> i = iaDOFIndex[load.at]
      BY <2>3, <2>8 DEF OnNumber
    <3>3. d = Disp(m)
      BY <2>6, <2>7, <3>2, Zenon
    <3> HIDE DEF d, Disp
    <3>4. Good(m)
      BY <3>1, <3>3
    <3>5. QED
      BY <3>4
  <2>9. CASE load.type # "SUPPORT_MOVE"
    <3>1. \A i : m \notin OnNumber("SUPPORT_MOVE", i)
      BY <2>9 DEF OnNumber
    <3>2. Disp(m) = Disp(m - 1)
      BY <2>6, <3>1
    <3>3. f[m] = [vect |-> f[m].vect, disp |-> w.disp, force |-> f[m].force]
      <4>1. CASE load.type = "FORCE_ON_NODE"
        <5>1. f[m] = [w EXCEPT !.vect[iaDOFIndex[load.at]] = (@ + load.value) % P]
          BY <2>5, <2>9, <4>1 DEF AddLoad
        <5>2. QED
          BY <2>7, <5>1, Zenon
      <4>2. CASE load.type # "FORCE_ON_NODE"
        <5>1. PICK v, g : f[m] = [w EXCEPT !.vect = v, !.force[load.elem] = g]
          BY <2>5, <2>9, <4>2, Zenon DEF AddLoad
        <5>2. QED
          BY <2>7, <5>1, Zenon
      <4>3. QED
        BY <4>1, <4>2
    <3> HIDE DEF Disp
    <3>4. Good(m)
      BY <2>7, <3>2, <3>3
    <3>5. QED
      BY <3>4
  <2>10. QED
    BY <2>8, <2>9
<1>4. Good(k)
  <2> HIDE DEF Good
  <2>1. QED
    BY <1>3
<1>5. QED
  BY <1>4

-----------------------------------------------------------------------------
(* LDLTSolve leaves the displacements of the supports alone. *)

\* What LDLTSolve works on, with the supports where pDisp has them.
SupportsKept(w) ==
    /\ w = [gk |-> w.gk, b |-> w.b, ok |-> w.ok, lastRow |-> w.lastRow]
    /\ w.b = [i \in 0 .. nTotalDOF - 1 |-> w.b[i]]
    /\ \A i \in nFreeDOF .. nTotalDOF - 1 : w.b[i] = pDisp[i]

\* The factorisation does not touch the right hand side.
LEMMA ReduceKeeps ==
    ASSUME NEW w, SupportsKept(w), NEW i, NEW j
    PROVE  SupportsKept(Reduce(w, i, j))
<1>1. w = [gk |-> w.gk, b |-> w.b, ok |-> w.ok, lastRow |-> w.lastRow]
  BY DEF SupportsKept
<1>2. \/ Reduce(w, i, j) = [w EXCEPT !.ok = FALSE]
      \/ \E v : Reduce(w, i, j) = [w EXCEPT !.gk = v]
  BY Zenon DEF Reduce
<1>3. CASE Reduce(w, i, j) = [w EXCEPT !.ok = FALSE]
  <2>1. Reduce(w, i, j) = [gk |-> w.gk, b |-> w.b, ok |-> FALSE, lastRow |-> w.lastRow]
    BY <1>1, <1>3, Zenon
  <2>2. QED
    BY <2>1 DEF SupportsKept
<1>4. ASSUME NEW v, Reduce(w, i, j) = [w EXCEPT !.gk = v] PROVE SupportsKept(Reduce(w, i, j))
  <2>1. Reduce(w, i, j) = [gk |-> v, b |-> w.b, ok |-> w.ok, lastRow |-> w.lastRow]
    BY <1>1, <1>4
  <2>2. QED
    BY <2>1 DEF SupportsKept
<1>5. QED
  BY <1>2, <1>3, <1>4

\* An entry below nFreeDOF of the right hand side may become anything.
LEMMA EntryKeeps ==
    ASSUME NEW w, SupportsKept(w), nFreeDOF \in Nat, nTotalDOF \in Nat,
           NEW i \in 0 .. nFreeDOF - 1, NEW v, NEW ok, NEW last
    PROVE  SupportsKept([gk |-> w.gk, b |-> [w.b EXCEPT ![i] = v], ok |-> ok, lastRow |-> last])
<1> DEFINE b == [w.b EXCEPT ![i] = v]
           N == 0 .. nTotalDOF - 1
<1>1. /\ w.b = [k \in N |-> w.b[k]]
      /\ \A k \in nFreeDOF .. nTotalDOF - 1 : w.b[k] = pDisp[k]
  BY Zenon DEF SupportsKept
<1>2. b = [k \in N |-> b[k]]
  BY <1>1, Zenon
<1>3. \A k \in nFreeDOF .. nTotalDOF - 1 : b[k] = pDisp[k]
  <2>1. \A k \in nFreeDOF .. nTotalDOF - 1 : k \in N /\ k # i
    OBVIOUS
  <2>2. \A k \in N : k # i => b[k] = w.b[k]
    BY <1>1
  <2>3. QED
    BY <1>1, <2>1, <2>2, Zenon
<1> HIDE DEF b
<1>4. SupportsKept([gk |-> w.gk, b |-> b, ok |-> ok, lastRow |-> last])
  BY <1>2, <1>3, Zenon DEF SupportsKept
<1>5. QED
  BY <1>4 DEF b

\* The substitutions change entries below nFreeDOF only.
LEMMA SubstituteKeeps ==
    ASSUME NEW w, SupportsKept(w), nFreeDOF \in Nat, nTotalDOF \in Nat, NEW i \in 0 .. nFreeDOF - 1
    PROVE  SupportsKept(Substitute(w, i)) /\ SupportsKept(BackSubstitute(w, i))
<1> DEFINE R(v, ok, last) == [gk |-> w.gk, b |-> [w.b EXCEPT ![i] = v], ok |-> ok, lastRow |-> last]
<1>1. PICK g, c, o, l : w = [gk |-> g, b |-> c, ok |-> o, lastRow |-> l]
  BY DEF SupportsKept
<1>2. \A v, ok, last : SupportsKept(R(v, ok, last))
  BY EntryKeeps, Zenon
<1>3. \A v : /\ [w EXCEPT !.b[i] = v] = R(v, o, l)
             /\ \A x : [w EXCEPT !.b[i] = v, !.ok = x] = R(v, x, l)
             /\ \A x : [w EXCEPT !.b[i] = v, !.lastRow = x] = R(v, o, x)
  <2>1. w.gk = g /\ w.b = c
    BY <1>1
  <2>2. ASSUME NEW v, NEW x, NEW y
        PROVE  R(v, x, y) = [gk |-> g, b |-> [c EXCEPT ![i] = v], ok |-> x, lastRow |-> y]
    BY <2>1
  <2>3. ASSUME NEW v
        PROVE  [w EXCEPT !.b[i] = v] = [gk |-> g, b |-> [c EXCEPT ![i] = v], ok |-> o, lastRow |-> l]
    BY <1>1
  <2>4. ASSUME NEW v, NEW x
        PROVE  [w EXCEPT !.b[i] = v, !.ok = x] =
                   [gk |-> g, b |-> [c EXCEPT ![i] = v], ok |-> x, lastRow |-> l]
    <3> DEFINE u == [gk |-> g, b |-> [c EXCEPT ![i] = v], ok |-> o, lastRow |-> l]
    <3>1. [w EXCEPT !.b[i] = v, !.ok = x] = [u EXCEPT !.ok = x]
      BY <2>3, Zenon
    <3>2. [u EXCEPT !.ok = x] = [gk |-> g, b |-> [c EXCEPT ![i] = v], ok |-> x, lastRow |-> l]
      OBVIOUS
    <3>3. QED
      BY <3>1, <3>2
  <2>5. ASSUME NEW v, NEW x
        PROVE  [w EXCEPT !.b[i] = v, !.lastRow = x] =
                   [gk |-> g, b |-> [c EXCEPT ![i] = v], ok |-> o, lastRow |-> x]
    <3> DEFINE u == [gk |-> g, b |-> [c EXCEPT ![i] = v], ok |-> o, lastRow |-> l]
    <3>1. [w EXCEPT !.b[i] = v, !.lastRow = x] = [u EXCEPT !.lastRow = x]
      BY <2>3, Zenon
    <3>2. [u EXCEPT !.lastRow = x] = [gk |-> g, b |-> [c EXCEPT ![i] = v], ok |-> o, lastRow |-> x]
      OBVIOUS
    <3>3. QED
      BY <3>1, <3>2
  <2> HIDE DEF R
  <2>6. QED
    BY <2>2, <2>3, <2>4, <2>5, Zenon
<1> HIDE DEF R
<1>4. \/ \E v : Substitute(w, i) = [w EXCEPT !.b[i] = v, !.ok = FALSE]
      \/ \E v : Substitute(w, i) = [w EXCEPT !.b[i] = v]
  BY Zenon DEF Substitute
<1>5. \E v, x : BackSubstitute(w, i) = [w EXCEPT !.b[i] = v, !.lastRow = x]
  BY <1>1, Zenon DEF BackSubstitute
<1>6. \E v, x, y : Substitute(w, i) = R(v, x, y)
  <2>1. ASSUME NEW v, Substitute(w, i) = [w EXCEPT !.b[i] = v, !.ok = FALSE]
        PROVE  \E x, y : Substitute(w, i) = R(v, x, y)
    <3>1. Substitute(w, i) = R(v, FALSE, l)
      BY <1>3, <2>1, Zenon
    <3>2. QED
      BY <3>1, Zenon
  <2>2. ASSUME NEW v, Substitute(w, i) = [w EXCEPT !.b[i] = v]
        PROVE  \E x, y : Substitute(w, i) = R(v, x, y)
    <3>1. Substitute(w, i) = R(v, o, l)
      BY <1>3, <2>2, Zenon
    <3>2. QED
      BY <3>1
  <2>3. QED
    BY <1>4, <2>1, <2>2, Zenon
<1>7. \E v, x, y : BackSubstitute(w, i) = R(v, x, y)
  <2>1. PICK v, x : BackSubstitute(w, i) = [w EXCEPT !.b[i] = v, !.lastRow = x]
    BY <1>5, Zenon
  <2>2. BackSubstitute(w, i) = R(v, o, x)
    BY <1>3, <2>1, Zenon
  <2>3. QED
    BY <2>2
<1>8. QED
  BY <1>2, <1>6, <1>7

\* The row that the address a belongs to.
RowOf(a) == CHOOSE i \in 0 .. nFreeDOF - 1 : Address(i, FirstColumn(i)) <= a /\ a <= pDiag[i]

\* The equations of the three recursive functions in LDLTSolve: the first m + 1
\* values of factor, the first m + 1 of forward and the last m + 1 of backward.
Factored(f, m) ==
    f = [a \in 0 .. m |->
            IF a = 0 THEN [gk |-> pGK, b |-> pDisp, ok |-> TRUE, lastRow |-> nFreeDOF - 1]
            ELSE LET w == f[a - 1]
                 IN  IF w.ok THEN Reduce(w, RowOf(a), RowOf(a) - (pDiag[RowOf(a)] - a)) ELSE w]
Forward(w0, f, m) ==
    f = [i \in 0 .. m |->
            IF i = 0 THEN w0
            ELSE LET w == f[i - 1] IN IF w.ok THEN Substitute(w, i - 1) ELSE w]
Backward(w0, f, m) ==
    f = [i \in nFreeDOF - 1 - m .. nFreeDOF - 1 |->
            IF i = nFreeDOF - 1 THEN w0
            ELSE LET w == f[i + 1] IN IF w.ok THEN BackSubstitute(w, i) ELSE w]

\* The factorisation comes to an end, and leaves the right hand side as it was.
LEMMA FactorKeeps ==
    ASSUME NEW m \in Nat, nTotalDOF \in Nat, pDisp = [i \in 0 .. nTotalDOF - 1 |-> pDisp[i]]
    PROVE  /\ \E f : Factored(f, m)
           /\ \A f : Factored(f, m) => SupportsKept(f[m])
<1> DEFINE w0 == [gk |-> pGK, b |-> pDisp, ok |-> TRUE, lastRow |-> nFreeDOF - 1]
           Step(a, w) == IF w.ok THEN Reduce(w, RowOf(a), RowOf(a) - (pDiag[RowOf(a)] - a)) ELSE w
           Rec(f, n) == f = [a \in 0 .. n |-> IF a = 0 THEN w0 ELSE Step(a, f[a - 1])]
           B == {n \in Nat : ~ \E f : Rec(f, n)}
<1>1. \A f, n : Factored(f, n) <=> Rec(f, n)
  BY DEF Factored
<1>2. SupportsKept(w0)
  BY DEF SupportsKept
<1>3. \A a, w : SupportsKept(w) => SupportsKept(Step(a, w))
  BY ReduceKeeps
<1> HIDE DEF w0, Step
<1>4. ASSUME B # {} PROVE FALSE
  <2>1. PICK n \in B : \A j \in B : ~ (<<j, n>> \in OpToRel(<, Nat))
    <3>1. B \subseteq Nat
      OBVIOUS
    <3> HIDE DEF B
    <3>2. QED
      BY <1>4, <3>1, NatLessThanWellFounded, WFMin, Zenon
  <2>2. n # 0
    <3> DEFINE f == [a \in 0 .. 0 |-> w0]
    <3>1. \A a \in 0 .. 0 : f[a] = IF a = 0 THEN w0 ELSE Step(a, f[a - 1])
      OBVIOUS
    <3>2. f = [a \in 0 .. 0 |-> f[a]]
      OBVIOUS
    <3> HIDE DEF f
    <3>3. Rec(f, 0)
      BY <3>1, <3>2, Zenon
    <3>4. QED
      BY <3>3, Zenon
  <2>3. n \in Nat /\ n - 1 \in Nat /\ n - 1 < n
    BY <2>2
  <2>4. n - 1 \notin B
    BY <2>1, <2>3, Zenon DEF OpToRel
  <2>5. PICK f : Rec(f, n - 1)
    BY <2>3, <2>4
  <2>6. \A a \in 0 .. n - 1 : f[a] = IF a = 0 THEN w0 ELSE Step(a, f[a - 1])
    BY <2>5, Zenon
  <2> DEFINE g == [a \in 0 .. n |-> IF a = n THEN Step(n, f[n - 1]) ELSE f[a]]
  <2>7. ASSUME NEW a \in 0 .. n
        PROVE  g[a] = IF a = 0 THEN w0 ELSE Step(a, g[a - 1])
    <3>1. CASE a = 0
      <4>1. 0 \in 0 .. n - 1 /\ 0 # n /\ 0 \in 0 .. n
        BY <2>3
      <4>2. QED
        BY <2>6, <3>1, <4>1, Zenon
    <3>2. CASE a # 0
      <4>1. a - 1 \in 0 .. n /\ a - 1 # n /\ a \in Nat
        BY <2>3, <3>2
      <4>2. g[a - 1] = f[a - 1]
        BY <4>1
      <4>3. CASE a = n
        BY <3>2, <4>2, <4>3
      <4>4. CASE a # n
        <5>1. a \in 0 .. n - 1
          BY <2>3, <4>4
        <5>2. g[a] = f[a]
          BY <4>4
        <5>3. QED
          BY <2>6, <3>2, <4>2, <5>1, <5>2
      <4>5. QED
        BY <4>3, <4>4
    <3>3. QED
      BY <3>1, <3>2
  <2>8. g = [a \in 0 .. n |-> g[a]]
    OBVIOUS
  <2> HIDE DEF g
  <2>9. Rec(g, n)
    BY <2>7, <2>8, Zenon
  <2>10. QED
    BY <2>9, Zenon
<1>5. ASSUME NEW f, Rec(f, m) PROVE SupportsKept(f[m])
  <2> DEFINE C == {a \in 0 .. m : ~ SupportsKept(f[a])}
  <2>1. ASSUME C # {} PROVE FALSE
    <3>1. PICK a \in C : \A j \in C : ~ (<<j, a>> \in OpToRel(<, Nat))
      <4>1. C \subseteq Nat
        OBVIOUS
      <4> HIDE DEF C
      <4>2. QED
        BY <2>1, <4>1, NatLessThanWellFounded, WFMin, Zenon
    <3>2. a \in 0 .. m /\ f[a] = IF a = 0 THEN w0 ELSE Step(a, f[a - 1])
      BY <1>5
    <3>3. a # 0
      BY <1>2, <3>2
    <3>4. a - 1 \in 0 .. m /\ a - 1 < a /\ a - 1 \in Nat /\ a \in Nat
      BY <3>2, <3>3
    <3>5. SupportsKept(f[a - 1])
      BY <3>1, <3>4, Zenon DEF OpToRel
    <3>6. SupportsKept(f[a])
      BY <1>3, <3>2, <3>3, <3>5
    <3>7. QED
      BY <3>6
  <2>2. m \in 0 .. m
    OBVIOUS
  <2>3. QED
    BY <2>1, <2>2
<1>6. \E f : Rec(f, m)
  BY <1>4
<1> HIDE DEF Rec
<1>7. QED
  BY <1>1, <1>5, <1>6

\* The forward substitution comes to an end, and changes unknown displacements only.
LEMMA ForwardKeeps ==
    ASSUME NEW m \in Nat, m <= nFreeDOF, nFreeDOF \in Nat, nTotalDOF \in Nat,
           NEW w0, SupportsKept(w0)
    PROVE  /\ \E f : Forward(w0, f, m)
           /\ \A f : Forward(w0, f, m) => SupportsKept(f[m])
<1> DEFINE Step(a, w) == IF w.ok THEN Substitute(w, a - 1) ELSE w
           Rec(f, n) == f = [a \in 0 .. n |-> IF a = 0 THEN w0 ELSE Step(a, f[a - 1])]
           B == {n \in Nat : ~ \E f : Rec(f, n)}
<1>1. \A f, n : Forward(w0, f, n) <=> Rec(f, n)
  BY DEF Forward
<1>2. \A a \in 1 .. m : \A w : SupportsKept(w) => SupportsKept(Step(a, w))
  <2>1. \A a \in 1 .. m : a - 1 \in 0 .. nFreeDOF - 1
    OBVIOUS
  <2>2. QED
    BY <2>1, SubstituteKeeps
<1> HIDE DEF Step
<1>3. ASSUME B # {} PROVE FALSE
  <2>1. PICK n \in B : \A j \in B : ~ (<<j, n>> \in OpToRel(<, Nat))
    <3>1. B \subseteq Nat
      OBVIOUS
    <3> HIDE DEF B
    <3>2. QED
      BY <1>3, <3>1, NatLessThanWellFounded, WFMin, Zenon
  <2>2. n # 0
    <3> DEFINE f == [a \in 0 .. 0 |-> w0]
    <3>1. \A a \in 0 .. 0 : f[a] = IF a = 0 THEN w0 ELSE Step(a, f[a - 1])
      OBVIOUS
    <3>2. f = [a \in 0 .. 0 |-> f[a]]
      OBVIOUS
    <3> HIDE DEF f
    <3>3. Rec(f, 0)
      BY <3>1, <3>2, Zenon
    <3>4. QED
      BY <3>3, Zenon
  <2>3. n \in Nat /\ n - 1 \in Nat /\ n - 1 < n
    BY <2>2
  <2>4. n - 1 \notin B
    BY <2>1, <2>3, Zenon DEF OpToRel
  <2>5. PICK f : Rec(f, n - 1)
    BY <2>3, <2>4
  <2>6. \A a \in 0 .. n - 1 : f[a] = IF a = 0 THEN w0 ELSE Step(a, f[a - 1])
    BY <2>5
  <2> DEFINE g == [a \in 0 .. n |-> IF a = n THEN Step(n, f[n - 1]) ELSE f[a]]
  <2>7. ASSUME NEW a \in 0 .. n
        PROVE  g[a] = IF a = 0 THEN w0 ELSE Step(a, g[a - 1])
    <3>1. CASE a = 0
      <4>1. 0 \in 0 .. n - 1 /\ 0 # n /\ 0 \in 0 .. n
        BY <2>3
      <4>2. QED
        BY <2>6, <3>1, <4>1
    <3>2. CASE a # 0
      <4>1. a - 1 \in 0 .. n /\ a - 1 # n /\ a \in Nat
        BY <2>3, <3>2
      <4>2. g[a - 1] = f[a - 1]
        BY <4>1
      <4>3. CASE a = n
        BY <3>2, <4>2, <4>3
      <4>4. CASE a # n
        <5>1. a \in 0 .. n - 1
          BY <2>3, <4>4
        <5>2. g[a] = f[a]
          BY <4>4
        <5>3. QED
          BY <2>6, <3>2, <4>2, <5>1, <5>2
      <4>5. QED
        BY <4>3, <4>4
    <3>3. QED
      BY <3>1, <3>2
  <2>8. g = [a \in 0 .. n |-> g[a]]
    OBVIOUS
  <2> HIDE DEF g
  <2>9. Rec(g, n)
    BY <2>7, <2>8, Zenon
  <2>10. QED
    BY <2>9
<1>4. ASSUME NEW f, Rec(f, m) PROVE SupportsKept(f[m])
  <2> DEFINE C == {a \in 0 .. m : ~ SupportsKept(f[a])}
  <2>1. ASSUME C # {} PROVE FALSE
    <3>1. PICK a \in C : \A j \in C : ~ (<<j, a>> \in OpToRel(<, Nat))
      <4>1. C \subseteq Nat
        OBVIOUS
      <4> HIDE DEF C
      <4>2. QED
        BY <2>1, <4>1, NatLessThanWellFounded, WFMin, Zenon
    <3>2. a \in 0 .. m /\ f[a] = IF a = 0 THEN w0 ELSE Step(a, f[a - 1])
      BY <1>4
    <3>3. a # 0
      BY <3>2
    <3>4. a - 1 \in 0 .. m /\ a - 1 < a /\ a - 1 \in Nat /\ a \in 1 .. m /\ a \in Nat
      BY <3>2, <3>3
    <3>5. SupportsKept(f[a - 1])
      <4>1. a - 1 \notin C
        BY <3>1, <3>4, Zenon DEF OpToRel
      <4>2. QED
        BY <3>4, <4>1
    <3>6. SupportsKept(f[a])
      BY <1>2, <3>2, <3>3, <3>4, <3>5
    <3>7. QED
      BY <3>6
  <2>2. m \in 0 .. m
    OBVIOUS
  <2>3. QED
    BY <2>1, <2>2
<1>5. \E f : Rec(f, m)
  BY <1>3, Zenon
<1> HIDE DEF Rec
<1>6. QED
  BY <1>1, <1>4, <1>5

\* The back substitution, from row nFreeDOF - 1 down, does so too.
LEMMA BackwardKeeps ==
    ASSUME NEW m \in 0 .. nFreeDOF - 1, nFreeDOF \in Nat, nTotalDOF \in Nat,
           NEW w0, SupportsKept(w0)
    PROVE  /\ \E f : Backward(w0, f, m)
           /\ \A f : Backward(w0, f, m) => SupportsKept(f[nFreeDOF - 1 - m])
<1> DEFINE t == nFreeDOF - 1
           Step(i, w) == IF w.ok THEN BackSubstitute(w, i) ELSE w
           Rec(f, n) == f = [i \in t - n .. t |-> IF i = t THEN w0 ELSE Step(i, f[i + 1])]
           B == {n \in 0 .. t : ~ \E f : Rec(f, n)}
<1>1. \A f, n : Backward(w0, f, n) <=> Rec(f, n)
  BY DEF Backward
<1>2. \A i \in 0 .. t : \A w : SupportsKept(w) => SupportsKept(Step(i, w))
  BY SubstituteKeeps
<1> HIDE DEF Step
<1>3. t \in Nat /\ m \in 0 .. t
  OBVIOUS
<1>4. ASSUME NEW f, NEW n \in 0 .. t, Rec(f, n)
      PROVE  \A i \in t - n .. t : f[i] = IF i = t THEN w0 ELSE Step(i, f[i + 1])
  <2> HIDE DEF t
  <2>1. QED
    BY <1>4, Zenon
<1> HIDE DEF t
<1>5. ASSUME B # {} PROVE FALSE
  <2>1. PICK n \in B : \A j \in B : ~ (<<j, n>> \in OpToRel(<, Nat))
    <3>1. B \subseteq Nat
      OBVIOUS
    <3> HIDE DEF B
    <3>2. QED
      BY <1>5, <3>1, NatLessThanWellFounded, WFMin, Zenon
  <2>2. n # 0
    <3> DEFINE f == [i \in t - 0 .. t |-> w0]
    <3>1. \A i \in t - 0 .. t : f[i] = IF i = t THEN w0 ELSE Step(i, f[i + 1])
      <4>1. \A i \in t - 0 .. t : i = t
        BY <1>3
      <4>2. QED
        BY <4>1
    <3>2. f = [i \in t - 0 .. t |-> f[i]]
      OBVIOUS
    <3> HIDE DEF f
    <3>3. Rec(f, 0)
      BY <3>1, <3>2, Zenon
    <3>4. QED
      BY <3>3, Zenon
  <2>3. n \in 0 .. t /\ n - 1 \in 0 .. t /\ n - 1 \in Nat /\ n \in Nat /\ n - 1 < n
    BY <1>3, <2>2
  <2>4. n - 1 \notin B
    BY <2>1, <2>3, Zenon DEF OpToRel
  <2>5. PICK f : Rec(f, n - 1)
    BY <2>3, <2>4
  <2>6. \A i \in t - (n - 1) .. t : f[i] = IF i = t THEN w0 ELSE Step(i, f[i + 1])
    BY <1>4, <2>3, <2>5, Zenon
  <2> DEFINE g == [i \in t - n .. t |-> IF i = t - n THEN Step(i, f[i + 1]) ELSE f[i]]
  <2>7. ASSUME NEW i \in t - n .. t
        PROVE  g[i] = IF i = t THEN w0 ELSE Step(i, g[i + 1])
    <3>1. i \in Int
      BY <1>3, <2>3
    <3>2. CASE i = t
      <4>1. t \in t - (n - 1) .. t /\ t # t - n /\ t \in t - n .. t
        BY <1>3, <2>2, <2>3
      <4>2. QED
        BY <2>6, <3>2, <4>1
    <3>3. CASE i # t
      <4>1. i + 1 \in t - n .. t /\ i + 1 # t - n
        BY <1>3, <2>3, <3>1, <3>3
      <4>2. g[i + 1] = f[i + 1]
        BY <4>1
      <4>3. CASE i = t - n
        BY <3>3, <4>2, <4>3
      <4>4. CASE i # t - n
        <5>1. i \in t - (n - 1) .. t
          BY <1>3, <2>3, <3>1, <4>4
        <5>2. g[i] = f[i]
          BY <4>4
        <5>3. QED
          BY <2>6, <3>3, <4>2, <5>1, <5>2
      <4>5. QED
        BY <4>3, <4>4
    <3>4. QED
      BY <3>2, <3>3
  <2>8. g = [i \in t - n .. t |-> g[i]]
    OBVIOUS
  <2> HIDE DEF g
  <2>9. Rec(g, n)
    BY <2>7, <2>8, Zenon
  <2>10. QED
    BY <2>3, <2>9, Zenon
<1>6. ASSUME NEW f, Rec(f, m) PROVE SupportsKept(f[t - m])
  <2> DEFINE C == {n \in 0 .. m : ~ SupportsKept(f[t - n])}
  <2>1. ASSUME C # {} PROVE FALSE
    <3>1. PICK n \in C : \A j \in C : ~ (<<j, n>> \in OpToRel(<, Nat))
      <4>1. C \subseteq Nat
        OBVIOUS
      <4> HIDE DEF C
      <4>2. QED
        BY <2>1, <4>1, NatLessThanWellFounded, WFMin, Zenon
    <3>2. \A i \in t - m .. t : f[i] = IF i = t THEN w0 ELSE Step(i, f[i + 1])
      BY <1>3, <1>4, <1>6
    <3>3. n \in 0 .. m /\ t - n \in t - m .. t /\ t - n \in 0 .. t
      BY <1>3
    <3>4. n # 0
      <4>1. t - 0 = t /\ t \in t - m .. t
        BY <1>3
      <4>2. QED
        BY <3>2, <4>1
    <3>5. n - 1 \in 0 .. m /\ n - 1 < n /\ n - 1 \in Nat /\ n \in Nat
      BY <3>3, <3>4
    <3>6. t - (n - 1) = (t - n) + 1 /\ t - n # t
      BY <1>3, <3>3, <3>4
    <3>7. SupportsKept(f[t - (n - 1)])
      BY <3>1, <3>5, Zenon DEF OpToRel
    <3>8. SupportsKept(f[t - n])
      BY <1>2, <3>2, <3>3, <3>6, <3>7
    <3>9. QED
      BY <3>8
  <2>2. m \in 0 .. m
    BY <1>3
  <2>3. QED
    BY <2>1, <2>2
<1>7. \E f : Rec(f, m)
  BY <1>3, <1>5, Zenon
<1> HIDE DEF Rec
<1>8. QED
  BY <1>1, <1>6, <1>7 DEF t

\* Backward with all its values.
BackwardAll(w0, f) ==
    f = [i \in 0 .. nFreeDOF - 1 |->
            IF i = nFreeDOF - 1 THEN w0
            ELSE LET w == f[i + 1] IN IF w.ok THEN BackSubstitute(w, i) ELSE w]

\* Whether the equations can be solved or not, the supports stay where they are.
LEMMA LDLTSolveKeeps ==
    ASSUME LDLTSolve, nFreeDOF \in Nat \ {0}, nTotalDOF \in Nat, nFreeDOF <= nTotalDOF,
           pDiag \in [0 .. nTotalDOF - 1 -> Nat], pDisp = [i \in 0 .. nTotalDOF - 1 |-> pDisp[i]]
    PROVE  /\ pDisp' = [i \in 0 .. nTotalDOF - 1 |-> pDisp'[i]]
           /\ \A i \in nFreeDOF .. nTotalDOF - 1 : pDisp'[i] = pDisp[i]
<1> DEFINE n == nFreeDOF
           fac == CHOOSE f : Factored(f, pDiag[n - 1])
           fwd == CHOOSE f : Forward(fac[pDiag[n - 1]], f, n)
           bwd == CHOOSE f : BackwardAll(fwd[n], f)
<1>1. pDisp' = bwd[0].b
  BY Zenon DEF LDLTSolve, Factored, Forward, BackwardAll, RowOf
<1>2. n - 1 \in 0 .. nTotalDOF - 1 /\ pDiag[n - 1] \in Nat
  OBVIOUS
<1>3. Factored(fac, pDiag[n - 1]) /\ SupportsKept(fac[pDiag[n - 1]])
  <2>1. \E f : Factored(f, pDiag[n - 1])
    BY <1>2, FactorKeeps
  <2>2. Factored(fac, pDiag[n - 1])
    BY <2>1, Zenon
  <2>3. QED
    BY <1>2, <2>2, FactorKeeps
<1> HIDE DEF fac
<1>4. Forward(fac[pDiag[n - 1]], fwd, n) /\ SupportsKept(fwd[n])
  <2>1. n \in Nat /\ n <= nFreeDOF
    OBVIOUS
  <2>2. \E f : Forward(fac[pDiag[n - 1]], f, n)
    BY <1>3, <2>1, ForwardKeeps
  <2>3. Forward(fac[pDiag[n - 1]], fwd, n)
    BY <2>2, Zenon
  <2>4. QED
    BY <1>3, <2>1, <2>3, ForwardKeeps
<1> HIDE DEF fwd
<1>5. SupportsKept(bwd[0])
  <2>1. n - 1 \in 0 .. nFreeDOF - 1 /\ nFreeDOF - 1 - (n - 1) = 0
    OBVIOUS
  <2>2. \A f : BackwardAll(fwd[n], f) <=> Backward(fwd[n], f, n - 1)
    BY <2>1 DEF BackwardAll, Backward
  <2>3. \E f : BackwardAll(fwd[n], f)
    BY <1>4, <2>1, <2>2, BackwardKeeps
  <2>4. BackwardAll(fwd[n], bwd)
    BY <2>3, Zenon
  <2>5. Backward(fwd[n], bwd, n - 1)
    BY <2>2, <2>4
  <2> HIDE DEF bwd
  <2>6. SupportsKept(bwd[nFreeDOF - 1 - (n - 1)])
    BY <1>4, <2>1, <2>5, BackwardKeeps
  <2>7. QED
    BY <2>1, <2>6
<1> HIDE DEF bwd
<1>6. QED
  BY <1>1, <1>5, Zenon DEF SupportsKept

\* Where the loads have been added up, a support stands where they moved it.
LEMMA LoadVectorAssemblyMoves ==
    ASSUME LoadVectorAssembly, LegalInput, P \in Nat \ {0},
           iaDOFIndex = DOFIndexes(structure), nFreeDOF = nFreeDOFs(structure),
           nTotalDOF = nTotalDOFs(structure), pDisp = VectorZeroize(0 .. nTotalDOF - 1)
    PROVE  /\ pDisp' = [i \in 0 .. nTotalDOF - 1 |-> pDisp'[i]]
           /\ \A i \in nFreeDOF .. nTotalDOF - 1 : pDisp'[i] = Movement(i)
<1> DEFINE f == CHOOSE f : AfterLoads(f, Len(loads))
           w == f[Len(loads)]
<1>1. pDisp' = [i \in DOMAIN pDisp |-> IF i < nFreeDOF THEN w.vect[i] ELSE w.disp[i]]
  BY DEF LoadVectorAssembly, AfterLoads
<1>2. LegalLoads(structure, loads) /\ Legal(structure)
  BY DEF LegalInput
<1>3. Len(loads) \in Nat /\ Len(loads) \in 0 .. Len(loads)
  BY <1>2, LoadsType
<1>4. AfterLoads(f, Len(loads))
  <2>1. \E g : AfterLoads(g, Len(loads))
    BY <1>3, AfterLoadsExist
  <2>2. QED
    BY <2>1, Zenon
<1> HIDE DEF f
<1>5. w.disp = [i \in 0 .. nTotalDOF - 1 |-> SumOver(Values, MovedBy(i, Len(loads))) % P]
  BY <1>3, <1>4, DispAfterLoads, Zenon
<1> HIDE DEF w
<1>6. nFreeDOF \in Nat /\ nTotalDOF \in Nat
  BY <1>2, IndependentNumbers
<1>7. DOMAIN pDisp = 0 .. nTotalDOF - 1
  BY DEF VectorZeroize
<1>8. ASSUME NEW i \in nFreeDOF .. nTotalDOF - 1 PROVE pDisp'[i] = Movement(i)
  <2>1. i \in 0 .. nTotalDOF - 1 /\ ~ (i < nFreeDOF)
    BY <1>6
  <2>2. pDisp'[i] = w.disp[i]
    BY <1>1, <1>7, <2>1, Zenon
  <2>3. w.disp[i] = SumOver(Values, MovedBy(i, Len(loads))) % P
    BY <1>5, <2>1
  <2>4. QED
    BY <1>2, <2>2, <2>3, MovementIsSum
<1>9. QED
  BY <1>1, <1>7, <1>8

-----------------------------------------------------------------------------
(* The steps of TestMITC between the input and the tables. *)

\* The places that pc goes through.
LEMMA StepNames ==
    {Steps[k] : k \in DOMAIN Steps} =
        {"DOFIndexCalcu", "ElementDOFCalcu", "BandAndDiagCalcu", "GKAssembly",
         "LoadVectorAssembly", "LDLTSolve", "InternalForceCalcu", "SupportReactionCalcu", "Output"}
<1>1. DOMAIN Steps = 1 .. 9
  BY DEF Steps
<1>2. /\ Steps[1] = "DOFIndexCalcu" /\ Steps[2] = "ElementDOFCalcu" /\ Steps[3] = "BandAndDiagCalcu"
      /\ Steps[4] = "GKAssembly" /\ Steps[5] = "LoadVectorAssembly" /\ Steps[6] = "LDLTSolve"
      /\ Steps[7] = "InternalForceCalcu" /\ Steps[8] = "SupportReactionCalcu" /\ Steps[9] = "Output"
  BY DEF Steps
<1>3. \A k \in 1 .. 9 : k = 1 \/ k = 2 \/ k = 3 \/ k = 4 \/ k = 5 \/ k = 6 \/ k = 7 \/ k = 8 \/ k = 9
  OBVIOUS
<1>4. 1 \in 1 .. 9 /\ 2 \in 1 .. 9 /\ 3 \in 1 .. 9 /\ 4 \in 1 .. 9 /\ 5 \in 1 .. 9 /\ 6 \in 1 .. 9
      /\ 7 \in 1 .. 9 /\ 8 \in 1 .. 9 /\ 9 \in 1 .. 9
  OBVIOUS
<1>5. QED
  BY <1>1, <1>2, <1>3, <1>4

\* The structure is legal and its degrees of freedom are numbered: the numbers' types.
LEMMA NumberedTypes ==
    ASSUME LegalInput, Numbered, pc # "DOFIndexCalcu"
    PROVE  /\ nFreeDOF \in Nat \ {0} /\ nTotalDOF \in Nat /\ nFreeDOF <= nTotalDOF
           /\ iaDOFIndex = DOFIndexes(structure)
           /\ nFreeDOF = nFreeDOFs(structure) /\ nTotalDOF = nTotalDOFs(structure)
<1>1. Legal(structure)
  BY DEF LegalInput
<1>2. QED
  BY <1>1, IndependentNumbers DEF Numbered

\* The diagonal addresses of a numbered structure.
LEMMA AddressesType ==
    ASSUME LegalInput, Numbered, pc # "DOFIndexCalcu",
           pElemDOF = [e \in Elements |-> ElementDOFs(structure.elem[e], iaDOFIndex)]
    PROVE  DiagonalAddresses(pElemDOF, nTotalDOF) \in [0 .. nTotalDOF - 1 -> Nat]
<1>1. Legal(structure)
  BY DEF LegalInput
<1>2. AreNumbers(pElemDOF)
  <2>1. ASSUME NEW e \in DOMAIN pElemDOF PROVE Range(pElemDOF[e]) \in SUBSET Nat
    <3>1. e \in DOMAIN structure.elem /\ pElemDOF[e] = ElementDOFs(structure.elem[e], iaDOFIndex)
      BY DEF Elements
    <3>2. Range(pElemDOF[e]) \in SUBSET (0 .. nTotalDOFs(structure) - 1)
      BY <1>1, <3>1, NumberedTypes, ElementDOFsAreNumbers
    <3>3. 0 .. nTotalDOFs(structure) - 1 \subseteq Nat
      OBVIOUS
    <3>4. QED
      BY <3>2, <3>3
  <2>2. QED
    BY <2>1 DEF AreNumbers
<1>3. QED
  BY <1>2, NumberedTypes, DiagonalAddressesType, Zenon

\* The stiffness of an element is made of the structure.
LEMMA StiffnessKept ==
    ASSUME UNCHANGED structure
    PROVE  \A e : GlobalStiff(e)' = GlobalStiff(e)
<1>1. \A e, axis : Delta(e, axis)' = Delta(e, axis)
  BY DEF Delta
<1>2. \A e : Length(e)' = Length(e)
  BY <1>1 DEF Length
<1>3. \A e : Cos(e)' = Cos(e) /\ Sin(e)' = Sin(e)
  BY <1>1, <1>2 DEF Cos, Sin
<1>4. \A e : IsTruss(e)' = IsTruss(e)
  BY DEF IsTruss
<1>5. \A e : Rotation(e)' = Rotation(e)
  BY <1>3, <1>4, Zenon DEF Rotation
<1>6. \A e : LocalStiff(e)' = LocalStiff(e)
  BY <1>2, <1>4 DEF LocalStiff
<1>7. QED
  BY <1>2, <1>3, <1>4, <1>5, <1>6 DEF GlobalStiff

\* What is added up at an address is made of the structure and its layout.
LEMMA AssembledKept ==
    ASSUME UNCHANGED <<structure, pElemDOF, pDiag>>
    PROVE  \A k : AssembledAt(k)' = AssembledAt(k)
<1>1. \A e : GlobalStiff(e)' = GlobalStiff(e)
  BY StiffnessKept
<1>2. \A i, j : Address(i, j)' = Address(i, j)
  BY DEF Address
<1>3. \A e : StoredEntries(e)' = StoredEntries(e)
  BY DEF StoredEntries
<1>4. Elements' = Elements
  BY DEF Elements
<1>5. QED
  BY <1>1, <1>2, <1>3, <1>4, Zenon DEF AssembledAt

\* The matrix is zero, then it is assembled.
LEMMA StoredStep ==
    ASSUME Stored, [Next]_vars
    PROVE  Stored'
<1>1. CASE BandAndDiagCalcu
  <2>1. /\ pc' = "GKAssembly" /\ pDiag' = DiagonalAddresses(pElemDOF, nTotalDOF)
        /\ nTotalDOF' = nTotalDOF
        /\ pGK' = VectorZeroize(0 .. DiagonalAddresses(pElemDOF, nTotalDOF)[nTotalDOF - 1])
    BY <1>1 DEF BandAndDiagCalcu
  <2>2. QED
    BY <2>1 DEF Stored, VectorZeroize
<1>2. CASE GKAssembly
  <2>1. /\ pc = "GKAssembly" /\ pc' = "LoadVectorAssembly"
        /\ UNCHANGED <<structure, pElemDOF, pDiag, nTotalDOF>>
        /\ pGK' = [k \in DOMAIN pGK |-> AssembledAt(k)]
    BY <1>2 DEF GKAssembly, input, layout
  <2>2. DOMAIN pGK = 0 .. pDiag[nTotalDOF - 1]
    BY <2>1 DEF Stored, VectorZeroize
  <2>3. \A k : AssembledAt(k)' = AssembledAt(k)
    BY <2>1, AssembledKept
  <2>4. QED
    BY <2>1, <2>2, <2>3 DEF Stored
<1>3. CASE UNCHANGED vars
  <2>1. UNCHANGED <<structure, pElemDOF, pDiag, nTotalDOF, pGK, pc>>
    BY <1>3 DEF vars, input, layout
  <2>2. \A k : AssembledAt(k)' = AssembledAt(k)
    BY <2>1, AssembledKept
  <2>3. QED
    BY <2>1, <2>2 DEF Stored, VectorZeroize
<1>4. CASE \/ DOFIndexCalcu \/ ElementDOFCalcu \/ LoadVectorAssembly \/ LDLTSolve
           \/ InternalForceCalcu \/ SupportReactionCalcu
  <2>1. pc' \notin {"GKAssembly", "LoadVectorAssembly"}
    BY <1>4, Zenon DEF DOFIndexCalcu, ElementDOFCalcu, LoadVectorAssembly, LDLTSolve,
                InternalForceCalcu, SupportReactionCalcu
  <2>2. QED
    BY <2>1 DEF Stored
<1>5. QED
  BY <1>1, <1>2, <1>3, <1>4 DEF Next

\* What the program keeps of a load's forces is made of the structure.
LEMMA KeptForcesKept ==
    ASSUME UNCHANGED structure
    PROVE  \A load : KeptForces(load)' = KeptForces(load)
<1>1. \A e, axis : Delta(e, axis)' = Delta(e, axis)
  BY DEF Delta
<1>2. \A e : Length(e)' = Length(e)
  BY <1>1 DEF Length
<1>3. \A load : FixedEndForces(load)' = FixedEndForces(load)
  BY <1>2, ZenonT(60) DEF FixedEndForces
<1>4. QED
  BY <1>3 DEF KeptForces

\* The places of the end forces that a load between the ends sets.
LEMMA SetForces ==
    ASSUME NEW f, NEW load,
           f = [i \in 1 .. 6 |-> IF i \in {1, 4} THEN VectorZeroize(1 .. 6)[i] ELSE KeptForces(load)[i]]
    PROVE  f = KeptForces(load)
<1> DEFINE F == FixedEndForces(load)
<1>1. KeptForces(load) = [i \in 1 .. 6 |-> IF i \in {1, 4} THEN 0 ELSE F[i] % P]
  BY DEF KeptForces
<1>2. \A i \in 1 .. 6 : VectorZeroize(1 .. 6)[i] = 0
  BY DEF VectorZeroize
<1> HIDE DEF F
<1>3. \A i \in 1 .. 6 : (IF i \in {1, 4} THEN VectorZeroize(1 .. 6)[i] ELSE KeptForces(load)[i])
                            = (IF i \in {1, 4} THEN 0 ELSE F[i] % P)
  BY <1>1, <1>2, Zenon
<1>4. f = [i \in 1 .. 6 |-> IF i \in {1, 4} THEN 0 ELSE F[i] % P]
  BY <1>3, Zenon
<1>5. QED
  BY <1>1, <1>4

\* A set of numbers has a smallest one.
LEMMA SmallestNumber ==
    ASSUME NEW S, S \subseteq Nat, S # {}
    PROVE  \E m \in S : \A j \in S : ~ (<<j, m>> \in OpToRel(<, Nat))
BY NatLessThanWellFounded, WFMin, Zenon

\* After each load the only element load on an element has set its end forces
\* if it has been handled, and nothing has if it has not.
LEMMA ForceAfterLoads ==
    ASSUME LegalInput, NEW k \in DOMAIN loads, loads[k].type \in MemberLoads,
           \A m \in DOMAIN loads \ {k} :
               loads[m].type \in MemberLoads => loads[m].elem # loads[k].elem,
           daEndInterForce = ElementEndForceInit,
           NEW f, AfterLoads(f, Len(loads)), NEW n \in 0 .. Len(loads)
    PROVE  f[n].force[loads[k].elem] =
               IF n < k THEN VectorZeroize(1 .. 6) ELSE KeptForces(loads[k])
<1> DEFINE e == loads[k].elem
           Forces(m) == IF m < k THEN VectorZeroize(1 .. 6) ELSE KeptForces(loads[k])
           Good(m) == /\ f[m] = [vect |-> f[m].vect, disp |-> f[m].disp, force |-> f[m].force]
                      /\ f[m].force = [x \in Elements |-> f[m].force[x]]
                      /\ f[m].force[e] = Forces(m)
           B == {m \in 0 .. Len(loads) : ~ Good(m)}
<1>1. LegalLoads(structure, loads) /\ Legal(structure)
  BY DEF LegalInput
<1>2. Len(loads) \in Nat /\ DOMAIN loads = 1 .. Len(loads) /\ k \in Nat
  BY <1>1, LoadsType
<1>3. e \in Elements
  BY <1>1 DEF LegalLoads, Elements, MemberLoads
<1>4. ASSUME B # {} PROVE FALSE
  <2>1. PICK m \in B : \A j \in B : ~ (<<j, m>> \in OpToRel(<, Nat))
    <3>1. B \subseteq Nat
      BY <1>2
    <3> HIDE DEF B
    <3>2. QED
      BY <1>4, <3>1, SmallestNumber, Zenon
  <2>2. m # 0
    <3>1. f[0] = [vect |-> pLoadVect, disp |-> pDisp, force |-> daEndInterForce]
      BY <1>2 DEF AfterLoads
    <3>2. f[0].force = [x \in Elements |-> VectorZeroize(1 .. 6)]
      BY <3>1 DEF ElementEndForceInit
    <3>3. 0 < k
      BY <1>2
    <3>4. Forces(0) = VectorZeroize(1 .. 6)
      BY <3>3
    <3> HIDE DEF Forces, e
    <3>5. Good(0)
      BY <1>3, <3>1, <3>2, <3>4
    <3>6. QED
      BY <3>5
  <2>3. m \in DOMAIN loads /\ m - 1 \in 0 .. Len(loads) /\ m \in 0 .. Len(loads)
        /\ m \in Nat /\ m - 1 \in Nat /\ m - 1 < m
    BY <1>2, <2>2
  <2>4. Good(m - 1)
    <3>1. m - 1 \notin B
      BY <2>1, <2>3, Zenon DEF OpToRel
    <3> HIDE DEF Good
    <3>2. QED
      BY <2>3, <3>1
  <2> DEFINE w == f[m - 1]
             load == loads[m]
  <2>5. f[m] = AddLoad(load, w)
    BY <2>2, <2>3 DEF AfterLoads
  <2>6. w = [vect |-> w.vect, disp |-> w.disp, force |-> w.force]
        /\ w.force = [x \in Elements |-> w.force[x]] /\ w.force[e] = Forces(m - 1)
    BY <2>4
  <2>7. m # k => Forces(m) = Forces(m - 1)
    BY <1>2, <2>3
  <2> HIDE DEF w
  <2>8. CASE load.type \in {"SUPPORT_MOVE", "FORCE_ON_NODE"}
    <3>1. m # k
      BY <2>8 DEF MemberLoads
    <3>2. f[m] = [vect |-> f[m].vect, disp |-> f[m].disp, force |-> w.force]
      <4>1. CASE load.type = "SUPPORT_MOVE"
        <5> DEFINE d == [w.disp EXCEPT ![iaDOFIndex[load.at]] = (@ + load.value) % P]
        <5>1. f[m] = [w EXCEPT !.disp = d, !.vect = LoadVectorModify(w.vect, d)]
          BY <2>5, <4>1 DEF AddLoad
        <5> HIDE DEF d
        <5>2. QED
          BY <2>6, <5>1, Zenon
      <4>2. CASE load.type = "FORCE_ON_NODE"
        <5>1. f[m] = [w EXCEPT !.vect[iaDOFIndex[load.at]] = (@ + load.value) % P]
          BY <2>5, <4>2 DEF AddLoad
        <5>2. QED
          BY <2>6, <5>1
      <4>3. QED
        BY <2>8, <4>1, <4>2
    <3> HIDE DEF Forces, e, load
    <3>3. f[m].force = w.force
      BY <3>2
    <3>4. Good(m)
      BY <2>6, <2>7, <3>1, <3>2, <3>3, Zenon
    <3>5. QED
      BY <3>4
  <2>9. CASE load.type \notin {"SUPPORT_MOVE", "FORCE_ON_NODE"}
    <3> DEFINE g == [i \in 1 .. 6 |-> IF i \in {1, 4} THEN w.force[load.elem][i] ELSE KeptForces(load)[i]]
    <3>1. load.type \in MemberLoads /\ load.elem \in Elements
      BY <1>1, <2>3, <2>9 DEF LegalLoads, Elements
    <3> DEFINE v == [i \in DOMAIN w.vect |->
                       (w.vect[i] + Total([q \in {q \in 1 .. 6 : pElemDOF[load.elem][q] = i} |->
                                              ClampForces(load)[q]])) % P]
    <3>2. f[m] = [w EXCEPT !.vect = v, !.force[load.elem] =
                      [i \in 1 .. 6 |-> IF i \in {1, 4} THEN @[i] ELSE KeptForces(load)[i]]]
      <4>1. load.type # "SUPPORT_MOVE" /\ load.type # "FORCE_ON_NODE"
        BY <2>9
      <4>2. QED
        BY <2>5, <4>1, Zenon DEF AddLoad
    <3> HIDE DEF v
    <3>3. f[m] = [vect |-> v, disp |-> w.disp, force |-> [w.force EXCEPT ![load.elem] = g]]
      BY <2>6, <3>2, Zenon
    <3> HIDE DEF g
    <3>4. f[m].force = [x \in Elements |-> IF x = load.elem THEN g ELSE w.force[x]]
      <4>1. PICK h : h = w.force
        OBVIOUS
      <4>2. h = [x \in Elements |-> h[x]]
        BY <2>6, <4>1, Zenon
      <4>3. [h EXCEPT ![load.elem] = g] = [x \in Elements |-> IF x = load.elem THEN g ELSE h[x]]
        <5> HIDE DEF load, e, Forces
        <5>1. QED
          BY <4>2
      <4>4. f[m].force = [w.force EXCEPT ![load.elem] = g]
        BY <3>3
      <4>5. QED
        BY <4>1, <4>3, <4>4, Zenon
    <3>5. f[m].force[e] = Forces(m)
      <4>1. CASE m = k
        <5>1. Forces(m - 1) = VectorZeroize(1 .. 6) /\ Forces(m) = KeptForces(load)
          BY <1>2, <2>3, <4>1
        <5>2. load.elem = e
          BY <4>1
        <5> HIDE DEF Forces, e, load
        <5>3. g = [i \in 1 .. 6 |-> IF i \in {1, 4} THEN VectorZeroize(1 .. 6)[i] ELSE KeptForces(load)[i]]
          BY <2>6, <5>1, <5>2 DEF g
        <5>4. g = KeptForces(load)
          BY <5>3, SetForces, Zenon
        <5>5. QED
          BY <1>3, <3>4, <5>1, <5>2, <5>4
      <4>2. CASE m # k
        <5>1. load.elem # e
          BY <2>3, <3>1, <4>2
        <5> HIDE DEF Forces, e, load
        <5>2. QED
          BY <1>3, <2>6, <2>7, <3>4, <4>2, <5>1
      <4>3. QED
        BY <4>1, <4>2
    <3> HIDE DEF Forces, e, load
    <3>6. f[m] = [vect |-> f[m].vect, disp |-> f[m].disp, force |-> f[m].force]
      BY <3>3
    <3>7. f[m].force = [x \in Elements |-> f[m].force[x]]
      BY <3>4
    <3>8. Good(m)
      BY <3>5, <3>6, <3>7
    <3>9. QED
      BY <3>8
  <2>10. QED
    BY <2>8, <2>9
<1>5. Good(n)
  <2> HIDE DEF Good
  <2>1. QED
    BY <1>4
<1>6. QED
  BY <1>5

\* The end forces are zero until the loads are handled, and then an element with
\* one load holds what has been kept of that load's forces.
LEMMA ClampedStep ==
    ASSUME IInv, [Next]_vars
    PROVE  Clamped'
<1>1. CASE BandAndDiagCalcu
  <2>1. pc' = "GKAssembly" /\ daEndInterForce' = ElementEndForceInit /\ UNCHANGED structure
    BY <1>1 DEF BandAndDiagCalcu, input
  <2>2. ElementEndForceInit' = ElementEndForceInit
    BY <2>1 DEF ElementEndForceInit, Elements, VectorZeroize
  <2>3. QED
    BY <2>1, <2>2 DEF Clamped, OnlyLoad
<1>2. CASE GKAssembly
  <2>1. /\ pc = "GKAssembly" /\ pc' = "LoadVectorAssembly"
        /\ UNCHANGED <<structure, daEndInterForce>>
    BY <1>2 DEF GKAssembly, input
  <2>2. ElementEndForceInit' = ElementEndForceInit
    BY <2>1 DEF ElementEndForceInit, Elements, VectorZeroize
  <2>3. QED
    BY <2>1, <2>2 DEF Clamped, OnlyLoad, IInv
<1>3. CASE LoadVectorAssembly
  <2>1. /\ pc = "LoadVectorAssembly" /\ pc' = "LDLTSolve" /\ UNCHANGED <<structure, loads>>
    BY <1>3 DEF LoadVectorAssembly, input
  <2>2. LegalInput /\ daEndInterForce = ElementEndForceInit
    BY <2>1 DEF IInv, Clamped
  <2>3. \A load : KeptForces(load)' = KeptForces(load)
    BY <2>1, KeptForcesKept
  <2>4. Len(loads) \in Nat /\ DOMAIN loads = 1 .. Len(loads)
    BY <2>2, LoadsType DEF LegalInput
  <2>5. PICK f : AfterLoads(f, Len(loads)) /\ daEndInterForce' = f[Len(loads)].force
    <3> DEFINE f == CHOOSE f : AfterLoads(f, Len(loads))
    <3>1. daEndInterForce' = f[Len(loads)].force
      BY <1>3 DEF LoadVectorAssembly, AfterLoads
    <3>2. AfterLoads(f, Len(loads))
      <4>1. \E g : AfterLoads(g, Len(loads))
        BY <2>4, AfterLoadsExist
      <4>2. QED
        BY <4>1, Zenon
    <3> HIDE DEF f
    <3>3. QED
      BY <3>1, <3>2
  <2>6. ASSUME NEW k \in DOMAIN loads, OnlyLoad(k)'
        PROVE  daEndInterForce'[loads[k].elem] = KeptForces(loads[k])
    <3>1. /\ loads[k].type \in MemberLoads
          /\ \A m \in DOMAIN loads \ {k} :
                 loads[m].type \in MemberLoads => loads[m].elem # loads[k].elem
      BY <2>1, <2>6 DEF OnlyLoad
    <3>2. Len(loads) \in 0 .. Len(loads) /\ ~ (Len(loads) < k)
      BY <2>4
    <3>3. f[Len(loads)].force[loads[k].elem] =
              IF Len(loads) < k THEN VectorZeroize(1 .. 6) ELSE KeptForces(loads[k])
      BY <2>2, <2>5, <3>1, <3>2, ForceAfterLoads
    <3>4. QED
      BY <2>5, <3>2, <3>3
  <2>7. QED
    BY <2>1, <2>3, <2>6 DEF Clamped
<1>4. CASE UNCHANGED vars
  <2>1. UNCHANGED <<structure, loads, daEndInterForce, pc>>
    BY <1>4 DEF vars, input
  <2>2. ElementEndForceInit' = ElementEndForceInit
    BY <2>1 DEF ElementEndForceInit, Elements, VectorZeroize
  <2>3. \A load : KeptForces(load)' = KeptForces(load)
    BY <2>1, KeptForcesKept
  <2>4. \A k : OnlyLoad(k)' = OnlyLoad(k)
    BY <2>1 DEF OnlyLoad
  <2>5. QED
    BY <2>1, <2>2, <2>3, <2>4 DEF Clamped, IInv
<1>5. CASE \/ DOFIndexCalcu \/ ElementDOFCalcu \/ LDLTSolve
           \/ InternalForceCalcu \/ SupportReactionCalcu
  <2>1. pc' \in {"ElementDOFCalcu", "BandAndDiagCalcu", "InternalForceCalcu",
                  "SupportReactionCalcu", "Output"}
    <3>1. CASE DOFIndexCalcu
      BY <3>1, Zenon DEF DOFIndexCalcu
    <3>2. CASE ElementDOFCalcu
      BY <3>2, Zenon DEF ElementDOFCalcu
    <3>3. CASE LDLTSolve
      BY <3>3, Zenon DEF LDLTSolve
    <3>4. CASE InternalForceCalcu \/ SupportReactionCalcu
      BY <3>4, Zenon DEF InternalForceCalcu, SupportReactionCalcu
    <3>5. QED
      BY <1>5, <3>1, <3>2, <3>3, <3>4
  <2>2. QED
    BY <2>1 DEF Clamped, OnlyLoad
<1>6. QED
  BY <1>1, <1>2, <1>3, <1>4, <1>5 DEF Next

\* The inductive invariant of the computation.
LEMMA IInvStep ==
    ASSUME IInv, [Next]_vars
    PROVE  IInv'
<1> DEFINE Names == {"DOFIndexCalcu", "ElementDOFCalcu", "BandAndDiagCalcu", "GKAssembly",
                     "LoadVectorAssembly", "LDLTSolve", "InternalForceCalcu",
                     "SupportReactionCalcu", "Output"}
           Places == pc \in {Steps[k] : k \in DOMAIN Steps}
<1>1. P \in Nat \ {0}
  BY InputAssumption
<1>2. LegalInput /\ Numbered /\ LaidOut /\ Displaced /\ pc \in Names
  BY StepNames DEF IInv
<1>3. ASSUME LegalInput', Numbered', LaidOut', Displaced', pc' \in Names PROVE IInv'
  <2>1. Stored'
    BY StoredStep DEF IInv
  <2>2. Clamped'
    BY ClampedStep DEF IInv
  <2>3. QED
    BY <1>3, <2>1, <2>2, StepNames DEF IInv
<1>4. ASSUME UNCHANGED <<structure, loads>> PROVE LegalInput'
  BY <1>2, <1>4 DEF LegalInput
<1>5. ASSUME UNCHANGED <<loads, iaDOFIndex>> PROVE \A i : Movement(i)' = Movement(i)
  BY <1>5 DEF Movement, OnNumber
<1>6. CASE DOFIndexCalcu
  <2>1. UNCHANGED <<structure, loads>> /\ pc' = "ElementDOFCalcu"
    BY <1>6 DEF DOFIndexCalcu, input
  <2>2. Numbered'
    BY <1>6, <2>1 DEF DOFIndexCalcu, Numbered
  <2>3. LaidOut' /\ Displaced'
    BY <2>1 DEF LaidOut, Displaced
  <2>4. QED
    BY <1>3, <1>4, <2>1, <2>2, <2>3
<1>7. CASE ElementDOFCalcu
  <2>1. /\ UNCHANGED <<structure, loads, iaDOFIndex, nFreeDOF, nTotalDOF>>
        /\ pc = "ElementDOFCalcu" /\ pc' = "BandAndDiagCalcu"
    BY <1>7 DEF ElementDOFCalcu, input
  <2>2. Numbered'
    BY <1>2, <2>1 DEF Numbered
  <2>3. LaidOut'
    BY <1>7, <2>1 DEF ElementDOFCalcu, LaidOut, Elements
  <2>4. Displaced'
    BY <2>1 DEF Displaced
  <2>5. QED
    BY <1>3, <1>4, <2>1, <2>2, <2>3, <2>4
<1>8. CASE BandAndDiagCalcu
  <2>1. /\ UNCHANGED <<structure, loads, iaDOFIndex, nFreeDOF, nTotalDOF, pElemDOF>>
        /\ pc = "BandAndDiagCalcu" /\ pc' = "GKAssembly"
    BY <1>8 DEF BandAndDiagCalcu, input
  <2>2. /\ pDiag' = DiagonalAddresses(pElemDOF, nTotalDOF)
        /\ pDisp' = VectorZeroize(0 .. nTotalDOF - 1)
    BY <1>8 DEF BandAndDiagCalcu
  <2>3. Numbered'
    BY <1>2, <2>1 DEF Numbered
  <2>4. pElemDOF' = [e \in Elements' |-> ElementDOFs(structure'.elem[e], iaDOFIndex')]
    BY <1>2, <2>1 DEF LaidOut, Elements
  <2>5. pDisp' = [i \in 0 .. nTotalDOF' - 1 |-> pDisp'[i]]
    BY <2>1, <2>2 DEF VectorZeroize
  <2>6. LaidOut'
    BY <2>1, <2>2, <2>4, <2>5 DEF LaidOut
  <2>7. Displaced'
    BY <2>1, <2>2 DEF Displaced, VectorZeroize
  <2>8. QED
    BY <1>3, <1>4, <2>1, <2>3, <2>6, <2>7
<1>9. CASE GKAssembly
  <2>1. /\ UNCHANGED <<structure, loads, iaDOFIndex, nFreeDOF, nTotalDOF, pElemDOF, pDiag, pDisp>>
        /\ pc = "GKAssembly" /\ pc' = "LoadVectorAssembly"
    BY <1>9 DEF GKAssembly, input, layout
  <2>2. Numbered'
    BY <1>2, <2>1 DEF Numbered
  <2>3. LaidOut'
    BY <1>2, <2>1 DEF LaidOut, Elements
  <2>4. Displaced'
    BY <1>2, <2>1 DEF Displaced, VectorZeroize
  <2>5. QED
    BY <1>3, <1>4, <2>1, <2>2, <2>3, <2>4
<1>10. CASE LoadVectorAssembly
  <2>1. /\ UNCHANGED <<structure, loads, iaDOFIndex, nFreeDOF, nTotalDOF, pElemDOF, pDiag>>
        /\ pc = "LoadVectorAssembly" /\ pc' = "LDLTSolve"
    BY <1>10 DEF LoadVectorAssembly, input, layout
  <2>2. pDisp = VectorZeroize(0 .. nTotalDOF - 1)
    BY <1>2, <2>1 DEF Displaced
  <2>3. /\ pDisp' = [i \in 0 .. nTotalDOF - 1 |-> pDisp'[i]]
        /\ \A i \in nFreeDOF .. nTotalDOF - 1 : pDisp'[i] = Movement(i)
    <3>1. pc # "DOFIndexCalcu"
      BY <2>1
    <3>2. QED
      BY <1>1, <1>2, <1>10, <2>2, <3>1, NumberedTypes, LoadVectorAssemblyMoves
  <2>4. Numbered'
    BY <1>2, <2>1 DEF Numbered
  <2>5. LaidOut'
    BY <1>2, <2>1, <2>3 DEF LaidOut, Elements
  <2>6. Displaced'
    BY <1>5, <2>1, <2>3 DEF Displaced
  <2>7. QED
    BY <1>3, <1>4, <2>1, <2>4, <2>5, <2>6
<1>11. CASE LDLTSolve
  <2>1. /\ UNCHANGED <<structure, loads, iaDOFIndex, nFreeDOF, nTotalDOF, pElemDOF, pDiag>>
        /\ pc = "LDLTSolve" /\ pc' = "InternalForceCalcu"
    BY <1>11, Zenon DEF LDLTSolve, input, layout
  <2>2. pDiag \in [0 .. nTotalDOF - 1 -> Nat] /\ pDisp = [i \in 0 .. nTotalDOF - 1 |-> pDisp[i]]
    <3>1. /\ pc # "DOFIndexCalcu" /\ pDiag = DiagonalAddresses(pElemDOF, nTotalDOF)
          /\ pElemDOF = [e \in Elements |-> ElementDOFs(structure.elem[e], iaDOFIndex)]
          /\ pDisp = [i \in 0 .. nTotalDOF - 1 |-> pDisp[i]]
      BY <1>2, <2>1 DEF LaidOut
    <3>2. QED
      BY <1>2, <3>1, AddressesType
  <2>3. /\ pDisp' = [i \in 0 .. nTotalDOF - 1 |-> pDisp'[i]]
        /\ \A i \in nFreeDOF .. nTotalDOF - 1 : pDisp'[i] = pDisp[i]
    <3>1. pc # "DOFIndexCalcu"
      BY <2>1
    <3>2. nFreeDOF \in Nat \ {0} /\ nTotalDOF \in Nat /\ nFreeDOF <= nTotalDOF
      BY <1>2, <3>1, NumberedTypes
    <3>3. QED
      BY <1>11, <2>2, <3>2, LDLTSolveKeeps, Zenon
  <2>4. Numbered'
    BY <1>2, <2>1 DEF Numbered
  <2>5. LaidOut'
    BY <1>2, <2>1, <2>3 DEF LaidOut, Elements
  <2>6. Displaced'
    BY <1>2, <1>5, <2>1, <2>3 DEF Displaced
  <2>7. QED
    BY <1>3, <1>4, <2>1, <2>4, <2>5, <2>6
<1>12. CASE InternalForceCalcu \/ SupportReactionCalcu
  <2>1. /\ UNCHANGED <<structure, loads, iaDOFIndex, nFreeDOF, nTotalDOF, pElemDOF, pDiag, pDisp>>
        /\ pc \in {"InternalForceCalcu", "SupportReactionCalcu"}
        /\ pc' \in {"SupportReactionCalcu", "Output"}
    BY <1>12 DEF InternalForceCalcu, SupportReactionCalcu, input, layout
  <2>2. Numbered'
    BY <1>2, <2>1 DEF Numbered
  <2>3. LaidOut'
    BY <1>2, <2>1 DEF LaidOut, Elements
  <2>4. Displaced'
    BY <1>2, <1>5, <2>1 DEF Displaced
  <2>5. QED
    BY <1>3, <1>4, <2>1, <2>2, <2>3, <2>4
<1>13. CASE UNCHANGED vars
  <2>1. UNCHANGED <<structure, loads, iaDOFIndex, nFreeDOF, nTotalDOF, pElemDOF, pDiag, pDisp, pc>>
    BY <1>13 DEF vars, input, layout
  <2>2. Numbered'
    BY <1>2, <2>1 DEF Numbered
  <2>3. LaidOut'
    BY <1>2, <2>1 DEF LaidOut, Elements
  <2>4. Displaced'
    BY <1>2, <1>5, <2>1 DEF Displaced, VectorZeroize
  <2>5. QED
    BY <1>2, <1>3, <1>4, <2>1, <2>2, <2>3, <2>4
<1>14. QED
  BY <1>6, <1>7, <1>8, <1>9, <1>10, <1>11, <1>12, <1>13 DEF Next

\* The numbering is what NumberedOnce says from the first step on.
LEMMA NumberedOnceFollows ==
    ASSUME pc # "DOFIndexCalcu" => LegalInput /\ Numbered
    PROVE  NumberedOnce
<1>1. SUFFICES ASSUME Reached("ElementDOFCalcu")
               PROVE  /\ \A i \in 0 .. nTotalDOF - 1 :
                            \E d \in Free(structure) \cup Known(structure) :
                                /\ iaDOFIndex[d] = i
                                /\ \A e \in DOFs(structure) : iaDOFIndex[e] = i =>
                                       e = d \/ (e \in Coupled(structure) /\ Master(structure, e) = d)
                                /\ i < nFreeDOF <=> d \in Free(structure)
                      /\ \A d \in DOFs(structure) : iaDOFIndex[d] \in 0 .. nTotalDOF - 1
  BY DEF NumberedOnce
<1>2. pc # "DOFIndexCalcu"
  <2>1. PICK k \in DOMAIN Steps : pc = Steps[k] /\ \E n \in 1 .. k : Steps[n] = "ElementDOFCalcu"
    BY <1>1 DEF Reached
  <2>2. k # 1
    BY <2>1 DEF Steps
  <2>3. Steps[k] # "DOFIndexCalcu"
    BY <2>2 DEF Steps
  <2>4. QED
    BY <2>1, <2>3
<1>3. /\ Legal(structure) /\ iaDOFIndex = DOFIndexes(structure)
      /\ nFreeDOF = nFreeDOFs(structure) /\ nTotalDOF = nTotalDOFs(structure)
  BY <1>2 DEF LegalInput, Numbered
<1>4. ASSUME NEW i \in 0 .. nTotalDOF - 1
      PROVE  \E d \in Free(structure) \cup Known(structure) :
                /\ iaDOFIndex[d] = i
                /\ \A e \in DOFs(structure) : iaDOFIndex[e] = i =>
                       e = d \/ (e \in Coupled(structure) /\ Master(structure, e) = d)
                /\ i < nFreeDOF <=> d \in Free(structure)
  BY <1>3, NumbersAreSharedOut DEF Independent
<1>5. \A d \in DOFs(structure) : iaDOFIndex[d] \in 0 .. nTotalDOF - 1
  BY <1>3, DOFNumbers
<1>6. QED
  BY <1>4, <1>5

\* The inductive invariant of the whole program holds before its first step.
LEMMA FrameIInvInit ==
    ASSUME FrameInit
    PROVE  FrameIInv
BY DEF FrameInit, FrameIInv

\* Lists of one, two and three tables.
LEMMA ListsOfTables ==
    ASSUME NEW a, NEW b, NEW c, NEW d
    PROVE  /\ Len(<<a>>) = 1 /\ Len(<<a, b>>) = 2 /\ Len(<<a, b, c>>) = 3
           /\ Append(<<a>>, b) = <<a, b>>
           /\ Append(<<a, b>>, c) = <<a, b, c>>
           /\ Append(<<a, b, c>>, d) = <<a, b, c, d>>
<1> DEFINE S == {a, b, c, d}
<1>1. Len(<<a>>) = 1 /\ Len(<<a, b>>) = 2 /\ Len(<<a, b, c>>) = 3
  OBVIOUS
<1>2. Append(<<a>>, b) = <<a, b>>
  <2> DEFINE s == Append(<<a>>, b)
             t == <<a, b>>
  <2>1. <<a>> \in Seq(S) /\ t \in Seq(S) /\ Len(t) = 2 /\ b \in S
    OBVIOUS
  <2>2. s \in Seq(S) /\ Len(s) = 2
    BY <2>1, AppendProperties
  <2>3. \A i \in 1 .. Len(s) : s[i] = t[i]
    <3>1. s[1] = t[1] /\ s[2] = t[2]
      BY <2>1, AppendProperties
    <3> HIDE DEF s, t
    <3>2. QED
      BY <2>2, <3>1
  <2> HIDE DEF s, t
  <2>4. s = t
    BY <2>1, <2>2, <2>3, SeqEqual
  <2>5. QED
    BY <2>4 DEF s, t
<1>3. Append(<<a, b>>, c) = <<a, b, c>>
  <2> DEFINE s == Append(<<a, b>>, c)
             t == <<a, b, c>>
  <2>1. <<a, b>> \in Seq(S) /\ t \in Seq(S) /\ Len(t) = 3 /\ c \in S
    OBVIOUS
  <2>2. s \in Seq(S) /\ Len(s) = 3
    BY <2>1, AppendProperties
  <2>3. \A i \in 1 .. Len(s) : s[i] = t[i]
    <3>1. s[1] = t[1] /\ s[2] = t[2] /\ s[3] = t[3]
      BY <2>1, AppendProperties
    <3> HIDE DEF s, t
    <3>2. QED
      BY <2>2, <3>1
  <2> HIDE DEF s, t
  <2>4. s = t
    BY <2>1, <2>2, <2>3, SeqEqual
  <2>5. QED
    BY <2>4 DEF s, t
<1>4. Append(<<a, b, c>>, d) = <<a, b, c, d>>
  <2> DEFINE s == Append(<<a, b, c>>, d)
             t == <<a, b, c, d>>
  <2>1. <<a, b, c>> \in Seq(S) /\ t \in Seq(S) /\ Len(t) = 4 /\ d \in S
    OBVIOUS
  <2>2. s \in Seq(S) /\ Len(s) = 4
    BY <2>1, AppendProperties
  <2>3. \A i \in 1 .. Len(s) : s[i] = t[i]
    <3>1. s[1] = t[1] /\ s[2] = t[2] /\ s[3] = t[3] /\ s[4] = t[4]
      BY <2>1, AppendProperties
    <3> HIDE DEF s, t
    <3>2. QED
      BY <2>2, <3>1
  <2> HIDE DEF s, t
  <2>4. s = t
    BY <2>1, <2>2, <2>3, SeqEqual
  <2>5. QED
    BY <2>4 DEF s, t
<1>5. QED
  BY <1>1, <1>2, <1>3, <1>4

\* The tables are made of the structure, its numbering, the results and the
\* file.
LEMMA TablesKept ==
    ASSUME UNCHANGED <<structure, iaDOFIndex, pDisp, pLoadVect, daEndInterForce, fin0>>
    PROVE  /\ DisplacementTable' = DisplacementTable /\ EndForceTable' = EndForceTable
           /\ ReactionTable' = ReactionTable /\ EchoRows(fin0)' = EchoRows(fin0)
<1>1. DisplacementTable' = DisplacementTable
  BY DEF DisplacementTable, NodeRow
<1>2. EndForceTable' = EndForceTable
  BY DEF EndForceTable, Elements, IsTruss
<1>3. ReactionTable' = ReactionTable
  <2>1. Supports(fin0)' = Supports(fin0)
    OBVIOUS
  <2>2. QED
    BY <2>1 DEF ReactionTable, NodeRow
<1>4. EchoRows(fin0)' = EchoRows(fin0)
  OBVIOUS
<1>5. QED
  BY <1>1, <1>2, <1>3, <1>4

\* A step of the whole program keeps its inductive invariant.
LEMMA FrameIInvStep ==
    ASSUME FrameIInv, [FrameNext]_frameVars
    PROVE  FrameIInv'
<1>1. CASE OpenFiles
  <2>1. at = "open" /\ at' \in {"read", "exit"} /\ UNCHANGED <<pc, fin0, printed>>
    BY <1>1 DEF OpenFiles, vars
  <2>2. QED
    BY <2>1 DEF FrameIInv
<1>2. CASE ReadInput
  <2>1. /\ at = "read" /\ at' = "echo" /\ UNCHANGED <<pc, fin0, printed>>
        /\ structure' = StructureOf(fin0) /\ loads' = LoadsOf(fin0)
    BY <1>2 DEF ReadInput
  <2>2. pc = "DOFIndexCalcu" /\ fin0 \in Files /\ printed = <<>>
    BY <2>1 DEF FrameIInv
  <2>3. LegalInput'
    BY <2>1, <2>2, FileAssumption DEF LegalInput
  <2>4. IInv'
    <3>1. pc' = "DOFIndexCalcu"
      BY <2>1, <2>2
    <3>2. pc' \in {Steps[k] : k \in DOMAIN Steps}
      BY <3>1, StepNames
    <3>3. Numbered' /\ LaidOut' /\ Displaced' /\ Stored' /\ Clamped'
      BY <3>1 DEF Numbered, LaidOut, Displaced, Stored, Clamped, OnlyLoad
    <3>4. QED
      BY <2>3, <3>2, <3>3 DEF IInv
  <2>5. QED
    BY <2>1, <2>2, <2>4 DEF FrameIInv
<1>3. CASE EchoInput
  <2>1. /\ at = "echo" /\ at' = "compute" /\ printed' = <<EchoRows(fin0)>>
        /\ UNCHANGED <<vars, fin0>>
    BY <1>3 DEF EchoInput
  <2>2. structure = StructureOf(fin0) /\ loads = LoadsOf(fin0) /\ IInv /\ fin0 \in Files
        /\ pc = "DOFIndexCalcu"
    BY <2>1 DEF FrameIInv
  <2>3. IInv'
    BY <2>1, <2>2, IInvStep
  <2>4. UNCHANGED <<structure, loads, pc>>
    BY <2>1 DEF vars, input
  <2>5. QED
    BY <2>1, <2>2, <2>3, <2>4 DEF FrameIInv
<1>4. CASE Compute
  <2>1. /\ at = "compute" /\ Next /\ UNCHANGED <<fin0, printed>>
        /\ at' = IF pc' = "Output" THEN "print" ELSE "compute"
    BY <1>4 DEF Compute
  <2>2. /\ structure = StructureOf(fin0) /\ loads = LoadsOf(fin0) /\ IInv /\ fin0 \in Files
        /\ printed = <<EchoRows(fin0)>>
    BY <2>1 DEF FrameIInv
  <2>3. IInv'
    BY <2>1, <2>2, IInvStep
  <2>4. UNCHANGED <<structure, loads>>
    BY <2>1, Zenon DEF Next, DOFIndexCalcu, ElementDOFCalcu, BandAndDiagCalcu, GKAssembly,
                LoadVectorAssembly, LDLTSolve, InternalForceCalcu, SupportReactionCalcu, input
  <2>5. CASE pc' = "Output"
    BY <2>1, <2>2, <2>3, <2>4, <2>5 DEF FrameIInv
  <2>6. CASE pc' # "Output"
    BY <2>1, <2>2, <2>3, <2>4, <2>6 DEF FrameIInv
  <2>7. QED
    BY <2>5, <2>6
<1>5. CASE NodeDisplOutput \/ EndInternalForceOutput \/ SupportReactionOutput
  <2>1. /\ at = "print" /\ UNCHANGED <<vars, fin0>> /\ at' \in {"print", "done"}
    BY <1>5 DEF NodeDisplOutput, EndInternalForceOutput, SupportReactionOutput
  <2>2. /\ structure = StructureOf(fin0) /\ loads = LoadsOf(fin0) /\ IInv /\ fin0 \in Files
        /\ pc = "Output"
        /\ \/ printed = <<EchoRows(fin0)>>
           \/ printed = <<EchoRows(fin0), DisplacementTable>>
           \/ printed = <<EchoRows(fin0), DisplacementTable, EndForceTable>>
    BY <2>1 DEF FrameIInv
  <2>3. IInv'
    BY <2>1, <2>2, IInvStep
  <2>4. UNCHANGED <<structure, loads, pc>>
    BY <2>1 DEF vars, input
  <2>5. /\ DisplacementTable' = DisplacementTable /\ EndForceTable' = EndForceTable
        /\ ReactionTable' = ReactionTable /\ EchoRows(fin0)' = EchoRows(fin0)
    BY <2>1, TablesKept DEF vars, input, layout
  <2>6. /\ Len(<<EchoRows(fin0)>>) = 1 /\ Len(<<EchoRows(fin0), DisplacementTable>>) = 2
        /\ Len(<<EchoRows(fin0), DisplacementTable, EndForceTable>>) = 3
        /\ Append(<<EchoRows(fin0)>>, DisplacementTable) = <<EchoRows(fin0), DisplacementTable>>
        /\ Append(<<EchoRows(fin0), DisplacementTable>>, EndForceTable)
               = <<EchoRows(fin0), DisplacementTable, EndForceTable>>
        /\ Append(<<EchoRows(fin0), DisplacementTable, EndForceTable>>, ReactionTable)
               = <<EchoRows(fin0), DisplacementTable, EndForceTable, ReactionTable>>
    BY ListsOfTables
  <2>7. /\ printed = <<EchoRows(fin0)>> => Len(printed) = 1
        /\ printed = <<EchoRows(fin0), DisplacementTable>> => Len(printed) = 2
        /\ printed = <<EchoRows(fin0), DisplacementTable, EndForceTable>> => Len(printed) = 3
    BY <2>6, Zenon
  <2>8. CASE NodeDisplOutput
    <3>1. at' = "print" /\ Len(printed) = 1 /\ printed' = Append(printed, DisplacementTable)
      BY <2>1, <2>8 DEF NodeDisplOutput
    <3>2. printed = <<EchoRows(fin0)>>
      BY <2>2, <2>7, <3>1
    <3>3. printed' = <<EchoRows(fin0), DisplacementTable>>
      BY <2>6, <3>1, <3>2
    <3>4. QED
      BY <2>1, <2>2, <2>3, <2>4, <2>5, <3>1, <3>3 DEF FrameIInv
  <2>9. CASE EndInternalForceOutput
    <3>1. at' = "print" /\ Len(printed) = 2 /\ printed' = Append(printed, EndForceTable)
      BY <2>1, <2>9 DEF EndInternalForceOutput
    <3>2. printed = <<EchoRows(fin0), DisplacementTable>>
      BY <2>2, <2>7, <3>1
    <3>3. printed' = <<EchoRows(fin0), DisplacementTable, EndForceTable>>
      BY <2>6, <3>1, <3>2
    <3>4. QED
      BY <2>1, <2>2, <2>3, <2>4, <2>5, <3>1, <3>3 DEF FrameIInv
  <2>10. CASE SupportReactionOutput
    <3>1. at' = "done" /\ Len(printed) = 3 /\ printed' = Append(printed, ReactionTable)
      BY <2>10 DEF SupportReactionOutput
    <3>2. printed = <<EchoRows(fin0), DisplacementTable, EndForceTable>>
      BY <2>2, <2>7, <3>1
    <3>3. printed' = <<EchoRows(fin0), DisplacementTable, EndForceTable, ReactionTable>>
      BY <2>6, <3>1, <3>2
    <3>4. QED
      BY <2>1, <2>2, <2>3, <2>4, <2>5, <3>1, <3>3 DEF FrameIInv
  <2>11. QED
    BY <1>5, <2>8, <2>9, <2>10
<1>6. CASE UNCHANGED frameVars
  <2>1. UNCHANGED <<vars, at, fin0, printed>>
    BY <1>6 DEF frameVars
  <2>2. UNCHANGED <<structure, loads, pc>>
    BY <2>1 DEF vars, input
  <2>3. IInv => IInv'
    BY <2>1, IInvStep
  <2>4. /\ DisplacementTable' = DisplacementTable /\ EndForceTable' = EndForceTable
        /\ ReactionTable' = ReactionTable /\ EchoRows(fin0)' = EchoRows(fin0)
    BY <2>1, TablesKept DEF vars, input, layout
  <2>5. QED
    BY <2>1, <2>2, <2>3, <2>4 DEF FrameIInv
<1>7. QED
  BY <1>1, <1>2, <1>3, <1>4, <1>5, <1>6 DEF FrameNext

\* A cell of the table of displacements.
LEMMA CellIsDisplacement ==
    ASSUME LegalInput, NEW d \in DOFs(structure)
    PROVE  DisplacementTable[d[1] + 1][d[2] + 2] = pDisp[iaDOFIndex[d]]
<1>1. structure.nTotalNode \in Nat
  BY DEF LegalInput, Legal
<1>2. PICK n \in Node(structure), j \in 0 .. 2 : d = <<n, j>> /\ (structure.type[n] = "frame" \/ j # 2)
  BY DEF DOFs
<1>3. n \in Nat /\ n + 1 \in 1 .. structure.nTotalNode /\ (n + 1) - 1 = n
  BY <1>1 DEF Node
<1>4. DisplacementTable[n + 1] = NodeRow(n, pDisp)
  BY <1>3 DEF DisplacementTable
<1>5. NodeRow(n, pDisp)[j + 2] = pDisp[iaDOFIndex[<<n, j>>]]
  <2> DEFINE k == IF structure.type[n] = "truss" THEN 2 ELSE 3
             cells == [i \in 1 .. k |-> pDisp[iaDOFIndex[<<n, i - 1>>]]]
  <2>1. k \in Nat /\ j + 1 \in 1 .. k /\ (j + 1) - 1 = j
    BY <1>2
  <2>2. NodeRow(n, pDisp) = <<n>> \o cells
    BY DEF NodeRow
  <2> HIDE DEF k
  <2>3. cells \in Seq({pDisp[iaDOFIndex[<<n, i - 1>>]] : i \in 1 .. k}) /\ Len(cells) = k
    <3> DEFINE R == {pDisp[iaDOFIndex[<<n, i - 1>>]] : i \in 1 .. k}
    <3>1. cells \in [1 .. k -> R] /\ DOMAIN cells = 1 .. k
      BY Zenon
    <3> HIDE DEF cells, R
    <3>2. cells \in Seq(R) /\ Len(cells) = k
      BY <2>1, <3>1
    <3>3. QED
      BY <3>2 DEF R
  <2>4. cells[j + 1] = pDisp[iaDOFIndex[<<n, j>>]]
    BY <2>1
  <2> HIDE DEF cells
  <2>5. (<<n>> \o cells)[j + 2] = cells[j + 1]
    BY <2>1, <2>3
  <2>6. QED
    BY <2>2, <2>4, <2>5, Zenon
<1>6. QED
  BY <1>2, <1>4, <1>5

\* What moves a support is what moves its number.
LEMMA PrescribedIsMovement ==
    ASSUME LegalInput, Numbered, pc # "DOFIndexCalcu", NEW d \in Known(structure)
    PROVE  Prescribed(d) = Movement(iaDOFIndex[d])
<1>1. /\ Legal(structure) /\ LegalLoads(structure, loads) /\ iaDOFIndex = DOFIndexes(structure)
  BY DEF LegalInput, Numbered
<1>2. \A e \in Known(structure) : iaDOFIndex[e] = iaDOFIndex[d] <=> e = d
  <2>1. Known(structure) \subseteq Independent(structure)
    BY DEF Independent
  <2>2. \A e \in Known(structure) : iaDOFIndex[e] = IndependentNumber(structure, e)
    BY <1>1, <2>1, DOFNumbers
  <2>3. QED
    BY <1>1, <2>1, <2>2, IndependentNumbers
<1>3. \A k \in DOMAIN loads : loads[k].type = "SUPPORT_MOVE" => loads[k].at \in Known(structure)
  BY <1>1 DEF LegalLoads, MemberLoads
<1>4. {k \in DOMAIN loads : loads[k].type = "SUPPORT_MOVE" /\ loads[k].at = d}
          = OnNumber("SUPPORT_MOVE", iaDOFIndex[d])
  BY <1>2, <1>3 DEF OnNumber
<1>5. QED
  BY <1>4 DEF Prescribed, Movement

\* The table of displacements is as prescribed where the displacements are.
LEMMA TableIsAsPrescribed ==
    ASSUME IInv, pc = "Output", NEW d \in DOFs(structure)
    PROVE  /\ d \in Known(structure) => DisplacementTable[d[1] + 1][d[2] + 2] = Prescribed(d)
           /\ d \in Coupled(structure) =>
                  DisplacementTable[d[1] + 1][d[2] + 2]
                      = DisplacementTable[Code(structure, d) - COUPLED + 1][d[2] + 2]
<1>1. LegalInput /\ Numbered /\ Displaced
  BY DEF IInv
<1>2. pc # "DOFIndexCalcu"
  OBVIOUS
<1>3. /\ Legal(structure) /\ iaDOFIndex = DOFIndexes(structure)
      /\ nFreeDOF = nFreeDOFs(structure) /\ nTotalDOF = nTotalDOFs(structure)
      /\ nFreeDOF \in Nat /\ nTotalDOF \in Nat
  BY <1>1, <1>2, NumberedTypes DEF LegalInput
<1>4. DisplacementTable[d[1] + 1][d[2] + 2] = pDisp[iaDOFIndex[d]]
  BY <1>1, CellIsDisplacement
<1>5. CASE d \in Known(structure)
  <2>1. d \in Independent(structure) /\ d \notin Free(structure) /\ d \notin Coupled(structure)
    BY <1>3, <1>5, LegalStructure DEF Independent
  <2>2. iaDOFIndex[d] \in 0 .. nTotalDOF - 1 /\ ~ (iaDOFIndex[d] < nFreeDOF)
    BY <1>3, <2>1, IndependentNumbers, DOFNumbers
  <2>3. iaDOFIndex[d] \in nFreeDOF .. nTotalDOF - 1
    BY <1>3, <2>2
  <2>4. pDisp[iaDOFIndex[d]] = Movement(iaDOFIndex[d])
    BY <1>1, <2>3 DEF Displaced
  <2>5. Prescribed(d) = Movement(iaDOFIndex[d])
    BY <1>1, <1>2, <1>5, PrescribedIsMovement
  <2>6. QED
    BY <1>4, <2>1, <2>4, <2>5
<1>6. CASE d \in Coupled(structure)
  <2> DEFINE e == Master(structure, d)
  <2>1. /\ e \in Independent(structure) /\ e \in DOFs(structure)
        /\ iaDOFIndex[d] = iaDOFIndex[e] /\ d \notin Known(structure)
    BY <1>3, <1>6, DOFNumbers, LegalStructure DEF Independent
  <2>2. DisplacementTable[e[1] + 1][e[2] + 2] = pDisp[iaDOFIndex[e]]
    BY <1>1, <2>1, CellIsDisplacement
  <2>3. e[1] = Code(structure, d) - COUPLED /\ e[2] = d[2]
    BY DEF Master
  <2> HIDE DEF e
  <2>4. QED
    BY <1>4, <2>1, <2>2, <2>3
<1>7. CASE d \notin Known(structure) /\ d \notin Coupled(structure)
  BY <1>7
<1>8. QED
  BY <1>5, <1>6, <1>7

\* So is the table that has been printed.
LEMMA PrintedFollows ==
    ASSUME FrameIInv
    PROVE  PrintedAsPrescribed
<1>1. SUFFICES ASSUME Len(printed) >= 2, NEW d \in DOFs(structure)
               PROVE  /\ d \in Known(structure) => printed[2][d[1] + 1][d[2] + 2] = Prescribed(d)
                      /\ d \in Coupled(structure) =>
                             printed[2][d[1] + 1][d[2] + 2]
                                 = printed[2][Code(structure, d) - COUPLED + 1][d[2] + 2]
  BY DEF PrintedAsPrescribed
<1>2. \A l : l >= 2 => l # 0 /\ l # 1
  OBVIOUS
<1>3. at \in {"print", "done"}
  <2>1. Len(<<>>) = 0 /\ Len(<<EchoRows(fin0)>>) = 1
    BY ListsOfTables
  <2>2. printed # <<>> /\ printed # <<EchoRows(fin0)>>
    <3>1. (printed = <<>> => Len(printed) = 0) /\ (printed = <<EchoRows(fin0)>> => Len(printed) = 1)
      BY <2>1, Zenon
    <3>2. Len(printed) # 0 /\ Len(printed) # 1
      BY <1>1, <1>2, Zenon
    <3>3. QED
      BY <3>1, <3>2, Zenon
  <2>3. QED
    BY <2>2 DEF FrameIInv
<1>4. IInv /\ pc = "Output"
  BY <1>3 DEF FrameIInv
<1>5. printed[2] = DisplacementTable
  <2>1. \/ printed = <<EchoRows(fin0)>>
        \/ printed = <<EchoRows(fin0), DisplacementTable>>
        \/ printed = <<EchoRows(fin0), DisplacementTable, EndForceTable>>
        \/ printed = <<EchoRows(fin0), DisplacementTable, EndForceTable, ReactionTable>>
    BY <1>3 DEF FrameIInv
  <2>2. printed # <<EchoRows(fin0)>>
    <3>1. Len(<<EchoRows(fin0)>>) = 1
      BY ListsOfTables
    <3>2. printed = <<EchoRows(fin0)>> => Len(printed) = 1
      BY <3>1, Zenon
    <3>3. Len(printed) # 1
      BY <1>1, <1>2, Zenon
    <3>4. QED
      BY <3>2, <3>3, Zenon
  <2>3. QED
    BY <2>1, <2>2
<1>6. QED
  BY <1>4, <1>5, TableIsAsPrescribed

-----------------------------------------------------------------------------
(* More about sums of integers, and remainders. *)

\* What holds of the empty set, and of a set if it holds without one of its
\* members, holds of a finite set.
LEMMA FiniteSetsAllIn ==
    ASSUME NEW S, IsFiniteSet(S), NEW G, {} \in G,
           \A U \in SUBSET S : \A x \in U : U \ {x} \in G => U \in G
    PROVE  S \in G
<1> DEFINE B == {U \in SUBSET S : U \notin G}
<1>1. ASSUME B # {} PROVE FALSE
  <2>1. B \in SUBSET (SUBSET S)
    OBVIOUS
  <2>2. PICK T \in B : \A U \in SUBSET T : U # T => U \notin B
    <3> HIDE DEF B
    <3>1. QED
      BY <1>1, <2>1, SmallestSet
  <2>3. T # {}
    OBVIOUS
  <2>4. PICK x \in T : TRUE
    BY <2>3
  <2>5. T \ {x} \in SUBSET T /\ T \ {x} # T /\ T \ {x} \in SUBSET S
    BY <2>4
  <2>6. T \ {x} \in G
    BY <2>2, <2>5
  <2>7. QED
    BY <2>4, <2>6
<1>2. S \in SUBSET S
  OBVIOUS
<1>3. QED
  BY <1>1, <1>2

\* Nothing adds up to 0.
LEMMA SumOverNothing == \A f : SumOver(f, {}) = 0
BY SumOverStep, FS_EmptySet, Zenon

\* A sum of sums.
LEMMA SumAdds ==
    ASSUME NEW f, NEW g, NEW h, NEW S, IsFiniteSet(S),
           \A x \in S : f[x] \in Int /\ g[x] \in Int /\ h[x] = f[x] + g[x]
    PROVE  SumOver(h, S) = SumOver(f, S) + SumOver(g, S)
<1> DEFINE G == {U \in SUBSET S : SumOver(h, U) = SumOver(f, U) + SumOver(g, U)}
<1>1. {} \in G
  BY SumOverNothing
<1>2. ASSUME NEW U \in SUBSET S, NEW x \in U, U \ {x} \in G PROVE U \in G
  <2> DEFINE V == U \ {x}
  <2>1. IsFiniteSet(U) /\ IsFiniteSet(V) /\ V \in SUBSET S /\ x \in S
    BY FS_Subset
  <2>2. h[x] \in Int /\ f[x] \in Int /\ g[x] \in Int /\ h[x] = f[x] + g[x]
    BY <2>1
  <2>3. /\ SumOver(h, U) = h[x] + SumOver(h, V)
        /\ SumOver(f, U) = f[x] + SumOver(f, V)
        /\ SumOver(g, U) = g[x] + SumOver(g, V)
    BY <2>1, SumOverMember
  <2>4. SumOver(h, V) \in Int /\ SumOver(f, V) \in Int /\ SumOver(g, V) \in Int
    BY <2>1, SumOverType
  <2>5. SumOver(h, V) = SumOver(f, V) + SumOver(g, V)
    BY <1>2
  <2> HIDE DEF V
  <2>6. SumOver(h, U) = SumOver(f, U) + SumOver(g, U)
    BY <2>2, <2>3, <2>4, <2>5
  <2>7. QED
    BY <2>6
<1>3. S \in G
  <2>1. \A U \in SUBSET S : \A x \in U : U \ {x} \in G => U \in G
    BY <1>2
  <2> HIDE DEF G
  <2>2. QED
    BY <1>1, <2>1, FiniteSetsAllIn, Zenon
<1>4. QED
  BY <1>3

\* A factor of every term is one of the sum.
LEMMA SumScales ==
    ASSUME NEW f, NEW h, NEW c \in Int, NEW S, IsFiniteSet(S),
           \A x \in S : f[x] \in Int /\ h[x] = c * f[x]
    PROVE  SumOver(h, S) = c * SumOver(f, S)
<1> DEFINE G == {U \in SUBSET S : SumOver(h, U) = c * SumOver(f, U)}
<1>1. {} \in G
  BY SumOverNothing
<1>2. ASSUME NEW U \in SUBSET S, NEW x \in U, U \ {x} \in G PROVE U \in G
  <2> DEFINE V == U \ {x}
  <2>1. IsFiniteSet(U) /\ IsFiniteSet(V) /\ V \in SUBSET S /\ x \in S
    BY FS_Subset
  <2>2. \A y \in S : f[y] \in Int /\ h[y] \in Int
    OBVIOUS
  <2>3. SumOver(h, U) = h[x] + SumOver(h, V) /\ SumOver(f, U) = f[x] + SumOver(f, V)
    BY <2>1, <2>2, SumOverMember
  <2>4. SumOver(f, V) \in Int
    BY <2>1, <2>2, SumOverType
  <2>5. SumOver(h, V) = c * SumOver(f, V)
    BY <1>2
  <2>6. f[x] \in Int /\ h[x] = c * f[x]
    BY <2>1
  <2>7. \A a, b \in Int : c * a + c * b = c * (a + b)
    OBVIOUS
  <2> HIDE DEF V
  <2>8. SumOver(h, U) = c * SumOver(f, U)
    BY <2>3, <2>4, <2>5, <2>6, <2>7
  <2>9. QED
    BY <2>8
<1>3. S \in G
  <2>1. \A U \in SUBSET S : \A x \in U : U \ {x} \in G => U \in G
    BY <1>2
  <2> HIDE DEF G
  <2>2. QED
    BY <1>1, <2>1, FiniteSetsAllIn, Zenon
<1>4. QED
  BY <1>3

\* Two integers have the same remainder.
Same(p, a, b) == a % p = b % p

\* It is an equivalence, and a remainder is the same as what it is of.
LEMMA SameIsEquivalence ==
    ASSUME NEW p \in Nat \ {0}
    PROVE  /\ \A a \in Int : Same(p, a, a) /\ a % p \in Int /\ Same(p, a % p, a)
           /\ \A a, b \in Int : Same(p, a, b) => Same(p, b, a)
           /\ \A a, b, c \in Int : Same(p, a, b) /\ Same(p, b, c) => Same(p, a, c)
<1>1. ASSUME NEW a \in Int PROVE Same(p, a, a) /\ a % p \in Int /\ Same(p, a % p, a)
  <2>1. PICK q \in Int, r \in 0 .. p - 1 : a = p * q + r /\ a % p = r
    BY RemainderType, Zenon
  <2>2. r = p * 0 + r /\ 0 \in Int
    OBVIOUS
  <2>3. (p * 0 + r) % p = r
    BY <2>2, RemainderIsUnique
  <2>4. r % p = r
    BY <2>2, <2>3
  <2>5. (a % p) % p = a % p
    BY <2>1, <2>4
  <2>6. a % p \in Int
    BY <2>1
  <2>7. QED
    BY <2>5, <2>6 DEF Same
<1>2. \A a, b \in Int : Same(p, a, b) => Same(p, b, a)
  BY Zenon DEF Same
<1>3. \A a, b, c \in Int : Same(p, a, b) /\ Same(p, b, c) => Same(p, a, c)
  BY Zenon DEF Same
<1>4. QED
  BY <1>1, <1>2, <1>3

\* Remainders add up.
LEMMA SameAdds ==
    ASSUME NEW p \in Nat \ {0}
    PROVE  \A a, b, c, d \in Int : Same(p, a, c) /\ Same(p, b, d) => Same(p, a + b, c + d)
<1>1. ASSUME NEW a \in Int, NEW b \in Int, NEW c \in Int, Same(p, a, c)
      PROVE  Same(p, a + b, c + b)
  <2>1. ((a % p) + b) % p = (a + b) % p
    BY ReducedTerm, Zenon
  <2>2. ((c % p) + b) % p = (c + b) % p
    BY ReducedTerm, Zenon
  <2>3. a % p = c % p
    BY <1>1 DEF Same
  <2>4. (a + b) % p = (c + b) % p
    BY <2>1, <2>2, <2>3, Zenon
  <2>5. QED
    BY <2>4, Zenon DEF Same
<1>2. ASSUME NEW a \in Int, NEW b \in Int, NEW c \in Int, NEW d \in Int,
             Same(p, a, c), Same(p, b, d)
      PROVE  Same(p, a + b, c + d)
  <2>1. Same(p, a + b, c + b)
    BY <1>1, <1>2, Zenon
  <2>2. Same(p, b + c, d + c)
    BY <1>1, <1>2, Zenon
  <2>3. b + c = c + b /\ d + c = c + d
    OBVIOUS
  <2>4. a + b \in Int /\ c + b \in Int /\ c + d \in Int
    OBVIOUS
  <2>5. QED
    BY <2>1, <2>2, <2>3, <2>4, SameIsEquivalence
<1>3. QED
  BY <1>2

\* And they multiply.
LEMMA SameMultiplies ==
    ASSUME NEW p \in Nat \ {0}
    PROVE  \A a, b, c, d \in Int : Same(p, a, c) /\ Same(p, b, d) => Same(p, a * b, c * d)
<1>1. ASSUME NEW a \in Int, NEW b \in Int, NEW c \in Int, Same(p, a, c)
      PROVE  Same(p, b * a, b * c)
  <2>1. PICK q \in Int, r \in 0 .. p - 1 : a = p * q + r /\ a % p = r
    BY RemainderType, Zenon
  <2>2. PICK u \in Int : c = p * u + r
    <3>1. PICK u \in Int, s \in 0 .. p - 1 : c = p * u + s /\ c % p = s
      BY RemainderType, Zenon
    <3>2. s = r
      BY <1>1, <2>1, <3>1 DEF Same
    <3>3. QED
      BY <3>1, <3>2
  <2>3. PICK v \in Int, s \in 0 .. p - 1 : b * c = p * v + s /\ (b * c) % p = s
    <3>1. b * c \in Int
      OBVIOUS
    <3>2. QED
      BY <3>1, RemainderType, Zenon
  <2>4. b * a = b * c + b * (p * q - p * u)
    <3>1. a = c + (p * q - p * u) /\ p * q \in Int /\ p * u \in Int
      BY <2>1, <2>2
    <3>2. \A x, y, z \in Int : x * (y + z) = x * y + x * z
      OBVIOUS
    <3>3. QED
      BY <3>1, <3>2
  <2>5. b * (p * q - p * u) = p * (b * (q - u))
    OBVIOUS
  <2>6. b * a = p * (v + b * (q - u)) + s
    <3>1. \A x, y \in Int : p * x + p * y = p * (x + y)
      OBVIOUS
    <3>2. b * (q - u) \in Int
      OBVIOUS
    <3>3. p * v + p * (b * (q - u)) = p * (v + b * (q - u))
      BY <3>1, <3>2
    <3>4. p * v \in Int /\ p * (b * (q - u)) \in Int
      BY <3>2
    <3>5. \A x, y \in Int : x + s + y = x + y + s
      OBVIOUS
    <3>6. QED
      BY <2>3, <2>4, <2>5, <3>3, <3>4, <3>5
  <2>7. v + b * (q - u) \in Int
    OBVIOUS
  <2>8. (p * (v + b * (q - u)) + s) % p = s
    BY <2>7, RemainderIsUnique
  <2>9. (b * a) % p = (b * c) % p
    BY <2>3, <2>6, <2>8, Zenon
  <2>10. QED
    BY <2>9, Zenon DEF Same
<1>2. ASSUME NEW a \in Int, NEW b \in Int, NEW c \in Int, NEW d \in Int,
             Same(p, a, c), Same(p, b, d)
      PROVE  Same(p, a * b, c * d)
  <2>1. Same(p, b * a, b * c)
    BY <1>1, <1>2, Zenon
  <2>2. Same(p, c * b, c * d)
    BY <1>1, <1>2, Zenon
  <2>3. b * a = a * b /\ b * c = c * b
    OBVIOUS
  <2>4. a * b \in Int /\ c * b \in Int /\ c * d \in Int
    OBVIOUS
  <2>5. QED
    BY <2>1, <2>2, <2>3, <2>4, SameIsEquivalence
<1>3. QED
  BY <1>2

\* Terms with the same remainders have sums with the same remainder.
LEMMA SumReduces ==
    ASSUME NEW f, NEW g, NEW p \in Nat \ {0}, NEW S, IsFiniteSet(S),
           \A x \in S : f[x] \in Int /\ g[x] \in Int /\ Same(p, f[x], g[x])
    PROVE  Same(p, SumOver(f, S), SumOver(g, S))
<1> DEFINE G == {U \in SUBSET S : Same(p, SumOver(f, U), SumOver(g, U))}
<1>1. {} \in G
  BY SumOverNothing, SameIsEquivalence
<1>2. ASSUME NEW U \in SUBSET S, NEW x \in U, U \ {x} \in G PROVE U \in G
  <2> DEFINE V == U \ {x}
  <2>1. IsFiniteSet(U) /\ IsFiniteSet(V) /\ V \in SUBSET S /\ x \in S
    BY FS_Subset
  <2>2. /\ SumOver(f, U) = f[x] + SumOver(f, V)
        /\ SumOver(g, U) = g[x] + SumOver(g, V)
    BY <2>1, SumOverMember
  <2>3. SumOver(f, V) \in Int /\ SumOver(g, V) \in Int
    BY <2>1, SumOverType
  <2>4. Same(p, SumOver(f, V), SumOver(g, V))
    BY <1>2
  <2>5. f[x] \in Int /\ g[x] \in Int /\ Same(p, f[x], g[x])
    BY <2>1
  <2> HIDE DEF V
  <2>6. Same(p, SumOver(f, U), SumOver(g, U))
    BY <2>2, <2>3, <2>4, <2>5, SameAdds, Zenon
  <2>7. QED
    BY <2>6
<1>3. S \in G
  <2>1. \A U \in SUBSET S : \A x \in U : U \ {x} \in G => U \in G
    BY <1>2
  <2> HIDE DEF G
  <2>2. QED
    BY <1>1, <2>1, FiniteSetsAllIn, Zenon
<1>4. QED
  BY <1>3

\* The parts of a set add up to it.
LEMMA SumOfParts ==
    ASSUME NEW f, NEW S, NEW T, IsFiniteSet(S), IsFiniteSet(T), S \cap T = {},
           \A x \in S \cup T : f[x] \in Int
    PROVE  SumOver(f, S \cup T) = SumOver(f, S) + SumOver(f, T)
<1> DEFINE G == {U \in SUBSET S : SumOver(f, U \cup T) = SumOver(f, U) + SumOver(f, T)}
<1>1. {} \in G
  <2>1. SumOver(f, T) \in Int
    BY SumOverType
  <2>2. {} \cup T = T
    OBVIOUS
  <2>3. SumOver(f, {} \cup T) = SumOver(f, {}) + SumOver(f, T)
    BY <2>1, <2>2, SumOverNothing
  <2>4. QED
    BY <2>3
<1>2. ASSUME NEW U \in SUBSET S, NEW x \in U, U \ {x} \in G PROVE U \in G
  <2> DEFINE V == U \ {x}
  <2>1. IsFiniteSet(U) /\ IsFiniteSet(V) /\ V \in SUBSET S /\ x \in S
    BY FS_Subset
  <2>2. IsFiniteSet(U \cup T) /\ (U \cup T) \ {x} = V \cup T
    BY <2>1, FS_Union, Zenon
  <2>3. \A y \in U \cup T : f[y] \in Int
    BY <2>1
  <2>4. SumOver(f, U \cup T) = f[x] + SumOver(f, V \cup T)
    BY <2>2, <2>3, SumOverMember
  <2>5. SumOver(f, U) = f[x] + SumOver(f, V)
    BY <2>1, <2>3, SumOverMember
  <2>6. SumOver(f, V) \in Int /\ SumOver(f, T) \in Int /\ f[x] \in Int
    BY <2>1, <2>3, SumOverType
  <2>7. SumOver(f, V \cup T) = SumOver(f, V) + SumOver(f, T)
    BY <1>2
  <2> HIDE DEF V
  <2>8. SumOver(f, U \cup T) = SumOver(f, U) + SumOver(f, T)
    BY <2>4, <2>5, <2>6, <2>7
  <2>9. QED
    BY <2>8
<1>3. S \in G
  <2>1. \A U \in SUBSET S : \A x \in U : U \ {x} \in G => U \in G
    BY <1>2
  <2> HIDE DEF G
  <2>2. QED
    BY <1>1, <2>1, FiniteSetsAllIn, Zenon
<1>4. QED
  BY <1>3

\* Terms that are 0 can be left out.
LEMMA SumOfSome ==
    ASSUME NEW f, NEW S, IsFiniteSet(S), NEW T \in SUBSET S,
           \A x \in T : f[x] \in Int, \A x \in S \ T : f[x] = 0
    PROVE  SumOver(f, S) = SumOver(f, T)
<1>1. IsFiniteSet(T) /\ IsFiniteSet(S \ T) /\ T \cup (S \ T) = S /\ T \cap (S \ T) = {}
  BY FS_Subset
<1>2. \A x \in S : f[x] \in Int
  OBVIOUS
<1>3. SumOver(f, S) = SumOver(f, T) + SumOver(f, S \ T)
  BY <1>1, <1>2, SumOfParts
<1>4. SumOver(f, S \ T) = 0
  <2> DEFINE zero == [x \in S |-> 0]
             G == {U \in SUBSET (S \ T) : SumOver(f, U) = 0}
  <2>1. {} \in G
    BY SumOverNothing
  <2>2. ASSUME NEW U \in SUBSET (S \ T), NEW x \in U, U \ {x} \in G PROVE U \in G
    <3>1. IsFiniteSet(U) /\ \A y \in U : f[y] \in Int
      BY <1>1, FS_Subset
    <3>2. SumOver(f, U) = f[x] + SumOver(f, U \ {x})
      BY <3>1, SumOverMember
    <3>3. f[x] = 0 /\ SumOver(f, U \ {x}) = 0
      BY <2>2
    <3>4. SumOver(f, U) = 0
      BY <3>2, <3>3
    <3>5. QED
      BY <3>4
  <2>3. S \ T \in G
    <3>1. \A U \in SUBSET (S \ T) : \A x \in U : U \ {x} \in G => U \in G
      BY <2>2
    <3> HIDE DEF G
    <3>2. QED
      BY <1>1, <2>1, <3>1, FiniteSetsAllIn, Zenon
  <2>4. QED
    BY <2>3
<1>5. SumOver(f, T) \in Int
  BY <1>1, SumOverType
<1>6. QED
  BY <1>3, <1>4, <1>5

\* What stands in row x of a table, and in column y.
RowSum(a, x, T) == SumOver([y \in T |-> a[<<x, y>>]], T)
ColumnSum(a, y, S) == SumOver([x \in S |-> a[<<x, y>>]], S)

\* A table can be added up row by row or column by column.
LEMMA SumSwaps ==
    ASSUME NEW a, NEW S, NEW T, IsFiniteSet(S), IsFiniteSet(T),
           \A x \in S : \A y \in T : a[<<x, y>>] \in Int
    PROVE  SumOver([x \in S |-> RowSum(a, x, T)], S) = SumOver([y \in T |-> ColumnSum(a, y, S)], T)
<1> DEFINE rows == [x \in S |-> RowSum(a, x, T)]
           col(y) == [x \in S |-> a[<<x, y>>]]
           cols(U) == [y \in T |-> SumOver(col(y), U)]
           G == {U \in SUBSET S : SumOver(rows, U) = SumOver(cols(U), T)}
<1>1. {} \in G
  <2>1. \A y \in T : cols({})[y] = 0
    BY SumOverNothing
  <2>2. SumOver(cols({}), T) = SumOver(cols({}), {})
    BY <2>1, SumOfSome, Zenon
  <2>3. SumOver(rows, {}) = SumOver(cols({}), T)
    BY <2>2, SumOverNothing
  <2>4. QED
    BY <2>3
<1>2. \A x \in S : rows[x] \in Int
  <2>1. ASSUME NEW x \in S PROVE SumOver([y \in T |-> a[<<x, y>>]], T) \in Int
    <3>1. \A y \in T : [z \in T |-> a[<<x, z>>]][y] \in Int
      OBVIOUS
    <3>2. QED
      BY <3>1, SumOverType, Zenon
  <2>2. QED
    BY <2>1 DEF RowSum
<1>3. \A y \in T : \A U \in SUBSET S : SumOver(col(y), U) \in Int
  <2>1. ASSUME NEW y \in T, NEW U \in SUBSET S PROVE SumOver(col(y), U) \in Int
    <3>1. IsFiniteSet(U) /\ \A x \in U : col(y)[x] \in Int
      BY FS_Subset
    <3> HIDE DEF col
    <3>2. QED
      BY <3>1, SumOverType
  <2>2. QED
    BY <2>1
<1>4. ASSUME NEW U \in SUBSET S, NEW x \in U, U \ {x} \in G PROVE U \in G
  <2> DEFINE V == U \ {x}
             row == [y \in T |-> a[<<x, y>>]]
  <2>1. IsFiniteSet(U) /\ V \in SUBSET S /\ x \in S
    BY FS_Subset
  <2>2. \A y \in T : SumOver(col(y), U) = row[y] + SumOver(col(y), V)
    <3>1. ASSUME NEW y \in T PROVE SumOver(col(y), U) = row[y] + SumOver(col(y), V)
      <4>1. \A z \in U : col(y)[z] \in Int
        OBVIOUS
      <4>2. col(y)[x] = row[y]
        BY <2>1
      <4> HIDE DEF col, row
      <4>3. QED
        BY <2>1, <4>1, <4>2, SumOverMember
    <3>2. QED
      BY <3>1
  <2>3. \A y \in T : row[y] \in Int
    BY <2>1
  <2>4. SumOver(cols(U), T) = SumOver(row, T) + SumOver(cols(V), T)
    <3>1. \A y \in T : row[y] \in Int /\ cols(V)[y] \in Int /\ cols(U)[y] = row[y] + cols(V)[y]
      <4> HIDE DEF row, col
      <4>1. QED
        BY <1>3, <2>1, <2>2, <2>3, Zenon
    <3>2. \A f, g, h : (\A y \in T : f[y] \in Int /\ g[y] \in Int /\ h[y] = f[y] + g[y])
                          => SumOver(h, T) = SumOver(f, T) + SumOver(g, T)
      BY SumAdds
    <3> HIDE DEF row, cols
    <3>3. QED
      BY <3>1, <3>2, Zenon
  <2>5. SumOver(row, T) = rows[x]
    BY <2>1 DEF RowSum
  <2>6. SumOver(rows, U) = rows[x] + SumOver(rows, V)
    <3>1. \A z \in U : rows[z] \in Int
      BY <1>2
    <3> HIDE DEF rows
    <3>2. QED
      BY <2>1, <3>1, SumOverMember
  <2>7. SumOver(rows, V) = SumOver(cols(V), T)
    BY <1>4
  <2> HIDE DEF V, row, rows, cols
  <2>8. SumOver(rows, U) = SumOver(cols(U), T)
    BY <2>4, <2>5, <2>6, <2>7, Zenon
  <2>9. QED
    BY <2>8
<1>5. S \in G
  <2>1. \A U \in SUBSET S : \A x \in U : U \ {x} \in G => U \in G
    BY <1>4, Zenon
  <2> HIDE DEF G
  <2>2. QED
    BY <1>1, <2>1, FiniteSetsAllIn, Zenon
<1>6. SumOver(rows, S) = SumOver(cols(S), T)
  BY <1>5
<1>7. QED
  BY <1>6 DEF ColumnSum

\* And pair by pair.
LEMMA SumPairs ==
    ASSUME NEW a, NEW S, NEW T, IsFiniteSet(S), IsFiniteSet(T),
           \A x \in S : \A y \in T : a[<<x, y>>] \in Int
    PROVE  SumOver(a, S \X T) = SumOver([x \in S |-> RowSum(a, x, T)], S)
<1> DEFINE rows == [x \in S |-> RowSum(a, x, T)]
           G == {U \in SUBSET S : SumOver(a, U \X T) = SumOver(rows, U)}
<1>1. {} \in G
  <2>1. {} \X T = {}
    OBVIOUS
  <2>2. SumOver(a, {} \X T) = SumOver(rows, {})
    BY <2>1, SumOverNothing
  <2>3. QED
    BY <2>2
<1>2. ASSUME NEW x \in S PROVE SumOver(a, {x} \X T) = rows[x] /\ rows[x] \in Int
  <2> DEFINE row == [y \in T |-> a[<<x, y>>]]
             H == {W \in SUBSET T : SumOver(a, {x} \X W) = SumOver(row, W)}
  <2>1. {} \in H
    <3>1. {x} \X {} = {}
      OBVIOUS
    <3>2. SumOver(a, {x} \X {}) = SumOver(row, {})
      BY <3>1, SumOverNothing
    <3>3. QED
      BY <3>2
  <2>2. ASSUME NEW W \in SUBSET T, NEW y \in W, W \ {y} \in H PROVE W \in H
    <3>1. IsFiniteSet(W) /\ y \in T
      BY FS_Subset
    <3>2. IsFiniteSet({x} \X W)
      BY <3>1, FS_Singleton, FS_Product, Zenon
    <3>3. /\ \A z \in {x} \X W : a[z] \in Int
          /\ <<x, y>> \in {x} \X W /\ ({x} \X W) \ {<<x, y>>} = {x} \X (W \ {y})
      OBVIOUS
    <3>4. SumOver(a, {x} \X W) = a[<<x, y>>] + SumOver(a, {x} \X (W \ {y}))
      BY <3>2, <3>3, SumOverMember
    <3>5. (\A z \in W : row[z] \in Int) /\ row[y] = a[<<x, y>>]
      BY <3>1
    <3>6. SumOver(row, W) = row[y] + SumOver(row, W \ {y})
      <4> HIDE DEF row
      <4>1. QED
        BY <3>1, <3>5, SumOverMember
    <3>7. SumOver(a, {x} \X (W \ {y})) = SumOver(row, W \ {y})
      BY <2>2
    <3> HIDE DEF row
    <3>8. SumOver(a, {x} \X W) = SumOver(row, W)
      BY <3>4, <3>5, <3>6, <3>7, Zenon
    <3>9. QED
      BY <3>8
  <2>3. T \in H
    <3>1. \A W \in SUBSET T : \A y \in W : W \ {y} \in H => W \in H
      BY <2>2
    <3> HIDE DEF H
    <3>2. QED
      BY <2>1, <3>1, FiniteSetsAllIn, Zenon
  <2>4. SumOver(a, {x} \X T) = SumOver(row, T)
    BY <2>3
  <2>5. \A y \in T : row[y] \in Int
    OBVIOUS
  <2>6. rows[x] = SumOver(row, T)
    BY DEF RowSum
  <2> HIDE DEF row, rows
  <2>7. SumOver(row, T) \in Int
    BY <2>5, SumOverType
  <2>8. QED
    BY <2>4, <2>6, <2>7
<1>3. ASSUME NEW U \in SUBSET S, NEW x \in U, U \ {x} \in G PROVE U \in G
  <2> DEFINE V == U \ {x}
  <2>1. IsFiniteSet(U) /\ IsFiniteSet(V) /\ V \in SUBSET S /\ x \in S
    BY FS_Subset
  <2>2. /\ IsFiniteSet({x} \X T) /\ IsFiniteSet(V \X T)
        /\ U \X T = ({x} \X T) \cup (V \X T) /\ ({x} \X T) \cap (V \X T) = {}
        /\ \A z \in ({x} \X T) \cup (V \X T) : a[z] \in Int
    <3>1. IsFiniteSet({x} \X T) /\ IsFiniteSet(V \X T)
      BY <2>1, FS_Singleton, FS_Product, Zenon
    <3>2. U \X T = ({x} \X T) \cup (V \X T) /\ ({x} \X T) \cap (V \X T) = {}
      OBVIOUS
    <3>3. \A z \in ({x} \X T) \cup (V \X T) : a[z] \in Int
      BY <2>1
    <3>4. QED
      BY <3>1, <3>2, <3>3
  <2>3. SumOver(a, U \X T) = SumOver(a, {x} \X T) + SumOver(a, V \X T)
    BY <2>2, SumOfParts
  <2>4. SumOver(rows, U) = rows[x] + SumOver(rows, V)
    <3>1. \A z \in U : rows[z] \in Int
      BY <1>2, Zenon
    <3> HIDE DEF rows
    <3>2. QED
      BY <2>1, <3>1, SumOverMember
  <2>5. SumOver(a, V \X T) = SumOver(rows, V)
    BY <1>3
  <2>6. SumOver(a, {x} \X T) = rows[x]
    BY <1>2, <2>1
  <2> HIDE DEF V, rows
  <2>7. SumOver(a, U \X T) = SumOver(rows, U)
    BY <2>3, <2>4, <2>5, <2>6, Zenon
  <2>8. QED
    BY <2>7
<1>4. S \in G
  <2>1. \A U \in SUBSET S : \A x \in U : U \ {x} \in G => U \in G
    BY <1>3
  <2> HIDE DEF G
  <2>2. QED
    BY <1>1, <2>1, FiniteSetsAllIn, Zenon
<1>5. QED
  BY <1>4

-----------------------------------------------------------------------------
(* Arithmetic modulo the prime P. *)

\* An integer that has a reciprocal modulo P.
Unit(y) == \E b \in Int : Same(P, y * b, 1)

\* What is needed of P as a number.
LEMMA PrimeType == P \in Nat \ {0} /\ P > 5
BY InputAssumption

\* A number below P is its own remainder.
LEMMA SmallRemainders == \A r \in 0 .. P - 1 : r % P = r
<1> TAKE r \in 0 .. P - 1
<1>1. (P * 0 + r) % P = r
  BY PrimeType, RemainderIsUnique
<1>2. P * 0 + r = r
  BY PrimeType
<1>3. QED
  BY <1>1, <1>2

\* A factor keeps what is the same the same.
LEMMA SameScales ==
    \A a, b, c \in Int : Same(P, a, b) => Same(P, a * c, b * c) /\ Same(P, c * a, c * b)
<1> TAKE a, b, c \in Int
<1> HAVE Same(P, a, b)
<1>1. Same(P, c, c)
  BY PrimeType, SameIsEquivalence
<1>2. Same(P, a * c, b * c)
  BY <1>1, PrimeType, SameMultiplies
<1>3. Same(P, c * a, c * b)
  BY <1>1, PrimeType, SameMultiplies
<1>4. QED
  BY <1>2, <1>3

\* P being prime, all but 0 have one: the smallest remainder of a multiple of a
\* divides P, or the remainder of P by it were smaller.
LEMMA UnitsExist == \A a \in 1 .. P - 1 : Unit(a)
<1> TAKE a \in 1 .. P - 1
<1> DEFINE M == {m \in 1 .. P - 1 : \E u \in Int : Same(P, a * u, m)}
<1>1. a \in M
  <2>1. a * 1 = a /\ a \in Int /\ 1 \in Int
    OBVIOUS
  <2>2. Same(P, a * 1, a)
    BY <2>1, PrimeType, SameIsEquivalence
  <2>3. QED
    BY <2>1, <2>2
<1>2. PICK m \in M : \A k \in M : m <= k
  <2>1. M \in SUBSET Nat /\ M # {}
    <3>1. 1 .. P - 1 \in SUBSET Nat
      BY PrimeType
    <3>2. M \in SUBSET (1 .. P - 1)
      OBVIOUS
    <3>3. QED
      BY <1>1, <3>1, <3>2, Zenon
  <2> HIDE DEF M
  <2>2. QED
    BY <2>1, MinIsMember, Zenon
<1>3. PICK u \in Int : Same(P, a * u, m)
  OBVIOUS
<1>4. m \in 1 .. P - 1
  OBVIOUS
<1>5. CASE m = 1
  BY <1>3, <1>5, Zenon DEF Unit
<1>6. CASE m # 1
  <2>1. P % m # 0
    BY <1>4, <1>6, InputAssumption
  <2>2. PICK q \in Int, r \in 0 .. m - 1 : P = m * q + r /\ P % m = r
    <3>1. m \in Nat \ {0} /\ P \in Int
      BY <1>4, PrimeType
    <3>2. P = m * (P \div m) + (P % m) /\ P \div m \in Int /\ P % m \in 0 .. m - 1
      BY <3>1, RemainderType
    <3>3. QED
      BY <3>2, Zenon
  <2>3. r \in 1 .. P - 1 /\ r < m
    BY <1>4, <2>1, <2>2
  <2>4. Same(P, m * (-q), r)
    <3>1. m * (-q) = P * (-1) + r /\ m * (-q) \in Int
      <4>1. \A x, y \in Int : x * (-y) = -(x * y)
        OBVIOUS
      <4>2. m * (-q) = -(m * q) /\ m * q \in Int
        BY <1>4, <4>1
      <4>3. QED
        BY <2>2, <2>3, <4>2, PrimeType
    <3>2. (P * (-1) + r) % P = r
      BY <2>3, PrimeType, RemainderIsUnique
    <3>3. r % P = r
      BY <2>3, SmallRemainders
    <3>4. QED
      BY <3>1, <3>2, <3>3, Zenon DEF Same
  <2>5. Same(P, (a * u) * (-q), m * (-q))
    <3>1. a * u \in Int /\ m \in Int /\ -q \in Int
      BY <1>4
    <3>2. QED
      BY <1>3, <3>1, SameScales, Zenon
  <2>6. (a * u) * (-q) = a * (u * (-q)) /\ u * (-q) \in Int
    OBVIOUS
  <2>7. Same(P, a * (u * (-q)), r)
    <3>1. (a * u) * (-q) \in Int /\ m * (-q) \in Int /\ r \in Int
      BY <1>4, <2>3
    <3>2. Same(P, (a * u) * (-q), r)
      BY <2>4, <2>5, <3>1, PrimeType, SameIsEquivalence
    <3>3. QED
      BY <2>6, <3>2
  <2>8. r \in M
    BY <2>3, <2>6, <2>7, Zenon
  <2>9. QED
    BY <1>2, <2>3, <2>8, <1>4
<1>7. QED
  BY <1>5, <1>6

\* The product of integers with reciprocals has one.
LEMMA UnitsMultiply == \A x, y \in Int : Unit(x) /\ Unit(y) => Unit(x * y)
<1> TAKE x, y \in Int
<1> HAVE Unit(x) /\ Unit(y)
<1>1. PICK b \in Int : Same(P, x * b, 1)
  BY Zenon DEF Unit
<1>2. PICK c \in Int : Same(P, y * c, 1)
  BY DEF Unit
<1>3. Same(P, (x * b) * (y * c), 1 * 1)
  <2>1. x * b \in Int /\ y * c \in Int /\ 1 \in Int
    OBVIOUS
  <2>2. QED
    BY <1>1, <1>2, <2>1, PrimeType, SameMultiplies
<1>4. (x * b) * (y * c) = (x * y) * (b * c) /\ b * c \in Int /\ 1 * 1 = 1
  OBVIOUS
<1>5. Same(P, (x * y) * (b * c), 1)
  BY <1>3, <1>4
<1>6. QED
  BY <1>4, <1>5, Zenon DEF Unit

\* What has a reciprocal is not a multiple of P.
LEMMA UnitsRemainder == \A y \in Int : Unit(y) => y % P \in 1 .. P - 1
<1> TAKE y \in Int
<1> HAVE Unit(y)
<1>1. PICK b \in Int : Same(P, y * b, 1)
  BY Zenon DEF Unit
<1>2. y % P \in 0 .. P - 1
  BY PrimeType, RemainderType
<1>3. ASSUME y % P = 0 PROVE FALSE
  <2>1. 0 % P = 0 /\ 1 % P = 1
    BY PrimeType, SmallRemainders
  <2>2. Same(P, y, 0)
    BY <1>3, <2>1 DEF Same
  <2>3. Same(P, y * b, 0 * b)
    <3>1. 0 \in Int
      OBVIOUS
    <3>2. QED
      BY <2>2, <3>1, SameScales, Zenon
  <2>4. 0 * b = 0
    OBVIOUS
  <2>5. 0 % P = 1 % P
    BY <1>1, <2>3, <2>4, Zenon DEF Same
  <2>6. QED
    BY <2>1, <2>5
<1>4. QED
  BY <1>2, <1>3

\* A number below P other than 0 has the reciprocal that the program takes.
LEMMA ReciprocalIs ==
    \A a \in 1 .. P - 1 : Reciprocal[a] \in 1 .. P - 1 /\ Same(P, a * Reciprocal[a], 1)
<1> TAKE a \in 1 .. P - 1
<1>2. PICK u \in Int : Same(P, a * u, 1)
  BY UnitsExist, Zenon DEF Unit
<1>3. PICK b \in 0 .. P - 1 : b = u % P
  BY PrimeType, RemainderType
<1>4. (a * b) % P = 1
  <2>1. Same(P, b, u)
    BY <1>3, PrimeType, SameIsEquivalence
  <2>2. Same(P, a * b, a * u)
    <3>1. a \in Int /\ b \in Int
      BY PrimeType
    <3>2. QED
      BY <2>1, <3>1, SameScales
  <2>3. (a * b) % P = 1 % P
    BY <1>2, <2>2, Zenon DEF Same
  <2>4. 1 % P = 1
    BY PrimeType, SmallRemainders
  <2>5. QED
    BY <2>3, <2>4
<1>5. b # 0
  <2>1. ASSUME b = 0 PROVE FALSE
    <3>1. a * b = 0
      BY <2>1
    <3>2. 0 % P = 0
      BY PrimeType, SmallRemainders
    <3>3. QED
      BY <1>4, <3>1, <3>2
  <2>2. QED
    BY <2>1
<1>6. b \in 1 .. P - 1
  BY <1>5
<1> DEFINE Good(v) == (a * v) % P = 1
           r == CHOOSE v \in 1 .. P - 1 : Good(v)
<1>7. Reciprocal[a] = r
  BY Zenon DEF Reciprocal
<1>8. r \in 1 .. P - 1 /\ Good(r)
  <2>1. \E v \in 1 .. P - 1 : Good(v)
    BY <1>4, <1>6
  <2> HIDE DEF Good
  <2>2. QED
    BY <2>1
<1>9. 1 % P = 1
  BY PrimeType, SmallRemainders
<1> HIDE DEF r
<1>10. QED
  BY <1>7, <1>8, <1>9, Zenon DEF Same

\* Division by what has a reciprocal gives a number below P.
LEMMA DivType == \A x, y \in Int : Unit(y) => Div(x, y) \in 0 .. P - 1
<1> TAKE x, y \in Int
<1> HAVE Unit(y)
<1>1. PICK a \in 1 .. P - 1 : a = y % P
  BY UnitsRemainder
<1>2. Reciprocal[a] \in 1 .. P - 1
  BY ReciprocalIs, Zenon
<1>3. (x % P) * Reciprocal[a] \in Int
  <2>1. x % P \in Int
    BY PrimeType, RemainderType
  <2> HIDE DEF Reciprocal
  <2>2. QED
    BY <1>2, <2>1
<1>4. ((x % P) * Reciprocal[a]) % P \in 0 .. P - 1
  BY <1>3, PrimeType, RemainderType, Zenon
<1>5. QED
  BY <1>1, <1>4, Zenon DEF Div

-----------------------------------------------------------------------------
(* Matrices and their forms. *)

\* The inner product of two vectors, and the product of a matrix and a vector,
\* as integers.
Vectors(D) == [D -> Int]
Matrices(D) == [D -> [D -> Int]]
Times(a, v, D) == SumOver([k \in D |-> a[k] * v[k]], D)
Image(K, y, D) == [l \in D |-> Times(K[l], y, D)]
Form(K, x, y, D) == Times(x, Image(K, y, D), D)

\* The sum of the vectors of a family.
Added(B, S, D) == [l \in D |-> SumOver([q \in S |-> B[q][l]], S)]

\* Their types; the inner product does not depend on the order.
LEMMA TimesType ==
    ASSUME NEW D, IsFiniteSet(D)
    PROVE  /\ \A a, v \in Vectors(D) : Times(a, v, D) \in Int /\ Times(a, v, D) = Times(v, a, D)
           /\ \A K \in Matrices(D), y \in Vectors(D) : Image(K, y, D) \in Vectors(D)
<1>1. ASSUME NEW a \in Vectors(D), NEW v \in Vectors(D)
      PROVE  Times(a, v, D) \in Int /\ Times(a, v, D) = Times(v, a, D)
  <2> DEFINE f == [k \in D |-> a[k] * v[k]]
             g == [k \in D |-> v[k] * a[k]]
  <2>1. \A k \in D : f[k] \in Int /\ f[k] = g[k]
    BY DEF Vectors
  <2> HIDE DEF f, g
  <2>2. SumOver(f, D) \in Int /\ SumOver(f, D) = SumOver(g, D)
    BY <2>1, SumOverType, SumOverSame
  <2>3. QED
    BY <2>2, Zenon DEF Times, f, g
<1>2. ASSUME NEW K \in Matrices(D), NEW y \in Vectors(D) PROVE Image(K, y, D) \in Vectors(D)
  <2>1. \A l \in D : K[l] \in Vectors(D)
    BY DEF Matrices, Vectors
  <2>2. \A l \in D : Times(K[l], y, D) \in Int
    BY <1>1, <2>1
  <2>3. QED
    BY <2>2 DEF Image, Vectors
<1>3. QED
  BY <1>1, <1>2

\* What is the same in every component has the same product.
LEMMA TimesSame ==
    ASSUME NEW D, IsFiniteSet(D), NEW a \in Vectors(D), NEW v \in Vectors(D), NEW w \in Vectors(D),
           \A k \in D : Same(P, v[k], w[k])
    PROVE  Same(P, Times(a, v, D), Times(a, w, D)) /\ Same(P, Times(v, a, D), Times(w, a, D))
<1> DEFINE f == [k \in D |-> a[k] * v[k]]
           g == [k \in D |-> a[k] * w[k]]
<1>1. \A k \in D : f[k] \in Int /\ g[k] \in Int /\ Same(P, f[k], g[k])
  <2>1. ASSUME NEW k \in D PROVE f[k] \in Int /\ g[k] \in Int /\ Same(P, f[k], g[k])
    <3>1. a[k] \in Int /\ v[k] \in Int /\ w[k] \in Int
      BY DEF Vectors
    <3>2. Same(P, a[k] * v[k], a[k] * w[k])
      BY <3>1, SameScales, Zenon
    <3>3. QED
      BY <3>1, <3>2
  <2>2. QED
    BY <2>1
<1>2. Same(P, SumOver(f, D), SumOver(g, D))
  <2> HIDE DEF f, g
  <2>1. QED
    BY <1>1, PrimeType, SumReduces
<1>3. Same(P, Times(a, v, D), Times(a, w, D))
  BY <1>2 DEF Times
<1>4. Times(a, v, D) = Times(v, a, D) /\ Times(a, w, D) = Times(w, a, D)
  BY TimesType
<1>5. QED
  BY <1>3, <1>4

\* The product with a sum is the sum of the products.
LEMMA TimesAdds ==
    ASSUME NEW D, IsFiniteSet(D), NEW S, IsFiniteSet(S), NEW x \in Vectors(D), NEW B \in [S -> Vectors(D)]
    PROVE  /\ Added(B, S, D) \in Vectors(D)
           /\ SumOver([q \in S |-> Times(x, B[q], D)], S) = Times(x, Added(B, S, D), D)
<1> DEFINE a == [ql \in S \X D |-> x[ql[2]] * B[ql[1]][ql[2]]]
           rows == [q \in S |-> RowSum(a, q, D)]
           columns == [l \in D |-> ColumnSum(a, l, S)]
           column(l) == [q \in S |-> B[q][l]]
<1>1. \A q \in S : \A l \in D : B[q][l] \in Int /\ x[l] \in Int
  BY DEF Vectors
<1>2. \A q \in S : \A l \in D : a[<<q, l>>] = x[l] * B[q][l] /\ a[<<q, l>>] \in Int
  BY <1>1
<1>3. SumOver(rows, S) = SumOver(columns, D)
  <2> HIDE DEF a
  <2>1. QED
    BY <1>2, SumSwaps
<1>4. rows = [q \in S |-> Times(x, B[q], D)]
  <2>1. ASSUME NEW q \in S PROVE RowSum(a, q, D) = Times(x, B[q], D)
    <3>1. [l \in D |-> a[<<q, l>>]] = [l \in D |-> x[l] * B[q][l]]
      BY <1>2
    <3>2. QED
      BY <3>1, Zenon DEF RowSum, Times
  <2>2. QED
    BY <2>1, Zenon
<1>5. \A l \in D : SumOver(column(l), S) \in Int /\ columns[l] = x[l] * SumOver(column(l), S)
  <2>1. ASSUME NEW l \in D
        PROVE  SumOver(column(l), S) \in Int /\ ColumnSum(a, l, S) = x[l] * SumOver(column(l), S)
    <3> DEFINE h == [q \in S |-> a[<<q, l>>]]
    <3>1. \A q \in S : column(l)[q] \in Int /\ h[q] = x[l] * column(l)[q]
      BY <1>1, <1>2
    <3>2. x[l] \in Int
      BY DEF Vectors
    <3>3. SumOver(h, S) = x[l] * SumOver(column(l), S)
      <4> HIDE DEF h, column
      <4>1. QED
        BY <3>1, <3>2, SumScales
    <3>4. SumOver(column(l), S) \in Int
      <4> HIDE DEF h, column
      <4>1. QED
        BY <3>1, SumOverType
    <3>5. QED
      BY <3>3, <3>4 DEF ColumnSum
  <2>2. QED
    BY <2>1, Zenon
<1>6. Added(B, S, D) \in Vectors(D) /\ \A l \in D : Added(B, S, D)[l] = SumOver(column(l), S)
  <2>1. \A l \in D : SumOver(column(l), S) \in Int
    BY <1>5, Zenon
  <2>2. QED
    BY <2>1 DEF Added, Vectors
<1>7. columns = [l \in D |-> x[l] * Added(B, S, D)[l]]
  <2> HIDE DEF column
  <2>1. QED
    BY <1>5, <1>6, Zenon
<1>8. QED
  BY <1>3, <1>4, <1>6, <1>7, Zenon DEF Times

\* A bilinear form of a sum is the sum of the forms.
LEMMA FormAdds ==
    ASSUME NEW D, IsFiniteSet(D), NEW S, IsFiniteSet(S), NEW K \in Matrices(D),
           NEW x \in Vectors(D), NEW Y \in [S -> Vectors(D)]
    PROVE  SumOver([q \in S |-> Form(K, x, Y[q], D)], S) = Form(K, x, Added(Y, S, D), D)
<1> DEFINE B == [q \in S |-> Image(K, Y[q], D)]
<1>1. \A q \in S : Y[q] \in Vectors(D) /\ Image(K, Y[q], D) \in Vectors(D)
  BY TimesType
<1>2. B \in [S -> Vectors(D)]
  BY <1>1
<1>3. SumOver([q \in S |-> Times(x, B[q], D)], S) = Times(x, Added(B, S, D), D)
  <2> HIDE DEF B
  <2>1. QED
    BY <1>2, TimesAdds
<1>4. Added(B, S, D) = Image(K, Added(Y, S, D), D)
  <2>1. ASSUME NEW l \in D
        PROVE  SumOver([q \in S |-> B[q][l]], S) = Times(K[l], Added(Y, S, D), D)
    <3>1. K[l] \in Vectors(D)
      BY DEF Matrices, Vectors
    <3>2. [q \in S |-> B[q][l]] = [q \in S |-> Times(K[l], Y[q], D)]
      BY DEF Image
    <3>3. QED
      BY <3>1, <3>2, TimesAdds
  <2> HIDE DEF B
  <2>2. QED
    BY <2>1 DEF Added, Image
<1>5. [q \in S |-> Form(K, x, Y[q], D)] = [q \in S |-> Times(x, B[q], D)]
  BY DEF Form
<1>6. QED
  BY <1>3, <1>4, <1>5, Zenon DEF Form

\* A symmetric matrix.
Symmetric(K, D) == \A l, m \in D : K[l][m] = K[m][l]

\* The form of a symmetric matrix is symmetric.
LEMMA FormIsSymmetric ==
    ASSUME NEW D, IsFiniteSet(D), NEW K \in Matrices(D), Symmetric(K, D),
           NEW x \in Vectors(D), NEW y \in Vectors(D)
    PROVE  Form(K, x, y, D) = Form(K, y, x, D) /\ Form(K, x, y, D) \in Int
<1> DEFINE B == [m \in D |-> [l \in D |-> K[l][m] * y[m]]]
<1>1. \A l, m \in D : K[l][m] \in Int /\ y[m] \in Int /\ x[m] \in Int
  BY DEF Matrices, Vectors
<1>2. B \in [D -> Vectors(D)] /\ \A l, m \in D : B[m][l] = K[l][m] * y[m]
  BY <1>1 DEF Vectors
<1>3. SumOver([m \in D |-> Times(x, B[m], D)], D) = Times(x, Added(B, D, D), D)
  <2> HIDE DEF B
  <2>1. QED
    BY <1>2, TimesAdds
<1>4. Added(B, D, D) = Image(K, y, D)
  <2>1. \A l \in D : [m \in D |-> B[m][l]] = [m \in D |-> K[l][m] * y[m]]
    BY <1>2
  <2> HIDE DEF B
  <2>2. QED
    BY <2>1 DEF Added, Image, Times
<1>5. ASSUME NEW m \in D PROVE Times(x, B[m], D) = y[m] * Image(K, x, D)[m]
  <2> DEFINE f == [l \in D |-> K[m][l] * x[l]]
             h == [l \in D |-> x[l] * B[m][l]]
  <2>1. \A l \in D : f[l] \in Int /\ h[l] = y[m] * f[l]
    <3>1. ASSUME NEW l \in D PROVE f[l] \in Int /\ h[l] = y[m] * f[l]
      <4>1. K[l][m] = K[m][l]
        BY DEF Symmetric
      <4>2. h[l] = x[l] * (K[m][l] * y[m])
        BY <1>2, <4>1
      <4>3. K[m][l] \in Int /\ y[m] \in Int /\ x[l] \in Int
        BY <1>1
      <4>4. \A a, b, c \in Int : a * (b * c) = c * (b * a)
        OBVIOUS
      <4>5. QED
        BY <4>2, <4>3, <4>4
    <3>2. QED
      BY <3>1
  <2>2. y[m] \in Int
    BY <1>1
  <2>3. SumOver(h, D) = y[m] * SumOver(f, D)
    <3> HIDE DEF f, h, B
    <3>1. QED
      BY <2>1, <2>2, SumScales
  <2>4. QED
    BY <2>3 DEF Times, Image
<1>6. [m \in D |-> Times(x, B[m], D)] = [m \in D |-> y[m] * Image(K, x, D)[m]]
  <2> HIDE DEF B
  <2>1. QED
    BY <1>5
<1>7. Form(K, x, y, D) = Form(K, y, x, D)
  BY <1>3, <1>4, <1>6, Zenon DEF Form, Times
<1>8. Form(K, x, y, D) \in Int
  BY TimesType DEF Form
<1>9. QED
  BY <1>7, <1>8

-----------------------------------------------------------------------------
(* The matrix operations of the program. *)

\* To have the same remainder modulo P is transitive.
LEMMA SameChains == \A a, b, c \in Int : Same(P, a, b) /\ Same(P, b, c) => Same(P, a, c)
BY PrimeType, SameIsEquivalence

\* A sum of the program is one of integers, reduced.
LEMMA TotalType ==
    ASSUME NEW f, NEW S, IsFiniteSet(S), DOMAIN f = S, \A x \in S : f[x] \in Int
    PROVE  /\ Total(f) = SumOver(f, S) % P /\ SumOver(f, S) \in Int
           /\ Total(f) \in Int /\ Same(P, Total(f), SumOver(f, S))
<1>1. Total(f) = SumOver(f, S) % P
  BY SumIsLookedUp DEF Total
<1>2. SumOver(f, S) \in Int
  BY SumOverType
<1>3. QED
  BY <1>1, <1>2, PrimeType, SameIsEquivalence

\* The program's product of a matrix and a vector is that of integers, modulo P.
LEMMA MatrixVectorMultiplySame ==
    ASSUME NEW D, IsFiniteSet(D), NEW A \in Matrices(D), NEW v \in Vectors(D)
    PROVE  /\ MatrixVectorMultiply(A, v) \in Vectors(D)
           /\ \A i \in D : Same(P, MatrixVectorMultiply(A, v)[i], Times(A[i], v, D))
<1>1. DOMAIN A = D /\ DOMAIN v = D /\ \A i, k \in D : A[i][k] \in Int /\ v[k] \in Int
  BY DEF Matrices, Vectors
<1>2. ASSUME NEW i \in D
      PROVE  /\ Total([k \in D |-> A[i][k] * v[k]]) \in Int
             /\ Same(P, Total([k \in D |-> A[i][k] * v[k]]), Times(A[i], v, D))
  <2> DEFINE f == [k \in D |-> A[i][k] * v[k]]
  <2>1. DOMAIN f = D /\ \A k \in D : f[k] \in Int
    BY <1>1
  <2>2. Times(A[i], v, D) = SumOver(f, D)
    BY DEF Times
  <2> HIDE DEF f
  <2>3. Total(f) \in Int /\ Same(P, Total(f), SumOver(f, D))
    BY <2>1, TotalType
  <2>4. QED
    BY <2>2, <2>3 DEF f
<1>3. MatrixVectorMultiply(A, v) = [i \in D |-> Total([k \in D |-> A[i][k] * v[k]])]
  BY <1>1 DEF MatrixVectorMultiply
<1>4. QED
  BY <1>2, <1>3 DEF Vectors

\* So is its product of two matrices, column by column.
LEMMA MatrixMultiplySame ==
    ASSUME NEW D, IsFiniteSet(D), 1 \in D, NEW A \in Matrices(D), NEW B \in Matrices(D)
    PROVE  /\ MatrixMultiply(A, B) \in Matrices(D)
           /\ \A i, j \in D : Same(P, MatrixMultiply(A, B)[i][j], Times(A[i], [k \in D |-> B[k][j]], D))
<1>1. /\ DOMAIN A = D /\ DOMAIN B = D /\ DOMAIN B[1] = D
      /\ \A i, k \in D : A[i][k] \in Int /\ B[i][k] \in Int
  BY DEF Matrices
<1>2. ASSUME NEW i \in D, NEW j \in D
      PROVE  /\ Total([k \in D |-> A[i][k] * B[k][j]]) \in Int
             /\ Same(P, Total([k \in D |-> A[i][k] * B[k][j]]), Times(A[i], [k \in D |-> B[k][j]], D))
  <2> DEFINE f == [k \in D |-> A[i][k] * B[k][j]]
             b == [k \in D |-> B[k][j]]
  <2>1. DOMAIN f = D /\ \A k \in D : f[k] \in Int
    BY <1>1
  <2>2. f = [k \in D |-> A[i][k] * b[k]]
    OBVIOUS
  <2>3. Times(A[i], b, D) = SumOver(f, D)
    <3> HIDE DEF f, b
    <3>1. QED
      BY <2>2, Zenon DEF Times
  <2>4. Total(f) \in Int /\ Same(P, Total(f), SumOver(f, D))
    <3> HIDE DEF f
    <3>1. QED
      BY <2>1, TotalType
  <2>5. QED
    BY <2>3, <2>4
<1>3. MatrixMultiply(A, B) = [i \in D |-> [j \in D |-> Total([k \in D |-> A[i][k] * B[k][j]])]]
  BY <1>1 DEF MatrixMultiply
<1>4. QED
  <2> DEFINE t(i, j) == Total([k \in D |-> A[i][k] * B[k][j]])
             M == [i \in D |-> [j \in D |-> t(i, j)]]
  <2>1. \A i, j \in D : t(i, j) \in Int /\ Same(P, t(i, j), Times(A[i], [k \in D |-> B[k][j]], D))
    BY <1>2
  <2>2. MatrixMultiply(A, B) = M
    BY <1>3
  <2>3. M \in Matrices(D) /\ \A i, j \in D : M[i][j] = t(i, j)
    <3> HIDE DEF t
    <3>1. QED
      BY <2>1, Zenon DEF Matrices
  <2> HIDE DEF t, M
  <2>4. QED
    BY <2>1, <2>2, <2>3

\* The transpose of a matrix.
LEMMA MatrixTransType ==
    ASSUME NEW D, 1 \in D, NEW A \in Matrices(D)
    PROVE  /\ MatrixTrans(A) \in Matrices(D)
           /\ \A i, j \in D : MatrixTrans(A)[j][i] = A[i][j]
BY DEF MatrixTrans, Matrices

\* What the frame element's product of three matrices is.
LEMMA RotatedStiffness ==
    ASSUME NEW D, IsFiniteSet(D), 1 \in D, NEW T \in Matrices(D), NEW K \in Matrices(D), Symmetric(K, D)
    PROVE  /\ MatrixMultiply(MatrixMultiply(MatrixTrans(T), K), T) \in Matrices(D)
           /\ \A k, q \in D : Same(P, MatrixMultiply(MatrixMultiply(MatrixTrans(T), K), T)[k][q],
                                      Form(K, MatrixTrans(T)[k], MatrixTrans(T)[q], D))
<1> DEFINE Tt == MatrixTrans(T)
           M == MatrixMultiply(Tt, K)
           G == MatrixMultiply(M, T)
<1>1. Tt \in Matrices(D) /\ \A k \in D : Tt[k] \in Vectors(D)
  BY MatrixTransType DEF Matrices, Vectors
<1>2. /\ M \in Matrices(D)
      /\ \A k, m \in D : Same(P, M[k][m], Times(Tt[k], [l \in D |-> K[l][m]], D))
  <2> HIDE DEF Tt
  <2>1. QED
    BY <1>1, MatrixMultiplySame
<1>3. /\ G \in Matrices(D)
      /\ \A k, q \in D : Same(P, G[k][q], Times(M[k], [m \in D |-> T[m][q]], D))
  <2> HIDE DEF M
  <2>1. QED
    BY <1>2, MatrixMultiplySame
<1>4. ASSUME NEW k \in D, NEW q \in D PROVE Same(P, G[k][q], Form(K, Tt[k], Tt[q], D))
  <2> DEFINE x == Tt[k]
             y == Tt[q]
             Kx == Image(K, x, D)
  <2>1. [m \in D |-> T[m][q]] = y
    BY MatrixTransType DEF Matrices, MatrixTrans
  <2>2. Kx \in Vectors(D) /\ x \in Vectors(D) /\ y \in Vectors(D) /\ M[k] \in Vectors(D)
    <3> HIDE DEF Tt, M
    <3>1. M[k] \in Vectors(D)
      BY <1>2 DEF Matrices, Vectors
    <3>2. QED
      BY <1>1, <3>1, TimesType
  <2>3. \A m \in D : Same(P, M[k][m], Kx[m])
    <3>1. ASSUME NEW m \in D PROVE Same(P, M[k][m], Kx[m])
      <4>1. [l \in D |-> K[l][m]] = K[m] /\ K[m] \in Vectors(D)
        BY DEF Symmetric, Matrices, Vectors
      <4>2. Kx[m] = Times(K[m], x, D)
        BY DEF Image
      <4> HIDE DEF Kx, M, x
      <4>3. Times(K[m], x, D) = Times(x, K[m], D)
        BY <2>2, <4>1, TimesType
      <4>4. Same(P, M[k][m], Times(x, [l \in D |-> K[l][m]], D))
        BY <1>2 DEF x
      <4>5. QED
        BY <4>1, <4>2, <4>3, <4>4
    <3>2. QED
      BY <3>1
  <2>4. Same(P, Times(M[k], y, D), Times(Kx, y, D))
    <3> HIDE DEF M, Kx, y, x
    <3>1. QED
      BY <2>2, <2>3, TimesSame
  <2>5. Times(Kx, y, D) = Form(K, x, y, D)
    <3> HIDE DEF x, y
    <3>1. Form(K, x, y, D) = Form(K, y, x, D)
      BY <2>2, FormIsSymmetric
    <3>2. Times(Kx, y, D) = Times(y, Kx, D)
      <4> HIDE DEF Kx
      <4>1. QED
        BY <2>2, TimesType
    <3>3. QED
      BY <3>1, <3>2 DEF Form
  <2>6. Same(P, G[k][q], Times(M[k], y, D))
    <3> HIDE DEF M, G, y
    <3>1. QED
      BY <1>3, <2>1
  <2>7. G[k][q] \in Int /\ Times(M[k], y, D) \in Int /\ Times(Kx, y, D) \in Int
    <3> HIDE DEF M, G, y, Kx, x
    <3>1. G[k][q] \in Int
      BY <1>3 DEF Matrices
    <3>2. QED
      BY <2>2, <3>1, TimesType
  <2> HIDE DEF M, G, y, Kx, x
  <2>8. Same(P, G[k][q], Times(Kx, y, D))
    BY <2>4, <2>6, <2>7, PrimeType, SameIsEquivalence, Zenon
  <2>9. Same(P, G[k][q], Form(K, x, y, D))
    BY <2>5, <2>8
  <2>10. QED
    BY <2>9 DEF x, y
<1>5. QED
  BY <1>3, <1>4

\* G is the matrix K, turned by T.
Turned(G, K, T, D) ==
    \A k, q \in D : Same(P, G[k][q], Form(K, MatrixTrans(T)[k], MatrixTrans(T)[q], D))

\* What an element answers to a displacement of 1 at the places S is the sum of
\* its columns there.
LEMMA UnitResponse ==
    ASSUME NEW D, IsFiniteSet(D), 1 \in D, NEW T \in Matrices(D), NEW K \in Matrices(D),
           NEW G \in Matrices(D), Turned(G, K, T, D),
           NEW unit \in [D -> {0, 1}]
    PROVE  LET S == {k \in D : unit[k] = 1}
               w == MatrixVectorMultiply(MatrixTrans(T),
                        MatrixVectorMultiply(K, MatrixVectorMultiply(T, unit)))
           IN  \A k \in D : w[k] \in Int /\ Same(P, w[k], SumOver([q \in S |-> G[k][q]], S))
<1> DEFINE Tt == MatrixTrans(T)
           S == {k \in D : unit[k] = 1}
           g == MatrixVectorMultiply(T, unit)
           f == MatrixVectorMultiply(K, g)
           w == MatrixVectorMultiply(Tt, f)
           Y == [q \in S |-> Tt[q]]
           u == Added(Y, S, D)
<1>1. Tt \in Matrices(D) /\ \A k \in D : Tt[k] \in Vectors(D)
  BY MatrixTransType DEF Matrices, Vectors
<1>2. IsFiniteSet(S) /\ S \in SUBSET D
  BY FS_Subset
<1>3. Y \in [S -> Vectors(D)]
  <2> HIDE DEF Tt
  <2>1. QED
    BY <1>1
<1>4. u \in Vectors(D)
  <2>1. [k \in D |-> 0] \in Vectors(D)
    BY DEF Vectors
  <2> HIDE DEF Y, S
  <2>2. QED
    BY <1>2, <1>3, <2>1, TimesAdds, Zenon
<1>5. unit \in Vectors(D)
  BY DEF Vectors
<1>6. g \in Vectors(D) /\ \A l \in D : Same(P, g[l], Times(T[l], unit, D))
  BY <1>5, MatrixVectorMultiplySame
<1>7. ASSUME NEW l \in D PROVE Times(T[l], unit, D) = u[l]
  <2> DEFINE a == [k \in D |-> T[l][k] * unit[k]]
             b == [q \in S |-> Y[q][l]]
  <2>1. \A k \in D : T[l][k] \in Int
    BY DEF Matrices
  <2>2. (\A k \in S : a[k] \in Int /\ a[k] = b[k]) /\ \A k \in D \ S : a[k] = 0
    BY <2>1, MatrixTransType
  <2>3. SumOver(a, D) = SumOver(a, S)
    <3> HIDE DEF a, b, S
    <3>1. QED
      BY <1>2, <2>2, SumOfSome
  <2>4. SumOver(a, S) = SumOver(b, S)
    <3> HIDE DEF a, b, S
    <3>1. QED
      BY <1>2, <2>2, SumOverSame
  <2>5. Times(T[l], unit, D) = SumOver(a, D)
    BY DEF Times
  <2>6. u[l] = SumOver(b, S)
    BY DEF Added
  <2>7. QED
    BY <2>3, <2>4, <2>5, <2>6, Zenon
<1>8. \A l \in D : Same(P, g[l], u[l])
  <2> HIDE DEF g, u
  <2>1. QED
    BY <1>6, <1>7
<1>9. /\ f \in Vectors(D)
      /\ \A l \in D : Same(P, f[l], Times(K[l], g, D))
  <2> HIDE DEF g
  <2>1. QED
    BY <1>6, MatrixVectorMultiplySame
<1>10. Image(K, u, D) \in Vectors(D) /\ \A l \in D : Same(P, f[l], Image(K, u, D)[l])
  <2> HIDE DEF f, g, u
  <2>1. Image(K, u, D) \in Vectors(D)
    BY <1>4, TimesType
  <2>2. ASSUME NEW l \in D PROVE Same(P, f[l], Image(K, u, D)[l])
    <3>1. K[l] \in Vectors(D)
      BY DEF Matrices, Vectors
    <3>2. Same(P, Times(K[l], g, D), Times(K[l], u, D))
      BY <1>4, <1>6, <1>8, <3>1, TimesSame
    <3>3. Image(K, u, D)[l] = Times(K[l], u, D)
      BY DEF Image
    <3>4. f[l] \in Int /\ Times(K[l], g, D) \in Int /\ Times(K[l], u, D) \in Int
      <4>1. f[l] \in Int
        BY <1>9 DEF Vectors
      <4>2. QED
        BY <1>4, <1>6, <3>1, <4>1, TimesType
    <3>5. Same(P, f[l], Times(K[l], u, D))
      BY <1>9, <3>2, <3>4, SameChains, Zenon
    <3>6. QED
      BY <3>3, <3>5, Zenon
  <2>3. QED
    BY <2>1, <2>2
<1>11. w \in Vectors(D) /\ \A k \in D : Same(P, w[k], Times(Tt[k], f, D))
  <2> HIDE DEF f, Tt
  <2>1. QED
    BY <1>1, <1>9, MatrixVectorMultiplySame
<1>12. ASSUME NEW k \in D
       PROVE  w[k] \in Int /\ Same(P, w[k], SumOver([q \in S |-> G[k][q]], S))
  <2> DEFINE x == Tt[k]
             forms == [q \in S |-> Form(K, x, Y[q], D)]
             row == [q \in S |-> G[k][q]]
  <2>1. x \in Vectors(D)
    BY <1>1
  <2>2. Same(P, Times(x, f, D), Form(K, x, u, D))
    <3> HIDE DEF x, f, u
    <3>1. QED
      BY <1>9, <1>10, <2>1, TimesSame DEF Form
  <2>3. SumOver(forms, S) = Form(K, x, u, D)
    <3> HIDE DEF x, Y, S
    <3>1. QED
      BY <1>2, <1>3, <2>1, FormAdds
  <2>4. \A q \in S : row[q] \in Int /\ forms[q] \in Int /\ Same(P, row[q], forms[q])
    <3>1. ASSUME NEW q \in S PROVE row[q] \in Int /\ forms[q] \in Int /\ Same(P, row[q], forms[q])
      <4>1. row[q] = G[k][q] /\ G[k][q] \in Int
        BY DEF Matrices
      <4>2. forms[q] = Form(K, x, Tt[q], D) /\ Form(K, x, Tt[q], D) \in Int
        <5>1. Tt[q] \in Vectors(D) /\ forms[q] = Form(K, x, Tt[q], D)
          BY <1>1
        <5> HIDE DEF x, Tt, forms
        <5>2. Form(K, x, Tt[q], D) \in Int
          BY <2>1, <5>1, TimesType DEF Form
        <5>3. QED
          BY <5>1, <5>2
      <4>3. Same(P, G[k][q], Form(K, x, Tt[q], D))
        BY DEF Turned
      <4>4. QED
        BY <4>1, <4>2, <4>3
    <3>2. QED
      BY <3>1
  <2>5. /\ Same(P, SumOver(row, S), SumOver(forms, S))
        /\ SumOver(row, S) \in Int /\ SumOver(forms, S) \in Int
    <3> HIDE DEF row, forms, S
    <3>1. QED
      BY <1>2, <2>4, PrimeType, SumReduces, SumOverType
  <2>6. w[k] \in Int /\ Times(x, f, D) \in Int
    <3> HIDE DEF w, f, x
    <3>1. w[k] \in Int
      BY <1>11 DEF Vectors
    <3>2. QED
      BY <1>9, <2>1, <3>1, TimesType
  <2>7. Same(P, w[k], Times(x, f, D))
    BY <1>11
  <2> HIDE DEF w, x, f, forms, row, u, S
  <2>8. Same(P, w[k], SumOver(forms, S))
    BY <2>2, <2>3, <2>5, <2>6, <2>7, SameChains, Zenon
  <2>9. Same(P, SumOver(forms, S), SumOver(row, S))
    BY <2>5, PrimeType, SameIsEquivalence, Zenon
  <2>10. Same(P, w[k], SumOver(row, S))
    BY <2>5, <2>6, <2>8, <2>9, SameChains, Zenon
  <2>11. QED
    BY <2>6, <2>10 DEF row
<1>13. QED
  BY <1>12

-----------------------------------------------------------------------------
(* The tables of the two kinds of element. *)

\* A sum of four terms.
LEMMA SumOfFour ==
    ASSUME NEW f, \A k \in 1 .. 4 : f[k] \in Int
    PROVE  SumOver(f, 1 .. 4) = f[1] + f[2] + f[3] + f[4]
<1>1. /\ 1 .. 4 = {1, 2, 3, 4} /\ {1, 2, 3, 4} \ {1} = {2, 3, 4}
      /\ {2, 3, 4} \ {2} = {3, 4} /\ {3, 4} \ {3} = {4} /\ {4} \ {4} = {}
  OBVIOUS
<1>2. /\ IsFiniteSet({1, 2, 3, 4}) /\ IsFiniteSet({2, 3, 4})
      /\ IsFiniteSet({3, 4}) /\ IsFiniteSet({4})
  <2>1. IsFiniteSet(1 .. 4)
    <3>1. 1 \in Int /\ 4 \in Int
      OBVIOUS
    <3>2. QED
      BY <3>1, FS_Interval, Zenon
  <2>2. {2, 3, 4} \in SUBSET (1 .. 4) /\ {3, 4} \in SUBSET (1 .. 4) /\ {4} \in SUBSET (1 .. 4)
    OBVIOUS
  <2>3. QED
    BY <1>1, <2>1, <2>2, FS_Subset
<1>3. f[1] \in Int /\ f[2] \in Int /\ f[3] \in Int /\ f[4] \in Int
  OBVIOUS
<1>4. SumOver(f, {1, 2, 3, 4}) = f[1] + SumOver(f, {2, 3, 4})
  BY <1>1, <1>2, <1>3, SumOverMember
<1>5. SumOver(f, {2, 3, 4}) = f[2] + SumOver(f, {3, 4})
  BY <1>1, <1>2, <1>3, SumOverMember
<1>6. SumOver(f, {3, 4}) = f[3] + SumOver(f, {4})
  BY <1>1, <1>2, <1>3, SumOverMember
<1>7. SumOver(f, {4}) = f[4] + 0
  BY <1>1, <1>2, <1>3, SumOverMember, SumOverNothing
<1>8. QED
  BY <1>1, <1>3, <1>4, <1>5, <1>6, <1>7

\* The tables of the two kinds of element.
TrussTurn(c, s) == << <<c, s, 0, 0>>, <<-s, c, 0, 0>>, <<0, 0, c, s>>, <<0, 0, -s, c>> >>
FrameTurn(c, s) ==
    << <<c, s, 0, 0, 0, 0>>, <<-s, c, 0, 0, 0, 0>>, <<0, 0, 1, 0, 0, 0>>,
       <<0, 0, 0, c, s, 0>>, <<0, 0, 0, -s, c, 0>>, <<0, 0, 0, 0, 0, 1>> >>
TrussStiff(a) == << <<a, 0, -a, 0>>, <<0, 0, 0, 0>>, <<-a, 0, a, 0>>, <<0, 0, 0, 0>> >>
FrameStiff(a, b, c, d, h) ==
    << <<a, 0, 0, -a, 0, 0>>, <<0, b, c, 0, -b, c>>, <<0, c, d, 0, -c, h>>,
       <<-a, 0, 0, a, 0, 0>>, <<0, -b, -c, 0, b, -c>>, <<0, c, h, 0, -c, d>> >>
TrussGlobal(cc, cs, ss) ==
    << <<cc, cs, -cc, -cs>>, <<cs, ss, -cs, -ss>>,
       <<-cc, -cs, cc, cs>>, <<-cs, -ss, cs, ss>> >>

\* A row of four integers is a function.
LEMMA RowsOfFour ==
    \A p, q, r, s \in Int : <<p, q, r, s>> \in [1 .. 4 -> Int]
OBVIOUS

\* So is one of six.
LEMMA RowsOfSix ==
    \A p, q, r, s, t, u \in Int : <<p, q, r, s, t, u>> \in [1 .. 6 -> Int]
OBVIOUS

\* A table of four rows is a function of the row.
LEMMA TablesOfFour ==
    ASSUME NEW R, NEW p \in R, NEW q \in R, NEW r \in R, NEW s \in R
    PROVE  <<p, q, r, s>> \in [1 .. 4 -> R]
OBVIOUS

\* So is one of six.
LEMMA TablesOfSix ==
    ASSUME NEW R, NEW p \in R, NEW q \in R, NEW r \in R, NEW s \in R, NEW t \in R, NEW u \in R
    PROVE  <<p, q, r, s, t, u>> \in [1 .. 6 -> R]
OBVIOUS

\* The tables of a truss element are matrices.
LEMMA TrussTables ==
    ASSUME NEW c \in Int, NEW s \in Int, NEW a \in Int
    PROVE  TrussTurn(c, s) \in Matrices(1 .. 4) /\ TrussStiff(a) \in Matrices(1 .. 4)
<1> DEFINE R == [1 .. 4 -> Int]
<1>1. -s \in Int /\ -a \in Int /\ 0 \in Int
  OBVIOUS
<1>2. <<c, s, 0, 0>> \in R /\ <<-s, c, 0, 0>> \in R /\ <<0, 0, c, s>> \in R /\ <<0, 0, -s, c>> \in R
  BY <1>1, RowsOfFour
<1>3. <<a, 0, -a, 0>> \in R /\ <<0, 0, 0, 0>> \in R /\ <<-a, 0, a, 0>> \in R
  BY <1>1, RowsOfFour
<1> HIDE DEF R
<1>4. TrussTurn(c, s) \in [1 .. 4 -> R]
  BY <1>2, TablesOfFour, Zenon DEF TrussTurn
<1>5. TrussStiff(a) \in [1 .. 4 -> R]
  BY <1>3, TablesOfFour, Zenon DEF TrussStiff
<1>6. QED
  BY <1>4, <1>5 DEF R, Matrices

\* So are those of a frame element, and its stiffness is symmetric.
LEMMA FrameTables ==
    ASSUME NEW c \in Int, NEW s \in Int,
           NEW a \in Int, NEW b \in Int, NEW g \in Int, NEW d \in Int, NEW h \in Int
    PROVE  /\ FrameTurn(c, s) \in Matrices(1 .. 6) /\ FrameStiff(a, b, g, d, h) \in Matrices(1 .. 6)
           /\ Symmetric(FrameStiff(a, b, g, d, h), 1 .. 6)
<1> DEFINE R == [1 .. 6 -> Int]
<1>1. -s \in Int /\ -a \in Int /\ -b \in Int /\ -g \in Int /\ 0 \in Int /\ 1 \in Int
  OBVIOUS
<1>2. /\ <<c, s, 0, 0, 0, 0>> \in R /\ <<-s, c, 0, 0, 0, 0>> \in R /\ <<0, 0, 1, 0, 0, 0>> \in R
      /\ <<0, 0, 0, c, s, 0>> \in R /\ <<0, 0, 0, -s, c, 0>> \in R /\ <<0, 0, 0, 0, 0, 1>> \in R
  BY <1>1, RowsOfSix, Zenon
<1>3. /\ <<a, 0, 0, -a, 0, 0>> \in R /\ <<0, b, g, 0, -b, g>> \in R /\ <<0, g, d, 0, -g, h>> \in R
      /\ <<-a, 0, 0, a, 0, 0>> \in R /\ <<0, -b, -g, 0, b, -g>> \in R /\ <<0, g, h, 0, -g, d>> \in R
  BY <1>1, RowsOfSix, Zenon
<1> HIDE DEF R
<1>4. FrameTurn(c, s) \in [1 .. 6 -> R]
  BY <1>2, TablesOfSix, Zenon DEF FrameTurn
<1>5. FrameStiff(a, b, g, d, h) \in [1 .. 6 -> R]
  BY <1>3, TablesOfSix, Zenon DEF FrameStiff
<1>6. Symmetric(FrameStiff(a, b, g, d, h), 1 .. 6)
  BY DEF Symmetric, FrameStiff
<1>7. QED
  BY <1>4, <1>5, <1>6 DEF R, Matrices

\* What the truss element's table is: a times the product of two directions.
LEMMA TrussForm ==
    ASSUME NEW a \in Int, NEW x \in Vectors(1 .. 4), NEW y \in Vectors(1 .. 4)
    PROVE  Form(TrussStiff(a), x, y, 1 .. 4) = a * ((x[1] - x[3]) * (y[1] - y[3]))
<1> DEFINE K == TrussStiff(a)
           row(l) == [m \in 1 .. 4 |-> K[l][m] * y[m]]
           f == [l \in 1 .. 4 |-> x[l] * Image(K, y, 1 .. 4)[l]]
<1>1. \A k \in 1 .. 4 : x[k] \in Int /\ y[k] \in Int
  BY DEF Vectors
<1>2. /\ K[1] = <<a, 0, -a, 0>> /\ K[2] = <<0, 0, 0, 0>> /\ K[3] = <<-a, 0, a, 0>> /\ K[4] = <<0, 0, 0, 0>>
  BY DEF TrussStiff
<1>3. ASSUME NEW l \in 1 .. 4
      PROVE  Image(K, y, 1 .. 4)[l] = K[l][1] * y[1] + K[l][2] * y[2] + K[l][3] * y[3] + K[l][4] * y[4]
  <2>1. \A m \in 1 .. 4 : row(l)[m] \in Int
    <3>1. \A m \in 1 .. 4 : K[l][m] \in Int
      BY TrussTables, Zenon DEF Matrices
    <3> HIDE DEF K
    <3>2. QED
      BY <1>1, <3>1
  <2>2. Image(K, y, 1 .. 4)[l] = SumOver(row(l), 1 .. 4)
    BY DEF Image, Times
  <2>3. SumOver(row(l), 1 .. 4) = row(l)[1] + row(l)[2] + row(l)[3] + row(l)[4]
    <3> HIDE DEF row
    <3>1. QED
      BY <2>1, SumOfFour
  <2> HIDE DEF K
  <2>4. QED
    BY <2>2, <2>3
<1>4. /\ Image(K, y, 1 .. 4)[1] = a * y[1] + (-a) * y[3]
      /\ Image(K, y, 1 .. 4)[2] = 0
      /\ Image(K, y, 1 .. 4)[3] = (-a) * y[1] + a * y[3]
      /\ Image(K, y, 1 .. 4)[4] = 0
  <2>1. /\ K[1][1] = a /\ K[1][2] = 0 /\ K[1][3] = -a /\ K[1][4] = 0
        /\ K[2][1] = 0 /\ K[2][2] = 0 /\ K[2][3] = 0 /\ K[2][4] = 0
        /\ K[3][1] = -a /\ K[3][2] = 0 /\ K[3][3] = a /\ K[3][4] = 0
        /\ K[4][1] = 0 /\ K[4][2] = 0 /\ K[4][3] = 0 /\ K[4][4] = 0
    BY <1>2
  <2>2. \A z \in Int : 0 * z = 0
    OBVIOUS
  <2>3. y[1] \in Int /\ y[2] \in Int /\ y[3] \in Int /\ y[4] \in Int
    BY <1>1
  <2>4. a * y[1] \in Int /\ (-a) * y[3] \in Int /\ (-a) * y[1] \in Int /\ a * y[3] \in Int
    BY <2>3
  <2> HIDE DEF K
  <2>5. QED
    BY <1>3, <2>1, <2>2, <2>3, <2>4
<1>5. Form(K, x, y, 1 .. 4) = SumOver(f, 1 .. 4)
  BY DEF Form, Times
<1>6. \A l \in 1 .. 4 : f[l] \in Int
  <2>1. \A l \in 1 .. 4 : Image(K, y, 1 .. 4)[l] \in Int
    <3>1. IsFiniteSet(1 .. 4)
      <4>1. 1 \in Int /\ 4 \in Int
        OBVIOUS
      <4>2. QED
        BY <4>1, FS_Interval, Zenon
    <3>2. K \in Matrices(1 .. 4)
      BY TrussTables
    <3> HIDE DEF K
    <3>3. Image(K, y, 1 .. 4) \in Vectors(1 .. 4)
      BY <3>1, <3>2, TimesType
    <3>4. QED
      BY <3>3 DEF Vectors
  <2> HIDE DEF K
  <2>2. QED
    BY <1>1, <2>1
<1>7. SumOver(f, 1 .. 4) = f[1] + f[2] + f[3] + f[4]
  <2> HIDE DEF f
  <2>1. QED
    BY <1>6, SumOfFour
<1>8. f[1] + f[2] + f[3] + f[4]
        = x[1] * (a * y[1] + (-a) * y[3]) + x[3] * ((-a) * y[1] + a * y[3])
  <2>1. f[1] = x[1] * (a * y[1] + (-a) * y[3]) /\ f[3] = x[3] * ((-a) * y[1] + a * y[3])
    <3> HIDE DEF K
    <3>1. QED
      BY <1>4
  <2>2. f[2] = x[2] * 0 /\ f[4] = x[4] * 0
    <3> HIDE DEF K
    <3>1. QED
      BY <1>4
  <2>3. \A z \in Int : z * 0 = 0
    OBVIOUS
  <2>4. f[2] = 0 /\ f[4] = 0
    BY <1>1, <2>2, <2>3
  <2>5. f[1] \in Int /\ f[3] \in Int
    BY <1>6
  <2> HIDE DEF f
  <2>6. f[1] + f[2] + f[3] + f[4] = f[1] + f[3]
    BY <2>4, <2>5
  <2>7. QED
    BY <2>1, <2>6
<1>9. \A p, q, r, s \in Int :
          p * (a * r + (-a) * s) + q * ((-a) * r + a * s) = a * ((p - q) * (r - s))
  <2> TAKE p, q, r, s \in Int
  <2>1. a * r + (-a) * s = a * (r - s) /\ (-a) * r + a * s = -(a * (r - s))
    OBVIOUS
  <2>2. \A z \in Int : p * z + q * (-z) = z * (p - q)
    OBVIOUS
  <2>3. \A z \in Int : (a * z) * (p - q) = a * ((p - q) * z)
    OBVIOUS
  <2>4. r - s \in Int /\ a * (r - s) \in Int
    OBVIOUS
  <2>5. QED
    BY <2>1, <2>2, <2>3, <2>4
<1>10. QED
  <2>1. x[1] \in Int /\ x[3] \in Int /\ y[1] \in Int /\ y[3] \in Int
    BY <1>1
  <2> HIDE DEF f, K
  <2>2. Form(K, x, y, 1 .. 4) = a * ((x[1] - x[3]) * (y[1] - y[3]))
    BY <1>5, <1>7, <1>8, <1>9, <2>1
  <2>3. QED
    BY <2>2 DEF K

\* The truss element's explicit table is the product of its three matrices.
LEMMA TrussProduct ==
    ASSUME NEW c \in Int, NEW s \in Int, NEW a \in Int
    PROVE  LET G == TrussGlobal((c * c * a) % P, (c * s * a) % P, (s * s * a) % P)
               T == TrussTurn(c, s)
           IN  /\ G \in Matrices(1 .. 4)
               /\ \A k, q \in 1 .. 4 : Same(P, G[k][q],
                      Form(TrussStiff(a), MatrixTrans(T)[k], MatrixTrans(T)[q], 1 .. 4))
<1> DEFINE T == TrussTurn(c, s)
           Tt == MatrixTrans(T)
           V == <<c, s, -c, -s>>
<1>1. PICK cc \in Int, cs \in Int, ss \in Int :
          cc = c * c * a /\ cs = c * s * a /\ ss = s * s * a
  <2>1. c * c * a \in Int /\ c * s * a \in Int /\ s * s * a \in Int
    OBVIOUS
  <2>2. QED
    BY <2>1, Zenon
<1>2. ASSUME NEW z \in Int PROVE /\ z % P \in Int
                                 /\ Same(P, z % P, z) /\ Same(P, -(z % P), -z)
  <2>1. z % P \in Int /\ Same(P, z % P, z)
    BY PrimeType, SameIsEquivalence
  <2>2. PICK r \in Int : r = z % P
    BY <2>1
  <2>3. -1 \in Int
    OBVIOUS
  <2>4. Same(P, r * (-1), z * (-1))
    BY <2>1, <2>2, <2>3, SameScales
  <2>5. r * (-1) = -r /\ z * (-1) = -z
    OBVIOUS
  <2>6. QED
    BY <2>1, <2>2, <2>4, <2>5
<1>3. PICK rcc \in Int, rcs \in Int, rss \in Int :
          rcc = cc % P /\ rcs = cs % P /\ rss = ss % P
  BY <1>2, Zenon
<1>4. /\ Same(P, rcc, cc) /\ Same(P, -rcc, -cc) /\ Same(P, rcs, cs) /\ Same(P, -rcs, -cs)
      /\ Same(P, rss, ss) /\ Same(P, -rss, -ss)
  BY <1>2, <1>3
<1>5. \A k, q \in 1 .. 4 : Same(P, TrussGlobal(rcc, rcs, rss)[k][q], TrussGlobal(cc, cs, ss)[k][q])
  BY <1>4 DEF TrussGlobal
<1>6. TrussGlobal(rcc, rcs, rss) \in Matrices(1 .. 4)
  <2> DEFINE R == [1 .. 4 -> Int]
  <2>1. -rcc \in Int /\ -rcs \in Int /\ -rss \in Int
    OBVIOUS
  <2>2. /\ <<rcc, rcs, -rcc, -rcs>> \in R /\ <<rcs, rss, -rcs, -rss>> \in R
        /\ <<-rcc, -rcs, rcc, rcs>> \in R /\ <<-rcs, -rss, rcs, rss>> \in R
    BY <2>1, RowsOfFour, Zenon
  <2> HIDE DEF R
  <2>3. TrussGlobal(rcc, rcs, rss) \in [1 .. 4 -> R]
    BY <2>2, TablesOfFour, Zenon DEF TrussGlobal
  <2>4. QED
    BY <2>3 DEF R, Matrices
<1>7. \A k, q \in 1 .. 4 : TrussGlobal(cc, cs, ss)[k][q] = a * (V[k] * V[q])
  <2>1. /\ a * (c * c) = cc /\ a * (c * s) = cs /\ a * (s * c) = cs /\ a * (s * s) = ss
    BY <1>1
  <2>2. \A p, q \in Int : /\ a * (p * (-q)) = -(a * (p * q)) /\ a * ((-p) * q) = -(a * (p * q))
                          /\ a * ((-p) * (-q)) = a * (p * q)
    OBVIOUS
  <2>3. /\ a * (c * (-c)) = -cc /\ a * (c * (-s)) = -cs /\ a * (s * (-c)) = -cs /\ a * (s * (-s)) = -ss
        /\ a * ((-c) * c) = -cc /\ a * ((-c) * s) = -cs /\ a * ((-s) * c) = -cs /\ a * ((-s) * s) = -ss
        /\ a * ((-c) * (-c)) = cc /\ a * ((-c) * (-s)) = cs
        /\ a * ((-s) * (-c)) = cs /\ a * ((-s) * (-s)) = ss
    BY <2>1, <2>2
  <2>4. V[1] = c /\ V[2] = s /\ V[3] = -c /\ V[4] = -s
    OBVIOUS
  <2> DEFINE Row(p, q, r, t) == <<p, q, r, t>>
             Products(p, q, r, t) ==
                 <<<<a * (p * p), a * (p * q), a * (p * r), a * (p * t)>>,
                   <<a * (q * p), a * (q * q), a * (q * r), a * (q * t)>>,
                   <<a * (r * p), a * (r * q), a * (r * r), a * (r * t)>>,
                   <<a * (t * p), a * (t * q), a * (t * r), a * (t * t)>>>>
  <2>5. TrussGlobal(cc, cs, ss) = Products(c, s, -c, -s)
    BY <2>1, <2>3, Zenon DEF TrussGlobal
  <2>6. \A p, q, r, t : \A k, l \in 1 .. 4 :
            Products(p, q, r, t)[k][l] = a * (Row(p, q, r, t)[k] * Row(p, q, r, t)[l])
    OBVIOUS
  <2>7. V = Row(c, s, -c, -s)
    OBVIOUS
  <2> HIDE DEF Products, Row, V
  <2>8. \A k, l \in 1 .. 4 :
            Products(c, s, -c, -s)[k][l] = a * (Row(c, s, -c, -s)[k] * Row(c, s, -c, -s)[l])
    BY <2>6
  <2>9. QED
    BY <2>5, <2>7, <2>8, Zenon
<1>8. ASSUME NEW k \in 1 .. 4, NEW q \in 1 .. 4
      PROVE  Form(TrussStiff(a), Tt[k], Tt[q], 1 .. 4) = a * (V[k] * V[q])
  <2>1. T \in Matrices(1 .. 4)
    BY TrussTables
  <2>2. \A l \in 1 .. 4 : Tt[l] \in Vectors(1 .. 4) /\ Tt[l][1] = T[1][l] /\ Tt[l][3] = T[3][l]
    <3> HIDE DEF T
    <3>1. QED
      BY <2>1, MatrixTransType DEF Matrices, Vectors
  <2>3. \A l \in 1 .. 4 : T[1][l] - T[3][l] = V[l]
    BY DEF TrussTurn
  <2>4. \A l \in 1 .. 4 : Tt[l][1] - Tt[l][3] = V[l]
    <3> HIDE DEF T, V, Tt
    <3>1. QED
      BY <2>2, <2>3
  <2> HIDE DEF T, V, Tt
  <2>5. QED
    BY <2>2, <2>4, TrussForm
<1>9. QED
  <2>1. TrussGlobal((c * c * a) % P, (c * s * a) % P, (s * s * a) % P) = TrussGlobal(rcc, rcs, rss)
    BY <1>1, <1>3, Zenon
  <2>2. \A k, q \in 1 .. 4 : Same(P, TrussGlobal(rcc, rcs, rss)[k][q],
                                     Form(TrussStiff(a), Tt[k], Tt[q], 1 .. 4))
    <3> HIDE DEF Tt, V
    <3>1. QED
      BY <1>5, <1>7, <1>8, Zenon
  <2>3. QED
    BY <1>6, <2>1, <2>2, Zenon

-----------------------------------------------------------------------------
(* The stiffness of an element. *)

\* The elements have a length, and with it directions.
LEMMA ElementGeometry ==
    ASSUME LegalInput, NEW e \in Elements
    PROVE  /\ structure.elem[e].type \in {"truss", "frame"}
           /\ structure.elem[e].EA \in Int /\ structure.elem[e].EI \in Int
           /\ Length(e) \in 1 .. P - 1 /\ Cos(e) \in Int /\ Sin(e) \in Int
<1>1. Legal(structure) /\ Measured(structure) /\ e \in DOMAIN structure.elem
  BY DEF LegalInput, Elements
<1>2. structure.elem[e].type \in {"truss", "frame"} /\ structure.elem[e].node \in Node(structure) \X Node(structure)
  BY <1>1 DEF Legal
<1>3. structure.elem[e].EA \in Int /\ structure.elem[e].EI \in Int
  BY <1>1 DEF Measured
<1>4. Delta(e, 1) \in Int /\ Delta(e, 2) \in Int
  <2>1. PICK m \in Node(structure), n \in Node(structure) :
            m = structure.elem[e].node[1] /\ n = structure.elem[e].node[2]
    BY <1>2
  <2>2. \A axis \in 1 .. 2 : structure.pos[m][axis] \in Int /\ structure.pos[n][axis] \in Int
    BY <1>1 DEF Measured
  <2>3. \A axis \in 1 .. 2 : Delta(e, axis) = structure.pos[n][axis] - structure.pos[m][axis]
    BY <2>1 DEF Delta
  <2>4. \A axis \in 1 .. 2 : Delta(e, axis) \in Int
    BY <2>2, <2>3
  <2>5. QED
    BY <2>4
<1>5. Length(e) \in 1 .. P - 1
  <2>1. \E l \in 1 .. P - 1 : l * l = Delta(e, 1) * Delta(e, 1) + Delta(e, 2) * Delta(e, 2)
    BY <1>1, Zenon DEF Measured, Delta
  <2>2. QED
    BY <2>1, Zenon DEF Length
<1>6. Unit(Length(e)) /\ Length(e) \in Int
  BY <1>5, UnitsExist
<1>7. Cos(e) \in 0 .. P - 1 /\ Sin(e) \in 0 .. P - 1
  BY <1>4, <1>6, DivType DEF Cos, Sin
<1>8. QED
  BY <1>2, <1>3, <1>5, <1>7

\* The places of an element's matrices.
Places(e) == IF IsTruss(e) THEN 1 .. 4 ELSE 1 .. 6

\* They are finitely many, and there is one.
LEMMA PlacesType == \A e : IsFiniteSet(Places(e)) /\ 1 \in Places(e)
<1>1. IsFiniteSet(1 .. 4) /\ IsFiniteSet(1 .. 6)
  <2>1. 1 \in Int /\ 4 \in Int /\ 6 \in Int
    OBVIOUS
  <2>2. QED
    BY <2>1, FS_Interval, Zenon
<1>2. QED
  BY <1>1 DEF Places

\* What GKAssembly adds up is the local stiffness turned to global directions,
\* for both kinds of element.
LEMMA ElementStiffness ==
    ASSUME LegalInput, NEW e \in Elements
    PROVE  /\ Rotation(e) \in Matrices(Places(e)) /\ LocalStiff(e) \in Matrices(Places(e))
           /\ GlobalStiff(e) \in Matrices(Places(e)) /\ Symmetric(LocalStiff(e), Places(e))
           /\ \A k, q \in Places(e) :
                  Same(P, GlobalStiff(e)[k][q],
                          Form(LocalStiff(e), MatrixTrans(Rotation(e))[k], MatrixTrans(Rotation(e))[q], Places(e)))
<1> DEFINE l == Length(e)
           EI == structure.elem[e].EI
           a == Div(structure.elem[e].EA, l)
           b == Div(12 * EI, l * l * l)
           g == Div(6 * EI, l * l)
           d == Div(4 * EI, l)
           h == Div(d, 2)
           c == Cos(e)
           s == Sin(e)
<1>1. c \in Int /\ s \in Int /\ l \in 1 .. P - 1 /\ EI \in Int /\ structure.elem[e].EA \in Int
  BY ElementGeometry
<1>2. a \in Int /\ b \in Int /\ g \in Int /\ d \in Int /\ h \in Int
  <2>1. l \in Int /\ Unit(l) /\ l * l \in Int /\ l * l * l \in Int
    BY <1>1, UnitsExist
  <2>2. Unit(l * l) /\ Unit(l * l * l)
    <3> HIDE DEF l
    <3>1. Unit(l * l)
      BY <2>1, UnitsMultiply
    <3>2. QED
      BY <2>1, <3>1, UnitsMultiply
  <2>3. 2 \in 1 .. P - 1 /\ 2 \in Int /\ Unit(2)
    <3>1. 2 \in 1 .. P - 1
      BY PrimeType
    <3>2. QED
      BY <3>1, UnitsExist
  <2>4. 12 * EI \in Int /\ 6 * EI \in Int /\ 4 * EI \in Int
    BY <1>1
  <2>5. a \in 0 .. P - 1 /\ b \in 0 .. P - 1 /\ g \in 0 .. P - 1 /\ d \in 0 .. P - 1
    <3> HIDE DEF l, EI
    <3>1. QED
      BY <1>1, <2>1, <2>2, <2>4, DivType, Zenon
  <2>6. d \in Int
    BY <2>5
  <2>7. h \in 0 .. P - 1
    <3> HIDE DEF d
    <3>1. QED
      BY <2>3, <2>6, DivType
  <2> HIDE DEF a, b, g, d, h
  <2>8. QED
    BY <2>5, <2>7
<1>3. CASE IsTruss(e)
  <2>1. Places(e) = 1 .. 4
    BY <1>3 DEF Places
  <2>2. Rotation(e) = TrussTurn(c, s) /\ LocalStiff(e) = TrussStiff(a)
    BY <1>3, Zenon DEF Rotation, LocalStiff, TrussTurn, TrussStiff
  <2>3. GlobalStiff(e) = TrussGlobal((c * c * a) % P, (c * s * a) % P, (s * s * a) % P)
    BY <1>3, Zenon DEF GlobalStiff, TrussGlobal
  <2> HIDE DEF a, c, s
  <2>4. TrussTurn(c, s) \in Matrices(1 .. 4) /\ TrussStiff(a) \in Matrices(1 .. 4)
    BY <1>1, <1>2, TrussTables, Zenon
  <2>5. Symmetric(TrussStiff(a), 1 .. 4)
    BY DEF Symmetric, TrussStiff
  <2>6. /\ TrussGlobal((c * c * a) % P, (c * s * a) % P, (s * s * a) % P) \in Matrices(1 .. 4)
        /\ \A k, q \in 1 .. 4 :
               Same(P, TrussGlobal((c * c * a) % P, (c * s * a) % P, (s * s * a) % P)[k][q],
                       Form(TrussStiff(a), MatrixTrans(TrussTurn(c, s))[k], MatrixTrans(TrussTurn(c, s))[q], 1 .. 4))
    BY <1>1, <1>2, TrussProduct, Zenon
  <2>7. QED
    BY <2>1, <2>2, <2>3, <2>4, <2>5, <2>6, Zenon
<1>4. CASE ~ IsTruss(e)
  <2>1. Places(e) = 1 .. 6
    BY <1>4 DEF Places
  <2>2. Rotation(e) = FrameTurn(c, s) /\ LocalStiff(e) = FrameStiff(a, b, g, d, h)
    BY <1>4, Zenon DEF Rotation, LocalStiff, FrameTurn, FrameStiff
  <2>3. GlobalStiff(e) = MatrixMultiply(MatrixMultiply(MatrixTrans(Rotation(e)), LocalStiff(e)), Rotation(e))
    BY <1>4 DEF GlobalStiff
  <2> HIDE DEF a, b, c, d, g, h, s
  <2>4. /\ FrameTurn(c, s) \in Matrices(1 .. 6) /\ FrameStiff(a, b, g, d, h) \in Matrices(1 .. 6)
        /\ Symmetric(FrameStiff(a, b, g, d, h), 1 .. 6)
    BY <1>1, <1>2, FrameTables
  <2>5. /\ Rotation(e) \in Matrices(Places(e)) /\ LocalStiff(e) \in Matrices(Places(e))
        /\ Symmetric(LocalStiff(e), Places(e))
    BY <2>1, <2>2, <2>4, Zenon
  <2>6. QED
    BY <2>3, <2>5, PlacesType, RotatedStiffness
<1>5. QED
  BY <1>3, <1>4


\* The elements' degrees of freedom have been looked up.
Connected == pElemDOF = [e \in Elements |-> ElementDOFs(structure.elem[e], iaDOFIndex)]

\* There is one for every place of the element's matrices.
LEMMA ElementPlaces ==
    ASSUME LegalInput, Connected, NEW e \in Elements
    PROVE  1 .. Len(pElemDOF[e]) = Places(e) /\ DOMAIN pElemDOF[e] = Places(e)
<1>1. pElemDOF[e] = ElementDOFs(structure.elem[e], iaDOFIndex)
  BY DEF Connected
<1>2. CASE IsTruss(e)
  <2>1. \E p, q, r, s : ElementDOFs(structure.elem[e], iaDOFIndex) = <<p, q, r, s>>
    BY <1>2, Zenon DEF ElementDOFs, IsTruss
  <2>2. \A p, q, r, s : Len(<<p, q, r, s>>) = 4 /\ DOMAIN <<p, q, r, s>> = 1 .. 4
    OBVIOUS
  <2>3. QED
    BY <1>1, <1>2, <2>1, <2>2 DEF Places
<1>3. CASE ~ IsTruss(e)
  <2>1. \E p, q, r, s, t, u : ElementDOFs(structure.elem[e], iaDOFIndex) = <<p, q, r, s, t, u>>
    BY <1>3, Zenon DEF ElementDOFs, IsTruss
  <2>2. \A p, q, r, s, t, u : Len(<<p, q, r, s, t, u>>) = 6 /\ DOMAIN <<p, q, r, s, t, u>> = 1 .. 6
    OBVIOUS
  <2>3. QED
    BY <1>1, <1>3, <2>1, <2>2 DEF Places
<1>4. QED
  BY <1>2, <1>3

-----------------------------------------------------------------------------
(* What an element gives to a row and a column. *)

\* The places of an element that have the number i, and what the element gives
\* to row i and column j.
PlacesOf(e, i) == {k \in 1 .. Len(pElemDOF[e]) : pElemDOF[e][k] = i}
Block(e, i, j) ==
    Total([ab \in PlacesOf(e, i) \X PlacesOf(e, j) |-> GlobalStiff(e)[ab[1]][ab[2]]])

\* They are places of the element.
LEMMA PlacesOfType ==
    ASSUME LegalInput, Connected, NEW e \in Elements
    PROVE  \A i : IsFiniteSet(PlacesOf(e, i)) /\ PlacesOf(e, i) \in SUBSET Places(e)
<1>1. \A i : PlacesOf(e, i) \in SUBSET Places(e)
  BY ElementPlaces DEF PlacesOf
<1>2. QED
  BY <1>1, PlacesType, FS_Subset

\* A block is added up row by row.
LEMMA BlockByRows ==
    ASSUME LegalInput, Connected, NEW e \in Elements, NEW i, NEW j
    PROVE  LET S == PlacesOf(e, i)
               T == PlacesOf(e, j)
               rows == [k \in S |-> SumOver([q \in T |-> GlobalStiff(e)[k][q]], T)]
           IN  /\ Block(e, i, j) = SumOver(rows, S) % P
               /\ \A k \in S : rows[k] \in Int
<1> DEFINE S == PlacesOf(e, i)
           T == PlacesOf(e, j)
           G == GlobalStiff(e)
           a == [ab \in S \X T |-> G[ab[1]][ab[2]]]
           rows == [k \in S |-> SumOver([q \in T |-> G[k][q]], T)]
<1>1. IsFiniteSet(S) /\ IsFiniteSet(T) /\ S \in SUBSET Places(e) /\ T \in SUBSET Places(e)
  BY PlacesOfType
<1>2. \A k, q \in Places(e) : G[k][q] \in Int
  BY ElementStiffness DEF Matrices
<1> HIDE DEF S, T, G
<1>3. /\ \A k \in S : \A q \in T : a[<<k, q>>] = G[k][q] /\ G[k][q] \in Int
      /\ DOMAIN a = S \X T /\ \A z \in S \X T : a[z] \in Int
  BY <1>1, <1>2
<1>4. \A k \in S : RowSum(a, k, T) = rows[k] /\ rows[k] \in Int
  <2>1. ASSUME NEW k \in S PROVE RowSum(a, k, T) = rows[k] /\ rows[k] \in Int
    <3> DEFINE row == [q \in T |-> G[k][q]]
    <3>1. [q \in T |-> a[<<k, q>>]] = row
      BY <1>3
    <3>2. \A q \in T : row[q] \in Int
      BY <1>3, Zenon
    <3>3. SumOver(row, T) \in Int
      <4> HIDE DEF row
      <4>1. QED
        BY <1>1, <3>2, SumOverType
    <3>4. rows[k] = SumOver(row, T)
      OBVIOUS
    <3> HIDE DEF row, a, rows
    <3>5. QED
      BY <3>1, <3>3, <3>4, Zenon DEF RowSum
  <2>2. QED
    BY <2>1, Zenon
<1>5. SumOver(a, S \X T) = SumOver([k \in S |-> RowSum(a, k, T)], S)
  <2> HIDE DEF a
  <2>1. QED
    BY <1>1, <1>3, SumPairs
<1>6. [k \in S |-> RowSum(a, k, T)] = rows
  <2> HIDE DEF a
  <2>1. QED
    BY <1>4
<1>7. Total(a) = SumOver(a, S \X T) % P
  <2>1. IsFiniteSet(S \X T)
    BY <1>1, FS_Product
  <2> HIDE DEF a
  <2>2. QED
    BY <1>3, <2>1, TotalType
<1>8. Block(e, i, j) = Total(a)
  BY DEF Block, S, T, G
<1> HIDE DEF a, rows
<1>9. Block(e, i, j) = SumOver(rows, S) % P /\ \A k \in S : rows[k] \in Int
  BY <1>4, <1>5, <1>6, <1>7, <1>8, Zenon
<1>10. QED
  BY <1>9 DEF rows, S, T, G

\* The matrix of an element is symmetric, and so are its blocks.
LEMMA BlockIsSymmetric ==
    ASSUME LegalInput, Connected, NEW e \in Elements, NEW i, NEW j
    PROVE  Block(e, i, j) = Block(e, j, i)
<1> DEFINE S == PlacesOf(e, i)
           T == PlacesOf(e, j)
           G == GlobalStiff(e)
           a == [ab \in S \X T |-> G[ab[1]][ab[2]]]
           rows == [k \in S |-> SumOver([q \in T |-> G[k][q]], T)]
           columns == [q \in T |-> SumOver([k \in S |-> G[k][q]], S)]
           turned == [q \in T |-> SumOver([k \in S |-> G[q][k]], S)]
<1>1. IsFiniteSet(S) /\ IsFiniteSet(T) /\ S \in SUBSET Places(e) /\ T \in SUBSET Places(e)
  BY PlacesOfType
<1>2. \A k, q \in Places(e) : G[k][q] \in Int /\ Same(P, G[k][q], G[q][k])
  <2> DEFINE K == LocalStiff(e)
             Tt == MatrixTrans(Rotation(e))
             D == Places(e)
             form(k, q) == Form(K, Tt[k], Tt[q], D)
  <2>1. /\ G \in Matrices(D) /\ K \in Matrices(D) /\ Symmetric(K, D)
        /\ \A k, q \in D : Same(P, G[k][q], form(k, q))
    BY ElementStiffness
  <2>2. IsFiniteSet(D) /\ 1 \in D
    BY PlacesType
  <2>3. \A k \in D : Tt[k] \in Vectors(D)
    <3>1. Rotation(e) \in Matrices(D)
      BY ElementStiffness
    <3> HIDE DEF D
    <3>2. Tt \in Matrices(D)
      BY <2>2, <3>1, MatrixTransType
    <3> HIDE DEF Tt
    <3>3. QED
      BY <3>2 DEF Matrices, Vectors
  <2>4. \A k, q \in D : form(k, q) \in Int /\ form(k, q) = form(q, k)
    <3> HIDE DEF D, K, Tt
    <3>1. QED
      BY <2>1, <2>2, <2>3, FormIsSymmetric
  <2>5. \A k, q \in D : G[k][q] \in Int
    <3> HIDE DEF D, G
    <3>1. QED
      BY <2>1 DEF Matrices
  <2> HIDE DEF form, G, D
  <2>6. ASSUME NEW k \in D, NEW q \in D PROVE Same(P, G[k][q], G[q][k])
    <3>1. Same(P, G[k][q], form(k, q)) /\ Same(P, G[q][k], form(k, q))
      BY <2>1, <2>4, Zenon
    <3>2. G[k][q] \in Int /\ G[q][k] \in Int /\ form(k, q) \in Int
      BY <2>4, <2>5
    <3>3. Same(P, form(k, q), G[q][k])
      BY <3>1, <3>2, PrimeType, SameIsEquivalence
    <3>4. QED
      BY <3>1, <3>2, <3>3, SameChains, Zenon
  <2>7. QED
    BY <2>5, <2>6 DEF D
<1> HIDE DEF S, T, G
<1>3. \A k \in S : \A q \in T : a[<<k, q>>] = G[k][q] /\ a[<<k, q>>] \in Int
  BY <1>1, <1>2
<1>4. SumOver([k \in S |-> RowSum(a, k, T)], S) = SumOver([q \in T |-> ColumnSum(a, q, S)], T)
  <2> HIDE DEF a
  <2>1. QED
    BY <1>1, <1>3, SumSwaps
<1>5. [k \in S |-> RowSum(a, k, T)] = rows
  <2>1. ASSUME NEW k \in S PROVE RowSum(a, k, T) = SumOver([q \in T |-> G[k][q]], T)
    <3>1. [q \in T |-> a[<<k, q>>]] = [q \in T |-> G[k][q]]
      BY <1>3
    <3> HIDE DEF a
    <3>2. QED
      BY <3>1, Zenon DEF RowSum
  <2> HIDE DEF a
  <2>2. QED
    BY <2>1
<1>6. [q \in T |-> ColumnSum(a, q, S)] = columns
  <2>1. ASSUME NEW q \in T PROVE ColumnSum(a, q, S) = SumOver([k \in S |-> G[k][q]], S)
    <3>1. [k \in S |-> a[<<k, q>>]] = [k \in S |-> G[k][q]]
      BY <1>3
    <3> HIDE DEF a
    <3>2. QED
      BY <3>1, Zenon DEF ColumnSum
  <2> HIDE DEF a
  <2>2. QED
    BY <2>1
<1>7. \A q \in T : columns[q] \in Int /\ turned[q] \in Int /\ Same(P, columns[q], turned[q])
  <2>1. ASSUME NEW q \in T
        PROVE  columns[q] \in Int /\ turned[q] \in Int /\ Same(P, columns[q], turned[q])
    <3> DEFINE f == [k \in S |-> G[k][q]]
               g == [k \in S |-> G[q][k]]
    <3>1. \A k \in S : f[k] \in Int /\ g[k] \in Int /\ Same(P, f[k], g[k])
      BY <1>1, <1>2
    <3>2. columns[q] = SumOver(f, S) /\ turned[q] = SumOver(g, S)
      OBVIOUS
    <3> HIDE DEF f, g, columns, turned
    <3>3. SumOver(f, S) \in Int /\ SumOver(g, S) \in Int /\ Same(P, SumOver(f, S), SumOver(g, S))
      BY <1>1, <3>1, PrimeType, SumOverType, SumReduces
    <3>4. QED
      BY <3>2, <3>3
  <2>2. QED
    BY <2>1
<1>8. Same(P, SumOver(columns, T), SumOver(turned, T))
  <2> HIDE DEF columns, turned
  <2>1. QED
    BY <1>1, <1>7, PrimeType, SumReduces
<1>9. Block(e, i, j) = SumOver(rows, S) % P /\ Block(e, j, i) = SumOver(turned, T) % P
  BY BlockByRows DEF S, T, G
<1> HIDE DEF rows, columns, turned, a
<1>10. SumOver(rows, S) = SumOver(columns, T)
  BY <1>4, <1>5, <1>6, Zenon
<1>11. SumOver(columns, T) % P = SumOver(turned, T) % P
  BY <1>8 DEF Same
<1>12. QED
  BY <1>9, <1>10, <1>11, Zenon

\* What the elements give to row i and column j, block by block.
LEMMA StiffnessIsBlocks ==
    ASSUME LegalInput, Connected, NEW i, NEW j
    PROVE  Stiffness(i, j) = Total([e \in Elements |-> Block(e, i, j)])
<1> DEFINE unit(e) == [k \in 1 .. Len(pElemDOF[e]) |-> IF pElemDOF[e][k] = j THEN 1 ELSE 0]
           w(e) == MatrixVectorMultiply(MatrixTrans(Rotation(e)),
                       MatrixVectorMultiply(LocalStiff(e), MatrixVectorMultiply(Rotation(e), unit(e))))
           given(e) == Total([k \in PlacesOf(e, i) |-> w(e)[k]])
<1>1. ASSUME NEW e \in Elements PROVE given(e) = Block(e, i, j)
  <2> DEFINE D == Places(e)
             S == PlacesOf(e, i)
             T == PlacesOf(e, j)
             G == GlobalStiff(e)
             f == [k \in S |-> w(e)[k]]
             rows == [k \in S |-> SumOver([q \in T |-> G[k][q]], T)]
  <2>1. IsFiniteSet(D) /\ 1 \in D /\ IsFiniteSet(S) /\ S \in SUBSET D
    BY PlacesType, PlacesOfType
  <2>2. unit(e) \in [D -> {0, 1}] /\ T = {k \in D : unit(e)[k] = 1}
    <3>1. 1 .. Len(pElemDOF[e]) = D
      BY ElementPlaces
    <3>2. unit(e) = [k \in D |-> IF pElemDOF[e][k] = j THEN 1 ELSE 0]
      BY <3>1
    <3>3. T = {k \in D : pElemDOF[e][k] = j}
      BY <3>1 DEF PlacesOf
    <3> HIDE DEF D, unit
    <3>4. QED
      BY <3>2, <3>3
  <2>3. \A k \in D : w(e)[k] \in Int /\ Same(P, w(e)[k], SumOver([q \in T |-> G[k][q]], T))
    <3>1. /\ Rotation(e) \in Matrices(D) /\ LocalStiff(e) \in Matrices(D) /\ G \in Matrices(D)
          /\ \A k, q \in D : Same(P, G[k][q],
                 Form(LocalStiff(e), MatrixTrans(Rotation(e))[k], MatrixTrans(Rotation(e))[q], D))
      BY ElementStiffness
    <3> DEFINE R == Rotation(e)
               K == LocalStiff(e)
               v == unit(e)
    <3> HIDE DEF D, G, R, K, v, T
    <3>2. LET U == {k \in D : v[k] = 1}
              x == MatrixVectorMultiply(MatrixTrans(R), MatrixVectorMultiply(K, MatrixVectorMultiply(R, v)))
          IN  \A k \in D : x[k] \in Int /\ Same(P, x[k], SumOver([q \in U |-> G[k][q]], U))
      <4>1. /\ R \in Matrices(D) /\ K \in Matrices(D) /\ G \in Matrices(D)
            /\ Turned(G, K, R, D)
        BY <3>1 DEF R, K, Turned
      <4>2. v \in [D -> {0, 1}]
        BY <2>2 DEF v
      <4>3. QED
        BY <2>1, <4>1, <4>2, UnitResponse
    <3>3. T = {k \in D : v[k] = 1}
      BY <2>2 DEF v
    <3>4. w(e) = MatrixVectorMultiply(MatrixTrans(R), MatrixVectorMultiply(K, MatrixVectorMultiply(R, v)))
      BY Zenon DEF R, K, v
    <3> HIDE DEF w
    <3>5. QED
      BY <3>2, <3>3, <3>4, Zenon
  <2>4. /\ Block(e, i, j) = SumOver(rows, S) % P
        /\ \A k \in S : rows[k] \in Int
    BY BlockByRows
  <2> HIDE DEF D, S, T, G, w
  <2>5. \A k \in S : f[k] \in Int /\ rows[k] \in Int /\ Same(P, f[k], rows[k])
    BY <2>1, <2>3, <2>4
  <2>6. DOMAIN f = S /\ given(e) = Total(f)
    BY DEF S
  <2> HIDE DEF f, rows, given
  <2>7. Total(f) = SumOver(f, S) % P
    BY <2>1, <2>5, <2>6, TotalType
  <2>8. Same(P, SumOver(f, S), SumOver(rows, S))
    BY <2>1, <2>5, PrimeType, SumReduces
  <2>9. SumOver(f, S) % P = SumOver(rows, S) % P
    BY <2>8 DEF Same
  <2>10. QED
    BY <2>4, <2>6, <2>7, <2>9, Zenon
<1>2. Stiffness(i, j) = Total([e \in Elements |-> given(e)])
  BY Zenon DEF Stiffness, PlacesOf
<1>3. [e \in Elements |-> given(e)] = [e \in Elements |-> Block(e, i, j)]
  <2> HIDE DEF given
  <2>1. QED
    BY <1>1
<1>4. QED
  BY <1>2, <1>3, Zenon

-----------------------------------------------------------------------------
(* The profile and its addresses. *)

\* The profile has been laid out for elements whose degrees of freedom have numbers.
Profiled ==
    /\ nTotalDOF \in Nat
    /\ \A e \in DOMAIN pElemDOF : Range(pElemDOF[e]) \in SUBSET (0 .. nTotalDOF - 1)
    /\ pDiag = DiagonalAddresses(pElemDOF, nTotalDOF)

\* A row begins right behind the diagonal element of the row before.
LEMMA RowAddresses ==
    ASSUME Profiled, NEW i \in 0 .. nTotalDOF - 1
    PROVE  /\ pDiag[i] \in Nat /\ HalfBandOf(i) \in 1 .. i + 1 /\ FirstColumn(i) \in 0 .. i
           /\ i = 0 => pDiag[i] = 0
           /\ i # 0 => /\ HalfBandOf(i) = HalfBand(pElemDOF, i)
                       /\ i - 1 \in 0 .. nTotalDOF - 1 /\ pDiag[i - 1] \in Nat
                       /\ pDiag[i] = HalfBandOf(i) + pDiag[i - 1]
<1>1. AreNumbers(pElemDOF) /\ nTotalDOF \in Nat
  <2>1. 0 .. nTotalDOF - 1 \in SUBSET Nat
    OBVIOUS
  <2>2. QED
    BY <2>1 DEF Profiled, AreNumbers
<1>2. Addresses(pElemDOF, nTotalDOF, pDiag) /\ pDiag \in [0 .. nTotalDOF - 1 -> Nat]
  BY <1>1, DiagonalAddressesType, Zenon DEF Profiled
<1>3. pDiag[i] = IF i = 0 THEN 0 ELSE HalfBand(pElemDOF, i) + pDiag[i - 1]
  BY <1>2, Zenon DEF Addresses
<1>4. HalfBand(pElemDOF, i) \in 1 .. i + 1 /\ i \in Nat
  BY <1>1, HalfBandType
<1>5. CASE i = 0
  BY <1>2, <1>3, <1>5 DEF HalfBandOf, FirstColumn
<1>6. CASE i # 0
  <2>1. i - 1 \in 0 .. nTotalDOF - 1
    BY <1>1, <1>6
  <2>2. pDiag[i - 1] \in Nat /\ pDiag[i] \in Nat
    BY <1>2, <2>1
  <2>3. HalfBandOf(i) = pDiag[i] - pDiag[i - 1]
    BY <1>6 DEF HalfBandOf
  <2>4. HalfBandOf(i) = HalfBand(pElemDOF, i)
    BY <1>3, <1>4, <1>6, <2>2, <2>3
  <2>5. FirstColumn(i) = i - HalfBandOf(i) + 1
    BY DEF FirstColumn
  <2>6. FirstColumn(i) \in 0 .. i
    BY <1>4, <2>4, <2>5
  <2>7. QED
    BY <1>3, <1>4, <1>6, <2>1, <2>2, <2>4, <2>6
<1>7. QED
  BY <1>5, <1>6

\* The diagonal elements are stored in the order of the rows.
LEMMA DiagonalsInOrder ==
    ASSUME Profiled
    PROVE  \A i, k \in 0 .. nTotalDOF - 1 : i <= k => pDiag[i] <= pDiag[k]
<1>1. SUFFICES ASSUME NEW i \in 0 .. nTotalDOF - 1
               PROVE  \A k \in 0 .. nTotalDOF - 1 : i <= k => pDiag[i] <= pDiag[k]
  OBVIOUS
<1> DEFINE B == {k \in 0 .. nTotalDOF - 1 : i <= k /\ ~ (pDiag[i] <= pDiag[k])}
<1>2. ASSUME B # {} PROVE FALSE
  <2>1. PICK k \in B : \A m \in B : k <= m
    <3>1. B \in SUBSET Nat
      <4>1. B \in SUBSET (0 .. nTotalDOF - 1) /\ 0 .. nTotalDOF - 1 \in SUBSET Nat
        BY DEF Profiled
      <4> HIDE DEF B
      <4>2. QED
        BY <4>1
    <3> HIDE DEF B
    <3>2. QED
      BY <1>2, <3>1, MinIsMember, Zenon
  <2>2. k \in 0 .. nTotalDOF - 1 /\ i <= k /\ ~ (pDiag[i] <= pDiag[k])
    OBVIOUS
  <2>3. pDiag[i] \in Nat /\ pDiag[k] \in Nat
    BY <2>2, RowAddresses
  <2>4. k # i
    BY <2>2, <2>3
  <2>5. k # 0 /\ i <= k - 1 /\ k - 1 \in 0 .. nTotalDOF - 1 /\ ~ (k <= k - 1)
    BY <2>2, <2>4 DEF Profiled
  <2>6. k - 1 \notin B
    BY <2>1, <2>5
  <2>7. pDiag[i] <= pDiag[k - 1]
    BY <2>5, <2>6
  <2>8. /\ HalfBandOf(k) \in 1 .. k + 1 /\ pDiag[k - 1] \in Nat
        /\ pDiag[k] = HalfBandOf(k) + pDiag[k - 1]
    BY <2>2, <2>5, RowAddresses
  <2>9. QED
    BY <2>2, <2>3, <2>7, <2>8
<1>3. QED
  BY <1>2

\* Every element of the profile has an address of its own in the stored array.
LEMMA OwnAddress ==
    ASSUME Profiled
    PROVE  \A i, k \in 0 .. nTotalDOF - 1 : \A j \in FirstColumn(i) .. i : \A l \in FirstColumn(k) .. k :
               /\ Address(i, j) \in 0 .. pDiag[nTotalDOF - 1]
               /\ Address(i, j) = Address(k, l) => i = k /\ j = l
<1>1. ASSUME NEW i \in 0 .. nTotalDOF - 1, NEW j \in FirstColumn(i) .. i
      PROVE  /\ Address(i, j) \in Int /\ Address(i, j) <= pDiag[i] /\ 0 <= Address(i, j)
             /\ i # 0 => pDiag[i - 1] < Address(i, j)
  <2>1. /\ pDiag[i] \in Nat /\ HalfBandOf(i) \in 1 .. i + 1 /\ FirstColumn(i) \in 0 .. i
        /\ i = 0 => pDiag[i] = 0
        /\ i # 0 => pDiag[i - 1] \in Nat /\ pDiag[i] = HalfBandOf(i) + pDiag[i - 1]
    BY RowAddresses
  <2>2. i \in Int /\ j \in Int /\ FirstColumn(i) <= j /\ j <= i
    BY <2>1
  <2>3. FirstColumn(i) = i - HalfBandOf(i) + 1 /\ Address(i, j) = pDiag[i] - i + j
    BY DEF FirstColumn, Address
  <2>4. CASE i = 0
    BY <2>1, <2>2, <2>3, <2>4
  <2>5. CASE i # 0
    BY <2>1, <2>2, <2>3, <2>5
  <2>6. QED
    BY <2>4, <2>5
<1>2. ASSUME NEW i \in 0 .. nTotalDOF - 1, NEW k \in 0 .. nTotalDOF - 1,
             NEW j \in FirstColumn(i) .. i, NEW l \in FirstColumn(k) .. k, i < k
      PROVE  Address(i, j) # Address(k, l)
  <2>1. k # 0 /\ i <= k - 1 /\ k - 1 \in 0 .. nTotalDOF - 1
    BY <1>2 DEF Profiled
  <2>2. pDiag[i] <= pDiag[k - 1]
    BY <2>1, DiagonalsInOrder
  <2>3. pDiag[i] \in Nat /\ pDiag[k - 1] \in Nat
    BY <2>1, RowAddresses
  <2>4. Address(i, j) <= pDiag[i] /\ pDiag[k - 1] < Address(k, l)
        /\ Address(i, j) \in Int /\ Address(k, l) \in Int
    BY <1>1, <2>1
  <2>5. QED
    BY <2>2, <2>3, <2>4
<1>3. ASSUME NEW i \in 0 .. nTotalDOF - 1, NEW k \in 0 .. nTotalDOF - 1,
             NEW j \in FirstColumn(i) .. i, NEW l \in FirstColumn(k) .. k
      PROVE  /\ Address(i, j) \in 0 .. pDiag[nTotalDOF - 1]
             /\ Address(i, j) = Address(k, l) => i = k /\ j = l
  <2>1. Address(i, j) \in 0 .. pDiag[nTotalDOF - 1]
    <3>1. nTotalDOF - 1 \in 0 .. nTotalDOF - 1 /\ i <= nTotalDOF - 1
      BY DEF Profiled
    <3>2. pDiag[i] <= pDiag[nTotalDOF - 1] /\ pDiag[nTotalDOF - 1] \in Nat /\ pDiag[i] \in Nat
      BY <3>1, DiagonalsInOrder, RowAddresses
    <3>3. QED
      BY <1>1, <3>2
  <2>2. ASSUME Address(i, j) = Address(k, l) PROVE i = k
    BY <1>2, <2>2
  <2>3. ASSUME Address(i, j) = Address(k, l), i = k PROVE j = l
    <3>1. FirstColumn(i) \in 0 .. i /\ pDiag[i] \in Nat
      BY RowAddresses
    <3>2. j \in Int /\ l \in Int
      BY <2>3, <3>1
    <3>3. QED
      BY <2>3, <3>1, <3>2 DEF Address
  <2>4. QED
    BY <2>1, <2>2, <2>3
<1>4. QED
  BY <1>3

\* What an element couples lies in the profile.
LEMMA CoupledInProfile ==
    ASSUME Profiled, NEW e \in DOMAIN pElemDOF,
           NEW i \in Range(pElemDOF[e]), NEW j \in Range(pElemDOF[e]), j <= i
    PROVE  FirstColumn(i) <= j
<1> DEFINE E == {f \in DOMAIN pElemDOF : i \in Range(pElemDOF[f])}
           S == {1} \cup {i - Min(Range(pElemDOF[f])) + 1 : f \in E}
           low == Min(Range(pElemDOF[e]))
<1>1. i \in 0 .. nTotalDOF - 1 /\ j \in 0 .. nTotalDOF - 1 /\ nTotalDOF \in Nat
  BY DEF Profiled
<1>2. \A f \in E : Min(Range(pElemDOF[f])) \in 0 .. nTotalDOF - 1
  <2>1. ASSUME NEW f \in E PROVE Min(Range(pElemDOF[f])) \in 0 .. nTotalDOF - 1
    <3>1. Range(pElemDOF[f]) \in SUBSET (0 .. nTotalDOF - 1) /\ i \in Range(pElemDOF[f])
      BY DEF Profiled
    <3>2. Range(pElemDOF[f]) \in SUBSET Nat /\ Range(pElemDOF[f]) # {}
      BY <1>1, <3>1
    <3>3. QED
      BY <3>1, <3>2, MinIsMember
  <2>2. QED
    BY <2>1
<1>3. e \in E /\ low \in 0 .. nTotalDOF - 1 /\ low <= j
  <2>1. e \in E
    OBVIOUS
  <2>2. Range(pElemDOF[e]) \in SUBSET Nat /\ Range(pElemDOF[e]) # {}
    <3>1. Range(pElemDOF[e]) \in SUBSET (0 .. nTotalDOF - 1)
      BY DEF Profiled
    <3>2. QED
      BY <1>1, <3>1
  <2>3. low <= j
    BY <2>2, MinIsMember
  <2>4. QED
    BY <1>2, <2>1, <2>3
<1>4. S \in SUBSET Int /\ S # {} /\ \A x \in S : x <= i + 1
  BY <1>1, <1>2
<1>5. i - low + 1 \in S
  BY <1>3
<1>6. HalfBand(pElemDOF, i) = Max(S)
  BY DEF HalfBand
<1>7. Max(S) \in Int /\ Max(S) >= i - low + 1
  <2> HIDE DEF S, low
  <2>1. i + 1 \in Int
    BY <1>1
  <2>2. Max(S) \in S /\ \A y \in S : Max(S) >= y
    BY <1>4, <2>1, MaxIsMember, Zenon
  <2>3. QED
    BY <1>4, <1>5, <2>2, Zenon
<1>8. CASE i = 0
  <2>1. FirstColumn(i) \in 0 .. i
    BY <1>1, RowAddresses
  <2>2. QED
    BY <1>1, <1>8, <2>1
<1>9. CASE i # 0
  <2>1. HalfBandOf(i) = HalfBand(pElemDOF, i)
    BY <1>1, <1>9, RowAddresses
  <2>2. FirstColumn(i) = i - HalfBandOf(i) + 1
    BY DEF FirstColumn
  <2> HIDE DEF S, low
  <2>3. QED
    BY <1>1, <1>3, <1>6, <1>7, <2>1, <2>2
<1>10. QED
  BY <1>8, <1>9

-----------------------------------------------------------------------------
(* The stored stiffness is that of the structure. *)

\* The numbers of an element's places.
LEMMA PlaceNumbers ==
    ASSUME LegalInput, Connected, Profiled, NEW e \in Elements
    PROVE  \A k \in Places(e) : /\ pElemDOF[e][k] \in Range(pElemDOF[e])
                                /\ pElemDOF[e][k] \in 0 .. nTotalDOF - 1
<1>1. e \in DOMAIN pElemDOF /\ DOMAIN pElemDOF[e] = Places(e)
  BY ElementPlaces DEF Connected
<1>2. Range(pElemDOF[e]) \in SUBSET (0 .. nTotalDOF - 1)
  BY <1>1 DEF Profiled
<1>3. \A k \in Places(e) : pElemDOF[e][k] \in Range(pElemDOF[e])
  BY <1>1 DEF Range
<1>4. QED
  BY <1>2, <1>3

\* What is added up at the address of row i and column j are the blocks of the
\* elements there, and nothing else.
LEMMA AssembledIsBlocks ==
    ASSUME LegalInput, Connected, Profiled,
           NEW i \in 0 .. nTotalDOF - 1, NEW j \in FirstColumn(i) .. i
    PROVE  AssembledAt(Address(i, j)) = Total([e \in Elements |-> Block(e, i, j)])
<1> DEFINE there(e) == {ab \in StoredEntries(e) :
                            Address(pElemDOF[e][ab[1]], pElemDOF[e][ab[2]]) = Address(i, j)}
           given(e) == Total([ab \in there(e) |-> GlobalStiff(e)[ab[1]][ab[2]]])
<1>1. i \in Int /\ j \in Int /\ j <= i
  <2>1. FirstColumn(i) \in 0 .. i
    BY RowAddresses
  <2>2. QED
    BY <2>1
<1>2. ASSUME NEW e \in Elements PROVE there(e) = PlacesOf(e, i) \X PlacesOf(e, j)
  <2> DEFINE D == Places(e)
             dof == pElemDOF[e]
  <2>1. D = 1 .. Len(dof) /\ e \in DOMAIN pElemDOF
    BY ElementPlaces DEF Connected
  <2>2. \A k \in D : dof[k] \in Range(dof) /\ dof[k] \in 0 .. nTotalDOF - 1
    BY PlaceNumbers
  <2>3. StoredEntries(e) = {ab \in D \X D : dof[ab[1]] >= dof[ab[2]]}
    BY <2>1 DEF StoredEntries
  <2>4. \A m : PlacesOf(e, m) = {k \in D : dof[k] = m}
    BY <2>1 DEF PlacesOf
  <2> HIDE DEF D
  <2>5. ASSUME NEW a \in D, NEW b \in D
        PROVE  (dof[a] >= dof[b] /\ Address(dof[a], dof[b]) = Address(i, j)) <=> (dof[a] = i /\ dof[b] = j)
    <3>1. ASSUME dof[a] >= dof[b], Address(dof[a], dof[b]) = Address(i, j)
          PROVE  dof[a] = i /\ dof[b] = j
      <4>1. dof[a] \in 0 .. nTotalDOF - 1 /\ dof[b] \in 0 .. nTotalDOF - 1
        BY <2>2
      <4>2. dof[b] <= dof[a]
        BY <3>1, <4>1
      <4>3. FirstColumn(dof[a]) <= dof[b]
        BY <2>1, <2>2, <4>2, CoupledInProfile
      <4>4. FirstColumn(dof[a]) \in 0 .. dof[a]
        BY <4>1, RowAddresses
      <4>5. dof[b] \in FirstColumn(dof[a]) .. dof[a]
        BY <4>1, <4>2, <4>3, <4>4
      <4>6. QED
        BY <3>1, <4>1, <4>5, OwnAddress
    <3>2. ASSUME dof[a] = i, dof[b] = j
          PROVE  dof[a] >= dof[b] /\ Address(dof[a], dof[b]) = Address(i, j)
      BY <1>1, <3>2
    <3>3. QED
      BY <3>1, <3>2
  <2>6. there(e) = {ab \in D \X D : dof[ab[1]] >= dof[ab[2]]
                                      /\ Address(dof[ab[1]], dof[ab[2]]) = Address(i, j)}
    BY <2>3
  <2>7. PlacesOf(e, i) \X PlacesOf(e, j) = {ab \in D \X D : dof[ab[1]] = i /\ dof[ab[2]] = j}
    BY <2>4
  <2>8. \A ab \in D \X D : ab[1] \in D /\ ab[2] \in D
    OBVIOUS
  <2> HIDE DEF there, dof
  <2>9. QED
    BY <2>5, <2>6, <2>7, <2>8
<1>3. \A e \in Elements : given(e) = Block(e, i, j)
  <2> HIDE DEF there
  <2>1. QED
    BY <1>2 DEF Block
<1>4. AssembledAt(Address(i, j)) = Total([e \in Elements |-> given(e)])
  BY Zenon DEF AssembledAt
<1>5. [e \in Elements |-> given(e)] = [e \in Elements |-> Block(e, i, j)]
  <2> HIDE DEF given
  <2>1. QED
    BY <1>3
<1>6. QED
  BY <1>4, <1>5, Zenon

\* Outside of the profile no element has anything to give.
LEMMA NothingOutsideProfile ==
    ASSUME LegalInput, Connected, Profiled,
           NEW i \in 0 .. nTotalDOF - 1, NEW j \in 0 .. nTotalDOF - 1, j < FirstColumn(i)
    PROVE  Total([e \in Elements |-> Block(e, i, j)]) = 0
<1>1. 0 % P = 0
  BY PrimeType, SmallRemainders
<1>2. ASSUME NEW e \in Elements PROVE Block(e, i, j) = 0
  <2>1. e \in DOMAIN pElemDOF /\ PlacesOf(e, i) \in SUBSET Places(e) /\ PlacesOf(e, j) \in SUBSET Places(e)
    BY PlacesOfType DEF Connected
  <2>2. ASSUME NEW a \in PlacesOf(e, i), NEW b \in PlacesOf(e, j) PROVE FALSE
    <3>1. pElemDOF[e][a] = i /\ pElemDOF[e][b] = j
      BY DEF PlacesOf
    <3>2. i \in Range(pElemDOF[e]) /\ j \in Range(pElemDOF[e])
      BY <2>1, <3>1, PlaceNumbers
    <3>3. FirstColumn(i) \in 0 .. i /\ i \in Int /\ j \in Int
      BY RowAddresses
    <3>4. j <= i /\ ~ (FirstColumn(i) <= j)
      BY <3>3
    <3>5. QED
      BY <2>1, <3>2, <3>4, CoupledInProfile
  <2>3. PlacesOf(e, i) \X PlacesOf(e, j) = {}
    BY <2>2
  <2> DEFINE f == [ab \in PlacesOf(e, i) \X PlacesOf(e, j) |-> GlobalStiff(e)[ab[1]][ab[2]]]
  <2>4. DOMAIN f = {} /\ Block(e, i, j) = Total(f)
    BY <2>3 DEF Block
  <2> HIDE DEF f
  <2>5. Total(f) = SumOver(f, {}) % P
    BY <2>4, FS_EmptySet, TotalType
  <2>6. SumOver(f, {}) = 0
    BY SumOverNothing
  <2>7. QED
    BY <1>1, <2>4, <2>5, <2>6
<1> DEFINE g == [e \in Elements |-> Block(e, i, j)]
<1>3. DOMAIN g = Elements /\ \A e \in Elements : g[e] = 0
  BY <1>2
<1>4. IsFiniteSet(Elements)
  <2>1. structure.elem \in Seq(Range(structure.elem))
    BY DEF LegalInput, Legal
  <2>2. Elements = 1 .. Len(structure.elem) /\ Len(structure.elem) \in Int /\ 1 \in Int
    BY <2>1 DEF Elements
  <2>3. QED
    BY <2>2, FS_Interval
<1> HIDE DEF g
<1>5. Total(g) = SumOver(g, Elements) % P
  BY <1>3, <1>4, TotalType
<1>6. SumOver(g, Elements) = SumOver(g, {})
  BY <1>3, <1>4, SumOfSome
<1>7. Total(g) = 0
  BY <1>1, <1>5, <1>6, SumOverNothing
<1>8. QED
  BY <1>7 DEF g

\* The larger and the smaller of two numbers.
LEMMA LargerAndSmaller ==
    \A i, j \in Nat : IF j <= i THEN Max({i, j}) = i /\ Min({i, j}) = j
                                ELSE Max({i, j}) = j /\ Min({i, j}) = i
<1> TAKE i, j \in Nat
<1>1. {i, j} \in SUBSET Int /\ {i, j} \in SUBSET Nat /\ {i, j} # {}
  OBVIOUS
<1>2. PICK b \in Int : i <= b /\ j <= b
  <2>1. i <= i + j /\ j <= i + j /\ i + j \in Int
    OBVIOUS
  <2>2. QED
    BY <2>1
<1>3. \A x \in {i, j} : x <= b
  BY <1>2
<1>4. Max({i, j}) \in {i, j} /\ \A y \in {i, j} : Max({i, j}) >= y
  BY <1>1, <1>3, MaxIsMember
<1>5. Min({i, j}) \in {i, j} /\ \A y \in {i, j} : Min({i, j}) <= y
  BY <1>1, MinIsMember
<1>6. QED
  BY <1>4, <1>5

\* What the program looks up in the lower triangle is what the elements give.
LEMMA LowerTriangle ==
    ASSUME LegalInput, Connected, Profiled,
           pGK = [k \in 0 .. pDiag[nTotalDOF - 1] |-> AssembledAt(k)],
           NEW i \in 0 .. nTotalDOF - 1, NEW j \in 0 .. nTotalDOF - 1, j <= i
    PROVE  /\ GetElementInGK(i, j) = Total([e \in Elements |-> Block(e, i, j)])
           /\ GetElementInGK(j, i) = Total([e \in Elements |-> Block(e, i, j)])
<1>1. i \in Nat /\ j \in Nat
  BY DEF Profiled
<1>2. /\ Max({i, j}) = i /\ Min({i, j}) = j
      /\ Max({j, i}) = i /\ Min({j, i}) = j
  <2>1. {j, i} = {i, j}
    OBVIOUS
  <2>2. QED
    BY <1>1, <2>1, LargerAndSmaller
<1> DEFINE entry == IF j < FirstColumn(i) THEN 0 ELSE pGK[Address(i, j)]
<1>3. GetElementInGK(i, j) = entry /\ GetElementInGK(j, i) = entry
  <2>1. GetElementInGK(i, j) = IF Min({i, j}) < FirstColumn(Max({i, j})) THEN 0
                               ELSE pGK[Address(Max({i, j}), Min({i, j}))]
    BY Zenon DEF GetElementInGK
  <2>2. GetElementInGK(j, i) = IF Min({j, i}) < FirstColumn(Max({j, i})) THEN 0
                               ELSE pGK[Address(Max({j, i}), Min({j, i}))]
    BY Zenon DEF GetElementInGK
  <2> HIDE DEF entry
  <2>3. entry = IF j < FirstColumn(i) THEN 0 ELSE pGK[Address(i, j)]
    BY Zenon DEF entry
  <2>4. GetElementInGK(i, j) = entry
    BY <1>2, <2>1, <2>3, Zenon
  <2>5. GetElementInGK(j, i) = entry
    BY <1>2, <2>2, <2>3, Zenon
  <2>6. QED
    BY <2>4, <2>5
<1>4. FirstColumn(i) \in 0 .. i
  BY RowAddresses
<1>5. CASE j < FirstColumn(i)
  BY <1>3, <1>5, NothingOutsideProfile
<1>6. CASE ~ (j < FirstColumn(i))
  <2>1. j \in FirstColumn(i) .. i
    BY <1>1, <1>4, <1>6
  <2>2. Address(i, j) \in 0 .. pDiag[nTotalDOF - 1]
    BY <2>1, OwnAddress
  <2>3. pGK[Address(i, j)] = AssembledAt(Address(i, j))
    BY <2>2
  <2>4. QED
    BY <1>3, <1>6, <2>1, <2>3, AssembledIsBlocks
<1>7. QED
  BY <1>5, <1>6

-----------------------------------------------------------------------------
(* The echo of the input. *)

\* The sequences in s, one after the other, are what stands in the file behind
\* position p and up to position q.
Spells(file, s, p, q) ==
    /\ s \in Seq(Seq(Int))
    /\ \E o \in [0 .. Len(s) -> 0 .. Len(file)] :
           /\ o[0] = p /\ o[Len(s)] = q
           /\ \A i \in 1 .. Len(s) : o[i - 1] <= o[i] /\ s[i] = SubSeq(file, o[i - 1] + 1, o[i])

\* A part of the file and what stands behind it.
LEMMA PartsJoin ==
    ASSUME NEW file \in Seq(Int), NEW a \in Nat, NEW b \in Nat, a <= b, b <= Len(file)
    PROVE  /\ SubSeq(file, 1, a) \o SubSeq(file, a + 1, b) = SubSeq(file, 1, b)
           /\ SubSeq(file, a + 1, b) \in Seq(Int) /\ Len(SubSeq(file, a + 1, b)) = b - a
           /\ \A i \in 1 .. b - a : SubSeq(file, a + 1, b)[i] = file[a + i]
<1> DEFINE s == SubSeq(file, 1, a)
           t == SubSeq(file, a + 1, b)
           u == SubSeq(file, 1, b)
<1>1. s \in Seq(Int) /\ Len(s) = a /\ \A i \in 1 .. a : s[i] = file[i]
  BY SubSeqProperties
<1>2. t \in Seq(Int) /\ Len(t) = b - a /\ \A i \in 1 .. b - a : t[i] = file[a + i]
  BY SubSeqProperties
<1>3. u \in Seq(Int) /\ Len(u) = b /\ \A i \in 1 .. b : u[i] = file[i]
  BY SubSeqProperties
<1> HIDE DEF s, t, u
<1>4. /\ s \o t \in Seq(Int) /\ Len(s \o t) = b
      /\ \A i \in 1 .. b : (s \o t)[i] = IF i <= a THEN s[i] ELSE t[i - a]
  <2>1. a + (b - a) = b
    OBVIOUS
  <2>2. /\ s \o t \in Seq(Int) /\ Len(s \o t) = Len(s) + Len(t)
        /\ \A i \in 1 .. Len(s) + Len(t) : (s \o t)[i] = IF i <= Len(s) THEN s[i] ELSE t[i - Len(s)]
    <3>1. s \in Seq(Int) /\ t \in Seq(Int)
      BY <1>1, <1>2, Zenon
    <3>2. QED
      BY <3>1, ConcatProperties, Zenon
  <2>3. QED
    BY <1>1, <1>2, <2>1, <2>2, Zenon
<1>5. ASSUME NEW i \in 1 .. b PROVE (s \o t)[i] = u[i]
  <2>1. CASE i <= a
    <3>1. i \in 1 .. a
      BY <2>1
    <3>2. QED
      BY <1>1, <1>3, <1>4, <2>1, <3>1, Zenon
  <2>2. CASE ~ (i <= a)
    <3>1. i - a \in 1 .. b - a /\ a + (i - a) = i
      BY <2>2
    <3>2. (s \o t)[i] = t[i - a]
      BY <1>4, <2>2, Zenon
    <3>3. QED
      BY <1>2, <1>3, <3>1, <3>2, Zenon
  <2>3. QED
    BY <2>1, <2>2, Zenon
<1>6. s \o t = u
  <2>1. Len(s \o t) = Len(u) /\ 1 .. Len(s \o t) = 1 .. b
    BY <1>3, <1>4, Zenon
  <2>2. QED
    BY <1>3, <1>4, <1>5, <2>1, SeqEqual, Zenon
<1>7. QED
  BY <1>2, <1>6, Zenon DEF s, t, u

\* What begins the file, flattened, is its beginning.
LEMMA FlattenSpells ==
    ASSUME NEW file \in Seq(Int), NEW s, NEW q, Len(s) # 0, Spells(file, s, 0, q)
    PROVE  FlattenSeq(s) = SubSeq(file, 1, q)
<1>1. PICK o \in [0 .. Len(s) -> 0 .. Len(file)] :
           /\ o[0] = 0 /\ o[Len(s)] = q
           /\ \A i \in 1 .. Len(s) : o[i - 1] <= o[i] /\ s[i] = SubSeq(file, o[i - 1] + 1, o[i])
  BY Zenon DEF Spells
<1> DEFINE n == Len(s)
           Flattens(h) == h = [i \in 1 .. n |-> IF i = 1 THEN s[i] ELSE h[i - 1] \o s[i]]
           g == [i \in 1 .. n |-> SubSeq(file, 1, o[i])]
<1>2. n \in Nat /\ n \in 1 .. n /\ Len(file) \in Nat
  BY DEF Spells
<1>3. \A i \in 1 .. n : /\ i - 1 \in 0 .. n /\ i \in 0 .. n /\ o[i - 1] \in Nat /\ o[i] \in Nat
                        /\ o[i - 1] <= o[i] /\ o[i] <= Len(file)
  <2>1. \A i \in 1 .. n : i - 1 \in 0 .. n /\ i \in 0 .. n
    BY <1>2
  <2>2. \A i \in 0 .. n : o[i] \in Nat /\ o[i] <= Len(file)
    BY <1>2
  <2>3. QED
    BY <1>1, <2>1, <2>2, Zenon
<1>4. \A i \in 1 .. n : SubSeq(file, 1, o[i - 1]) \o s[i] = SubSeq(file, 1, o[i])
  <2>1. \A x, y \in Nat : x <= y /\ y <= Len(file) =>
            SubSeq(file, 1, x) \o SubSeq(file, x + 1, y) = SubSeq(file, 1, y)
    BY PartsJoin, Zenon
  <2>2. QED
    BY <1>1, <1>3, <2>1, Zenon
<1>5. s[1] = SubSeq(file, 1, o[1])
  <2>1. 1 \in 1 .. n /\ 1 - 1 = 0 /\ 0 + 1 = 1
    BY <1>2
  <2>2. s[1] = SubSeq(file, o[1 - 1] + 1, o[1])
    BY <1>1, <2>1, Zenon
  <2>3. QED
    BY <1>1, <2>1, <2>2, Zenon
<1>6. Flattens(g)
  <2>1. \A i \in 1 .. n : g[i] = IF i = 1 THEN s[i] ELSE g[i - 1] \o s[i]
    <3>1. SUFFICES ASSUME NEW i \in 1 .. n
                   PROVE  g[i] = IF i = 1 THEN s[i] ELSE g[i - 1] \o s[i]
      BY Zenon
    <3>2. CASE i = 1
      BY <1>5, <3>2
    <3>3. CASE i # 1
      <4>1. i - 1 \in 1 .. n
        BY <1>2, <3>3
      <4>2. g[i - 1] = SubSeq(file, 1, o[i - 1]) /\ g[i] = SubSeq(file, 1, o[i])
        BY <4>1, Zenon
      <4> HIDE DEF g
      <4>3. QED
        BY <1>4, <3>3, <4>2, Zenon
    <3>4. QED
      BY <3>2, <3>3, Zenon
  <2>2. g = [i \in 1 .. n |-> g[i]]
    OBVIOUS
  <2> HIDE DEF g, n
  <2>3. QED
    BY <2>1, <2>2, Zenon
<1>7. ASSUME NEW h, Flattens(h) PROVE h[n] = g[n]
  <2>1. \A i \in 1 .. n : h[i] = IF i = 1 THEN s[i] ELSE h[i - 1] \o s[i]
    <3>1. \A k : k = [i \in 1 .. n |-> IF i = 1 THEN s[i] ELSE h[i - 1] \o s[i]]
                 => \A i \in 1 .. n : k[i] = IF i = 1 THEN s[i] ELSE h[i - 1] \o s[i]
      OBVIOUS
    <3>2. QED
      BY <1>7, <3>1, Zenon
  <2> DEFINE B == {i \in 1 .. n : h[i] # g[i]}
  <2>2. ASSUME B # {} PROVE FALSE
    <3>1. B \in SUBSET Int /\ \A i \in B : i >= 1
      BY <1>2
    <3>2. PICK i \in B : \A k \in B : i <= k
      <4> HIDE DEF B
      <4>1. B \in SUBSET Nat
        BY <3>1
      <4>2. QED
        BY <2>2, <4>1, MinIsMember, Zenon
    <3>3. i \in 1 .. n /\ h[i] # g[i]
      BY <3>2
    <3>4. g[i] = IF i = 1 THEN s[i] ELSE g[i - 1] \o s[i]
      <4>1. \A k : k = [j \in 1 .. n |-> IF j = 1 THEN s[j] ELSE g[j - 1] \o s[j]]
                   => \A j \in 1 .. n : k[j] = IF j = 1 THEN s[j] ELSE g[j - 1] \o s[j]
        OBVIOUS
      <4> HIDE DEF g
      <4>2. QED
        BY <1>6, <3>3, <4>1, Zenon
    <3>5. i # 1
      BY <2>1, <3>3, <3>4, Zenon
    <3>6. i - 1 \in 1 .. n /\ i - 1 \notin B
      <4>1. i - 1 \in 1 .. n /\ ~ (i <= i - 1)
        BY <1>2, <3>3, <3>5
      <4> HIDE DEF B
      <4>2. QED
        BY <3>2, <4>1
    <3>7. h[i - 1] = g[i - 1]
      BY <3>6
    <3> HIDE DEF g, B, n
    <3>8. QED
      BY <2>1, <3>3, <3>4, <3>5, <3>7, Zenon
  <2>3. QED
    BY <1>2, <2>2, Zenon
<1>8. FlattenSeq(s) = (CHOOSE h : Flattens(h))[n]
  BY Zenon DEF FlattenSeq
<1> HIDE DEF Flattens
<1>9. FlattenSeq(s) = g[n]
  <2>1. Flattens(CHOOSE h : Flattens(h))
    BY <1>6, Zenon
  <2>2. (CHOOSE h : Flattens(h))[n] = g[n]
    BY <1>7, <2>1, Zenon
  <2>3. QED
    BY <1>8, <2>2, Zenon
<1>10. QED
  BY <1>1, <1>2, <1>9, Zenon

\* One after the other.
LEMMA SpellsOn ==
    ASSUME NEW file \in Seq(Int), NEW s, NEW t, NEW p, NEW q, NEW r,
           Spells(file, s, p, q), Spells(file, t, q, r)
    PROVE  Spells(file, s \o t, p, r)
<1>1. PICK a \in [0 .. Len(s) -> 0 .. Len(file)] :
           /\ a[0] = p /\ a[Len(s)] = q
           /\ \A i \in 1 .. Len(s) : a[i - 1] <= a[i] /\ s[i] = SubSeq(file, a[i - 1] + 1, a[i])
  BY Zenon DEF Spells
<1>2. PICK b \in [0 .. Len(t) -> 0 .. Len(file)] :
           /\ b[0] = q /\ b[Len(t)] = r
           /\ \A i \in 1 .. Len(t) : b[i - 1] <= b[i] /\ t[i] = SubSeq(file, b[i - 1] + 1, b[i])
  BY Zenon DEF Spells
<1> DEFINE m == Len(s)
           n == Len(t)
           o == [i \in 0 .. m + n |-> IF i <= m THEN a[i] ELSE b[i - m]]
<1>3. s \in Seq(Seq(Int)) /\ t \in Seq(Seq(Int)) /\ m \in Nat /\ n \in Nat
  BY DEF Spells
<1>4. /\ s \o t \in Seq(Seq(Int)) /\ Len(s \o t) = m + n
      /\ \A i \in 1 .. m + n : (s \o t)[i] = IF i <= m THEN s[i] ELSE t[i - m]
  BY <1>3, ConcatProperties
<1> HIDE DEF m, n
<1>5. /\ \A i \in 0 .. m + n : i <= m => o[i] = a[i]
      /\ \A i \in 0 .. m + n : i >= m => o[i] = b[i - m]
  <2>1. ASSUME NEW i \in 0 .. m + n, i >= m PROVE o[i] = b[i - m]
    <3>1. CASE i = m
      BY <1>1, <1>2, <1>3, <3>1 DEF m
    <3>2. CASE i # m
      BY <1>3, <2>1, <3>2
    <3>3. QED
      BY <3>1, <3>2
  <2>2. QED
    BY <2>1
<1>6. o \in [0 .. m + n -> 0 .. Len(file)]
  <2>1. ASSUME NEW i \in 0 .. m + n PROVE (IF i <= m THEN a[i] ELSE b[i - m]) \in 0 .. Len(file)
    <3>1. CASE i <= m
      <4>1. i \in 0 .. Len(s)
        BY <1>3, <3>1 DEF m
      <4>2. QED
        BY <3>1, <4>1, Zenon
    <3>2. CASE ~ (i <= m)
      <4>1. i - m \in 0 .. Len(t)
        BY <1>3, <3>2 DEF n
      <4>2. QED
        BY <3>2, <4>1
    <3>3. QED
      BY <3>1, <3>2
  <2>2. QED
    BY <2>1
<1>7. o[0] = p /\ o[m + n] = r
  <2>1. 0 \in 0 .. m + n /\ m + n \in 0 .. m + n /\ 0 <= m /\ m + n >= m /\ (m + n) - m = n
    BY <1>3
  <2> HIDE DEF o
  <2>2. QED
    BY <1>1, <1>2, <1>5, <2>1, Zenon DEF n
<1>8. ASSUME NEW i \in 1 .. m + n
      PROVE  o[i - 1] <= o[i] /\ (s \o t)[i] = SubSeq(file, o[i - 1] + 1, o[i])
  <2>1. CASE i <= m
    <3>1. /\ i \in 1 .. m /\ i \in 0 .. m + n /\ i - 1 \in 0 .. m + n /\ i - 1 <= m
      BY <1>3, <2>1
    <3>2. o[i] = a[i] /\ o[i - 1] = a[i - 1]
      BY <1>5, <2>1, <3>1, Zenon
    <3>3. (s \o t)[i] = s[i]
      BY <1>4, <2>1
    <3> HIDE DEF o
    <3>4. QED
      BY <1>1, <3>1, <3>2, <3>3, Zenon DEF m
  <2>2. CASE ~ (i <= m)
    <3>1. /\ i - m \in 1 .. n /\ i \in 0 .. m + n /\ i - 1 \in 0 .. m + n
          /\ i >= m /\ i - 1 >= m /\ (i - 1) - m = (i - m) - 1 /\ ~ (i <= m)
      BY <1>3, <2>2
    <3>2. o[i] = b[i - m] /\ o[i - 1] = b[(i - m) - 1]
      BY <1>5, <3>1, Zenon
    <3>3. (s \o t)[i] = t[i - m]
      BY <1>4, <3>1, Zenon
    <3> HIDE DEF o
    <3>4. QED
      BY <1>2, <3>1, <3>2, <3>3, Zenon DEF n
  <2>3. QED
    BY <2>1, <2>2, Zenon
<1> HIDE DEF o
<1>9. QED
  BY <1>4, <1>6, <1>7, <1>8, Zenon DEF Spells

\* A function on the numbers up to m is a sequence.
LEMMA FunctionIsSequence ==
    ASSUME NEW R, NEW m \in Nat, NEW x \in [1 .. m -> R]
    PROVE  x \in Seq(R) /\ Len(x) = m
OBVIOUS

\* The rows of a section, which all have the same number of cells.
LEMMA RowsSpell ==
    ASSUME NEW file \in Seq(Int), NEW p \in Nat, NEW w \in Nat, NEW n \in Nat,
           p + n * w <= Len(file),
           NEW s, s = [i \in 1 .. n |-> SubSeq(file, p + (i - 1) * w + 1, p + i * w)]
    PROVE  Spells(file, s, p, p + n * w)
<1> DEFINE o == [i \in 0 .. n |-> p + i * w]
<1>1. \A i \in 0 .. n : i * w \in Nat /\ i * w <= n * w
  <2>1. ASSUME NEW i \in 0 .. n PROVE i * w \in Nat /\ i * w <= n * w
    <3>1. (n - i) * w >= 0 /\ i * w >= 0
      <4>1. \A x, y \in Nat : x * y >= 0
        OBVIOUS
      <4>2. n - i \in Nat /\ i \in Nat
        OBVIOUS
      <4>3. QED
        BY <4>1, <4>2, Zenon
    <3>2. n * w = (n - i) * w + i * w
      OBVIOUS
    <3>3. i * w \in Int /\ n * w \in Int /\ (n - i) * w \in Int
      OBVIOUS
    <3>4. \A x, y, z \in Int : x >= 0 /\ z >= 0 /\ y = x + z => z \in Nat /\ z <= y
      OBVIOUS
    <3>5. QED
      BY <3>1, <3>2, <3>3, <3>4, Zenon
  <2>2. QED
    BY <2>1
<1>2. \A i \in 0 .. n : p + i * w \in 0 .. Len(file)
  <2>1. \A x, y \in Nat : x <= y /\ p + y <= Len(file) => p + x \in 0 .. Len(file)
    OBVIOUS
  <2>2. n \in 0 .. n
    OBVIOUS
  <2>3. QED
    BY <1>1, <2>1, <2>2, Zenon
<1>3. o \in [0 .. n -> 0 .. Len(file)] /\ \A i \in 0 .. n : o[i] = p + i * w
  BY <1>2, Zenon
<1>4. \A i \in 1 .. n : /\ i - 1 \in 0 .. n /\ i \in 0 .. n /\ o[i - 1] = p + (i - 1) * w /\ o[i] = p + i * w
                        /\ o[i - 1] <= o[i]
  <2>1. ASSUME NEW i \in 1 .. n
        PROVE  /\ i - 1 \in 0 .. n /\ i \in 0 .. n /\ o[i - 1] = p + (i - 1) * w /\ o[i] = p + i * w
               /\ o[i - 1] <= o[i]
    <3>1. i - 1 \in 0 .. n /\ i \in 0 .. n
      OBVIOUS
    <3>2. o[i - 1] = p + (i - 1) * w /\ o[i] = p + i * w
      BY <1>3, <3>1, Zenon
    <3>3. i * w = (i - 1) * w + w
      OBVIOUS
    <3>4. (i - 1) * w \in Nat
      BY <1>1, <3>1
    <3>5. \A x \in Nat : p + x <= p + (x + w)
      OBVIOUS
    <3>6. p + (i - 1) * w <= p + i * w
      BY <3>3, <3>4, <3>5, Zenon
    <3> HIDE DEF o
    <3>7. QED
      BY <3>1, <3>2, <3>6, Zenon
  <2>2. QED
    BY <2>1
<1>5. ASSUME NEW i \in 1 .. n
      PROVE  s[i] = SubSeq(file, o[i - 1] + 1, o[i]) /\ s[i] \in Seq(Int)
  <2>1. s[i] = SubSeq(file, p + (i - 1) * w + 1, p + i * w)
    OBVIOUS
  <2> HIDE DEF o
  <2>2. s[i] = SubSeq(file, o[i - 1] + 1, o[i])
    BY <1>4, <2>1, Zenon
  <2>3. o[i - 1] \in Nat /\ o[i] \in Nat /\ o[i - 1] <= o[i] /\ o[i] <= Len(file)
    BY <1>3, <1>4
  <2>4. QED
    BY <2>2, <2>3, PartsJoin, Zenon
<1>6. s \in Seq(Seq(Int)) /\ Len(s) = n
  <2> HIDE DEF o
  <2>1. s \in [1 .. n -> Seq(Int)] /\ DOMAIN s = 1 .. n
    BY <1>5, Zenon
  <2>2. QED
    BY <2>1, FunctionIsSequence, Zenon
<1>7. o[0] = p /\ o[n] = p + n * w
  BY <1>3
<1> HIDE DEF o
<1>8. QED
  BY <1>3, <1>4, <1>5, <1>6, <1>7, Zenon DEF Spells

\* A row that is printed member by member is the row that was read.
LEMMA RowOfCells ==
    ASSUME NEW r \in Seq(Int)
    PROVE  /\ Len(r) = 1 => <<r[1]>> = r
           /\ Len(r) = 3 => <<r[1], r[2], r[3]>> = r
           /\ Len(r) = 4 => <<r[1]>> \o <<r[2], r[3], r[4]>> = r
           /\ Len(r) = 5 => <<r[1]>> \o <<r[2], r[3]>> \o <<r[4], r[5]>> = r
           /\ Len(r) = 8 => <<r[1], r[2], r[3], r[4], r[5], r[6], r[7], r[8]>> = r
<1>1. ASSUME Len(r) = 1 PROVE <<r[1]>> = r
  BY <1>1
<1>2. ASSUME Len(r) = 3 PROVE <<r[1], r[2], r[3]>> = r
  BY <1>2
<1>3. ASSUME Len(r) = 4 PROVE <<r[1]>> \o <<r[2], r[3], r[4]>> = r
  BY <1>3
<1>4. ASSUME Len(r) = 5 PROVE <<r[1]>> \o <<r[2], r[3]>> \o <<r[4], r[5]>> = r
  BY <1>4
<1>5. ASSUME Len(r) = 8 PROVE <<r[1], r[2], r[3], r[4], r[5], r[6], r[7], r[8]>> = r
  BY <1>5
<1>6. QED
  BY <1>1, <1>2, <1>3, <1>4, <1>5, Zenon

\* The widths of the sections.
LEMMA FieldsType ==
    /\ Fields[1] = 3 /\ Fields[2] = 4 /\ Fields[3] = 5 /\ Fields[4] = 3 /\ Fields[5] = 3 /\ Fields[6] = 8
    /\ \A k \in 1 .. 6 : Fields[k] \in Nat
<1>1. /\ Fields[1] = 3 /\ Fields[2] = 4 /\ Fields[3] = 5 /\ Fields[4] = 3 /\ Fields[5] = 3 /\ Fields[6] = 8
  BY DEF Fields
<1>2. \A k \in 1 .. 6 : k = 1 \/ k = 2 \/ k = 3 \/ k = 4 \/ k = 5 \/ k = 6
  OBVIOUS
<1>3. 3 \in Nat /\ 4 \in Nat /\ 5 \in Nat /\ 8 \in Nat
  OBVIOUS
<1>4. QED
  BY <1>1, <1>2, <1>3, Zenon

\* Where the sections begin.
LEMMA SectionsBegin ==
    ASSUME NEW file \in Seq(Int), \A k \in 1 .. 6 : file[k] \in Nat
    PROVE  /\ ReadBefore(file, 1) = 6
           /\ \A k \in 1 .. 6 : /\ ReadBefore(file, k) \in Nat /\ ReadBefore(file, k + 1) \in Nat
                                 /\ ReadBefore(file, k + 1) = ReadBefore(file, k) + file[k] * Fields[k]
<1> DEFINE f(k) == [m \in 1 .. k - 1 |-> file[m] * Fields[m]]
<1>1. \A k \in 1 .. 6 : Fields[k] \in Nat /\ file[k] * Fields[k] \in Nat
  <2>1. \A k \in 1 .. 6 : Fields[k] \in Nat
    BY FieldsType, Zenon
  <2>2. \A x, y \in Nat : x * y \in Nat
    OBVIOUS
  <2>3. QED
    BY <2>1, <2>2, Zenon
<1>9. \A k \in 1 .. 7 : \A m \in 1 .. k - 1 :
          /\ m \in 1 .. 6 /\ f(k)[m] = file[m] * Fields[m] /\ f(k)[m] \in Int
  <2>1. \A k \in 1 .. 7 : \A m \in 1 .. k - 1 : m \in 1 .. 6
    OBVIOUS
  <2>2. \A k : \A m \in 1 .. k - 1 : f(k)[m] = file[m] * Fields[m]
    BY Zenon
  <2>3. \A x \in Nat : x \in Int
    OBVIOUS
  <2> HIDE DEF f
  <2>4. QED
    BY <1>1, <2>1, <2>2, <2>3, Zenon
<1>2. \A k \in 1 .. 7 : ReadBefore(file, k) = 6 + SumOver(f(k), 1 .. k - 1)
  <2>1. ASSUME NEW k \in 1 .. 7 PROVE ReadBefore(file, k) = 6 + SumOver(f(k), 1 .. k - 1)
    <3>1. DOMAIN f(k) = 1 .. k - 1
      OBVIOUS
    <3>2. ReadBefore(file, k) = 6 + SumFunction(f(k))
      BY Zenon DEF ReadBefore
    <3> HIDE DEF f
    <3>3. QED
      BY <3>1, <3>2, SumIsLookedUp, Zenon
  <2>2. QED
    BY <2>1, Zenon
<1>3. ReadBefore(file, 1) = 6
  <2>1. 1 .. 1 - 1 = {} /\ 1 \in 1 .. 7 /\ 6 + 0 = 6
    OBVIOUS
  <2> HIDE DEF f
  <2>2. QED
    BY <1>2, <2>1, SumOverNothing, Zenon
<1>4. ASSUME NEW k \in 1 .. 6
      PROVE  SumOver(f(k + 1), 1 .. (k + 1) - 1) = file[k] * Fields[k] + SumOver(f(k), 1 .. k - 1)
  <2>1. (k + 1) - 1 = k /\ k \in 1 .. k /\ (1 .. k) \ {k} = 1 .. k - 1 /\ k \in Int /\ k - 1 \in Int /\ 1 \in Int
    OBVIOUS
  <2>2. IsFiniteSet(1 .. k) /\ IsFiniteSet(1 .. k - 1)
    BY <2>1, FS_Interval
  <2>3. \A m \in 1 .. k : f(k + 1)[m] = file[m] * Fields[m] /\ f(k + 1)[m] \in Int
    <3>1. k + 1 \in 1 .. 7
      OBVIOUS
    <3> HIDE DEF f
    <3>2. QED
      BY <1>9, <2>1, <3>1, Zenon
  <2>4. \A m \in 1 .. k - 1 : f(k + 1)[m] = f(k)[m]
    <3>1. k \in 1 .. 7 /\ \A m \in 1 .. k - 1 : m \in 1 .. k
      OBVIOUS
    <3> HIDE DEF f
    <3>2. QED
      BY <1>9, <2>3, <3>1, Zenon
  <2> HIDE DEF f
  <2>5. SumOver(f(k + 1), 1 .. k) = f(k + 1)[k] + SumOver(f(k + 1), (1 .. k) \ {k})
    <3>1. \A m \in 1 .. k : f(k + 1)[m] \in Int
      BY <2>3, Zenon
    <3>2. \A x \in 1 .. k : SumOver(f(k + 1), 1 .. k) = f(k + 1)[x] + SumOver(f(k + 1), (1 .. k) \ {x})
      BY <2>2, <3>1, SumOverMember, Zenon
    <3>3. QED
      BY <2>1, <3>2, Zenon
  <2>6. SumOver(f(k + 1), 1 .. k - 1) = SumOver(f(k), 1 .. k - 1)
    BY <2>2, <2>4, SumOverSame, Zenon
  <2>7. QED
    BY <2>1, <2>3, <2>5, <2>6, Zenon
<1>5. \A k \in 1 .. 7 : SumOver(f(k), 1 .. k - 1) \in Int
  <2>1. ASSUME NEW k \in 1 .. 7 PROVE SumOver(f(k), 1 .. k - 1) \in Int
    <3>1. IsFiniteSet(1 .. k - 1)
      <4>1. 1 \in Int /\ k - 1 \in Int
        OBVIOUS
      <4>2. QED
        BY <4>1, FS_Interval
    <3> HIDE DEF f
    <3>2. \A m \in 1 .. k - 1 : f(k)[m] \in Int
      BY <1>9, Zenon
    <3>3. QED
      BY <3>1, <3>2, SumOverType, Zenon
  <2>2. QED
    BY <2>1, Zenon
<1>6. ASSUME NEW k \in 1 .. 6 PROVE ReadBefore(file, k + 1) = ReadBefore(file, k) + file[k] * Fields[k]
  <2> HIDE DEF f
  <2>1. k \in 1 .. 7 /\ k + 1 \in 1 .. 7
    OBVIOUS
  <2>2. ReadBefore(file, k) = 6 + SumOver(f(k), 1 .. k - 1)
    BY <1>2, <2>1, Zenon
  <2>3. ReadBefore(file, k + 1) = 6 + SumOver(f(k + 1), 1 .. (k + 1) - 1)
    BY <1>2, <2>1, Zenon
  <2>4. SumOver(f(k), 1 .. k - 1) \in Int
    BY <1>5, <2>1, Zenon
  <2>5. file[k] * Fields[k] \in Int
    <3>1. \A x \in Nat : x \in Int
      OBVIOUS
    <3>2. QED
      BY <1>1, <3>1, Zenon
  <2>6. \A x, y \in Int : 6 + (y + x) = (6 + x) + y
    OBVIOUS
  <2>7. QED
    BY <1>4, <2>2, <2>3, <2>4, <2>5, <2>6, Zenon
<1> HIDE DEF f
<1>7. /\ ReadBefore(file, 1) \in Nat /\ ReadBefore(file, 2) \in Nat /\ ReadBefore(file, 3) \in Nat
      /\ ReadBefore(file, 4) \in Nat /\ ReadBefore(file, 5) \in Nat /\ ReadBefore(file, 6) \in Nat
      /\ ReadBefore(file, 7) \in Nat
  <2>1. \A k \in 1 .. 6 : ReadBefore(file, k) \in Nat => ReadBefore(file, k + 1) \in Nat
    <3>1. \A x, y \in Nat : x + y \in Nat
      OBVIOUS
    <3>2. QED
      BY <1>1, <1>6, <3>1, Zenon
  <2>2. ReadBefore(file, 1) \in Nat
    BY <1>3
  <2>3. ReadBefore(file, 2) \in Nat
    BY <2>1, <2>2
  <2>4. ReadBefore(file, 3) \in Nat
    BY <2>1, <2>3
  <2>5. ReadBefore(file, 4) \in Nat
    BY <2>1, <2>4
  <2>6. ReadBefore(file, 5) \in Nat
    BY <2>1, <2>5
  <2>7. ReadBefore(file, 6) \in Nat
    BY <2>1, <2>6
  <2>8. ReadBefore(file, 7) \in Nat
    BY <2>1, <2>7
  <2>9. QED
    BY <2>2, <2>3, <2>4, <2>5, <2>6, <2>7, <2>8
<1>8. \A k \in 1 .. 7 : ReadBefore(file, k) \in Nat
  <2>1. 1 .. 7 = {1, 2, 3, 4, 5, 6, 7}
    OBVIOUS
  <2>2. QED
    BY <1>7, <2>1, Zenon
<1>10. \A k \in 1 .. 6 : k \in 1 .. 7 /\ k + 1 \in 1 .. 7
  OBVIOUS
<1>11. QED
  BY <1>3, <1>6, <1>8, <1>10, Zenon

\* A file that holds what its counts say, and row i of its section k.
Readable(file) ==
    /\ file \in Seq(Int) /\ Len(file) = ReadBefore(file, 7)
    /\ \A k \in 1 .. 6 : file[k] \in Nat

RowAt(file, k, i) ==
    SubSeq(file, ReadBefore(file, k) + (i - 1) * Fields[k] + 1, ReadBefore(file, k) + i * Fields[k])

\* The sections lie in the file, one behind the other.
LEMMA SectionsLie ==
    ASSUME NEW file, Readable(file), NEW k \in 1 .. 6
    PROVE  /\ ReadBefore(file, k) \in Nat /\ ReadBefore(file, k + 1) \in Nat
           /\ ReadBefore(file, k + 1) = ReadBefore(file, k) + file[k] * Fields[k]
           /\ ReadBefore(file, k + 1) <= Len(file)
<1>1. /\ file \in Seq(Int) /\ Len(file) = ReadBefore(file, 7)
      /\ \A m \in 1 .. 6 : file[m] \in Nat
  BY DEF Readable
<1>2. \A m \in 1 .. 6 : /\ ReadBefore(file, m) \in Nat /\ ReadBefore(file, m + 1) \in Nat
                        /\ ReadBefore(file, m + 1) = ReadBefore(file, m) + file[m] * Fields[m]
  BY <1>1, SectionsBegin, Zenon
<1>3. \A m \in 1 .. 6 : ReadBefore(file, m) <= ReadBefore(file, m + 1)
  <2>1. \A m \in 1 .. 6 : file[m] * Fields[m] \in Nat
    <3>1. \A x, y \in Nat : x * y \in Nat
      OBVIOUS
    <3>2. QED
      BY <1>1, <3>1, FieldsType, Zenon
  <2>2. \A x, y \in Nat : x <= x + y
    OBVIOUS
  <2>3. QED
    BY <1>2, <2>1, <2>2, Zenon
<1>4. /\ ReadBefore(file, 1) \in Nat /\ ReadBefore(file, 2) \in Nat /\ ReadBefore(file, 3) \in Nat
      /\ ReadBefore(file, 4) \in Nat /\ ReadBefore(file, 5) \in Nat /\ ReadBefore(file, 6) \in Nat
      /\ ReadBefore(file, 7) \in Nat
      /\ ReadBefore(file, 2) <= ReadBefore(file, 3) /\ ReadBefore(file, 3) <= ReadBefore(file, 4)
      /\ ReadBefore(file, 4) <= ReadBefore(file, 5) /\ ReadBefore(file, 5) <= ReadBefore(file, 6)
      /\ ReadBefore(file, 6) <= ReadBefore(file, 7)
  <2>1. /\ 1 \in 1 .. 6 /\ 2 \in 1 .. 6 /\ 3 \in 1 .. 6 /\ 4 \in 1 .. 6 /\ 5 \in 1 .. 6 /\ 6 \in 1 .. 6
        /\ 2 + 1 = 3 /\ 3 + 1 = 4 /\ 4 + 1 = 5 /\ 5 + 1 = 6 /\ 6 + 1 = 7
    OBVIOUS
  <2>2. ReadBefore(file, 2) <= ReadBefore(file, 2 + 1) /\ ReadBefore(file, 3) <= ReadBefore(file, 3 + 1)
    BY <1>3, <2>1, Zenon
  <2>3. /\ ReadBefore(file, 4) <= ReadBefore(file, 4 + 1) /\ ReadBefore(file, 5) <= ReadBefore(file, 5 + 1)
        /\ ReadBefore(file, 6) <= ReadBefore(file, 6 + 1) /\ ReadBefore(file, 6 + 1) \in Nat
    BY <1>2, <1>3, <2>1, Zenon
  <2>4. /\ ReadBefore(file, 1) \in Nat /\ ReadBefore(file, 2) \in Nat /\ ReadBefore(file, 3) \in Nat
        /\ ReadBefore(file, 4) \in Nat /\ ReadBefore(file, 5) \in Nat /\ ReadBefore(file, 6) \in Nat
    BY <1>2, <2>1, Zenon
  <2>5. QED
    BY <2>1, <2>2, <2>3, <2>4, Zenon
<1>5. /\ ReadBefore(file, 2) <= ReadBefore(file, 7) /\ ReadBefore(file, 3) <= ReadBefore(file, 7)
      /\ ReadBefore(file, 4) <= ReadBefore(file, 7) /\ ReadBefore(file, 5) <= ReadBefore(file, 7)
      /\ ReadBefore(file, 6) <= ReadBefore(file, 7) /\ ReadBefore(file, 7) <= ReadBefore(file, 7)
  BY <1>4
<1>6. \/ k + 1 = 2 \/ k + 1 = 3 \/ k + 1 = 4 \/ k + 1 = 5 \/ k + 1 = 6 \/ k + 1 = 7
  OBVIOUS
<1>7. ReadBefore(file, k + 1) <= ReadBefore(file, 7)
  BY <1>5, <1>6, Zenon
<1>8. QED
  BY <1>1, <1>2, <1>7, Zenon

\* The rows of a section spell it.
LEMMA SectionSpells ==
    ASSUME NEW file, Readable(file), NEW k \in 1 .. 6,
           NEW s, s = [i \in 1 .. file[k] |-> RowAt(file, k, i)]
    PROVE  Spells(file, s, ReadBefore(file, k), ReadBefore(file, k + 1))
<1>1. file \in Seq(Int) /\ file[k] \in Nat /\ Fields[k] \in Nat
  BY FieldsType, Zenon DEF Readable
<1>2. /\ ReadBefore(file, k) \in Nat
      /\ ReadBefore(file, k + 1) = ReadBefore(file, k) + file[k] * Fields[k]
      /\ ReadBefore(file, k + 1) <= Len(file)
  BY SectionsLie, Zenon
<1> DEFINE p == ReadBefore(file, k)
           w == Fields[k]
           n == file[k]
<1>3. s = [i \in 1 .. n |-> SubSeq(file, p + (i - 1) * w + 1, p + i * w)]
  BY Zenon DEF RowAt
<1>4. p \in Nat /\ w \in Nat /\ n \in Nat /\ p + n * w <= Len(file) /\ ReadBefore(file, k + 1) = p + n * w
  BY <1>1, <1>2, Zenon
<1> HIDE DEF p, w, n
<1>5. Spells(file, s, p, p + n * w)
  BY <1>1, <1>3, <1>4, RowsSpell, Zenon
<1>6. QED
  BY <1>4, <1>5, Zenon DEF p

\* Their widths.
LEMMA RowAtType ==
    ASSUME NEW file, Readable(file), NEW k \in 1 .. 6, NEW i \in 1 .. file[k]
    PROVE  RowAt(file, k, i) \in Seq(Int) /\ Len(RowAt(file, k, i)) = Fields[k]
<1>1. file \in Seq(Int) /\ file[k] \in Nat /\ Fields[k] \in Nat
  BY FieldsType, Zenon DEF Readable
<1>2. /\ ReadBefore(file, k) \in Nat
      /\ ReadBefore(file, k + 1) = ReadBefore(file, k) + file[k] * Fields[k]
      /\ ReadBefore(file, k + 1) <= Len(file)
  BY SectionsLie, Zenon
<1> DEFINE p == ReadBefore(file, k)
           w == Fields[k]
           n == file[k]
           a == p + (i - 1) * w
           b == p + i * w
<1>3. RowAt(file, k, i) = SubSeq(file, a + 1, b)
  BY Zenon DEF RowAt
<1>4. p \in Nat /\ w \in Nat /\ n \in Nat /\ p + n * w <= Len(file) /\ i \in 1 .. n
  BY <1>1, <1>2, Zenon
<1> HIDE DEF p, w, n
<1>5. a \in Nat /\ b \in Nat /\ a <= b /\ b <= Len(file) /\ b - a = w
  <2>1. i - 1 \in Nat /\ i \in Nat /\ n - i \in Nat
    BY <1>4
  <2>2. (i - 1) * w \in Nat /\ (n - i) * w \in Nat
    <3>1. \A x, y \in Nat : x * y \in Nat
      OBVIOUS
    <3>2. QED
      BY <1>4, <2>1, <3>1, Zenon
  <2>3. i * w = (i - 1) * w + w /\ n * w = ((i - 1) * w + w) + (n - i) * w
    BY <1>4
  <2>4. \A x, y \in Nat : p + ((x + w) + y) <= Len(file) =>
            /\ p + x \in Nat /\ p + (x + w) \in Nat /\ p + x <= p + (x + w)
            /\ p + (x + w) <= Len(file) /\ (p + (x + w)) - (p + x) = w
    BY <1>1, <1>4
  <2>5. p + (((i - 1) * w + w) + (n - i) * w) <= Len(file)
    BY <1>4, <2>3, Zenon
  <2>6. QED
    BY <2>2, <2>3, <2>4, <2>5, Zenon
<1> HIDE DEF a, b
<1>6. SubSeq(file, a + 1, b) \in Seq(Int) /\ Len(SubSeq(file, a + 1, b)) = b - a
  BY <1>1, <1>5, PartsJoin, Zenon
<1>7. QED
  BY <1>3, <1>5, <1>6, Zenon DEF w

\* The arrays hold the rows.
LEMMA ArraysHoldRows ==
    ASSUME NEW file, Readable(file)
    PROVE  /\ \A k \in 1 .. 6 : Cardinality(0 .. file[k] - 1) = file[k]
           /\ DOMAIN pNode(file) = 0 .. file[1] - 1 /\ DOMAIN pConsNode(file) = 0 .. file[2] - 1
           /\ DOMAIN pElem(file) = 0 .. file[3] - 1 /\ DOMAIN pMate(file) = 0 .. file[4] - 1
           /\ DOMAIN pSect(file) = 0 .. file[5] - 1 /\ DOMAIN pLoad(file) = 0 .. file[6] - 1
           /\ \A i \in 1 .. file[1] : pNode(file)[i - 1] = NodeAt(RowAt(file, 1, i))
           /\ \A i \in 1 .. file[2] : pConsNode(file)[i - 1] = ConsAt(RowAt(file, 2, i))
           /\ \A i \in 1 .. file[3] : pElem(file)[i - 1] = ElementAt(RowAt(file, 3, i))
           /\ \A i \in 1 .. file[4] : pMate(file)[i - 1] = MateAt(RowAt(file, 4, i))
           /\ \A i \in 1 .. file[5] : pSect(file)[i - 1] = SectAt(RowAt(file, 5, i))
           /\ \A i \in 1 .. file[6] : pLoad(file)[i - 1] = LoadAt(RowAt(file, 6, i))
<1>1. \A k \in 1 .. 6 : file[k] \in Nat
  BY Zenon DEF Readable
<1>2. ASSUME NEW k \in 1 .. 6 PROVE Cardinality(0 .. file[k] - 1) = file[k]
  <2>1. \A n \in Nat : 0 \in Int /\ n - 1 \in Int /\ (IF 0 > n - 1 THEN 0 ELSE (n - 1) - 0 + 1) = n
    OBVIOUS
  <2>2. \A b \in Int : Cardinality(0 .. b) = IF 0 > b THEN 0 ELSE b - 0 + 1
    BY FS_Interval
  <2>3. QED
    BY <1>1, <2>1, <2>2, Zenon
<1>3. ASSUME NEW k \in 1 .. 6, NEW i \in 1 .. file[k]
      PROVE  /\ i - 1 \in 0 .. file[k] - 1
             /\ SubSeq(file, ReadBefore(file, k) + (i - 1) * Fields[k] + 1,
                             ReadBefore(file, k) + ((i - 1) + 1) * Fields[k]) = RowAt(file, k, i)
  <2>1. \A n \in Nat : \A j \in 1 .. n : j - 1 \in 0 .. n - 1 /\ (j - 1) + 1 = j
    OBVIOUS
  <2>2. i - 1 \in 0 .. file[k] - 1 /\ (i - 1) + 1 = i
    BY <1>1, <2>1, Zenon
  <2>3. QED
    BY <2>2, Zenon DEF RowAt
<1>4. 1 \in 1 .. 6 /\ 2 \in 1 .. 6 /\ 3 \in 1 .. 6 /\ 4 \in 1 .. 6 /\ 5 \in 1 .. 6 /\ 6 \in 1 .. 6
  OBVIOUS
<1>5. /\ DOMAIN pNode(file) = 0 .. file[1] - 1
      /\ \A i \in 1 .. file[1] : pNode(file)[i - 1] = NodeAt(RowAt(file, 1, i))
  BY <1>3, <1>4, Zenon DEF pNode, Rows
<1>6. /\ DOMAIN pConsNode(file) = 0 .. file[2] - 1
      /\ \A i \in 1 .. file[2] : pConsNode(file)[i - 1] = ConsAt(RowAt(file, 2, i))
  BY <1>3, <1>4, Zenon DEF pConsNode, Rows
<1>7. /\ DOMAIN pElem(file) = 0 .. file[3] - 1
      /\ \A i \in 1 .. file[3] : pElem(file)[i - 1] = ElementAt(RowAt(file, 3, i))
  BY <1>3, <1>4, Zenon DEF pElem, Rows
<1>8. /\ DOMAIN pMate(file) = 0 .. file[4] - 1
      /\ \A i \in 1 .. file[4] : pMate(file)[i - 1] = MateAt(RowAt(file, 4, i))
  BY <1>3, <1>4, Zenon DEF pMate, Rows
<1>9. /\ DOMAIN pSect(file) = 0 .. file[5] - 1
      /\ \A i \in 1 .. file[5] : pSect(file)[i - 1] = SectAt(RowAt(file, 5, i))
  BY <1>3, <1>4, Zenon DEF pSect, Rows
<1>10. /\ DOMAIN pLoad(file) = 0 .. file[6] - 1
       /\ \A i \in 1 .. file[6] : pLoad(file)[i - 1] = LoadAt(RowAt(file, 6, i))
  BY <1>3, <1>4, Zenon DEF pLoad, Rows
<1>11. QED
  BY <1>2, <1>5, <1>6, <1>7, <1>8, <1>9, <1>10

\* What is echoed of a section are its rows.
LEMMA EchoOfSections ==
    ASSUME NEW file, Readable(file)
    PROVE  EchoRows(file) =
               [m \in 1 .. 6 |-> <<file[m]>>]
               \o [i \in 1 .. file[1] |-> RowAt(file, 1, i)] \o [i \in 1 .. file[2] |-> RowAt(file, 2, i)]
               \o [i \in 1 .. file[3] |-> RowAt(file, 3, i)] \o [i \in 1 .. file[4] |-> RowAt(file, 4, i)]
               \o [i \in 1 .. file[5] |-> RowAt(file, 5, i)] \o [i \in 1 .. file[6] |-> RowAt(file, 6, i)]
<1>1. \A k \in 1 .. 6 : \A i \in 1 .. file[k] : RowAt(file, k, i) \in Seq(Int) /\ Len(RowAt(file, k, i)) = Fields[k]
  BY RowAtType
<1>2. 1 \in 1 .. 6 /\ 2 \in 1 .. 6 /\ 3 \in 1 .. 6 /\ 4 \in 1 .. 6 /\ 5 \in 1 .. 6 /\ 6 \in 1 .. 6
  OBVIOUS
<1>3. [i \in 1 .. Cardinality(DOMAIN pNode(file)) |-> <<pNode(file)[i - 1].iType, pNode(file)[i - 1].dX, pNode(file)[i - 1].dY>>]
      = [i \in 1 .. file[1] |-> RowAt(file, 1, i)]
  <2>1. Cardinality(DOMAIN pNode(file)) = file[1]
    BY <1>2, ArraysHoldRows, Zenon
  <2>2. ASSUME NEW r \in Seq(Int), Len(r) = 3
        PROVE  <<NodeAt(r).iType, NodeAt(r).dX, NodeAt(r).dY>> = r
    BY <2>2, RowOfCells DEF NodeAt
  <2>3. ASSUME NEW i \in 1 .. file[1]
        PROVE  <<pNode(file)[i - 1].iType, pNode(file)[i - 1].dX, pNode(file)[i - 1].dY>> = RowAt(file, 1, i)
    <3>1. pNode(file)[i - 1] = NodeAt(RowAt(file, 1, i))
      BY ArraysHoldRows, Zenon
    <3>2. RowAt(file, 1, i) \in Seq(Int) /\ Len(RowAt(file, 1, i)) = 3
      BY <1>1, <1>2, FieldsType, Zenon
    <3>3. QED
      BY <2>2, <3>1, <3>2, Zenon
  <2>4. QED
    BY <2>1, <2>3, Zenon
<1>4. [i \in 1 .. Cardinality(DOMAIN pConsNode(file)) |-> <<pConsNode(file)[i - 1].iNode>> \o pConsNode(file)[i - 1].iaConstrainedDOF]
      = [i \in 1 .. file[2] |-> RowAt(file, 2, i)]
  <2>1. Cardinality(DOMAIN pConsNode(file)) = file[2]
    BY <1>2, ArraysHoldRows, Zenon
  <2>2. ASSUME NEW r \in Seq(Int), Len(r) = 4
        PROVE  <<ConsAt(r).iNode>> \o ConsAt(r).iaConstrainedDOF = r
    BY <2>2, RowOfCells, Zenon DEF ConsAt
  <2>3. ASSUME NEW i \in 1 .. file[2]
        PROVE  <<pConsNode(file)[i - 1].iNode>> \o pConsNode(file)[i - 1].iaConstrainedDOF = RowAt(file, 2, i)
    <3>1. pConsNode(file)[i - 1] = ConsAt(RowAt(file, 2, i))
      BY ArraysHoldRows, Zenon
    <3>2. RowAt(file, 2, i) \in Seq(Int) /\ Len(RowAt(file, 2, i)) = 4
      BY <1>1, <1>2, FieldsType, Zenon
    <3>3. QED
      BY <2>2, <3>1, <3>2, Zenon
  <2>4. QED
    BY <2>1, <2>3, Zenon
<1>5. [i \in 1 .. Cardinality(DOMAIN pElem(file)) |-> <<pElem(file)[i - 1].iType>> \o pElem(file)[i - 1].iaNode \o <<pElem(file)[i - 1].iSection, pElem(file)[i - 1].iMaterial>>]
      = [i \in 1 .. file[3] |-> RowAt(file, 3, i)]
  <2>1. Cardinality(DOMAIN pElem(file)) = file[3]
    BY <1>2, ArraysHoldRows, Zenon
  <2>2. ASSUME NEW r \in Seq(Int), Len(r) = 5
        PROVE  <<ElementAt(r).iType>> \o ElementAt(r).iaNode \o <<ElementAt(r).iSection, ElementAt(r).iMaterial>> = r
    BY <2>2, RowOfCells, Zenon DEF ElementAt
  <2>3. ASSUME NEW i \in 1 .. file[3]
        PROVE  <<pElem(file)[i - 1].iType>> \o pElem(file)[i - 1].iaNode \o <<pElem(file)[i - 1].iSection, pElem(file)[i - 1].iMaterial>> = RowAt(file, 3, i)
    <3>1. pElem(file)[i - 1] = ElementAt(RowAt(file, 3, i))
      BY ArraysHoldRows, Zenon
    <3>2. RowAt(file, 3, i) \in Seq(Int) /\ Len(RowAt(file, 3, i)) = 5
      BY <1>1, <1>2, FieldsType, Zenon
    <3>3. QED
      BY <2>2, <3>1, <3>2, Zenon
  <2>4. QED
    BY <2>1, <2>3, Zenon
<1>6. [i \in 1 .. Cardinality(DOMAIN pMate(file)) |-> <<pMate(file)[i - 1].dE, pMate(file)[i - 1].dMu, pMate(file)[i - 1].dAlpha>>]
      = [i \in 1 .. file[4] |-> RowAt(file, 4, i)]
  <2>1. Cardinality(DOMAIN pMate(file)) = file[4]
    BY <1>2, ArraysHoldRows, Zenon
  <2>2. ASSUME NEW r \in Seq(Int), Len(r) = 3
        PROVE  <<MateAt(r).dE, MateAt(r).dMu, MateAt(r).dAlpha>> = r
    BY <2>2, RowOfCells DEF MateAt
  <2>3. ASSUME NEW i \in 1 .. file[4]
        PROVE  <<pMate(file)[i - 1].dE, pMate(file)[i - 1].dMu, pMate(file)[i - 1].dAlpha>> = RowAt(file, 4, i)
    <3>1. pMate(file)[i - 1] = MateAt(RowAt(file, 4, i))
      BY ArraysHoldRows, Zenon
    <3>2. RowAt(file, 4, i) \in Seq(Int) /\ Len(RowAt(file, 4, i)) = 3
      BY <1>1, <1>2, FieldsType, Zenon
    <3>3. QED
      BY <2>2, <3>1, <3>2, Zenon
  <2>4. QED
    BY <2>1, <2>3, Zenon
<1>7. [i \in 1 .. Cardinality(DOMAIN pSect(file)) |-> <<pSect(file)[i - 1].dA, pSect(file)[i - 1].dIz, pSect(file)[i - 1].dH>>]
      = [i \in 1 .. file[5] |-> RowAt(file, 5, i)]
  <2>1. Cardinality(DOMAIN pSect(file)) = file[5]
    BY <1>2, ArraysHoldRows, Zenon
  <2>2. ASSUME NEW r \in Seq(Int), Len(r) = 3
        PROVE  <<SectAt(r).dA, SectAt(r).dIz, SectAt(r).dH>> = r
    BY <2>2, RowOfCells DEF SectAt
  <2>3. ASSUME NEW i \in 1 .. file[5]
        PROVE  <<pSect(file)[i - 1].dA, pSect(file)[i - 1].dIz, pSect(file)[i - 1].dH>> = RowAt(file, 5, i)
    <3>1. pSect(file)[i - 1] = SectAt(RowAt(file, 5, i))
      BY ArraysHoldRows, Zenon
    <3>2. RowAt(file, 5, i) \in Seq(Int) /\ Len(RowAt(file, 5, i)) = 3
      BY <1>1, <1>2, FieldsType, Zenon
    <3>3. QED
      BY <2>2, <3>1, <3>2, Zenon
  <2>4. QED
    BY <2>1, <2>3, Zenon
<1>8. [i \in 1 .. Cardinality(DOMAIN pLoad(file)) |-> <<pLoad(file)[i - 1].iType, pLoad(file)[i - 1].iDirect, pLoad(file)[i - 1].dValue, pLoad(file)[i - 1].iLoadedElem, pLoad(file)[i - 1].iLoadedNode, pLoad(file)[i - 1].dPosition, pLoad(file)[i - 1].dT0, pLoad(file)[i - 1].dT1>>]
      = [i \in 1 .. file[6] |-> RowAt(file, 6, i)]
  <2>1. Cardinality(DOMAIN pLoad(file)) = file[6]
    BY <1>2, ArraysHoldRows, Zenon
  <2>2. ASSUME NEW r \in Seq(Int), Len(r) = 8
        PROVE  <<LoadAt(r).iType, LoadAt(r).iDirect, LoadAt(r).dValue, LoadAt(r).iLoadedElem, LoadAt(r).iLoadedNode, LoadAt(r).dPosition, LoadAt(r).dT0, LoadAt(r).dT1>> = r
    BY <2>2, RowOfCells DEF LoadAt
  <2>3. ASSUME NEW i \in 1 .. file[6]
        PROVE  <<pLoad(file)[i - 1].iType, pLoad(file)[i - 1].iDirect, pLoad(file)[i - 1].dValue, pLoad(file)[i - 1].iLoadedElem, pLoad(file)[i - 1].iLoadedNode, pLoad(file)[i - 1].dPosition, pLoad(file)[i - 1].dT0, pLoad(file)[i - 1].dT1>> = RowAt(file, 6, i)
    <3>1. pLoad(file)[i - 1] = LoadAt(RowAt(file, 6, i))
      BY ArraysHoldRows, Zenon
    <3>2. RowAt(file, 6, i) \in Seq(Int) /\ Len(RowAt(file, 6, i)) = 8
      BY <1>1, <1>2, FieldsType, Zenon
    <3>3. QED
      BY <2>2, <3>1, <3>2, Zenon
  <2>4. QED
    BY <2>1, <2>3, Zenon
<1>9. QED
  BY <1>3, <1>4, <1>5, <1>6, <1>7, <1>8, Zenon DEF EchoRows

\* The counts are the head of the file.
LEMMA CountsSpell ==
    ASSUME NEW file, Readable(file)
    PROVE  Spells(file, [m \in 1 .. 6 |-> <<file[m]>>], 0, 6)
<1>1. file \in Seq(Int)
  BY DEF Readable
<1>2. 6 <= Len(file)
  <2>1. ReadBefore(file, 1) = 6 /\ ReadBefore(file, 1 + 1) <= Len(file) /\ file[1] * Fields[1] \in Nat
    <3>1. 1 \in 1 .. 6
      OBVIOUS
    <3>2. \A x, y \in Nat : x * y \in Nat
      OBVIOUS
    <3>3. file[1] \in Nat /\ Fields[1] \in Nat
      BY <3>1, FieldsType, Zenon DEF Readable
    <3>4. ReadBefore(file, 1) = 6
      BY SectionsBegin, Zenon DEF Readable
    <3>5. QED
      BY <3>1, <3>2, <3>3, <3>4, SectionsLie, Zenon
  <2>2. ReadBefore(file, 1 + 1) = 6 + file[1] * Fields[1]
    <3>1. 1 \in 1 .. 6
      OBVIOUS
    <3>2. QED
      BY <2>1, <3>1, SectionsLie, Zenon
  <2>3. Len(file) \in Nat
    BY <1>1
  <2>4. \A x, y \in Nat : 6 + x <= y => 6 <= y
    OBVIOUS
  <2>5. QED
    BY <2>1, <2>2, <2>3, <2>4, Zenon
<1>3. [m \in 1 .. 6 |-> <<file[m]>>] = [i \in 1 .. 6 |-> SubSeq(file, 0 + (i - 1) * 1 + 1, 0 + i * 1)]
  <2>1. ASSUME NEW i \in 1 .. 6 PROVE SubSeq(file, 0 + (i - 1) * 1 + 1, 0 + i * 1) = <<file[i]>>
    <3>1. /\ 0 + (i - 1) * 1 + 1 = (i - 1) + 1 /\ 0 + i * 1 = i /\ i - 1 \in Nat /\ i \in Nat
          /\ i - 1 <= i /\ i - (i - 1) = 1 /\ (i - 1) + 1 = i /\ 1 \in 1 .. 1
      OBVIOUS
    <3>2. i <= Len(file)
      BY <1>1, <1>2
    <3> DEFINE r == SubSeq(file, (i - 1) + 1, i)
    <3>3. r \in Seq(Int) /\ Len(r) = i - (i - 1) /\ \A j \in 1 .. i - (i - 1) : r[j] = file[(i - 1) + j]
      BY <1>1, <3>1, <3>2, PartsJoin
    <3>4. SubSeq(file, 0 + (i - 1) * 1 + 1, 0 + i * 1) = r
      BY <3>1, Zenon
    <3> HIDE DEF r
    <3>5. r \in Seq(Int) /\ Len(r) = 1 /\ r[1] = file[i]
      BY <3>1, <3>3, Zenon
    <3>6. <<r[1]>> = r
      BY <3>5, RowOfCells
    <3>7. QED
      BY <3>4, <3>5, <3>6, Zenon
  <2>2. QED
    BY <2>1, Zenon
<1>4. 0 + 6 * 1 = 6 /\ 0 \in Nat /\ 1 \in Nat /\ 6 \in Nat
  OBVIOUS
<1>5. Spells(file, [m \in 1 .. 6 |-> <<file[m]>>], 0, 0 + 6 * 1)
  <2> DEFINE s == [m \in 1 .. 6 |-> <<file[m]>>]
  <2>1. s = [i \in 1 .. 6 |-> SubSeq(file, 0 + (i - 1) * 1 + 1, 0 + i * 1)]
    BY <1>3
  <2>2. 0 + 6 * 1 <= Len(file)
    BY <1>2, <1>4, Zenon
  <2> HIDE DEF s
  <2>3. Spells(file, s, 0, 0 + 6 * 1)
    BY <1>1, <1>4, <2>1, <2>2, RowsSpell, Zenon
  <2>4. QED
    BY <2>3 DEF s
<1>6. QED
  BY <1>4, <1>5, Zenon

\* The echo, number after number, is the file.
LEMMA EchoSpellsFile ==
    ASSUME NEW file, Readable(file)
    PROVE  FlattenSeq(EchoRows(file)) = file
<1>1. file \in Seq(Int) /\ Len(file) = ReadBefore(file, 7) /\ ReadBefore(file, 1) = 6
  BY SectionsBegin, Zenon DEF Readable
<1> DEFINE s(k) == [i \in 1 .. file[k] |-> RowAt(file, k, i)]
           c == [m \in 1 .. 6 |-> <<file[m]>>]
<1>2. Spells(file, c, 0, ReadBefore(file, 1))
  BY <1>1, CountsSpell, Zenon
<1>3. \A k \in 1 .. 6 : Spells(file, s(k), ReadBefore(file, k), ReadBefore(file, k + 1))
  BY SectionSpells
<1>4. /\ 1 \in 1 .. 6 /\ 2 \in 1 .. 6 /\ 3 \in 1 .. 6 /\ 4 \in 1 .. 6 /\ 5 \in 1 .. 6 /\ 6 \in 1 .. 6
      /\ 1 + 1 = 2 /\ 2 + 1 = 3 /\ 3 + 1 = 4 /\ 4 + 1 = 5 /\ 5 + 1 = 6 /\ 6 + 1 = 7
  OBVIOUS
<1>5. EchoRows(file) = c \o s(1) \o s(2) \o s(3) \o s(4) \o s(5) \o s(6)
  BY EchoOfSections, Zenon
<1> HIDE DEF s
<1>6. /\ Spells(file, s(1), ReadBefore(file, 1), ReadBefore(file, 2))
      /\ Spells(file, s(2), ReadBefore(file, 2), ReadBefore(file, 3))
      /\ Spells(file, s(3), ReadBefore(file, 3), ReadBefore(file, 4))
      /\ Spells(file, s(4), ReadBefore(file, 4), ReadBefore(file, 5))
      /\ Spells(file, s(5), ReadBefore(file, 5), ReadBefore(file, 6))
      /\ Spells(file, s(6), ReadBefore(file, 6), ReadBefore(file, 7))
  <2>1. /\ Spells(file, s(1), ReadBefore(file, 1), ReadBefore(file, 1 + 1))
        /\ Spells(file, s(2), ReadBefore(file, 2), ReadBefore(file, 2 + 1))
        /\ Spells(file, s(3), ReadBefore(file, 3), ReadBefore(file, 3 + 1))
        /\ Spells(file, s(4), ReadBefore(file, 4), ReadBefore(file, 4 + 1))
        /\ Spells(file, s(5), ReadBefore(file, 5), ReadBefore(file, 5 + 1))
        /\ Spells(file, s(6), ReadBefore(file, 6), ReadBefore(file, 6 + 1))
    BY <1>3, <1>4, Zenon
  <2>2. QED
    BY <1>4, <2>1, Zenon
<1>7. c \in Seq(Seq(Int)) /\ Len(c) = 6
  <2>1. c \in Seq(Seq(Int))
    BY <1>2 DEF Spells
  <2>2. c \in [1 .. 6 -> {c[m] : m \in 1 .. 6}] /\ 6 \in Nat
    OBVIOUS
  <2>3. QED
    BY <2>1, <2>2, FunctionIsSequence
<1> HIDE DEF c
<1> DEFINE d1 == c \o s(1)
           d2 == d1 \o s(2)
           d3 == d2 \o s(3)
           d4 == d3 \o s(4)
           d5 == d4 \o s(5)
           d6 == d5 \o s(6)
<1>8. Spells(file, d1, 0, ReadBefore(file, 2))
  BY <1>1, <1>2, <1>6, SpellsOn
<1>9. Spells(file, d2, 0, ReadBefore(file, 3))
  <2> HIDE DEF d1
  <2>1. QED
    BY <1>1, <1>6, <1>8, SpellsOn
<1>10. Spells(file, d3, 0, ReadBefore(file, 4))
  <2> HIDE DEF d2
  <2>1. QED
    BY <1>1, <1>6, <1>9, SpellsOn
<1>11. Spells(file, d4, 0, ReadBefore(file, 5))
  <2> HIDE DEF d3
  <2>1. QED
    BY <1>1, <1>6, <1>10, SpellsOn
<1>12. Spells(file, d5, 0, ReadBefore(file, 6))
  <2> HIDE DEF d4
  <2>1. QED
    BY <1>1, <1>6, <1>11, SpellsOn
<1>13. Spells(file, d6, 0, ReadBefore(file, 7))
  <2> HIDE DEF d5
  <2>1. QED
    BY <1>1, <1>6, <1>12, SpellsOn
<1>14. Len(d6) # 0
  <2>1. \A x, y \in Seq(Seq(Int)) : Len(x) # 0 => Len(x \o y) # 0
    <3>1. \A m, n \in Nat : m # 0 => m + n # 0
      OBVIOUS
    <3>2. \A x \in Seq(Seq(Int)) : Len(x) \in Nat
      OBVIOUS
    <3>3. \A x, y \in Seq(Seq(Int)) : Len(x \o y) = Len(x) + Len(y)
      BY ConcatProperties
    <3>4. QED
      BY <3>1, <3>2, <3>3, Zenon
  <2>2. /\ s(1) \in Seq(Seq(Int)) /\ s(2) \in Seq(Seq(Int)) /\ s(3) \in Seq(Seq(Int))
        /\ s(4) \in Seq(Seq(Int)) /\ s(5) \in Seq(Seq(Int)) /\ s(6) \in Seq(Seq(Int))
    BY <1>6 DEF Spells
  <2> HIDE DEF d1, d2, d3, d4, d5, d6
  <2>3. /\ d1 \in Seq(Seq(Int)) /\ d2 \in Seq(Seq(Int)) /\ d3 \in Seq(Seq(Int))
        /\ d4 \in Seq(Seq(Int)) /\ d5 \in Seq(Seq(Int))
    BY <1>8, <1>9, <1>10, <1>11, <1>12 DEF Spells
  <2>4. Len(c) # 0
    BY <1>7
  <2>5. Len(d1) # 0
    BY <1>7, <2>1, <2>2, <2>4, Zenon DEF d1
  <2>6. Len(d2) # 0
    BY <2>1, <2>2, <2>3, <2>5, Zenon DEF d2
  <2>7. Len(d3) # 0
    BY <2>1, <2>2, <2>3, <2>6, Zenon DEF d3
  <2>8. Len(d4) # 0
    BY <2>1, <2>2, <2>3, <2>7, Zenon DEF d4
  <2>9. Len(d5) # 0
    BY <2>1, <2>2, <2>3, <2>8, Zenon DEF d5
  <2>10. QED
    BY <2>1, <2>2, <2>3, <2>9, Zenon DEF d6
<1>15. EchoRows(file) = d6
  BY <1>5
<1> HIDE DEF d6
<1>16. FlattenSeq(d6) = SubSeq(file, 1, Len(file))
  BY <1>1, <1>13, <1>14, FlattenSpells
<1>17. SubSeq(file, 1, Len(file)) = file
  BY <1>1, SubSeqFull
<1>18. QED
  BY <1>15, <1>16, <1>17, Zenon

\* So is the first table that has been printed.
LEMMA EchoFollows ==
    ASSUME FrameIInv
    PROVE  EchoIsInput
<1>1. SUFFICES ASSUME printed # <<>> PROVE FlattenSeq(printed[1]) = fin0
  BY DEF EchoIsInput
<1>2. printed[1] = EchoRows(fin0)
  <2>1. \/ printed = <<EchoRows(fin0)>>
        \/ printed = <<EchoRows(fin0), DisplacementTable>>
        \/ printed = <<EchoRows(fin0), DisplacementTable, EndForceTable>>
        \/ printed = <<EchoRows(fin0), DisplacementTable, EndForceTable, ReactionTable>>
    BY <1>1 DEF FrameIInv
  <2>2. QED
    BY <2>1
<1>3. Readable(fin0)
  <2>1. fin0 \in Files
    BY DEF FrameIInv
  <2>2. QED
    BY <2>1, FileAssumption, Zenon DEF Readable
<1>4. QED
  BY <1>2, <1>3, EchoSpellsFile, Zenon

-----------------------------------------------------------------------------
(* The forces that hold a clamped element are in equilibrium with its load:   *)
(* modulo P the program's quotients solve what they divide, and the rest is   *)
(* an identity of polynomials.                                                *)

\* What is 0 modulo P.
Zero(x) == Same(P, x, 0)

LEMMA ZeroRules ==
    /\ \A x, y \in Int : Zero(x) /\ Zero(y) => Zero(x + y)
    /\ \A x, k \in Int : Zero(x) => Zero(k * x)
    /\ \A x, y \in Int : Same(P, x, y) => Zero(x - y)
    /\ \A x, y \in Int : Unit(y) /\ Zero(x * y) => Zero(x)
    /\ \A x \in Int : Zero(x) => x % P = 0
<1>0. P \in Nat \ {0} /\ 0 \in Int /\ 0 % P = 0
  BY PrimeType, SmallRemainders
<1>1. ASSUME NEW x \in Int, NEW y \in Int, Zero(x), Zero(y) PROVE Zero(x + y)
  <2>1. Same(P, x + y, 0 + 0)
    BY <1>0, <1>1, SameAdds, Zenon DEF Zero
  <2>2. 0 + 0 = 0
    OBVIOUS
  <2>3. QED
    BY <2>1, <2>2, Zenon DEF Zero
<1>2. ASSUME NEW x \in Int, NEW k \in Int, Zero(x) PROVE Zero(k * x)
  <2>1. Same(P, k * x, k * 0)
    BY <1>0, <1>2, SameScales, Zenon DEF Zero
  <2>2. k * 0 = 0
    OBVIOUS
  <2>3. QED
    BY <2>1, <2>2, Zenon DEF Zero
<1>3. ASSUME NEW x \in Int, NEW y \in Int, Same(P, x, y) PROVE Zero(x - y)
  <2>1. -y \in Int /\ x + (-y) = x - y /\ y + (-y) = 0
    OBVIOUS
  <2>2. Same(P, -y, -y)
    BY <1>0, <2>1, SameIsEquivalence, Zenon
  <2>3. Same(P, x + (-y), y + (-y))
    BY <1>0, <1>3, <2>1, <2>2, SameAdds, Zenon
  <2>4. QED
    BY <2>1, <2>3, Zenon DEF Zero
<1>4. ASSUME NEW x \in Int, NEW y \in Int, Unit(y), Zero(x * y) PROVE Zero(x)
  <2>1. PICK b \in Int : Same(P, y * b, 1)
    BY <1>4, Zenon DEF Unit
  <2>2. x * y \in Int /\ y * b \in Int /\ (x * y) * b \in Int /\ x * (y * b) \in Int
        /\ (x * y) * b = x * (y * b) /\ 0 * b = 0 /\ x * 1 = x /\ 1 \in Int
    OBVIOUS
  <2>3. Same(P, (x * y) * b, 0 * b)
    BY <1>0, <1>4, <2>2, SameScales, Zenon DEF Zero
  <2>4. Same(P, x * (y * b), x * 1)
    BY <2>1, <2>2, SameScales, Zenon
  <2>5. Same(P, x, x * (y * b))
    BY <1>0, <2>2, <2>4, SameIsEquivalence, Zenon
  <2>6. Same(P, x * (y * b), 0)
    BY <2>2, <2>3, Zenon
  <2>7. QED
    BY <1>0, <2>2, <2>5, <2>6, SameChains, Zenon DEF Zero
<1>5. ASSUME NEW x \in Int, Zero(x) PROVE x % P = 0
  BY <1>0, <1>5, Zenon DEF Zero, Same
<1>6. QED
  BY <1>1, <1>2, <1>3, <1>4, <1>5

LEMMA ZeroCombines ==
    ASSUME NEW x \in Int, NEW y \in Int, NEW z \in Int, Zero(x), Zero(y), Zero(z)
    PROVE  \A i, j, k \in Int : Zero(i * x + j * y + k * z)
<1> TAKE i, j, k \in Int
<1>1. i * x \in Int /\ j * y \in Int /\ k * z \in Int /\ i * x + j * y \in Int
  OBVIOUS
<1>2. Zero(i * x) /\ Zero(j * y) /\ Zero(k * z)
  BY ZeroRules, Zenon
<1>3. Zero(i * x + j * y)
  BY <1>1, <1>2, ZeroRules, Zenon
<1>4. QED
  BY <1>1, <1>2, <1>3, ZeroRules, Zenon

\* Division undoes multiplication.
LEMMA DivSolves ==
    \A x, y \in Int : Unit(y) => Div(x, y) \in Int /\ Zero(Div(x, y) * y - x)
<1> TAKE x, y \in Int
<1> HAVE Unit(y)
<1>0. P \in Nat \ {0}
  BY PrimeType
<1>1. PICK a \in 1 .. P - 1 : a = y % P
  BY UnitsRemainder
<1>2. PICK r \in 1 .. P - 1 : r = Reciprocal[a] /\ Same(P, a * r, 1)
  BY ReciprocalIs, Zenon
<1>3. PICK d \in Int : d = Div(x, y)
  BY <1>0, DivType
<1>4. PICK m \in Int : m = x % P
  BY <1>0, RemainderType
<1>5. d = (m * r) % P
  BY <1>1, <1>2, <1>3, <1>4, Zenon DEF Div
<1>6. a \in Int /\ r \in Int /\ m * r \in Int /\ x * r \in Int /\ d * y \in Int /\ (x * r) * y \in Int
      /\ (x * r) * a \in Int /\ (x * r) * a = x * (a * r) /\ a * r \in Int /\ x * 1 = x /\ 1 \in Int
      /\ x * (a * r) \in Int
  BY <1>0
<1>7. Same(P, m, x) /\ Same(P, a, y) /\ Same(P, y, a) /\ Same(P, d, m * r)
  <2>1. Same(P, m, x) /\ Same(P, a, y) /\ Same(P, d, m * r)
    BY <1>0, <1>1, <1>4, <1>5, <1>6, SameIsEquivalence, Zenon
  <2>2. QED
    BY <1>0, <1>6, <2>1, SameIsEquivalence, Zenon
<1>8. Same(P, m * r, x * r)
  BY <1>6, <1>7, SameScales, Zenon
<1>9. Same(P, d, x * r)
  BY <1>6, <1>7, <1>8, SameChains, Zenon
<1>10. Same(P, d * y, (x * r) * y)
  BY <1>6, <1>9, SameScales, Zenon
<1>11. Same(P, (x * r) * y, (x * r) * a)
  BY <1>6, <1>7, SameScales, Zenon
<1>12. Same(P, x * (a * r), x * 1)
  BY <1>2, <1>6, SameScales, Zenon
<1>13. Same(P, d * y, (x * r) * a)
  BY <1>6, <1>10, <1>11, SameChains, Zenon
<1>14. Same(P, d * y, x)
  <2>1. Same(P, (x * r) * a, x)
    BY <1>6, <1>12, Zenon
  <2>2. QED
    BY <1>6, <1>13, <2>1, SameChains, Zenon
<1>15. QED
  BY <1>3, <1>6, <1>14, ZeroRules, Zenon

\* What the program keeps of the forces is in equilibrium modulo P when the
\* forces are.
LEMMA KeptIsHeld ==
    ASSUME NEW load, NEW f2 \in Int, NEW f3 \in Int, NEW f5 \in Int, NEW f6 \in Int,
           FixedEndForces(load)[2] = f2, FixedEndForces(load)[3] = f3,
           FixedEndForces(load)[5] = f5, FixedEndForces(load)[6] = f6,
           Length(load.elem) \in Int, NEW Y \in Int, NEW M \in Int,
           Zero(f2 + f5 + Y), Zero(f3 + f6 + f5 * Length(load.elem) + M)
    PROVE  Holds(KeptForces(load), load.elem, 0, Y, M)
<1> DEFINE F == KeptForces(load)
           l == Length(load.elem)
<1>1. /\ F[1] = 0 /\ F[4] = 0
      /\ F[2] = f2 % P /\ F[3] = f3 % P /\ F[5] = f5 % P /\ F[6] = f6 % P
  <2>1. /\ 1 \in 1 .. 6 /\ 2 \in 1 .. 6 /\ 3 \in 1 .. 6 /\ 4 \in 1 .. 6 /\ 5 \in 1 .. 6 /\ 6 \in 1 .. 6
        /\ 1 \in {1, 4} /\ 4 \in {1, 4}
        /\ 2 \notin {1, 4} /\ 3 \notin {1, 4} /\ 5 \notin {1, 4} /\ 6 \notin {1, 4}
    OBVIOUS
  <2>2. F = [k \in 1 .. 6 |-> IF k \in {1, 4} THEN 0 ELSE FixedEndForces(load)[k] % P]
    BY DEF KeptForces
  <2> HIDE DEF F
  <2>3. QED
    BY <2>1, <2>2, Zenon
<1>2. P \in Nat \ {0} /\ l \in Int /\ 0 \in Int
  BY PrimeType
<1> HIDE DEF F, l
<1>3. PICK r2 \in Int, r3 \in Int, r5 \in Int, r6 \in Int :
          /\ r2 = f2 % P /\ r3 = f3 % P /\ r5 = f5 % P /\ r6 = f6 % P
          /\ Same(P, r2, f2) /\ Same(P, r3, f3) /\ Same(P, r5, f5) /\ Same(P, r6, f6)
  BY <1>2, SameIsEquivalence, Zenon
<1>4. /\ r2 + r5 \in Int /\ f2 + f5 \in Int /\ r2 + r5 + Y \in Int /\ f2 + f5 + Y \in Int
      /\ r3 + r6 \in Int /\ f3 + f6 \in Int /\ r5 * l \in Int /\ f5 * l \in Int
      /\ r3 + r6 + r5 * l \in Int /\ f3 + f6 + f5 * l \in Int
      /\ r3 + r6 + r5 * l + M \in Int /\ f3 + f6 + f5 * l + M \in Int
  BY <1>2
<1>5. Same(P, Y, Y) /\ Same(P, M, M)
  BY <1>2, SameIsEquivalence, Zenon
<1>6. Zero(r2 + r5 + Y)
  <2>1. Same(P, r2 + r5, f2 + f5)
    BY <1>2, <1>3, SameAdds, Zenon
  <2>2. Same(P, (r2 + r5) + Y, (f2 + f5) + Y)
    BY <1>2, <1>3, <1>4, <1>5, <2>1, SameAdds, Zenon
  <2>3. QED
    BY <1>2, <1>3, <1>4, <2>2, SameChains, Zenon DEF Zero
<1>7. Zero(r3 + r6 + r5 * l + M)
  <2>1. Same(P, r3 + r6, f3 + f6)
    BY <1>2, <1>3, SameAdds, Zenon
  <2>2. Same(P, r5 * l, f5 * l)
    BY <1>2, <1>3, SameScales, Zenon
  <2>3. Same(P, (r3 + r6) + r5 * l, (f3 + f6) + f5 * l)
    BY <1>2, <1>3, <1>4, <2>1, <2>2, SameAdds, Zenon
  <2>4. Same(P, ((r3 + r6) + r5 * l) + M, ((f3 + f6) + f5 * l) + M)
    BY <1>2, <1>3, <1>4, <1>5, <2>3, SameAdds, Zenon
  <2>5. Zero(f3 + f6 + f5 * l + M)
    BY DEF l
  <2>6. Same(P, r3 + r6 + r5 * l + M, f3 + f6 + f5 * l + M) /\ Same(P, f3 + f6 + f5 * l + M, 0)
    BY <2>4, <2>5, Zenon DEF Zero
  <2>7. QED
    BY <1>2, <1>4, <2>6, SameChains, Zenon DEF Zero
<1>8. (F[2] + F[5] + Y) % P = 0 /\ (F[3] + F[6] + F[5] * l + M) % P = 0
  <2>1. (r2 + r5 + Y) % P = 0 /\ (r3 + r6 + r5 * l + M) % P = 0
    BY <1>2, <1>3, <1>4, <1>6, <1>7, ZeroRules, Zenon
  <2>2. QED
    BY <1>1, <1>3, <2>1, Zenon
<1>9. (F[1] + F[4] + 0) % P = 0
  <2>1. 0 + 0 + 0 = 0 /\ 0 % P = 0
    BY PrimeType, SmallRemainders
  <2>2. QED
    BY <1>1, <2>1, Zenon
<1>10. QED
  BY <1>8, <1>9, Zenon DEF Holds, F, l

\* The program's quotients: the place of a load and the rest of the element as
\* parts of its length.
LEMMA PartsOfLength ==
    ASSUME NEW l \in 1 .. P - 1, NEW a \in Int
    PROVE  /\ Div(a, l) \in Int /\ Div(l - a, l) \in Int
           /\ Zero(Div(a, l) * l - a)
           /\ Zero(Div(l - a, l) + Div(a, l) - 1)
<1>1. Unit(l) /\ l \in Int /\ l - a \in Int
  BY UnitsExist, PrimeType
<1>2. PICK c \in Int : c = Div(a, l) /\ Zero(c * l - a)
  BY <1>1, DivSolves, Zenon
<1>3. PICK s \in Int : s = Div(l - a, l) /\ Zero(s * l - (l - a))
  BY <1>1, DivSolves, Zenon
<1>4. (s + c - 1) * l = (s * l - (l - a)) + (c * l - a)
      /\ s * l - (l - a) \in Int /\ c * l - a \in Int /\ s + c - 1 \in Int
  BY <1>1
<1>5. Zero((s + c - 1) * l)
  BY <1>2, <1>3, <1>4, ZeroRules, Zenon
<1>6. Zero(s + c - 1)
  BY <1>1, <1>4, <1>5, ZeroRules, Zenon
<1>7. QED
  BY <1>2, <1>3, <1>6, Zenon

\* 2 and 6 have reciprocals, P being a prime above 5.
LEMMA SmallUnits == Unit(2) /\ Unit(6)
<1>1. P % 2 # 0 /\ P % 3 # 0
  BY InputAssumption
<1>2. P # 6
  BY <1>1
<1>3. 2 \in 1 .. P - 1 /\ 6 \in 1 .. P - 1
  BY <1>2, PrimeType
<1>4. QED
  BY <1>3, UnitsExist

\* A member load has a place on an element that has a length.
LEMMA MemberLoadType ==
    ASSUME LegalInput, NEW k \in DOMAIN loads, loads[k].type \in MemberLoads
    PROVE  /\ loads[k].value \in Int /\ loads[k].position \in Int
           /\ loads[k].elem \in Elements /\ Length(loads[k].elem) \in 1 .. P - 1
           /\ Length(loads[k].elem) \in Int
<1>1. loads[k].type # "FORCE_ON_NODE" /\ loads[k].type # "SUPPORT_MOVE"
  BY DEF MemberLoads
<1>2. /\ loads[k].value \in Int /\ loads[k].position \in Int
      /\ loads[k].elem \in Elements
  BY <1>1 DEF LegalInput, LegalLoads, Elements
<1>3. Length(loads[k].elem) \in 1 .. P - 1
  BY <1>2, ElementGeometry
<1>4. QED
  BY <1>2, <1>3, PrimeType

LEMMA LateralForceHeld ==
    ASSUME LegalInput, NEW k \in DOMAIN loads, loads[k].type = "LATERAL_FORCE"
    PROVE  Holds(KeptForces(loads[k]), loads[k].elem, 0, loads[k].value,
                 loads[k].value * loads[k].position)
<1>1. loads[k].type \in MemberLoads
  BY DEF MemberLoads
<1>2. PICK q \in Int, a \in Int, l \in 1 .. P - 1 :
          q = loads[k].value /\ a = loads[k].position /\ l = Length(loads[k].elem)
  BY <1>1, MemberLoadType, Zenon
<1>3. PICK c \in Int, s \in Int : /\ c = Div(a, l) /\ s = Div(l - a, l)
                                  /\ Zero(c * l - a) /\ Zero(s + c - 1)
  BY PartsOfLength, Zenon
<1>4. PICK g \in Int : g = (c * c) % P /\ Zero(g - c * c)
  <2>1. c * c \in Int /\ P \in Nat \ {0}
    BY PrimeType
  <2>2. QED
    BY <2>1, SameIsEquivalence, ZeroRules, Zenon
<1> DEFINE f2 == -q * s * s * (1 + 2 * c)
           f3 == -q * s * s * a
           f5 == -q * g * (1 + 2 * s)
           f6 == q * (l - a) * g
<1>5. l \in Int
  BY PrimeType
<1>6. FixedEndForces(loads[k]) = << 0, f2, f3, 0, f5, f6 >>
  BY <1>2, <1>3, <1>4 DEF FixedEndForces
<1>7. f2 \in Int /\ f3 \in Int /\ f5 \in Int /\ f6 \in Int
  BY <1>5
<1>8. Zero(f2 + f5 + q)
  <2>1. f2 + f5 + q = (q * (-((1 + 2 * c) * s) - 1 - c)) * (s + c - 1)
                        + (-q * (1 + 2 * s)) * (g - c * c) + 0 * (g - c * c)
    OBVIOUS
  <2>2. /\ q * (-((1 + 2 * c) * s) - 1 - c) \in Int /\ -q * (1 + 2 * s) \in Int
        /\ s + c - 1 \in Int /\ g - c * c \in Int /\ 0 \in Int
    OBVIOUS
  <2> HIDE DEF f2, f5
  <2>3. \A i, j, m \in Int : Zero(i * (s + c - 1) + j * (g - c * c) + m * (g - c * c))
    BY <1>3, <1>4, <2>2, ZeroCombines, Zenon
  <2>4. QED
    BY <2>1, <2>2, <2>3, Zenon
<1>9. Zero(f3 + f6 + f5 * l + q * a)
  <2>1. f3 + f6 + f5 * l + q * a
            = (-q * (1 - s * s - g)) * (c * l - a)
              + (q * l * (-c * (1 + s + c))) * (s + c - 1)
              + (q * l * (-c - 2 * s)) * (g - c * c)
    BY <1>5
  <2>2. /\ -q * (1 - s * s - g) \in Int /\ q * l * (-c * (1 + s + c)) \in Int
        /\ q * l * (-c - 2 * s) \in Int
        /\ s + c - 1 \in Int /\ g - c * c \in Int /\ c * l - a \in Int
    BY <1>5
  <2> HIDE DEF f3, f5, f6
  <2>3. \A i, j, m \in Int : Zero(i * (c * l - a) + j * (s + c - 1) + m * (g - c * c))
    BY <1>3, <1>4, <2>2, ZeroCombines, Zenon
  <2>4. QED
    BY <2>1, <2>2, <2>3, Zenon
<1> HIDE DEF f2, f3, f5, f6
<1>10. q * a \in Int
  OBVIOUS
<1>11. /\ FixedEndForces(loads[k])[2] = f2 /\ FixedEndForces(loads[k])[3] = f3
       /\ FixedEndForces(loads[k])[5] = f5 /\ FixedEndForces(loads[k])[6] = f6
  BY <1>6
<1>12. QED
  BY <1>2, <1>5, <1>7, <1>8, <1>9, <1>10, <1>11, KeptIsHeld, Zenon

LEMMA UniformPressureHeld ==
    ASSUME LegalInput, NEW k \in DOMAIN loads, loads[k].type = "LATERAL_UNIFORM_PRESSURE"
    PROVE  Holds(KeptForces(loads[k]), loads[k].elem, 0, loads[k].value * loads[k].position,
                 Div(loads[k].value * loads[k].position * loads[k].position, 2))
<1>1. loads[k].type \in MemberLoads
  BY DEF MemberLoads
<1>2. PICK q \in Int, a \in Int, l \in 1 .. P - 1 :
          q = loads[k].value /\ a = loads[k].position /\ l = Length(loads[k].elem)
  BY <1>1, MemberLoadType, Zenon
<1>3. PICK c \in Int : c = Div(a, l) /\ Zero(c * l - a)
  BY PartsOfLength, Zenon
<1>4. PICK g \in Int : g = (c * c) % P /\ Zero(g - c * c)
  <2>1. c * c \in Int /\ P \in Nat \ {0}
    BY PrimeType
  <2>2. QED
    BY <2>1, SameIsEquivalence, ZeroRules, Zenon
<1>5. l \in Int /\ q * a \in Int /\ q * a * a \in Int /\ 2 \in Int /\ 6 \in Int
  BY PrimeType
<1>6. PICK u \in Int : u = Div(q * a, 2) /\ Zero(u * 2 - q * a)
  BY <1>5, SmallUnits, DivSolves, Zenon
<1>7. u * a \in Int
  OBVIOUS
<1>8. PICK d \in Int : d = Div(u * a, 6) /\ Zero(d * 6 - u * a)
  BY <1>5, <1>7, SmallUnits, DivSolves, Zenon
<1>9. PICK v \in Int : v = Div(q * a * a, 2) /\ Zero(v * 2 - q * a * a)
  BY <1>5, SmallUnits, DivSolves, Zenon
<1>10. Zero(v - u * a)
  <2>1. /\ (v - u * a) * 2 = (v * 2 - q * a * a) + (-a) * (u * 2 - q * a)
        /\ v - u * a \in Int /\ v * 2 - q * a * a \in Int /\ -a \in Int /\ u * 2 - q * a \in Int
        /\ (-a) * (u * 2 - q * a) \in Int
    OBVIOUS
  <2>2. Zero((v - u * a) * 2)
    BY <1>6, <1>9, <2>1, ZeroRules, Zenon
  <2>3. QED
    BY <1>5, <2>1, <2>2, SmallUnits, ZeroRules, Zenon
<1> DEFINE f2 == -u * (2 - 2 * g + c * g)
           f3 == -d * (6 - 8 * c + 3 * g)
           f5 == -u * g * (2 - c)
           f6 == d * c * (4 - 3 * c)
<1>11. FixedEndForces(loads[k]) = << 0, f2, f3, 0, f5, f6 >>
  BY <1>2, <1>3, <1>4, <1>6, <1>8 DEF FixedEndForces
<1>12. f2 \in Int /\ f3 \in Int /\ f5 \in Int /\ f6 \in Int
  BY <1>5
<1>13. Zero(f2 + f5 + q * a)
  <2>1. f2 + f5 + q * a = (-1) * (u * 2 - q * a) /\ -1 \in Int /\ u * 2 - q * a \in Int
    OBVIOUS
  <2> HIDE DEF f2, f5
  <2>2. QED
    BY <1>6, <2>1, ZeroRules, Zenon
<1>14. Zero(f3 + f6 + f5 * l + v)
  <2>1. f3 + f6 + f5 * l + v
            = (((c - 2) * u * c) * (c * l - a)
              + (-3 * d - (2 - c) * u * l) * (g - c * c)
              + ((2 - c) * c - 1) * (d * 6 - u * a)) + (v - u * a)
    BY <1>5
  <2>2. /\ (c - 2) * u * c \in Int /\ -3 * d - (2 - c) * u * l \in Int /\ (2 - c) * c - 1 \in Int
        /\ c * l - a \in Int /\ g - c * c \in Int /\ d * 6 - u * a \in Int /\ v - u * a \in Int
    BY <1>5
  <2>3. ((c - 2) * u * c) * (c * l - a)
              + (-3 * d - (2 - c) * u * l) * (g - c * c)
              + ((2 - c) * c - 1) * (d * 6 - u * a) \in Int
    BY <2>2
  <2> HIDE DEF f3, f5, f6
  <2>4. Zero(((c - 2) * u * c) * (c * l - a)
              + (-3 * d - (2 - c) * u * l) * (g - c * c)
              + ((2 - c) * c - 1) * (d * 6 - u * a))
    <3>1. \A i, j, m \in Int : Zero(i * (c * l - a) + j * (g - c * c) + m * (d * 6 - u * a))
      BY <1>3, <1>4, <1>8, <2>2, ZeroCombines, Zenon
    <3>2. QED
      BY <2>2, <3>1, Zenon
  <2>5. QED
    BY <1>10, <2>1, <2>2, <2>3, <2>4, ZeroRules, Zenon
<1> HIDE DEF f2, f3, f5, f6
<1>15. /\ FixedEndForces(loads[k])[2] = f2 /\ FixedEndForces(loads[k])[3] = f3
       /\ FixedEndForces(loads[k])[5] = f5 /\ FixedEndForces(loads[k])[6] = f6
  BY <1>11
<1>16. QED
  BY <1>2, <1>5, <1>9, <1>12, <1>13, <1>14, <1>15, KeptIsHeld, Zenon

\* An element's end forces hold its only load, if that is a lateral one.
LEMMA HeldFollows ==
    ASSUME LegalInput, Clamped
    PROVE  LateralForcesHold
<1> SUFFICES ASSUME NEW type \in {"LATERAL_FORCE", "LATERAL_UNIFORM_PRESSURE"},
                    NEW k \in DOMAIN loads, OnlyLoad(k), loads[k].type = type
             PROVE  LET r == Resultant(loads[k])
                    IN  Holds(daEndInterForce[loads[k].elem], loads[k].elem, r.X, r.Y, r.M)
  BY DEF LateralForcesHold, ForcesHold
<1>1. daEndInterForce[loads[k].elem] = KeptForces(loads[k])
  BY DEF Clamped
<1>2. CASE type = "LATERAL_FORCE"
  <2>1. /\ Resultant(loads[k]).X = 0 /\ Resultant(loads[k]).Y = loads[k].value
        /\ Resultant(loads[k]).M = loads[k].value * loads[k].position
    BY <1>2 DEF Resultant
  <2>2. QED
    BY <1>1, <1>2, <2>1, LateralForceHeld, Zenon
<1>3. CASE type = "LATERAL_UNIFORM_PRESSURE"
  <2>1. /\ Resultant(loads[k]).X = 0 /\ Resultant(loads[k]).Y = loads[k].value * loads[k].position
        /\ Resultant(loads[k]).M = Div(loads[k].value * loads[k].position * loads[k].position, 2)
    BY <1>3 DEF Resultant
  <2>2. QED
    BY <1>1, <1>3, <2>1, UniformPressureHeld, Zenon
<1>4. QED
  BY <1>2, <1>3

-----------------------------------------------------------------------------
(* The theorems. *)

\* The inductive invariant: where TestMITC is, what it has read, how far the
\* computation has come and what has been printed fit together.
THEOREM FrameInvariant == FrameSpec => []FrameIInv
<1>1. FrameInit => FrameIInv
  BY FrameIInvInit
<1>2. FrameIInv /\ [FrameNext]_frameVars => FrameIInv'
  BY FrameIInvStep
<1>3. QED
  BY <1>1, <1>2, PTL DEF FrameSpec

\* In every legal input the degrees of freedom get their numbers once, the
\* unknown ones first, and a coupled one that of its master (DOFIndexCalcu).
THEOREM DOFsAreNumberedOnce == FrameSpec => []NumberedOnce
<1>1. FrameIInv => NumberedOnce
  <2>1. SUFFICES ASSUME FrameIInv PROVE NumberedOnce
    OBVIOUS
  <2>2. pc # "DOFIndexCalcu" => IInv
    BY <2>1 DEF FrameIInv
  <2>3. QED
    BY <2>2, NumberedOnceFollows DEF IInv
<1>2. QED
  BY <1>1, FrameInvariant, PTL

\* The table of displacements shows every support where the loads have moved
\* it, and every coupled node where its master is, even when LDLTSolve has
\* given up (TestMITC, NodeDisplOutput).
THEOREM SupportsArePrintedAsPrescribed == FrameSpec => []PrintedAsPrescribed
<1>1. FrameIInv => PrintedAsPrescribed
  BY PrintedFollows
<1>2. QED
  BY <1>1, FrameInvariant, PTL

\* The echo has a cell for every number of the input file, in its order, for every
\* file that holds what its counts say (TestMITC, the loops that read the arrays
\* and echo them); how a number is written in its cell is not modelled.
THEOREM InputIsEchoed == FrameSpec => []EchoIsInput
<1>1. FrameIInv => EchoIsInput
  BY EchoFollows
<1>2. QED
  BY <1>1, FrameInvariant, PTL

\* When the loads have been handled, the end forces of every element with one
\* load between its ends, a lateral force or a uniform pressure from its start,
\* hold the element under that load (FixedEndForceCalcu, LoadVectorAssembly).
THEOREM LateralForcesAreHeld == FrameSpec => []LateralForcesHold
<1>1. FrameIInv => LateralForcesHold
  <2>1. SUFFICES ASSUME FrameIInv PROVE LateralForcesHold
    OBVIOUS
  <2>2. CASE pc = "DOFIndexCalcu"
    BY <2>2 DEF LateralForcesHold, ForcesHold, OnlyLoad
  <2>3. CASE pc # "DOFIndexCalcu"
    <3>1. IInv
      BY <2>1, <2>3 DEF FrameIInv
    <3>2. QED
      BY <3>1, HeldFollows DEF IInv
  <2>4. QED
    BY <2>2, <2>3
<1>2. QED
  BY <1>1, FrameInvariant, PTL

\* The inductive invariant of the computation on its own, from any legal input
\* and not from a file: the numbers of the degrees of freedom, the addresses of
\* the skyline and the prescribed displacements are what they should be after
\* every function that TestMITC calls, and with them the numbering.
THEOREM ComputationInvariant == Spec => [](IInv /\ NumberedOnce)
<1>1. Init => IInv
  <2>1. SUFFICES ASSUME Init PROVE IInv
    OBVIOUS
  <2>2. LegalInput
    BY <2>1, InputAssumption DEF Init, LegalInput
  <2>3. pc = "DOFIndexCalcu"
    BY <2>1 DEF Init
  <2>4. pc \in {Steps[k] : k \in DOMAIN Steps}
    BY <2>3, StepNames
  <2>5. Numbered /\ LaidOut /\ Displaced /\ Stored /\ Clamped
    BY <2>3 DEF Numbered, LaidOut, Displaced, Stored, Clamped, OnlyLoad
  <2>6. QED
    BY <2>2, <2>4, <2>5 DEF IInv
<1>2. IInv /\ [Next]_vars => IInv'
  BY IInvStep
<1>3. IInv => NumberedOnce
  BY NumberedOnceFollows DEF IInv
<1>4. QED
  BY <1>1, <1>2, <1>3, PTL DEF Spec
=============================================================================
