------------------------- MODULE FrameSolutionProofs ------------------------
(***************************************************************************)
(* Machine-checked proofs about the solution of the frame program, for every*)
(* legal structure and loads, on top of the invariant of FrameProgramProofs:*)
(* the assembled triangle is the stiffness of the structure, displacements  *)
(* that LDLTSolve reports as a solution are one, the forces that are derived*)
(* from it balance at every node, and the reactions that are printed hold   *)
(* the structure as a whole.                                                *)
(*                                                                          *)
(* LDLTSolve reduces the stored elements one after the other, each from     *)
(* elements that it reduced before (ReductionLooksBack): when none of its   *)
(* divisors is 0 the matrix is the product of the factors (FactorProduct),  *)
(* and the two substitutions solve its equations (SubstitutionsSolve).      *)
(* What the loads, the movements of a support and the forces that hold the  *)
(* elements have added to a number of pLoadVect is a sum over the loads     *)
(* (VectAfterLoads), so these equations are those of the structure          *)
(* (SolutionBalances).                                                      *)
(*                                                                          *)
(* What an element answers to the displacements is its rows of the          *)
(* stiffness times these (Response, ElementsMakeStiffness), and what its    *)
(* loads hold it with is the opposite of what they do to its nodes          *)
(* (HeldEndsAddUp); the rows of the supports are not overwritten            *)
(* (SupportRowsStay).  So the end forces balance at every node (EndsAddUp). *)
(*                                                                          *)
(* A structure that moves or turns as a whole strains no element            *)
(* (RigidMotionIsFree), and the stiffness is symmetric: so what the elements*)
(* answer to any displacements adds up to zero in both directions and about *)
(* the origin (RowsAreBalanced).  The table of reactions and the loads are  *)
(* these same sums (TableIsWork, ReactionWork, PushedIsWork), and what a     *)
(* load does to the nodes of its element is what it does to the structure if*)
(* the fixed end forces hold it (HeldLoadPushes).  So the reactions that are*)
(* printed hold the loads (ReactionsHoldLoads).                             *)
(***************************************************************************)
EXTENDS FrameProgramProofs

-----------------------------------------------------------------------------
(* The solution of the equations. *)

\* A scaled vector's inner product.
LEMMA TimesScales ==
    ASSUME NEW D, IsFiniteSet(D), NEW a \in Vectors(D), NEW v \in Vectors(D), NEW c \in Int
    PROVE  Times(a, [k \in D |-> v[k] * c], D) = Times(a, v, D) * c
<1> DEFINE f == [k \in D |-> a[k] * v[k]]
           h == [k \in D |-> a[k] * [k1 \in D |-> v[k1] * c][k]]
<1>1. \A k \in D : a[k] \in Int /\ v[k] \in Int
  BY DEF Vectors
<1>2. \A k \in D : f[k] \in Int /\ h[k] = c * f[k]
  <2>1. \A p, q \in Int : p * (q * c) = c * (p * q) /\ p * q \in Int
    OBVIOUS
  <2>2. \A k \in D : f[k] = a[k] * v[k] /\ h[k] = a[k] * (v[k] * c)
    OBVIOUS
  <2> HIDE DEF f, h
  <2>3. QED
    BY <1>1, <2>1, <2>2
<1> HIDE DEF f, h
<1>3. SumOver(h, D) = c * SumOver(f, D)
  BY <1>2, SumScales
<1>4. SumOver(f, D) \in Int
  BY <1>2, SumOverType
<1>5. c * SumOver(f, D) = SumOver(f, D) * c
  BY <1>4
<1>6. QED
  BY <1>3, <1>5 DEF Times, f, h

\* What solves the two triangular systems of a factorisation solves the system.
LEMMA TriangularSystems ==
    ASSUME NEW D, IsFiniteSet(D), NEW K \in Matrices(D), NEW G \in Matrices(D),
           NEW r \in Vectors(D), NEW x \in Vectors(D), NEW y \in Vectors(D), NEW b \in Vectors(D),
           \A i, j \in D : Same(P, K[i][j], Times(G[i], [k \in D |-> r[k] * G[j][k]], D)),
           \A i \in D : Same(P, Times(G[i], y, D), b[i]),
           \A k \in D : Same(P, r[k] * SumOver([j \in D |-> G[j][k] * x[j]], D), y[k])
    PROVE  \A i \in D : Same(P, Times(K[i], x, D), b[i])
<1> TAKE i \in D
<1> DEFINE H(j) == [k \in D |-> r[k] * G[j][k]]
           C == [j \in D |-> Times(G[i], H(j), D)]
           B == [j \in D |-> [k \in D |-> H(j)[k] * x[j]]]
<1>1. /\ \A k \in D : r[k] \in Int /\ x[k] \in Int /\ y[k] \in Int /\ b[k] \in Int
      /\ \A j, k \in D : G[j][k] \in Int /\ K[j][k] \in Int
      /\ \A j \in D : G[j] \in Vectors(D) /\ K[j] \in Vectors(D)
  BY DEF Vectors, Matrices
<1>2. \A j \in D : H(j) \in Vectors(D) /\ \A k \in D : H(j)[k] = r[k] * G[j][k]
  BY <1>1 DEF Vectors
<1>3. \A j \in D : C[j] \in Int /\ C[j] = Times(G[i], H(j), D)
  <2>1. \A j \in D : Times(G[i], H(j), D) \in Int
    BY <1>1, <1>2, TimesType
  <2>2. QED
    BY <2>1
<1>4. C \in Vectors(D)
  BY <1>3 DEF Vectors
<1>5. \A j \in D : Same(P, K[i][j], C[j])
  BY <1>3
<1> HIDE DEF C
<1>6. Same(P, Times(K[i], x, D), Times(C, x, D))
  BY <1>1, <1>4, <1>5, TimesSame, Zenon
<1>7. \A j \in D : B[j] = [k \in D |-> H(j)[k] * x[j]]
  OBVIOUS
<1>8. B \in [D -> Vectors(D)]
  <2> HIDE DEF H
  <2>1. \A j \in D : [k \in D |-> H(j)[k] * x[j]] \in Vectors(D)
    BY <1>1, <1>2 DEF Vectors
  <2>2. QED
    BY <2>1
<1>9. \A j, k \in D : B[j][k] = r[k] * (G[j][k] * x[j]) /\ B[j][k] \in Int
  <2>1. \A u, v, w \in Int : (u * v) * w = u * (v * w) /\ u * (v * w) \in Int
    OBVIOUS
  <2>2. \A j, k \in D : B[j][k] = H(j)[k] * x[j]
    BY <1>7
  <2> HIDE DEF B, H
  <2>3. QED
    BY <1>1, <1>2, <2>1, <2>2
<1>10. ASSUME NEW j \in D PROVE C[j] * x[j] = Times(G[i], B[j], D)
  <2>1. B[j] = [k \in D |-> H(j)[k] * x[j]] /\ C[j] = Times(G[i], H(j), D)
    BY <1>3, <1>7
  <2>2. G[i] \in Vectors(D) /\ H(j) \in Vectors(D) /\ x[j] \in Int
    BY <1>1, <1>2
  <2> HIDE DEF H, B
  <2>3. Times(G[i], [k \in D |-> H(j)[k] * x[j]], D) = Times(G[i], H(j), D) * x[j]
    BY <2>2, TimesScales
  <2>4. QED
    BY <2>1, <2>3
<1> HIDE DEF B, H
<1>11. Times(C, x, D) = SumOver([j \in D |-> Times(G[i], B[j], D)], D)
  <2>1. [j \in D |-> C[j] * x[j]] = [j \in D |-> Times(G[i], B[j], D)]
    BY <1>10
  <2>2. QED
    BY <2>1, Zenon DEF Times
<1>12. /\ Added(B, D, D) \in Vectors(D)
       /\ SumOver([j \in D |-> Times(G[i], B[j], D)], D) = Times(G[i], Added(B, D, D), D)
  BY <1>1, <1>8, TimesAdds
<1>13. ASSUME NEW k \in D PROVE Same(P, Added(B, D, D)[k], y[k])
  <2> DEFINE f == [j \in D |-> G[j][k] * x[j]]
             h == [j \in D |-> B[j][k]]
  <2>1. \A j \in D : f[j] \in Int /\ h[j] = r[k] * f[j]
    BY <1>1, <1>9
  <2> HIDE DEF f, h
  <2>2. SumOver(h, D) = r[k] * SumOver(f, D)
    BY <1>1, <2>1, SumScales
  <2>3. Added(B, D, D)[k] = SumOver(h, D)
    BY DEF Added, h
  <2>4. QED
    BY <2>2, <2>3 DEF f
<1>14. Same(P, Times(G[i], Added(B, D, D), D), Times(G[i], y, D))
  BY <1>1, <1>12, <1>13, TimesSame
<1>15. /\ Times(K[i], x, D) \in Int /\ Times(C, x, D) \in Int
       /\ Times(G[i], y, D) \in Int /\ b[i] \in Int
  BY <1>1, <1>4, TimesType
<1>16. Same(P, Times(C, x, D), Times(G[i], y, D))
  BY <1>11, <1>12, <1>14
<1>17. Same(P, Times(K[i], x, D), Times(G[i], y, D))
  BY <1>6, <1>15, <1>16, SameChains
<1>18. QED
  BY <1>15, <1>17, SameChains

-----------------------------------------------------------------------------
(* The order in which the stored elements are reduced. *)

\* An element lies before those of the rows below it, and before those on its right.
LEMMA AddressesInOrder ==
    ASSUME Profiled
    PROVE  \A i, k \in 0 .. nTotalDOF - 1 : \A j \in FirstColumn(i) .. i : \A l \in FirstColumn(k) .. k :
               /\ i < k => Address(i, j) < Address(k, l)
               /\ i = k /\ j < l => Address(i, j) < Address(k, l)
               /\ Address(i, i) = pDiag[i] /\ i \in FirstColumn(i) .. i
               /\ Address(i, j) \in Nat
<1> TAKE i, k \in 0 .. nTotalDOF - 1
<1> TAKE j \in FirstColumn(i) .. i
<1> TAKE l \in FirstColumn(k) .. k
<1>0. nTotalDOF \in Nat
  BY DEF Profiled
<1>1. /\ pDiag[i] \in Nat /\ FirstColumn(i) \in 0 .. i
      /\ pDiag[k] \in Nat /\ FirstColumn(k) \in 0 .. k
      /\ k # 0 => /\ k - 1 \in 0 .. nTotalDOF - 1 /\ pDiag[k - 1] \in Nat
                  /\ pDiag[k] = HalfBandOf(k) + pDiag[k - 1] /\ HalfBandOf(k) \in 1 .. k + 1
  BY RowAddresses
<1>2. Address(i, j) = pDiag[i] - i + j /\ Address(k, l) = pDiag[k] - k + l /\ Address(i, i) = pDiag[i] - i + i
      /\ FirstColumn(k) = k - HalfBandOf(k) + 1
  BY DEF Address, FirstColumn
<1>3. i < k => Address(i, j) < Address(k, l)
  <2>1. ASSUME i < k PROVE pDiag[i] <= pDiag[k - 1]
    BY <1>0, <1>1, <2>1, DiagonalsInOrder
  <2>2. QED
    BY <1>0, <1>1, <1>2, <2>1
<1>4. i = k /\ j < l => Address(i, j) < Address(k, l)
  BY <1>0, <1>1, <1>2
<1>5. Address(i, i) = pDiag[i] /\ i \in FirstColumn(i) .. i
  BY <1>0, <1>1, <1>2
<1>6. Address(i, j) \in Nat
  BY OwnAddress
<1>7. QED
  BY <1>3, <1>4, <1>5, <1>6

\* The unknown degrees of freedom have numbers.
Solvable == Profiled /\ nFreeDOF \in Nat \ {0} /\ nFreeDOF <= nTotalDOF

\* Every address of the part that is reduced is that of an element.
LEMMA AddressHasRow ==
    ASSUME Solvable, NEW a \in 0 .. pDiag[nFreeDOF - 1]
    PROVE  \E i \in 0 .. nFreeDOF - 1 : \E j \in FirstColumn(i) .. i : a = Address(i, j)
<1>0. /\ nFreeDOF \in Nat \ {0} /\ nTotalDOF \in Nat /\ nFreeDOF <= nTotalDOF
      /\ nFreeDOF - 1 \in 0 .. nTotalDOF - 1 /\ Profiled
  BY DEF Solvable, Profiled
<1> DEFINE R == {i \in 0 .. nFreeDOF - 1 : a <= pDiag[i]}
<1>1. pDiag[nFreeDOF - 1] \in Nat /\ a \in Nat
  BY <1>0, RowAddresses
<1>2. R # {} /\ R \in SUBSET Nat
  <2>1. nFreeDOF - 1 \in R
    BY <1>0, <1>1
  <2>2. R \subseteq Nat
    BY <1>0
  <2>3. QED
    BY <2>1, <2>2
<1>3. PICK i \in R : \A k \in R : i <= k
  <2> HIDE DEF R
  <2>1. QED
    BY <1>2, MinIsMember, Zenon
<1>4. i \in 0 .. nFreeDOF - 1 /\ a <= pDiag[i] /\ i \in 0 .. nTotalDOF - 1 /\ i \in Nat
  BY <1>0
<1>5. /\ pDiag[i] \in Nat /\ FirstColumn(i) \in 0 .. i /\ FirstColumn(i) = i - HalfBandOf(i) + 1
      /\ i = 0 => pDiag[i] = 0
      /\ i # 0 => pDiag[i] = HalfBandOf(i) + pDiag[i - 1] /\ pDiag[i - 1] \in Nat
      /\ HalfBandOf(i) \in 1 .. i + 1
  BY <1>0, <1>4, RowAddresses DEF FirstColumn
<1>6. i # 0 => pDiag[i - 1] < a
  <2>1. ASSUME i # 0 PROVE i - 1 \in 0 .. nFreeDOF - 1 /\ ~ (i <= i - 1)
    BY <1>0, <1>4, <2>1
  <2>2. ASSUME i # 0 PROVE ~ (a <= pDiag[i - 1])
    BY <1>3, <2>1, <2>2
  <2>3. QED
    BY <1>1, <1>5, <2>2
<1> DEFINE j == a - (pDiag[i] - i)
<1>7. j \in FirstColumn(i) .. i
  <2>1. CASE i = 0
    BY <1>1, <1>4, <1>5, <2>1
  <2>2. CASE i # 0
    BY <1>1, <1>4, <1>5, <1>6, <2>2
  <2>3. QED
    BY <2>1, <2>2
<1>8. a = Address(i, j)
  BY <1>1, <1>4, <1>5 DEF Address
<1>9. QED
  BY <1>4, <1>7, <1>8

\* The factorisation finds the row and the column of an address.
LEMMA RowIsFound ==
    ASSUME Solvable, NEW i \in 0 .. nFreeDOF - 1, NEW j \in FirstColumn(i) .. i
    PROVE  /\ RowOf(Address(i, j)) = i /\ i - (pDiag[i] - Address(i, j)) = j
           /\ Address(i, j) \in 0 .. pDiag[nFreeDOF - 1]
<1>0. /\ nFreeDOF \in Nat \ {0} /\ nTotalDOF \in Nat /\ nFreeDOF <= nTotalDOF /\ Profiled
      /\ 0 .. nFreeDOF - 1 \in SUBSET (0 .. nTotalDOF - 1) /\ nFreeDOF - 1 \in 0 .. nTotalDOF - 1
  BY DEF Solvable, Profiled
<1>1. \A k \in 0 .. nFreeDOF - 1 : /\ FirstColumn(k) \in 0 .. k /\ pDiag[k] \in Nat /\ k \in Nat
                                   /\ FirstColumn(k) \in FirstColumn(k) .. k /\ k \in FirstColumn(k) .. k
  <2>1. \A k \in 0 .. nFreeDOF - 1 : FirstColumn(k) \in 0 .. k /\ pDiag[k] \in Nat /\ k \in Nat
    BY <1>0, RowAddresses
  <2>2. QED
    BY <2>1
<1> DEFINE a == Address(i, j)
           Has(k) == Address(k, FirstColumn(k)) <= a /\ a <= pDiag[k]
<1>2. /\ a = pDiag[i] - i + j /\ j \in Int /\ FirstColumn(i) <= j /\ j <= i
      /\ \A k : Address(k, FirstColumn(k)) = pDiag[k] - k + FirstColumn(k)
  BY <1>1 DEF Address
<1>3. Has(i)
  BY <1>1, <1>2
<1>4. ASSUME NEW k \in 0 .. nFreeDOF - 1, Has(k) PROVE k = i
  <2>1. /\ i < k => a < Address(k, FirstColumn(k))
        /\ k < i => Address(k, k) < a
        /\ Address(k, k) = pDiag[k]
    BY <1>0, <1>1, AddressesInOrder
  <2>2. a \in Int /\ Address(k, FirstColumn(k)) \in Int /\ pDiag[k] \in Int /\ k \in Int /\ i \in Int
    BY <1>1, <1>2
  <2>3. QED
    BY <1>4, <2>1, <2>2
<1>5. RowOf(a) = i
  <2>1. RowOf(a) = CHOOSE k \in 0 .. nFreeDOF - 1 : Has(k)
    BY DEF RowOf
  <2> HIDE DEF Has
  <2>2. QED
    BY <1>3, <1>4, <2>1
<1>6. a \in 0 .. pDiag[nFreeDOF - 1]
  <2>1. a \in Nat /\ a <= pDiag[i]
    BY <1>0, <1>1, <1>2, OwnAddress
  <2>2. pDiag[i] <= pDiag[nFreeDOF - 1] /\ pDiag[nFreeDOF - 1] \in Nat
    BY <1>0, <1>1, DiagonalsInOrder, RowAddresses
  <2>3. QED
    BY <1>1, <2>1, <2>2
<1>7. QED
  BY <1>1, <1>2, <1>5, <1>6

\* The columns that rows i and j share on the left of column j, and what the
\* element of row i and column j is reduced to.
Shared(i, j) == Max({FirstColumn(i), FirstColumn(j)}) .. j - 1
Quotients(g, i, j) ==
    [k \in Shared(i, j) |-> Div(g[Address(i, k)] * g[Address(j, k)], g[pDiag[k]])]
Reduction(g, i, j) == (pGK[Address(i, j)] - Total(Quotients(g, i, j))) % P

Stores == [0 .. pDiag[nTotalDOF - 1] -> Num]

\* What LDLTSolve works on, before and after it meets a pivot that is 0, and what
\* its assignments do to it.
Work(g, b, last)    == [gk |-> g, b |-> b, ok |-> TRUE, lastRow |-> last]
GivenUp(g, b, last) == [gk |-> g, b |-> b, ok |-> FALSE, lastRow |-> last]

PutGK(w, g)   == [w EXCEPT !.gk = g]
PutB(w, b)    == [w EXCEPT !.b = b]
PutBoth(w, b, last) == [w EXCEPT !.b = b, !.lastRow = last]
Fail(w)       == [w EXCEPT !.ok = FALSE]
FailAt(w, b)  == [w EXCEPT !.b = b, !.ok = FALSE]

\* The parts of such a record.
LEMMA WorkParts ==
    ASSUME NEW g, NEW b, NEW last
    PROVE  /\ Work(g, b, last).gk = g /\ Work(g, b, last).b = b
           /\ Work(g, b, last).ok /\ Work(g, b, last).lastRow = last
           /\ ~ GivenUp(g, b, last).ok
           /\ \A y : PutGK(Work(g, b, last), y) = Work(y, b, last)
           /\ Fail(Work(g, b, last)) = GivenUp(g, b, last)
           /\ \A y : PutB(Work(g, b, last), y) = Work(g, y, last)
           /\ \A y : FailAt(Work(g, b, last), y) = GivenUp(g, y, last)
           /\ \A y, r : PutBoth(Work(g, b, last), y, r) = Work(g, y, r)
<1>1. ASSUME NEW y, NEW u, NEW v, u = Work(g, b, last), v = PutGK(u, y)
      PROVE  v = Work(y, b, last)
  BY <1>1, Zenon DEF Work, PutGK
<1>2. ASSUME NEW u, NEW v, u = Work(g, b, last), v = Fail(u)
      PROVE  v = GivenUp(g, b, last)
  BY <1>2, Zenon DEF Work, GivenUp, Fail
<1>3. ASSUME NEW y, NEW u, NEW v, u = Work(g, b, last), v = PutB(u, y)
      PROVE  v = Work(g, y, last)
  BY <1>3, Zenon DEF Work, PutB
<1>4. ASSUME NEW y, NEW u, NEW v, u = Work(g, b, last), v = FailAt(u, y)
      PROVE  v = GivenUp(g, y, last)
  BY <1>4, Zenon DEF Work, GivenUp, FailAt
<1>5. ASSUME NEW y, NEW r, NEW u, NEW v, u = Work(g, b, last), v = PutBoth(u, y, r)
      PROVE  v = Work(g, y, r)
  BY <1>5, Zenon DEF Work, PutBoth
<1>6. /\ Work(g, b, last).gk = g /\ Work(g, b, last).b = b
      /\ Work(g, b, last).lastRow = last
  BY DEF Work
<1>7. Work(g, b, last).ok /\ ~ GivenUp(g, b, last).ok
  BY DEF Work, GivenUp
<1>8. QED
  BY <1>1, <1>2, <1>3, <1>4, <1>5, <1>6, <1>7

\* The elements up to address a have been reduced, and nothing else has changed.
Reduced(w, a) ==
    /\ w = Work(w.gk, pDisp, nFreeDOF - 1)
    /\ w.gk \in Stores /\ w.gk[0] = pGK[0]
    /\ \A x \in 0 .. pDiag[nTotalDOF - 1] : x > a => w.gk[x] = pGK[x]
    /\ \A i \in 0 .. nFreeDOF - 1 : \A j \in FirstColumn(i) .. i :
           Address(i, j) \in 1 .. a =>
               /\ w.gk[Address(i, j)] = Reduction(w.gk, i, j)
               /\ \A k \in Shared(i, j) : w.gk[pDiag[k]] # 0

\* The columns shared are those of elements of both rows, which lie before.
LEMMA SharedColumns ==
    ASSUME Solvable, NEW i \in 0 .. nFreeDOF - 1, NEW j \in FirstColumn(i) .. i
    PROVE  /\ IsFiniteSet(Shared(i, j)) /\ j \in 0 .. nFreeDOF - 1
           /\ \A k : k \in Shared(i, j) <=> k \in FirstColumn(i) .. j - 1 /\ k \in FirstColumn(j) .. j - 1
           /\ \A k \in Shared(i, j) :
                  /\ k \in 0 .. nFreeDOF - 1 /\ k < j
                  /\ k \in FirstColumn(i) .. i /\ k \in FirstColumn(j) .. j /\ k \in FirstColumn(k) .. k
                  /\ Address(i, k) < Address(i, j) /\ Address(j, k) < Address(i, j)
                  /\ pDiag[k] < Address(i, j)
                  /\ Address(i, k) \in 0 .. pDiag[nTotalDOF - 1]
                  /\ Address(j, k) \in 0 .. pDiag[nTotalDOF - 1]
                  /\ pDiag[k] \in 0 .. pDiag[nTotalDOF - 1]
<1>0. /\ nFreeDOF \in Nat \ {0} /\ nTotalDOF \in Nat /\ nFreeDOF <= nTotalDOF /\ Profiled
      /\ 0 .. nFreeDOF - 1 \in SUBSET (0 .. nTotalDOF - 1)
  BY DEF Solvable, Profiled
<1>1. FirstColumn(i) \in 0 .. i /\ i \in 0 .. nTotalDOF - 1
  BY <1>0, RowAddresses
<1>2. j \in 0 .. nFreeDOF - 1 /\ j \in 0 .. nTotalDOF - 1 /\ j <= i /\ FirstColumn(i) <= j
  BY <1>0, <1>1
<1>3. FirstColumn(j) \in 0 .. j
  BY <1>2, <1>0, RowAddresses
<1>4. FirstColumn(i) \in Int /\ FirstColumn(j) \in Int
  BY <1>1, <1>3
<1> DEFINE m == Max({FirstColumn(i), FirstColumn(j)})
<1>5. m \in {FirstColumn(i), FirstColumn(j)} /\ FirstColumn(i) <= m /\ FirstColumn(j) <= m
  <2> DEFINE S == {FirstColumn(i), FirstColumn(j)}
  <2>1. S \in SUBSET Int /\ S # {} /\ j \in Int /\ \A y \in S : y <= j
    BY <1>2, <1>3, <1>4
  <2>2. FirstColumn(i) \in S /\ FirstColumn(j) \in S
    OBVIOUS
  <2> HIDE DEF S
  <2>3. Max(S) \in S /\ \A y \in S : Max(S) >= y
    BY <2>1, MaxIsMember
  <2>4. QED
    BY <1>4, <2>1, <2>2, <2>3 DEF S
<1> HIDE DEF m
<1>6. Shared(i, j) = m .. j - 1
  BY DEF Shared, m
<1>7. m \in Int /\ j - 1 \in Int
  BY <1>2, <1>4, <1>5
<1>8. IsFiniteSet(Shared(i, j))
  BY <1>6, <1>7, FS_Interval
<1>9. \A k : k \in Shared(i, j) <=> k \in FirstColumn(i) .. j - 1 /\ k \in FirstColumn(j) .. j - 1
  BY <1>4, <1>5, <1>6, <1>7
<1>10. ASSUME NEW k \in Shared(i, j)
       PROVE  /\ k \in 0 .. nFreeDOF - 1 /\ k < j /\ k \in 0 .. nTotalDOF - 1
              /\ k \in FirstColumn(i) .. i /\ k \in FirstColumn(j) .. j
  <2>1. k \in FirstColumn(i) .. j - 1 /\ k \in FirstColumn(j) .. j - 1
    BY <1>9
  <2>2. QED
    BY <1>0, <1>1, <1>2, <1>3, <2>1
<1>11. ASSUME NEW k \in Shared(i, j)
       PROVE  /\ k \in FirstColumn(k) .. k
              /\ Address(i, k) < Address(i, j) /\ Address(j, k) < Address(i, j)
              /\ pDiag[k] < Address(i, j)
              /\ Address(i, k) \in 0 .. pDiag[nTotalDOF - 1]
              /\ Address(j, k) \in 0 .. pDiag[nTotalDOF - 1]
              /\ pDiag[k] \in 0 .. pDiag[nTotalDOF - 1]
  <2>1. k \in 0 .. nFreeDOF - 1 /\ k < j /\ k \in 0 .. nTotalDOF - 1
        /\ k \in FirstColumn(i) .. i /\ k \in FirstColumn(j) .. j
    BY <1>10
  <2>2. FirstColumn(k) \in 0 .. k /\ k \in Nat
    BY <1>0, <2>1, RowAddresses
  <2>3. k \in FirstColumn(k) .. k
    BY <2>2
  <2>4. Address(k, k) = pDiag[k]
    BY <1>0, <2>1, <2>3, AddressesInOrder
  <2>5. Address(i, k) < Address(i, j)
    BY <1>0, <1>1, <2>1, AddressesInOrder
  <2>6. Address(j, k) < Address(i, j)
    <3>1. CASE j = i
      BY <2>5, <3>1
    <3>2. CASE j # i
      <4>1. j < i
        BY <1>0, <1>1, <1>2, <3>2
      <4>2. QED
        BY <1>0, <1>1, <1>2, <2>1, <4>1, AddressesInOrder
    <3>3. QED
      BY <3>1, <3>2
  <2>7. Address(k, k) < Address(i, j)
    <3>1. k < i
      BY <1>0, <1>1, <1>2, <2>1
    <3>2. QED
      BY <1>0, <1>1, <2>1, <2>3, <3>1, AddressesInOrder
  <2>8. /\ Address(i, k) \in 0 .. pDiag[nTotalDOF - 1]
        /\ Address(j, k) \in 0 .. pDiag[nTotalDOF - 1]
        /\ Address(k, k) \in 0 .. pDiag[nTotalDOF - 1]
    BY <1>0, <1>1, <1>2, <2>1, <2>3, OwnAddress
  <2>9. QED
    BY <2>3, <2>4, <2>5, <2>6, <2>7, <2>8
<1>12. QED
  BY <1>2, <1>8, <1>9, <1>10, <1>11

\* A pivot that is not 0 divides.
LEMMA NumbersAreUnits ==
    \A x \in Num : x # 0 => Unit(x) /\ x \in Int
<1>1. \A x \in Num : x # 0 => x \in 1 .. P - 1
  BY PrimeType DEF Num
<1>2. QED
  BY <1>1, UnitsExist, PrimeType

\* What an element is reduced to depends on the elements before it only.
LEMMA ReductionLooksBack ==
    ASSUME Solvable, NEW i \in 0 .. nFreeDOF - 1, NEW j \in FirstColumn(i) .. i,
           NEW g \in Stores, NEW h \in Stores,
           \A x \in 0 .. pDiag[nTotalDOF - 1] : x < Address(i, j) => g[x] = h[x]
    PROVE  /\ Reduction(g, i, j) = Reduction(h, i, j)
           /\ \A k \in Shared(i, j) : g[pDiag[k]] = h[pDiag[k]]
<1>1. ASSUME NEW k \in Shared(i, j)
      PROVE  /\ g[Address(i, k)] = h[Address(i, k)] /\ g[Address(j, k)] = h[Address(j, k)]
             /\ g[pDiag[k]] = h[pDiag[k]]
  BY SharedColumns
<1>2. Quotients(g, i, j) = Quotients(h, i, j)
  BY <1>1, Zenon DEF Quotients
<1>3. QED
  BY <1>1, <1>2 DEF Reduction

\* It is a number if the pivots are not 0.
LEMMA ReductionType ==
    ASSUME Solvable, NEW i \in 0 .. nFreeDOF - 1, NEW j \in FirstColumn(i) .. i,
           NEW g \in Stores, pGK \in Stores, \A k \in Shared(i, j) : g[pDiag[k]] # 0
    PROVE  /\ Reduction(g, i, j) \in Num
           /\ \A k \in Shared(i, j) : Quotients(g, i, j)[k] \in Int
           /\ Same(P, pGK[Address(i, j)], SumOver(Quotients(g, i, j), Shared(i, j)) + Reduction(g, i, j))
<1>1. ASSUME NEW k \in Shared(i, j) PROVE Quotients(g, i, j)[k] \in Int
  <2>1. /\ Address(i, k) \in 0 .. pDiag[nTotalDOF - 1] /\ Address(j, k) \in 0 .. pDiag[nTotalDOF - 1]
        /\ pDiag[k] \in 0 .. pDiag[nTotalDOF - 1]
    BY SharedColumns
  <2>2. g[Address(i, k)] \in Num /\ g[Address(j, k)] \in Num /\ g[pDiag[k]] \in Num /\ g[pDiag[k]] # 0
    BY <2>1 DEF Stores
  <2>3. PICK u \in Int, v \in Int, d \in Int :
            u = g[Address(i, k)] /\ v = g[Address(j, k)] /\ d = g[pDiag[k]] /\ Unit(d)
    BY <2>2, NumbersAreUnits, PrimeType DEF Num
  <2>4. u * v \in Int
    OBVIOUS
  <2>5. Div(u * v, d) \in Int
    BY <2>3, <2>4, DivSolves
  <2>6. QED
    BY <2>3, <2>5 DEF Quotients
<1>2. DOMAIN Quotients(g, i, j) = Shared(i, j) /\ IsFiniteSet(Shared(i, j))
  BY SharedColumns DEF Quotients
<1>3. PICK t \in Int, s \in Int : /\ t = Total(Quotients(g, i, j)) /\ s = SumOver(Quotients(g, i, j), Shared(i, j))
                                  /\ Same(P, t, s)
  BY <1>1, <1>2, TotalType
<1>4. PICK a \in Int : a = pGK[Address(i, j)]
  <2>1. j \in 0 .. nFreeDOF - 1 /\ 0 .. nFreeDOF - 1 \in SUBSET (0 .. nTotalDOF - 1) /\ Profiled
    BY SharedColumns DEF Solvable, Profiled
  <2>2. Address(i, j) \in 0 .. pDiag[nTotalDOF - 1]
    BY <2>1, OwnAddress, AddressesInOrder
  <2>3. QED
    BY <2>2, PrimeType DEF Stores, Num
<1>5. PICK r \in Num : r = Reduction(g, i, j) /\ Same(P, r, a - t) /\ r \in Int
  <2>1. a - t \in Int /\ P \in Nat \ {0}
    BY PrimeType
  <2>2. (a - t) % P \in 0 .. P - 1 /\ (a - t) % P \in Int /\ Same(P, (a - t) % P, a - t)
    BY <2>1, RemainderType, SameIsEquivalence, Zenon
  <2>3. QED
    BY <1>3, <1>4, <2>2 DEF Reduction, Num
<1>6. Same(P, a, s + r)
  <2>0. \A u, v, w, x \in Int : /\ v + w \in Int /\ u - x \in Int
                               /\ x + (u - x) \in Int /\ x + (u - x) = u
    OBVIOUS
  <2>1. P \in Nat \ {0} /\ a - t \in Int /\ s + r \in Int /\ t + (a - t) \in Int /\ t + (a - t) = a
    BY <1>5, <2>0, PrimeType
  <2>2. Same(P, s, t) /\ Same(P, r, a - t)
    BY <1>3, <1>5, <2>1, SameIsEquivalence, Zenon
  <2>3. Same(P, s + r, t + (a - t))
    BY <1>5, <2>1, <2>2, SameAdds
  <2>4. QED
    BY <2>1, <2>3, SameIsEquivalence
<1>7. QED
  BY <1>1, <1>3, <1>4, <1>5, <1>6

\* Reducing the next element leaves the ones before it reduced.
LEMMA ReduceStep ==
    ASSUME Solvable, pGK \in Stores, NEW i \in 0 .. nFreeDOF - 1, NEW j \in FirstColumn(i) .. i,
           NEW w, Reduced(w, Address(i, j) - 1), Address(i, j) # 0, Reduce(w, i, j).ok
    PROVE  Reduced(Reduce(w, i, j), Address(i, j))
<1> DEFINE a == Address(i, j)
           ks == Shared(i, j)
           v == Reduction(w.gk, i, j)
           g == [w.gk EXCEPT ![a] = v]
           top == pDiag[nTotalDOF - 1]
<1>1. /\ w = Work(w.gk, pDisp, nFreeDOF - 1)
      /\ w.gk \in Stores /\ w.gk[0] = pGK[0]
      /\ \A x \in 0 .. top : x > a - 1 => w.gk[x] = pGK[x]
      /\ \A k \in 0 .. nFreeDOF - 1 : \A l \in FirstColumn(k) .. k :
             Address(k, l) \in 1 .. a - 1 =>
                 /\ w.gk[Address(k, l)] = Reduction(w.gk, k, l)
                 /\ \A m \in Shared(k, l) : w.gk[pDiag[m]] # 0
  BY DEF Reduced
<1>0. PICK h, n : w = Work(h, pDisp, n) /\ n = nFreeDOF - 1 /\ h = w.gk
  BY <1>1, Zenon
<1>2. a \in 0 .. top /\ a \in Nat /\ a > a - 1 /\ a # 0 /\ top \in Nat
  <2>1. i \in 0 .. nTotalDOF - 1 /\ nTotalDOF - 1 \in 0 .. nTotalDOF - 1 /\ Profiled
    BY DEF Solvable, Profiled
  <2>2. a \in 0 .. top /\ top \in Nat
    BY <2>1, OwnAddress, RowAddresses
  <2>3. QED
    BY <2>2
<1>3. w.gk[a] = pGK[a]
  BY <1>1, <1>2
<1>4. \A k \in ks : w.gk[pDiag[k]] # 0
  <2>1. ASSUME \E k \in ks : w.gk[pDiag[k]] = 0 PROVE FALSE
    <3>1. Reduce(w, i, j) = [w EXCEPT !.ok = FALSE]
      BY <2>1 DEF Reduce, Shared
    <3>2. Reduce(w, i, j) = Fail(w)
      BY <3>1 DEF Fail
    <3>3. QED
      BY <1>0, <3>2, WorkParts
  <2>2. QED
    BY <2>1
<1>5. Reduce(w, i, j) = [w EXCEPT !.gk[a] = (@ - Total(Quotients(w.gk, i, j))) % P]
  BY <1>4, Zenon DEF Reduce, Shared, Quotients
<1>6. (w.gk[a] - Total(Quotients(w.gk, i, j))) % P = v
  BY <1>3, Zenon DEF Reduction
<1>7. Reduce(w, i, j) = Work(g, pDisp, n)
  <2>1. [w EXCEPT !.gk[a] = (@ - Total(Quotients(w.gk, i, j))) % P] = [w EXCEPT !.gk = g]
    BY <1>6
  <2> HIDE DEF g
  <2>2. Reduce(w, i, j) = PutGK(w, g)
    BY <1>5, <2>1 DEF PutGK
  <2>3. QED
    BY <1>0, <2>2, WorkParts
<1>8. v \in Num
  BY <1>1, <1>4, ReductionType
<1> HIDE DEF v
<1>9. g \in Stores /\ g[a] = v /\ \A x \in 0 .. top : x # a => g[x] = w.gk[x]
  BY <1>1, <1>2, <1>8 DEF Stores
<1> HIDE DEF g
<1>10. g[0] = pGK[0]
  <2>1. 0 \in 0 .. top /\ 0 # a
    BY <1>2
  <2>2. QED
    BY <1>1, <1>9, <2>1
<1>11. ASSUME NEW x \in 0 .. top, x > a PROVE g[x] = pGK[x]
  <2>1. x # a /\ x > a - 1
    BY <1>2, <1>11
  <2>2. QED
    BY <1>1, <1>9, <2>1
<1>12. ASSUME NEW k \in 0 .. nFreeDOF - 1, NEW l \in FirstColumn(k) .. k, Address(k, l) \in 1 .. a
       PROVE  /\ g[Address(k, l)] = Reduction(g, k, l)
              /\ \A m \in Shared(k, l) : g[pDiag[m]] # 0
  <2>1. \A x \in 0 .. top : x < Address(k, l) => w.gk[x] = g[x]
    BY <1>2, <1>9, <1>12
  <2>2. /\ Reduction(w.gk, k, l) = Reduction(g, k, l)
        /\ \A m \in Shared(k, l) : w.gk[pDiag[m]] = g[pDiag[m]]
    BY <1>1, <1>9, <2>1, ReductionLooksBack
  <2>3. CASE Address(k, l) = a
    <3>1. i \in 0 .. nTotalDOF - 1 /\ k \in 0 .. nTotalDOF - 1 /\ Profiled
      BY DEF Solvable, Profiled
    <3>2. i = k /\ j = l
      BY <2>3, <3>1, OwnAddress
    <3>3. QED
      BY <1>4, <1>9, <2>2, <3>2 DEF v
  <2>4. CASE Address(k, l) # a
    <3> HIDE DEF a, top
    <3>1. Address(k, l) \in 1 .. a - 1 /\ Address(k, l) \in 0 .. top
      BY <1>2, <1>12, <2>4
    <3>2. w.gk[Address(k, l)] = g[Address(k, l)]
      BY <1>9, <2>4, <3>1
    <3>3. QED
      BY <1>1, <2>2, <3>1, <3>2
  <2>5. QED
    BY <2>3, <2>4
<1> DEFINE u == Reduce(w, i, j)
<1>13. u.gk = g /\ u = Work(u.gk, pDisp, nFreeDOF - 1)
  BY <1>0, <1>7, WorkParts
<1> HIDE DEF u
<1>14. Reduced(u, a)
  BY <1>9, <1>10, <1>11, <1>12, <1>13 DEF Reduced
<1>15. QED
  BY <1>14 DEF u

\* So the factorisation, if it does not meet a zero pivot, reduces every element.
LEMMA FactorIs ==
    ASSUME Solvable, pGK \in Stores, NEW f, Factored(f, pDiag[nFreeDOF - 1])
    PROVE  \A a \in 0 .. pDiag[nFreeDOF - 1] : f[a].ok => Reduced(f[a], a)
<1> DEFINE last == pDiag[nFreeDOF - 1]
           w0 == Work(pGK, pDisp, nFreeDOF - 1)
           B == {a \in 0 .. last : ~ (f[a].ok => Reduced(f[a], a))}
<1>1. \A a \in 0 .. last :
         f[a] = IF a = 0 THEN w0
                ELSE IF f[a - 1].ok THEN Reduce(f[a - 1], RowOf(a), RowOf(a) - (pDiag[RowOf(a)] - a))
                     ELSE f[a - 1]
  BY Zenon DEF Factored, Work
<1>2. last \in Nat
  BY RowAddresses DEF Solvable, Profiled
<1>3. ASSUME B # {} PROVE FALSE
  <2>1. PICK a \in B : \A j \in B : ~ (<<j, a>> \in OpToRel(<, Nat))
    <3>1. B \subseteq Nat
      BY <1>2
    <3> HIDE DEF B
    <3>2. QED
      BY <1>3, <3>1, SmallestNumber, Zenon
  <2>2. a \in 0 .. last /\ a \in Nat /\ f[a].ok /\ ~ Reduced(f[a], a)
    <3>1. a \in 0 .. last /\ ~ (f[a].ok => Reduced(f[a], a))
      BY <2>1, Zenon
    <3> HIDE DEF last
    <3>2. QED
      BY <1>2, <3>1
  <2>3. CASE a = 0
    <3>1. f[0] = w0
      BY <1>1, <2>2, <2>3
    <3>2. \A k \in 0 .. nFreeDOF - 1 : \A l \in FirstColumn(k) .. k : Address(k, l) \notin 1 .. 0
      OBVIOUS
    <3>3. Reduced(w0, 0)
      BY <3>2, WorkParts DEF Reduced
    <3>4. QED
      BY <2>2, <2>3, <3>1, <3>3
  <2>4. CASE a # 0
    <3>1. a - 1 \in 0 .. last /\ a - 1 \in Nat /\ a - 1 < a
      BY <1>2, <2>2, <2>4
    <3>2. a - 1 \notin B
      BY <2>1, <2>2, <3>1, Zenon DEF OpToRel
    <3>3. f[a - 1].ok => Reduced(f[a - 1], a - 1)
      BY <3>1, <3>2
    <3>4. f[a - 1].ok
      BY <1>1, <2>2, <2>4
    <3>5. f[a] = Reduce(f[a - 1], RowOf(a), RowOf(a) - (pDiag[RowOf(a)] - a))
      BY <1>1, <2>2, <2>4, <3>4
    <3>6a. PICK i \in 0 .. nFreeDOF - 1 : \E j \in FirstColumn(i) .. i : a = Address(i, j)
      BY <2>2, AddressHasRow
    <3>6. PICK j \in FirstColumn(i) .. i : a = Address(i, j)
      BY <3>6a
    <3>7. RowOf(a) = i /\ i - (pDiag[i] - a) = j
      BY <3>6, RowIsFound
    <3>8. f[a] = Reduce(f[a - 1], i, j)
      BY <3>5, <3>7
    <3>9. Reduced(f[a], a)
      BY <2>2, <2>4, <3>3, <3>4, <3>6, <3>8, ReduceStep
    <3>10. QED
      BY <2>2, <3>9
  <2>5. QED
    BY <2>3, <2>4
<1>4. QED
  BY <1>3

Displacements == [0 .. nTotalDOF - 1 -> Num]

\* What row i takes off the right hand side in the forward substitution.
ForwardSum(h, b, i) == Total([j \in FirstColumn(i) .. i - 1 |-> b[j] * h[Address(i, j)]])

\* The first i rows have been substituted.
Forwarded(h, w, i) ==
    /\ w = Work(h, w.b, nFreeDOF - 1)
    /\ w.b \in Displacements
    /\ \A k \in i .. nTotalDOF - 1 : w.b[k] = pDisp[k]
    /\ \A k \in 0 .. i - 1 :
           /\ h[pDiag[k]] # 0
           /\ w.b[k] = Div((pDisp[k] - ForwardSum(h, w.b, k)) % P, h[pDiag[k]])

\* Row i and what it takes off are numbers, of the rows above it.
LEMMA ForwardSumType ==
    ASSUME Solvable, NEW h \in Stores, NEW b \in Displacements, NEW i \in 0 .. nFreeDOF - 1
    PROVE  /\ ForwardSum(h, b, i) \in Int
           /\ \A j \in FirstColumn(i) .. i - 1 :
                  /\ j \in 0 .. nTotalDOF - 1 /\ j < i /\ j \in 0 .. nFreeDOF - 1
                  /\ b[j] \in Int /\ h[Address(i, j)] \in Int
           /\ IsFiniteSet(FirstColumn(i) .. i - 1)
           /\ Same(P, ForwardSum(h, b, i),
                   SumOver([j \in FirstColumn(i) .. i - 1 |-> b[j] * h[Address(i, j)]], FirstColumn(i) .. i - 1))
           /\ SumOver([j \in FirstColumn(i) .. i - 1 |-> b[j] * h[Address(i, j)]], FirstColumn(i) .. i - 1) \in Int
<1> DEFINE S == FirstColumn(i) .. i - 1
           f == [j \in S |-> b[j] * h[Address(i, j)]]
<1>1. /\ i \in 0 .. nTotalDOF - 1 /\ i \in Nat /\ FirstColumn(i) \in 0 .. i /\ Profiled
      /\ nTotalDOF \in Nat /\ nFreeDOF \in Nat /\ nFreeDOF <= nTotalDOF
  BY RowAddresses DEF Solvable, Profiled
<1>2. IsFiniteSet(S)
  <2>1. FirstColumn(i) \in Int /\ i - 1 \in Int
    BY <1>1
  <2>2. QED
    BY <2>1, FS_Interval
<1>3. ASSUME NEW j \in S
      PROVE  /\ j \in 0 .. nTotalDOF - 1 /\ j < i /\ j \in 0 .. nFreeDOF - 1
             /\ b[j] \in Int /\ h[Address(i, j)] \in Int
  <2>1. j \in 0 .. nTotalDOF - 1 /\ j < i /\ j \in FirstColumn(i) .. i /\ j \in 0 .. nFreeDOF - 1
    BY <1>1
  <2>2. Address(i, j) \in 0 .. pDiag[nTotalDOF - 1]
    BY <1>1, <2>1, OwnAddress
  <2>3. b[j] \in Num /\ h[Address(i, j)] \in Num
    BY <2>1, <2>2 DEF Displacements, Stores
  <2>4. QED
    BY <2>1, <2>3, PrimeType DEF Num
<1>4. DOMAIN f = S /\ \A j \in S : f[j] \in Int
  <2>1. \A u, v \in Int : u * v \in Int
    OBVIOUS
  <2>2. \A j \in S : f[j] = b[j] * h[Address(i, j)]
    OBVIOUS
  <2>3. \A j \in S : b[j] * h[Address(i, j)] \in Int
    BY <1>3, <2>1
  <2>4. DOMAIN f = S
    OBVIOUS
  <2> HIDE DEF f, S
  <2>5. QED
    BY <2>2, <2>3, <2>4, Zenon
<1>5. ForwardSum(h, b, i) = Total(f)
  BY DEF ForwardSum
<1> HIDE DEF f
<1>6. Total(f) \in Int /\ SumOver(f, S) \in Int /\ Same(P, Total(f), SumOver(f, S))
  BY <1>2, <1>4, TotalType, Zenon
<1>7. QED
  BY <1>2, <1>3, <1>5, <1>6 DEF f

\* It depends on the rows above only.
LEMMA ForwardSumLooksBack ==
    ASSUME NEW h, NEW b, NEW c, NEW i, \A j \in FirstColumn(i) .. i - 1 : b[j] = c[j]
    PROVE  ForwardSum(h, b, i) = ForwardSum(h, c, i)
BY Zenon DEF ForwardSum

\* One row more of the forward substitution.
LEMMA ForwardStep ==
    ASSUME Solvable, NEW h \in Stores, NEW i \in 0 .. nFreeDOF - 1,
           NEW w, Forwarded(h, w, i), Substitute(w, i).ok
    PROVE  Forwarded(h, Substitute(w, i), i + 1)
<1> DEFINE v == Div((pDisp[i] - ForwardSum(h, w.b, i)) % P, h[pDiag[i]])
           c == [w.b EXCEPT ![i] = v]
           u == Substitute(w, i)
<1>1. /\ w = Work(h, w.b, nFreeDOF - 1)
      /\ w.b \in Displacements
      /\ \A k \in i .. nTotalDOF - 1 : w.b[k] = pDisp[k]
      /\ \A k \in 0 .. i - 1 :
             /\ h[pDiag[k]] # 0
             /\ w.b[k] = Div((pDisp[k] - ForwardSum(h, w.b, k)) % P, h[pDiag[k]])
  BY DEF Forwarded
<1>2. w.gk = h
  BY <1>1, WorkParts
<1>0. /\ i \in 0 .. nTotalDOF - 1 /\ i \in Nat /\ i \in i .. nTotalDOF - 1
      /\ nTotalDOF \in Nat /\ nFreeDOF \in Nat /\ nFreeDOF <= nTotalDOF
  BY DEF Solvable, Profiled
<1>3. w.b[i] = pDisp[i]
  BY <1>0, <1>1
<1>4. Substitute(w, i) = IF h[pDiag[i]] = 0
                         THEN [w EXCEPT !.b[i] = (pDisp[i] - ForwardSum(h, w.b, i)) % P, !.ok = FALSE]
                         ELSE [w EXCEPT !.b[i] = v]
  BY <1>2, <1>3 DEF Substitute, ForwardSum
<1>5. h[pDiag[i]] # 0
  <2>1. ASSUME h[pDiag[i]] = 0 PROVE FALSE
    <3> DEFINE c0 == [w.b EXCEPT ![i] = (pDisp[i] - ForwardSum(h, w.b, i)) % P]
    <3>1. Substitute(w, i) = [w EXCEPT !.b = c0, !.ok = FALSE]
      BY <1>4, <2>1
    <3> HIDE DEF c0
    <3>2. Substitute(w, i) = FailAt(w, c0)
      BY <3>1 DEF FailAt
    <3>3. ~ Substitute(w, i).ok
      BY <1>1, <3>2, WorkParts
    <3>4. QED
      BY <3>3
  <2>2. QED
    BY <2>1
<1>6. u = Work(h, c, nFreeDOF - 1) /\ u.b = c
  <2>1. Substitute(w, i) = [w EXCEPT !.b = c]
    BY <1>4, <1>5
  <2> HIDE DEF c
  <2>2. Substitute(w, i) = PutB(w, c)
    BY <2>1 DEF PutB
  <2>3. QED
    BY <1>1, <2>2, WorkParts
<1> HIDE DEF u
<1>7. v \in Num
  <2>1. ForwardSum(h, w.b, i) \in Int
    BY <1>1, ForwardSumType, Zenon
  <2>2. pDisp[i] \in Num /\ h[pDiag[i]] \in Num
    <3>1. i \in FirstColumn(i) .. i /\ Address(i, i) = pDiag[i] /\ Address(i, i) \in 0 .. pDiag[nTotalDOF - 1]
      <4>1. FirstColumn(i) \in 0 .. i /\ Profiled
        BY <1>0, RowAddresses DEF Solvable
      <4>2. i \in FirstColumn(i) .. i
        BY <1>0, <4>1
      <4>3. QED
        BY <1>0, <4>1, <4>2, OwnAddress, AddressesInOrder
    <3>2. h[pDiag[i]] \in Num
      BY <3>1 DEF Stores
    <3>3. w.b[i] \in Num
      BY <1>0, <1>1 DEF Displacements
    <3>4. QED
      BY <1>3, <3>2, <3>3
  <2>3. PICK p \in Int, s \in Int, d \in Int :
            p = pDisp[i] /\ s = ForwardSum(h, w.b, i) /\ d = h[pDiag[i]] /\ Unit(d)
    BY <1>5, <2>1, <2>2, NumbersAreUnits, PrimeType DEF Num
  <2>4. (p - s) % P \in Int
    BY PrimeType, RemainderType
  <2>5. Div((p - s) % P, d) \in Num
    BY <2>3, <2>4, DivType DEF Num
  <2>6. QED
    BY <2>3, <2>5
<1> HIDE DEF v
<1>8. c \in Displacements /\ c[i] = v /\ \A k \in 0 .. nTotalDOF - 1 : k # i => c[k] = w.b[k]
  BY <1>0, <1>1, <1>7 DEF Displacements
<1> HIDE DEF c
<1>9. \A k \in i + 1 .. nTotalDOF - 1 : c[k] = pDisp[k]
  <2>1. \A k \in i + 1 .. nTotalDOF - 1 : k \in i .. nTotalDOF - 1 /\ k \in 0 .. nTotalDOF - 1 /\ k # i
    BY <1>0
  <2>2. QED
    BY <1>1, <1>8, <2>1
<1>10. ASSUME NEW k \in 0 .. (i + 1) - 1
       PROVE  /\ h[pDiag[k]] # 0
              /\ c[k] = Div((pDisp[k] - ForwardSum(h, c, k)) % P, h[pDiag[k]])
  <2>1. k \in 0 .. nFreeDOF - 1 /\ k \in 0 .. nTotalDOF - 1 /\ k <= i
    BY <1>0
  <2>2. ForwardSum(h, w.b, k) = ForwardSum(h, c, k)
    <3>1. \A j \in FirstColumn(k) .. k - 1 : j \in 0 .. nTotalDOF - 1 /\ j # i
      <4>1. \A j \in FirstColumn(k) .. k - 1 : j \in 0 .. nTotalDOF - 1 /\ j < k
        BY <1>1, <2>1, ForwardSumType, Zenon
      <4>2. QED
        BY <1>0, <2>1, <4>1
    <3>2. \A j \in FirstColumn(k) .. k - 1 : w.b[j] = c[j]
      BY <1>8, <3>1
    <3>3. QED
      BY <3>2, ForwardSumLooksBack
  <2>3. CASE k = i
    BY <1>5, <1>8, <2>2, <2>3 DEF v
  <2>4. CASE k # i
    <3>1. k \in 0 .. i - 1
      BY <1>0, <2>1, <2>4
    <3>2. QED
      BY <1>1, <1>8, <2>1, <2>2, <2>4, <3>1
  <2>5. QED
    BY <2>3, <2>4
<1>11. Forwarded(h, u, i + 1)
  BY <1>6, <1>8, <1>9, <1>10 DEF Forwarded
<1>12. QED
  BY <1>11 DEF u

\* The forward substitution, if it does not meet a zero pivot, comes to its end.
LEMMA ForwardIs ==
    ASSUME Solvable, NEW h \in Stores, pDisp \in Displacements, NEW w0, NEW f, Forward(w0, f, nFreeDOF),
           w0.ok => w0 = Work(h, pDisp, nFreeDOF - 1)
    PROVE  f[nFreeDOF].ok => w0.ok /\ Forwarded(h, f[nFreeDOF], nFreeDOF)
<1> DEFINE Good(i) == f[i].ok => w0.ok /\ Forwarded(h, f[i], i)
           B == {i \in 0 .. nFreeDOF : ~ Good(i)}
<1>1. \A i \in 0 .. nFreeDOF :
         f[i] = IF i = 0 THEN w0 ELSE IF f[i - 1].ok THEN Substitute(f[i - 1], i - 1) ELSE f[i - 1]
  BY Zenon DEF Forward
<1>2. nFreeDOF \in Nat /\ nFreeDOF \in 0 .. nFreeDOF /\ nTotalDOF \in Nat
  BY DEF Solvable, Profiled
<1>3. ASSUME B # {} PROVE FALSE
  <2>1. PICK i \in B : \A j \in B : ~ (<<j, i>> \in OpToRel(<, Nat))
    <3>1. B \subseteq Nat
      BY <1>2
    <3> HIDE DEF B
    <3>2. QED
      BY <1>3, <3>1, SmallestNumber, Zenon
  <2>2. i \in 0 .. nFreeDOF /\ i \in Nat /\ f[i].ok /\ ~ Good(i)
    <3>1. i \in 0 .. nFreeDOF /\ ~ Good(i)
      BY <2>1, Zenon
    <3>2. ~ Good(i) => f[i].ok
      OBVIOUS
    <3> HIDE DEF Good
    <3>3. QED
      BY <1>2, <3>1, <3>2
  <2>3. CASE i = 0
    <3>1. f[0] = w0 /\ w0 = Work(h, pDisp, nFreeDOF - 1) /\ w0.ok
      BY <1>1, <2>2, <2>3
    <3>2. w0.b = pDisp
      BY <3>1, WorkParts
    <3>3. \A k \in 0 .. 0 - 1 : FALSE
      OBVIOUS
    <3>4. Forwarded(h, w0, 0)
      BY <3>1, <3>2, <3>3 DEF Forwarded
    <3>5. QED
      BY <2>2, <2>3, <3>1, <3>4
  <2>4. CASE i # 0
    <3>1. i - 1 \in 0 .. nFreeDOF /\ i - 1 \in Nat /\ i - 1 < i /\ i - 1 \in 0 .. nFreeDOF - 1 /\ (i - 1) + 1 = i
      BY <1>2, <2>2, <2>4
    <3>2. Good(i - 1)
      BY <2>1, <2>2, <3>1, Zenon DEF OpToRel
    <3>3. f[i - 1].ok /\ f[i] = Substitute(f[i - 1], i - 1)
      BY <1>1, <2>2, <2>4
    <3>4. Forwarded(h, f[i], (i - 1) + 1)
      BY <2>2, <3>1, <3>2, <3>3, ForwardStep
    <3>5. QED
      BY <2>2, <3>1, <3>2, <3>3, <3>4
  <2>5. QED
    BY <2>3, <2>4
<1>4. QED
  BY <1>2, <1>3

\* The rows below row i that reach column i, and what they take off row i of the
\* right hand side in the back substitution.
Below(i) == {r \in i + 1 .. nFreeDOF - 1 : FirstColumn(r) <= i}
BackSum(h, b, i) == Total([r \in Below(i) |-> Div(h[Address(r, i)] * b[r], h[pDiag[i]])])

\* The rows from i on have been substituted back in y.
Backed(h, y, w, i) ==
    /\ w = Work(h, w.b, w.lastRow)
    /\ w.b \in Displacements
    /\ w.lastRow \in i .. nFreeDOF - 1
    /\ \A r \in w.lastRow + 1 .. nFreeDOF - 1 : FirstColumn(r) > i
    /\ \A k \in 0 .. nTotalDOF - 1 : k < i \/ k >= nFreeDOF => w.b[k] = y[k]
    /\ \A k \in i .. nFreeDOF - 1 : w.b[k] = (y[k] - BackSum(h, w.b, k)) % P

\* Every pivot divides.
Pivots(h) == \A k \in 0 .. nFreeDOF - 1 : h[pDiag[k]] # 0

\* What the back substitution takes off a row is an integer.
LEMMA BackSumType ==
    ASSUME Solvable, NEW h \in Stores, Pivots(h), NEW b \in Displacements, NEW i \in 0 .. nFreeDOF - 1
    PROVE  /\ BackSum(h, b, i) \in Int
           /\ IsFiniteSet(Below(i))
           /\ h[pDiag[i]] \in Int /\ Unit(h[pDiag[i]]) /\ h[pDiag[i]] \in 1 .. P - 1
           /\ \A r \in Below(i) :
                  /\ r \in 0 .. nTotalDOF - 1 /\ i < r /\ r \in 0 .. nFreeDOF - 1
                  /\ i \in FirstColumn(r) .. r
                  /\ b[r] \in Int /\ h[Address(r, i)] \in Int
                  /\ Div(h[Address(r, i)] * b[r], h[pDiag[i]]) \in Int
           /\ SumOver([r \in Below(i) |-> Div(h[Address(r, i)] * b[r], h[pDiag[i]])], Below(i)) \in Int
           /\ Same(P, BackSum(h, b, i),
                   SumOver([r \in Below(i) |-> Div(h[Address(r, i)] * b[r], h[pDiag[i]])], Below(i)))
<1> DEFINE S == Below(i)
           f == [r \in S |-> Div(h[Address(r, i)] * b[r], h[pDiag[i]])]
<1>1. /\ i \in 0 .. nTotalDOF - 1 /\ i \in Nat /\ Profiled
      /\ nTotalDOF \in Nat /\ nFreeDOF \in Nat /\ nFreeDOF <= nTotalDOF
  BY DEF Solvable, Profiled
<1>2. IsFiniteSet(S)
  <2>1. i + 1 \in Int /\ nFreeDOF - 1 \in Int
    BY <1>1
  <2>2. IsFiniteSet(i + 1 .. nFreeDOF - 1)
    BY <2>1, FS_Interval
  <2>3. S \in SUBSET (i + 1 .. nFreeDOF - 1)
    BY DEF Below
  <2>4. QED
    BY <2>2, <2>3, FS_Subset, Zenon
<1>3. PICK d \in Int : d = h[pDiag[i]] /\ Unit(d) /\ d \in 1 .. P - 1
  <2>1. i \in FirstColumn(i) .. i /\ Address(i, i) = pDiag[i] /\ Address(i, i) \in 0 .. pDiag[nTotalDOF - 1]
    <3>1. FirstColumn(i) \in 0 .. i
      BY <1>1, RowAddresses
    <3>2. i \in FirstColumn(i) .. i
      BY <1>1, <3>1
    <3>3. QED
      BY <1>1, <3>1, <3>2, OwnAddress, AddressesInOrder
  <2>2. h[pDiag[i]] \in Num /\ h[pDiag[i]] # 0
    BY <2>1 DEF Stores, Pivots
  <2>3. QED
    BY <2>2, NumbersAreUnits, PrimeType DEF Num
<1>4. ASSUME NEW r \in S
      PROVE  /\ r \in 0 .. nTotalDOF - 1 /\ i < r /\ r \in 0 .. nFreeDOF - 1
             /\ i \in FirstColumn(r) .. r
             /\ b[r] \in Int /\ h[Address(r, i)] \in Int
             /\ Div(h[Address(r, i)] * b[r], h[pDiag[i]]) \in Int
  <2>1. r \in 0 .. nTotalDOF - 1 /\ i < r /\ r \in 0 .. nFreeDOF - 1 /\ FirstColumn(r) <= i
    BY <1>1 DEF Below
  <2>2. FirstColumn(r) \in 0 .. r
    BY <1>1, <2>1, RowAddresses
  <2>3. i \in FirstColumn(r) .. r
    BY <1>1, <2>1, <2>2
  <2>4. Address(r, i) \in 0 .. pDiag[nTotalDOF - 1]
    BY <1>1, <2>1, <2>3, OwnAddress
  <2>5. b[r] \in Num /\ h[Address(r, i)] \in Num
    BY <2>1, <2>4 DEF Displacements, Stores
  <2>6. PICK u \in Int, v \in Int : u = h[Address(r, i)] /\ v = b[r]
    BY <2>5, PrimeType DEF Num
  <2>7. u * v \in Int
    OBVIOUS
  <2>8. Div(u * v, d) \in Int
    BY <1>3, <2>7, DivSolves
  <2>9. QED
    BY <1>3, <2>1, <2>3, <2>6, <2>8
<1>5. DOMAIN f = S /\ \A r \in S : f[r] \in Int
  <2>1. DOMAIN f = S /\ \A r \in S : f[r] = Div(h[Address(r, i)] * b[r], h[pDiag[i]])
    OBVIOUS
  <2> HIDE DEF f, S
  <2>2. QED
    BY <1>4, <2>1, Zenon
<1>6. BackSum(h, b, i) = Total(f)
  BY DEF BackSum
<1> HIDE DEF f
<1>7. Total(f) \in Int /\ SumOver(f, S) \in Int /\ Same(P, Total(f), SumOver(f, S))
  BY <1>2, <1>5, TotalType
<1>8. QED
  BY <1>2, <1>3, <1>4, <1>6, <1>7 DEF f

\* It depends on the rows below only.
LEMMA BackSumLooksBelow ==
    ASSUME NEW h, NEW b, NEW c, NEW i, \A r \in Below(i) : b[r] = c[r]
    PROVE  BackSum(h, b, i) = BackSum(h, c, i)
BY Zenon DEF BackSum

\* One row more of the back substitution.
LEMMA BackStep ==
    ASSUME Solvable, NEW h \in Stores, Pivots(h), NEW y \in Displacements,
           NEW i \in 0 .. nFreeDOF - 2, NEW w, Backed(h, y, w, i + 1)
    PROVE  Backed(h, y, BackSubstitute(w, i), i)
<1> DEFINE v == (y[i] - BackSum(h, w.b, i)) % P
           c == [w.b EXCEPT ![i] = v]
           rows == {r \in i + 1 .. w.lastRow : FirstColumn(r) <= i}
           last == Max({i} \cup rows)
           u == BackSubstitute(w, i)
<1>1. /\ w = Work(h, w.b, w.lastRow)
      /\ w.b \in Displacements
      /\ w.lastRow \in i + 1 .. nFreeDOF - 1
      /\ \A r \in w.lastRow + 1 .. nFreeDOF - 1 : FirstColumn(r) > i + 1
      /\ \A k \in 0 .. nTotalDOF - 1 : k < i + 1 \/ k >= nFreeDOF => w.b[k] = y[k]
      /\ \A k \in i + 1 .. nFreeDOF - 1 : w.b[k] = (y[k] - BackSum(h, w.b, k)) % P
  BY DEF Backed
<1>2. w.gk = h
  BY <1>1, WorkParts
<1>0. /\ i \in 0 .. nTotalDOF - 1 /\ i \in Nat /\ i \in 0 .. nFreeDOF - 1
      /\ nTotalDOF \in Nat /\ nFreeDOF \in Nat /\ nFreeDOF <= nTotalDOF
      /\ i < i + 1
  BY DEF Solvable, Profiled
<1>11. \A r \in 0 .. nFreeDOF - 1 : FirstColumn(r) \in Int
  BY <1>0, RowAddresses DEF Solvable, Profiled
<1>3. w.b[i] = y[i]
  BY <1>0, <1>1
<1>4. rows = Below(i)
  <2>1. \A r \in i + 1 .. nFreeDOF - 1 : FirstColumn(r) <= i => r \in i + 1 .. w.lastRow
    <3>1. \A r \in w.lastRow + 1 .. nFreeDOF - 1 : ~ (FirstColumn(r) <= i)
      <4>1. \A r \in w.lastRow + 1 .. nFreeDOF - 1 : r \in 0 .. nFreeDOF - 1
        BY <1>0, <1>1
      <4>2. QED
        BY <1>0, <1>1, <1>11, <4>1
    <3>2. QED
      BY <1>0, <1>1, <3>1
  <2>2. \A r \in i + 1 .. w.lastRow : r \in i + 1 .. nFreeDOF - 1
    BY <1>0, <1>1
  <2>3. QED
    BY <2>1, <2>2 DEF Below
<1>5. /\ last \in i .. nFreeDOF - 1 /\ \A r \in Below(i) : r <= last
  <2> DEFINE S == {i} \cup rows
  <2>1. S \in SUBSET Int /\ S # {} /\ \A r \in S : r <= nFreeDOF - 1 /\ r \in i .. nFreeDOF - 1
    BY <1>0, <1>4 DEF Below
  <2>2. nFreeDOF - 1 \in Int /\ Below(i) \subseteq S
    BY <1>0, <1>4
  <2> HIDE DEF S
  <2>3. Max(S) \in S /\ \A r \in S : Max(S) >= r
    BY <2>1, <2>2, MaxIsMember, Zenon
  <2>4. last = Max(S)
    BY DEF S
  <2>5. Max(S) \in i .. nFreeDOF - 1 /\ \A r \in Below(i) : r <= Max(S)
    BY <2>1, <2>2, <2>3, Zenon
  <2>6. QED
    BY <2>4, <2>5, Zenon
<1>6. u = Work(h, c, last)
  <2>1. u = [w EXCEPT !.b[i] = (@ - Total([r \in rows |-> Div(w.gk[Address(r, i)] * w.b[r], w.gk[pDiag[i]])])) % P,
                      !.lastRow = last]
    BY DEF BackSubstitute
  <2>2. Total([r \in rows |-> Div(w.gk[Address(r, i)] * w.b[r], w.gk[pDiag[i]])]) = BackSum(h, w.b, i)
    BY <1>2, <1>4, Zenon DEF BackSum
  <2> HIDE DEF rows, last, u
  <2>3. u = [w EXCEPT !.b[i] = v, !.lastRow = last]
    BY <1>3, <2>1, <2>2, Zenon
  <2>4. u = [w EXCEPT !.b = c, !.lastRow = last]
    BY <2>3
  <2> HIDE DEF c
  <2>5. u = PutBoth(w, c, last)
    BY <2>4 DEF PutBoth
  <2>6. QED
    BY <1>1, <2>5, WorkParts
<1>12. u.b = c /\ u.lastRow = last /\ u = Work(h, u.b, u.lastRow)
  BY <1>6, WorkParts
<1>7. v \in Num
  <2>1. BackSum(h, w.b, i) \in Int
    BY <1>0, <1>1, BackSumType, Zenon
  <2>2. y[i] \in Int
    BY <1>0, PrimeType DEF Displacements, Num
  <2>3. PICK p \in Int, s \in Int : p = y[i] /\ s = BackSum(h, w.b, i)
    BY <2>1, <2>2
  <2>4. (p - s) % P \in Num
    BY PrimeType, RemainderType DEF Num
  <2>5. QED
    BY <2>3, <2>4
<1> HIDE DEF v, u, last, rows
<1>8. c \in Displacements /\ c[i] = v /\ \A k \in 0 .. nTotalDOF - 1 : k # i => c[k] = w.b[k]
  BY <1>0, <1>1, <1>7 DEF Displacements
<1> HIDE DEF c
<1>9. ASSUME NEW r \in last + 1 .. nFreeDOF - 1 PROVE FirstColumn(r) > i
  <2>1. r \in i + 1 .. nFreeDOF - 1 /\ r \notin Below(i) /\ r \in 0 .. nFreeDOF - 1
    BY <1>0, <1>5
  <2>2. QED
    BY <1>0, <1>11, <2>1 DEF Below
<1>10. ASSUME NEW k \in 0 .. nTotalDOF - 1, k < i \/ k >= nFreeDOF PROVE c[k] = y[k]
  <2>1. k # i /\ (k < i + 1 \/ k >= nFreeDOF)
    BY <1>0, <1>10
  <2>2. QED
    BY <1>1, <1>8, <2>1
<1>13. ASSUME NEW k \in i .. nFreeDOF - 1 PROVE c[k] = (y[k] - BackSum(h, c, k)) % P
  <2>1. k \in 0 .. nFreeDOF - 1 /\ k \in 0 .. nTotalDOF - 1 /\ i <= k /\ k \in Int
    BY <1>0
  <2>2. BackSum(h, w.b, k) = BackSum(h, c, k)
    <3>1. \A r \in Below(k) : r \in 0 .. nTotalDOF - 1 /\ r # i
      <4>1. \A r \in Below(k) : r \in 0 .. nTotalDOF - 1 /\ k < r
        BY <1>1, <2>1, BackSumType, Zenon
      <4>2. QED
        BY <1>0, <2>1, <4>1
    <3>2. \A r \in Below(k) : w.b[r] = c[r]
      BY <1>8, <3>1
    <3>3. QED
      BY <3>2, BackSumLooksBelow
  <2>3. CASE k = i
    BY <1>8, <2>2, <2>3 DEF v
  <2>4. CASE k # i
    <3>1. k \in i + 1 .. nFreeDOF - 1
      BY <1>0, <2>1, <2>4
    <3>2. QED
      BY <1>1, <1>8, <2>1, <2>2, <2>4, <3>1
  <2>5. QED
    BY <2>3, <2>4
<1>14. Backed(h, y, u, i)
  BY <1>5, <1>8, <1>9, <1>10, <1>12, <1>13 DEF Backed
<1>15. QED
  BY <1>14 DEF u

\* The back substitution comes to its end: no pivot is left that could be 0.
LEMMA BackwardIs ==
    ASSUME Solvable, NEW h \in Stores, NEW y \in Displacements, NEW w0, NEW f, BackwardAll(w0, f),
           w0.ok => w0 = Work(h, y, nFreeDOF - 1) /\ Pivots(h)
    PROVE  f[0].ok => w0.ok /\ Backed(h, y, f[0], 0)
<1> DEFINE n == nFreeDOF
           Good(i) == f[i].ok => w0.ok /\ Backed(h, y, f[i], i)
           B == {m \in 0 .. n - 1 : ~ Good(n - 1 - m)}
<1>1. \A i \in 0 .. n - 1 :
         f[i] = IF i = n - 1 THEN w0 ELSE IF f[i + 1].ok THEN BackSubstitute(f[i + 1], i) ELSE f[i + 1]
  BY Zenon DEF BackwardAll
<1>2. nFreeDOF \in Nat \ {0} /\ nTotalDOF \in Nat /\ nFreeDOF <= nTotalDOF
  BY DEF Solvable, Profiled
<1>3. ASSUME B # {} PROVE FALSE
  <2>1. PICK m \in B : \A j \in B : ~ (<<j, m>> \in OpToRel(<, Nat))
    <3>1. B \subseteq Nat
      BY <1>2
    <3> HIDE DEF B
    <3>2. QED
      BY <1>3, <3>1, SmallestNumber, Zenon
  <2> DEFINE i == n - 1 - m
  <2>2. m \in 0 .. n - 1 /\ m \in Nat /\ i \in 0 .. n - 1 /\ i \in Nat /\ f[i].ok /\ ~ Good(i)
    <3>1. m \in 0 .. n - 1 /\ ~ Good(i)
      BY <2>1, Zenon
    <3>2. ~ Good(i) => f[i].ok
      OBVIOUS
    <3>3. m \in Nat /\ i \in 0 .. n - 1 /\ i \in Nat
      BY <1>2, <3>1
    <3> HIDE DEF Good, i
    <3>4. QED
      BY <3>1, <3>2, <3>3
  <2>3. CASE m = 0
    <3>1. i = n - 1
      BY <1>2, <2>3
    <3>2. f[i] = w0 /\ w0 = Work(h, y, n - 1) /\ w0.ok /\ Pivots(h)
      BY <1>1, <2>2, <3>1
    <3>3. w0.b = y /\ w0.lastRow = n - 1
      BY <3>2, WorkParts
    <3>4. n - 1 \in i .. n - 1 /\ \A r \in (n - 1) + 1 .. n - 1 : FALSE
      BY <1>2, <3>1
    <3>5. ASSUME NEW k \in i .. n - 1 PROVE y[k] = (y[k] - BackSum(h, y, k)) % P
      <4>1. k = n - 1 /\ k \in 0 .. nTotalDOF - 1
        BY <1>2, <3>1
      <4>2. Below(k) = {}
        BY <1>2, <4>1 DEF Below
      <4> DEFINE g == [r \in Below(k) |-> Div(h[Address(r, k)] * y[r], h[pDiag[k]])]
      <4>3. DOMAIN g = {} /\ \A r \in {} : g[r] \in Int
        BY <4>2
      <4>4. BackSum(h, y, k) = Total(g)
        BY DEF BackSum
      <4> HIDE DEF g
      <4>5. Total(g) = 0
        <5>1. Total(g) = 0 % P
          BY <4>3, TotalType, SumOverNothing, FS_EmptySet
        <5>2. 0 % P = 0
          BY SmallRemainders, PrimeType
        <5>3. QED
          BY <5>1, <5>2
      <4>6. y[k] \in 0 .. P - 1
        BY <4>1 DEF Displacements, Num
      <4>7. y[k] - 0 = y[k]
        BY <4>6, PrimeType
      <4>8. y[k] % P = y[k]
        BY <4>6, SmallRemainders
      <4>9. QED
        BY <4>4, <4>5, <4>7, <4>8, Zenon
    <3>6. Backed(h, y, w0, i)
      BY <3>2, <3>3, <3>4, <3>5 DEF Backed
    <3>7. QED
      BY <2>2, <3>2, <3>6
  <2>4. CASE m # 0
    <3>1. /\ m - 1 \in 0 .. n - 1 /\ m - 1 \in Nat /\ m - 1 < m
          /\ n - 1 - (m - 1) = i + 1 /\ i # n - 1 /\ i \in 0 .. nFreeDOF - 2
      BY <1>2, <2>2, <2>4
    <3>2. Good(i + 1)
      <4>1. m - 1 \notin B
        BY <2>1, <2>2, <3>1, Zenon DEF OpToRel
      <4>2. Good(n - 1 - (m - 1))
        BY <3>1, <4>1
      <4> HIDE DEF Good, i
      <4>3. QED
        BY <3>1, <4>2
    <3>3. f[i + 1].ok /\ f[i] = BackSubstitute(f[i + 1], i)
      BY <1>1, <2>2, <3>1
    <3>4. w0.ok /\ Backed(h, y, f[i + 1], i + 1) /\ Pivots(h)
      BY <3>2, <3>3
    <3> HIDE DEF i
    <3>5. Backed(h, y, f[i], i)
      BY <3>1, <3>3, <3>4, BackStep
    <3>6. QED
      BY <2>2, <3>4, <3>5
  <2>5. QED
    BY <2>3, <2>4
<1>4. n - 1 \in 0 .. n - 1 /\ n - 1 - (n - 1) = 0
  BY <1>2
<1>5. Good(n - 1 - (n - 1))
  BY <1>3, <1>4
<1>6. QED
  BY <1>4, <1>5

\* The rows that are reduced.
FreeNumbers == 0 .. nFreeDOF - 1

\* The factor that LDLTSolve leaves in h, the reciprocals of its pivots, and the
\* part of the stiffness that is reduced.
Lower(h, i, k) == IF FirstColumn(i) <= k /\ k <= i THEN h[Address(i, k)] ELSE 0
LowerFactor(h) == [i \in FreeNumbers |-> [k \in FreeNumbers |-> Lower(h, i, k)]]
PivotReciprocals(h) == [k \in FreeNumbers |-> Reciprocal[h[pDiag[k]]]]
Unknown == [i \in FreeNumbers |-> [j \in FreeNumbers |-> GetElementInGK(i, j)]]

\* To divide is to multiply by the reciprocal.
LEMMA DivMultiplies ==
    \A d \in 1 .. P - 1 : /\ Reciprocal[d] \in Int /\ Same(P, d * Reciprocal[d], 1)
                          /\ \A x \in Int : Same(P, Div(x, d), x * Reciprocal[d])
<1> TAKE d \in 1 .. P - 1
<1>0. P \in Nat \ {0}
  BY PrimeType
<1>1. PICK r \in 1 .. P - 1 : r = Reciprocal[d] /\ Same(P, d * r, 1)
  BY ReciprocalIs, Zenon
<1>2. d % P = d
  BY SmallRemainders
<1>3. ASSUME NEW x \in Int PROVE Same(P, Div(x, d), x * r)
  <2>1. PICK m \in Int : m = x % P
    BY <1>0, RemainderType
  <2>2. Div(x, d) = (m * r) % P
    BY <1>1, <1>2, <2>1, Zenon DEF Div
  <2>3. m * r \in Int /\ x * r \in Int /\ r \in Int /\ (m * r) % P \in Int
    BY <1>0
  <2>4. Same(P, m, x)
    BY <1>0, <2>1, SameIsEquivalence, Zenon
  <2>5. Same(P, m * r, x * r)
    BY <2>3, <2>4, SameScales, Zenon
  <2>6. Same(P, (m * r) % P, m * r)
    BY <1>0, <2>3, SameIsEquivalence, Zenon
  <2>7. Same(P, (m * r) % P, x * r)
    BY <2>3, <2>5, <2>6, SameChains, Zenon
  <2>8. QED
    BY <2>2, <2>7, Zenon
<1>4. r \in Int
  BY <1>0
<1>5. QED
  BY <1>1, <1>3, <1>4, Zenon

\* The rows and columns of the unknown part.
LEMMA UnknownPart ==
    ASSUME Solvable
    PROVE  /\ FreeNumbers = 0 .. nFreeDOF - 1
           /\ FreeNumbers \in SUBSET (0 .. nTotalDOF - 1) /\ IsFiniteSet(FreeNumbers)
           /\ nFreeDOF \in Nat \ {0} /\ nTotalDOF \in Nat /\ nFreeDOF <= nTotalDOF /\ Profiled
           /\ \A i \in FreeNumbers :
                  /\ FirstColumn(i) \in 0 .. i /\ i \in Nat
                  /\ i \in FirstColumn(i) .. i /\ Address(i, i) = pDiag[i]
                  /\ FirstColumn(i) .. i \in SUBSET FreeNumbers
                  /\ \A j \in FirstColumn(i) .. i : Address(i, j) \in 0 .. pDiag[nTotalDOF - 1]
<1>1. 0 .. nFreeDOF - 1 \in SUBSET (0 .. nTotalDOF - 1)
      /\ nFreeDOF \in Nat \ {0} /\ nTotalDOF \in Nat /\ nFreeDOF <= nTotalDOF /\ Profiled
  BY DEF Solvable, Profiled
<1>2. IsFiniteSet(0 .. nFreeDOF - 1)
  <2>1. 0 \in Int /\ nFreeDOF - 1 \in Int
    BY <1>1
  <2>2. QED
    BY <2>1, FS_Interval
<1>3. ASSUME NEW i \in 0 .. nFreeDOF - 1
      PROVE  /\ FirstColumn(i) \in 0 .. i /\ i \in Nat
             /\ i \in FirstColumn(i) .. i /\ Address(i, i) = pDiag[i]
             /\ FirstColumn(i) .. i \in SUBSET (0 .. nFreeDOF - 1)
             /\ \A j \in FirstColumn(i) .. i : Address(i, j) \in 0 .. pDiag[nTotalDOF - 1]
  <2>1. i \in 0 .. nTotalDOF - 1 /\ i \in Nat
    BY <1>1
  <2>2. FirstColumn(i) \in 0 .. i
    BY <1>1, <2>1, RowAddresses
  <2>3. i \in FirstColumn(i) .. i /\ FirstColumn(i) .. i \in SUBSET (0 .. nFreeDOF - 1)
    BY <1>1, <2>1, <2>2
  <2>4. Address(i, i) = pDiag[i]
    BY <1>1, <2>1, <2>3, AddressesInOrder
  <2>5. \A j \in FirstColumn(i) .. i : Address(i, j) \in 0 .. pDiag[nTotalDOF - 1]
    BY <1>1, <2>1, OwnAddress
  <2>6. QED
    BY <2>1, <2>2, <2>3, <2>4, <2>5
<1>4. QED
  BY <1>1, <1>2, <1>3 DEF FreeNumbers

\* The matrix that is factorised is symmetric, and as it is stored.
LEMMA UnknownType ==
    ASSUME Solvable, pGK \in Stores
    PROVE  /\ Unknown \in Matrices(FreeNumbers)
           /\ \A i, j \in FreeNumbers : Unknown[i][j] = Unknown[j][i] /\ Unknown[i][j] \in Int
           /\ \A i, j \in FreeNumbers : j <= i /\ j < FirstColumn(i) => Unknown[i][j] = 0
           /\ \A i, j \in FreeNumbers : j <= i /\ ~ (j < FirstColumn(i)) => Unknown[i][j] = pGK[Address(i, j)]
<1>1. ASSUME NEW i \in FreeNumbers, NEW j \in FreeNumbers, j <= i
      PROVE  /\ GetElementInGK(i, j) = IF j < FirstColumn(i) THEN 0 ELSE pGK[Address(i, j)]
             /\ GetElementInGK(j, i) = GetElementInGK(i, j) /\ GetElementInGK(i, j) \in Int
  <2>1. i \in Nat /\ j \in Nat /\ FirstColumn(i) \in 0 .. i
    BY UnknownPart
  <2>2. {i, j} = {j, i}
    OBVIOUS
  <2>3. Max({i, j}) = i /\ Min({i, j}) = j
    BY <1>1, <2>1, LargerAndSmaller
  <2>4. GetElementInGK(j, i) = GetElementInGK(i, j)
    BY <2>2, Zenon DEF GetElementInGK
  <2>5. GetElementInGK(i, j) = IF j < FirstColumn(i) THEN 0 ELSE pGK[Address(i, j)]
    BY <2>3, Zenon DEF GetElementInGK
  <2>6. CASE j < FirstColumn(i)
    BY <2>4, <2>5, <2>6
  <2>7. CASE ~ (j < FirstColumn(i))
    <3>1. j \in FirstColumn(i) .. i
      BY <1>1, <2>1, <2>7
    <3>2. pGK[Address(i, j)] \in Num
      BY <3>1, UnknownPart DEF Stores
    <3>3. QED
      BY <2>4, <2>5, <2>7, <3>2, PrimeType DEF Num
  <2>8. QED
    BY <2>6, <2>7
<1>2. ASSUME NEW i \in FreeNumbers, NEW j \in FreeNumbers
      PROVE  /\ GetElementInGK(i, j) = GetElementInGK(j, i) /\ GetElementInGK(i, j) \in Int
  <2>1. i \in Nat /\ j \in Nat
    BY UnknownPart
  <2>2. j <= i \/ i <= j
    BY <2>1
  <2>3. QED
    BY <1>1, <2>2
<1>3. /\ \A i, j \in FreeNumbers : Unknown[i][j] = GetElementInGK(i, j)
      /\ Unknown \in Matrices(FreeNumbers)
  BY <1>2 DEF Unknown, Matrices
<1>4. QED
  BY <1>1, <1>2, <1>3

\* They are matrices and vectors of integers.
LEMMA FactorTypes ==
    ASSUME Solvable, NEW h \in Stores, Pivots(h)
    PROVE  /\ IsFiniteSet(FreeNumbers) /\ LowerFactor(h) \in Matrices(FreeNumbers)
           /\ PivotReciprocals(h) \in Vectors(FreeNumbers)
           /\ \A i, k \in FreeNumbers : Lower(h, i, k) \in Int /\ LowerFactor(h)[i][k] = Lower(h, i, k)
           /\ \A k \in FreeNumbers : /\ h[pDiag[k]] \in 1 .. P - 1 /\ h[pDiag[k]] \in Int
                           /\ PivotReciprocals(h)[k] = Reciprocal[h[pDiag[k]]]
                           /\ PivotReciprocals(h)[k] \in Int
                           /\ Same(P, h[pDiag[k]] * PivotReciprocals(h)[k], 1)
                           /\ Lower(h, k, k) = h[pDiag[k]]
<1>1. IsFiniteSet(FreeNumbers)
  BY UnknownPart
<1>2. ASSUME NEW i \in FreeNumbers, NEW k \in FreeNumbers PROVE Lower(h, i, k) \in Int
  <2>1. FirstColumn(i) \in 0 .. i /\ i \in Nat
    BY UnknownPart
  <2>2. CASE FirstColumn(i) <= k /\ k <= i
    <3>1. k \in FirstColumn(i) .. i
      BY <2>1, <2>2, UnknownPart
    <3>2. h[Address(i, k)] \in Num
      BY <3>1, UnknownPart DEF Stores
    <3>3. QED
      BY <2>2, <3>2, PrimeType DEF Lower, Num
  <2>3. CASE ~ (FirstColumn(i) <= k /\ k <= i)
    BY <2>3 DEF Lower
  <2>4. QED
    BY <2>2, <2>3
<1>3. /\ \A i, k \in FreeNumbers : LowerFactor(h)[i][k] = Lower(h, i, k)
      /\ LowerFactor(h) \in Matrices(FreeNumbers)
  BY <1>2 DEF LowerFactor, Matrices
<1>7. ASSUME NEW k \in FreeNumbers
      PROVE  /\ h[pDiag[k]] \in 1 .. P - 1 /\ h[pDiag[k]] \in Int
             /\ PivotReciprocals(h)[k] = Reciprocal[h[pDiag[k]]]
             /\ PivotReciprocals(h)[k] \in Int
             /\ Same(P, h[pDiag[k]] * PivotReciprocals(h)[k], 1)
             /\ Lower(h, k, k) = h[pDiag[k]]
  <2>1. h[pDiag[k]] \in Num /\ h[pDiag[k]] # 0
    BY UnknownPart DEF Stores, Pivots
  <2>2. h[pDiag[k]] \in 1 .. P - 1 /\ h[pDiag[k]] \in Int
    BY <2>1, PrimeType DEF Num
  <2>3. PivotReciprocals(h)[k] = Reciprocal[h[pDiag[k]]]
    BY DEF PivotReciprocals
  <2>4. Lower(h, k, k) = h[pDiag[k]]
    BY UnknownPart DEF Lower
  <2>5. Reciprocal[h[pDiag[k]]] \in Int /\ Same(P, h[pDiag[k]] * Reciprocal[h[pDiag[k]]], 1)
    BY <2>2, DivMultiplies
  <2>6. QED
    BY <2>2, <2>3, <2>4, <2>5, Zenon
<1>8. PivotReciprocals(h) \in Vectors(FreeNumbers)
  BY <1>7 DEF PivotReciprocals, Vectors
<1>9. QED
  BY <1>1, <1>2, <1>3, <1>7, <1>8

\* Every stored element of the part is what it is reduced to.
FullyReduced(h) ==
    /\ h[0] = pGK[0]
    /\ \A i \in FreeNumbers : \A j \in FirstColumn(i) .. i :
           Address(i, j) # 0 => h[Address(i, j)] = Reduction(h, i, j)

\* An element of the stiffness is what its columns to the left give, and itself.
LEMMA ReducedAddsUp ==
    ASSUME Solvable, pGK \in Stores, NEW h \in Stores, Pivots(h), FullyReduced(h),
           NEW i \in FreeNumbers, NEW j \in FirstColumn(i) .. i
    PROVE  /\ \A k \in Shared(i, j) : Quotients(h, i, j)[k] \in Int
           /\ h[Address(i, j)] \in Int /\ pGK[Address(i, j)] \in Int
           /\ Same(P, pGK[Address(i, j)], SumOver(Quotients(h, i, j), Shared(i, j)) + h[Address(i, j)])
<1>1. \A k \in Shared(i, j) : h[pDiag[k]] # 0
  BY SharedColumns DEF FreeNumbers, Pivots
<1>2. /\ Reduction(h, i, j) \in Num
      /\ \A k \in Shared(i, j) : Quotients(h, i, j)[k] \in Int
      /\ Same(P, pGK[Address(i, j)], SumOver(Quotients(h, i, j), Shared(i, j)) + Reduction(h, i, j))
  BY <1>1, ReductionType DEF FreeNumbers
<1>3. h[Address(i, j)] \in Int /\ pGK[Address(i, j)] \in Int
  BY UnknownPart, PrimeType DEF Stores, Num
<1>4. CASE Address(i, j) # 0
  BY <1>2, <1>3, <1>4 DEF FullyReduced
<1>5. CASE Address(i, j) = 0
  <2>1. 0 \in FreeNumbers /\ i \in 0 .. nTotalDOF - 1 /\ 0 \in 0 .. nTotalDOF - 1 /\ Profiled
    BY UnknownPart
  <2>2. pDiag[0] = 0 /\ FirstColumn(0) \in 0 .. 0 /\ 0 \in FirstColumn(0) .. 0 /\ Address(0, 0) = pDiag[0]
    BY <2>1, RowAddresses, UnknownPart, Zenon
  <2>3. i = 0 /\ j = 0
    BY <1>5, <2>1, <2>2, OwnAddress
  <2>4. Shared(i, j) = {}
    <3>1. \A k : k \in Shared(i, j) <=> k \in FirstColumn(i) .. j - 1 /\ k \in FirstColumn(j) .. j - 1
      BY SharedColumns DEF FreeNumbers
    <3>2. FirstColumn(i) = 0 /\ j - 1 < 0
      BY <2>2, <2>3
    <3>3. FirstColumn(i) .. j - 1 = {}
      BY <2>3, <3>2
    <3>4. QED
      BY <3>1, <3>3
  <2>5. SumOver(Quotients(h, i, j), Shared(i, j)) = 0
    BY <2>4, SumOverNothing
  <2>6. h[Address(i, j)] = pGK[Address(i, j)]
    BY <1>5 DEF FullyReduced
  <2>7. 0 + h[Address(i, j)] = h[Address(i, j)]
    BY <1>3
  <2>8. Same(P, h[Address(i, j)], h[Address(i, j)])
    BY <1>3, PrimeType, SameIsEquivalence
  <2>9. QED
    BY <1>2, <1>3, <2>5, <2>6, <2>7, <2>8
<1>6. QED
  BY <1>4, <1>5

\* In the lower triangle, the stiffness is the product of the factors.
LEMMA LowerProduct ==
    ASSUME Solvable, pGK \in Stores, NEW h \in Stores, Pivots(h), FullyReduced(h),
           NEW i \in FreeNumbers, NEW j \in FreeNumbers, j <= i
    PROVE  Same(P, Unknown[i][j],
                Times(LowerFactor(h)[i], [k \in FreeNumbers |-> PivotReciprocals(h)[k] * LowerFactor(h)[j][k]], FreeNumbers))
<1> DEFINE r == PivotReciprocals(h)
           f == [k \in FreeNumbers |-> LowerFactor(h)[i][k] * [l \in FreeNumbers |-> r[l] * LowerFactor(h)[j][l]][k]]
<1>1. Times(LowerFactor(h)[i], [k \in FreeNumbers |-> r[k] * LowerFactor(h)[j][k]], FreeNumbers) = SumOver(f, FreeNumbers)
  BY DEF Times
<1>2. /\ IsFiniteSet(FreeNumbers) /\ i \in FreeNumbers /\ j \in FreeNumbers
      /\ \A k \in FreeNumbers : Lower(h, i, k) \in Int /\ Lower(h, j, k) \in Int /\ r[k] \in Int
      /\ \A k \in FreeNumbers : LowerFactor(h)[i][k] = Lower(h, i, k) /\ LowerFactor(h)[j][k] = Lower(h, j, k)
  BY FactorTypes
<1>3. \A k \in FreeNumbers : f[k] = Lower(h, i, k) * (r[k] * Lower(h, j, k))
  BY <1>2
<1>4. \A k \in FreeNumbers : f[k] \in Int
  <2>1. \A u, v, w \in Int : u * (v * w) \in Int
    OBVIOUS
  <2> HIDE DEF f, r
  <2>2. QED
    BY <1>2, <1>3, <2>1
<1>5. \A k \in FreeNumbers : Lower(h, i, k) = 0 \/ Lower(h, j, k) = 0 => f[k] = 0
  <2>1. \A u, v \in Int : 0 * (u * v) = 0 /\ u * (v * 0) = 0
    OBVIOUS
  <2> HIDE DEF f, r
  <2>2. QED
    BY <1>2, <1>3, <2>1
<1> HIDE DEF f, r
<1>6. /\ j < FirstColumn(i) => Unknown[i][j] = 0
      /\ ~ (j < FirstColumn(i)) => Unknown[i][j] = pGK[Address(i, j)]
  BY UnknownType
<1>7. /\ FirstColumn(i) \in Int /\ FirstColumn(j) \in Int /\ i \in Int /\ j \in Int
      /\ \A k \in FreeNumbers : k \in Int
  BY UnknownPart
<1>8. CASE j < FirstColumn(i)
  <2>1. \A k \in FreeNumbers : Lower(h, i, k) = 0 \/ Lower(h, j, k) = 0
    BY <1>7, <1>8 DEF Lower
  <2>2. SumOver(f, FreeNumbers) = SumOver(f, {})
    BY <1>2, <1>5, <2>1, SumOfSome
  <2>3. Same(P, 0, 0)
    BY PrimeType, SameIsEquivalence
  <2>4. QED
    BY <1>1, <1>6, <1>8, <2>2, <2>3, SumOverNothing DEF r
<1>9. CASE ~ (j < FirstColumn(i))
  <2> DEFINE S == Shared(i, j)
             q == Quotients(h, i, j)
  <2>1. j \in FirstColumn(i) .. i
    BY <1>7, <1>9
  <2>2. /\ IsFiniteSet(S)
        /\ \A k : k \in S <=> k \in FirstColumn(i) .. j - 1 /\ k \in FirstColumn(j) .. j - 1
        /\ \A k \in S : k \in FreeNumbers /\ k \in FirstColumn(i) .. i /\ k \in FirstColumn(j) .. j
    BY <2>1, SharedColumns DEF FreeNumbers
  <2>3. /\ \A k \in S : q[k] \in Int
        /\ h[Address(i, j)] \in Int
        /\ Same(P, pGK[Address(i, j)], SumOver(q, S) + h[Address(i, j)])
        /\ pGK[Address(i, j)] \in Int
    BY <2>1, ReducedAddsUp
  <2>4. \A k \in FreeNumbers \ (S \cup {j}) : Lower(h, i, k) = 0 \/ Lower(h, j, k) = 0
    BY <1>7, <2>2 DEF Lower
  <2>5. j \notin S
    BY <1>7, <2>2
  <2>6. ASSUME NEW k \in S PROVE Same(P, f[k], q[k])
    <3>1. Lower(h, i, k) = h[Address(i, k)] /\ Lower(h, j, k) = h[Address(j, k)]
      BY <1>7, <2>2 DEF Lower
    <3>2. PICK u \in Int, v \in Int, s \in Int : u = h[Address(i, k)] /\ v = h[Address(j, k)] /\ s = r[k]
      BY <1>2, <2>2, <3>1
    <3>3. q[k] = Div(u * v, h[pDiag[k]])
      BY <3>2 DEF Quotients
    <3>4. u * v \in Int /\ (u * v) * s \in Int /\ (u * v) * s = u * (s * v)
      OBVIOUS
    <3>5. f[k] = (u * v) * s
      BY <1>3, <2>2, <3>1, <3>2, <3>4
    <3>6. h[pDiag[k]] \in 1 .. P - 1 /\ s = Reciprocal[h[pDiag[k]]]
      BY <2>2, <3>2, FactorTypes DEF r
    <3>7. Same(P, Div(u * v, h[pDiag[k]]), (u * v) * s)
      BY <3>4, <3>6, DivMultiplies
    <3>8. q[k] \in Int /\ f[k] \in Int
      BY <2>3, <3>4, <3>5
    <3>9. Same(P, q[k], f[k])
      BY <3>3, <3>5, <3>7
    <3> HIDE DEF q
    <3>10. QED
      BY <3>8, <3>9, PrimeType, SameIsEquivalence, Zenon
  <2>7. Same(P, f[j], h[Address(i, j)])
    <3>1. Lower(h, i, j) = h[Address(i, j)]
      BY <1>7, <2>1 DEF Lower
    <3>2. PICK u \in Int, d \in Int, s \in Int : u = h[Address(i, j)] /\ d = h[pDiag[j]] /\ s = r[j]
                                                 /\ Lower(h, j, j) = d /\ Same(P, d * s, 1)
      BY <1>2, <2>3, FactorTypes DEF r
    <3>3. f[j] = u * (s * d)
      BY <1>2, <1>3, <3>1, <3>2
    <3>4. s * d = d * s /\ d * s \in Int /\ u * 1 = u /\ 1 \in Int
      OBVIOUS
    <3>5. Same(P, u * (d * s), u * 1)
      BY <3>2, <3>4, SameScales
    <3>6. QED
      BY <3>2, <3>3, <3>4, <3>5
  <2> HIDE DEF S, q
  <2>8. SumOver(f, FreeNumbers) = f[j] + SumOver(f, S)
    <3> DEFINE T == S \cup {j}
    <3>1. T \in SUBSET FreeNumbers /\ IsFiniteSet(T) /\ j \in T /\ T \ {j} = S
      BY <1>2, <2>2, <2>5, FS_Subset
    <3>2. \A k \in T : f[k] \in Int
      BY <1>4, <3>1
    <3>3. \A k \in FreeNumbers \ T : f[k] = 0
      BY <1>5, <2>4
    <3> HIDE DEF T
    <3>4. SumOver(f, FreeNumbers) = SumOver(f, T)
      BY <1>2, <3>1, <3>2, <3>3, SumOfSome
    <3>5. SumOver(f, T) = f[j] + SumOver(f, T \ {j})
      BY <3>1, <3>2, SumOverMember
    <3>6. QED
      BY <3>1, <3>4, <3>5
  <2>9. Same(P, SumOver(f, S), SumOver(q, S))
    <3>1. \A k \in S : f[k] \in Int /\ q[k] \in Int /\ Same(P, f[k], q[k])
      BY <1>4, <2>2, <2>3, <2>6
    <3>2. QED
      BY <2>2, <3>1, PrimeType, SumReduces
  <2>10. SumOver(f, S) \in Int /\ SumOver(q, S) \in Int
    <3>1. \A k \in S : f[k] \in Int /\ q[k] \in Int
      BY <1>4, <2>2, <2>3
    <3>2. QED
      BY <2>2, <3>1, SumOverType
  <2>11. PICK a \in Int, b \in Int, c \in Int, d \in Int :
             a = f[j] /\ b = SumOver(f, S) /\ c = h[Address(i, j)] /\ d = SumOver(q, S)
    BY <1>2, <1>4, <2>3, <2>10
  <2>12. Same(P, a + b, c + d)
    BY <2>7, <2>9, <2>11, PrimeType, SameAdds, Zenon
  <2>13. PICK p \in Int : p = pGK[Address(i, j)] /\ Same(P, p, d + c)
    BY <2>3, <2>11
  <2>14. Same(P, p, a + b)
    <3>1. a + b \in Int /\ c + d \in Int /\ d + c = c + d
      OBVIOUS
    <3>2. Same(P, c + d, a + b)
      BY <2>12, <3>1, PrimeType, SameIsEquivalence, Zenon
    <3>3. QED
      BY <2>13, <3>1, <3>2, SameChains
  <2>15. QED
    BY <1>1, <1>6, <1>9, <2>8, <2>11, <2>13, <2>14 DEF r
<1>10. QED
  BY <1>8, <1>9

\* So it is in the whole part, which is symmetric.
LEMMA FactorProduct ==
    ASSUME Solvable, pGK \in Stores, NEW h \in Stores, Pivots(h), FullyReduced(h)
    PROVE  \A i, j \in FreeNumbers :
               Same(P, Unknown[i][j],
                    Times(LowerFactor(h)[i], [k \in FreeNumbers |-> PivotReciprocals(h)[k] * LowerFactor(h)[j][k]], FreeNumbers))
<1> DEFINE r == PivotReciprocals(h)
           G == LowerFactor(h)
           f(i, j) == [k \in FreeNumbers |-> G[i][k] * [l \in FreeNumbers |-> r[l] * G[j][l]][k]]
<1>1. ASSUME NEW i \in FreeNumbers, NEW j \in FreeNumbers
      PROVE  Times(G[i], [k \in FreeNumbers |-> r[k] * G[j][k]], FreeNumbers) = Times(G[j], [k \in FreeNumbers |-> r[k] * G[i][k]], FreeNumbers)
  <2>1. \A k \in FreeNumbers : G[i][k] \in Int /\ G[j][k] \in Int /\ r[k] \in Int
    BY FactorTypes
  <2>2. \A u, v, w \in Int : u * (v * w) = w * (v * u)
    OBVIOUS
  <2>3. \A k \in FreeNumbers : f(i, j)[k] = G[i][k] * (r[k] * G[j][k]) /\ f(j, i)[k] = G[j][k] * (r[k] * G[i][k])
    OBVIOUS
  <2>4. \A k \in FreeNumbers : f(i, j)[k] = f(j, i)[k]
    <3> HIDE DEF f, r, G
    <3>1. QED
      BY <2>1, <2>2, <2>3
  <2>5. f(i, j) = f(j, i)
    BY <2>4
  <2>6. QED
    BY <2>5, Zenon DEF Times
<1>2. ASSUME NEW i \in FreeNumbers, NEW j \in FreeNumbers
      PROVE  Same(P, Unknown[i][j], Times(G[i], [k \in FreeNumbers |-> r[k] * G[j][k]], FreeNumbers))
  <2>1. i \in Nat /\ j \in Nat
    BY UnknownPart
  <2>2. CASE j <= i
    BY <2>2, LowerProduct
  <2>3. CASE i <= j
    <3>1. Same(P, Unknown[j][i], Times(G[j], [k \in FreeNumbers |-> r[k] * G[i][k]], FreeNumbers))
      BY <2>3, LowerProduct
    <3>2. Unknown[i][j] = Unknown[j][i]
      BY UnknownType
    <3>3. QED
      BY <1>1, <3>1, <3>2
  <2>4. QED
    BY <2>1, <2>2, <2>3
<1>3. QED
  BY <1>2

\* The entries of v in the rows that are reduced.
Part(v) == [k \in FreeNumbers |-> v[k]]

\* The part is a vector over the unknown numbers.
LEMMA PartType ==
    ASSUME Solvable, NEW v \in Displacements
    PROVE  Part(v) \in Vectors(FreeNumbers) /\ \A k \in FreeNumbers : Part(v)[k] = v[k] /\ v[k] \in Int
<1>1. \A k \in FreeNumbers : v[k] \in Int
  BY UnknownPart, PrimeType DEF Displacements, Num
<1>2. QED
  BY <1>1 DEF Part, Vectors

\* A sum over the rows of which one and those in S are not 0.
LEMMA SumOfRowAndSome ==
    ASSUME NEW f, NEW S, Solvable, S \in SUBSET FreeNumbers, NEW i \in FreeNumbers, i \notin S,
           \A k \in FreeNumbers : f[k] \in Int, \A k \in FreeNumbers \ (S \cup {i}) : f[k] = 0
    PROVE  IsFiniteSet(S) /\ SumOver(f, S) \in Int /\ SumOver(f, FreeNumbers) = f[i] + SumOver(f, S)
<1> DEFINE T == S \cup {i}
<1>1. IsFiniteSet(FreeNumbers)
  BY UnknownPart
<1>2. IsFiniteSet(S)
  BY <1>1, FS_Subset
<1>3. T \in SUBSET FreeNumbers /\ i \in T /\ T \ {i} = S
  OBVIOUS
<1>4. IsFiniteSet(T)
  BY <1>1, <1>3, FS_Subset
<1> HIDE DEF T
<1>5. \A k \in T : f[k] \in Int
  BY <1>3
<1>6. SumOver(f, FreeNumbers) = SumOver(f, T)
  <2>1. \A k \in FreeNumbers \ T : f[k] = 0
    BY DEF T
  <2>2. QED
    BY <1>1, <1>3, <1>5, <2>1, SumOfSome
<1>7. SumOver(f, T) = f[i] + SumOver(f, T \ {i})
  BY <1>3, <1>4, <1>5, SumOverMember
<1>8. \A k \in S : f[k] \in Int
  OBVIOUS
<1>9. SumOver(f, S) \in Int
  BY <1>2, <1>8, SumOverType
<1>10. QED
  BY <1>2, <1>3, <1>6, <1>7, <1>9, Zenon

\* Taking s off p and dividing by d, then multiplying by d and adding s again.
LEMMA SubstitutionUndone ==
    ASSUME NEW p \in Int, NEW s \in Int, NEW t \in Int, NEW d \in Int, Unit(d), Same(P, s, t)
    PROVE  /\ Div((p - s) % P, d) \in Int
           /\ Same(P, d * Div((p - s) % P, d) + t, p)
<1>0. P \in Nat \ {0}
  BY PrimeType
<1>1. p - s \in Int /\ (p - s) + s = p /\ (p - s) + s \in Int
  OBVIOUS
<1>2. PICK m \in Int : m = (p - s) % P
  <2>1. \A z \in Int : z % P \in Int
    BY <1>0
  <2>2. QED
    BY <1>1, <2>1
<1>3. Same(P, m, p - s)
  BY <1>0, <1>1, <1>2, SameIsEquivalence, Zenon
<1>4. PICK q \in Int : q = Div(m, d) /\ Zero(q * d - m)
  BY DivSolves, Zenon
<1>5. q * d - m \in Int /\ (q * d - m) + m = d * q /\ 0 + m = m /\ d * q \in Int /\ d * q + t \in Int
      /\ (p - s) + t \in Int
  OBVIOUS
<1>6. Same(P, m, m) /\ Same(P, q * d - m, 0) /\ Same(P, t, s)
  BY <1>0, <1>4, SameIsEquivalence, Zenon DEF Zero
<1>7. Same(P, (q * d - m) + m, 0 + m)
  BY <1>0, <1>5, <1>6, SameAdds
<1>8. Same(P, d * q, m)
  BY <1>5, <1>7, Zenon
<1>9. Same(P, d * q, p - s)
  BY <1>1, <1>3, <1>5, <1>8, SameChains
<1>10. Same(P, d * q + t, (p - s) + s)
  BY <1>0, <1>1, <1>5, <1>6, <1>9, SameAdds
<1>11. QED
  BY <1>1, <1>2, <1>4, <1>10

\* What the forward substitution leaves solves the system of the lower factor.
LEMMA ForwardSolves ==
    ASSUME Solvable, NEW h \in Stores, Pivots(h), NEW y \in Displacements, NEW b \in Displacements,
           NEW i \in FreeNumbers, y[i] = Div((b[i] - ForwardSum(h, y, i)) % P, h[pDiag[i]])
    PROVE  Same(P, Times(LowerFactor(h)[i], Part(y), FreeNumbers), b[i])
<1> DEFINE S == FirstColumn(i) .. i - 1
           f == [k \in FreeNumbers |-> LowerFactor(h)[i][k] * Part(y)[k]]
           g == [j \in S |-> y[j] * h[Address(i, j)]]
<1>0. i \in 0 .. nFreeDOF - 1
  BY UnknownPart
<1>1. /\ IsFiniteSet(S)
      /\ \A j \in S : j \in 0 .. nFreeDOF - 1 /\ j < i /\ y[j] \in Int /\ h[Address(i, j)] \in Int
      /\ ForwardSum(h, y, i) \in Int /\ SumOver(g, S) \in Int
      /\ Same(P, ForwardSum(h, y, i), SumOver(g, S))
  BY <1>0, ForwardSumType
<1>2. S \in SUBSET FreeNumbers /\ i \notin S
  BY <1>1, UnknownPart
<1>3. Times(LowerFactor(h)[i], Part(y), FreeNumbers) = SumOver(f, FreeNumbers)
  BY DEF Times
<1>4. \A k \in FreeNumbers : f[k] = Lower(h, i, k) * y[k] /\ Lower(h, i, k) \in Int /\ y[k] \in Int
  BY FactorTypes, PartType
<1>5. FirstColumn(i) \in Int /\ i \in Int /\ \A k \in FreeNumbers : k \in Int
  BY UnknownPart
<1> HIDE DEF f
<1>6. \A k \in FreeNumbers : f[k] \in Int
  <2>1. \A u, v \in Int : u * v \in Int
    OBVIOUS
  <2>2. QED
    BY <1>4, <2>1
<1>7. \A k \in FreeNumbers \ (S \cup {i}) : f[k] = 0
  <2>1. ASSUME NEW k \in FreeNumbers \ (S \cup {i}) PROVE Lower(h, i, k) = 0
    <3>1. k \in Int /\ k # i /\ ~ (FirstColumn(i) <= k /\ k <= i - 1)
      BY <1>5
    <3>2. ~ (FirstColumn(i) <= k /\ k <= i)
      BY <1>5, <3>1
    <3>3. QED
      BY <3>2 DEF Lower
  <2>2. \A v \in Int : 0 * v = 0
    OBVIOUS
  <2>3. QED
    BY <1>4, <2>1, <2>2
<1>8. IsFiniteSet(S) /\ SumOver(f, S) \in Int /\ SumOver(f, FreeNumbers) = f[i] + SumOver(f, S)
  BY <1>2, <1>6, <1>7, SumOfRowAndSome, Zenon
<1>9. SumOver(f, S) = SumOver(g, S)
  <2>1. ASSUME NEW k \in S PROVE f[k] = g[k]
    <3>1. Lower(h, i, k) = h[Address(i, k)]
      BY <1>5 DEF Lower
    <3>2. f[k] = h[Address(i, k)] * y[k]
      BY <1>2, <1>4, <3>1
    <3>3. PICK u \in Int, v \in Int : u = h[Address(i, k)] /\ v = y[k]
      BY <1>1
    <3>4. u * v = v * u
      OBVIOUS
    <3>5. g[k] = y[k] * h[Address(i, k)]
      OBVIOUS
    <3>6. QED
      BY <3>2, <3>3, <3>4, <3>5
  <2> HIDE DEF g
  <2>2. QED
    BY <1>1, <2>1, SumOverSame, Zenon
<1>10. PICK p \in Int, s \in Int, t \in Int, d \in Int :
           /\ p = b[i] /\ s = ForwardSum(h, y, i) /\ t = SumOver(g, S) /\ d = h[pDiag[i]]
           /\ Unit(d) /\ Same(P, s, t) /\ Lower(h, i, i) = d
  <2>1. b[i] \in Int
    BY PartType
  <2>2. h[pDiag[i]] \in Int /\ h[pDiag[i]] \in 1 .. P - 1 /\ Lower(h, i, i) = h[pDiag[i]]
    BY FactorTypes
  <2>3. Unit(h[pDiag[i]])
    BY <2>2, UnitsExist
  <2> HIDE DEF g, S
  <2>4. QED
    BY <1>1, <2>1, <2>2, <2>3
<1>11. f[i] = d * Div((p - s) % P, d)
  BY <1>4, <1>10
<1>12. Same(P, d * Div((p - s) % P, d) + t, p)
  BY <1>10, SubstitutionUndone, Zenon
<1>13. QED
  BY <1>3, <1>8, <1>9, <1>10, <1>11, <1>12

\* What the back substitution leaves solves the other one.
LEMMA BackwardSolves ==
    ASSUME Solvable, NEW h \in Stores, Pivots(h), NEW x \in Displacements, NEW y \in Displacements,
           NEW k \in FreeNumbers, x[k] = (y[k] - BackSum(h, x, k)) % P
    PROVE  Same(P, PivotReciprocals(h)[k] * SumOver([j \in FreeNumbers |-> LowerFactor(h)[j][k] * Part(x)[j]], FreeNumbers), y[k])
<1> DEFINE S == Below(k)
           f == [j \in FreeNumbers |-> LowerFactor(h)[j][k] * Part(x)[j]]
           q == [j \in S |-> Div(h[Address(j, k)] * x[j], h[pDiag[k]])]
<1>0. k \in 0 .. nFreeDOF - 1
  BY UnknownPart
<1>1. /\ IsFiniteSet(S)
      /\ BackSum(h, x, k) \in Int /\ SumOver(q, S) \in Int
      /\ Same(P, BackSum(h, x, k), SumOver(q, S))
      /\ \A j \in S : /\ j \in 0 .. nFreeDOF - 1 /\ k < j /\ k \in FirstColumn(j) .. j
                      /\ x[j] \in Int /\ h[Address(j, k)] \in Int
                      /\ Div(h[Address(j, k)] * x[j], h[pDiag[k]]) \in Int
  BY <1>0, BackSumType, Zenon
<1>2. S \in SUBSET FreeNumbers /\ k \notin S
  BY <1>1, UnknownPart
<1>3. \A j \in FreeNumbers : f[j] = Lower(h, j, k) * x[j] /\ Lower(h, j, k) \in Int /\ x[j] \in Int
  BY FactorTypes, PartType
<1>4. k \in Int /\ \A j \in FreeNumbers : j \in Int /\ FirstColumn(j) \in Int
  BY UnknownPart
<1> HIDE DEF f
<1>5. \A j \in FreeNumbers : f[j] \in Int
  <2>1. \A u, v \in Int : u * v \in Int
    OBVIOUS
  <2>2. QED
    BY <1>3, <2>1
<1>6. \A j \in FreeNumbers \ (S \cup {k}) : f[j] = 0
  <2>1. ASSUME NEW j \in FreeNumbers \ (S \cup {k}) PROVE Lower(h, j, k) = 0
    <3>1. ~ (FirstColumn(j) <= k /\ k <= j)
      <4>1. ASSUME FirstColumn(j) <= k, k <= j PROVE FALSE
        <5>1. j \in k + 1 .. nFreeDOF - 1
          BY <1>4, <4>1, UnknownPart
        <5>2. QED
          BY <4>1, <5>1 DEF Below
      <4>2. QED
        BY <4>1
    <3>2. QED
      BY <3>1 DEF Lower
  <2>2. \A v \in Int : 0 * v = 0
    OBVIOUS
  <2>3. QED
    BY <1>3, <2>1, <2>2
<1>7. IsFiniteSet(S) /\ SumOver(f, S) \in Int /\ SumOver(f, FreeNumbers) = f[k] + SumOver(f, S)
  BY <1>2, <1>5, <1>6, SumOfRowAndSome, Zenon
<1>8. PICK d \in Int, r \in Int : /\ d = h[pDiag[k]] /\ r = PivotReciprocals(h)[k] /\ r = Reciprocal[d]
                                  /\ d \in 1 .. P - 1 /\ Same(P, d * r, 1) /\ Lower(h, k, k) = d
  <2>1. /\ h[pDiag[k]] \in 1 .. P - 1 /\ h[pDiag[k]] \in Int
        /\ PivotReciprocals(h)[k] = Reciprocal[h[pDiag[k]]]
        /\ PivotReciprocals(h)[k] \in Int
        /\ Same(P, h[pDiag[k]] * PivotReciprocals(h)[k], 1)
        /\ Lower(h, k, k) = h[pDiag[k]]
    BY FactorTypes
  <2>2. QED
    BY <2>1
<1> DEFINE g == [j \in S |-> r * f[j]]
<1>9. Same(P, SumOver(q, S), r * SumOver(f, S))
  <2>1. ASSUME NEW j \in S PROVE q[j] \in Int /\ g[j] \in Int /\ Same(P, q[j], g[j])
    <3>1. Lower(h, j, k) = h[Address(j, k)]
      <4>1. FirstColumn(j) <= k /\ k <= j
        BY <1>1, <1>2, <1>4
      <4>2. QED
        BY <4>1 DEF Lower
    <3>2. PICK u \in Int, v \in Int : u = h[Address(j, k)] /\ v = x[j]
      BY <1>1
    <3>3. f[j] = u * v
      BY <1>2, <1>3, <3>1, <3>2
    <3>4. u * v \in Int /\ r * (u * v) \in Int /\ (u * v) * r = r * (u * v)
      OBVIOUS
    <3>5. q[j] = Div(u * v, d)
      BY <1>8, <3>2
    <3>6. Same(P, Div(u * v, d), (u * v) * r)
      BY <1>8, <3>4, DivMultiplies
    <3>7. g[j] = r * (u * v)
      BY <3>3
    <3>8. q[j] \in Int
      BY <1>1
    <3>9. QED
      BY <3>4, <3>5, <3>6, <3>7, <3>8
  <2>2. \A j \in S : f[j] \in Int /\ g[j] = r * f[j]
    BY <1>2, <1>5
  <2> HIDE DEF g, q, S
  <2>3. Same(P, SumOver(q, S), SumOver(g, S))
    BY <1>1, <2>1, PrimeType, SumReduces
  <2>4. SumOver(g, S) = r * SumOver(f, S)
    BY <1>1, <2>2, SumScales
  <2>5. QED
    BY <2>3, <2>4
<1> HIDE DEF g
<1>10. PICK p \in Int, s \in Int, t \in Int, m \in Int, z \in Int :
           /\ p = y[k] /\ s = BackSum(h, x, k) /\ t = SumOver(q, S) /\ m = SumOver(f, S)
           /\ z = x[k]
  <2>1. y[k] \in Int /\ x[k] \in Int
    BY PartType
  <2> HIDE DEF q, S
  <2>2. QED
    BY <1>1, <1>7, <2>1
<1>11. f[k] = d * z /\ z = (p - s) % P /\ Same(P, s, t) /\ Same(P, t, r * m)
  <2>1. f[k] = d * z
    BY <1>3, <1>8, <1>10
  <2>2. QED
    BY <1>1, <1>9, <1>10, <2>1
<1>12. Same(P, r * (d * z + m), p)
  <2>0. P \in Nat \ {0}
    BY PrimeType
  <2>1. r * (d * z + m) = (d * r) * z + r * m /\ p - s \in Int /\ d * r \in Int /\ r * m \in Int
        /\ (d * r) * z \in Int /\ 1 \in Int /\ 1 * z = z /\ (p - s) + s = p /\ z + s \in Int
        /\ (d * r) * z + r * m \in Int /\ (p - s) + s \in Int
    OBVIOUS
  <2>2. Same(P, (d * r) * z, z)
    <3>1. Same(P, (d * r) * z, 1 * z)
      BY <1>8, <2>1, SameScales, Zenon
    <3>2. QED
      BY <2>1, <3>1
  <2>3. Same(P, z, p - s)
    BY <1>11, <2>0, <2>1, SameIsEquivalence, Zenon
  <2>4. Same(P, (d * r) * z, p - s)
    BY <2>1, <2>2, <2>3, SameChains
  <2>5. Same(P, r * m, s)
    <3>1. Same(P, s, r * m)
      BY <1>11, <2>1, SameChains
    <3>2. QED
      BY <2>0, <2>1, <3>1, SameIsEquivalence, Zenon
  <2>6. Same(P, (d * r) * z + r * m, (p - s) + s)
    BY <2>0, <2>1, <2>4, <2>5, SameAdds
  <2>7. QED
    BY <2>1, <2>6
<1>13. QED
  BY <1>7, <1>8, <1>10, <1>11, <1>12 DEF f

\* So the two substitutions solve the system.
LEMMA SubstitutionsSolve ==
    ASSUME Solvable, pGK \in Stores, NEW h \in Stores, Pivots(h), FullyReduced(h),
           NEW b \in Displacements, NEW y \in Displacements, NEW x \in Displacements,
           \A i \in FreeNumbers : y[i] = Div((b[i] - ForwardSum(h, y, i)) % P, h[pDiag[i]]),
           \A k \in FreeNumbers : x[k] = (y[k] - BackSum(h, x, k)) % P
    PROVE  \A i \in FreeNumbers : Same(P, Times(Unknown[i], Part(x), FreeNumbers), b[i])
<1> DEFINE G == LowerFactor(h)
           r == PivotReciprocals(h)
           xx == Part(x)
           yy == Part(y)
           bb == Part(b)
<1>1. /\ IsFiniteSet(FreeNumbers) /\ Unknown \in Matrices(FreeNumbers) /\ G \in Matrices(FreeNumbers) /\ r \in Vectors(FreeNumbers)
      /\ xx \in Vectors(FreeNumbers) /\ yy \in Vectors(FreeNumbers) /\ bb \in Vectors(FreeNumbers)
      /\ \A k \in FreeNumbers : yy[k] = y[k] /\ bb[k] = b[k]
  BY FactorTypes, UnknownType, PartType, UnknownPart
<1>2. \A i, j \in FreeNumbers : Same(P, Unknown[i][j], Times(G[i], [k \in FreeNumbers |-> r[k] * G[j][k]], FreeNumbers))
  BY FactorProduct
<1>3. \A i \in FreeNumbers : Same(P, Times(G[i], yy, FreeNumbers), bb[i])
  BY <1>1, ForwardSolves
<1>4. \A k \in FreeNumbers : Same(P, r[k] * SumOver([j \in FreeNumbers |-> G[j][k] * xx[j]], FreeNumbers), yy[k])
  BY <1>1, BackwardSolves
<1> HIDE DEF G, r, xx, yy, bb
<1>5. \A i \in FreeNumbers : Same(P, Times(Unknown[i], xx, FreeNumbers), bb[i])
  BY <1>1, <1>2, <1>3, <1>4, TriangularSystems, Zenon
<1>6. QED
  BY <1>1, <1>5 DEF xx

\* Where the factorisation has come to the last diagonal, every element is reduced.
LEMMA AllReduced ==
    ASSUME Solvable, NEW w, Reduced(w, pDiag[nFreeDOF - 1])
    PROVE  /\ w = Work(w.gk, pDisp, nFreeDOF - 1) /\ w.gk \in Stores /\ FullyReduced(w.gk)
           /\ \A x \in 0 .. pDiag[nTotalDOF - 1] : x > pDiag[nFreeDOF - 1] => w.gk[x] = pGK[x]
<1>1. /\ w = Work(w.gk, pDisp, nFreeDOF - 1) /\ w.gk \in Stores /\ w.gk[0] = pGK[0]
      /\ \A i \in 0 .. nFreeDOF - 1 : \A j \in FirstColumn(i) .. i :
             Address(i, j) \in 1 .. pDiag[nFreeDOF - 1] => w.gk[Address(i, j)] = Reduction(w.gk, i, j)
      /\ \A x \in 0 .. pDiag[nTotalDOF - 1] : x > pDiag[nFreeDOF - 1] => w.gk[x] = pGK[x]
  BY DEF Reduced
<1>2. ASSUME NEW i \in FreeNumbers, NEW j \in FirstColumn(i) .. i, Address(i, j) # 0
      PROVE  w.gk[Address(i, j)] = Reduction(w.gk, i, j)
  <2>1. i \in 0 .. nFreeDOF - 1
    BY DEF FreeNumbers
  <2>2. Address(i, j) \in 0 .. pDiag[nFreeDOF - 1]
    BY <2>1, RowIsFound
  <2>3. \A a, m : a \in 0 .. m /\ a # 0 => a \in 1 .. m
    OBVIOUS
  <2>4. Address(i, j) \in 1 .. pDiag[nFreeDOF - 1]
    BY <1>2, <2>2, <2>3
  <2>5. QED
    BY <1>1, <2>1, <2>4
<1>3. QED
  BY <1>1, <1>2 DEF FullyReduced

\* LDLTSolve, if it says so, solves the equations of the unknown degrees of freedom.
LEMMA LDLTSolveSolves ==
    ASSUME LDLTSolve, Solvable, pGK \in Stores, pDisp \in Displacements, solved'
    PROVE  /\ pDisp' \in Displacements
           /\ \A i \in FreeNumbers : Same(P, Times(Unknown[i], Part(pDisp'), FreeNumbers), pDisp[i])
           /\ \A k \in nFreeDOF .. nTotalDOF - 1 : pDisp'[k] = pDisp[k]
           /\ pGK' \in Stores
           /\ \A x \in 0 .. pDiag[nTotalDOF - 1] : x > pDiag[nFreeDOF - 1] => pGK'[x] = pGK[x]
<1> DEFINE n == nFreeDOF
           fac == CHOOSE f : Factored(f, pDiag[n - 1])
           fwd == CHOOSE f : Forward(fac[pDiag[n - 1]], f, n)
           bwd == CHOOSE f : BackwardAll(fwd[n], f)
<1>1. pDisp' = bwd[0].b /\ bwd[0].ok /\ pGK' = bwd[0].gk
  BY Zenon DEF LDLTSolve, Factored, Forward, BackwardAll, RowOf
<1>2. /\ n \in Nat \ {0} /\ n <= nTotalDOF /\ nTotalDOF \in Nat
      /\ n - 1 \in 0 .. nTotalDOF - 1 /\ pDiag[n - 1] \in Nat
  <2>1. n \in Nat \ {0} /\ n <= nTotalDOF /\ nTotalDOF \in Nat
    BY UnknownPart
  <2>2. n - 1 \in 0 .. n - 1 /\ n - 1 \in 0 .. nTotalDOF - 1
    BY <2>1
  <2>3. /\ n - 1 \in FirstColumn(n - 1) .. n - 1 /\ Address(n - 1, n - 1) = pDiag[n - 1]
        /\ Address(n - 1, n - 1) \in 0 .. pDiag[nTotalDOF - 1]
    BY <2>2, UnknownPart
  <2>4. \A a, m : a \in 0 .. m => a \in Nat
    OBVIOUS
  <2>5. QED
    BY <2>1, <2>2, <2>3, <2>4
<1>3. pDisp = [i \in 0 .. nTotalDOF - 1 |-> pDisp[i]]
  BY DEF Displacements
<1>4. /\ Factored(fac, pDiag[n - 1]) /\ SupportsKept(fac[pDiag[n - 1]])
      /\ fac[pDiag[n - 1]].ok => Reduced(fac[pDiag[n - 1]], pDiag[n - 1])
  <2>1. \E f : Factored(f, pDiag[n - 1])
    BY <1>2, <1>3, FactorKeeps
  <2>2. Factored(fac, pDiag[n - 1])
    BY <2>1, Zenon
  <2> HIDE DEF fac
  <2>3. SupportsKept(fac[pDiag[n - 1]])
    BY <1>2, <1>3, <2>2, FactorKeeps
  <2>4. pDiag[n - 1] \in 0 .. pDiag[nFreeDOF - 1]
    BY <1>2
  <2>5. QED
    BY <2>2, <2>3, <2>4, FactorIs
<1> HIDE DEF fac
<1> DEFINE w0 == fac[pDiag[n - 1]]
           h == w0.gk
<1>5. w0.ok => /\ w0 = Work(h, pDisp, n - 1) /\ h \in Stores /\ FullyReduced(h)
               /\ \A x \in 0 .. pDiag[nTotalDOF - 1] : x > pDiag[nFreeDOF - 1] => h[x] = pGK[x]
  BY <1>4, AllReduced
<1>6. Forward(w0, fwd, n) /\ SupportsKept(fwd[n])
  <2>1. n \in Nat /\ n <= nFreeDOF
    BY <1>2
  <2>2. \E f : Forward(w0, f, n)
    BY <1>2, <1>4, <2>1, ForwardKeeps, Zenon
  <2>3. Forward(w0, fwd, n)
    BY <2>2, Zenon
  <2> HIDE DEF fwd
  <2>4. QED
    BY <1>2, <1>4, <2>1, <2>3, ForwardKeeps
<1> HIDE DEF fwd
<1>7. BackwardAll(fwd[n], bwd)
  <2>1. n - 1 \in 0 .. nFreeDOF - 1 /\ nFreeDOF - 1 - (n - 1) = 0
    BY <1>2
  <2>2. \A f : BackwardAll(fwd[n], f) <=> Backward(fwd[n], f, n - 1)
    BY <2>1 DEF BackwardAll, Backward
  <2>3. \E f : BackwardAll(fwd[n], f)
    BY <1>2, <1>6, <2>1, <2>2, BackwardKeeps
  <2>4. QED
    BY <2>3, Zenon
<1> HIDE DEF bwd, w0, h
<1>8. ASSUME w0.ok
      PROVE  fwd[n].ok => Forwarded(h, fwd[n], n)
  <2>1. h \in Stores /\ w0 = Work(h, pDisp, nFreeDOF - 1)
    BY <1>5, <1>8
  <2>2. QED
    BY <1>6, <2>1, ForwardIs
<1>9. fwd[n].ok => w0.ok
  <2>1. CASE w0.ok
    BY <2>1
  <2>2. CASE ~ w0.ok
    <3>1. pGK \in Stores /\ (w0.ok => w0 = Work(pGK, pDisp, nFreeDOF - 1))
      BY <2>2
    <3>2. QED
      BY <1>6, <3>1, ForwardIs
  <2>3. QED
    BY <2>1, <2>2
<1> DEFINE y == fwd[n].b
<1>10. ASSUME fwd[n].ok
       PROVE  /\ w0.ok /\ h \in Stores /\ FullyReduced(h)
              /\ fwd[n] = Work(h, y, n - 1) /\ y \in Displacements /\ Pivots(h)
              /\ \A k \in n .. nTotalDOF - 1 : y[k] = pDisp[k]
              /\ \A k \in FreeNumbers : y[k] = Div((pDisp[k] - ForwardSum(h, y, k)) % P, h[pDiag[k]])
  <2>1. Forwarded(h, fwd[n], n)
    BY <1>8, <1>9, <1>10
  <2>2. h \in Stores /\ FullyReduced(h) /\ w0.ok
    BY <1>5, <1>9, <1>10
  <2>3. QED
    BY <2>1, <2>2 DEF Forwarded, Pivots, FreeNumbers
<1> HIDE DEF y
<1>11. fwd[n].ok /\ Backed(h, y, bwd[0], 0)
  <2>1. CASE fwd[n].ok
    <3>1. h \in Stores /\ y \in Displacements /\ fwd[n] = Work(h, y, nFreeDOF - 1) /\ Pivots(h)
      BY <1>10, <2>1
    <3>2. QED
      BY <1>1, <1>7, <3>1, BackwardIs
  <2>2. CASE ~ fwd[n].ok
    <3>1. /\ pGK \in Stores
          /\ fwd[n].ok => fwd[n] = Work(pGK, pDisp, nFreeDOF - 1) /\ Pivots(pGK)
      BY <2>2
    <3>2. QED
      BY <1>1, <1>7, <2>2, <3>1, BackwardIs
  <2>3. QED
    BY <2>1, <2>2
<1>12. /\ pDisp' \in Displacements
       /\ \A k \in nFreeDOF .. nTotalDOF - 1 : pDisp'[k] = y[k]
       /\ \A k \in FreeNumbers : pDisp'[k] = (y[k] - BackSum(h, pDisp', k)) % P
  <2>1. /\ bwd[0].b \in Displacements
        /\ \A k \in 0 .. nTotalDOF - 1 : k < 0 \/ k >= nFreeDOF => bwd[0].b[k] = y[k]
        /\ \A k \in 0 .. nFreeDOF - 1 : bwd[0].b[k] = (y[k] - BackSum(h, bwd[0].b, k)) % P
    BY <1>11 DEF Backed
  <2>2. \A k \in nFreeDOF .. nTotalDOF - 1 : k \in 0 .. nTotalDOF - 1 /\ k >= nFreeDOF
    BY <1>2
  <2>3. QED
    BY <1>1, <2>1, <2>2 DEF FreeNumbers
<1>13. \A i \in FreeNumbers : Same(P, Times(Unknown[i], Part(pDisp'), FreeNumbers), pDisp[i])
  BY <1>10, <1>11, <1>12, SubstitutionsSolve
<1>14. pGK' = h
  <2>1. bwd[0] = Work(h, bwd[0].b, bwd[0].lastRow)
    BY <1>11 DEF Backed
  <2>2. bwd[0].gk = h
    BY <2>1, WorkParts
  <2>3. QED
    BY <1>1, <2>2
<1>15. QED
  BY <1>5, <1>10, <1>11, <1>12, <1>13, <1>14

-----------------------------------------------------------------------------
(* The forces of the loads are numbers. *)

\* The numbers that FixedEndForceCalcu divides by have reciprocals.
LEMMA DivisorsAreUnits == Unit(4) /\ Unit(5) /\ Unit(Div(3, 2)) /\ Div(3, 2) \in Int
<1>1. P # 6 /\ P % 3 # 0 /\ P % 2 # 0
  BY InputAssumption
<1>2. Unit(2) /\ Unit(5) /\ Unit(3) /\ Unit(4)
  <2>1. 2 \in 1 .. P - 1 /\ 3 \in 1 .. P - 1 /\ 4 \in 1 .. P - 1 /\ 5 \in 1 .. P - 1
    BY PrimeType
  <2>2. QED
    BY <2>1, UnitsExist
<1>3. Div(3, 2) \in Int /\ Zero(Div(3, 2) * 2 - 3)
  BY <1>2, DivSolves
<1>4. PICK x \in Int : x = Div(3, 2) /\ Zero(x * 2 - 3)
  BY <1>3
<1>5. PICK b \in Int : Same(P, 3 * b, 1)
  BY <1>2 DEF Unit
<1>6. /\ x * (2 * b) = b * (x * 2 - 3) + 3 * b /\ x * 2 - 3 \in Int /\ 3 * b \in Int
      /\ b * (x * 2 - 3) \in Int /\ 2 * b \in Int /\ 1 \in Int /\ 0 + 3 * b = 3 * b /\ 0 \in Int
      /\ x * (2 * b) \in Int
  OBVIOUS
<1>7. Same(P, b * (x * 2 - 3), 0)
  BY <1>4, <1>6, ZeroRules, Zenon DEF Zero
<1>8. Same(P, b * (x * 2 - 3) + 3 * b, 0 + 1)
  <2>1. P \in Nat \ {0}
    BY PrimeType
  <2>2. QED
    BY <1>5, <1>6, <1>7, <2>1, SameAdds
<1>9. Same(P, x * (2 * b), 1)
  <2>1. 0 + 1 = 1
    OBVIOUS
  <2>2. QED
    BY <1>6, <1>8, <2>1, Zenon
<1>10. Unit(x)
  BY <1>6, <1>9 DEF Unit
<1>11. QED
  BY <1>2, <1>4, <1>10

\* What is not 0 modulo P has one.
LEMMA RemainderIsUnit == \A h \in Int : h % P # 0 => Unit(h)
<1> TAKE h \in Int
<1> HAVE h % P # 0
<1>0. P \in Nat \ {0} /\ 1 \in Int
  BY PrimeType
<1>1. PICK r \in 0 .. P - 1 : r = h % P /\ Same(P, r, h)
  <2>1. h % P \in 0 .. P - 1
    BY <1>0, RemainderType
  <2>2. QED
    BY <1>0, <2>1, SameIsEquivalence, Zenon
<1>2. r \in 1 .. P - 1 /\ r \in Int
  BY <1>0, <1>1
<1>3. PICK b \in Int : Same(P, r * b, 1)
  BY <1>2, UnitsExist, Zenon DEF Unit
<1>4. r * b \in Int /\ h * b \in Int
  BY <1>2
<1>5. Same(P, h, r)
  BY <1>0, <1>1, <1>2, SameIsEquivalence, Zenon
<1>6. Same(P, h * b, r * b)
  BY <1>2, <1>5, SameScales, Zenon
<1>7. Same(P, h * b, 1)
  BY <1>0, <1>3, <1>4, <1>6, SameChains, Zenon
<1>8. QED
  BY <1>7, Zenon DEF Unit

\* The program keeps numbers of forces that are numbers.
LEMMA KeptIsNumber ==
    ASSUME NEW load, NEW f1, NEW f4, NEW f2 \in Int, NEW f3 \in Int, NEW f5 \in Int, NEW f6 \in Int,
           FixedEndForces(load) = << f1, f2, f3, f4, f5, f6 >>
    PROVE  KeptForces(load) \in [1 .. 6 -> Num]
<1>1. \A x \in Int : x % P \in Num
  BY PrimeType, RemainderType, Zenon DEF Num
<1>2. 0 \in Num
  BY PrimeType DEF Num
<1> DEFINE F == << f1, f2, f3, f4, f5, f6 >>
<1>3. KeptForces(load) = [k \in 1 .. 6 |-> IF k \in {1, 4} THEN 0 ELSE F[k] % P]
  BY DEF KeptForces
<1>4. ASSUME NEW k \in 1 .. 6 PROVE (IF k \in {1, 4} THEN 0 ELSE F[k] % P) \in Num
  <2>1. k \notin {1, 4} => F[k] \in Int
    BY <1>4
  <2> HIDE DEF F
  <2>2. QED
    BY <1>1, <1>2, <2>1
<1> HIDE DEF F
<1>5. QED
  BY <1>3, <1>4

\* What an element keeps of a lateral force or pressure are six numbers.
LEMMA KeptOfLateral ==
    ASSUME LegalInput, NEW k \in DOMAIN loads,
           loads[k].type \in {"LATERAL_FORCE", "LATERAL_UNIFORM_PRESSURE"}
    PROVE  KeptForces(loads[k]) \in [1 .. 6 -> Num]
<1>1. loads[k].type \in MemberLoads
  BY DEF MemberLoads
<1>2. PICK q \in Int, a \in Int, l \in Int :
          q = loads[k].value /\ a = loads[k].position /\ l = Length(loads[k].elem) /\ l \in 1 .. P - 1
  BY <1>1, MemberLoadType, Zenon
<1>3. PICK c \in Int, s \in Int : c = Div(a, l) /\ s = Div(l - a, l)
  BY <1>2, PartsOfLength, Zenon
<1>4. PICK g \in Int : g = (c * c) % P
  <2>1. c * c \in Int /\ P \in Nat \ {0}
    BY PrimeType
  <2>2. QED
    BY <2>1, SameIsEquivalence, Zenon
<1>5. Unit(2) /\ Unit(6) /\ 2 \in Int /\ 6 \in Int /\ q * a \in Int
  BY SmallUnits
<1>6. PICK u \in Int : u = Div(q * a, 2)
  BY <1>5, DivSolves, Zenon
<1>7. u * a \in Int
  OBVIOUS
<1>8. PICK d \in Int : d = Div(u * a, 6)
  BY <1>5, <1>7, DivSolves, Zenon
<1>9. CASE loads[k].type = "LATERAL_FORCE"
  <2>1. FixedEndForces(loads[k]) =
            << 0, -q * s * s * (1 + 2 * c), -q * s * s * a, 0, -q * g * (1 + 2 * s), q * (l - a) * g >>
    BY <1>2, <1>3, <1>4, <1>9 DEF FixedEndForces
  <2>2. /\ -q * s * s * (1 + 2 * c) \in Int /\ -q * s * s * a \in Int
        /\ -q * g * (1 + 2 * s) \in Int /\ q * (l - a) * g \in Int
    OBVIOUS
  <2>3. QED
    BY <2>1, <2>2, KeptIsNumber, Zenon
<1>10. CASE loads[k].type = "LATERAL_UNIFORM_PRESSURE"
  <2>1. FixedEndForces(loads[k]) =
            << 0, -u * (2 - 2 * g + c * g), -d * (6 - 8 * c + 3 * g),
               0, -u * g * (2 - c), d * c * (4 - 3 * c) >>
    BY <1>2, <1>3, <1>4, <1>6, <1>8, <1>10 DEF FixedEndForces
  <2>2. /\ -u * (2 - 2 * g + c * g) \in Int /\ -d * (6 - 8 * c + 3 * g) \in Int
        /\ -u * g * (2 - c) \in Int /\ d * c * (4 - 3 * c) \in Int
    OBVIOUS
  <2>3. QED
    BY <2>1, <2>2, KeptIsNumber, Zenon
<1>11. QED
  BY <1>9, <1>10

\* The same of a pressure that grows along the element.
LEMMA KeptOfLinear ==
    ASSUME LegalInput, NEW k \in DOMAIN loads, loads[k].type = "LATERAL_LINEARLY_PRESSURE"
    PROVE  KeptForces(loads[k]) \in [1 .. 6 -> Num]
<1>1. loads[k].type \in MemberLoads
  BY DEF MemberLoads
<1>2. PICK q \in Int, a \in Int, l \in Int :
          q = loads[k].value /\ a = loads[k].position /\ l = Length(loads[k].elem) /\ l \in 1 .. P - 1
  BY <1>1, MemberLoadType, Zenon
<1>3. PICK c \in Int : c = Div(a, l)
  BY <1>2, PartsOfLength, Zenon
<1>R. \A x \in Int : x % P \in Int
  BY PrimeType, SameIsEquivalence
<1>4. PICK g \in Int : g = (c * c) % P
  <2>1. c * c \in Int
    OBVIOUS
  <2>2. QED
    BY <1>R, <2>1, Zenon
<1>5. /\ Unit(2) /\ Unit(4) /\ Unit(5) /\ Unit(Div(3, 2)) /\ Div(3, 2) \in Int
      /\ 2 \in Int /\ 4 \in Int /\ 5 \in Int /\ 6 \in Int /\ 8 \in Int /\ q * a \in Int
  BY SmallUnits, DivisorsAreUnits
<1>6. PICK u \in Int : u = Div(q * a, 4)
  BY <1>5, DivSolves, Zenon
<1>7. PICK v \in Int : v = Div(8, 5)
  BY <1>5, DivSolves, Zenon
<1>8. PICK w \in Int : w = Div(6, 5)
  BY <1>5, DivSolves, Zenon
<1>9. PICK h \in Int : h = Div(c, 2)
  BY <1>5, DivSolves, Zenon
<1>10. PICK m \in Int : m = 2 - 3 * c + w * g
  OBVIOUS
<1>11. PICK n \in Int : n = Div(m, Div(3, 2))
  BY <1>5, DivSolves, Zenon
<1>12. g * c \in Int /\ v * c \in Int /\ c * (1 - h) \in Int
  OBVIOUS
<1>13. PICK x \in Int : x = (g * c) % P
  BY <1>R, <1>12, Zenon
<1>14. PICK y \in Int : y = (v * c) % P
  BY <1>R, <1>12, Zenon
<1>15. PICK z \in Int : z = (c * (1 - h)) % P
  BY <1>R, <1>12, Zenon
<1> DEFINE f2 == -u * (2 - 3 * g + v * x)
           f3 == u * a * n
           f5 == -u * g * (3 - y)
           f6 == -u * a * z
<1>16. FixedEndForces(loads[k]) = << 0, f2, f3, 0, f5, f6 >>
  BY <1>2, <1>3, <1>4, <1>6, <1>7, <1>8, <1>9, <1>10, <1>11, <1>13, <1>14, <1>15 DEF FixedEndForces
<1>17. f2 \in Int /\ f3 \in Int /\ f5 \in Int /\ f6 \in Int
  OBVIOUS
<1> HIDE DEF f2, f3, f5, f6
<1>18. QED
  BY <1>16, <1>17, KeptIsNumber, Zenon

\* The same of a moment.
LEMMA KeptOfMoment ==
    ASSUME LegalInput, NEW k \in DOMAIN loads,
           loads[k].type \in {"MOMENT_ON_A_POINT", "MOMENT_ON_BEAM"}
    PROVE  KeptForces(loads[k]) \in [1 .. 6 -> Num]
<1>1. loads[k].type \in MemberLoads
  BY DEF MemberLoads
<1>2. PICK q \in Int, a \in Int, l \in Int :
          q = loads[k].value /\ a = loads[k].position /\ l = Length(loads[k].elem) /\ l \in 1 .. P - 1
  BY <1>1, MemberLoadType, Zenon
<1>3. PICK c \in Int, s \in Int : c = Div(a, l) /\ s = Div(l - a, l)
  BY <1>2, PartsOfLength, Zenon
<1>R. \A x \in Int : x % P \in Int
  BY PrimeType, SameIsEquivalence
<1>4. c * c \in Int /\ s * s \in Int /\ 6 * q * c * s \in Int
  OBVIOUS
<1>5. PICK g \in Int, t \in Int : g = (c * c) % P /\ t = (s * s) % P
  BY <1>R, <1>4, Zenon
<1>6. Unit(l)
  BY <1>2, UnitsExist
<1>7. PICK d \in Int : d = Div(6 * q * c * s, l)
  BY <1>4, <1>6, DivSolves, Zenon
<1>8. CASE loads[k].type = "MOMENT_ON_A_POINT"
  <2>1. FixedEndForces(loads[k]) =
            << 0, -d, q * s * (2 - 3 * s), 0, d, q * c * (2 - 3 * c) >>
    BY <1>2, <1>3, <1>7, <1>8 DEF FixedEndForces
  <2>2. -d \in Int /\ q * s * (2 - 3 * s) \in Int /\ q * c * (2 - 3 * c) \in Int
    OBVIOUS
  <2>3. QED
    BY <2>1, <2>2, KeptIsNumber, Zenon
<1>9. CASE loads[k].type = "MOMENT_ON_BEAM"
  <2>1. FixedEndForces(loads[k]) =
            << 0, -q * g * (3 * s + c), -q * t * a, 0, q * g * (3 * s + c), q * g * (l - a) >>
    BY <1>2, <1>3, <1>5, <1>9 DEF FixedEndForces
  <2>2. /\ -q * g * (3 * s + c) \in Int /\ -q * t * a \in Int
        /\ q * g * (3 * s + c) \in Int /\ q * g * (l - a) \in Int
    OBVIOUS
  <2>3. QED
    BY <2>1, <2>2, KeptIsNumber, Zenon
<1>10. QED
  BY <1>8, <1>9

\* The same of an axial load or of a temperature.
LEMMA KeptOfAxial ==
    ASSUME LegalInput, NEW k \in DOMAIN loads,
           loads[k].type \in {"AXIAL_PRESSURE", "AXIAL_FORCE", "TEMPERATURE"}
    PROVE  KeptForces(loads[k]) \in [1 .. 6 -> Num]
<1>1. CASE loads[k].type = "AXIAL_PRESSURE"
  <2>1. PICK f1, f4 : FixedEndForces(loads[k]) = << f1, 0, 0, f4, 0, 0 >>
    BY <1>1 DEF FixedEndForces
  <2>2. 0 \in Int
    OBVIOUS
  <2>3. QED
    BY <2>1, <2>2, KeptIsNumber, Zenon
<1>2. CASE loads[k].type = "AXIAL_FORCE"
  <2>1. PICK f4 : FixedEndForces(loads[k]) = << 0, 0, 0, f4, 0, 0 >>
    BY <1>2 DEF FixedEndForces
  <2>2. 0 \in Int
    OBVIOUS
  <2>3. QED
    BY <2>1, <2>2, KeptIsNumber, Zenon
<1>3. CASE loads[k].type = "TEMPERATURE"
  <2>1. loads[k].type # "FORCE_ON_NODE" /\ loads[k].type # "SUPPORT_MOVE"
    BY <1>3
  <2>2. /\ loads[k].t0 \in Int /\ loads[k].t1 \in Int /\ loads[k].elem \in DOMAIN structure.elem
        /\ structure.elem[loads[k].elem].alpha \in Int
        /\ structure.elem[loads[k].elem].H \in Int /\ structure.elem[loads[k].elem].H % P # 0
    BY <1>3, <2>1 DEF LegalInput, LegalLoads
  <2>3. structure.elem[loads[k].elem].EI \in Int
    BY <2>2, ElementGeometry DEF Elements
  <2>4. PICK al \in Int, t0 \in Int, t1 \in Int, ei \in Int, h \in Int :
            /\ al = structure.elem[loads[k].elem].alpha /\ t0 = loads[k].t0 /\ t1 = loads[k].t1
            /\ ei = structure.elem[loads[k].elem].EI
            /\ h = structure.elem[loads[k].elem].H /\ h % P # 0
    BY <2>2, <2>3, Zenon
  <2>5. Unit(h)
    BY <2>4, RemainderIsUnit
  <2>6. al * (t1 - t0) * ei \in Int
    OBVIOUS
  <2>7. PICK b \in Int : b = Div(al * (t1 - t0) * ei, h)
    BY <2>5, <2>6, DivSolves, Zenon
  <2>8. PICK f1, f4 : FixedEndForces(loads[k]) = << f1, 0, b, f4, 0, -b >>
    BY <1>3, <2>4, <2>7, Zenon DEF FixedEndForces
  <2>9. 0 \in Int /\ -b \in Int
    OBVIOUS
  <2>10. QED
    BY <2>8, <2>9, KeptIsNumber, Zenon
<1>4. QED
  BY <1>1, <1>2, <1>3

\* Whatever load it is, what the program keeps of its forces is numbers.
LEMMA KeptType ==
    ASSUME LegalInput, NEW k \in DOMAIN loads, loads[k].type \in MemberLoads
    PROVE  KeptForces(loads[k]) \in [1 .. 6 -> Num]
<1>1. loads[k].type \in {"LATERAL_FORCE", "LATERAL_UNIFORM_PRESSURE"}
      \/ loads[k].type = "LATERAL_LINEARLY_PRESSURE"
      \/ loads[k].type \in {"MOMENT_ON_A_POINT", "MOMENT_ON_BEAM"}
      \/ loads[k].type \in {"AXIAL_PRESSURE", "AXIAL_FORCE", "TEMPERATURE"}
  BY DEF MemberLoads
<1>2. QED
  BY <1>1, KeptOfLateral, KeptOfLinear, KeptOfMoment, KeptOfAxial

\* And so is what they do to the nodes.
LEMMA ClampType ==
    ASSUME LegalInput, NEW k \in DOMAIN loads, loads[k].type \in MemberLoads
    PROVE  /\ loads[k].elem \in Elements /\ Places(loads[k].elem) = 1 .. 6
           /\ ClampForces(loads[k]) \in Vectors(1 .. 6)
<1> DEFINE e == loads[k].elem
           v == [m \in 1 .. 6 |-> -KeptForces(loads[k])[m]]
<1>1. loads[k].type # "FORCE_ON_NODE" /\ loads[k].type # "SUPPORT_MOVE"
  BY DEF MemberLoads
<1>2. e \in Elements /\ structure.elem[e].type = "frame"
  BY <1>1 DEF LegalInput, LegalLoads, Elements
<1>3. Places(e) = 1 .. 6
  BY <1>2 DEF Places, IsTruss
<1>4. v \in Vectors(1 .. 6)
  <2>1. \A m \in 1 .. 6 : KeptForces(loads[k])[m] \in Num
    BY KeptType
  <2>2. \A x \in Num : -x \in Int
    BY PrimeType DEF Num
  <2>3. QED
    BY <2>1, <2>2 DEF Vectors
<1>5. Rotation(e) \in Matrices(1 .. 6) /\ IsFiniteSet(1 .. 6) /\ 1 \in 1 .. 6
  BY <1>2, <1>3, ElementStiffness, PlacesType, Zenon
<1>6. MatrixTrans(Rotation(e)) \in Matrices(1 .. 6)
  BY <1>5, MatrixTransType
<1>7. ClampForces(loads[k]) = MatrixVectorMultiply(MatrixTrans(Rotation(e)), v)
  BY DEF ClampForces
<1> HIDE DEF v
<1>8. ClampForces(loads[k]) \in Vectors(1 .. 6)
  BY <1>4, <1>5, <1>6, <1>7, MatrixVectorMultiplySame
<1>9. QED
  BY <1>2, <1>3, <1>8

-----------------------------------------------------------------------------
(* The right hand side of the equations. *)

\* What each load adds to the right hand side in row i.
OnMember(m, i) ==
    Total([q \in {q \in 1 .. 6 : pElemDOF[loads[m].elem][q] = i} |-> ClampForces(loads[m])[q]])
Given(i) ==
    [m \in DOMAIN loads |->
        IF loads[m].type = "FORCE_ON_NODE" /\ iaDOFIndex[loads[m].at] = i THEN loads[m].value
        ELSE IF loads[m].type \in MemberLoads THEN OnMember(m, i) ELSE 0]

\* What row i loses to the supports as the first k loads have moved them.
HeldNumbers == nFreeDOF .. nTotalDOF - 1
StandsAt(s, k) == SumOver(Values, MovedBy(s, k)) % P
Taken(i, k) ==
    IF i < nFreeDOF THEN SumOver([s \in HeldNumbers |-> GetElementInGK(s, i) * StandsAt(s, k)], HeldNumbers) ELSE 0

\* It is an integer.
LEMMA OnMemberType ==
    ASSUME LegalInput, NEW m \in DOMAIN loads, loads[m].type \in MemberLoads, NEW i
    PROVE  OnMember(m, i) \in Int
<1> DEFINE S == {q \in 1 .. 6 : pElemDOF[loads[m].elem][q] = i}
           c == ClampForces(loads[m])
           f == [q \in S |-> c[q]]
<1>1. IsFiniteSet(S)
  <2>1. IsFiniteSet(1 .. 6) /\ S \in SUBSET (1 .. 6)
    BY ClampType, PlacesType, Zenon
  <2>2. QED
    BY <2>1, FS_Subset
<1>2. \A q \in 1 .. 6 : c[q] \in Int
  BY ClampType DEF Vectors
<1> HIDE DEF c
<1>3. DOMAIN f = S /\ \A q \in S : f[q] \in Int
  BY <1>2
<1>4. OnMember(m, i) = Total(f)
  BY DEF OnMember, c
<1> HIDE DEF f, S
<1>5. QED
  BY <1>1, <1>3, <1>4, TotalType

\* They are integers.
LEMMA GivenType ==
    ASSUME LegalInput, NEW i
    PROVE  \A m \in DOMAIN loads : Given(i)[m] \in Int
<1> TAKE m \in DOMAIN loads
<1>1. loads[m].value \in Int /\ 0 \in Int
  BY DEF LegalInput, LegalLoads
<1>2. loads[m].type \in MemberLoads => OnMember(m, i) \in Int
  BY OnMemberType
<1>3. QED
  BY <1>1, <1>2 DEF Given

\* All of it is the force on the nodes and that of the loaded elements.
LEMMA GivenIsForces ==
    ASSUME LegalInput, NEW i
    PROVE  /\ NodalForce(i) \in Int /\ MemberForce(i) \in Int
           /\ Same(P, SumOver(Given(i), DOMAIN loads), NodalForce(i) + MemberForce(i))
           /\ SumOver(Given(i), DOMAIN loads) \in Int
<1> DEFINE D == DOMAIN loads
           A == OnNumber("FORCE_ON_NODE", i)
           B == {m \in D : loads[m].type \in MemberLoads}
           g == Given(i)
           fa == [k \in A |-> loads[k].value]
           fb == [k \in B |-> OnMember(k, i)]
<1>0. P \in Nat \ {0}
  BY PrimeType
<1>1. IsFiniteSet(D) /\ A \in SUBSET D /\ B \in SUBSET D /\ IsFiniteSet(A) /\ IsFiniteSet(B)
  <2>1. D = 1 .. Len(loads) /\ Len(loads) \in Nat
    BY LoadsType DEF LegalInput
  <2>2. IsFiniteSet(D)
    BY <2>1, FS_Interval
  <2>3. A \in SUBSET D /\ B \in SUBSET D
    BY DEF OnNumber
  <2>4. QED
    BY <2>2, <2>3, FS_Subset
<1>2. A \cap B = {}
  BY DEF OnNumber, MemberLoads
<1>3. \A m \in D : g[m] \in Int
  BY GivenType
<1>4. /\ \A m \in A : g[m] = fa[m]
      /\ \A m \in B : g[m] = fb[m]
      /\ \A m \in D \ (A \cup B) : g[m] = 0
  <2>1. \A m \in D : m \in B => ~ (loads[m].type = "FORCE_ON_NODE")
    BY DEF MemberLoads
  <2>2. QED
    BY <1>1, <2>1 DEF Given, OnNumber
<1>5. NodalForce(i) = Total(fa)
  BY DEF NodalForce
<1>6. MemberForce(i) = Total(fb)
  BY DEF MemberForce, OnMember
<1>7. DOMAIN fa = A /\ DOMAIN fb = B
  OBVIOUS
<1> HIDE DEF D, A, B, g, fa, fb
<1>8. A \cup B \in SUBSET D
  BY <1>1
<1>9. SumOver(g, D) = SumOver(g, A \cup B)
  BY <1>1, <1>3, <1>4, <1>8, SumOfSome
<1>10. SumOver(g, A \cup B) = SumOver(g, A) + SumOver(g, B)
  BY <1>1, <1>2, <1>3, <1>8, SumOfParts
<1>11. SumOver(g, A) = SumOver(fa, A) /\ SumOver(g, B) = SumOver(fb, B)
  BY <1>1, <1>3, <1>4, SumOverSame
<1>12. (\A m \in A : fa[m] \in Int) /\ (\A m \in B : fb[m] \in Int)
  BY <1>1, <1>3, <1>4
<1>13. /\ Total(fa) \in Int /\ SumOver(fa, A) \in Int /\ Same(P, Total(fa), SumOver(fa, A))
       /\ Total(fb) \in Int /\ SumOver(fb, B) \in Int /\ Same(P, Total(fb), SumOver(fb, B))
  BY <1>1, <1>7, <1>12, TotalType
<1>14. /\ Same(P, SumOver(fa, A), Total(fa)) /\ Same(P, SumOver(fb, B), Total(fb))
  BY <1>0, <1>13, SameIsEquivalence, Zenon
<1>15. Same(P, SumOver(fa, A) + SumOver(fb, B), Total(fa) + Total(fb))
  BY <1>0, <1>13, <1>14, SameAdds
<1>16. SumOver(g, D) = SumOver(fa, A) + SumOver(fb, B) /\ SumOver(g, D) \in Int
  BY <1>9, <1>10, <1>11, <1>13
<1>17. QED
  BY <1>5, <1>6, <1>13, <1>15, <1>16 DEF g, D

\* What a support's move takes off a row, with the row's loss added again.
LEMMA MoveUndone ==
    \A v, x, t \in Int : Same(P, x, t) => /\ Same(P, ((v - x) % P) + t, v)
                                          /\ (v - x) % P \in Num
<1> TAKE v, x, t \in Int
<1> HAVE Same(P, x, t)
<1>0. P \in Nat \ {0}
  BY PrimeType
<1>1. v - x \in Int /\ (v - x) + x = v
  OBVIOUS
<1>2. PICK r \in Num : r = (v - x) % P /\ Same(P, r, v - x)
  <2>1. (v - x) % P \in Num
    BY <1>0, <1>1, RemainderType DEF Num
  <2>2. QED
    BY <1>0, <1>1, <2>1, SameIsEquivalence
<1>3. r \in Int
  BY <1>0 DEF Num
<1>4. Same(P, t, x)
  BY <1>0, SameIsEquivalence, Zenon
<1>5. Same(P, r + t, (v - x) + x)
  BY <1>0, <1>1, <1>2, <1>3, <1>4, SameAdds, Zenon
<1>6. QED
  BY <1>1, <1>2, <1>5

\* What AddLoad leaves in a number is a number with the same remainder as the sum.
LEMMA AddedRemainder ==
    \A v, x \in Int : Same(P, (v + x) % P, v + x) /\ (v + x) % P \in Num
<1> TAKE v, x \in Int
<1>0. P \in Nat \ {0} /\ v + x \in Int
  BY PrimeType
<1>1. QED
  BY <1>0, RemainderType, SameIsEquivalence, Zenon DEF Num

\* The numbers of the supports.
LEMMA TakenType ==
    ASSUME LegalInput, nFreeDOF \in Nat, nTotalDOF \in Nat, NEW i,
           \A s \in HeldNumbers : GetElementInGK(s, i) \in Int, NEW k
    PROVE  /\ IsFiniteSet(HeldNumbers) /\ Taken(i, k) \in Int
           /\ \A s : StandsAt(s, k) \in Num
           /\ i < nFreeDOF =>
                  Same(P, Total([s \in HeldNumbers |-> GetElementInGK(s, i) * StandsAt(s, k)]), Taken(i, k))
<1> DEFINE f == [s \in HeldNumbers |-> GetElementInGK(s, i) * StandsAt(s, k)]
<1>1. IsFiniteSet(HeldNumbers)
  BY FS_Interval DEF HeldNumbers
<1>2. \A s : StandsAt(s, k) \in Num
  <2>1. \A s : SumOver(Values, MovedBy(s, k)) \in Int
    BY LoadsType, SumOverType DEF LegalInput
  <2>2. QED
    BY <2>1, PrimeType, RemainderType, Zenon DEF StandsAt, Num
<1>3. \A x \in Num : x \in Int
  BY PrimeType DEF Num
<1>4. DOMAIN f = HeldNumbers /\ \A s \in HeldNumbers : f[s] \in Int
  <2>1. \A s \in HeldNumbers : GetElementInGK(s, i) \in Int /\ StandsAt(s, k) \in Int
    BY <1>2, <1>3
  <2>2. \A a, b \in Int : a * b \in Int
    OBVIOUS
  <2>3. QED
    BY <2>1, <2>2
<1>5. i < nFreeDOF => Taken(i, k) = SumOver(f, HeldNumbers)
  BY DEF Taken
<1>6. ~ (i < nFreeDOF) => Taken(i, k) = 0
  BY DEF Taken
<1> HIDE DEF f
<1>7. SumOver(f, HeldNumbers) \in Int /\ Same(P, Total(f), SumOver(f, HeldNumbers))
  BY <1>1, <1>4, TotalType
<1>8. QED
  BY <1>1, <1>2, <1>5, <1>6, <1>7 DEF f

\* Before the only load that moves a support, none has moved.
LEMMA NothingTakenBefore ==
    ASSUME LegalInput, OneMove, NEW m \in DOMAIN loads, loads[m].type = "SUPPORT_MOVE",
           nFreeDOF \in Nat, nTotalDOF \in Nat, NEW i,
           \A s \in HeldNumbers : GetElementInGK(s, i) \in Int
    PROVE  Taken(i, m - 1) = 0
<1>1. m \in Nat /\ DOMAIN loads = 1 .. Len(loads) /\ Len(loads) \in Nat
  BY LoadsType DEF LegalInput
<1>2. \A s : MovedBy(s, m - 1) = {}
  <2>1. ASSUME NEW s, NEW x \in MovedBy(s, m - 1) PROVE FALSE
    <3>1. x \in DOMAIN loads /\ loads[x].type = "SUPPORT_MOVE" /\ x <= m - 1
      BY <2>1 DEF MovedBy, OnNumber
    <3>2. x = m
      BY <3>1 DEF OneMove
    <3>3. QED
      BY <1>1, <3>1, <3>2
  <2>2. QED
    BY <2>1
<1>3. \A s : StandsAt(s, m - 1) = 0
  <2>1. \A s : SumOver(Values, MovedBy(s, m - 1)) = 0
    BY <1>2, SumOverNothing
  <2>2. 0 % P = 0
    BY PrimeType, SmallRemainders
  <2>3. QED
    BY <2>1, <2>2, Zenon DEF StandsAt
<1> DEFINE f == [s \in HeldNumbers |-> GetElementInGK(s, i) * StandsAt(s, m - 1)]
<1>4. \A s \in HeldNumbers : f[s] = 0
  <2>1. \A s \in HeldNumbers : f[s] = GetElementInGK(s, i) * 0
    BY <1>3
  <2>2. \A a \in Int : a * 0 = 0
    OBVIOUS
  <2> HIDE DEF f
  <2>3. QED
    BY <2>1, <2>2
<1>5. IsFiniteSet(HeldNumbers)
  BY TakenType, Zenon
<1>6. Taken(i, m - 1) = IF i < nFreeDOF THEN SumOver(f, HeldNumbers) ELSE 0
  BY DEF Taken
<1> HIDE DEF f
<1>7. SumOver(f, HeldNumbers) = 0
  <2>1. {} \in SUBSET HeldNumbers /\ \A s \in HeldNumbers \ {} : f[s] = 0
    BY <1>4
  <2>2. SumOver(f, HeldNumbers) = SumOver(f, {})
    BY <1>5, <2>1, SumOfSome
  <2>3. QED
    BY <2>2, SumOverNothing
<1>8. QED
  BY <1>6, <1>7

\* A load that moves a support takes what the support does to it off every row.
LEMMA MoveStep ==
    ASSUME LegalInput, OneMove, nFreeDOF \in Nat, nTotalDOF \in Nat, nFreeDOF <= nTotalDOF,
           \A i \in 0 .. nTotalDOF - 1 : \A s \in HeldNumbers : GetElementInGK(s, i) \in Int,
           NEW m \in DOMAIN loads, loads[m].type = "SUPPORT_MOVE", NEW v \in Displacements
    PROVE  LET u == LoadVectorModify(v, [s \in 0 .. nTotalDOF - 1 |-> StandsAt(s, m)])
           IN  /\ u \in Displacements
               /\ \A i \in 0 .. nTotalDOF - 1 :
                      Same(P, u[i] + Taken(i, m), v[i] + Given(i)[m] + Taken(i, m - 1))
<1> DEFINE N == 0 .. nTotalDOF - 1
           d == [s \in N |-> StandsAt(s, m)]
           u == LoadVectorModify(v, d)
           t(i) == Total([s \in HeldNumbers |-> GetElementInGK(s, i) * d[s]])
<1>0. P \in Nat \ {0} /\ 0 \in Int
  BY PrimeType
<1>1. DOMAIN v = N /\ \A i \in N : v[i] \in Num /\ v[i] \in Int
  BY PrimeType DEF Displacements, Num
<1>2. u = [i \in N |-> IF i >= nFreeDOF THEN v[i] ELSE (v[i] - t(i)) % P]
  BY <1>1 DEF LoadVectorModify, HeldNumbers
<1>3. \A i \in N : Given(i)[m] = 0 /\ Taken(i, m - 1) = 0 /\ Taken(i, m) \in Int
  <2>1. ASSUME NEW i \in N PROVE Given(i)[m] = 0
    BY DEF Given, MemberLoads
  <2>2. ASSUME NEW i \in N PROVE Taken(i, m - 1) = 0 /\ Taken(i, m) \in Int
    BY <2>2, NothingTakenBefore, TakenType, Zenon
  <2>3. QED
    BY <2>1, <2>2
<1>4. ASSUME NEW i \in N, i < nFreeDOF
      PROVE  t(i) \in Int /\ Same(P, t(i), Taken(i, m))
  <2> DEFINE f == [s \in HeldNumbers |-> GetElementInGK(s, i) * StandsAt(s, m)]
  <2>1. HeldNumbers \subseteq N
    BY DEF HeldNumbers
  <2>2. \A s \in HeldNumbers : d[s] = StandsAt(s, m)
    BY <2>1
  <2> HIDE DEF d
  <2>3. [s \in HeldNumbers |-> GetElementInGK(s, i) * d[s]] = f
    BY <2>2
  <2>4. Same(P, Total(f), Taken(i, m))
    BY <1>4, TakenType, Zenon
  <2>5. Total(f) \in Int
    <3>1. IsFiniteSet(HeldNumbers) /\ \A s \in HeldNumbers : StandsAt(s, m) \in Num /\ GetElementInGK(s, i) \in Int
      BY TakenType, Zenon
    <3>2. \A a, b \in Int : a * b \in Int
      OBVIOUS
    <3>3. \A s \in HeldNumbers : f[s] \in Int
      BY <3>1, <3>2, PrimeType DEF Num
    <3>4. DOMAIN f = HeldNumbers
      OBVIOUS
    <3> HIDE DEF f
    <3>5. QED
      BY <3>1, <3>3, <3>4, TotalType
  <2>6. QED
    BY <2>3, <2>4, <2>5
<1> HIDE DEF t, d, u, N
<1>5. ASSUME NEW i \in N
      PROVE  u[i] \in Num /\ Same(P, u[i] + Taken(i, m), v[i] + Given(i)[m] + Taken(i, m - 1))
  <2>1. v[i] + Given(i)[m] + Taken(i, m - 1) = v[i]
    BY <1>1, <1>3
  <2>2. CASE i < nFreeDOF
    <3>1. u[i] = (v[i] - t(i)) % P
      <4>1. ~ (i >= nFreeDOF)
        BY <2>2 DEF N
      <4>2. QED
        BY <1>2, <4>1, Zenon
    <3>2. QED
      BY <1>1, <1>3, <1>4, <2>1, <2>2, <3>1, MoveUndone, Zenon
  <2>3. CASE i >= nFreeDOF
    <3>1. u[i] = v[i]
      BY <1>2, <2>3, Zenon
    <3>2. Taken(i, m) = 0
      BY <2>3 DEF Taken, N
    <3>3. u[i] + Taken(i, m) = v[i]
      BY <1>1, <3>1, <3>2
    <3>4. QED
      BY <1>0, <1>1, <2>1, <3>1, <3>3, SameIsEquivalence
  <2>4. QED
    BY <2>2, <2>3 DEF N
<1>6. u \in Displacements
  BY <1>2, <1>5 DEF Displacements, N
<1>7. QED
  BY <1>5, <1>6 DEF u, d, N

\* Any other load does not move a support.
LEMMA TakenStays ==
    ASSUME LegalInput, NEW m \in DOMAIN loads, loads[m].type # "SUPPORT_MOVE", NEW i
    PROVE  Taken(i, m) = Taken(i, m - 1)
<1>1. m \in Nat /\ DOMAIN loads = 1 .. Len(loads) /\ Len(loads) \in Nat
  BY LoadsType DEF LegalInput
<1>2. \A s : MovedBy(s, m) = MovedBy(s, m - 1)
  <2>1. ASSUME NEW s, NEW x \in OnNumber("SUPPORT_MOVE", s) PROVE x <= m <=> x <= m - 1
    <3>1. x \in DOMAIN loads /\ x # m
      BY <2>1 DEF OnNumber
    <3>2. x \in Nat
      BY <1>1, <3>1
    <3>3. QED
      BY <1>1, <3>1, <3>2
  <2>2. QED
    BY <2>1 DEF MovedBy
<1>3. \A s : StandsAt(s, m) = StandsAt(s, m - 1)
  BY <1>2, Zenon DEF StandsAt
<1>4. QED
  BY <1>3, Zenon DEF Taken

\* A force on a node is added to its row.
LEMMA NodeStep ==
    ASSUME LegalInput, iaDOFIndex = DOFIndexes(structure), nTotalDOF = nTotalDOFs(structure),
           nTotalDOF \in Nat,
           NEW m \in DOMAIN loads, loads[m].type = "FORCE_ON_NODE", NEW v \in Displacements
    PROVE  LET u == [v EXCEPT ![iaDOFIndex[loads[m].at]] = (@ + loads[m].value) % P]
           IN  /\ u \in Displacements
               /\ \A i \in 0 .. nTotalDOF - 1 : Same(P, u[i], v[i] + Given(i)[m])
<1> DEFINE N == 0 .. nTotalDOF - 1
           ix == iaDOFIndex[loads[m].at]
           x == loads[m].value
           u == [v EXCEPT ![ix] = (@ + x) % P]
<1>0. P \in Nat \ {0} /\ 0 \in Int
  BY PrimeType
<1>1. x \in Int /\ loads[m].at \in DOFs(structure)
  BY DEF LegalInput, LegalLoads, MemberLoads
<1>2. ix \in N
  BY <1>1, DOFNumbers DEF LegalInput
<1>3. v = [i \in N |-> v[i]] /\ \A i \in N : v[i] \in Num /\ v[i] \in Int
  BY PrimeType DEF Displacements, Num
<1>4. \A i \in N : Given(i)[m] = IF i = ix THEN x ELSE 0
  BY DEF Given, MemberLoads
<1> HIDE DEF ix, x, N
<1>5. u = [i \in N |-> IF i = ix THEN (v[i] + x) % P ELSE v[i]]
  BY <1>2, <1>3
<1> HIDE DEF u
<1>6. ASSUME NEW i \in N PROVE u[i] \in Num /\ Same(P, u[i], v[i] + Given(i)[m])
  <2>1. CASE i = ix
    <3>1. u[i] = (v[i] + x) % P /\ Given(i)[m] = x
      BY <1>4, <1>5, <2>1, Zenon
    <3>2. QED
      BY <1>1, <1>3, <3>1, AddedRemainder, Zenon
  <2>2. CASE i # ix
    <3>1. u[i] = v[i] /\ Given(i)[m] = 0
      BY <1>4, <1>5, <2>2, Zenon
    <3>2. v[i] + 0 = v[i]
      BY <1>3
    <3>3. QED
      BY <1>0, <1>3, <3>1, <3>2, SameIsEquivalence
  <2>3. QED
    BY <2>1, <2>2
<1>7. u \in Displacements
  BY <1>5, <1>6 DEF Displacements, N
<1>8. QED
  BY <1>6, <1>7 DEF u, ix, x, N

\* A load on a member is added to the rows of its ends.
LEMMA MemberStep ==
    ASSUME LegalInput, nTotalDOF \in Nat,
           NEW m \in DOMAIN loads, loads[m].type \in MemberLoads, NEW v \in Displacements
    PROVE  LET u == [i \in DOMAIN v |-> (v[i] + OnMember(m, i)) % P]
           IN  /\ u \in Displacements
               /\ \A i \in 0 .. nTotalDOF - 1 : Same(P, u[i], v[i] + Given(i)[m])
<1> DEFINE N == 0 .. nTotalDOF - 1
           u == [i \in DOMAIN v |-> (v[i] + OnMember(m, i)) % P]
<1>1. DOMAIN v = N /\ \A i \in N : v[i] \in Int
  BY PrimeType DEF Displacements, Num
<1>2. \A i \in N : OnMember(m, i) \in Int /\ Given(i)[m] = OnMember(m, i)
  <2>1. loads[m].type # "FORCE_ON_NODE"
    BY DEF MemberLoads
  <2>2. QED
    BY <2>1, OnMemberType DEF Given
<1>3. u = [i \in N |-> (v[i] + OnMember(m, i)) % P]
  BY <1>1
<1> HIDE DEF u, N
<1>4. ASSUME NEW i \in N PROVE u[i] \in Num /\ Same(P, u[i], v[i] + Given(i)[m])
  BY <1>1, <1>2, <1>3, AddedRemainder, Zenon
<1>5. u \in Displacements
  BY <1>3, <1>4 DEF Displacements, N
<1>6. QED
  BY <1>4, <1>5, Zenon DEF u, N

\* One load more, whatever it is.
LEMMA LoadStep ==
    ASSUME LegalInput, OneMove, iaDOFIndex = DOFIndexes(structure), nTotalDOF = nTotalDOFs(structure),
           nFreeDOF \in Nat, nTotalDOF \in Nat, nFreeDOF <= nTotalDOF,
           \A i \in 0 .. nTotalDOF - 1 : \A s \in HeldNumbers : GetElementInGK(s, i) \in Int,
           NEW m \in DOMAIN loads, NEW v \in Displacements, NEW d, NEW g,
           AddLoad(loads[m], [vect |-> v, disp |-> d, force |-> g]).disp
               = [s \in 0 .. nTotalDOF - 1 |-> StandsAt(s, m)]
    PROVE  LET u == AddLoad(loads[m], [vect |-> v, disp |-> d, force |-> g]).vect
           IN  /\ u \in Displacements
               /\ \A i \in 0 .. nTotalDOF - 1 :
                      Same(P, u[i] + Taken(i, m), v[i] + Given(i)[m] + Taken(i, m - 1))
<1> DEFINE N == 0 .. nTotalDOF - 1
           load == loads[m]
           w == [vect |-> v, disp |-> d, force |-> g]
           u == AddLoad(load, w).vect
<1>0. P \in Nat \ {0}
  BY PrimeType
<1>1. \/ load.type = "SUPPORT_MOVE" \/ load.type = "FORCE_ON_NODE" \/ load.type \in MemberLoads
  BY DEF LegalInput, LegalLoads
<1>2. w.vect = v /\ w.disp = d /\ w.force = g
  OBVIOUS
<1>3. \A i \in N : v[i] \in Int
  BY PrimeType DEF Displacements, Num
<1>4. \A i \in N : Given(i)[m] \in Int /\ Taken(i, m) \in Int /\ Taken(i, m - 1) \in Int
  BY GivenType, TakenType, Zenon
<1>5. CASE load.type = "SUPPORT_MOVE"
  <2> DEFINE c == [d EXCEPT ![iaDOFIndex[load.at]] = (@ + load.value) % P]
  <2>1. AddLoad(load, w) = [vect |-> LoadVectorModify(v, c), disp |-> c, force |-> g]
    BY <1>2, <1>5, Zenon DEF AddLoad
  <2> HIDE DEF c
  <2>2. AddLoad(load, w).disp = c /\ u = LoadVectorModify(v, c)
    BY <2>1
  <2>3. c = [s \in N |-> StandsAt(s, m)]
    BY <2>2
  <2>4. QED
    BY <1>5, <2>2, <2>3, MoveStep
<1>6. ASSUME load.type # "SUPPORT_MOVE", u \in Displacements,
             \A i \in N : Same(P, u[i], v[i] + Given(i)[m])
      PROVE  \A i \in N : Same(P, u[i] + Taken(i, m), v[i] + Given(i)[m] + Taken(i, m - 1))
  <2> HIDE DEF u, N
  <2> TAKE i \in N
  <2>1. Taken(i, m) = Taken(i, m - 1) /\ Taken(i, m) \in Int
    BY <1>4, <1>6, TakenStays
  <2>2. u[i] \in Int
    BY <1>6, PrimeType DEF Displacements, Num, N
  <2>3. v[i] + Given(i)[m] \in Int
    BY <1>3, <1>4
  <2>4. Same(P, Taken(i, m), Taken(i, m))
    BY <1>0, <2>1, SameIsEquivalence, Zenon
  <2>5. Same(P, u[i] + Taken(i, m), (v[i] + Given(i)[m]) + Taken(i, m))
    BY <1>0, <1>6, <2>1, <2>2, <2>3, <2>4, SameAdds, Zenon
  <2>6. QED
    BY <2>1, <2>5
<1>7. CASE load.type = "FORCE_ON_NODE"
  <2> DEFINE e == [v EXCEPT ![iaDOFIndex[load.at]] = (@ + load.value) % P]
  <2>1. AddLoad(load, w) = [vect |-> e, disp |-> d, force |-> g]
    <3>1. AddLoad(load, w) = [w EXCEPT !.vect[iaDOFIndex[load.at]] = (@ + load.value) % P]
      BY <1>7 DEF AddLoad
    <3>2. QED
      BY <3>1
  <2> HIDE DEF e
  <2>2. u = e
    BY <2>1
  <2>3. e \in Displacements /\ \A i \in N : Same(P, e[i], v[i] + Given(i)[m])
    BY <1>7, NodeStep DEF e
  <2> HIDE DEF u
  <2>4. /\ u \in Displacements
        /\ \A i \in N : Same(P, u[i] + Taken(i, m), v[i] + Given(i)[m] + Taken(i, m - 1))
    <3> HIDE DEF N
    <3>1. u \in Displacements /\ \A i \in N : Same(P, u[i], v[i] + Given(i)[m])
      BY <2>2, <2>3, Zenon
    <3>2. QED
      BY <1>6, <1>7, <3>1
  <2>5. QED
    BY <2>4 DEF u
<1>8. CASE load.type \in MemberLoads
  <2> DEFINE e == [i \in DOMAIN v |-> (v[i] + OnMember(m, i)) % P]
  <2>1. load.type # "SUPPORT_MOVE" /\ load.type # "FORCE_ON_NODE"
    BY <1>8 DEF MemberLoads
  <2>2. u = e
    <3>1. PICK h : AddLoad(load, w) = [w EXCEPT !.vect = [i \in DOMAIN w.vect |->
                           (w.vect[i] + Total([k \in {k \in 1 .. 6 : pElemDOF[load.elem][k] = i} |->
                                                  ClampForces(load)[k]])) % P],
                       !.force[load.elem] = h]
      BY <2>1, Zenon DEF AddLoad
    <3>2. u = [i \in DOMAIN w.vect |->
                           (w.vect[i] + Total([k \in {k \in 1 .. 6 : pElemDOF[load.elem][k] = i} |->
                                                  ClampForces(load)[k]])) % P]
      BY <3>1, Zenon
    <3>3. QED
      BY <1>2, <3>2 DEF OnMember
  <2> HIDE DEF u
  <2>3. e \in Displacements /\ \A i \in N : Same(P, e[i], v[i] + Given(i)[m])
    BY <1>8, MemberStep, Zenon
  <2> HIDE DEF e
  <2>4. /\ u \in Displacements
        /\ \A i \in N : Same(P, u[i] + Taken(i, m), v[i] + Given(i)[m] + Taken(i, m - 1))
    <3> HIDE DEF N
    <3>1. u \in Displacements /\ \A i \in N : Same(P, u[i], v[i] + Given(i)[m])
      BY <2>2, <2>3, Zenon
    <3>2. QED
      BY <1>6, <2>1, <3>1
  <2>5. QED
    BY <2>4 DEF u
<1>9. QED
  BY <1>1, <1>5, <1>7, <1>8

\* A sum over the first numbers has the last one's term.
LEMMA SumUpTo ==
    ASSUME NEW g, NEW m \in Nat, m # 0, \A x \in 1 .. m : g[x] \in Int
    PROVE  /\ SumOver(g, 1 .. m - 1) \in Int
           /\ SumOver(g, 1 .. m) = g[m] + SumOver(g, 1 .. m - 1)
<1> DEFINE S == 1 .. m
           T == 1 .. m - 1
<1>1. IsFiniteSet(S) /\ IsFiniteSet(T)
  BY FS_Interval
<1>2. m \in S /\ S \ {m} = T /\ T \subseteq S
  OBVIOUS
<1>3. \A x \in S : g[x] \in Int
  OBVIOUS
<1> HIDE DEF S, T
<1>4. SumOver(g, S) = g[m] + SumOver(g, S \ {m})
  <2>1. m \in S /\ IsFiniteSet(S) /\ \A x \in S : g[x] \in Int
    BY <1>1, <1>2, <1>3
  <2>2. QED
    BY <2>1, SumOverMember, ZenonT(30)
<1>5. SumOver(g, T) \in Int
  BY <1>1, <1>2, <1>3, SumOverType, Zenon
<1>6. QED
  BY <1>2, <1>4, <1>5, Zenon DEF S, T

\* So each row holds what the loads so far give it, less what the supports take.
LEMMA VectAfterLoads ==
    ASSUME LegalInput, OneMove, iaDOFIndex = DOFIndexes(structure), nTotalDOF = nTotalDOFs(structure),
           nFreeDOF \in Nat, nTotalDOF \in Nat, nFreeDOF <= nTotalDOF,
           \A i \in 0 .. nTotalDOF - 1 : \A s \in HeldNumbers : GetElementInGK(s, i) \in Int,
           pDisp = VectorZeroize(0 .. nTotalDOF - 1), pLoadVect = VectorZeroize(0 .. nTotalDOF - 1),
           NEW f, AfterLoads(f, Len(loads)), NEW k \in 0 .. Len(loads)
    PROVE  /\ f[k].vect \in Displacements
           /\ \A i \in 0 .. nTotalDOF - 1 : Same(P, f[k].vect[i] + Taken(i, k), SumOver(Given(i), 1 .. k))
<1> DEFINE N == 0 .. nTotalDOF - 1
           Good(m) == /\ f[m].vect \in Displacements
                      /\ \A i \in N : Same(P, f[m].vect[i] + Taken(i, m), SumOver(Given(i), 1 .. m))
           B == {m \in 0 .. Len(loads) : ~ Good(m)}
<1>0. P \in Nat \ {0} /\ 0 \in Int /\ 0 \in Num
  BY PrimeType DEF Num
<1>1. LegalLoads(structure, loads) /\ Legal(structure)
  BY DEF LegalInput
<1>2. Len(loads) \in Nat /\ DOMAIN loads = 1 .. Len(loads)
  BY <1>1, LoadsType
<1>3. \A m \in 0 .. Len(loads) :
          /\ f[m] = [vect |-> f[m].vect, disp |-> f[m].disp, force |-> f[m].force]
          /\ f[m].disp = [i \in N |-> StandsAt(i, m)]
  BY <1>0, DispAfterLoads DEF StandsAt
<1>4. ASSUME B # {} PROVE FALSE
  <2>1. PICK m \in B : \A j \in B : ~ (<<j, m>> \in OpToRel(<, Nat))
    <3>1. B \subseteq Nat
      BY <1>2
    <3> HIDE DEF B
    <3>2. QED
      BY <1>4, <3>1, SmallestNumber, Zenon
  <2>2. m # 0
    <3>1. f[0] = [vect |-> pLoadVect, disp |-> pDisp, force |-> daEndInterForce]
      BY <1>2 DEF AfterLoads
    <3>2. f[0].vect = [i \in N |-> 0]
      BY <3>1 DEF VectorZeroize
    <3>3. \A i \in N : Taken(i, 0) = 0
      <4>1. ASSUME NEW s, NEW x \in MovedBy(s, 0) PROVE FALSE
        BY <1>2, <4>1 DEF MovedBy, OnNumber
      <4>2. \A s : StandsAt(s, 0) = 0
        <5>1. \A s : SumOver(Values, MovedBy(s, 0)) = 0
          BY <4>1, SumOverNothing, Zenon
        <5>2. 0 % P = 0
          BY PrimeType, SmallRemainders
        <5>3. QED
          BY <5>1, <5>2, Zenon DEF StandsAt
      <4>3. ASSUME NEW i \in N PROVE Taken(i, 0) = 0
        <5> DEFINE h == [s \in HeldNumbers |-> GetElementInGK(s, i) * StandsAt(s, 0)]
        <5>1. \A s \in HeldNumbers : h[s] = 0
          <6>1. \A s \in HeldNumbers : h[s] = GetElementInGK(s, i) * 0
            BY <4>2
          <6>2. \A a \in Int : a * 0 = 0
            OBVIOUS
          <6> HIDE DEF h
          <6>3. QED
            BY <6>1, <6>2
        <5>2. IsFiniteSet(HeldNumbers)
          BY TakenType, Zenon
        <5>3. Taken(i, 0) = IF i < nFreeDOF THEN SumOver(h, HeldNumbers) ELSE 0
          BY DEF Taken
        <5> HIDE DEF h
        <5>4. SumOver(h, HeldNumbers) = 0
          <6>1. {} \in SUBSET HeldNumbers /\ \A s \in HeldNumbers \ {} : h[s] = 0
            BY <5>1
          <6>2. SumOver(h, HeldNumbers) = SumOver(h, {})
            BY <5>2, <6>1, SumOfSome
          <6>3. QED
            BY <6>2, SumOverNothing
        <5>5. QED
          BY <5>3, <5>4
      <4>4. QED
        BY <4>3
    <3>4. \A i \in N : SumOver(Given(i), 1 .. 0) = 0
      <4>1. 1 .. 0 = {}
        OBVIOUS
      <4>2. QED
        BY <4>1, SumOverNothing
    <3>5. f[0].vect \in Displacements
      BY <1>0, <3>2 DEF Displacements
    <3>6. \A i \in N : Same(P, f[0].vect[i] + Taken(i, 0), SumOver(Given(i), 1 .. 0))
      <4>1. \A i \in N : f[0].vect[i] + Taken(i, 0) = 0
        BY <3>2, <3>3
      <4>2. QED
        BY <1>0, <3>4, <4>1, SameIsEquivalence, Zenon
    <3>7. Good(0)
      BY <3>5, <3>6
    <3> HIDE DEF Good
    <3>8. QED
      BY <3>7
  <2>3. m \in DOMAIN loads /\ m - 1 \in 0 .. Len(loads) /\ m \in 0 .. Len(loads)
        /\ m \in Nat /\ m - 1 \in Nat /\ m - 1 < m
    BY <1>2, <2>2
  <2>4. Good(m - 1)
    <3>1. m - 1 \notin B
      BY <2>1, <2>3, Zenon DEF OpToRel
    <3> HIDE DEF Good
    <3>2. QED
      BY <2>3, <3>1
  <2> DEFINE v == f[m - 1].vect
             d == f[m - 1].disp
             g == f[m - 1].force
             u == f[m].vect
  <2>5. f[m] = AddLoad(loads[m], [vect |-> v, disp |-> d, force |-> g])
    <3>1. f[m] = AddLoad(loads[m], f[m - 1])
      BY <2>2, <2>3, Zenon DEF AfterLoads
    <3>2. f[m - 1] = [vect |-> v, disp |-> d, force |-> g]
      BY <1>3, <2>3, Zenon
    <3>3. QED
      BY <3>1, <3>2, Zenon
  <2>6. f[m].disp = [i \in N |-> StandsAt(i, m)]
    BY <1>3, <2>3, Zenon
  <2>7. v \in Displacements /\ \A i \in N : Same(P, v[i] + Taken(i, m - 1), SumOver(Given(i), 1 .. m - 1))
    BY <2>4
  <2>8. AddLoad(loads[m], [vect |-> v, disp |-> d, force |-> g]).disp = [i \in N |-> StandsAt(i, m)]
    BY <2>5, <2>6, Zenon
  <2>9. AddLoad(loads[m], [vect |-> v, disp |-> d, force |-> g]).vect = u
    BY <2>5, Zenon
  <2> HIDE DEF v, d, g, u
  <2>10. /\ u \in Displacements
         /\ \A i \in N : Same(P, u[i] + Taken(i, m), v[i] + Given(i)[m] + Taken(i, m - 1))
    BY <2>3, <2>7, <2>8, <2>9, LoadStep, Zenon
  <2>11. ASSUME NEW i \in N PROVE Same(P, u[i] + Taken(i, m), SumOver(Given(i), 1 .. m))
    <3>1. \A x \in DOMAIN loads : Given(i)[x] \in Int
      BY GivenType
    <3>2. 1 .. m \subseteq DOMAIN loads
      BY <1>2, <2>3
    <3>3. \A x \in 1 .. m : Given(i)[x] \in Int
      BY <3>1, <3>2
    <3>6. /\ SumOver(Given(i), 1 .. m - 1) \in Int
          /\ SumOver(Given(i), 1 .. m) = Given(i)[m] + SumOver(Given(i), 1 .. m - 1)
      BY <2>2, <2>3, <3>3, SumUpTo, Zenon
    <3>7. SumOver(Given(i), 1 .. m) = Given(i)[m] + SumOver(Given(i), 1 .. m - 1)
      BY <3>6
    <3>8. v[i] \in Int /\ u[i] \in Int
      <4>1. \A x \in Displacements : x[i] \in Num
        BY DEF Displacements
      <4>2. v \in Displacements /\ u \in Displacements /\ \A x \in Num : x \in Int
        BY <2>7, <2>10, PrimeType DEF Num
      <4>3. QED
        BY <4>1, <4>2
    <3>9. Given(i)[m] \in Int /\ Taken(i, m) \in Int /\ Taken(i, m - 1) \in Int
      BY <2>3, <3>1, TakenType, Zenon
    <3>10. Same(P, Given(i)[m], Given(i)[m])
      BY <1>0, <3>9, SameIsEquivalence, Zenon
    <3>11. Same(P, Given(i)[m] + (v[i] + Taken(i, m - 1)), Given(i)[m] + SumOver(Given(i), 1 .. m - 1))
      <4>1. v[i] + Taken(i, m - 1) \in Int
        BY <3>8, <3>9
      <4>2. QED
        BY <1>0, <2>7, <3>6, <3>9, <3>10, <4>1, SameAdds, Zenon
    <3>12. /\ Given(i)[m] + (v[i] + Taken(i, m - 1)) = v[i] + Given(i)[m] + Taken(i, m - 1)
           /\ v[i] + Given(i)[m] + Taken(i, m - 1) \in Int
           /\ u[i] + Taken(i, m) \in Int /\ Given(i)[m] + SumOver(Given(i), 1 .. m - 1) \in Int
      <4>1. /\ \A x, y, z \in Int : x + (y + z) = y + x + z /\ y + x + z \in Int
            /\ \A x, y \in Int : x + y \in Int
        OBVIOUS
      <4>2. PICK a, b, c, e, s : /\ a = Given(i)[m] /\ b = v[i] /\ c = Taken(i, m - 1)
                                 /\ e = u[i] + Taken(i, m) /\ s = SumOver(Given(i), 1 .. m - 1)
        OBVIOUS
      <4>3. a \in Int /\ b \in Int /\ c \in Int /\ s \in Int /\ e \in Int
        BY <3>6, <3>8, <3>9, <4>1, <4>2, Zenon
      <4>4. a + (b + c) = b + a + c /\ b + a + c \in Int /\ e \in Int /\ a + s \in Int
        BY <4>3
      <4>5. QED
        BY <4>2, <4>4, Zenon
    <3>13. Same(P, u[i] + Taken(i, m), v[i] + Given(i)[m] + Taken(i, m - 1))
      BY <2>10
    <3>14. Same(P, v[i] + Given(i)[m] + Taken(i, m - 1), Given(i)[m] + SumOver(Given(i), 1 .. m - 1))
      BY <3>11, <3>12, Zenon
    <3>15. PICK x, y, z : /\ x = u[i] + Taken(i, m) /\ y = v[i] + Given(i)[m] + Taken(i, m - 1)
                          /\ z = Given(i)[m] + SumOver(Given(i), 1 .. m - 1)
      OBVIOUS
    <3>16. x \in Int /\ y \in Int /\ z \in Int /\ Same(P, x, y) /\ Same(P, y, z)
      BY <3>12, <3>13, <3>14, <3>15, Zenon
    <3>17. Same(P, x, z)
      BY <3>16, SameChains
    <3>18. QED
      BY <3>7, <3>15, <3>17, Zenon
  <2>12. Good(m)
    BY <2>10, <2>11 DEF u
  <2> HIDE DEF Good
  <2>13. QED
    BY <2>12
<1>5. Good(k)
  <2> HIDE DEF Good
  <2>1. QED
    BY <1>4
<1>6. QED
  BY <1>5

-----------------------------------------------------------------------------
(* The equations that are solved are those of the structure. *)

\* There are finitely many elements.
LEMMA ElementsFinite ==
    ASSUME LegalInput
    PROVE  IsFiniteSet(Elements)
<1>1. structure.elem \in Seq(Range(structure.elem))
  BY DEF LegalInput, Legal
<1>2. Elements = 1 .. Len(structure.elem) /\ Len(structure.elem) \in Int /\ 1 \in Int
  BY <1>1 DEF Elements
<1>3. QED
  BY <1>2, FS_Interval

\* What is added up at any address is a number.
LEMMA AssembledType ==
    ASSUME LegalInput, Connected, NEW k
    PROVE  AssembledAt(k) \in Num
<1> DEFINE there(e) == {ab \in StoredEntries(e) :
                            Address(pElemDOF[e][ab[1]], pElemDOF[e][ab[2]]) = k}
           given(e) == Total([ab \in there(e) |-> GlobalStiff(e)[ab[1]][ab[2]]])
           g == [e \in Elements |-> given(e)]
<1>1. ASSUME NEW e \in Elements PROVE given(e) \in Int
  <2> DEFINE D == Places(e)
             S == there(e)
             f == [ab \in S |-> GlobalStiff(e)[ab[1]][ab[2]]]
  <2>1. D = 1 .. Len(pElemDOF[e]) /\ IsFiniteSet(D)
    BY ElementPlaces, PlacesType
  <2>2. S \in SUBSET (D \X D)
    BY <2>1 DEF StoredEntries
  <2>3. IsFiniteSet(S)
    <3>1. IsFiniteSet(D \X D)
      BY <2>1, FS_Product
    <3>2. QED
      BY <2>2, <3>1, FS_Subset
  <2>4. \A a, b \in D : GlobalStiff(e)[a][b] \in Int
    BY ElementStiffness DEF Matrices
  <2> HIDE DEF S, D
  <2>5. \A ab \in S : ab[1] \in D /\ ab[2] \in D
    BY <2>2
  <2>6. DOMAIN f = S /\ \A ab \in S : f[ab] \in Int
    BY <2>4, <2>5
  <2>7. given(e) = Total(f)
    BY DEF S
  <2> HIDE DEF f, given
  <2>8. QED
    BY <2>3, <2>6, <2>7, TotalType
<1>2. AssembledAt(k) = Total(g)
  BY Zenon DEF AssembledAt
<1> HIDE DEF given
<1>3. DOMAIN g = Elements /\ \A e \in Elements : g[e] \in Int
  BY <1>1
<1> HIDE DEF g
<1>4. Total(g) = SumOver(g, Elements) % P /\ SumOver(g, Elements) \in Int
  BY <1>3, ElementsFinite, TotalType
<1>5. QED
  BY <1>2, <1>4, PrimeType, RemainderType, Zenon DEF Num

\* The matrix as it has been assembled is the stiffness, in any row and column.
LEMMA StiffnessIsStored ==
    ASSUME LegalInput, Connected, Profiled,
           pGK = [k \in 0 .. pDiag[nTotalDOF - 1] |-> AssembledAt(k)],
           NEW i \in 0 .. nTotalDOF - 1, NEW j \in 0 .. nTotalDOF - 1
    PROVE  /\ GetElementInGK(i, j) = Stiffness(i, j)
           /\ GetElementInGK(j, i) = Stiffness(i, j)
           /\ Stiffness(i, j) \in Int
<1>1. [e \in Elements |-> Block(e, i, j)] = [e \in Elements |-> Block(e, j, i)]
  BY BlockIsSymmetric
<1>2. Stiffness(i, j) = Total([e \in Elements |-> Block(e, i, j)])
  BY StiffnessIsBlocks
<1>3. i \in Int /\ j \in Int
  OBVIOUS
<1>4. GetElementInGK(i, j) = Stiffness(i, j) /\ GetElementInGK(j, i) = Stiffness(i, j)
  <2>1. CASE j <= i
    BY <1>2, <2>1, LowerTriangle
  <2>2. CASE i <= j
    <3>1. /\ GetElementInGK(i, j) = Total([e \in Elements |-> Block(e, j, i)])
          /\ GetElementInGK(j, i) = Total([e \in Elements |-> Block(e, j, i)])
      BY <2>2, LowerTriangle
    <3>2. QED
      BY <1>1, <1>2, <3>1, Zenon
  <2>3. QED
    BY <1>3, <2>1, <2>2
<1>5. Stiffness(i, j) \in Int
  <2> DEFINE g == [e \in Elements |-> Block(e, i, j)]
  <2>1. ASSUME NEW e \in Elements PROVE Block(e, i, j) \in Int
    <3> DEFINE S == PlacesOf(e, i) \X PlacesOf(e, j)
               f == [ab \in S |-> GlobalStiff(e)[ab[1]][ab[2]]]
    <3>1. /\ PlacesOf(e, i) \in SUBSET Places(e) /\ PlacesOf(e, j) \in SUBSET Places(e)
          /\ IsFiniteSet(PlacesOf(e, i)) /\ IsFiniteSet(PlacesOf(e, j))
      BY PlacesOfType
    <3>2. IsFiniteSet(S)
      BY <3>1, FS_Product
    <3>3. \A a, b \in Places(e) : GlobalStiff(e)[a][b] \in Int
      BY ElementStiffness DEF Matrices
    <3>4. \A ab \in S : ab[1] \in Places(e) /\ ab[2] \in Places(e)
      BY <3>1
    <3> HIDE DEF S
    <3>5. DOMAIN f = S /\ \A ab \in S : f[ab] \in Int
      BY <3>3, <3>4
    <3>6. Block(e, i, j) = Total(f)
      BY DEF Block, S
    <3> HIDE DEF f
    <3>7. QED
      BY <3>2, <3>5, <3>6, TotalType
  <2>2. DOMAIN g = Elements /\ \A e \in Elements : g[e] \in Int
    BY <2>1
  <2>3. Stiffness(i, j) = Total(g)
    BY <1>2
  <2> HIDE DEF g
  <2>4. QED
    BY <2>2, <2>3, ElementsFinite, TotalType
<1>6. QED
  BY <1>4, <1>5

\* What is known of the layout once the profile is.
LEMMA LayoutKnown ==
    ASSUME IInv, pc \notin {"DOFIndexCalcu", "ElementDOFCalcu", "BandAndDiagCalcu"}
    PROVE  /\ LegalInput /\ Connected /\ Profiled /\ Solvable
           /\ nFreeDOF \in Nat \ {0} /\ nTotalDOF \in Nat /\ nFreeDOF <= nTotalDOF
           /\ iaDOFIndex = DOFIndexes(structure)
           /\ nFreeDOF = nFreeDOFs(structure) /\ nTotalDOF = nTotalDOFs(structure)
<1>1. /\ LegalInput /\ Numbered /\ pDiag = DiagonalAddresses(pElemDOF, nTotalDOF)
      /\ pElemDOF = [e \in Elements |-> ElementDOFs(structure.elem[e], iaDOFIndex)]
  BY DEF IInv, LaidOut
<1>2. /\ nFreeDOF \in Nat \ {0} /\ nTotalDOF \in Nat /\ nFreeDOF <= nTotalDOF
      /\ iaDOFIndex = DOFIndexes(structure)
      /\ nFreeDOF = nFreeDOFs(structure) /\ nTotalDOF = nTotalDOFs(structure)
  BY <1>1, NumberedTypes
<1>3. ASSUME NEW e \in DOMAIN pElemDOF PROVE Range(pElemDOF[e]) \in SUBSET (0 .. nTotalDOF - 1)
  <2>1. e \in DOMAIN structure.elem /\ pElemDOF[e] = ElementDOFs(structure.elem[e], iaDOFIndex)
    BY <1>1 DEF Elements
  <2>2. Legal(structure)
    BY <1>1 DEF LegalInput
  <2>3. QED
    BY <1>2, <2>1, <2>2, ElementDOFsAreNumbers
<1>4. Profiled
  BY <1>1, <1>2, <1>3 DEF Profiled
<1>5. QED
  BY <1>1, <1>2, <1>4 DEF Connected, Solvable

\* Once it is assembled, what is found in the matrix is the stiffness.
LEMMA StiffnessFollows ==
    ASSUME IInv
    PROVE  StiffnessAssembled
<1> SUFFICES ASSUME pc = "LoadVectorAssembly",
                    NEW i \in 0 .. nTotalDOF - 1, NEW j \in 0 .. nTotalDOF - 1
             PROVE  GetElementInGK(i, j) = Stiffness(i, j)
  BY DEF StiffnessAssembled
<1>1. pGK = [k \in 0 .. pDiag[nTotalDOF - 1] |-> AssembledAt(k)]
  BY DEF IInv, Stored
<1>2. pc \notin {"DOFIndexCalcu", "ElementDOFCalcu", "BandAndDiagCalcu"}
  OBVIOUS
<1>3. LegalInput /\ Connected /\ Profiled
  BY <1>2, LayoutKnown
<1>4. QED
  BY <1>1, <1>3, StiffnessIsStored

\* What an assembled matrix holds.
Assembled == pGK = [k \in 0 .. pDiag[nTotalDOF - 1] |-> AssembledAt(k)]

\* An assembled matrix is one that the solver may start from.
LEMMA AssembledStores ==
    ASSUME LegalInput, Connected, Profiled, Assembled
    PROVE  pGK \in Stores
BY AssembledType DEF Assembled, Stores

\* What the supports take of a row, by the stored matrix.
LEMMA HeldForceIs ==
    ASSUME LegalInput, Connected, Profiled, Assembled, nFreeDOF \in Nat, NEW i \in 0 .. nTotalDOF - 1
    PROVE  /\ HeldForce(i) \in Int
           /\ \A s \in HeldNumbers : /\ s \in 0 .. nTotalDOF - 1 /\ Stiffness(i, s) \in Int
                                     /\ Movement(s) \in Num /\ Movement(s) = StandsAt(s, Len(loads))
           /\ IsFiniteSet(HeldNumbers)
           /\ Same(P, HeldForce(i), SumOver([s \in HeldNumbers |-> Stiffness(i, s) * Movement(s)], HeldNumbers))
           /\ i < nFreeDOF => Same(P, HeldForce(i), Taken(i, Len(loads)))
<1> DEFINE f == [s \in HeldNumbers |-> Stiffness(i, s) * Movement(s)]
           g == [s \in HeldNumbers |-> GetElementInGK(s, i) * StandsAt(s, Len(loads))]
<1>0. nTotalDOF \in Nat
  BY DEF Profiled
<1>1. \A s \in HeldNumbers : s \in 0 .. nTotalDOF - 1
  BY <1>0 DEF HeldNumbers
<1>2. \A s \in HeldNumbers : Stiffness(i, s) \in Int /\ GetElementInGK(s, i) = Stiffness(i, s)
  BY <1>1, StiffnessIsStored DEF Assembled
<1>3. \A s \in HeldNumbers : GetElementInGK(s, i) \in Int
  BY <1>2
<1>4. \A s : Movement(s) = StandsAt(s, Len(loads)) /\ StandsAt(s, Len(loads)) \in Num
  <2>1. \A s : Movement(s) = StandsAt(s, Len(loads))
    BY MovementIsSum DEF StandsAt, LegalInput
  <2>2. QED
    BY <1>0, <1>3, <2>1, TakenType, Zenon
<1>5. IsFiniteSet(HeldNumbers)
  BY <1>0, <1>3, TakenType, Zenon
<1>6. f = g
  BY <1>2, <1>4
<1>7. DOMAIN f = HeldNumbers /\ \A s \in HeldNumbers : f[s] \in Int
  <2>1. \A s \in HeldNumbers : Stiffness(i, s) \in Int /\ Movement(s) \in Int
    BY <1>2, <1>4, PrimeType DEF Num
  <2>2. \A a, b \in Int : a * b \in Int
    OBVIOUS
  <2>3. QED
    BY <2>1, <2>2
<1>8. HeldForce(i) = Total(f)
  BY DEF HeldForce, HeldNumbers
<1>9. i < nFreeDOF => Same(P, Total(g), Taken(i, Len(loads)))
  BY <1>0, <1>3, TakenType, Zenon
<1> HIDE DEF f, g
<1>10. Total(f) \in Int /\ Same(P, Total(f), SumOver(f, HeldNumbers))
  BY <1>5, <1>7, TotalType
<1>11. QED
  BY <1>1, <1>2, <1>4, <1>5, <1>6, <1>8, <1>9, <1>10 DEF f

\* A number minus a sum's part is the sum's rest.
LEMMA RestOfSum ==
    \A v, t, u, f, h \in Int :
        Same(P, v + t, u) /\ Same(P, u, f) /\ Same(P, h, t) => Same(P, v, f - h)
<1> TAKE v, t, u, f, h \in Int
<1> HAVE Same(P, v + t, u) /\ Same(P, u, f) /\ Same(P, h, t)
<1>0. P \in Nat \ {0}
  BY PrimeType
<1>1. v + t \in Int /\ -h \in Int /\ -t \in Int /\ (v + t) + (-h) \in Int /\ v + (t + (-h)) = (v + t) + (-h)
      /\ f + (-h) = f - h /\ f - h \in Int /\ t + (-h) \in Int /\ t - h \in Int /\ t + (-h) = t - h /\ v + 0 = v /\ 0 \in Int
      /\ h - t \in Int /\ (-1) * (h - t) = t - h /\ -1 \in Int /\ v + (t - h) = (v + t) + (-h) /\ v + (t - h) \in Int
  OBVIOUS
<1>2. Same(P, v + t, f)
  BY <1>1, SameChains, Zenon
<1>3. Same(P, -h, -h) /\ Same(P, v, v)
  BY <1>0, <1>1, SameIsEquivalence, Zenon
<1>4. Same(P, (v + t) + (-h), f + (-h))
  BY <1>0, <1>1, <1>2, <1>3, SameAdds, Zenon
<1>5. Zero(t - h)
  <2>1. Zero(h - t)
    BY <1>1, ZeroRules, Zenon
  <2>2. Zero((-1) * (h - t))
    BY <1>1, <2>1, ZeroRules, Zenon
  <2>3. QED
    BY <1>1, <2>2, Zenon
<1>6. Same(P, v + (t - h), v + 0)
  BY <1>0, <1>1, <1>3, <1>5, SameAdds, Zenon DEF Zero
<1>7. Same(P, v, v + (t - h))
  <2>1. Same(P, v + (t - h), v)
    BY <1>1, <1>6, Zenon
  <2>2. QED
    BY <1>0, <1>1, <2>1, SameIsEquivalence, Zenon
<1>8. Same(P, v + (t - h), f - h)
  BY <1>1, <1>4, Zenon
<1>9. QED
  BY <1>1, <1>7, <1>8, SameChains, Zenon

\* What is the same modulo P, and a number of the program, is the remainder.
LEMMA SameNumber ==
    ASSUME NEW v \in Num, NEW x \in Int, Same(P, v, x)
    PROVE  v = x % P
<1>1. v % P = v
  BY SmallRemainders DEF Num
<1>2. QED
  BY <1>1, Zenon DEF Same

\* The entries of the supports' rows and columns are numbers.
LEMMA HeldIsStored ==
    ASSUME LegalInput, Connected, Profiled, Assembled, nFreeDOF \in Nat \ {0}, nTotalDOF \in Nat,
           NEW i \in 0 .. nTotalDOF - 1, NEW s \in HeldNumbers
    PROVE  GetElementInGK(s, i) \in Int
<1>1. s \in 0 .. nTotalDOF - 1
  BY DEF HeldNumbers
<1>2. QED
  BY <1>1, StiffnessIsStored DEF Assembled

\* LoadVectorAssembly leaves the right hand side of the equations in pDisp, and in
\* pLoadVect what the loads do to the supports.
LEMMA RightHandSideIsSet ==
    ASSUME IInv, OneMove, LoadVectorAssembly, pLoadVect = VectorZeroize(0 .. nTotalDOF - 1)
    PROVE  /\ \A i \in 0 .. nFreeDOF - 1 : pDisp'[i] = RightHandSide(i)
           /\ pLoadVect' \in Displacements
           /\ \A i \in nFreeDOF .. nTotalDOF - 1 : pLoadVect'[i] = (NodalForce(i) + MemberForce(i)) % P
<1> DEFINE f == CHOOSE f : AfterLoads(f, Len(loads))
           w == f[Len(loads)]
           N == 0 .. nTotalDOF - 1
<1>0. pc = "LoadVectorAssembly" /\ P \in Nat \ {0}
  BY PrimeType DEF LoadVectorAssembly
<1>1. /\ LegalInput /\ Connected /\ Profiled
      /\ nFreeDOF \in Nat \ {0} /\ nTotalDOF \in Nat /\ nFreeDOF <= nTotalDOF
      /\ iaDOFIndex = DOFIndexes(structure)
      /\ nFreeDOF = nFreeDOFs(structure) /\ nTotalDOF = nTotalDOFs(structure)
  <2>1. pc \notin {"DOFIndexCalcu", "ElementDOFCalcu", "BandAndDiagCalcu"}
    BY <1>0
  <2>2. QED
    BY <2>1, LayoutKnown, Zenon
<1>2. pDisp = VectorZeroize(N) /\ Assembled
  BY <1>0 DEF IInv, Displaced, Stored, Assembled
<1>3. Len(loads) \in Nat /\ Len(loads) \in 0 .. Len(loads) /\ DOMAIN loads = 1 .. Len(loads)
  <2>1. Len(loads) \in Nat /\ DOMAIN loads = 1 .. Len(loads)
    BY <1>1, LoadsType DEF LegalInput
  <2>2. QED
    BY <2>1
<1>4. /\ pDisp' = [i \in DOMAIN pDisp |-> IF i < nFreeDOF THEN w.vect[i] ELSE w.disp[i]]
      /\ pLoadVect' = w.vect
  BY DEF LoadVectorAssembly, AfterLoads
<1>5. AfterLoads(f, Len(loads))
  <2>1. \E g : AfterLoads(g, Len(loads))
    BY <1>3, AfterLoadsExist
  <2>2. QED
    BY <2>1, Zenon
<1> HIDE DEF f
<1>6. \A i \in N : \A s \in HeldNumbers : GetElementInGK(s, i) \in Int
  BY <1>1, <1>2, HeldIsStored
<1>7. /\ w.vect \in Displacements
      /\ \A i \in N : Same(P, w.vect[i] + Taken(i, Len(loads)), SumOver(Given(i), 1 .. Len(loads)))
  <2>1. nFreeDOF \in Nat
    BY <1>1
  <2>2. QED
    BY <1>1, <1>2, <1>3, <1>5, <1>6, <2>1, VectAfterLoads
<1> HIDE DEF w
<1>8. ASSUME NEW i \in N
      PROVE  /\ w.vect[i] \in Num /\ w.vect[i] \in Int
             /\ NodalForce(i) + MemberForce(i) \in Int
             /\ SumOver(Given(i), 1 .. Len(loads)) \in Int
             /\ Same(P, w.vect[i] + Taken(i, Len(loads)), SumOver(Given(i), 1 .. Len(loads)))
             /\ Same(P, SumOver(Given(i), 1 .. Len(loads)), NodalForce(i) + MemberForce(i))
  <2>1. w.vect[i] \in Num
    BY <1>7, Zenon DEF Displacements
  <2>2. w.vect[i] \in Int
    BY <2>1, PrimeType DEF Num
  <2>3. /\ NodalForce(i) \in Int /\ MemberForce(i) \in Int
        /\ Same(P, SumOver(Given(i), DOMAIN loads), NodalForce(i) + MemberForce(i))
        /\ SumOver(Given(i), DOMAIN loads) \in Int
    BY <1>1, GivenIsForces
  <2>4. NodalForce(i) + MemberForce(i) \in Int
    BY <2>3
  <2>5. QED
    BY <1>3, <1>7, <2>1, <2>2, <2>3, <2>4
<1>9. ASSUME NEW i \in 0 .. nFreeDOF - 1 PROVE pDisp'[i] = RightHandSide(i)
  <2>1. i \in N /\ i < nFreeDOF
    BY <1>1
  <2>2. pDisp'[i] = w.vect[i]
    BY <1>2, <1>4, <2>1 DEF VectorZeroize
  <2>3. HeldForce(i) \in Int /\ Same(P, HeldForce(i), Taken(i, Len(loads)))
    <3>1. nFreeDOF \in Nat
      BY <1>1
    <3>2. QED
      BY <1>1, <1>2, <2>1, <3>1, HeldForceIs, Zenon
  <2>4. Taken(i, Len(loads)) \in Int
    <3>1. nFreeDOF \in Nat /\ \A s \in HeldNumbers : GetElementInGK(s, i) \in Int
      BY <1>1, <1>6, <2>1
    <3>2. QED
      BY <1>1, <3>1, TakenType, Zenon
  <2>5. PICK b, h, s, t, v : /\ b = NodalForce(i) + MemberForce(i) /\ h = HeldForce(i)
                             /\ s = SumOver(Given(i), 1 .. Len(loads))
                             /\ t = Taken(i, Len(loads)) /\ v = w.vect[i]
    OBVIOUS
  <2>6. /\ b \in Int /\ h \in Int /\ s \in Int /\ t \in Int /\ v \in Int /\ v \in Num
        /\ Same(P, v + t, s) /\ Same(P, s, b) /\ Same(P, h, t)
    BY <1>8, <2>1, <2>3, <2>4, <2>5, Zenon
  <2>9. b - h \in Int
    BY <2>6
  <2>10. Same(P, v, b - h)
    BY <2>6, RestOfSum
  <2>7. w.vect[i] = RightHandSide(i)
    <3>1. v = (b - h) % P
      BY <2>6, <2>9, <2>10, SameNumber
    <3>2. RightHandSide(i) = (b - h) % P
      BY <2>5, Zenon DEF RightHandSide
    <3>3. QED
      BY <2>5, <3>1, <3>2, Zenon
  <2>8. QED
    BY <2>2, <2>7
<1>10. ASSUME NEW i \in nFreeDOF .. nTotalDOF - 1
       PROVE  pLoadVect'[i] = (NodalForce(i) + MemberForce(i)) % P
  <2>1. i \in N /\ ~ (i < nFreeDOF)
    BY <1>1
  <2>2. Taken(i, Len(loads)) = 0
    BY <2>1 DEF Taken
  <2>3. w.vect[i] + 0 = w.vect[i]
    BY <1>8, <2>1
  <2>4. Same(P, w.vect[i], NodalForce(i) + MemberForce(i))
    <3>1. PICK b, s, v : /\ b = NodalForce(i) + MemberForce(i) /\ v = w.vect[i]
                         /\ s = SumOver(Given(i), 1 .. Len(loads))
      OBVIOUS
    <3>2. b \in Int /\ s \in Int /\ v \in Int /\ Same(P, v, s) /\ Same(P, s, b)
      BY <1>8, <2>1, <2>2, <2>3, <3>1, Zenon
    <3>3. QED
      BY <3>1, <3>2, SameChains, Zenon
  <2>5. w.vect[i] = (NodalForce(i) + MemberForce(i)) % P
    BY <1>8, <2>1, <2>4, SameNumber, Zenon
  <2>6. QED
    BY <1>4, <2>5
<1>11. QED
  BY <1>4, <1>7, <1>9, <1>10

\* The sum over a whole row is that over the unknown numbers and that over the
\* supports'.
LEMMA RowSplits ==
    ASSUME nFreeDOF \in Nat \ {0}, nTotalDOF \in Nat, nFreeDOF <= nTotalDOF,
           NEW g, \A j \in 0 .. nTotalDOF - 1 : g[j] \in Int
    PROVE  /\ IsFiniteSet(0 .. nTotalDOF - 1) /\ IsFiniteSet(FreeNumbers) /\ IsFiniteSet(HeldNumbers)
           /\ SumOver(g, FreeNumbers) \in Int /\ SumOver(g, HeldNumbers) \in Int
           /\ SumOver(g, 0 .. nTotalDOF - 1) = SumOver(g, FreeNumbers) + SumOver(g, HeldNumbers)
<1>1. 0 .. nTotalDOF - 1 = FreeNumbers \cup HeldNumbers /\ FreeNumbers \cap HeldNumbers = {}
  BY DEF FreeNumbers, HeldNumbers
<1>2. IsFiniteSet(0 .. nTotalDOF - 1) /\ IsFiniteSet(FreeNumbers) /\ IsFiniteSet(HeldNumbers)
  BY FS_Interval DEF FreeNumbers, HeldNumbers
<1>3. \A j \in FreeNumbers \cup HeldNumbers : g[j] \in Int
  BY <1>1
<1>4. SumOver(g, FreeNumbers) \in Int /\ SumOver(g, HeldNumbers) \in Int
  BY <1>2, <1>3, SumOverType
<1>5. SumOver(g, FreeNumbers \cup HeldNumbers) = SumOver(g, FreeNumbers) + SumOver(g, HeldNumbers)
  BY <1>1, <1>2, <1>3, SumOfParts
<1>6. QED
  BY <1>1, <1>2, <1>4, <1>5, Zenon

\* The right hand side and the movements are numbers.
LEMMA RightHandSideType ==
    ASSUME IInv, pc = "LDLTSolve", Assembled, \A i \in 0 .. nFreeDOF - 1 : pDisp[i] = RightHandSide(i)
    PROVE  /\ LegalInput /\ Connected /\ Profiled /\ Solvable
           /\ nFreeDOF \in Nat \ {0} /\ nTotalDOF \in Nat /\ nFreeDOF <= nTotalDOF
           /\ \A i \in nFreeDOF .. nTotalDOF - 1 : pDisp[i] = Movement(i)
           /\ pDisp \in Displacements
<1> DEFINE N == 0 .. nTotalDOF - 1
<1>0. P \in Nat \ {0}
  BY PrimeType
<1>1. /\ LegalInput /\ Connected /\ Profiled /\ Solvable
      /\ nFreeDOF \in Nat \ {0} /\ nFreeDOF \in Nat /\ nTotalDOF \in Nat /\ nFreeDOF <= nTotalDOF
  <2>1. pc \notin {"DOFIndexCalcu", "ElementDOFCalcu", "BandAndDiagCalcu"}
    OBVIOUS
  <2>2. QED
    BY <2>1, LayoutKnown
<1>2. \A i \in nFreeDOF .. nTotalDOF - 1 : pDisp[i] = Movement(i)
  BY DEF IInv, Displaced
<1>3. pDisp \in Displacements
  <2>1. pDisp = [i \in N |-> pDisp[i]]
    BY DEF IInv, LaidOut
  <2>2. \A i \in 0 .. nFreeDOF - 1 : pDisp[i] \in Num
    <3>1. ASSUME NEW i \in 0 .. nFreeDOF - 1 PROVE RightHandSide(i) \in Num
      <4>1. i \in N
        BY <1>1
      <4>2. NodalForce(i) \in Int /\ MemberForce(i) \in Int
        BY <1>1, GivenIsForces
      <4>3. HeldForce(i) \in Int
        BY <1>1, <4>1, HeldForceIs, Zenon
      <4>4. (NodalForce(i) + MemberForce(i)) - HeldForce(i) \in Int
        BY <4>2, <4>3
      <4>5. QED
        BY <1>0, <4>4, RemainderType, Zenon DEF RightHandSide, Num
    <3>2. QED
      BY <3>1
  <2>3. \A i \in nFreeDOF .. nTotalDOF - 1 : pDisp[i] \in Num
    <3>1. 0 \in N
      BY <1>1
    <3>2. \A s \in HeldNumbers : Movement(s) \in Num
      BY <1>1, <3>1, HeldForceIs, Zenon
    <3>3. QED
      BY <1>2, <3>2 DEF HeldNumbers
  <2>4. \A i \in N : i \in 0 .. nFreeDOF - 1 \/ i \in nFreeDOF .. nTotalDOF - 1
    BY <1>1
  <2>5. QED
    BY <2>1, <2>2, <2>3, <2>4 DEF Displacements
<1>4. QED
  BY <1>1, <1>2, <1>3

\* When LDLTSolve says so, the displacements balance the loads.
LEMMA SolutionBalances ==
    ASSUME IInv, LDLTSolve, Assembled,
           \A i \in 0 .. nFreeDOF - 1 : pDisp[i] = RightHandSide(i),
           solved'
    PROVE  /\ \A i \in nFreeDOF .. nTotalDOF - 1 : pDisp'[i] = Movement(i)
           /\ \A i \in 0 .. nFreeDOF - 1 :
                  Total([j \in 0 .. nTotalDOF - 1 |-> Stiffness(i, j) * pDisp'[j]])
                      = (NodalForce(i) + MemberForce(i)) % P
           /\ pDisp' \in Displacements
<1> DEFINE N == 0 .. nTotalDOF - 1
<1>0. pc = "LDLTSolve" /\ P \in Nat \ {0}
  BY PrimeType, Zenon DEF LDLTSolve
<1>1. /\ LegalInput /\ Connected /\ Profiled /\ Solvable
      /\ nFreeDOF \in Nat \ {0} /\ nFreeDOF \in Nat /\ nTotalDOF \in Nat /\ nFreeDOF <= nTotalDOF
  BY <1>0, RightHandSideType
<1>2. \A i \in nFreeDOF .. nTotalDOF - 1 : pDisp[i] = Movement(i)
  BY <1>0, RightHandSideType
<1>3. pDisp \in Displacements
  BY <1>0, RightHandSideType
<1>4. pGK \in Stores
  BY <1>1, AssembledStores
<1>5. PICK u : u = pDisp'
  OBVIOUS
<1>6. /\ u \in Displacements
      /\ \A i \in FreeNumbers : Same(P, Times(Unknown[i], Part(u), FreeNumbers), pDisp[i])
      /\ \A k \in nFreeDOF .. nTotalDOF - 1 : u[k] = pDisp[k]
  BY <1>1, <1>3, <1>4, <1>5, LDLTSolveSolves
<1>7. ASSUME NEW i \in FreeNumbers
      PROVE  Total([j \in N |-> Stiffness(i, j) * u[j]]) = (NodalForce(i) + MemberForce(i)) % P
  <2> DEFINE g == [j \in N |-> Stiffness(i, j) * u[j]]
             h == [s \in HeldNumbers |-> Stiffness(i, s) * Movement(s)]
             r == [k \in FreeNumbers |-> Unknown[i][k] * Part(u)[k]]
             b == NodalForce(i) + MemberForce(i)
  <2>1. i \in N /\ i \in 0 .. nFreeDOF - 1 /\ FreeNumbers \in SUBSET N /\ HeldNumbers \in SUBSET N
    BY <1>1 DEF FreeNumbers, HeldNumbers
  <2>2. \A j \in N : Stiffness(i, j) \in Int /\ GetElementInGK(i, j) = Stiffness(i, j)
    BY <1>1, <2>1, StiffnessIsStored DEF Assembled
  <2>3. \A j \in N : u[j] \in Int
    BY <1>6, PrimeType DEF Displacements, Num
  <2>4. DOMAIN g = N /\ \A j \in N : g[j] \in Int
    <3>1. \A x, y \in Int : x * y \in Int
      OBVIOUS
    <3>2. QED
      BY <2>2, <2>3, <3>1
  <2>5. \A k \in FreeNumbers : g[k] = r[k]
    <3>1. \A k \in FreeNumbers : Unknown[i][k] = Stiffness(i, k) /\ Part(u)[k] = u[k]
      BY <2>1, <2>2 DEF Unknown, Part
    <3>2. QED
      BY <2>1, <3>1
  <2>6. \A s \in HeldNumbers : g[s] = h[s]
    BY <1>2, <1>6, <2>1 DEF HeldNumbers
  <2>7. /\ HeldForce(i) \in Int
        /\ Same(P, HeldForce(i), SumOver(h, HeldNumbers))
    BY <1>1, <2>1, HeldForceIs
  <2>8. NodalForce(i) \in Int /\ MemberForce(i) \in Int /\ b \in Int
    BY <1>1, GivenIsForces
  <2>9. Times(Unknown[i], Part(u), FreeNumbers) = SumOver(r, FreeNumbers)
    BY DEF Times
  <2>10. pDisp[i] = (b - HeldForce(i)) % P
    <3>1. pDisp[i] = RightHandSide(i)
      BY <2>1
    <3>2. QED
      BY <3>1, Zenon DEF RightHandSide
  <2> HIDE DEF g, h, r, b
  <2>11. /\ IsFiniteSet(N) /\ IsFiniteSet(FreeNumbers) /\ IsFiniteSet(HeldNumbers)
         /\ SumOver(g, FreeNumbers) \in Int /\ SumOver(g, HeldNumbers) \in Int
         /\ SumOver(g, N) = SumOver(g, FreeNumbers) + SumOver(g, HeldNumbers)
    BY <1>1, <2>4, RowSplits
  <2>12. SumOver(g, FreeNumbers) = SumOver(r, FreeNumbers) /\ SumOver(g, HeldNumbers) = SumOver(h, HeldNumbers)
    BY <2>5, <2>6, <2>11, SumOverSame
  <2>13. PICK x, y, z : x = SumOver(g, FreeNumbers) /\ y = SumOver(g, HeldNumbers) /\ z = HeldForce(i)
    OBVIOUS
  <2>14. x \in Int /\ y \in Int /\ z \in Int /\ Same(P, z, y) /\ b - z \in Int
    <3>1. x \in Int /\ y \in Int /\ z \in Int /\ Same(P, z, y)
      BY <2>7, <2>11, <2>12, <2>13, Zenon
    <3>2. QED
      BY <2>8, <3>1
  <2>15. Same(P, x, pDisp[i]) /\ Same(P, pDisp[i], b - z) /\ pDisp[i] \in Int
    <3>1. Same(P, x, pDisp[i])
      BY <1>6, <2>9, <2>12, <2>13, Zenon
    <3>2. pDisp[i] = (b - z) % P
      BY <2>10, <2>13, Zenon
    <3>3. QED
      BY <1>0, <2>14, <3>1, <3>2, SameIsEquivalence, Zenon
  <2>16. Same(P, x, b - z)
    BY <2>14, <2>15, SameChains, Zenon
  <2>17. Same(P, y, z)
    BY <1>0, <2>14, SameIsEquivalence, Zenon
  <2>18. Same(P, x + y, (b - z) + z)
    BY <1>0, <2>14, <2>16, <2>17, SameAdds, Zenon
  <2>19. (b - z) + z = b
    BY <2>8, <2>14
  <2>20. Total(g) = SumOver(g, N) % P
    BY <2>4, <2>11, TotalType, Zenon
  <2>21. SumOver(g, N) % P = b % P
    BY <2>11, <2>13, <2>18, <2>19, Zenon DEF Same
  <2>22. Total(g) = b % P
    BY <2>20, <2>21, Zenon
  <2>23. QED
    BY <2>22 DEF g, b
<1>8. QED
  BY <1>2, <1>5, <1>6, <1>7 DEF FreeNumbers

-----------------------------------------------------------------------------
(* The equations through the steps of TestMITC. *)

\* Forces, movements and stiffnesses are made of the input and the numbering.
LEMMA ForcesKept ==
    ASSUME UNCHANGED <<structure, loads, iaDOFIndex, pElemDOF, nFreeDOF, nTotalDOF>>
    PROVE  /\ \A i, j : Stiffness(i, j)' = Stiffness(i, j)
           /\ \A i : /\ NodalForce(i)' = NodalForce(i) /\ MemberForce(i)' = MemberForce(i)
                     /\ Movement(i)' = Movement(i) /\ RightHandSide(i)' = RightHandSide(i)
           /\ \A e : Rotation(e)' = Rotation(e) /\ LocalStiff(e)' = LocalStiff(e)
           /\ \A load : ClampForces(load)' = ClampForces(load)
<1>0. Elements' = Elements /\ \A e : IsTruss(e)' = IsTruss(e)
  BY DEF Elements, IsTruss
<1>1. \A e, axis : Delta(e, axis)' = Delta(e, axis)
  BY DEF Delta
<1>2. \A e : Length(e)' = Length(e)
  BY <1>1 DEF Length
<1>3. \A e : Cos(e)' = Cos(e) /\ Sin(e)' = Sin(e)
  BY <1>1, <1>2 DEF Cos, Sin
<1>4. \A e : Rotation(e)' = Rotation(e)
  BY <1>0, <1>3, Zenon DEF Rotation
<1>5. \A e : LocalStiff(e)' = LocalStiff(e)
  BY <1>0, <1>2 DEF LocalStiff
<1>6. \A load : KeptForces(load)' = KeptForces(load)
  BY KeptForcesKept
<1>7. \A load : ClampForces(load)' = ClampForces(load)
  BY <1>4, <1>6, Zenon DEF ClampForces
<1>8. \A type, i : OnNumber(type, i)' = OnNumber(type, i)
  BY DEF OnNumber
<1>9. \A i : NodalForce(i)' = NodalForce(i) /\ Movement(i)' = Movement(i)
  BY <1>8 DEF NodalForce, Movement
<1>10. \A i : MemberForce(i)' = MemberForce(i)
  BY <1>7, Zenon DEF MemberForce
<1>11. \A i, j : Stiffness(i, j)' = Stiffness(i, j)
  BY <1>0, <1>4, <1>5, Zenon DEF Stiffness
<1>12. \A i : HeldForce(i)' = HeldForce(i)
  BY <1>9, <1>11, Zenon DEF HeldForce
<1>13. \A i : RightHandSide(i)' = RightHandSide(i)
  BY <1>9, <1>10, <1>12, Zenon DEF RightHandSide
<1>14. QED
  BY <1>4, <1>5, <1>7, <1>9, <1>10, <1>11, <1>13

\* The steps at which Equilibrium speaks.
LEMMA ReachedNames ==
    /\ Reached("InternalForceCalcu") <=>
           pc \in {"InternalForceCalcu", "SupportReactionCalcu", "Output"}
    /\ (Reached("InternalForceCalcu"))' <=>
           pc' \in {"InternalForceCalcu", "SupportReactionCalcu", "Output"}
<1> DEFINE S == {Steps[k] : k \in {m \in DOMAIN Steps : \E n \in 1 .. m : Steps[n] = "InternalForceCalcu"}}
<1>1. DOMAIN Steps = 1 .. 9
  BY DEF Steps
<1>2. /\ Steps[1] = "DOFIndexCalcu" /\ Steps[2] = "ElementDOFCalcu" /\ Steps[3] = "BandAndDiagCalcu"
      /\ Steps[4] = "GKAssembly" /\ Steps[5] = "LoadVectorAssembly" /\ Steps[6] = "LDLTSolve"
      /\ Steps[7] = "InternalForceCalcu" /\ Steps[8] = "SupportReactionCalcu" /\ Steps[9] = "Output"
  BY DEF Steps
<1>3. \A k \in 1 .. 9 : k = 1 \/ k = 2 \/ k = 3 \/ k = 4 \/ k = 5 \/ k = 6 \/ k = 7 \/ k = 8 \/ k = 9
  OBVIOUS
<1>4. ASSUME NEW n \in 1 .. 9, Steps[n] = "InternalForceCalcu" PROVE n = 7
  BY <1>2, <1>3, <1>4
<1>5. {m \in DOMAIN Steps : \E n \in 1 .. m : Steps[n] = "InternalForceCalcu"} = 7 .. 9
  <2>1. ASSUME NEW m \in 1 .. 9, NEW n \in 1 .. m, Steps[n] = "InternalForceCalcu" PROVE m \in 7 .. 9
    BY <1>4, <2>1
  <2>2. \A m \in 7 .. 9 : m \in 1 .. 9 /\ 7 \in 1 .. m
    OBVIOUS
  <2>3. QED
    BY <1>1, <1>2, <2>1, <2>2
<1>6. 7 .. 9 = {7, 8, 9}
  OBVIOUS
<1>7. S = {"InternalForceCalcu", "SupportReactionCalcu", "Output"}
  BY <1>2, <1>5, <1>6
<1>8. QED
  BY <1>7 DEF Reached

\* What Loaded and Equilibrium say when nothing changes.
LEMMA NothingBalancedChanges ==
    ASSUME Loaded, OneMove => Equilibrium, UNCHANGED vars
    PROVE  Loaded' /\ (OneMove => Equilibrium)'
<1>1. UNCHANGED <<structure, loads, iaDOFIndex, pElemDOF, nFreeDOF, nTotalDOF, pDiag,
                  pGK, pLoadVect, pDisp, solved, pc>>
  BY DEF vars, input, layout
<1>2. /\ \A i, j : Stiffness(i, j)' = Stiffness(i, j)
      /\ \A i : /\ NodalForce(i)' = NodalForce(i) /\ MemberForce(i)' = MemberForce(i)
                /\ Movement(i)' = Movement(i) /\ RightHandSide(i)' = RightHandSide(i)
  BY <1>1, ForcesKept
<1>3. \A k : AssembledAt(k)' = AssembledAt(k)
  BY <1>1, AssembledKept
<1>4. OneMove' = OneMove
  BY <1>1 DEF OneMove
<1>5. VectorZeroize(0 .. nTotalDOF - 1)' = VectorZeroize(0 .. nTotalDOF - 1)
  BY <1>1 DEF VectorZeroize
<1>6. Loaded'
  BY <1>1, <1>2, <1>3, <1>4, <1>5 DEF Loaded
<1>7. Equilibrium' = Equilibrium
  <2>1. Reached("InternalForceCalcu")' = Reached("InternalForceCalcu")
    BY <1>1 DEF Reached
  <2>2. QED
    BY <1>1, <1>2, <2>1, Zenon DEF Equilibrium
<1>8. QED
  BY <1>4, <1>6, <1>7

\* Equilibrium through a step that leaves the input, the layout and the solution
\* alone.
LEMMA SolutionStays ==
    ASSUME OneMove => Equilibrium, UNCHANGED <<input, layout, pDisp, solved>>,
           pc \in {"InternalForceCalcu", "SupportReactionCalcu"}
    PROVE  (OneMove => Equilibrium)'
<1>1. UNCHANGED <<structure, loads, iaDOFIndex, pElemDOF, nFreeDOF, nTotalDOF, pDisp, solved>>
  BY DEF input, layout
<1>2. /\ \A i, j : Stiffness(i, j)' = Stiffness(i, j)
      /\ \A i : /\ NodalForce(i)' = NodalForce(i) /\ MemberForce(i)' = MemberForce(i)
                /\ Movement(i)' = Movement(i)
  BY <1>1, ForcesKept
<1>3. OneMove' = OneMove
  BY <1>1 DEF OneMove
<1>4. Reached("InternalForceCalcu")
  BY ReachedNames
<1>5. Equilibrium => Equilibrium'
  <2> DEFINE Body == \A i \in 0 .. nTotalDOF - 1 :
            IF i >= nFreeDOF THEN pDisp[i] = Movement(i)
            ELSE Total([j \in 0 .. nTotalDOF - 1 |-> Stiffness(i, j) * pDisp[j]])
                     = (NodalForce(i) + MemberForce(i)) % P
  <2>1. Equilibrium <=> (Reached("InternalForceCalcu") /\ solved => Body)
    BY DEF Equilibrium
  <2>2. Equilibrium' <=> ((Reached("InternalForceCalcu"))' /\ solved' => Body')
    BY DEF Equilibrium
  <2>3. Body' <=> Body
    BY <1>1, <1>2, Zenon
  <2> HIDE DEF Body
  <2>4. QED
    BY <1>1, <1>4, <2>1, <2>2, <2>3
<1>6. QED
  BY <1>3, <1>5

\* The steps of the computation keep the load vector and the solution.
LEMMA LoadedStep ==
    ASSUME pc # "DOFIndexCalcu" => IInv, Loaded, OneMove => Equilibrium, [Next]_vars
    PROVE  Loaded' /\ (OneMove => Equilibrium)'
<1>1. CASE UNCHANGED vars
  BY <1>1, NothingBalancedChanges
<1>2. CASE DOFIndexCalcu \/ ElementDOFCalcu
  <2>1. pc' \in {"ElementDOFCalcu", "BandAndDiagCalcu"}
    BY <1>2 DEF DOFIndexCalcu, ElementDOFCalcu
  <2>2. QED
    BY <2>1, ReachedNames DEF Loaded, Equilibrium
<1>3. CASE BandAndDiagCalcu
  <2>1. pc' = "GKAssembly" /\ pLoadVect' = VectorZeroize(0 .. nTotalDOF - 1) /\ nTotalDOF' = nTotalDOF
    BY <1>3 DEF BandAndDiagCalcu
  <2>2. QED
    BY <2>1, ReachedNames DEF Loaded, Equilibrium, VectorZeroize
<1>4. CASE GKAssembly
  <2>1. /\ pc = "GKAssembly" /\ pc' = "LoadVectorAssembly" /\ pLoadVect' = pLoadVect
        /\ nTotalDOF' = nTotalDOF
    BY <1>4 DEF GKAssembly, layout
  <2>2. QED
    BY <2>1, ReachedNames DEF Loaded, Equilibrium, VectorZeroize
<1>5. CASE LoadVectorAssembly
  <2>1. /\ pc = "LoadVectorAssembly" /\ pc' = "LDLTSolve" /\ pGK' = pGK
        /\ UNCHANGED <<structure, loads, iaDOFIndex, pElemDOF, nFreeDOF, nTotalDOF, pDiag>>
    BY <1>5 DEF LoadVectorAssembly, input, layout
  <2>2. IInv /\ pLoadVect = VectorZeroize(0 .. nTotalDOF - 1)
    BY <2>1 DEF Loaded
  <2>3. pGK = [k \in 0 .. pDiag[nTotalDOF - 1] |-> AssembledAt(k)]
    BY <2>1, <2>2 DEF IInv, Stored
  <2>4. \A k : AssembledAt(k)' = AssembledAt(k)
    BY <2>1, AssembledKept
  <2>5. pGK' = [k \in 0 .. pDiag'[nTotalDOF' - 1] |-> AssembledAt(k)']
    BY <2>1, <2>3, <2>4
  <2>6. OneMove' => \A i \in 0 .. nFreeDOF' - 1 : pDisp'[i] = RightHandSide(i)'
    <3>1. \A i : RightHandSide(i)' = RightHandSide(i)
      BY <2>1, ForcesKept
    <3>2. OneMove' = OneMove
      BY <2>1 DEF OneMove
    <3>3. OneMove => \A i \in 0 .. nFreeDOF - 1 : pDisp'[i] = RightHandSide(i)
      BY <1>5, <2>2, RightHandSideIsSet
    <3>4. QED
      BY <2>1, <3>1, <3>2, <3>3
  <2>7. Loaded'
    BY <2>1, <2>5, <2>6 DEF Loaded
  <2>8. QED
    BY <2>1, <2>7, ReachedNames DEF Equilibrium
<1>6. CASE LDLTSolve
  <2>1. /\ pc = "LDLTSolve" /\ pc' = "InternalForceCalcu"
        /\ UNCHANGED <<structure, loads, iaDOFIndex, pElemDOF, nFreeDOF, nTotalDOF, pDiag>>
    BY <1>6, Zenon DEF LDLTSolve, input, layout
  <2>2. /\ IInv /\ Assembled
        /\ OneMove => \A i \in 0 .. nFreeDOF - 1 : pDisp[i] = RightHandSide(i)
    BY <2>1 DEF Loaded, Assembled
  <2>3. /\ \A i, j : Stiffness(i, j)' = Stiffness(i, j)
        /\ \A i : /\ NodalForce(i)' = NodalForce(i) /\ MemberForce(i)' = MemberForce(i)
                  /\ Movement(i)' = Movement(i)
    BY <2>1, ForcesKept
  <2>4. OneMove' = OneMove
    BY <2>1 DEF OneMove
  <2>5. ASSUME OneMove, solved'
        PROVE  \A i \in 0 .. nTotalDOF - 1 :
                   IF i >= nFreeDOF THEN pDisp'[i] = Movement(i)
                   ELSE Total([j \in 0 .. nTotalDOF - 1 |-> Stiffness(i, j) * pDisp'[j]])
                            = (NodalForce(i) + MemberForce(i)) % P
    <3>1. /\ \A i \in nFreeDOF .. nTotalDOF - 1 : pDisp'[i] = Movement(i)
          /\ \A i \in 0 .. nFreeDOF - 1 :
                 Total([j \in 0 .. nTotalDOF - 1 |-> Stiffness(i, j) * pDisp'[j]])
                     = (NodalForce(i) + MemberForce(i)) % P
      BY <1>6, <2>2, <2>5, SolutionBalances
    <3>2. nFreeDOF \in Nat /\ nTotalDOF \in Nat
      <4>1. pc \notin {"DOFIndexCalcu", "ElementDOFCalcu", "BandAndDiagCalcu"}
        BY <2>1
      <4>2. QED
        BY <2>2, <4>1, LayoutKnown
    <3>3. \A i \in 0 .. nTotalDOF - 1 : /\ (i >= nFreeDOF) => i \in nFreeDOF .. nTotalDOF - 1
                                        /\ (~ (i >= nFreeDOF)) => i \in 0 .. nFreeDOF - 1
      BY <3>2
    <3> TAKE i \in 0 .. nTotalDOF - 1
    <3>5. CASE i >= nFreeDOF
      BY <3>1, <3>3, <3>5
    <3>6. CASE ~ (i >= nFreeDOF)
      <4>1. i \in 0 .. nFreeDOF - 1
        BY <3>2, <3>6
      <4>2. Total([j \in 0 .. nTotalDOF - 1 |-> Stiffness(i, j) * pDisp'[j]])
                = (NodalForce(i) + MemberForce(i)) % P
        BY <3>1, <4>1, Zenon
      <4>3. QED
        BY <3>6, <4>2, Zenon
    <3>7. QED
      BY <3>5, <3>6
  <2>6. (OneMove => Equilibrium)'
    <3>1. OneMove => Equilibrium'
      BY <2>1, <2>3, <2>5, Zenon DEF Equilibrium
    <3>2. QED
      BY <2>4, <3>1
  <2>7. Loaded'
    BY <2>1 DEF Loaded
  <2>8. QED
    BY <2>6, <2>7
<1>7. CASE InternalForceCalcu \/ SupportReactionCalcu
  <2>1. /\ UNCHANGED <<input, layout, pDisp, solved>>
        /\ pc \in {"InternalForceCalcu", "SupportReactionCalcu"}
        /\ pc' \in {"SupportReactionCalcu", "Output"}
    BY <1>7 DEF InternalForceCalcu, SupportReactionCalcu
  <2>2. Loaded'
    BY <2>1 DEF Loaded
  <2>3. QED
    BY <2>1, <2>2, SolutionStays
<1>8. QED
  BY <1>1, <1>2, <1>3, <1>4, <1>5, <1>6, <1>7 DEF Next

\* A step of the program is one of the computation, or comes before it.
LEMMA ComputesOrStarts ==
    ASSUME FrameIInv, [FrameNext]_frameVars
    PROVE  [Next]_vars \/ pc' = "DOFIndexCalcu"
<1>1. CASE OpenFiles \/ EchoInput \/ NodeDisplOutput \/ EndInternalForceOutput \/ SupportReactionOutput
  BY <1>1 DEF OpenFiles, EchoInput, NodeDisplOutput, EndInternalForceOutput, SupportReactionOutput
<1>2. CASE ReadInput
  <2>1. at = "read" /\ pc' = pc
    BY <1>2 DEF ReadInput
  <2>2. QED
    BY <2>1 DEF FrameIInv
<1>3. CASE Compute
  BY <1>3 DEF Compute
<1>4. CASE UNCHANGED frameVars
  BY <1>4 DEF frameVars
<1>5. QED
  BY <1>1, <1>2, <1>3, <1>4 DEF FrameNext

\* The steps of the program around the computation leave its results alone.
LEMMA SolvedStep ==
    ASSUME FrameIInv, [FrameNext]_frameVars, Loaded, OneMove => Equilibrium
    PROVE  Loaded' /\ (OneMove => Equilibrium)'
<1>1. pc # "DOFIndexCalcu" => IInv
  BY DEF FrameIInv
<1>2. CASE [Next]_vars
  BY <1>1, <1>2, LoadedStep
<1>3. CASE pc' = "DOFIndexCalcu"
  BY <1>3, ReachedNames DEF Loaded, Equilibrium
<1>4. QED
  BY <1>2, <1>3, ComputesOrStarts

-----------------------------------------------------------------------------
(* What the elements answer to the displacements, and what they are held with. *)

\* The form of a scaled vector.
LEMMA FormScales ==
    ASSUME NEW D, IsFiniteSet(D), NEW K \in Matrices(D), NEW x \in Vectors(D), NEW y \in Vectors(D), NEW c \in Int
    PROVE  Form(K, x, [k \in D |-> y[k] * c], D) = Form(K, x, y, D) * c
<1> DEFINE z == [k \in D |-> y[k] * c]
<1>1. \A l \in D : K[l] \in Vectors(D)
  BY DEF Matrices, Vectors
<1>2. Image(K, z, D) = [l \in D |-> Image(K, y, D)[l] * c]
  <2>1. \A l \in D : Times(K[l], z, D) = Times(K[l], y, D) * c
    BY <1>1, TimesScales
  <2> HIDE DEF z
  <2>2. QED
    BY <2>1 DEF Image
<1>3. Image(K, y, D) \in Vectors(D)
  BY TimesType
<1> HIDE DEF z
<1>4. Times(x, Image(K, z, D), D) = Times(x, Image(K, y, D), D) * c
  BY <1>2, <1>3, TimesScales
<1>5. QED
  BY <1>4 DEF Form, z

\* What an element answers to a displacement: its matrix in global directions,
\* times that.
LEMMA Response ==
    ASSUME NEW D, IsFiniteSet(D), 1 \in D, NEW T \in Matrices(D), NEW K \in Matrices(D),
           NEW G \in Matrices(D), Turned(G, K, T, D), NEW x \in Vectors(D)
    PROVE  LET f == MatrixVectorMultiply(K, MatrixVectorMultiply(T, x))
           IN  /\ f \in Vectors(D)
               /\ \A k \in D : Same(P, Times(MatrixTrans(T)[k], f, D), Times(G[k], x, D))
<1> DEFINE Tt == MatrixTrans(T)
           g == MatrixVectorMultiply(T, x)
           f == MatrixVectorMultiply(K, g)
           u == Image(T, x, D)
           Y == [q \in D |-> [l \in D |-> Tt[q][l] * x[q]]]
<1>1. Tt \in Matrices(D) /\ (\A k \in D : Tt[k] \in Vectors(D)) /\ \A k, l \in D : Tt[k][l] = T[l][k]
  BY MatrixTransType DEF Matrices, Vectors
<1>2. \A k \in D : x[k] \in Int /\ T[k] \in Vectors(D) /\ K[k] \in Vectors(D) /\ G[k] \in Vectors(D)
  BY DEF Matrices, Vectors
<1>3. Y \in [D -> Vectors(D)]
  <2>1. \A q, l \in D : Tt[q][l] * x[q] \in Int
    <3>1. \A q, l \in D : Tt[q][l] \in Int
      BY <1>1 DEF Vectors
    <3> HIDE DEF Tt
    <3>2. \A a, b \in Int : a * b \in Int
      OBVIOUS
    <3>3. QED
      BY <1>2, <3>1, <3>2
  <2> HIDE DEF Tt
  <2>2. QED
    BY <2>1 DEF Vectors
<1>4. u \in Vectors(D)
  BY TimesType
<1>5. Added(Y, D, D) = u
  <2>1. ASSUME NEW l \in D PROVE SumOver([q \in D |-> Y[q][l]], D) = Times(T[l], x, D)
    <3>1. \A q \in D : Y[q][l] = T[l][q] * x[q]
      BY <1>1
    <3> HIDE DEF Y
    <3>2. [q \in D |-> Y[q][l]] = [q \in D |-> T[l][q] * x[q]]
      BY <3>1
    <3>3. QED
      BY <3>2, Zenon DEF Times
  <2> HIDE DEF Y
  <2>2. QED
    BY <2>1 DEF Added, Image
<1>6. g \in Vectors(D) /\ \A l \in D : Same(P, g[l], u[l])
  <2>1. g \in Vectors(D) /\ \A l \in D : Same(P, g[l], Times(T[l], x, D))
    BY MatrixVectorMultiplySame
  <2> HIDE DEF g
  <2>2. QED
    BY <2>1 DEF Image
<1>7. f \in Vectors(D) /\ \A l \in D : Same(P, f[l], Times(K[l], g, D))
  <2> HIDE DEF g
  <2>1. QED
    BY <1>6, MatrixVectorMultiplySame
<1>8. Image(K, u, D) \in Vectors(D) /\ \A l \in D : Same(P, f[l], Image(K, u, D)[l])
  <2> HIDE DEF f, g, u
  <2>1. Image(K, u, D) \in Vectors(D)
    BY <1>4, TimesType
  <2>2. ASSUME NEW l \in D PROVE Same(P, f[l], Image(K, u, D)[l])
    <3>1. Same(P, Times(K[l], g, D), Times(K[l], u, D))
      BY <1>2, <1>4, <1>6, TimesSame
    <3>2. Image(K, u, D)[l] = Times(K[l], u, D)
      BY DEF Image
    <3>3. f[l] \in Int
      BY <1>7 DEF Vectors
    <3>4. Times(K[l], g, D) \in Int /\ Times(K[l], u, D) \in Int
      BY <1>2, <1>4, <1>6, TimesType
    <3>5. Same(P, f[l], Times(K[l], u, D))
      BY <1>7, <3>1, <3>3, <3>4, SameChains, Zenon
    <3>6. QED
      BY <3>2, <3>5, Zenon
  <2>3. QED
    BY <2>1, <2>2
<1>9. ASSUME NEW k \in D
      PROVE  Same(P, Times(Tt[k], f, D), Times(G[k], x, D))
  <2> DEFINE forms == [q \in D |-> Form(K, Tt[k], Y[q], D)]
             row == [q \in D |-> G[k][q] * x[q]]
  <2>1. Same(P, Times(Tt[k], f, D), Form(K, Tt[k], u, D))
    <3> HIDE DEF Tt, f, u
    <3>1. QED
      BY <1>1, <1>7, <1>8, TimesSame DEF Form
  <2>2. SumOver(forms, D) = Form(K, Tt[k], u, D)
    <3> HIDE DEF Tt, Y, u
    <3>1. QED
      BY <1>1, <1>3, <1>5, FormAdds
  <2>3. \A q \in D : forms[q] \in Int /\ row[q] \in Int /\ Same(P, row[q], forms[q])
    <3>1. ASSUME NEW q \in D PROVE forms[q] \in Int /\ row[q] \in Int /\ Same(P, row[q], forms[q])
      <4> DEFINE F == Form(K, Tt[k], Tt[q], D)
      <4>1. forms[q] = F * x[q]
        <5>1. forms[q] = Form(K, Tt[k], [l \in D |-> Tt[q][l] * x[q]], D)
          OBVIOUS
        <5> HIDE DEF Tt, forms
        <5>2. QED
          BY <1>1, <1>2, <5>1, FormScales
      <4>2. F \in Int
        <5> HIDE DEF Tt
        <5>1. QED
          BY <1>1, TimesType DEF Form
      <4>3. Same(P, G[k][q], F)
        BY DEF Turned
      <4>4. G[k][q] \in Int /\ x[q] \in Int
        BY <1>2 DEF Vectors
      <4>5. row[q] = G[k][q] * x[q]
        OBVIOUS
      <4> HIDE DEF F, row, forms
      <4>6. F * x[q] \in Int /\ G[k][q] * x[q] \in Int
        BY <4>2, <4>4
      <4>7. Same(P, G[k][q] * x[q], F * x[q])
        BY <4>2, <4>3, <4>4, SameScales
      <4>8. QED
        BY <4>1, <4>5, <4>6, <4>7, Zenon
    <3>2. QED
      BY <3>1
  <2> HIDE DEF forms, row, Tt, f, u
  <2>4. /\ Same(P, SumOver(row, D), SumOver(forms, D))
        /\ SumOver(row, D) \in Int /\ SumOver(forms, D) \in Int
    BY <2>3, PrimeType, SumReduces, SumOverType
  <2>5. Same(P, SumOver(forms, D), SumOver(row, D))
    BY <2>4, PrimeType, SameIsEquivalence, Zenon
  <2>6. Times(Tt[k], f, D) \in Int
    BY <1>1, <1>7, TimesType
  <2>7. Same(P, Times(Tt[k], f, D), SumOver(row, D))
    BY <2>1, <2>2, <2>4, <2>5, <2>6, SameChains, Zenon
  <2>8. QED
    BY <2>7 DEF row, Times
<1>10. QED
  BY <1>7, <1>9

\* The members of D in the order of what m maps them to.
LEMMA SumByImage ==
    ASSUME NEW D, IsFiniteSet(D), NEW N, IsFiniteSet(N), NEW m \in [D -> N],
           NEW a, \A q \in D : a[q] \in Int
    PROVE  SumOver(a, D) = SumOver([j \in N |-> SumOver(a, {q \in D : m[q] = j})], N)
<1> DEFINE b == [qj \in D \X N |-> IF m[qj[1]] = qj[2] THEN a[qj[1]] ELSE 0]
           rows == [q \in D |-> RowSum(b, q, N)]
           columns == [j \in N |-> ColumnSum(b, j, D)]
<1>1. \A q \in D : \A j \in N : b[<<q, j>>] = (IF m[q] = j THEN a[q] ELSE 0) /\ b[<<q, j>>] \in Int
  <2>1. \A q \in D : \A j \in N : b[<<q, j>>] = IF m[q] = j THEN a[q] ELSE 0
    OBVIOUS
  <2> HIDE DEF b
  <2>2. \A q \in D : \A j \in N : b[<<q, j>>] \in Int
    <3> TAKE q \in D
    <3> TAKE j \in N
    <3>1. b[<<q, j>>] = a[q] \/ b[<<q, j>>] = 0
      BY <2>1, Zenon
    <3>2. QED
      BY <3>1
  <2>3. QED
    BY <2>1, <2>2, Zenon
<1> HIDE DEF b
<1>2. SumOver(rows, D) = SumOver(columns, N)
  BY <1>1, SumSwaps
<1>3. \A q \in D : RowSum(b, q, N) = a[q]
  <2> TAKE q \in D
  <2> DEFINE r == [j \in N |-> b[<<q, j>>]]
  <2>1. (\A j \in {m[q]} : r[j] = a[q]) /\ \A j \in N \ {m[q]} : r[j] = 0
    BY <1>1
  <2>2. {m[q]} \in SUBSET N
    OBVIOUS
  <2> HIDE DEF r
  <2>3. SumOver(r, N) = SumOver(r, {m[q]})
    BY <2>1, <2>2, SumOfSome
  <2>4. SumOver(r, {m[q]}) = r[m[q]] + SumOver(r, {m[q]} \ {m[q]})
    <3>1. IsFiniteSet({m[q]})
      BY FS_Singleton
    <3>2. m[q] \in {m[q]}
      OBVIOUS
    <3>3. \A j \in {m[q]} : r[j] \in Int
      BY <2>1
    <3>4. QED
      BY <3>1, <3>2, <3>3, SumOverMember
  <2>5. SumOver(r, {m[q]} \ {m[q]}) = 0
    <3>1. {m[q]} \ {m[q]} = {}
      OBVIOUS
    <3>2. QED
      BY <3>1, SumOverNothing, Zenon
  <2>6. r[m[q]] = a[q] /\ a[q] + 0 = a[q]
    BY <2>1
  <2>7. SumOver(r, N) = a[q]
    BY <2>3, <2>4, <2>5, <2>6, Zenon
  <2>8. QED
    BY <2>7 DEF r, RowSum
<1>4. SumOver(rows, D) = SumOver(a, D)
  <2>1. \A q \in D : rows[q] = a[q]
    BY <1>3
  <2> HIDE DEF rows
  <2>2. QED
    BY <2>1, SumOverSame
<1>5. \A j \in N : ColumnSum(b, j, D) = SumOver(a, {q \in D : m[q] = j})
  <2> TAKE j \in N
  <2> DEFINE c == [q \in D |-> b[<<q, j>>]]
             S == {q \in D : m[q] = j}
  <2>1. S \in SUBSET D /\ (\A q \in S : c[q] = a[q] /\ c[q] \in Int) /\ \A q \in D \ S : c[q] = 0
    BY <1>1
  <2>2. ColumnSum(b, j, D) = SumOver(c, D)
    BY DEF ColumnSum
  <2> HIDE DEF c, S
  <2>3. SumOver(c, D) = SumOver(c, S)
    BY <2>1, SumOfSome
  <2>4. SumOver(c, S) = SumOver(a, S)
    <3>1. IsFiniteSet(S)
      BY <2>1, FS_Subset
    <3>2. QED
      BY <2>1, <3>1, SumOverSame
  <2>5. QED
    BY <2>2, <2>3, <2>4 DEF S
<1>6. columns = [j \in N |-> SumOver(a, {q \in D : m[q] = j})]
  BY <1>5
<1>7. QED
  BY <1>2, <1>4, <1>6, Zenon

\* The displacements of an element's places.
Moved(e) == [q \in Places(e) |-> pDisp[pElemDOF[e][q]]]

\* They are numbers.
LEMMA MovedType ==
    ASSUME LegalInput, Connected, Profiled, pDisp \in Displacements, NEW e \in Elements
    PROVE  /\ Moved(e) \in Vectors(Places(e))
           /\ \A j \in 0 .. nTotalDOF - 1 : pDisp[j] \in Int
<1>1. \A j \in 0 .. nTotalDOF - 1 : pDisp[j] \in Int
  BY PrimeType DEF Displacements, Num
<1>2. \A q \in Places(e) : pElemDOF[e][q] \in 0 .. nTotalDOF - 1
  BY PlaceNumbers
<1>3. QED
  BY <1>1, <1>2 DEF Moved, Vectors

\* A row of an element's matrix times the displacements, number by number.
LEMMA RowByNumbers ==
    ASSUME LegalInput, Connected, Profiled, pDisp \in Displacements, NEW e \in Elements, NEW k \in Places(e)
    PROVE  /\ \A j \in 0 .. nTotalDOF - 1 :
                  SumOver([q \in PlacesOf(e, j) |-> GlobalStiff(e)[k][q]], PlacesOf(e, j)) \in Int
           /\ Times(GlobalStiff(e)[k], Moved(e), Places(e))
                  = SumOver([j \in 0 .. nTotalDOF - 1 |->
                        pDisp[j] * SumOver([q \in PlacesOf(e, j) |-> GlobalStiff(e)[k][q]], PlacesOf(e, j))],
                        0 .. nTotalDOF - 1)
<1> DEFINE D == Places(e)
           N == 0 .. nTotalDOF - 1
           G == GlobalStiff(e)
           m == [q \in D |-> pElemDOF[e][q]]
           a == [q \in D |-> G[k][q] * Moved(e)[q]]
           part(j) == [q \in PlacesOf(e, j) |-> G[k][q]]
<1>1. IsFiniteSet(D) /\ IsFiniteSet(N)
  <2>1. nTotalDOF - 1 \in Int
    BY DEF Profiled
  <2>2. QED
    BY <2>1, PlacesType, FS_Interval
<1>2. m \in [D -> N]
  BY PlaceNumbers
<1>3. \A q \in D : G[k][q] \in Int /\ Moved(e)[q] \in Int /\ Moved(e)[q] = pDisp[m[q]]
  <2>1. \A q \in D : G[k][q] \in Int
    BY ElementStiffness DEF Matrices
  <2>2. \A q \in D : Moved(e)[q] \in Int
    BY MovedType DEF Vectors
  <2>3. \A q \in D : Moved(e)[q] = pDisp[m[q]]
    BY DEF Moved
  <2>4. QED
    BY <2>1, <2>2, <2>3
<1>4. \A j \in N : PlacesOf(e, j) = {q \in D : m[q] = j}
  <2>1. 1 .. Len(pElemDOF[e]) = D
    BY ElementPlaces
  <2>2. QED
    BY <2>1 DEF PlacesOf
<1>5. \A j \in N : pDisp[j] \in Int
  BY MovedType
<1> HIDE DEF D, N, G, m
<1>6. \A q \in D : a[q] \in Int /\ a[q] = pDisp[m[q]] * G[k][q]
  <2>1. \A x, y \in Int : x * y \in Int /\ x * y = y * x
    OBVIOUS
  <2>2. \A q \in D : a[q] = G[k][q] * Moved(e)[q]
    OBVIOUS
  <2> HIDE DEF a
  <2>3. QED
    BY <1>3, <2>1, <2>2
<1>7. Times(G[k], Moved(e), D) = SumOver(a, D)
  BY DEF Times
<1> HIDE DEF a
<1>8. SumOver(a, D) = SumOver([j \in N |-> SumOver(a, {q \in D : m[q] = j})], N)
  BY <1>1, <1>2, <1>6, SumByImage
<1>9. \A j \in N : /\ SumOver(part(j), PlacesOf(e, j)) \in Int
                   /\ SumOver(a, {q \in D : m[q] = j}) = pDisp[j] * SumOver(part(j), PlacesOf(e, j))
  <2> TAKE j \in N
  <2> DEFINE T == PlacesOf(e, j)
             p == part(j)
  <2>1. IsFiniteSet(T) /\ T = {q \in D : m[q] = j}
    BY <1>4, PlacesOfType
  <2>2. \A q \in T : p[q] = G[k][q]
    OBVIOUS
  <2>3. pDisp[j] \in Int
    BY <1>5
  <2> HIDE DEF T, p
  <2>4. \A q \in T : p[q] \in Int /\ a[q] = pDisp[j] * p[q]
    BY <1>3, <1>6, <2>1, <2>2
  <2>5. SumOver(a, T) = pDisp[j] * SumOver(p, T)
    BY <2>1, <2>3, <2>4, SumScales
  <2>6. SumOver(p, T) \in Int
    BY <2>1, <2>4, SumOverType
  <2>7. SumOver(a, {q \in D : m[q] = j}) = SumOver(a, T)
    BY <2>1, Zenon
  <2>8. QED
    BY <2>5, <2>6, <2>7, Zenon DEF T, p
<1> HIDE DEF part
<1>10. [j \in N |-> SumOver(a, {q \in D : m[q] = j})] = [j \in N |-> pDisp[j] * SumOver(part(j), PlacesOf(e, j))]
  BY <1>9
<1>11. Times(G[k], Moved(e), D) = SumOver([j \in N |-> pDisp[j] * SumOver(part(j), PlacesOf(e, j))], N)
  BY <1>7, <1>8, <1>10, Zenon
<1>12. QED
  BY <1>9, <1>11 DEF part, G, D, N

\* The rows of an element that have the number i, times the displacements, are
\* its blocks in row i times these.
LEMMA RowsByBlocks ==
    ASSUME LegalInput, Connected, Profiled, pDisp \in Displacements, NEW e \in Elements, NEW i
    PROVE  LET S == PlacesOf(e, i)
               rows == [k \in S |-> Times(GlobalStiff(e)[k], Moved(e), Places(e))]
               blocks == [j \in 0 .. nTotalDOF - 1 |-> Block(e, i, j) * pDisp[j]]
           IN  /\ \A k \in S : rows[k] \in Int
               /\ \A j \in 0 .. nTotalDOF - 1 : Block(e, i, j) \in Int /\ blocks[j] \in Int
               /\ SumOver(rows, S) \in Int /\ SumOver(blocks, 0 .. nTotalDOF - 1) \in Int
               /\ Same(P, SumOver(rows, S), SumOver(blocks, 0 .. nTotalDOF - 1))
<1> DEFINE S == PlacesOf(e, i)
           N == 0 .. nTotalDOF - 1
           G == GlobalStiff(e)
           part(k, j) == SumOver([q \in PlacesOf(e, j) |-> G[k][q]], PlacesOf(e, j))
           a == [kj \in S \X N |-> pDisp[kj[2]] * part(kj[1], kj[2])]
           rows == [k \in S |-> Times(G[k], Moved(e), Places(e))]
           blocks == [j \in N |-> Block(e, i, j) * pDisp[j]]
           columns == [j \in N |-> ColumnSum(a, j, S)]
<1>0. P \in Nat \ {0}
  BY PrimeType
<1>1. IsFiniteSet(S) /\ S \in SUBSET Places(e) /\ IsFiniteSet(N)
  <2>1. nTotalDOF - 1 \in Int
    BY DEF Profiled
  <2>2. QED
    BY <2>1, PlacesOfType, FS_Interval
<1>2. \A k \in S : /\ \A j \in N : part(k, j) \in Int
                   /\ Times(G[k], Moved(e), Places(e)) = SumOver([j \in N |-> pDisp[j] * part(k, j)], N)
  <2> TAKE k \in S
  <2>1. k \in Places(e)
    BY <1>1
  <2>2. QED
    BY <2>1, RowByNumbers
<1>3. \A j \in N : pDisp[j] \in Int
  BY MovedType
<1>4. \A j \in N : /\ Block(e, i, j) = SumOver([k \in S |-> part(k, j)], S) % P
                   /\ \A k \in S : part(k, j) \in Int
  BY BlockByRows
<1> HIDE DEF S, N, G, part
<1>5. \A k \in S : \A j \in N : a[<<k, j>>] = pDisp[j] * part(k, j) /\ a[<<k, j>>] \in Int
  <2>1. \A k \in S : \A j \in N : a[<<k, j>>] = pDisp[j] * part(k, j)
    OBVIOUS
  <2>2. \A x, y \in Int : x * y \in Int
    OBVIOUS
  <2> HIDE DEF a
  <2>3. \A k \in S : \A j \in N : pDisp[j] * part(k, j) \in Int
    BY <1>2, <1>3, <2>2
  <2>4. QED
    BY <2>1, <2>3, Zenon
<1> HIDE DEF a
<1>6. SumOver([k \in S |-> RowSum(a, k, N)], S) = SumOver(columns, N)
  BY <1>1, <1>5, SumSwaps
<1>7. [k \in S |-> RowSum(a, k, N)] = rows
  <2>1. ASSUME NEW k \in S PROVE RowSum(a, k, N) = Times(G[k], Moved(e), Places(e))
    <3>1. [j \in N |-> a[<<k, j>>]] = [j \in N |-> pDisp[j] * part(k, j)]
      BY <1>5
    <3>2. QED
      BY <1>2, <3>1, Zenon DEF RowSum
  <2>2. QED
    BY <2>1, Zenon
<1>8. \A k \in S : rows[k] \in Int
  <2>1. ASSUME NEW k \in S PROVE RowSum(a, k, N) \in Int
    <3> DEFINE r == [j \in N |-> a[<<k, j>>]]
    <3>1. \A j \in N : r[j] \in Int
      BY <1>5
    <3> HIDE DEF r
    <3>2. SumOver(r, N) \in Int
      BY <1>1, <3>1, SumOverType
    <3>3. QED
      BY <3>2 DEF RowSum, r
  <2>2. \A k \in S : rows[k] = RowSum(a, k, N)
    <3> HIDE DEF rows
    <3>1. QED
      BY <1>7
  <2> HIDE DEF rows
  <2>3. QED
    BY <2>1, <2>2, Zenon
<1>9. \A j \in N : /\ columns[j] \in Int /\ Block(e, i, j) \in Int /\ blocks[j] \in Int
                   /\ Same(P, columns[j], blocks[j])
  <2> TAKE j \in N
  <2> DEFINE c == [k \in S |-> part(k, j)]
             h == [k \in S |-> a[<<k, j>>]]
  <2>1. \A k \in S : c[k] \in Int /\ h[k] = pDisp[j] * c[k]
    BY <1>4, <1>5
  <2>2. Block(e, i, j) = SumOver(c, S) % P
    BY <1>4
  <2>3. columns[j] = SumOver(h, S)
    BY DEF ColumnSum
  <2>4. blocks[j] = Block(e, i, j) * pDisp[j] /\ pDisp[j] \in Int
    BY <1>3
  <2> HIDE DEF c, h, columns, blocks
  <2>5. SumOver(h, S) = pDisp[j] * SumOver(c, S) /\ SumOver(c, S) \in Int
    BY <1>1, <2>1, <2>4, SumScales, SumOverType
  <2>6. PICK s, d, b : s = SumOver(c, S) /\ d = pDisp[j] /\ b = Block(e, i, j)
    OBVIOUS
  <2>7. s \in Int /\ d \in Int /\ b \in Int /\ Same(P, s, b)
    <3>1. s \in Int /\ d \in Int /\ b = s % P
      BY <2>2, <2>4, <2>5, <2>6, Zenon
    <3>2. b \in Int /\ Same(P, b, s)
      BY <1>0, <3>1, SameIsEquivalence, Zenon
    <3>3. QED
      BY <1>0, <3>1, <3>2, SameIsEquivalence, Zenon
  <2>8. Same(P, s * d, b * d)
    BY <2>7, SameScales
  <2>9. columns[j] = s * d /\ blocks[j] = b * d
    <3>1. d * s = s * d
      BY <2>7
    <3>2. QED
      BY <2>3, <2>4, <2>5, <2>6, <3>1, Zenon
  <2>10. s * d \in Int /\ b * d \in Int
    BY <2>7
  <2>11. QED
    BY <2>6, <2>7, <2>8, <2>9, <2>10, Zenon
<1> HIDE DEF rows, blocks, columns
<1>10. /\ Same(P, SumOver(columns, N), SumOver(blocks, N))
       /\ SumOver(columns, N) \in Int /\ SumOver(blocks, N) \in Int
  BY <1>0, <1>1, <1>9, SumReduces, SumOverType
<1>11. SumOver(rows, S) = SumOver(columns, N)
  BY <1>6, <1>7, Zenon
<1>12. /\ \A k \in S : rows[k] \in Int
       /\ \A j \in N : Block(e, i, j) \in Int /\ blocks[j] \in Int
       /\ SumOver(rows, S) \in Int /\ SumOver(blocks, N) \in Int
       /\ Same(P, SumOver(rows, S), SumOver(blocks, N))
  BY <1>8, <1>9, <1>10, <1>11, Zenon
<1>13. QED
  BY <1>12 DEF rows, blocks, S, N, G

\* The elements together: their rows with the number i, times the displacements,
\* are the row of the stiffness times these.
LEMMA ElementsMakeStiffness ==
    ASSUME LegalInput, Connected, Profiled, pDisp \in Displacements, NEW i
    PROVE  LET N == 0 .. nTotalDOF - 1
               answers == [e \in Elements |->
                   SumOver([k \in PlacesOf(e, i) |-> Times(GlobalStiff(e)[k], Moved(e), Places(e))], PlacesOf(e, i))]
               row == [j \in N |-> Stiffness(i, j) * pDisp[j]]
           IN  /\ \A e \in Elements : answers[e] \in Int
               /\ \A j \in N : Stiffness(i, j) \in Int /\ row[j] \in Int
               /\ Same(P, SumOver(answers, Elements), SumOver(row, N))
<1> DEFINE E == Elements
           N == 0 .. nTotalDOF - 1
           answers == [e \in E |->
               SumOver([k \in PlacesOf(e, i) |-> Times(GlobalStiff(e)[k], Moved(e), Places(e))], PlacesOf(e, i))]
           a == [ej \in E \X N |-> Block(ej[1], i, ej[2]) * pDisp[ej[2]]]
           sums == [e \in E |-> RowSum(a, e, N)]
           columns == [j \in N |-> ColumnSum(a, j, E)]
           row == [j \in N |-> Stiffness(i, j) * pDisp[j]]
<1>0. P \in Nat \ {0}
  BY PrimeType
<1>1. IsFiniteSet(E) /\ IsFiniteSet(N)
  <2>1. nTotalDOF - 1 \in Int
    BY DEF Profiled
  <2>2. QED
    BY <2>1, ElementsFinite, FS_Interval
<1>2. \A j \in N : pDisp[j] \in Int /\ Stiffness(i, j) = Total([e \in E |-> Block(e, i, j)])
  BY StiffnessIsBlocks, PrimeType DEF Displacements, Num
<1>3. \A e \in E : /\ answers[e] \in Int /\ sums[e] \in Int /\ Same(P, answers[e], sums[e])
                   /\ \A j \in N : /\ Block(e, i, j) \in Int
                                   /\ a[<<e, j>>] = Block(e, i, j) * pDisp[j] /\ a[<<e, j>>] \in Int
  <2> TAKE e \in E
  <2> DEFINE blocks == [j \in N |-> Block(e, i, j) * pDisp[j]]
             r == [k \in PlacesOf(e, i) |-> Times(GlobalStiff(e)[k], Moved(e), Places(e))]
  <2>1. /\ \A j \in N : Block(e, i, j) \in Int /\ blocks[j] \in Int
        /\ SumOver(r, PlacesOf(e, i)) \in Int /\ SumOver(blocks, N) \in Int
        /\ Same(P, SumOver(r, PlacesOf(e, i)), SumOver(blocks, N))
    BY RowsByBlocks
  <2>2. \A j \in N : a[<<e, j>>] = blocks[j] /\ blocks[j] = Block(e, i, j) * pDisp[j]
    OBVIOUS
  <2>3. answers[e] = SumOver(r, PlacesOf(e, i)) /\ sums[e] = RowSum(a, e, N)
    OBVIOUS
  <2> HIDE DEF a, answers, sums, r
  <2>4. [j \in N |-> a[<<e, j>>]] = blocks
    BY <2>2
  <2> HIDE DEF blocks
  <2>5. RowSum(a, e, N) = SumOver(blocks, N)
    BY <2>4, Zenon DEF RowSum
  <2>6. QED
    BY <2>1, <2>2, <2>3, <2>5, Zenon
<1> HIDE DEF a
<1>4. SumOver(sums, E) = SumOver(columns, N)
  <2>1. \A e \in E : \A j \in N : a[<<e, j>>] \in Int
    BY <1>3
  <2> HIDE DEF E, N
  <2>2. QED
    BY <1>1, <2>1, SumSwaps
<1>5. \A j \in N : /\ columns[j] \in Int /\ Stiffness(i, j) \in Int /\ row[j] \in Int
                   /\ Same(P, columns[j], row[j])
  <2> TAKE j \in N
  <2> DEFINE c == [e \in E |-> Block(e, i, j)]
             h == [e \in E |-> a[<<e, j>>]]
  <2>1. \A e \in E : c[e] \in Int /\ h[e] = pDisp[j] * c[e]
    <3>1. \A e \in E : Block(e, i, j) \in Int /\ pDisp[j] \in Int /\ h[e] = Block(e, i, j) * pDisp[j]
      BY <1>2, <1>3
    <3>2. \A x, y \in Int : x * y = y * x
      OBVIOUS
    <3> HIDE DEF h
    <3>3. QED
      BY <3>1, <3>2
  <2>2. Stiffness(i, j) = Total(c) /\ DOMAIN c = E
    BY <1>2
  <2>3. columns[j] = SumOver(h, E)
    BY DEF ColumnSum
  <2>4. row[j] = Stiffness(i, j) * pDisp[j] /\ pDisp[j] \in Int
    BY <1>2
  <2> HIDE DEF c, h, columns, row, E, N
  <2>5. SumOver(h, E) = pDisp[j] * SumOver(c, E) /\ SumOver(c, E) \in Int
    BY <1>1, <2>1, <2>4, SumScales, SumOverType
  <2>6. Total(c) \in Int /\ Same(P, Total(c), SumOver(c, E))
    BY <1>1, <2>1, <2>2, TotalType
  <2>7. PICK s, d, b : s = SumOver(c, E) /\ d = pDisp[j] /\ b = Stiffness(i, j)
    OBVIOUS
  <2>8. s \in Int /\ d \in Int /\ b \in Int /\ Same(P, s, b)
    <3>1. s \in Int /\ d \in Int /\ b \in Int /\ Same(P, b, s)
      BY <2>2, <2>4, <2>5, <2>6, <2>7, Zenon
    <3>2. QED
      BY <1>0, <3>1, SameIsEquivalence, Zenon
  <2>9. Same(P, s * d, b * d)
    BY <2>8, SameScales
  <2>10. columns[j] = s * d /\ row[j] = b * d
    <3>1. d * s = s * d
      BY <2>8
    <3>2. QED
      BY <2>3, <2>4, <2>5, <2>7, <3>1, Zenon
  <2>11. s * d \in Int /\ b * d \in Int
    BY <2>8
  <2>12. QED
    BY <2>7, <2>8, <2>9, <2>10, <2>11, Zenon
<1>6. \A e \in E : answers[e] \in Int /\ sums[e] \in Int /\ Same(P, answers[e], sums[e])
  BY <1>3
<1> HIDE DEF E, N, answers, sums, columns, row
<1>7. Same(P, SumOver(answers, E), SumOver(sums, E)) /\ SumOver(answers, E) \in Int /\ SumOver(sums, E) \in Int
  BY <1>0, <1>1, <1>6, SumReduces, SumOverType
<1>8. Same(P, SumOver(columns, N), SumOver(row, N)) /\ SumOver(columns, N) \in Int /\ SumOver(row, N) \in Int
  BY <1>0, <1>1, <1>5, SumReduces, SumOverType
<1>9. Same(P, SumOver(answers, E), SumOver(row, N))
  BY <1>4, <1>7, <1>8, SameChains, Zenon
<1>10. QED
  BY <1>5, <1>6, <1>9 DEF E, N, answers, row

\* The loads on an element; a truss has none.
LEMMA LoadsOnType ==
    ASSUME LegalInput, NEW e \in Elements
    PROVE  /\ \A k \in LoadsOn(e) : /\ k \in DOMAIN loads /\ loads[k].type \in MemberLoads
                                    /\ loads[k].elem = e /\ ~IsTruss(e)
           /\ HeldEnds(e) \in [1 .. 6 -> Num]
           /\ IsTruss(e) => HeldEnds(e) = VectorZeroize(1 .. 6)
           /\ OneLoadPerElement => \A k \in LoadsOn(e) : LoadsOn(e) = {k} /\ HeldEnds(e) = KeptForces(loads[k])
<1>1. \A k \in LoadsOn(e) : k \in DOMAIN loads /\ loads[k].type \in MemberLoads /\ loads[k].elem = e
  BY DEF LoadsOn
<1>2. \A k \in LoadsOn(e) : ~IsTruss(e)
  <2> TAKE k \in LoadsOn(e)
  <2>1. structure.elem[loads[k].elem].type = "frame"
    BY <1>1, SMTT(30) DEF LegalInput, LegalLoads, MemberLoads
  <2>2. QED
    BY <1>1, <2>1 DEF IsTruss
<1>3. HeldEnds(e) \in [1 .. 6 -> Num]
  <2>1. CASE LoadsOn(e) = {}
    <3>1. 0 \in Num
      BY PrimeType DEF Num
    <3>2. QED
      BY <2>1, <3>1 DEF HeldEnds, VectorZeroize
  <2>2. CASE LoadsOn(e) # {}
    <3>1. PICK k : k = CHOOSE m \in LoadsOn(e) : TRUE
      OBVIOUS
    <3>2. k \in LoadsOn(e)
      BY <2>2, <3>1, Zenon
    <3>3. HeldEnds(e) = KeptForces(loads[k])
      BY <2>2, <3>1, Zenon DEF HeldEnds
    <3>4. QED
      BY <1>1, <3>2, <3>3, KeptType
  <2>3. QED
    BY <2>1, <2>2
<1>4. IsTruss(e) => HeldEnds(e) = VectorZeroize(1 .. 6)
  <2>1. IsTruss(e) => LoadsOn(e) = {}
    BY <1>2
  <2>2. QED
    BY <2>1, Zenon DEF HeldEnds
<1>5. ASSUME OneLoadPerElement, NEW k \in LoadsOn(e)
      PROVE  LoadsOn(e) = {k} /\ HeldEnds(e) = KeptForces(loads[k])
  <2>1. \A m \in LoadsOn(e) : m = k
    BY <1>1, <1>5 DEF OneLoadPerElement
  <2>2. LoadsOn(e) = {k}
    BY <1>5, <2>1
  <2>3. (CHOOSE m \in LoadsOn(e) : TRUE) = k
    BY <2>1, <2>2, Zenon
  <2>4. LoadsOn(e) # {}
    BY <1>5
  <2>5. QED
    BY <2>2, <2>3, <2>4, Zenon DEF HeldEnds
<1>6. QED
  BY <1>1, <1>2, <1>3, <1>4, <1>5

\* The held end forces at the places of the element.
Ends(e) == IF IsTruss(e) THEN VectorZeroize(1 .. 4) ELSE HeldEnds(e)

\* The end forces of an element fit its rotation.
LEMMA EndsType ==
    ASSUME LegalInput, NEW e \in Elements
    PROVE  /\ Ends(e) \in Vectors(Places(e))
           /\ MatrixTrans(Rotation(e)) \in Matrices(Places(e))
           /\ \A k \in Places(e) : /\ MatrixTrans(Rotation(e))[k] \in Vectors(Places(e))
                                   /\ Times(MatrixTrans(Rotation(e))[k], Ends(e), Places(e)) \in Int
<1> DEFINE D == Places(e)
<1>1. Ends(e) \in Vectors(D)
  <2>1. CASE IsTruss(e)
    BY <2>1 DEF Ends, VectorZeroize, Vectors, Places
  <2>2. CASE ~IsTruss(e)
    <3>1. HeldEnds(e) \in [1 .. 6 -> Num]
      BY LoadsOnType
    <3>2. Num \in SUBSET Int
      BY PrimeType DEF Num
    <3>3. QED
      BY <2>2, <3>1, <3>2 DEF Ends, Vectors, Places
  <2>3. QED
    BY <2>1, <2>2
<1>2. IsFiniteSet(D) /\ 1 \in D /\ Rotation(e) \in Matrices(D)
  BY PlacesType, ElementStiffness
<1> HIDE DEF D
<1>3. MatrixTrans(Rotation(e)) \in Matrices(D)
  BY <1>2, MatrixTransType
<1>4. \A k \in D : MatrixTrans(Rotation(e))[k] \in Vectors(D)
  BY <1>3 DEF Matrices, Vectors
<1>5. \A k \in D : Times(MatrixTrans(Rotation(e))[k], Ends(e), D) \in Int
  BY <1>1, <1>2, <1>4, TimesType
<1>6. QED
  BY <1>1, <1>3, <1>4, <1>5 DEF D

\* What a load does to the nodes is, turned, the opposite of what holds the element.
LEMMA ClampIsOpposite ==
    ASSUME LegalInput, OneLoadPerElement, NEW e \in Elements, NEW m \in LoadsOn(e), NEW q \in Places(e)
    PROVE  /\ ClampForces(loads[m])[q] \in Int
           /\ Same(P, Times(MatrixTrans(Rotation(e))[q], Ends(e), Places(e)), -ClampForces(loads[m])[q])
<1> DEFINE Tt == MatrixTrans(Rotation(e))
           D == Places(e)
           kept == KeptForces(loads[m])
           neg == [k \in 1 .. 6 |-> -kept[k]]
<1>0. P \in Nat \ {0}
  BY PrimeType
<1>1. /\ m \in DOMAIN loads /\ loads[m].type \in MemberLoads /\ loads[m].elem = e /\ ~IsTruss(e)
      /\ HeldEnds(e) = kept
  BY LoadsOnType
<1>2. D = 1 .. 6 /\ Ends(e) = kept
  BY <1>1 DEF Places, Ends
<1>3. IsFiniteSet(D) /\ Tt \in Matrices(D) /\ Tt[q] \in Vectors(D) /\ kept \in Vectors(D)
  BY <1>2, EndsType, PlacesType
<1>4. ClampForces(loads[m]) = MatrixVectorMultiply(Tt, neg)
  BY <1>1 DEF ClampForces
<1> HIDE DEF Tt, kept, D
<1>5. neg = [k \in D |-> kept[k] * (-1)] /\ neg \in Vectors(D)
  <2>1. \A k \in D : kept[k] \in Int
    BY <1>3 DEF Vectors
  <2>2. \A k \in D : -kept[k] = kept[k] * (-1) /\ -kept[k] \in Int
    BY <2>1
  <2>3. QED
    BY <1>2, <2>2 DEF Vectors
<1> HIDE DEF neg
<1>6. PICK c, t : c = ClampForces(loads[m])[q] /\ t = Times(Tt[q], kept, D)
  OBVIOUS
<1>7. MatrixVectorMultiply(Tt, neg) \in Vectors(D) /\ Same(P, c, Times(Tt[q], neg, D))
  <2>1. q \in D
    BY DEF D
  <2>2. QED
    BY <1>3, <1>4, <1>5, <1>6, <2>1, MatrixVectorMultiplySame
<1>8. c \in Int /\ t \in Int
  <2>1. q \in D
    BY DEF D
  <2>2. c \in Int
    BY <1>4, <1>6, <1>7, <2>1 DEF Vectors
  <2>3. QED
    BY <1>3, <1>6, <2>2, TimesType
<1>9. Times(Tt[q], neg, D) = t * (-1)
  BY <1>3, <1>5, <1>6, TimesScales
<1>10. Same(P, c * (-1), (t * (-1)) * (-1))
  <2>1. t * (-1) \in Int /\ -1 \in Int
    BY <1>8
  <2>2. Same(P, c, t * (-1))
    BY <1>7, <1>9, Zenon
  <2>3. QED
    BY <1>8, <2>1, <2>2, SameScales
<1>11. c * (-1) = -c /\ (t * (-1)) * (-1) = t /\ -c \in Int
  BY <1>8
<1>12. Same(P, t, -c)
  <2>1. Same(P, -c, t)
    BY <1>10, <1>11, Zenon
  <2>2. QED
    BY <1>0, <1>8, <1>11, <2>1, SameIsEquivalence, Zenon
<1>13. QED
  BY <1>2, <1>6, <1>8, <1>12 DEF Tt, D

\* What element e is held with in row i is the opposite of what its loads do there.
LEMMA HeldEndsOfElement ==
    ASSUME LegalInput, Connected, OneLoadPerElement, NEW e \in Elements, NEW i
    PROVE  LET S == PlacesOf(e, i)
               held == [k \in S |-> Times(MatrixTrans(Rotation(e))[k], Ends(e), Places(e))]
               given == [m \in LoadsOn(e) |-> OnMember(m, i)]
           IN  /\ \A k \in S : held[k] \in Int
               /\ SumOver(held, S) \in Int /\ SumOver(given, LoadsOn(e)) \in Int
               /\ Same(P, SumOver(held, S), -SumOver(given, LoadsOn(e)))
<1> DEFINE S == PlacesOf(e, i)
           Tt == MatrixTrans(Rotation(e))
           D == Places(e)
           held == [k \in S |-> Times(Tt[k], Ends(e), D)]
           given == [m \in LoadsOn(e) |-> OnMember(m, i)]
<1>0. P \in Nat \ {0}
  BY PrimeType
<1>1. IsFiniteSet(S) /\ S \in SUBSET D
  BY PlacesOfType
<1>2. \A k \in S : held[k] \in Int /\ held[k] = Times(Tt[k], Ends(e), D)
  BY <1>1, EndsType
<1> HIDE DEF Tt, held
<1>3. SumOver(held, S) \in Int
  <2> HIDE DEF S
  <2>1. QED
    BY <1>1, <1>2, SumOverType
<1>4. CASE LoadsOn(e) = {}
  <2>1. \A k \in D : Ends(e)[k] = 0
    <3>1. HeldEnds(e) = VectorZeroize(1 .. 6)
      BY <1>4 DEF HeldEnds
    <3>2. QED
      BY <3>1 DEF Ends, Places, VectorZeroize
  <2>2. \A k \in S : held[k] = 0
    <3> TAKE k \in S
    <3> DEFINE f == [l \in D |-> Tt[k][l] * Ends(e)[l]]
    <3>1. \A l \in D : Tt[k][l] \in Int
      BY <1>1, EndsType DEF Vectors, Tt
    <3>2. \A l \in D : f[l] = 0
      <4>1. \A x \in Int : x * 0 = 0
        OBVIOUS
      <4>2. QED
        BY <2>1, <3>1, <4>1
    <3>3. held[k] = SumOver(f, D)
      BY <1>2 DEF Times
    <3> HIDE DEF f, D
    <3>4. SumOver(f, D) = SumOver(f, {})
      <4>1. IsFiniteSet(D)
        BY PlacesType DEF D
      <4>2. {} \in SUBSET D /\ (\A x \in {} : f[x] \in Int) /\ \A x \in D \ {} : f[x] = 0
        BY <3>2
      <4>3. QED
        BY <4>1, <4>2, SumOfSome
    <3>5. QED
      BY <3>3, <3>4, SumOverNothing, Zenon
  <2>3. SumOver(held, S) = 0
    <3> HIDE DEF S
    <3>1. {} \in SUBSET S /\ (\A x \in {} : held[x] \in Int) /\ \A x \in S \ {} : held[x] = 0
      BY <2>2
    <3>2. SumOver(held, S) = SumOver(held, {})
      BY <1>1, <3>1, SumOfSome
    <3>3. QED
      BY <3>2, SumOverNothing, Zenon
  <2>4. SumOver(given, LoadsOn(e)) = 0
    BY <1>4, SumOverNothing, Zenon
  <2>5. 0 \in Int /\ -0 = 0
    <3>1. \A x, y \in Int : y + x = 0 => y = -x
      OBVIOUS
    <3>2. 0 \in Int /\ 0 + 0 = 0
      OBVIOUS
    <3>3. QED
      BY <3>1, <3>2, Zenon
  <2> HIDE DEF S, given
  <2>6. Same(P, SumOver(held, S), -SumOver(given, LoadsOn(e)))
    BY <1>0, <2>3, <2>4, <2>5, SameIsEquivalence, Zenon
  <2>7. QED
    BY <1>2, <1>3, <2>4, <2>5, <2>6 DEF S, given, held, Tt
<1>5. CASE LoadsOn(e) # {}
  <2>1. PICK m : m \in LoadsOn(e)
    BY <1>5
  <2>2. /\ m \in DOMAIN loads /\ loads[m].type \in MemberLoads /\ loads[m].elem = e /\ ~IsTruss(e)
        /\ LoadsOn(e) = {m}
    BY <2>1, LoadsOnType
  <2> DEFINE c == [q \in S |-> ClampForces(loads[m])[q]]
             n == [q \in S |-> -c[q]]
  <2>3. S = {q \in 1 .. 6 : pElemDOF[loads[m].elem][q] = i}
    <3>1. 1 .. Len(pElemDOF[e]) = D
      BY ElementPlaces
    <3>2. D = 1 .. 6
      BY <2>2 DEF Places
    <3>3. QED
      BY <2>2, <3>1, <3>2 DEF PlacesOf
  <2>4. OnMember(m, i) = Total(c) /\ DOMAIN c = S
    BY <2>3 DEF OnMember
  <2>5. \A q \in S : c[q] \in Int /\ Same(P, held[q], -c[q])
    <3> TAKE q \in S
    <3>1. q \in Places(e)
      BY <1>1
    <3>2. QED
      BY <1>2, <2>1, <3>1, ClampIsOpposite DEF Tt
  <2> HIDE DEF S, D
  <2>6. \A q \in S : n[q] = (-1) * c[q] /\ n[q] \in Int /\ Same(P, held[q], n[q])
    <3>1. \A q \in S : n[q] = -c[q]
      OBVIOUS
    <3> HIDE DEF n, c
    <3>2. \A x \in Int : -x = (-1) * x /\ -x \in Int
      OBVIOUS
    <3>3. QED
      BY <2>5, <3>1, <3>2
  <2> HIDE DEF c, n
  <2>7. /\ Total(c) \in Int /\ SumOver(c, S) \in Int /\ Same(P, Total(c), SumOver(c, S))
        /\ SumOver(n, S) = (-1) * SumOver(c, S)
        /\ Same(P, SumOver(held, S), SumOver(n, S))
    <3>1. Total(c) \in Int /\ SumOver(c, S) \in Int /\ Same(P, Total(c), SumOver(c, S))
      BY <1>1, <2>4, <2>5, TotalType
    <3>2. -1 \in Int
      OBVIOUS
    <3>3. SumOver(n, S) = (-1) * SumOver(c, S)
      BY <1>1, <2>5, <2>6, <3>2, SumScales
    <3>4. Same(P, SumOver(held, S), SumOver(n, S))
      BY <1>0, <1>1, <1>2, <2>6, SumReduces
    <3>5. QED
      BY <3>1, <3>3, <3>4
  <2>8. SumOver(given, LoadsOn(e)) = Total(c)
    <3>1. IsFiniteSet(LoadsOn(e)) /\ m \in LoadsOn(e) /\ LoadsOn(e) \ {m} = {}
      BY <2>2, FS_Singleton
    <3>2. \A x \in LoadsOn(e) : given[x] = Total(c) /\ given[x] \in Int
      BY <2>2, <2>4, <2>7
    <3> HIDE DEF given
    <3>3. SumOver(given, LoadsOn(e)) = given[m] + SumOver(given, LoadsOn(e) \ {m})
      BY <3>1, <3>2, SumOverMember
    <3>4. SumOver(given, LoadsOn(e) \ {m}) = 0
      BY <3>1, SumOverNothing, Zenon
    <3>5. QED
      BY <2>7, <3>1, <3>2, <3>3, <3>4
  <2>9. PICK x, y, z : x = SumOver(held, S) /\ y = SumOver(c, S) /\ z = Total(c)
    OBVIOUS
  <2>10. x \in Int /\ y \in Int /\ z \in Int /\ Same(P, z, y) /\ Same(P, x, (-1) * y)
    BY <1>3, <2>7, <2>9, Zenon
  <2>11. Same(P, x, -z)
    <3>1. -1 \in Int /\ (-1) * y \in Int /\ (-1) * z = -z /\ -z \in Int
      BY <2>10
    <3>2. Same(P, y, z)
      BY <1>0, <2>10, SameIsEquivalence, Zenon
    <3>3. Same(P, (-1) * y, (-1) * z)
      BY <2>10, <3>1, <3>2, SameScales
    <3>4. QED
      BY <2>10, <3>1, <3>3, SameChains, Zenon
  <2>12. Same(P, SumOver(held, S), -SumOver(given, LoadsOn(e)))
    BY <2>8, <2>9, <2>11, Zenon
  <2>13. SumOver(given, LoadsOn(e)) \in Int
    BY <2>7, <2>8, Zenon
  <2> HIDE DEF given
  <2>14. QED
    BY <1>2, <1>3, <2>12, <2>13 DEF S, given, held, Tt, D
<1>6. QED
  BY <1>4, <1>5

\* All elements together are held with the opposite of what their loads do.
LEMMA HeldEndsAddUp ==
    ASSUME LegalInput, Connected, OneLoadPerElement, NEW i
    PROVE  LET held == [e \in Elements |->
                   SumOver([k \in PlacesOf(e, i) |-> Times(MatrixTrans(Rotation(e))[k], Ends(e), Places(e))],
                           PlacesOf(e, i))]
           IN  /\ \A e \in Elements : held[e] \in Int
               /\ MemberForce(i) \in Int
               /\ Same(P, SumOver(held, Elements), -MemberForce(i))
<1> DEFINE E == Elements
           B == {k \in DOMAIN loads : loads[k].type \in MemberLoads}
           m == [k \in B |-> loads[k].elem]
           a == [k \in B |-> OnMember(k, i)]
           held == [e \in E |->
                   SumOver([k \in PlacesOf(e, i) |-> Times(MatrixTrans(Rotation(e))[k], Ends(e), Places(e))],
                           PlacesOf(e, i))]
           given == [e \in E |-> SumOver(a, {k \in B : m[k] = e})]
           minus == [e \in E |-> -given[e]]
<1>0. P \in Nat \ {0}
  BY PrimeType
<1>1. IsFiniteSet(E) /\ IsFiniteSet(B)
  <2>1. IsFiniteSet(DOMAIN loads)
    <3>1. DOMAIN loads = 1 .. Len(loads) /\ Len(loads) \in Nat
      BY LoadsType DEF LegalInput
    <3>2. QED
      BY <3>1, FS_Interval
  <2>2. B \in SUBSET DOMAIN loads
    OBVIOUS
  <2>3. IsFiniteSet(B)
    BY <2>1, <2>2, FS_Subset
  <2>4. QED
    BY <2>3, ElementsFinite
<1>2. m \in [B -> E]
  <2>1. \A k \in B : loads[k].elem \in E
    BY ClampType
  <2>2. QED
    BY <2>1
<1>3. \A k \in B : a[k] \in Int
  BY OnMemberType
<1>4. MemberForce(i) = Total(a) /\ DOMAIN a = B
  BY DEF MemberForce, OnMember
<1>5. \A e \in E : /\ held[e] \in Int /\ given[e] \in Int /\ minus[e] = (-1) * given[e] /\ minus[e] \in Int
                   /\ Same(P, held[e], minus[e])
  <2> TAKE e \in E
  <2> DEFINE L == LoadsOn(e)
             g == [k \in L |-> OnMember(k, i)]
             h == [k \in PlacesOf(e, i) |-> Times(MatrixTrans(Rotation(e))[k], Ends(e), Places(e))]
  <2>1. SumOver(h, PlacesOf(e, i)) \in Int /\ SumOver(g, L) \in Int
        /\ Same(P, SumOver(h, PlacesOf(e, i)), -SumOver(g, L))
    BY HeldEndsOfElement
  <2>2. {k \in B : m[k] = e} = L /\ L \in SUBSET B
    BY DEF LoadsOn
  <2>3. held[e] = SumOver(h, PlacesOf(e, i)) /\ given[e] = SumOver(a, {k \in B : m[k] = e}) /\ minus[e] = -given[e]
    OBVIOUS
  <2>4. \A k \in L : a[k] = g[k]
    BY <2>2
  <2> HIDE DEF L, g, h, a, B, m, held, given, minus
  <2>5. SumOver(a, L) = SumOver(g, L)
    <3>1. IsFiniteSet(L)
      BY <1>1, <2>2, FS_Subset
    <3>2. QED
      BY <2>4, <3>1, SumOverSame
  <2>6. held[e] \in Int /\ given[e] \in Int /\ Same(P, held[e], -given[e])
    BY <2>1, <2>2, <2>3, <2>5, Zenon
  <2>7. -given[e] = (-1) * given[e] /\ -given[e] \in Int
    BY <2>6
  <2>8. QED
    BY <2>3, <2>6, <2>7, Zenon
<1> HIDE DEF B, m, a, held, E
<1>6. SumOver(a, B) = SumOver(given, E)
  BY <1>1, <1>2, <1>3, SumByImage
<1> HIDE DEF given, minus
<1>7. /\ Same(P, SumOver(held, E), SumOver(minus, E))
      /\ SumOver(minus, E) = (-1) * SumOver(given, E)
      /\ SumOver(held, E) \in Int /\ SumOver(given, E) \in Int
  <2>1. -1 \in Int
    OBVIOUS
  <2>2. SumOver(minus, E) = (-1) * SumOver(given, E)
    BY <1>1, <1>5, <2>1, SumScales
  <2>3. Same(P, SumOver(held, E), SumOver(minus, E))
    BY <1>0, <1>1, <1>5, SumReduces
  <2>4. QED
    BY <1>1, <1>5, <2>2, <2>3, SumOverType
<1>8. Total(a) \in Int /\ Same(P, Total(a), SumOver(a, B)) /\ SumOver(a, B) \in Int
  BY <1>1, <1>3, <1>4, TotalType
<1>9. PICK x, y, z : x = SumOver(held, E) /\ y = SumOver(a, B) /\ z = MemberForce(i)
  OBVIOUS
<1>10. x \in Int /\ y \in Int /\ z \in Int /\ Same(P, z, y) /\ Same(P, x, (-1) * y)
  BY <1>4, <1>6, <1>7, <1>8, <1>9, Zenon
<1>11. Same(P, x, -z)
  <2>1. -1 \in Int /\ (-1) * y \in Int /\ (-1) * z = -z /\ -z \in Int
    BY <1>10
  <2>2. Same(P, y, z)
    BY <1>0, <1>10, SameIsEquivalence, Zenon
  <2>3. Same(P, (-1) * y, (-1) * z)
    BY <1>10, <2>1, <2>2, SameScales
  <2>4. QED
    BY <1>10, <2>1, <2>3, SameChains, Zenon
<1>12. QED
  BY <1>5, <1>9, <1>10, <1>11 DEF held, E

-----------------------------------------------------------------------------
(* The forces at the nodes. *)

\* What InternalForceCalcu leaves in the end forces of an element, and what is
\* turned of that.
NewForce(e) == [k \in 1 .. 6 |-> (daEndInterForce[e][k] + EndForces(e)[k]) % P]
AtPlaces(e, f) == IF IsTruss(e) THEN <<f[1], f[2], f[4], f[5]>> ELSE f
Answer(e) == MatrixVectorMultiply(LocalStiff(e), MatrixVectorMultiply(Rotation(e), Moved(e)))

\* It is the element's answer to its displacements and what it is held with.
LEMMA NewForceIs ==
    ASSUME LegalInput, Connected, Profiled, pDisp \in Displacements, NEW e \in Elements,
           elemStiff[e] = LocalStiff(e), daEndInterForce[e] = HeldEnds(e)
    PROVE  /\ Answer(e) \in Vectors(Places(e))
           /\ AtPlaces(e, NewForce(e)) \in Vectors(Places(e))
           /\ \A k \in Places(e) : Same(P, AtPlaces(e, NewForce(e))[k], Answer(e)[k] + Ends(e)[k])
<1> DEFINE D == Places(e)
           r == Answer(e)
           n == NewForce(e)
<1>0. P \in Nat \ {0}
  BY PrimeType
<1>1. r \in Vectors(D)
  <2>1. Moved(e) \in Vectors(D)
    BY MovedType
  <2>2. IsFiniteSet(D) /\ Rotation(e) \in Matrices(D) /\ LocalStiff(e) \in Matrices(D)
    BY ElementStiffness, PlacesType
  <2> HIDE DEF D
  <2>3. MatrixVectorMultiply(Rotation(e), Moved(e)) \in Vectors(D)
    BY <2>1, <2>2, MatrixVectorMultiplySame
  <2>4. QED
    BY <2>2, <2>3, MatrixVectorMultiplySame DEF Answer
<1>2. EndForces(e) = IF IsTruss(e) THEN <<r[1], r[2], 0, r[3], r[4], 0>> ELSE r
  <2>1. [k \in 1 .. Len(pElemDOF[e]) |-> pDisp[pElemDOF[e][k]]] = Moved(e)
    BY ElementPlaces DEF Moved
  <2>2. MatrixVectorMultiply(elemStiff[e],
            MatrixVectorMultiply(Rotation(e), [k \in 1 .. Len(pElemDOF[e]) |-> pDisp[pElemDOF[e][k]]])) = r
    BY <2>1, Zenon DEF Answer
  <2> HIDE DEF r
  <2>3. QED
    BY <2>2, Zenon DEF EndForces
<1>3. Ends(e) \in Vectors(D)
  BY EndsType
<1>4. \A x, y \in Int : (x + y) % P \in Int /\ Same(P, (x + y) % P, y + x)
  <2> TAKE x, y \in Int
  <2>1. x + y = y + x /\ x + y \in Int
    OBVIOUS
  <2>2. QED
    BY <1>0, <2>1, SameIsEquivalence
<1>5. CASE ~IsTruss(e)
  <2>1. D = 1 .. 6 /\ AtPlaces(e, n) = n /\ Ends(e) = HeldEnds(e) /\ EndForces(e) = r
    BY <1>2, <1>5 DEF Places, AtPlaces, Ends
  <2>2. n = [k \in D |-> (Ends(e)[k] + r[k]) % P]
    BY <2>1 DEF NewForce
  <2> HIDE DEF n, r, D
  <2>3. \A k \in D : Ends(e)[k] \in Int /\ r[k] \in Int
    BY <1>1, <1>3 DEF Vectors
  <2>4. \A k \in D : (Ends(e)[k] + r[k]) % P \in Int /\ Same(P, (Ends(e)[k] + r[k]) % P, r[k] + Ends(e)[k])
    BY <1>4, <2>3
  <2>5. n \in Vectors(D) /\ \A k \in D : Same(P, n[k], r[k] + Ends(e)[k])
    BY <2>2, <2>4 DEF Vectors
  <2>6. QED
    BY <1>1, <2>1, <2>5 DEF n, r, D
<1>6. CASE IsTruss(e)
  <2>1. D = 1 .. 4 /\ AtPlaces(e, n) = <<n[1], n[2], n[4], n[5]>> /\ Ends(e) = VectorZeroize(1 .. 4)
    BY <1>6 DEF Places, AtPlaces, Ends
  <2>2. \A k \in 1 .. 6 : daEndInterForce[e][k] = 0
    <3>1. HeldEnds(e) = VectorZeroize(1 .. 6)
      BY <1>6, LoadsOnType
    <3>2. QED
      BY <3>1 DEF VectorZeroize
  <2>3. /\ n[1] = (daEndInterForce[e][1] + EndForces(e)[1]) % P
        /\ n[2] = (daEndInterForce[e][2] + EndForces(e)[2]) % P
        /\ n[4] = (daEndInterForce[e][4] + EndForces(e)[4]) % P
        /\ n[5] = (daEndInterForce[e][5] + EndForces(e)[5]) % P
    BY DEF NewForce
  <2> HIDE DEF n, r, D
  <2>4. /\ EndForces(e)[1] = r[1] /\ EndForces(e)[2] = r[2]
        /\ EndForces(e)[4] = r[3] /\ EndForces(e)[5] = r[4]
    BY <1>2, <1>6
  <2>5. n[1] = (0 + r[1]) % P /\ n[2] = (0 + r[2]) % P /\ n[4] = (0 + r[3]) % P /\ n[5] = (0 + r[4]) % P
    BY <2>2, <2>3, <2>4
  <2>6. \A k \in 1 .. 4 : Ends(e)[k] = 0 /\ r[k] \in Int
    BY <1>1, <2>1 DEF VectorZeroize, Vectors
  <2>7. \A k \in 1 .. 4 : (0 + r[k]) % P \in Int /\ Same(P, (0 + r[k]) % P, r[k] + 0)
    <3>1. 0 \in Int
      OBVIOUS
    <3>2. QED
      BY <1>4, <2>6, <3>1, Zenon
  <2>8. AtPlaces(e, n) = [k \in 1 .. 4 |-> (0 + r[k]) % P]
    <3>1. PICK p : p = [k \in 1 .. 4 |-> (0 + r[k]) % P]
      OBVIOUS
    <3>2. p[1] = n[1] /\ p[2] = n[2] /\ p[3] = n[4] /\ p[4] = n[5]
      BY <2>5, <3>1
    <3>3. p = <<p[1], p[2], p[3], p[4]>>
      BY <3>1
    <3>4. QED
      BY <2>1, <3>1, <3>2, <3>3
  <2>9. AtPlaces(e, n) \in Vectors(D) /\ \A k \in D : Same(P, AtPlaces(e, n)[k], r[k] + Ends(e)[k])
    BY <2>1, <2>6, <2>7, <2>8 DEF Vectors
  <2>10. QED
    BY <1>1, <2>9 DEF n, r, D
<1>7. QED
  BY <1>5, <1>6

\* Turned to global directions, it is the element's row of its global matrix
\* times the displacements, and what it is held with, turned.
LEMMA TurnedForceIs ==
    ASSUME LegalInput, Connected, Profiled, pDisp \in Displacements, NEW e \in Elements,
           elemStiff[e] = LocalStiff(e), daEndInterForce[e] = HeldEnds(e)
    PROVE  LET D == Places(e)
               g == MatrixVectorMultiply(MatrixTrans(Rotation(e)), AtPlaces(e, NewForce(e)))
           IN  /\ g \in Vectors(D)
               /\ \A k \in D :
                      /\ Times(GlobalStiff(e)[k], Moved(e), D) \in Int
                      /\ Times(MatrixTrans(Rotation(e))[k], Ends(e), D) \in Int
                      /\ Same(P, g[k], Times(GlobalStiff(e)[k], Moved(e), D)
                                           + Times(MatrixTrans(Rotation(e))[k], Ends(e), D))
<1> DEFINE D == Places(e)
           Tt == MatrixTrans(Rotation(e))
           r == Answer(e)
           v == AtPlaces(e, NewForce(e))
           h == Ends(e)
           w == [k \in D |-> r[k] + h[k]]
           g == MatrixVectorMultiply(Tt, v)
           G == GlobalStiff(e)
<1>0. P \in Nat \ {0}
  BY PrimeType
<1>1. r \in Vectors(D) /\ v \in Vectors(D) /\ \A k \in D : Same(P, v[k], r[k] + h[k])
  BY NewForceIs
<1>2. h \in Vectors(D) /\ Tt \in Matrices(D) /\ \A k \in D : Tt[k] \in Vectors(D) /\ Times(Tt[k], h, D) \in Int
  BY EndsType
<1>3. IsFiniteSet(D) /\ 1 \in D /\ Moved(e) \in Vectors(D) /\ G \in Matrices(D)
      /\ \A k \in D : G[k] \in Vectors(D)
  BY ElementStiffness, PlacesType, MovedType DEF Matrices, Vectors
<1>4. \A k \in D : Same(P, Times(Tt[k], r, D), Times(G[k], Moved(e), D))
  <2>1. Rotation(e) \in Matrices(D) /\ LocalStiff(e) \in Matrices(D) /\ Turned(G, LocalStiff(e), Rotation(e), D)
    BY ElementStiffness DEF Turned
  <2> HIDE DEF D, G
  <2>2. QED
    BY <1>3, <2>1, Response DEF Answer
<1> HIDE DEF D, Tt, r, v, h, G
<1>5. w \in Vectors(D) /\ \A k \in D : Same(P, v[k], w[k])
  <2>1. \A k \in D : r[k] \in Int /\ h[k] \in Int
    BY <1>1, <1>2 DEF Vectors
  <2>2. \A x, y \in Int : x + y \in Int
    OBVIOUS
  <2>3. QED
    BY <1>1, <2>1, <2>2 DEF Vectors
<1>6. g \in Vectors(D) /\ \A k \in D : Same(P, g[k], Times(Tt[k], v, D))
  BY <1>1, <1>2, <1>3, MatrixVectorMultiplySame
<1>7. ASSUME NEW k \in D
      PROVE  /\ Times(G[k], Moved(e), D) \in Int /\ Times(Tt[k], h, D) \in Int
             /\ Same(P, g[k], Times(G[k], Moved(e), D) + Times(Tt[k], h, D))
  <2>1. Times(Tt[k], w, D) = Times(Tt[k], r, D) + Times(Tt[k], h, D)
    <3> DEFINE a == [l \in D |-> Tt[k][l] * r[l]]
               b == [l \in D |-> Tt[k][l] * h[l]]
               c == [l \in D |-> Tt[k][l] * w[l]]
    <3>1. \A l \in D : Tt[k][l] \in Int /\ r[l] \in Int /\ h[l] \in Int
      BY <1>1, <1>2 DEF Vectors
    <3>2. \A x, y, z \in Int : x * y \in Int /\ x * z \in Int /\ x * (y + z) = x * y + x * z
      OBVIOUS
    <3>3. \A l \in D : a[l] \in Int /\ b[l] \in Int /\ c[l] = a[l] + b[l]
      BY <3>1, <3>2
    <3> HIDE DEF a, b, c
    <3>4. SumOver(c, D) = SumOver(a, D) + SumOver(b, D)
      BY <1>3, <3>3, SumAdds
    <3>5. QED
      BY <3>4 DEF Times, a, b, c
  <2>2. Same(P, Times(Tt[k], v, D), Times(Tt[k], w, D))
    BY <1>1, <1>2, <1>3, <1>5, TimesSame
  <2> HIDE DEF w, g
  <2>3. PICK a, b, c, d, q : /\ a = Times(Tt[k], r, D) /\ b = Times(Tt[k], h, D) /\ c = Times(Tt[k], v, D)
                             /\ d = Times(G[k], Moved(e), D) /\ q = g[k]
    OBVIOUS
  <2>4. a \in Int /\ b \in Int /\ c \in Int /\ d \in Int
    <3>1. Tt[k] \in Vectors(D) /\ G[k] \in Vectors(D)
      BY <1>2, <1>3
    <3>2. QED
      BY <1>1, <1>2, <1>3, <2>3, <3>1, TimesType
  <2>5. q \in Int
    BY <1>6, <2>3 DEF Vectors
  <2>6. a + b \in Int /\ d + b \in Int
    BY <2>4
  <2>7. Same(P, q, c) /\ Same(P, c, a + b) /\ Same(P, a, d)
    BY <1>4, <1>6, <2>1, <2>2, <2>3, Zenon
  <2>8. Same(P, a + b, d + b)
    BY <1>0, <2>4, <2>7, SameAdds, SameIsEquivalence, Zenon
  <2>9. Same(P, q, d + b)
    <3>1. Same(P, q, a + b)
      BY <2>4, <2>5, <2>6, <2>7, SameChains, Zenon
    <3>2. QED
      BY <2>5, <2>6, <2>8, <3>1, SameChains, Zenon
  <2>10. QED
    BY <2>3, <2>4, <2>9
<1>8. QED
  BY <1>6, <1>7 DEF D, Tt, v, h, G

\* What EndsAt will be.
NewEndsAt(i) ==
    Total([e \in Elements |->
        LET f == NewForce(e)
            g == MatrixVectorMultiply(MatrixTrans(Rotation(e)),
                     IF IsTruss(e) THEN <<f[1], f[2], f[4], f[5]>> ELSE f)
        IN  Total([k \in {k \in DOMAIN g : pElemDOF[e][k] = i} |-> g[k]])])

\* What an element's end forces are in row i: its answer and what it is held with.
LEMMA EndsOfElement ==
    ASSUME LegalInput, Connected, Profiled, pDisp \in Displacements, NEW e \in Elements, NEW i,
           elemStiff[e] = LocalStiff(e), daEndInterForce[e] = HeldEnds(e)
    PROVE  LET S == PlacesOf(e, i)
               g == MatrixVectorMultiply(MatrixTrans(Rotation(e)), AtPlaces(e, NewForce(e)))
               ends == Total([k \in {k \in DOMAIN g : pElemDOF[e][k] = i} |-> g[k]])
               answer == SumOver([k \in S |-> Times(GlobalStiff(e)[k], Moved(e), Places(e))], S)
               held == SumOver([k \in S |-> Times(MatrixTrans(Rotation(e))[k], Ends(e), Places(e))], S)
           IN  /\ ends \in Int /\ answer \in Int /\ held \in Int
               /\ Same(P, ends, answer + held)
<1> DEFINE D == Places(e)
           S == PlacesOf(e, i)
           g == MatrixVectorMultiply(MatrixTrans(Rotation(e)), AtPlaces(e, NewForce(e)))
           gs == [k \in {k \in DOMAIN g : pElemDOF[e][k] = i} |-> g[k]]
           fa == [k \in S |-> Times(GlobalStiff(e)[k], Moved(e), D)]
           fh == [k \in S |-> Times(MatrixTrans(Rotation(e))[k], Ends(e), D)]
           fs == [k \in S |-> fa[k] + fh[k]]
<1>0. P \in Nat \ {0}
  BY PrimeType
<1>1. IsFiniteSet(S) /\ S \in SUBSET D /\ S = {k \in D : pElemDOF[e][k] = i}
  BY PlacesOfType, ElementPlaces DEF PlacesOf
<1>2. g \in Vectors(D) /\ \A k \in S : /\ fa[k] \in Int /\ fh[k] \in Int
                                       /\ Same(P, g[k], fa[k] + fh[k])
  BY <1>1, TurnedForceIs, Zenon
<1> HIDE DEF D, S, g, fa, fh
<1>3. DOMAIN g = D /\ \A k \in S : g[k] \in Int
  BY <1>1, <1>2 DEF Vectors
<1>4. DOMAIN gs = S /\ \A k \in S : gs[k] = g[k] /\ gs[k] \in Int
  BY <1>1, <1>3
<1>5. \A k \in S : fs[k] \in Int /\ fs[k] = fa[k] + fh[k] /\ Same(P, gs[k], fs[k])
  <2>1. \A k \in S : fs[k] = fa[k] + fh[k]
    OBVIOUS
  <2>2. \A x, y \in Int : x + y \in Int
    OBVIOUS
  <2> HIDE DEF fs, gs
  <2>3. QED
    BY <1>2, <1>4, <2>1, <2>2
<1> HIDE DEF gs, fs
<1>6. SumOver(fs, S) = SumOver(fa, S) + SumOver(fh, S)
  BY <1>1, <1>2, <1>5, SumAdds
<1>7. Same(P, SumOver(gs, S), SumOver(fs, S))
  BY <1>0, <1>1, <1>4, <1>5, SumReduces
<1>8. Total(gs) \in Int /\ SumOver(gs, S) \in Int /\ Same(P, Total(gs), SumOver(gs, S))
  BY <1>1, <1>4, TotalType
<1>9. SumOver(fa, S) \in Int /\ SumOver(fh, S) \in Int /\ SumOver(fs, S) \in Int
  BY <1>1, <1>2, <1>5, SumOverType
<1>10. Same(P, Total(gs), SumOver(fa, S) + SumOver(fh, S))
  <2>1. Same(P, Total(gs), SumOver(fs, S))
    BY <1>7, <1>8, <1>9, SameChains, Zenon
  <2>2. QED
    BY <1>6, <2>1, Zenon
<1>11. QED
  BY <1>8, <1>9, <1>10 DEF D, S, g, fa, fh, gs

\* Together, they are the stiffness's row times the displacements, without what
\* the loads between the ends do.
LEMMA EndsAddUp ==
    ASSUME LegalInput, Connected, Profiled, OneLoadPerElement, pDisp \in Displacements, NEW i,
           elemStiff = [e \in Elements |-> LocalStiff(e)],
           \A e \in Elements : daEndInterForce[e] = HeldEnds(e)
    PROVE  NewEndsAt(i) = (Total([j \in 0 .. nTotalDOF - 1 |-> Stiffness(i, j) * pDisp[j]]) - MemberForce(i)) % P
<1> DEFINE E == Elements
           N == 0 .. nTotalDOF - 1
           ends == [e \in E |->
               LET g == MatrixVectorMultiply(MatrixTrans(Rotation(e)), AtPlaces(e, NewForce(e)))
               IN  Total([k \in {k \in DOMAIN g : pElemDOF[e][k] = i} |-> g[k]])]
           answers == [e \in E |->
               SumOver([k \in PlacesOf(e, i) |-> Times(GlobalStiff(e)[k], Moved(e), Places(e))], PlacesOf(e, i))]
           held == [e \in E |->
               SumOver([k \in PlacesOf(e, i) |-> Times(MatrixTrans(Rotation(e))[k], Ends(e), Places(e))],
                       PlacesOf(e, i))]
           both == [e \in E |-> answers[e] + held[e]]
           row == [j \in N |-> Stiffness(i, j) * pDisp[j]]
<1>0. P \in Nat \ {0}
  BY PrimeType
<1>1. NewEndsAt(i) = Total(ends)
  BY Zenon DEF NewEndsAt, AtPlaces
<1>2. IsFiniteSet(E) /\ IsFiniteSet(N)
  BY ElementsFinite, FS_Interval DEF Profiled
<1>3. \A e \in E : ends[e] \in Int /\ answers[e] \in Int /\ held[e] \in Int /\ Same(P, ends[e], answers[e] + held[e])
  <2> TAKE e \in E
  <2>1. elemStiff[e] = LocalStiff(e) /\ daEndInterForce[e] = HeldEnds(e)
    OBVIOUS
  <2> DEFINE g == MatrixVectorMultiply(MatrixTrans(Rotation(e)), AtPlaces(e, NewForce(e)))
             x == Total([k \in {k \in DOMAIN g : pElemDOF[e][k] = i} |-> g[k]])
             y == SumOver([k \in PlacesOf(e, i) |-> Times(GlobalStiff(e)[k], Moved(e), Places(e))], PlacesOf(e, i))
             z == SumOver([k \in PlacesOf(e, i) |-> Times(MatrixTrans(Rotation(e))[k], Ends(e), Places(e))],
                          PlacesOf(e, i))
  <2>2. x \in Int /\ y \in Int /\ z \in Int /\ Same(P, x, y + z)
    BY <2>1, EndsOfElement, Zenon
  <2>3. ends[e] = x /\ answers[e] = y /\ held[e] = z
    OBVIOUS
  <2> HIDE DEF x, y, z, ends, answers, held
  <2>4. QED
    BY <2>2, <2>3
<1>4. /\ \A j \in N : row[j] \in Int
      /\ Same(P, SumOver(answers, E), SumOver(row, N))
  BY ElementsMakeStiffness, Zenon
<1>5. MemberForce(i) \in Int /\ Same(P, SumOver(held, E), -MemberForce(i))
  BY HeldEndsAddUp, Zenon
<1> HIDE DEF ends, answers, held, row
<1>6. DOMAIN ends = E /\ DOMAIN row = N
  BY DEF ends, row
<1>7. \A e \in E : both[e] = answers[e] + held[e] /\ both[e] \in Int /\ Same(P, ends[e], both[e])
  <2>1. \A e \in E : both[e] = answers[e] + held[e]
    OBVIOUS
  <2>2. \A x, y \in Int : x + y \in Int
    OBVIOUS
  <2> HIDE DEF both
  <2>3. QED
    BY <1>3, <2>1, <2>2
<1> HIDE DEF both, E, N
<1>8. SumOver(both, E) = SumOver(answers, E) + SumOver(held, E)
  BY <1>2, <1>3, <1>7, SumAdds
<1>9. Same(P, SumOver(ends, E), SumOver(both, E))
  BY <1>0, <1>2, <1>3, <1>7, SumReduces
<1>10. /\ SumOver(answers, E) \in Int /\ SumOver(held, E) \in Int /\ SumOver(both, E) \in Int
  BY <1>2, <1>3, <1>7, SumOverType
<1>11. /\ Total(ends) = SumOver(ends, E) % P /\ SumOver(ends, E) \in Int
       /\ Total(row) \in Int /\ SumOver(row, N) \in Int /\ Same(P, Total(row), SumOver(row, N))
  BY <1>2, <1>3, <1>4, <1>6, TotalType
<1>12. PICK x, a, h, b, r, t, m : /\ x = SumOver(ends, E) /\ a = SumOver(answers, E) /\ h = SumOver(held, E)
                                  /\ b = SumOver(both, E) /\ r = SumOver(row, N) /\ t = Total(row)
                                  /\ m = MemberForce(i)
  OBVIOUS
<1>13. /\ x \in Int /\ a \in Int /\ h \in Int /\ b \in Int /\ r \in Int /\ t \in Int /\ m \in Int
       /\ b = a + h /\ Same(P, x, b) /\ Same(P, a, r) /\ Same(P, t, r) /\ Same(P, h, -m)
  BY <1>4, <1>5, <1>8, <1>9, <1>10, <1>11, <1>12, Zenon
<1>14. -m \in Int /\ t + (-m) = t - m /\ t + (-m) \in Int
  BY <1>13
<1>15. Same(P, x, t + (-m))
  <2>1. Same(P, r, t)
    BY <1>0, <1>13, SameIsEquivalence, Zenon
  <2>2. Same(P, a, t)
    BY <1>13, <2>1, SameChains, Zenon
  <2>3. Same(P, a + h, t + (-m))
    BY <1>0, <1>13, <1>14, <2>2, SameAdds, Zenon
  <2>4. QED
    BY <1>13, <1>14, <2>3, SameChains, Zenon
<1>16. x % P = (t - m) % P
  BY <1>14, <1>15, Zenon DEF Same
<1>17. NewEndsAt(i) = (Total(row) - MemberForce(i)) % P
  BY <1>1, <1>11, <1>12, <1>16, Zenon
<1>18. QED
  BY <1>17 DEF row, N

\* No load changes the end forces of an element that it does not act on.
LEMMA UnloadedAfterLoads ==
    ASSUME LegalInput, NEW e \in Elements, LoadsOn(e) = {},
           daEndInterForce = ElementEndForceInit,
           NEW f, AfterLoads(f, Len(loads)), NEW n \in 0 .. Len(loads)
    PROVE  f[n].force[e] = VectorZeroize(1 .. 6)
<1> DEFINE Good(m) == /\ f[m] = [vect |-> f[m].vect, disp |-> f[m].disp, force |-> f[m].force]
                      /\ f[m].force = [x \in Elements |-> f[m].force[x]]
                      /\ f[m].force[e] = VectorZeroize(1 .. 6)
           B == {m \in 0 .. Len(loads) : ~ Good(m)}
<1>1. LegalLoads(structure, loads) /\ Legal(structure)
  BY DEF LegalInput
<1>2. Len(loads) \in Nat /\ DOMAIN loads = 1 .. Len(loads)
  BY <1>1, LoadsType
<1>3. ASSUME B # {} PROVE FALSE
  <2>1. PICK m \in B : \A j \in B : ~ (<<j, m>> \in OpToRel(<, Nat))
    <3>1. B \subseteq Nat
      BY <1>2
    <3> HIDE DEF B
    <3>2. QED
      BY <1>3, <3>1, SmallestNumber, Zenon
  <2>2. m # 0
    <3>1. f[0] = [vect |-> pLoadVect, disp |-> pDisp, force |-> daEndInterForce]
      BY <1>2 DEF AfterLoads
    <3>2. f[0].force = [x \in Elements |-> VectorZeroize(1 .. 6)]
      BY <3>1 DEF ElementEndForceInit
    <3>3. Good(0)
      BY <3>1, <3>2
    <3> HIDE DEF Good
    <3>4. QED
      BY <3>3
  <2>3. m \in DOMAIN loads /\ m - 1 \in 0 .. Len(loads) /\ m \in 0 .. Len(loads)
        /\ m \in Nat /\ m - 1 \in Nat /\ m - 1 < m
    BY <1>2, <2>2
  <2>4. Good(m - 1)
    <3>1. m - 1 \notin B
      BY <2>1, <2>3, Zenon DEF OpToRel
    <3> HIDE DEF Good
    <3>2. QED
      BY <2>3, <3>1
  <2> DEFINE w == f[m - 1]
             load == loads[m]
  <2>5. f[m] = AddLoad(load, w)
    BY <2>2, <2>3 DEF AfterLoads
  <2>6. w = [vect |-> w.vect, disp |-> w.disp, force |-> w.force]
        /\ w.force = [x \in Elements |-> w.force[x]] /\ w.force[e] = VectorZeroize(1 .. 6)
    BY <2>4
  <2> HIDE DEF w
  <2>7. CASE load.type \in {"SUPPORT_MOVE", "FORCE_ON_NODE"}
    <3>1. f[m] = [vect |-> f[m].vect, disp |-> f[m].disp, force |-> w.force]
      <4>1. CASE load.type = "SUPPORT_MOVE"
        <5> DEFINE d == [w.disp EXCEPT ![iaDOFIndex[load.at]] = (@ + load.value) % P]
        <5>1. f[m] = [w EXCEPT !.disp = d, !.vect = LoadVectorModify(w.vect, d)]
          BY <2>5, <4>1 DEF AddLoad
        <5> HIDE DEF d
        <5>2. QED
          BY <2>6, <5>1, Zenon
      <4>2. CASE load.type = "FORCE_ON_NODE"
        <5>1. f[m] = [w EXCEPT !.vect[iaDOFIndex[load.at]] = (@ + load.value) % P]
          BY <2>5, <4>2 DEF AddLoad
        <5>2. QED
          BY <2>6, <5>1
      <4>3. QED
        BY <2>7, <4>1, <4>2
    <3>2. f[m].force = w.force
      BY <3>1
    <3>3. Good(m)
      BY <2>6, <3>1, <3>2, Zenon
    <3>4. QED
      BY <3>3
  <2>8. CASE load.type \notin {"SUPPORT_MOVE", "FORCE_ON_NODE"}
    <3> DEFINE g == [i \in 1 .. 6 |-> IF i \in {1, 4} THEN w.force[load.elem][i] ELSE KeptForces(load)[i]]
               v == [i \in DOMAIN w.vect |->
                       (w.vect[i] + Total([q \in {q \in 1 .. 6 : pElemDOF[load.elem][q] = i} |->
                                              ClampForces(load)[q]])) % P]
    <3>1. load.type \in MemberLoads /\ load.elem \in Elements
      BY <1>1, <2>3, <2>8 DEF LegalLoads, Elements
    <3>2. f[m] = [w EXCEPT !.vect = v, !.force[load.elem] =
                      [i \in 1 .. 6 |-> IF i \in {1, 4} THEN @[i] ELSE KeptForces(load)[i]]]
      <4>1. load.type # "SUPPORT_MOVE" /\ load.type # "FORCE_ON_NODE"
        BY <2>8
      <4>2. QED
        BY <2>5, <4>1, Zenon DEF AddLoad
    <3> HIDE DEF v
    <3>3. f[m] = [vect |-> v, disp |-> w.disp, force |-> [w.force EXCEPT ![load.elem] = g]]
      BY <2>6, <3>2, Zenon
    <3> HIDE DEF g
    <3>4. f[m].force = [x \in Elements |-> IF x = load.elem THEN g ELSE w.force[x]]
      <4>1. PICK h : h = w.force
        OBVIOUS
      <4>2. h = [x \in Elements |-> h[x]]
        BY <2>6, <4>1, Zenon
      <4>3. [h EXCEPT ![load.elem] = g] = [x \in Elements |-> IF x = load.elem THEN g ELSE h[x]]
        <5> HIDE DEF load
        <5>1. QED
          BY <4>2
      <4>4. f[m].force = [w.force EXCEPT ![load.elem] = g]
        BY <3>3
      <4>5. QED
        BY <4>1, <4>3, <4>4, Zenon
    <3>5. load.elem # e
      BY <2>3, <3>1 DEF LoadsOn
    <3> HIDE DEF load
    <3>6. f[m].force[e] = VectorZeroize(1 .. 6)
      BY <2>6, <3>4, <3>5
    <3>7. f[m] = [vect |-> f[m].vect, disp |-> f[m].disp, force |-> f[m].force]
      BY <3>3
    <3>8. f[m].force = [x \in Elements |-> f[m].force[x]]
      BY <3>4
    <3>9. Good(m)
      BY <3>6, <3>7, <3>8
    <3>10. QED
      BY <3>9
  <2>9. QED
    BY <2>7, <2>8
<1>4. Good(n)
  <2> HIDE DEF Good
  <2>1. QED
    BY <1>3
<1>5. QED
  BY <1>4

\* LoadVectorAssembly leaves every element with what its loads hold it with.
LEMMA HeldEndsAreSet ==
    ASSUME LegalInput, OneLoadPerElement, LoadVectorAssembly, daEndInterForce = ElementEndForceInit,
           NEW e \in Elements
    PROVE  daEndInterForce'[e] = HeldEnds(e)
<1>1. Len(loads) \in Nat /\ DOMAIN loads = 1 .. Len(loads) /\ Len(loads) \in 0 .. Len(loads)
  <2>1. Len(loads) \in Nat /\ DOMAIN loads = 1 .. Len(loads)
    BY LoadsType DEF LegalInput
  <2>2. QED
    BY <2>1
<1>2. PICK f : AfterLoads(f, Len(loads)) /\ daEndInterForce' = f[Len(loads)].force
  <2> DEFINE f == CHOOSE f : AfterLoads(f, Len(loads))
  <2>1. daEndInterForce' = f[Len(loads)].force
    BY DEF LoadVectorAssembly, AfterLoads
  <2>2. AfterLoads(f, Len(loads))
    <3>1. \E g : AfterLoads(g, Len(loads))
      BY <1>1, AfterLoadsExist
    <3>2. QED
      BY <3>1, Zenon
  <2> HIDE DEF f
  <2>3. QED
    BY <2>1, <2>2
<1>3. CASE LoadsOn(e) = {}
  <2>1. f[Len(loads)].force[e] = VectorZeroize(1 .. 6)
    BY <1>1, <1>2, <1>3, UnloadedAfterLoads
  <2>2. HeldEnds(e) = VectorZeroize(1 .. 6)
    BY <1>3, Zenon DEF HeldEnds
  <2>3. QED
    BY <1>2, <2>1, <2>2
<1>4. CASE LoadsOn(e) # {}
  <2>1. PICK k : k \in LoadsOn(e)
    BY <1>4
  <2>2. /\ k \in DOMAIN loads /\ loads[k].type \in MemberLoads /\ loads[k].elem = e
        /\ LoadsOn(e) = {k} /\ HeldEnds(e) = KeptForces(loads[k])
    BY <2>1, LoadsOnType
  <2>3. \A m \in DOMAIN loads \ {k} : loads[m].type \in MemberLoads => loads[m].elem # loads[k].elem
    BY <2>2 DEF LoadsOn
  <2>4. ~ (Len(loads) < k)
    BY <1>1, <2>2
  <2>5. f[Len(loads)].force[loads[k].elem] =
            IF Len(loads) < k THEN VectorZeroize(1 .. 6) ELSE KeptForces(loads[k])
    BY <1>1, <1>2, <2>2, <2>3, ForceAfterLoads
  <2>6. QED
    BY <1>2, <2>2, <2>4, <2>5
<1>5. QED
  BY <1>3, <1>4

\* LDLTSolve leaves the rows of the supports alone.
LEMMA SupportRowsStay ==
    ASSUME LDLTSolve, Solvable, pGK \in Stores, pDisp \in Displacements, solved',
           NEW i \in nFreeDOF .. nTotalDOF - 1, NEW j \in 0 .. nTotalDOF - 1
    PROVE  GetElementInGK(i, j)' = GetElementInGK(i, j)
<1> DEFINE row == Max({i, j})
           col == Min({i, j})
<1>1. /\ Profiled /\ nFreeDOF \in Nat \ {0} /\ nTotalDOF \in Nat /\ nFreeDOF <= nTotalDOF
      /\ nFreeDOF - 1 \in 0 .. nTotalDOF - 1 /\ i \in 0 .. nTotalDOF - 1 /\ i \in Nat /\ j \in Nat
  BY DEF Solvable, Profiled
<1>2. row \in 0 .. nTotalDOF - 1 /\ col \in 0 .. row /\ nFreeDOF - 1 < row
  BY <1>1, LargerAndSmaller
<1>3. \A x \in 0 .. pDiag[nTotalDOF - 1] : x > pDiag[nFreeDOF - 1] => pGK'[x] = pGK[x]
  BY LDLTSolveSolves
<1>4. UNCHANGED <<nFreeDOF, nTotalDOF, pDiag>>
  BY Zenon DEF LDLTSolve, layout
<1> HIDE DEF row, col
<1>5. FirstColumn(row)' = FirstColumn(row) /\ Address(row, col)' = Address(row, col)
  BY <1>4 DEF FirstColumn, HalfBandOf, Address, row, col
<1>6. GetElementInGK(i, j) = IF col < FirstColumn(row) THEN 0 ELSE pGK[Address(row, col)]
  BY Zenon DEF GetElementInGK, row, col
<1>7. GetElementInGK(i, j)' = IF col < FirstColumn(row) THEN 0 ELSE pGK'[Address(row, col)]
  <2>1. GetElementInGK(i, j)' = IF col < FirstColumn(row)' THEN 0 ELSE pGK'[Address(row, col)']
    BY Zenon DEF GetElementInGK, row, col
  <2>2. QED
    BY <1>5, <2>1, Zenon
<1>8. ASSUME ~ (col < FirstColumn(row)) PROVE pGK'[Address(row, col)] = pGK[Address(row, col)]
  <2>1. FirstColumn(row) \in 0 .. row
    BY <1>1, <1>2, RowAddresses
  <2>2. col \in FirstColumn(row) .. row
    BY <1>2, <1>8, <2>1
  <2>3. Address(row, col) \in 0 .. pDiag[nTotalDOF - 1]
    BY <1>1, <1>2, <2>2, OwnAddress
  <2>4. pDiag[nFreeDOF - 1] < Address(row, col)
    <3> DEFINE k == nFreeDOF - 1
    <3>1. k \in 0 .. nTotalDOF - 1 /\ k < row /\ k \in Nat
      BY <1>1, <1>2
    <3> HIDE DEF k
    <3>2. FirstColumn(k) \in 0 .. k
      BY <1>1, <3>1, RowAddresses
    <3>3. k \in FirstColumn(k) .. k
      BY <3>1, <3>2
    <3>4. Address(k, k) < Address(row, col) /\ Address(k, k) = pDiag[k]
      BY <1>1, <1>2, <2>2, <3>1, <3>3, AddressesInOrder
    <3>5. QED
      BY <3>4 DEF k
  <2>5. pDiag[nFreeDOF - 1] \in Nat /\ Address(row, col) \in Int
    BY <1>1, <2>3, RowAddresses
  <2>6. Address(row, col) > pDiag[nFreeDOF - 1]
    BY <2>4, <2>5
  <2>7. QED
    BY <1>3, <2>3, <2>6
<1>9. CASE col < FirstColumn(row)
  BY <1>6, <1>7, <1>9, Zenon
<1>10. CASE ~ (col < FirstColumn(row))
  BY <1>6, <1>7, <1>8, <1>10, Zenon
<1>11. QED
  BY <1>9, <1>10, Zenon

-----------------------------------------------------------------------------
(* The forces at the nodes through the steps of TestMITC. *)

\* The end forces at the nodes are made of the input, the numbering and the end
\* forces of the elements.
LEMMA EndsKept ==
    ASSUME UNCHANGED <<structure, loads, iaDOFIndex, pElemDOF, nFreeDOF, nTotalDOF>>
    PROVE  /\ Elements' = Elements /\ \A e : IsTruss(e)' = IsTruss(e)
           /\ \A e : HeldEnds(e)' = HeldEnds(e)
           /\ OneMove' = OneMove /\ OneLoadPerElement' = OneLoadPerElement
           /\ daEndInterForce' = daEndInterForce => \A i : EndsAt(i)' = EndsAt(i)
<1>0. Elements' = Elements /\ \A e : IsTruss(e)' = IsTruss(e)
  BY DEF Elements, IsTruss
<1>1. OneMove' = OneMove /\ OneLoadPerElement' = OneLoadPerElement
  BY DEF OneMove, OneLoadPerElement
<1>2. \A e : HeldEnds(e)' = HeldEnds(e)
  <2>1. \A e : LoadsOn(e)' = LoadsOn(e)
    BY DEF LoadsOn
  <2>2. \A load : KeptForces(load)' = KeptForces(load)
    BY KeptForcesKept
  <2>3. loads' = loads
    OBVIOUS
  <2>4. VectorZeroize(1 .. 6)' = VectorZeroize(1 .. 6)
    BY DEF VectorZeroize
  <2> TAKE e
  <2>5. (CHOOSE k \in LoadsOn(e) : TRUE)' = CHOOSE k \in LoadsOn(e) : TRUE
    BY <2>1
  <2>6. KeptForces(loads[CHOOSE k \in LoadsOn(e) : TRUE])' = KeptForces(loads[CHOOSE k \in LoadsOn(e) : TRUE])
    BY <2>2, <2>3, <2>5
  <2>7. CASE LoadsOn(e) = {}
    BY <2>1, <2>4, <2>7, Zenon DEF HeldEnds
  <2>8. CASE LoadsOn(e) # {}
    BY <2>1, <2>6, <2>8, Zenon DEF HeldEnds
  <2>9. QED
    BY <2>7, <2>8
<1>3. ASSUME daEndInterForce' = daEndInterForce PROVE \A i : EndsAt(i)' = EndsAt(i)
  <2>1. \A e : Rotation(e)' = Rotation(e)
    BY ForcesKept
  <2>2. pElemDOF' = pElemDOF
    OBVIOUS
  <2>3. QED
    BY <1>0, <1>3, <2>1, <2>2, Zenon DEF EndsAt
<1>4. QED
  BY <1>0, <1>1, <1>2, <1>3

\* InternalForceCalcu makes them what EndsAddUp is about.
LEMMA EndsFollow ==
    ASSUME InternalForceCalcu, NEW i
    PROVE  EndsAt(i)' = NewEndsAt(i)
<1>1. /\ UNCHANGED <<structure, loads, iaDOFIndex, pElemDOF, nFreeDOF, nTotalDOF>>
      /\ daEndInterForce' = [e \in Elements |-> NewForce(e)]
  BY DEF InternalForceCalcu, input, layout, NewForce
<1>2. Elements' = Elements /\ (\A e : IsTruss(e)' = IsTruss(e)) /\ \A e : Rotation(e)' = Rotation(e)
  BY <1>1, ForcesKept, EndsKept
<1>3. \A e \in Elements : daEndInterForce'[e] = NewForce(e)
  BY <1>1
<1>4. pElemDOF' = pElemDOF
  BY <1>1
<1> DEFINE Ends1(e, f) ==
               LET g == MatrixVectorMultiply(MatrixTrans(Rotation(e)),
                            IF IsTruss(e) THEN <<f[1], f[2], f[4], f[5]>> ELSE f)
               IN  Total([k \in {k \in DOMAIN g : pElemDOF[e][k] = i} |-> g[k]])
<1>5. EndsAt(i)' = Total([e \in Elements |-> Ends1(e, daEndInterForce'[e])])
  BY <1>2, <1>4, Zenon DEF EndsAt
<1>6. NewEndsAt(i) = Total([e \in Elements |-> Ends1(e, NewForce(e))])
  BY Zenon DEF NewEndsAt
<1> HIDE DEF Ends1
<1>7. [e \in Elements |-> Ends1(e, daEndInterForce'[e])] = [e \in Elements |-> Ends1(e, NewForce(e))]
  BY <1>3
<1>8. QED
  BY <1>5, <1>6, <1>7, Zenon

\* Without what the loads between the ends do, what is left of the row is the
\* force on the node, and the reaction at a support.
LEMMA WhatIsLeft ==
    \A t, n, m \in Int : /\ t = (n + m) % P => (t - m) % P = (n + 0) % P
                         /\ (t - m) % P = (n + ((t - ((n + m) % P)) % P)) % P
<1> TAKE t, n, m \in Int
<1>0. P \in Nat \ {0}
  BY PrimeType
<1>1. PICK s : s = (n + m) % P
  OBVIOUS
<1>2. n + m \in Int /\ -m \in Int /\ (n + m) + (-m) = n + 0 /\ n + 0 \in Int
  OBVIOUS
<1>3. s \in Int /\ Same(P, s, n + m)
  BY <1>0, <1>1, <1>2, SameIsEquivalence, Zenon
<1>4. Same(P, s + (-m), n + 0)
  <2>1. Same(P, -m, -m)
    BY <1>0, <1>2, SameIsEquivalence, Zenon
  <2>2. Same(P, s + (-m), (n + m) + (-m))
    BY <1>0, <1>2, <1>3, <2>1, SameAdds, Zenon
  <2>3. QED
    BY <1>2, <2>2, Zenon
<1>5. t - m \in Int /\ t + (-m) = t - m /\ s + (-m) = s - m /\ t - s \in Int /\ s - m \in Int
      /\ n + (t - s) \in Int /\ n + (t - s) = (n + 0) + (t - s) /\ (s - m) + (t - s) = t - m
  BY <1>3
<1>6. t = s => (t - m) % P = (n + 0) % P
  <2>1. Same(P, s - m, n + 0)
    BY <1>4, <1>5, Zenon
  <2>2. QED
    BY <2>1, Zenon DEF Same
<1>7. PICK q : q = (t - s) % P
  OBVIOUS
<1>8. q \in Int /\ Same(P, q, t - s) /\ n + q \in Int
  <2>1. q \in Int /\ Same(P, q, t - s)
    BY <1>0, <1>5, <1>7, SameIsEquivalence, Zenon
  <2>2. QED
    BY <2>1
<1>9. Same(P, n + q, n + (t - s))
  <2>1. Same(P, n, n)
    BY <1>0, SameIsEquivalence, Zenon
  <2>2. QED
    BY <1>0, <1>5, <1>8, <2>1, SameAdds, Zenon
<1>10. Same(P, t - m, n + (t - s))
  <2>1. Same(P, s - m, n + 0) /\ Same(P, t - s, t - s)
    BY <1>0, <1>4, <1>5, SameIsEquivalence, Zenon
  <2>2. Same(P, (s - m) + (t - s), (n + 0) + (t - s))
    BY <1>0, <1>2, <1>5, <2>1, SameAdds, Zenon
  <2>3. QED
    BY <1>5, <2>2, Zenon
<1>11. (t - m) % P = (n + q) % P
  BY <1>9, <1>10, Zenon DEF Same
<1>12. QED
  BY <1>1, <1>6, <1>7, <1>11, Zenon

\* A row of the stiffness times the displacements.
LEMMA RowType ==
    ASSUME LegalInput, Connected, Profiled, nTotalDOF \in Nat, pDisp \in Displacements, NEW i
    PROVE  LET N == 0 .. nTotalDOF - 1
               row == [j \in N |-> Stiffness(i, j) * pDisp[j]]
           IN  Total(row) \in Int /\ SumOver(row, N) \in Int /\ Same(P, Total(row), SumOver(row, N))
<1> DEFINE N == 0 .. nTotalDOF - 1
           row == [j \in N |-> Stiffness(i, j) * pDisp[j]]
<1>1. DOMAIN row = N /\ \A j \in N : row[j] \in Int
  BY ElementsMakeStiffness, Zenon
<1>2. IsFiniteSet(N)
  BY FS_Interval
<1> HIDE DEF row, N
<1>3. Total(row) \in Int /\ SumOver(row, N) \in Int /\ Same(P, Total(row), SumOver(row, N))
  BY <1>1, <1>2, TotalType
<1>4. QED
  BY <1>3 DEF row, N

\* The steps before the loads are assembled: nothing but the local stiffnesses.
LEMMA CarriedToLoads ==
    ASSUME DOFIndexCalcu \/ ElementDOFCalcu \/ BandAndDiagCalcu \/ GKAssembly
    PROVE  Carried' /\ NodesBalance'
<1>1. CASE DOFIndexCalcu \/ ElementDOFCalcu \/ BandAndDiagCalcu
  <2>1. pc' \in {"ElementDOFCalcu", "BandAndDiagCalcu", "GKAssembly"}
    BY <1>1 DEF DOFIndexCalcu, ElementDOFCalcu, BandAndDiagCalcu
  <2>2. QED
    BY <2>1 DEF Carried, NodesBalance
<1>2. CASE GKAssembly
  <2>1. /\ pc' = "LoadVectorAssembly" /\ elemStiff' = [e \in Elements |-> LocalStiff(e)]
        /\ UNCHANGED <<structure, loads, iaDOFIndex, pElemDOF, nFreeDOF, nTotalDOF>>
    BY <1>2 DEF GKAssembly, input, layout
  <2>2. Elements' = Elements /\ \A e : LocalStiff(e)' = LocalStiff(e)
    BY <2>1, ForcesKept, EndsKept
  <2>3. elemStiff' = [e \in Elements' |-> LocalStiff(e)']
    BY <2>1, <2>2
  <2>4. QED
    BY <2>1, <2>3 DEF Carried, NodesBalance
<1>3. QED
  BY <1>1, <1>2

\* LoadVectorAssembly: what the loads do to the supports.
LEMMA SupportRowsToSolve ==
    ASSUME IInv, Loaded, OneMove, LoadVectorAssembly
    PROVE  SupportRows'
<1>1. /\ pc = "LoadVectorAssembly" /\ pc' = "LDLTSolve"
      /\ UNCHANGED <<structure, loads, iaDOFIndex, pElemDOF, nFreeDOF, nTotalDOF>>
  BY DEF LoadVectorAssembly, input, layout
<1>2. \A i : NodalForce(i)' = NodalForce(i) /\ MemberForce(i)' = MemberForce(i)
  BY <1>1, ForcesKept
<1>3. /\ pLoadVect' \in Displacements
      /\ \A i \in nFreeDOF .. nTotalDOF - 1 : pLoadVect'[i] = (NodalForce(i) + MemberForce(i)) % P
  <2>1. pLoadVect = VectorZeroize(0 .. nTotalDOF - 1)
    BY <1>1 DEF Loaded
  <2>2. QED
    BY <2>1, RightHandSideIsSet
<1>4. /\ pLoadVect' \in [0 .. nTotalDOF' - 1 -> Num]
      /\ \A i \in nFreeDOF' .. nTotalDOF' - 1 : pLoadVect'[i] = (NodalForce(i)' + MemberForce(i)') % P
  BY <1>1, <1>2, <1>3 DEF Displacements
<1>5. QED
  BY <1>1, <1>4 DEF SupportRows, Num

\* LDLTSolve: the displacements are numbers, and the rows of the supports are kept.
LEMMA SupportRowsToForces ==
    ASSUME IInv, Loaded, SupportRows, OneMove, LDLTSolve
    PROVE  SupportRows'
<1>1. /\ pc = "LDLTSolve" /\ pc' = "InternalForceCalcu" /\ pLoadVect' = pLoadVect
      /\ UNCHANGED <<structure, loads, iaDOFIndex, pElemDOF, nFreeDOF, nTotalDOF>>
  BY Zenon DEF LDLTSolve, input, layout
<1>2. /\ \A i : NodalForce(i)' = NodalForce(i) /\ MemberForce(i)' = MemberForce(i)
      /\ \A i, j : Stiffness(i, j)' = Stiffness(i, j)
  BY <1>1, ForcesKept
<1>3. /\ pLoadVect' \in [0 .. nTotalDOF' - 1 -> Num]
      /\ \A i \in nFreeDOF' .. nTotalDOF' - 1 : pLoadVect'[i] = (NodalForce(i)' + MemberForce(i)') % P
  <2>1. /\ pLoadVect \in [0 .. nTotalDOF - 1 -> Num]
        /\ \A i \in nFreeDOF .. nTotalDOF - 1 : pLoadVect[i] = (NodalForce(i) + MemberForce(i)) % P
    BY <1>1 DEF SupportRows
  <2>2. QED
    BY <1>1, <1>2, <2>1
<1>4. ASSUME solved'
      PROVE  /\ pDisp' \in Displacements
             /\ \A i \in nFreeDOF .. nTotalDOF - 1 : \A j \in 0 .. nTotalDOF - 1 :
                    GetElementInGK(i, j)' = Stiffness(i, j)
  <2>1. Assembled /\ \A i \in 0 .. nFreeDOF - 1 : pDisp[i] = RightHandSide(i)
    BY <1>1 DEF Loaded, Assembled
  <2>2. /\ LegalInput /\ Connected /\ Profiled /\ Solvable /\ pDisp \in Displacements
        /\ nFreeDOF \in Nat \ {0} /\ nTotalDOF \in Nat
    BY <1>1, <2>1, RightHandSideType
  <2>3. pGK \in Stores
    BY <2>1, <2>2, AssembledStores
  <2>4. pDisp' \in Displacements
    BY <1>4, <2>2, <2>3, LDLTSolveSolves
  <2>5. ASSUME NEW i \in nFreeDOF .. nTotalDOF - 1, NEW j \in 0 .. nTotalDOF - 1
        PROVE  GetElementInGK(i, j)' = Stiffness(i, j)
    <3>1. GetElementInGK(i, j)' = GetElementInGK(i, j)
      BY <1>4, <2>2, <2>3, SupportRowsStay
    <3>2. i \in 0 .. nTotalDOF - 1
      BY <2>2
    <3>3. GetElementInGK(i, j) = Stiffness(i, j)
      BY <2>1, <2>2, <3>2, StiffnessIsStored DEF Assembled
    <3>4. QED
      BY <3>1, <3>3
  <2>6. QED
    BY <2>4, <2>5
<1>5. solved' => /\ pDisp' \in [0 .. nTotalDOF' - 1 -> Num]
                 /\ \A i \in nFreeDOF' .. nTotalDOF' - 1 : \A j \in 0 .. nTotalDOF' - 1 :
                        GetElementInGK(i, j)' = Stiffness(i, j)'
  BY <1>1, <1>2, <1>4 DEF Displacements
<1>6. QED
  BY <1>1, <1>3, <1>5, Zenon DEF SupportRows, Num

\* InternalForceCalcu leaves the rows alone.
LEMMA SupportRowsToReactions ==
    ASSUME SupportRows, InternalForceCalcu
    PROVE  SupportRows'
<1>1. /\ pc = "InternalForceCalcu" /\ pc' = "SupportReactionCalcu" /\ pLoadVect' = pLoadVect
      /\ UNCHANGED <<structure, loads, iaDOFIndex, pElemDOF, nFreeDOF, nTotalDOF, pDiag, pGK, pDisp, solved>>
  BY DEF InternalForceCalcu, input, layout
<1>2. /\ \A i : NodalForce(i)' = NodalForce(i) /\ MemberForce(i)' = MemberForce(i)
      /\ \A i, j : Stiffness(i, j)' = Stiffness(i, j)
  BY <1>1, ForcesKept
<1>3. \A i, j : GetElementInGK(i, j)' = GetElementInGK(i, j)
  BY <1>1 DEF GetElementInGK, FirstColumn, HalfBandOf, Address
<1>4. /\ pLoadVect \in [0 .. nTotalDOF - 1 -> Num]
      /\ \A i \in nFreeDOF .. nTotalDOF - 1 : pLoadVect[i] = (NodalForce(i) + MemberForce(i)) % P
      /\ solved => /\ pDisp \in [0 .. nTotalDOF - 1 -> Num]
                   /\ \A i \in nFreeDOF .. nTotalDOF - 1 : \A j \in 0 .. nTotalDOF - 1 :
                          GetElementInGK(i, j) = Stiffness(i, j)
  BY <1>1, Zenon DEF SupportRows
<1>5. /\ pLoadVect' \in [0 .. nTotalDOF' - 1 -> Num]
      /\ \A i \in nFreeDOF' .. nTotalDOF' - 1 : pLoadVect'[i] = (NodalForce(i)' + MemberForce(i)') % P
      /\ solved' => /\ pDisp' \in [0 .. nTotalDOF' - 1 -> Num]
                    /\ \A i \in nFreeDOF' .. nTotalDOF' - 1 : \A j \in 0 .. nTotalDOF' - 1 :
                           GetElementInGK(i, j)' = Stiffness(i, j)'
  BY <1>1, <1>2, <1>3, <1>4
<1>6. QED
  BY <1>1, <1>5, Zenon DEF SupportRows, Num

\* SupportReactionCalcu: the reactions are what the rows of the supports lack.
LEMMA SupportRowsToOutput ==
    ASSUME SupportRows, SupportReactionCalcu, nFreeDOF \in Nat
    PROVE  SupportRows'
<1>1. /\ pc = "SupportReactionCalcu" /\ pc' = "Output"
      /\ UNCHANGED <<structure, loads, iaDOFIndex, pElemDOF, nFreeDOF, nTotalDOF, pDisp, solved>>
  BY DEF SupportReactionCalcu, input, layout
<1>2. /\ \A i : NodalForce(i)' = NodalForce(i) /\ MemberForce(i)' = MemberForce(i)
      /\ \A i, j : Stiffness(i, j)' = Stiffness(i, j)
  BY <1>1, ForcesKept
<1>3. /\ pLoadVect \in [0 .. nTotalDOF - 1 -> Num]
      /\ \A i \in nFreeDOF .. nTotalDOF - 1 : pLoadVect[i] = (NodalForce(i) + MemberForce(i)) % P
      /\ solved => /\ pDisp \in [0 .. nTotalDOF - 1 -> Num]
                   /\ \A i \in nFreeDOF .. nTotalDOF - 1 : \A j \in 0 .. nTotalDOF - 1 :
                          GetElementInGK(i, j) = Stiffness(i, j)
  BY <1>1, Zenon DEF SupportRows
<1>4. ASSUME solved, NEW i \in nFreeDOF .. nTotalDOF - 1
      PROVE  pLoadVect'[i] = (Total([j \in 0 .. nTotalDOF - 1 |-> Stiffness(i, j) * pDisp[j]])
                                  - ((NodalForce(i) + MemberForce(i)) % P)) % P
  <2> DEFINE N == 0 .. nTotalDOF - 1
             t == Total([j \in N |-> Stiffness(i, j) * pDisp[j]])
  <2>1. i \in DOMAIN pLoadVect /\ ~ (i < nFreeDOF)
    BY <1>3
  <2>2. pLoadVect' = [k \in DOMAIN pLoadVect |->
            IF k < nFreeDOF THEN pLoadVect[k]
            ELSE (Total([j \in DOMAIN pDisp |-> GetElementInGK(k, j) * pDisp[j]]) - pLoadVect[k]) % P]
    BY Zenon DEF SupportReactionCalcu
  <2>3. pLoadVect'[i] = (Total([j \in DOMAIN pDisp |-> GetElementInGK(i, j) * pDisp[j]]) - pLoadVect[i]) % P
    BY <2>1, <2>2, Zenon
  <2>4. DOMAIN pDisp = N /\ \A j \in N : GetElementInGK(i, j) = Stiffness(i, j)
    BY <1>3, <1>4
  <2>5. [j \in DOMAIN pDisp |-> GetElementInGK(i, j) * pDisp[j]] = [j \in N |-> Stiffness(i, j) * pDisp[j]]
    BY <2>4
  <2>6. pLoadVect[i] = (NodalForce(i) + MemberForce(i)) % P
    BY <1>3
  <2>7. QED
    BY <2>3, <2>5, <2>6, Zenon
<1>5. solved' => /\ pDisp' \in [0 .. nTotalDOF' - 1 -> Num]
                 /\ \A i \in nFreeDOF' .. nTotalDOF' - 1 :
                        pLoadVect'[i] = (Total([j \in 0 .. nTotalDOF' - 1 |-> Stiffness(i, j)' * pDisp'[j]])
                                             - ((NodalForce(i)' + MemberForce(i)') % P)) % P
  BY <1>1, <1>2, <1>3, <1>4, Zenon
<1>6. QED
  BY <1>1, <1>5, Zenon DEF SupportRows, Num

\* The rows of the supports through a step of TestMITC.
LEMMA SupportRowsStep ==
    ASSUME pc # "DOFIndexCalcu" => IInv, Loaded, OneMove => SupportRows, [Next]_vars
    PROVE  (OneMove => SupportRows)'
<1>1. UNCHANGED <<structure, loads>>
  BY Zenon DEF Next, vars, input, DOFIndexCalcu, ElementDOFCalcu, BandAndDiagCalcu, GKAssembly,
         LoadVectorAssembly, LDLTSolve, InternalForceCalcu, SupportReactionCalcu
<1>2. SUFFICES ASSUME OneMove PROVE SupportRows'
  BY <1>1 DEF OneMove
<1>3. SupportRows
  BY <1>2
<1>4. CASE UNCHANGED vars
  <2>1. UNCHANGED <<structure, loads, iaDOFIndex, pElemDOF, nFreeDOF, nTotalDOF, pDiag,
                    pGK, pLoadVect, pDisp, solved, pc>>
    BY <1>4 DEF vars, input, layout
  <2>2. /\ \A i, j : Stiffness(i, j)' = Stiffness(i, j)
        /\ \A i : NodalForce(i)' = NodalForce(i) /\ MemberForce(i)' = MemberForce(i)
    BY <2>1, ForcesKept
  <2>3. \A i, j : GetElementInGK(i, j)' = GetElementInGK(i, j)
    BY <2>1 DEF GetElementInGK, FirstColumn, HalfBandOf, Address
  <2>4. QED
    BY <1>3, <2>1, <2>2, <2>3, Zenon DEF SupportRows, Num
<1>5. CASE DOFIndexCalcu \/ ElementDOFCalcu \/ BandAndDiagCalcu \/ GKAssembly
  <2>1. pc' \in {"ElementDOFCalcu", "BandAndDiagCalcu", "GKAssembly", "LoadVectorAssembly"}
    BY <1>5 DEF DOFIndexCalcu, ElementDOFCalcu, BandAndDiagCalcu, GKAssembly
  <2>2. QED
    BY <2>1 DEF SupportRows
<1>6. CASE LoadVectorAssembly \/ LDLTSolve \/ InternalForceCalcu \/ SupportReactionCalcu
  <2>1. pc # "DOFIndexCalcu" /\ pc \notin {"DOFIndexCalcu", "ElementDOFCalcu", "BandAndDiagCalcu"}
    BY <1>6, Zenon DEF LoadVectorAssembly, LDLTSolve, InternalForceCalcu, SupportReactionCalcu
  <2>2. IInv
    BY <2>1
  <2>3. nFreeDOF \in Nat
    BY <2>1, <2>2, LayoutKnown
  <2>4. QED
    BY <1>2, <1>3, <1>6, <2>2, <2>3, SupportRowsToSolve, SupportRowsToForces, SupportRowsToReactions,
       SupportRowsToOutput
<1>7. QED
  BY <1>4, <1>5, <1>6 DEF Next

\* LoadVectorAssembly: what holds the elements.
LEMMA CarriedToSolve ==
    ASSUME IInv, Carried, OneLoadPerElement, LoadVectorAssembly
    PROVE  Carried' /\ NodesBalance'
<1>1. /\ pc = "LoadVectorAssembly" /\ pc' = "LDLTSolve" /\ elemStiff' = elemStiff
      /\ UNCHANGED <<structure, loads, iaDOFIndex, pElemDOF, nFreeDOF, nTotalDOF>>
  BY DEF LoadVectorAssembly, input, layout
<1>2. Elements' = Elements /\ (\A e : LocalStiff(e)' = LocalStiff(e)) /\ \A e : HeldEnds(e)' = HeldEnds(e)
  BY <1>1, ForcesKept, EndsKept
<1>3. elemStiff' = [e \in Elements' |-> LocalStiff(e)']
  <2>1. elemStiff = [e \in Elements |-> LocalStiff(e)]
    BY <1>1 DEF Carried
  <2>2. QED
    BY <1>1, <1>2, <2>1
<1>4. \A e \in Elements : daEndInterForce'[e] = HeldEnds(e)
  <2>1. LegalInput /\ daEndInterForce = ElementEndForceInit
    BY <1>1 DEF IInv, Clamped
  <2>2. QED
    BY <2>1, HeldEndsAreSet
<1>5. \A e \in Elements' : daEndInterForce'[e] = HeldEnds(e)'
  BY <1>2, <1>4
<1>6. QED
  BY <1>1, <1>3, <1>5 DEF Carried, NodesBalance

\* LDLTSolve leaves the elements alone.
LEMMA CarriedToForces ==
    ASSUME Carried, LDLTSolve
    PROVE  Carried' /\ NodesBalance'
<1>1. /\ pc = "LDLTSolve" /\ pc' = "InternalForceCalcu" /\ elemStiff' = elemStiff
      /\ daEndInterForce' = daEndInterForce
      /\ UNCHANGED <<structure, loads, iaDOFIndex, pElemDOF, nFreeDOF, nTotalDOF>>
  BY Zenon DEF LDLTSolve, input, layout
<1>2. Elements' = Elements /\ (\A e : LocalStiff(e)' = LocalStiff(e)) /\ \A e : HeldEnds(e)' = HeldEnds(e)
  BY <1>1, ForcesKept, EndsKept
<1>3. /\ elemStiff' = [e \in Elements' |-> LocalStiff(e)']
      /\ \A e \in Elements' : daEndInterForce'[e] = HeldEnds(e)'
  <2>1. /\ elemStiff = [e \in Elements |-> LocalStiff(e)]
        /\ \A e \in Elements : daEndInterForce[e] = HeldEnds(e)
    BY <1>1 DEF Carried
  <2>2. elemStiff' = [e \in Elements' |-> LocalStiff(e)']
    BY <1>1, <1>2, <2>1
  <2>3. \A e \in Elements' : daEndInterForce'[e] = HeldEnds(e)'
    BY <1>1, <1>2, <2>1
  <2>4. QED
    BY <2>2, <2>3
<1>4. QED
  BY <1>1, <1>3, Zenon DEF Carried, NodesBalance

\* InternalForceCalcu: the end forces answer to the displacements.
LEMMA CarriedToReactions ==
    ASSUME IInv, SupportRows, Carried, OneLoadPerElement, InternalForceCalcu
    PROVE  Carried' /\ NodesBalance'
<1>1. /\ pc = "InternalForceCalcu" /\ pc' = "SupportReactionCalcu"
      /\ UNCHANGED <<structure, loads, iaDOFIndex, pElemDOF, nFreeDOF, nTotalDOF, pDisp, solved>>
  BY DEF InternalForceCalcu, input, layout
<1>2. /\ \A i : MemberForce(i)' = MemberForce(i)
      /\ \A i, j : Stiffness(i, j)' = Stiffness(i, j)
  BY <1>1, ForcesKept
<1>3. /\ elemStiff = [e \in Elements |-> LocalStiff(e)]
      /\ \A e \in Elements : daEndInterForce[e] = HeldEnds(e)
  BY <1>1, Zenon DEF Carried
<1>4. ASSUME solved, NEW i
      PROVE  EndsAt(i)' = (Total([j \in 0 .. nTotalDOF - 1 |-> Stiffness(i, j) * pDisp[j]]) - MemberForce(i)) % P
  <2>1. LegalInput /\ Connected /\ Profiled
    <3>1. pc \notin {"DOFIndexCalcu", "ElementDOFCalcu", "BandAndDiagCalcu"}
      BY <1>1
    <3>2. QED
      BY <3>1, LayoutKnown
  <2>2. pDisp \in Displacements
    BY <1>1, <1>4 DEF SupportRows, Displacements
  <2>3. NewEndsAt(i) = (Total([j \in 0 .. nTotalDOF - 1 |-> Stiffness(i, j) * pDisp[j]]) - MemberForce(i)) % P
    BY <1>3, <2>1, <2>2, EndsAddUp
  <2>4. EndsAt(i)' = NewEndsAt(i)
    BY EndsFollow
  <2>5. QED
    BY <2>3, <2>4
<1>5. solved' => \A i \in 0 .. nTotalDOF' - 1 :
          EndsAt(i)' = (Total([j \in 0 .. nTotalDOF' - 1 |-> Stiffness(i, j)' * pDisp'[j]]) - MemberForce(i)') % P
  BY <1>1, <1>2, <1>4, Zenon
<1>6. QED
  BY <1>1, <1>5, Zenon DEF Carried, NodesBalance

\* SupportReactionCalcu: what is left at the supports are the reactions.
LEMMA CarriedToOutput ==
    ASSUME IInv, SupportRows, Carried, OneMove => Equilibrium, OneMove, SupportReactionCalcu
    PROVE  Carried' /\ NodesBalance'
<1>1. /\ pc = "SupportReactionCalcu" /\ pc' = "Output" /\ daEndInterForce' = daEndInterForce
      /\ UNCHANGED <<structure, loads, iaDOFIndex, pElemDOF, nFreeDOF, nTotalDOF, pDisp, solved>>
  BY DEF SupportReactionCalcu, input, layout
<1>2. /\ \A i : NodalForce(i)' = NodalForce(i) /\ MemberForce(i)' = MemberForce(i) /\ EndsAt(i)' = EndsAt(i)
      /\ \A i, j : Stiffness(i, j)' = Stiffness(i, j)
  BY <1>1, ForcesKept, EndsKept
<1>3. /\ LegalInput /\ Connected /\ Profiled /\ nFreeDOF \in Nat \ {0} /\ nTotalDOF \in Nat
  <2>1. pc \notin {"DOFIndexCalcu", "ElementDOFCalcu", "BandAndDiagCalcu"}
    BY <1>1
  <2>2. QED
    BY <2>1, LayoutKnown
<1>4. ASSUME solved, NEW i \in 0 .. nTotalDOF - 1
      PROVE  EndsAt(i) = (NodalForce(i) + (IF i < nFreeDOF THEN 0 ELSE pLoadVect'[i])) % P
  <2> DEFINE N == 0 .. nTotalDOF - 1
             t == Total([j \in N |-> Stiffness(i, j) * pDisp[j]])
             n == NodalForce(i)
             m == MemberForce(i)
  <2>1. EndsAt(i) = (t - m) % P
    BY <1>1, <1>4, Zenon DEF Carried
  <2>2. pDisp \in Displacements
    BY <1>1, <1>4, Zenon DEF SupportRows, Displacements
  <2>3. n \in Int /\ m \in Int
    BY <1>3, GivenIsForces
  <2>4. t \in Int
    BY <1>3, <2>2, RowType
  <2>5. CASE i < nFreeDOF
    <3>1. t = (n + m) % P
      <4>1. Reached("InternalForceCalcu") /\ Equilibrium
        BY <1>1, ReachedNames
      <4>2. ~ (i >= nFreeDOF)
        BY <1>3, <2>5
      <4>3. QED
        BY <1>4, <4>1, <4>2, Zenon DEF Equilibrium, t, n, m
    <3> HIDE DEF t, n, m
    <3>2. EndsAt(i) = (n + 0) % P
      BY <2>1, <2>3, <2>4, <3>1, WhatIsLeft, Zenon
    <3>3. QED
      BY <2>5, <3>2, Zenon DEF n
  <2>6. CASE ~ (i < nFreeDOF)
    <3>1. i \in nFreeDOF .. nTotalDOF - 1
      BY <1>3, <2>6
    <3>2. pLoadVect'[i] = (t - ((n + m) % P)) % P
      <4>1. SupportRows'
        BY <1>3, SupportRowsToOutput
      <4>2. pLoadVect'[i] = (Total([j \in 0 .. nTotalDOF' - 1 |-> Stiffness(i, j)' * pDisp'[j]])
                                 - ((NodalForce(i)' + MemberForce(i)') % P)) % P
        <5>1. pc' = "Output" /\ solved' /\ i \in nFreeDOF' .. nTotalDOF' - 1
          BY <1>1, <1>4, <3>1
        <5>2. QED
          BY <4>1, <5>1, Zenon DEF SupportRows
      <4>3. QED
        BY <1>1, <1>2, <4>2, Zenon
    <3> HIDE DEF t, n, m
    <3>3. EndsAt(i) = (n + ((t - ((n + m) % P)) % P)) % P
      BY <2>1, <2>3, <2>4, WhatIsLeft, Zenon
    <3>4. EndsAt(i) = (n + pLoadVect'[i]) % P
      BY <3>2, <3>3, Zenon
    <3>5. QED
      BY <2>6, <3>4, Zenon DEF n
  <2>7. QED
    BY <2>5, <2>6
<1>5. solved' => \A i \in 0 .. nTotalDOF' - 1 :
          EndsAt(i)' = (NodalForce(i)' + (IF i < nFreeDOF' THEN 0 ELSE pLoadVect'[i])) % P
  BY <1>1, <1>2, <1>4, Zenon
<1>6. NodesBalance'
  BY <1>5, Zenon DEF NodesBalance
<1>7. QED
  BY <1>1, <1>6 DEF Carried

\* Nothing of it changes when no variable does.
LEMMA CarriedStays ==
    ASSUME Carried, NodesBalance, UNCHANGED vars
    PROVE  Carried' /\ NodesBalance'
<1>1. UNCHANGED <<structure, loads, iaDOFIndex, pElemDOF, nFreeDOF, nTotalDOF,
                  elemStiff, pLoadVect, pDisp, daEndInterForce, solved, pc>>
  BY DEF vars, input, layout
<1>2. /\ \A i, j : Stiffness(i, j)' = Stiffness(i, j)
      /\ \A i : NodalForce(i)' = NodalForce(i) /\ MemberForce(i)' = MemberForce(i)
      /\ \A e : LocalStiff(e)' = LocalStiff(e)
  BY <1>1, ForcesKept
<1>3. /\ Elements' = Elements /\ \A e : HeldEnds(e)' = HeldEnds(e)
      /\ \A i : EndsAt(i)' = EndsAt(i)
  BY <1>1, EndsKept
<1>4. Carried'
  BY <1>1, <1>2, <1>3, Zenon DEF Carried
<1>5. NodesBalance'
  BY <1>1, <1>2, <1>3, Zenon DEF NodesBalance
<1>6. QED
  BY <1>4, <1>5

\* The forces at the nodes through a step of TestMITC.
LEMMA CarriedStep ==
    ASSUME pc # "DOFIndexCalcu" => IInv, OneMove => Equilibrium, OneMove => SupportRows, [Next]_vars,
           (OneMove /\ OneLoadPerElement) => Carried /\ NodesBalance
    PROVE  ((OneMove /\ OneLoadPerElement) => Carried /\ NodesBalance)'
<1>1. UNCHANGED <<structure, loads>>
  BY Zenon DEF Next, vars, input, DOFIndexCalcu, ElementDOFCalcu, BandAndDiagCalcu, GKAssembly,
         LoadVectorAssembly, LDLTSolve, InternalForceCalcu, SupportReactionCalcu
<1>2. OneMove' = OneMove /\ OneLoadPerElement' = OneLoadPerElement
  BY <1>1 DEF OneMove, OneLoadPerElement
<1>3. SUFFICES ASSUME OneMove, OneLoadPerElement PROVE Carried' /\ NodesBalance'
  BY <1>2
<1>4. Carried /\ NodesBalance /\ SupportRows
  BY <1>3
<1>5. CASE UNCHANGED vars
  BY <1>4, <1>5, CarriedStays
<1>6. CASE DOFIndexCalcu \/ ElementDOFCalcu \/ BandAndDiagCalcu \/ GKAssembly
  BY <1>6, CarriedToLoads
<1>7. CASE LoadVectorAssembly \/ LDLTSolve \/ InternalForceCalcu \/ SupportReactionCalcu
  <2>1. pc # "DOFIndexCalcu"
    BY <1>7, Zenon DEF LoadVectorAssembly, LDLTSolve, InternalForceCalcu, SupportReactionCalcu
  <2>2. IInv
    BY <2>1
  <2>3. QED
    BY <1>3, <1>4, <1>7, <2>2, CarriedToSolve, CarriedToForces, CarriedToReactions, CarriedToOutput
<1>8. QED
  BY <1>5, <1>6, <1>7 DEF Next

\* The steps of the program around the computation leave the rows and the forces alone.
LEMMA BalancedStep ==
    ASSUME FrameIInv, [FrameNext]_frameVars, Loaded, OneMove => Equilibrium, OneMove => SupportRows,
           (OneMove /\ OneLoadPerElement) => Carried /\ NodesBalance
    PROVE  /\ (OneMove => SupportRows)'
           /\ ((OneMove /\ OneLoadPerElement) => Carried /\ NodesBalance)'
<1>1. pc # "DOFIndexCalcu" => IInv
  BY DEF FrameIInv
<1>2. CASE [Next]_vars
  BY <1>1, <1>2, SupportRowsStep, CarriedStep
<1>3. CASE pc' = "DOFIndexCalcu"
  BY <1>3 DEF SupportRows, Carried, NodesBalance
<1>4. QED
  BY <1>2, <1>3, ComputesOrStarts

\* They are balanced before the computation starts.
LEMMA StartIsBalanced ==
    FrameInit => /\ Loaded
                 /\ OneMove => Equilibrium
                 /\ OneMove => SupportRows
                 /\ (OneMove /\ OneLoadPerElement) => Carried /\ NodesBalance
<1>1. SUFFICES ASSUME FrameInit PROVE pc = "DOFIndexCalcu"
  BY ReachedNames DEF Loaded, Equilibrium, SupportRows, Carried, NodesBalance
<1>2. QED
  BY <1>1 DEF FrameInit

-----------------------------------------------------------------------------
(* The structure as a rigid body: what its parts are displaced by when it    *)
(* moves, or turns about the origin, as a whole.                             *)

\* What the degree of freedom d is displaced by when the whole structure moves by
\* one in direction j or, with j = 2, turns by one.
Swing(j, d) ==
    IF j = 2 THEN IF d[2] = 0 THEN -structure.pos[d[1]][2]
                  ELSE IF d[2] = 1 THEN structure.pos[d[1]][1] ELSE 1
    ELSE IF d[2] = j THEN 1 ELSE 0

\* The same of the independent degree of freedom that has the number i.
SwingOf(j) ==
    [i \in 0 .. nTotalDOF - 1 |-> Swing(j, CHOOSE d \in Independent(structure) : iaDOFIndex[d] = i)]

\* The numbers are those that DOFIndexCalcu gave.
Counted ==
    /\ iaDOFIndex = DOFIndexes(structure)
    /\ nFreeDOF = nFreeDOFs(structure)
    /\ nTotalDOF = nTotalDOFs(structure)

\* The degrees of freedom of an element's places.
PlaceOf(e) ==
    LET n == structure.elem[e].node IN
    IF IsTruss(e) THEN << <<n[1], 0>>, <<n[1], 1>>, <<n[2], 0>>, <<n[2], 1>> >>
    ELSE << <<n[1], 0>>, <<n[1], 1>>, <<n[1], 2>>, <<n[2], 0>>, <<n[2], 1>>, <<n[2], 2>> >>

\* They are integers.
LEMMA SwingType ==
    ASSUME LegalInput, NEW j \in 0 .. 2, NEW d \in DOFs(structure)
    PROVE  Swing(j, d) \in Int
<1>1. PICK n \in Node(structure), m \in 0 .. 2 : d = <<n, m>>
  BY DEF DOFs
<1>2. structure.pos[n][1] \in Int /\ structure.pos[n][2] \in Int
  <2>1. \A axis \in 1 .. 2 : structure.pos[n][axis] \in Int
    BY DEF LegalInput, Measured
  <2>2. 1 \in 1 .. 2 /\ 2 \in 1 .. 2
    OBVIOUS
  <2>3. QED
    BY <2>1, <2>2, Zenon
<1>3. QED
  BY <1>1, <1>2 DEF Swing

\* Degrees of freedom with the same number are displaced by the same.
LEMMA SwingOfNumber ==
    ASSUME LegalInput, Counted, CoupledTogether, NEW j \in 0 .. 2
    PROVE  /\ SwingOf(j) \in [0 .. nTotalDOF - 1 -> Int]
           /\ \A d \in DOFs(structure) : /\ iaDOFIndex[d] \in 0 .. nTotalDOF - 1
                                         /\ SwingOf(j)[iaDOFIndex[d]] = Swing(j, d)
<1> DEFINE I == Independent(structure)
           who(i) == CHOOSE d \in I : iaDOFIndex[d] = i
<1>1. /\ Legal(structure) /\ nTotalDOF = nTotalDOFs(structure)
      /\ \A d : iaDOFIndex[d] = DOFIndexes(structure)[d]
  BY DEF LegalInput, Counted
<1>2. /\ \A d \in I : iaDOFIndex[d] = IndependentNumber(structure, d)
      /\ \A d \in Coupled(structure) : Master(structure, d) \in I /\ iaDOFIndex[d] = iaDOFIndex[Master(structure, d)]
      /\ \A d \in DOFs(structure) : iaDOFIndex[d] \in 0 .. nTotalDOF - 1
  BY <1>1, DOFNumbers
<1>3. /\ \A d, e \in I : iaDOFIndex[d] = iaDOFIndex[e] => d = e
      /\ \A i \in 0 .. nTotalDOF - 1 : \E d \in I : iaDOFIndex[d] = i
  BY <1>1, <1>2, IndependentNumbers
<1>4. DOFs(structure) = I \cup Coupled(structure)
  BY <1>1, LegalStructure DEF Independent
<1>5. \A i \in 0 .. nTotalDOF - 1 : who(i) \in I /\ iaDOFIndex[who(i)] = i
  BY <1>3
<1>6. \A d \in I : who(iaDOFIndex[d]) = d
  BY <1>2, <1>3, <1>4, <1>5
<1>7. SwingOf(j) = [i \in 0 .. nTotalDOF - 1 |-> Swing(j, who(i))]
  BY DEF SwingOf
<1> HIDE DEF who
<1>8. SwingOf(j) \in [0 .. nTotalDOF - 1 -> Int]
  <2>1. \A i \in 0 .. nTotalDOF - 1 : Swing(j, who(i)) \in Int
    BY <1>4, <1>5, SwingType
  <2>2. QED
    BY <1>7, <2>1
<1>9. \A d \in I : SwingOf(j)[iaDOFIndex[d]] = Swing(j, d)
  BY <1>2, <1>4, <1>6, <1>7
<1>10. \A d \in Coupled(structure) : Swing(j, Master(structure, d)) = Swing(j, d)
  <2> TAKE d \in Coupled(structure)
  <2>1. structure.pos[Master(structure, d)[1]] = structure.pos[d[1]]
    BY DEF CoupledTogether
  <2>2. Master(structure, d)[2] = d[2]
    BY DEF Master
  <2>3. QED
    BY <2>1, <2>2 DEF Swing
<1>11. \A d \in DOFs(structure) : SwingOf(j)[iaDOFIndex[d]] = Swing(j, d)
  BY <1>2, <1>4, <1>9, <1>10
<1>12. QED
  BY <1>2, <1>8, <1>11

\* The places of an element are degrees of freedom of its nodes.
LEMMA PlaceDOFs ==
    ASSUME LegalInput, Connected, NEW e \in Elements, NEW k \in Places(e)
    PROVE  PlaceOf(e)[k] \in DOFs(structure) /\ pElemDOF[e][k] = iaDOFIndex[PlaceOf(e)[k]]
<1> DEFINE elem == structure.elem[e]
<1>1. PICK p \in Node(structure), q \in Node(structure) : elem.node = <<p, q>>
  BY DEF LegalInput, Legal, Elements
<1>2. ~ IsTruss(e) => structure.type[p] = "frame" /\ structure.type[q] = "frame"
  <2>1. elem.type \in {"truss", "frame"}
    BY DEF LegalInput, Legal, Elements
  <2>2. elem.type = "frame" => \A m \in 1 .. 2 : structure.type[elem.node[m]] = "frame"
    BY DEF LegalInput, Legal, Elements
  <2>3. QED
    BY <1>1, <2>1, <2>2 DEF IsTruss
<1>3. pElemDOF[e] = ElementDOFs(elem, iaDOFIndex)
  BY DEF Connected
<1>4. \A n \in Node(structure) : \A m \in 0 .. 2 :
          structure.type[n] = "frame" \/ m # 2 => <<n, m>> \in DOFs(structure)
  BY DEF DOFs
<1>5. 0 \in 0 .. 2 /\ 1 \in 0 .. 2 /\ 2 \in 0 .. 2 /\ 0 # 2 /\ 1 # 2
  OBVIOUS
<1>6. CASE IsTruss(e)
  <2>1. k \in {1, 2, 3, 4}
    BY <1>6 DEF Places
  <2>2. pElemDOF[e] = << iaDOFIndex[<<p, 0>>], iaDOFIndex[<<p, 1>>], iaDOFIndex[<<q, 0>>], iaDOFIndex[<<q, 1>>] >>
    BY <1>1, <1>3, <1>6 DEF ElementDOFs, IsTruss
  <2>3. PlaceOf(e) = << <<p, 0>>, <<p, 1>>, <<q, 0>>, <<q, 1>> >>
    BY <1>1, <1>6 DEF PlaceOf
  <2>4. <<p, 0>> \in DOFs(structure) /\ <<p, 1>> \in DOFs(structure) /\ <<q, 0>> \in DOFs(structure) /\ <<q, 1>> \in DOFs(structure)
    BY <1>4, <1>5, Zenon
  <2>5. QED
    BY <2>1, <2>2, <2>3, <2>4
<1>7. CASE ~ IsTruss(e)
  <2>1. k \in {1, 2, 3, 4, 5, 6}
    BY <1>7 DEF Places
  <2>2. pElemDOF[e] = << iaDOFIndex[<<p, 0>>], iaDOFIndex[<<p, 1>>], iaDOFIndex[<<p, 2>>],
                         iaDOFIndex[<<q, 0>>], iaDOFIndex[<<q, 1>>], iaDOFIndex[<<q, 2>>] >>
    BY <1>1, <1>3, <1>7 DEF ElementDOFs, IsTruss
  <2>3. PlaceOf(e) = << <<p, 0>>, <<p, 1>>, <<p, 2>>, <<q, 0>>, <<q, 1>>, <<q, 2>> >>
    BY <1>1, <1>7 DEF PlaceOf
  <2>4. /\ <<p, 0>> \in DOFs(structure) /\ <<p, 1>> \in DOFs(structure) /\ <<p, 2>> \in DOFs(structure)
        /\ <<q, 0>> \in DOFs(structure) /\ <<q, 1>> \in DOFs(structure) /\ <<q, 2>> \in DOFs(structure)
    BY <1>2, <1>4, <1>7, <1>5, Zenon
  <2>5. QED
    BY <2>1, <2>2, <2>3, <2>4
<1>8. QED
  BY <1>6, <1>7

-----------------------------------------------------------------------------
(* A rigid motion does not strain an element.                                *)

\* A sum of six terms.
LEMMA SumOfSix ==
    ASSUME NEW f, \A k \in 1 .. 6 : f[k] \in Int
    PROVE  SumOver(f, 1 .. 6) = f[1] + f[2] + f[3] + f[4] + f[5] + f[6]
<1>1. /\ 1 .. 6 = (1 .. 4) \cup {5, 6} /\ (1 .. 4) \cap {5, 6} = {}
      /\ {5, 6} \ {5} = {6} /\ {6} \ {6} = {}
  OBVIOUS
<1>2. IsFiniteSet(1 .. 4) /\ IsFiniteSet({5, 6}) /\ IsFiniteSet({6})
  <2>1. IsFiniteSet(1 .. 4) /\ IsFiniteSet(1 .. 6)
    <3>1. 1 \in Int /\ 4 \in Int /\ 6 \in Int
      OBVIOUS
    <3>2. QED
      BY <3>1, FS_Interval, Zenon
  <2>2. {5, 6} \in SUBSET (1 .. 6) /\ {6} \in SUBSET (1 .. 6)
    OBVIOUS
  <2>3. QED
    BY <2>1, <2>2, FS_Subset
<1>3. f[5] \in Int /\ f[6] \in Int /\ \A k \in 1 .. 4 : f[k] \in Int
  OBVIOUS
<1>4. SumOver(f, {5, 6}) = f[5] + SumOver(f, {6})
  BY <1>1, <1>2, <1>3, SumOverMember
<1>5. SumOver(f, {6}) = f[6] + 0
  BY <1>1, <1>2, <1>3, SumOverMember, SumOverNothing
<1>6. SumOver(f, 1 .. 4) = f[1] + f[2] + f[3] + f[4]
  BY <1>3, SumOfFour
<1>7. SumOver(f, 1 .. 6) = SumOver(f, 1 .. 4) + SumOver(f, {5, 6})
  <2>1. \A x \in (1 .. 4) \cup {5, 6} : f[x] \in Int
    BY <1>3
  <2>2. QED
    BY <1>1, <1>2, <2>1, SumOfParts, Zenon
<1>8. f[1] \in Int /\ f[2] \in Int /\ f[3] \in Int /\ f[4] \in Int
  OBVIOUS
<1>9. QED
  BY <1>3, <1>4, <1>5, <1>6, <1>7, <1>8

\* A row of a truss element's table times a vector.
LEMMA RowOfFourTimes ==
    ASSUME NEW row \in Vectors(1 .. 4), NEW v \in Vectors(1 .. 4)
    PROVE  Times(row, v, 1 .. 4) = row[1] * v[1] + row[2] * v[2] + row[3] * v[3] + row[4] * v[4]
<1> DEFINE f == [k \in 1 .. 4 |-> row[k] * v[k]]
<1>1. \A k \in 1 .. 4 : row[k] \in Int /\ v[k] \in Int
  BY DEF Vectors
<1>2. f[1] = row[1] * v[1] /\ f[2] = row[2] * v[2] /\ f[3] = row[3] * v[3] /\ f[4] = row[4] * v[4]
  OBVIOUS
<1>3. \A x, y \in Int : x * y \in Int
  OBVIOUS
<1>4. Times(row, v, 1 .. 4) = SumOver(f, 1 .. 4)
  BY DEF Times
<1>5. \A k \in 1 .. 4 : f[k] \in Int
  BY <1>1, <1>3
<1> HIDE DEF f
<1>6. SumOver(f, 1 .. 4) = f[1] + f[2] + f[3] + f[4]
  BY <1>5, SumOfFour
<1>7. QED
  BY <1>2, <1>4, <1>6

\* A row of a frame element's.
LEMMA RowOfSixTimes ==
    ASSUME NEW row \in Vectors(1 .. 6), NEW v \in Vectors(1 .. 6)
    PROVE  Times(row, v, 1 .. 6) = row[1] * v[1] + row[2] * v[2] + row[3] * v[3] + row[4] * v[4] + row[5] * v[5] + row[6] * v[6]
<1> DEFINE f == [k \in 1 .. 6 |-> row[k] * v[k]]
<1>1. \A k \in 1 .. 6 : row[k] \in Int /\ v[k] \in Int
  BY DEF Vectors
<1>2. /\ f[1] = row[1] * v[1] /\ f[2] = row[2] * v[2] /\ f[3] = row[3] * v[3]
      /\ f[4] = row[4] * v[4] /\ f[5] = row[5] * v[5] /\ f[6] = row[6] * v[6]
  OBVIOUS
<1>3. \A x, y \in Int : x * y \in Int
  OBVIOUS
<1>4. Times(row, v, 1 .. 6) = SumOver(f, 1 .. 6)
  BY DEF Times
<1>5. \A k \in 1 .. 6 : f[k] \in Int
  BY <1>1, <1>3
<1> HIDE DEF f
<1>6. SumOver(f, 1 .. 6) = f[1] + f[2] + f[3] + f[4] + f[5] + f[6]
  BY <1>5, SumOfSix
<1>7. QED
  BY <1>2, <1>4, <1>6

\* What is 0 modulo P is the same as 0, and as anything that it differs from by 0.
LEMMA ZeroIsSame ==
    /\ \A x, y \in Int : Zero(x - y) => Same(P, x, y)
    /\ \A x, y \in Int : Same(P, x, y) /\ Zero(y) => Zero(x)
<1>0. P \in Nat \ {0} /\ 0 \in Int
  BY PrimeType
<1>1. ASSUME NEW x \in Int, NEW y \in Int, Zero(x - y) PROVE Same(P, x, y)
  <2>1. x - y \in Int /\ (x - y) + y = x /\ 0 + y = y
    OBVIOUS
  <2>2. Same(P, y, y)
    BY <1>0, SameIsEquivalence, Zenon
  <2>3. Same(P, (x - y) + y, 0 + y)
    BY <1>0, <1>1, <2>1, <2>2, SameAdds, Zenon DEF Zero
  <2>4. QED
    BY <2>1, <2>3, Zenon
<1>2. ASSUME NEW x \in Int, NEW y \in Int, Same(P, x, y), Zero(y) PROVE Zero(x)
  BY <1>0, <1>2, SameChains, Zenon DEF Zero
<1>3. QED
  BY <1>1, <1>2

\* The sine and the cosine of an element.
LEMMA Directions ==
    ASSUME LegalInput, NEW e \in Elements
    PROVE  /\ Cos(e) \in Int /\ Sin(e) \in Int /\ Delta(e, 1) \in Int /\ Delta(e, 2) \in Int
           /\ Length(e) \in Int /\ Unit(Length(e))
           /\ Zero(Sin(e) * Delta(e, 1) - Cos(e) * Delta(e, 2))
           /\ Zero(Cos(e) * Delta(e, 1) + Sin(e) * Delta(e, 2) - Length(e))
<1>1. Legal(structure) /\ Measured(structure) /\ e \in DOMAIN structure.elem
  BY DEF LegalInput, Elements
<1>2. PICK x \in Int, y \in Int : x = Delta(e, 1) /\ y = Delta(e, 2)
  <2>1. PICK m \in Node(structure), n \in Node(structure) :
            m = structure.elem[e].node[1] /\ n = structure.elem[e].node[2]
    BY <1>1 DEF Legal
  <2>2. \A axis \in 1 .. 2 : structure.pos[m][axis] \in Int /\ structure.pos[n][axis] \in Int
    BY <1>1 DEF Measured
  <2>3. \A axis \in 1 .. 2 : Delta(e, axis) = structure.pos[n][axis] - structure.pos[m][axis]
    BY <2>1 DEF Delta
  <2>4. \A axis \in 1 .. 2 : Delta(e, axis) \in Int
    BY <2>2, <2>3
  <2>5. Delta(e, 1) \in Int /\ Delta(e, 2) \in Int
    BY <2>4
  <2>6. QED
    BY <2>5
<1>3. PICK l \in 1 .. P - 1 : l = Length(e) /\ l * l = x * x + y * y
  <2>1. \E l \in 1 .. P - 1 : l * l = Delta(e, 1) * Delta(e, 1) + Delta(e, 2) * Delta(e, 2)
    BY <1>1, Zenon DEF Measured, Delta
  <2>2. QED
    BY <1>2, <2>1, Zenon DEF Length
<1>4. Unit(l) /\ l \in Int
  BY UnitsExist
<1>5. PICK c \in Int, s \in Int : c = Cos(e) /\ s = Sin(e) /\ Zero(c * l - x) /\ Zero(s * l - y)
  BY <1>2, <1>3, <1>4, DivSolves, Zenon DEF Cos, Sin
<1>6. Zero(s * x - c * y)
  <2>1. /\ s * x - c * y \in Int /\ c * l - x \in Int /\ s * l - y \in Int /\ -s \in Int /\ 0 \in Int
        /\ s * x - c * y = (-s) * (c * l - x) + c * (s * l - y) + 0 * (s * l - y)
    BY <1>4
  <2>2. Zero((-s) * (c * l - x) + c * (s * l - y) + 0 * (s * l - y))
    BY <1>5, <2>1, ZeroCombines, Zenon
  <2>3. QED
    BY <2>1, <2>2, Zenon
<1>7. Zero(c * x + s * y - l)
  <2>1. /\ c * x + s * y - l \in Int /\ c * l - x \in Int /\ s * l - y \in Int /\ 0 \in Int
        /\ l * l \in Int /\ x * x + y * y \in Int
    BY <1>4
  <2>2. (c * x + s * y - l) * l = (x * (c * l) + y * (s * l)) - l * l
    BY <1>4
  <2>3. x * (c * l - x) + y * (s * l - y) + 0 * (s * l - y) = (x * (c * l) + y * (s * l)) - (x * x + y * y)
    BY <1>4
  <2>4. Zero(x * (c * l - x) + y * (s * l - y) + 0 * (s * l - y))
    BY <1>5, <2>1, ZeroCombines, Zenon
  <2>5. Zero((c * x + s * y - l) * l)
    BY <1>3, <2>2, <2>3, <2>4, Zenon
  <2>6. QED
    BY <1>4, <2>1, <2>5, ZeroRules, Zenon
<1>8. QED
  BY <1>2, <1>3, <1>4, <1>5, <1>6, <1>7, Zenon

\* The bending stiffnesses of a frame element, over its length.
LEMMA BendingStiffnesses ==
    ASSUME NEW l \in Int, Unit(l), NEW EI \in Int,
           NEW b, b = Div(12 * EI, l * l * l), NEW g, g = Div(6 * EI, l * l),
           NEW d, d = Div(4 * EI, l), NEW h, h = Div(d, 2)
    PROVE  /\ b \in Int /\ g \in Int /\ d \in Int /\ h \in Int
           /\ Zero(2 * g - b * l) /\ Zero(d + h - g * l)
<1>1. l * l \in Int /\ Unit(l * l) /\ l * l * l \in Int /\ Unit(l * l * l) /\ 2 \in Int /\ Unit(2)
  <2>1. l * l \in Int /\ l * l * l \in Int /\ 2 \in Int
    OBVIOUS
  <2>2. QED
    BY <2>1, UnitsMultiply, SmallUnits, Zenon
<1>2. 12 * EI \in Int /\ 6 * EI \in Int /\ 4 * EI \in Int
  OBVIOUS
<1>3. /\ b \in Int /\ Zero(b * (l * l * l) - 12 * EI)
      /\ g \in Int /\ Zero(g * (l * l) - 6 * EI)
      /\ d \in Int /\ Zero(d * l - 4 * EI)
  BY <1>1, <1>2, DivSolves, Zenon
<1>4. h \in Int /\ Zero(h * 2 - d)
  BY <1>1, <1>3, DivSolves, Zenon
<1>5. Zero(2 * g - b * l)
  <2>1. /\ 2 * g - b * l \in Int /\ b * (l * l * l) - 12 * EI \in Int /\ g * (l * l) - 6 * EI \in Int
        /\ 0 \in Int /\ -1 \in Int
        /\ (2 * g - b * l) * (l * l)
               = 2 * (g * (l * l) - 6 * EI) + (-1) * (b * (l * l * l) - 12 * EI) + 0 * (b * (l * l * l) - 12 * EI)
    BY <1>3
  <2>2. Zero(2 * (g * (l * l) - 6 * EI) + (-1) * (b * (l * l * l) - 12 * EI) + 0 * (b * (l * l * l) - 12 * EI))
    BY <1>1, <1>3, <2>1, ZeroCombines, Zenon
  <2>3. Zero((2 * g - b * l) * (l * l))
    BY <2>1, <2>2, Zenon
  <2>4. QED
    BY <1>1, <2>1, <2>3, ZeroRules, Zenon
<1>6. Zero(d + h - g * l)
  <2>1. /\ d + h - g * l \in Int /\ g * (l * l) - 6 * EI \in Int /\ d * l - 4 * EI \in Int /\ h * 2 - d \in Int
        /\ l * 2 \in Int /\ 3 \in Int /\ -2 \in Int
        /\ (d + h - g * l) * (l * 2)
               = 3 * (d * l - 4 * EI) + (-2) * (g * (l * l) - 6 * EI) + l * (h * 2 - d)
    BY <1>3, <1>4
  <2>2. Zero(3 * (d * l - 4 * EI) + (-2) * (g * (l * l) - 6 * EI) + l * (h * 2 - d))
    BY <1>3, <1>4, <2>1, ZeroCombines, Zenon
  <2>3. Zero((d + h - g * l) * (l * 2)) /\ Unit(l * 2)
    BY <1>1, <2>1, <2>2, UnitsMultiply, Zenon
  <2>4. QED
    BY <2>1, <2>3, ZeroRules, Zenon
<1>7. QED
  BY <1>3, <1>4, <1>5, <1>6

\* A truss element whose ends are displaced alike along it is not strained.
LEMMA TrussUnstrained ==
    ASSUME NEW a \in Int, NEW u \in Vectors(1 .. 4), Zero(u[3] - u[1])
    PROVE  \A k \in 1 .. 4 : Zero(Times(TrussStiff(a)[k], u, 1 .. 4))
<1> DEFINE K == TrussStiff(a)
           n(k) == Times(K[k], u, 1 .. 4)
<1>1. u[1] \in Int /\ u[2] \in Int /\ u[3] \in Int /\ u[4] \in Int
  BY DEF Vectors
<1>2. /\ K[1] = <<a, 0, -a, 0>> /\ K[2] = <<0, 0, 0, 0>> /\ K[3] = <<-a, 0, a, 0>> /\ K[4] = <<0, 0, 0, 0>>
  BY DEF TrussStiff
<1>3. 0 \in Int /\ -a \in Int /\ u[3] - u[1] \in Int
  BY <1>1
<1> HIDE DEF K
<1>4. /\ n(1) = a * u[1] + 0 * u[2] + (-a) * u[3] + 0 * u[4]
      /\ n(2) = 0 * u[1] + 0 * u[2] + 0 * u[3] + 0 * u[4]
      /\ n(3) = (-a) * u[1] + 0 * u[2] + a * u[3] + 0 * u[4]
      /\ n(4) = 0 * u[1] + 0 * u[2] + 0 * u[3] + 0 * u[4]
  <2>1. \A k \in 1 .. 4 : Times(K[k], u, 1 .. 4) = K[k][1] * u[1] + K[k][2] * u[2] + K[k][3] * u[3] + K[k][4] * u[4]
    <3>1. \A k \in 1 .. 4 : K[k] \in Vectors(1 .. 4)
      BY TrussTables, Zenon DEF Matrices, Vectors, K
    <3>2. QED
      BY <3>1, RowOfFourTimes, Zenon
  <2>2. /\ K[1][1] = a /\ K[1][2] = 0 /\ K[1][3] = -a /\ K[1][4] = 0
        /\ K[2][1] = 0 /\ K[2][2] = 0 /\ K[2][3] = 0 /\ K[2][4] = 0
        /\ K[3][1] = -a /\ K[3][2] = 0 /\ K[3][3] = a /\ K[3][4] = 0
        /\ K[4][1] = 0 /\ K[4][2] = 0 /\ K[4][3] = 0 /\ K[4][4] = 0
    BY <1>2
  <2>3. 1 \in 1 .. 4 /\ 2 \in 1 .. 4 /\ 3 \in 1 .. 4 /\ 4 \in 1 .. 4
    OBVIOUS
  <2>4. QED
    BY <2>1, <2>2, <2>3, Zenon DEF n
<1> HIDE DEF n
<1>5. /\ n(1) = (-a) * (u[3] - u[1]) /\ n(3) = a * (u[3] - u[1])
      /\ n(2) = 0 * (u[3] - u[1]) /\ n(4) = 0 * (u[3] - u[1])
  BY <1>1, <1>4
<1>6. Zero(n(1)) /\ Zero(n(2)) /\ Zero(n(3)) /\ Zero(n(4))
  <2>1. \A i \in Int : Zero(i * (u[3] - u[1]))
    BY <1>3, ZeroRules, Zenon
  <2>2. QED
    BY <1>3, <1>5, <2>1, Zenon
<1>7. \A k \in 1 .. 4 : k = 1 \/ k = 2 \/ k = 3 \/ k = 4
  OBVIOUS
<1>8. QED
  BY <1>6, <1>7, Zenon DEF n, K

\* Nor is a frame element whose ends, with what they turn by, are displaced as
\* those of a straight line of its length.
LEMMA FrameUnstrained ==
    ASSUME NEW a \in Int, NEW b \in Int, NEW g \in Int, NEW d \in Int, NEW h \in Int, NEW l \in Int,
           Zero(2 * g - b * l), Zero(d + h - g * l),
           NEW u \in Vectors(1 .. 6), NEW t \in Int,
           Zero(u[4] - u[1]), Zero(u[5] - u[2] - t * l), Zero(u[3] - t), Zero(u[6] - t)
    PROVE  \A k \in 1 .. 6 : Zero(Times(FrameStiff(a, b, g, d, h)[k], u, 1 .. 6))
<1> DEFINE K == FrameStiff(a, b, g, d, h)
           n(k) == Times(K[k], u, 1 .. 6)
<1>1. u[1] \in Int /\ u[2] \in Int /\ u[3] \in Int /\ u[4] \in Int /\ u[5] \in Int /\ u[6] \in Int
  BY DEF Vectors
<1>2. /\ K[1] = <<a, 0, 0, -a, 0, 0>> /\ K[2] = <<0, b, g, 0, -b, g>> /\ K[3] = <<0, g, d, 0, -g, h>>
      /\ K[4] = <<-a, 0, 0, a, 0, 0>> /\ K[5] = <<0, -b, -g, 0, b, -g>> /\ K[6] = <<0, g, h, 0, -g, d>>
  BY DEF FrameStiff
<1>3. 0 \in Int /\ -a \in Int /\ -b \in Int /\ -g \in Int
  OBVIOUS
<1> HIDE DEF K
<1>4. /\ n(1) = a * u[1] + 0 * u[2] + 0 * u[3] + (-a) * u[4] + 0 * u[5] + 0 * u[6]
      /\ n(2) = 0 * u[1] + b * u[2] + g * u[3] + 0 * u[4] + (-b) * u[5] + g * u[6]
      /\ n(3) = 0 * u[1] + g * u[2] + d * u[3] + 0 * u[4] + (-g) * u[5] + h * u[6]
      /\ n(4) = (-a) * u[1] + 0 * u[2] + 0 * u[3] + a * u[4] + 0 * u[5] + 0 * u[6]
      /\ n(5) = 0 * u[1] + (-b) * u[2] + (-g) * u[3] + 0 * u[4] + b * u[5] + (-g) * u[6]
      /\ n(6) = 0 * u[1] + g * u[2] + h * u[3] + 0 * u[4] + (-g) * u[5] + d * u[6]
  <2>1. \A k \in 1 .. 6 : Times(K[k], u, 1 .. 6) = K[k][1] * u[1] + K[k][2] * u[2] + K[k][3] * u[3]
                                                + K[k][4] * u[4] + K[k][5] * u[5] + K[k][6] * u[6]
    <3>1. \A k \in 1 .. 6 : K[k] \in Vectors(1 .. 6)
      <4>1. K \in Matrices(1 .. 6)
        BY FrameTables DEF K
      <4>2. QED
        BY <4>1 DEF Matrices, Vectors
    <3>2. QED
      BY <3>1, RowOfSixTimes, Zenon
  <2>2. /\ K[1][1] = a /\ K[1][2] = 0 /\ K[1][3] = 0 /\ K[1][4] = -a /\ K[1][5] = 0 /\ K[1][6] = 0
        /\ K[2][1] = 0 /\ K[2][2] = b /\ K[2][3] = g /\ K[2][4] = 0 /\ K[2][5] = -b /\ K[2][6] = g
        /\ K[3][1] = 0 /\ K[3][2] = g /\ K[3][3] = d /\ K[3][4] = 0 /\ K[3][5] = -g /\ K[3][6] = h
        /\ K[4][1] = -a /\ K[4][2] = 0 /\ K[4][3] = 0 /\ K[4][4] = a /\ K[4][5] = 0 /\ K[4][6] = 0
        /\ K[5][1] = 0 /\ K[5][2] = -b /\ K[5][3] = -g /\ K[5][4] = 0 /\ K[5][5] = b /\ K[5][6] = -g
        /\ K[6][1] = 0 /\ K[6][2] = g /\ K[6][3] = h /\ K[6][4] = 0 /\ K[6][5] = -g /\ K[6][6] = d
    BY <1>2
  <2>3. 1 \in 1 .. 6 /\ 2 \in 1 .. 6 /\ 3 \in 1 .. 6 /\ 4 \in 1 .. 6 /\ 5 \in 1 .. 6 /\ 6 \in 1 .. 6
    OBVIOUS
  <2>4. QED
    BY <2>1, <2>2, <2>3, Zenon DEF n
<1> HIDE DEF n
<1>5. PICK x1 \in Int, x2 \in Int, x3 \in Int, x6 \in Int :
          x1 = u[4] - u[1] /\ x2 = u[5] - u[2] - t * l /\ x3 = u[3] - t /\ x6 = u[6] - t
  BY <1>1
<1>6. Zero(x1) /\ Zero(x2) /\ Zero(x3) /\ Zero(x6)
  BY <1>5, Zenon
<1>7. PICK y \in Int, z \in Int : y = 2 * g - b * l /\ z = d + h - g * l /\ Zero(y) /\ Zero(z)
  OBVIOUS
<1>8. u[4] = u[1] + x1 /\ u[5] = u[2] + x2 + t * l /\ u[3] = x3 + t /\ u[6] = x6 + t
  BY <1>1, <1>5
<1>9. /\ n(1) = (-a) * x1 + 0 * x1 + 0 * x1
      /\ n(4) = a * x1 + 0 * x1 + 0 * x1
      /\ n(2) = ((-b) * x2 + g * x3 + g * x6) + t * y
      /\ n(5) = (b * x2 + (-g) * x3 + (-g) * x6) + (-t) * y
      /\ n(3) = ((-g) * x2 + d * x3 + h * x6) + t * z
      /\ n(6) = ((-g) * x2 + h * x3 + d * x6) + t * z
  <2>1. n(1) = (-a) * x1 + 0 * x1 + 0 * x1 /\ n(4) = a * x1 + 0 * x1 + 0 * x1
    BY <1>1, <1>4, <1>8
  <2>2. n(2) = b * u[2] + g * (x3 + t) + (-b) * (u[2] + x2 + t * l) + g * (x6 + t)
    BY <1>1, <1>4, <1>8
  <2>3. n(2) = ((-b) * x2 + g * x3 + g * x6) + t * (2 * g - b * l)
    BY <1>1, <2>2
  <2>4. n(5) = (-b) * u[2] + (-g) * (x3 + t) + b * (u[2] + x2 + t * l) + (-g) * (x6 + t)
    BY <1>1, <1>4, <1>8
  <2>5. n(5) = (b * x2 + (-g) * x3 + (-g) * x6) + (-t) * (2 * g - b * l)
    BY <1>1, <2>4
  <2>6. n(3) = g * u[2] + d * (x3 + t) + (-g) * (u[2] + x2 + t * l) + h * (x6 + t)
    BY <1>1, <1>4, <1>8
  <2>7. n(3) = ((-g) * x2 + d * x3 + h * x6) + t * (d + h - g * l)
    BY <1>1, <2>6
  <2>8. n(6) = g * u[2] + h * (x3 + t) + (-g) * (u[2] + x2 + t * l) + d * (x6 + t)
    BY <1>1, <1>4, <1>8
  <2>9. n(6) = ((-g) * x2 + h * x3 + d * x6) + t * (d + h - g * l)
    BY <1>1, <2>8
  <2>10. QED
    BY <1>7, <2>1, <2>3, <2>5, <2>7, <2>9, Zenon
<1>10. ASSUME NEW i \in Int, NEW j \in Int, NEW k \in Int, NEW m \in Int
       PROVE  /\ Zero(i * x1 + j * x1 + k * x1)
              /\ Zero((i * x2 + j * x3 + k * x6) + m * y) /\ Zero((i * x2 + j * x3 + k * x6) + m * z)
  <2>1. Zero(i * x1 + j * x1 + k * x1) /\ Zero(i * x2 + j * x3 + k * x6)
    BY <1>6, ZeroCombines, Zenon
  <2>2. Zero(m * y) /\ Zero(m * z)
    BY <1>7, ZeroRules, Zenon
  <2>3. i * x2 + j * x3 + k * x6 \in Int /\ m * y \in Int /\ m * z \in Int
    OBVIOUS
  <2>4. QED
    BY <2>1, <2>2, <2>3, ZeroRules, Zenon
<1>11. Zero(n(1)) /\ Zero(n(2)) /\ Zero(n(3)) /\ Zero(n(4)) /\ Zero(n(5)) /\ Zero(n(6))
  <2>1. -t \in Int
    OBVIOUS
  <2>2. Zero((-a) * x1 + 0 * x1 + 0 * x1) /\ Zero(a * x1 + 0 * x1 + 0 * x1)
    BY <1>3, <1>10, Zenon
  <2>3. /\ Zero(((-b) * x2 + g * x3 + g * x6) + t * y)
        /\ Zero((b * x2 + (-g) * x3 + (-g) * x6) + (-t) * y)
    BY <1>3, <1>10, <2>1, Zenon
  <2>4. /\ Zero(((-g) * x2 + d * x3 + h * x6) + t * z)
        /\ Zero(((-g) * x2 + h * x3 + d * x6) + t * z)
    BY <1>3, <1>10, Zenon
  <2>5. QED
    BY <1>9, <2>2, <2>3, <2>4, Zenon
<1>12. \A k \in 1 .. 6 : k = 1 \/ k = 2 \/ k = 3 \/ k = 4 \/ k = 5 \/ k = 6
  OBVIOUS
<1>13. QED
  BY <1>11, <1>12, Zenon DEF n, K

\* What a vector of an element's ends in global directions is in local ones.
LEMMA TurnedEnds ==
    ASSUME NEW c \in Int, NEW s \in Int
    PROVE  /\ \A r \in Vectors(1 .. 4) :
                  LET u == MatrixVectorMultiply(TrussTurn(c, s), r)
                  IN  /\ u \in Vectors(1 .. 4)
                      /\ Zero(u[1] - (c * r[1] + s * r[2])) /\ Zero(u[3] - (c * r[3] + s * r[4]))
           /\ \A r \in Vectors(1 .. 6) :
                  LET u == MatrixVectorMultiply(FrameTurn(c, s), r)
                  IN  /\ u \in Vectors(1 .. 6)
                      /\ Zero(u[1] - (c * r[1] + s * r[2])) /\ Zero(u[4] - (c * r[4] + s * r[5]))
                      /\ Zero(u[2] - (c * r[2] - s * r[1])) /\ Zero(u[5] - (c * r[5] - s * r[4]))
                      /\ Zero(u[3] - r[3]) /\ Zero(u[6] - r[6])
<1>1. 0 \in Int /\ 1 \in Int /\ -s \in Int
  OBVIOUS
<1>2. ASSUME NEW r \in Vectors(1 .. 4)
      PROVE  LET u == MatrixVectorMultiply(TrussTurn(c, s), r)
             IN  /\ u \in Vectors(1 .. 4)
                 /\ Zero(u[1] - (c * r[1] + s * r[2])) /\ Zero(u[3] - (c * r[3] + s * r[4]))
  <2> DEFINE T == TrussTurn(c, s)
             u == MatrixVectorMultiply(T, r)
             D == 1 .. 4
  <2>1. r[1] \in Int /\ r[2] \in Int /\ r[3] \in Int /\ r[4] \in Int
    BY DEF Vectors
  <2>2. T[1] = <<c, s, 0, 0>> /\ T[3] = <<0, 0, c, s>> /\ 1 \in D /\ 3 \in D
    BY DEF TrussTurn
  <2>3. T \in Matrices(D) /\ IsFiniteSet(D)
    <3>1. 1 \in Int /\ 4 \in Int
      OBVIOUS
    <3>2. QED
      BY <3>1, TrussTables, FS_Interval, Zenon
  <2> HIDE DEF T
  <2>4. /\ Times(T[1], r, D) = c * r[1] + s * r[2] + 0 * r[3] + 0 * r[4]
        /\ Times(T[3], r, D) = 0 * r[1] + 0 * r[2] + c * r[3] + s * r[4]
    <3>1. \A k \in D : Times(T[k], r, D) = T[k][1] * r[1] + T[k][2] * r[2] + T[k][3] * r[3] + T[k][4] * r[4]
      <4>1. \A k \in D : T[k] \in Vectors(D)
        BY <2>3 DEF Matrices, Vectors
      <4>2. QED
        BY <4>1, RowOfFourTimes, Zenon
    <3>2. /\ T[1][1] = c /\ T[1][2] = s /\ T[1][3] = 0 /\ T[1][4] = 0
          /\ T[3][1] = 0 /\ T[3][2] = 0 /\ T[3][3] = c /\ T[3][4] = s
      BY <2>2
    <3>3. QED
      BY <2>2, <3>1, <3>2, Zenon
  <2>5. Times(T[1], r, D) = c * r[1] + s * r[2] /\ Times(T[3], r, D) = c * r[3] + s * r[4]
    <3> HIDE DEF D
    <3>1. QED
      BY <2>1, <2>4
  <2>6. c * r[1] + s * r[2] \in Int /\ c * r[3] + s * r[4] \in Int
    BY <2>1
  <2> HIDE DEF D
  <2>7. u \in Vectors(D) /\ \A i \in D : Same(P, u[i], Times(T[i], r, D))
    BY <2>3, MatrixVectorMultiplySame, Zenon DEF D
  <2> HIDE DEF u
  <2>8. u[1] \in Int /\ u[3] \in Int
    BY <2>2, <2>7, Zenon DEF Vectors
  <2>9. Zero(u[1] - (c * r[1] + s * r[2])) /\ Zero(u[3] - (c * r[3] + s * r[4]))
    BY <2>2, <2>5, <2>6, <2>7, <2>8, ZeroRules, Zenon
  <2>10. QED
    BY <2>7, <2>9 DEF u, T, D
<1>3. ASSUME NEW r \in Vectors(1 .. 6)
      PROVE  LET u == MatrixVectorMultiply(FrameTurn(c, s), r)
             IN  /\ u \in Vectors(1 .. 6)
                 /\ Zero(u[1] - (c * r[1] + s * r[2])) /\ Zero(u[4] - (c * r[4] + s * r[5]))
                 /\ Zero(u[2] - (c * r[2] - s * r[1])) /\ Zero(u[5] - (c * r[5] - s * r[4]))
                 /\ Zero(u[3] - r[3]) /\ Zero(u[6] - r[6])
  <2> DEFINE T == FrameTurn(c, s)
             u == MatrixVectorMultiply(T, r)
             D == 1 .. 6
  <2>1. r[1] \in Int /\ r[2] \in Int /\ r[3] \in Int /\ r[4] \in Int /\ r[5] \in Int /\ r[6] \in Int
    BY DEF Vectors
  <2>2. /\ T[1] = <<c, s, 0, 0, 0, 0>> /\ T[2] = <<-s, c, 0, 0, 0, 0>> /\ T[3] = <<0, 0, 1, 0, 0, 0>>
        /\ T[4] = <<0, 0, 0, c, s, 0>> /\ T[5] = <<0, 0, 0, -s, c, 0>> /\ T[6] = <<0, 0, 0, 0, 0, 1>>
        /\ 1 \in D /\ 2 \in D /\ 3 \in D /\ 4 \in D /\ 5 \in D /\ 6 \in D
    BY DEF FrameTurn
  <2>3. T \in Matrices(D) /\ IsFiniteSet(D)
    <3>1. 1 \in Int /\ 6 \in Int /\ 0 \in Int
      OBVIOUS
    <3>2. QED
      BY <3>1, FrameTables, FS_Interval, Zenon
  <2> HIDE DEF T
  <2>4. /\ Times(T[1], r, D) = c * r[1] + s * r[2] + 0 * r[3] + 0 * r[4] + 0 * r[5] + 0 * r[6]
        /\ Times(T[2], r, D) = (-s) * r[1] + c * r[2] + 0 * r[3] + 0 * r[4] + 0 * r[5] + 0 * r[6]
        /\ Times(T[3], r, D) = 0 * r[1] + 0 * r[2] + 1 * r[3] + 0 * r[4] + 0 * r[5] + 0 * r[6]
        /\ Times(T[4], r, D) = 0 * r[1] + 0 * r[2] + 0 * r[3] + c * r[4] + s * r[5] + 0 * r[6]
        /\ Times(T[5], r, D) = 0 * r[1] + 0 * r[2] + 0 * r[3] + (-s) * r[4] + c * r[5] + 0 * r[6]
        /\ Times(T[6], r, D) = 0 * r[1] + 0 * r[2] + 0 * r[3] + 0 * r[4] + 0 * r[5] + 1 * r[6]
    <3>1. \A k \in D : Times(T[k], r, D) = T[k][1] * r[1] + T[k][2] * r[2] + T[k][3] * r[3]
                                                + T[k][4] * r[4] + T[k][5] * r[5] + T[k][6] * r[6]
      <4>1. \A k \in D : T[k] \in Vectors(D)
        BY <2>3 DEF Matrices, Vectors
      <4>2. QED
        BY <4>1, RowOfSixTimes, Zenon
    <3>2. /\ T[1][1] = c /\ T[1][2] = s /\ T[1][3] = 0 /\ T[1][4] = 0 /\ T[1][5] = 0 /\ T[1][6] = 0
          /\ T[2][1] = -s /\ T[2][2] = c /\ T[2][3] = 0 /\ T[2][4] = 0 /\ T[2][5] = 0 /\ T[2][6] = 0
          /\ T[3][1] = 0 /\ T[3][2] = 0 /\ T[3][3] = 1 /\ T[3][4] = 0 /\ T[3][5] = 0 /\ T[3][6] = 0
          /\ T[4][1] = 0 /\ T[4][2] = 0 /\ T[4][3] = 0 /\ T[4][4] = c /\ T[4][5] = s /\ T[4][6] = 0
          /\ T[5][1] = 0 /\ T[5][2] = 0 /\ T[5][3] = 0 /\ T[5][4] = -s /\ T[5][5] = c /\ T[5][6] = 0
          /\ T[6][1] = 0 /\ T[6][2] = 0 /\ T[6][3] = 0 /\ T[6][4] = 0 /\ T[6][5] = 0 /\ T[6][6] = 1
      BY <2>2
    <3>3. QED
      BY <2>2, <3>1, <3>2, Zenon
  <2>5. /\ Times(T[1], r, D) = c * r[1] + s * r[2] /\ Times(T[4], r, D) = c * r[4] + s * r[5]
        /\ Times(T[2], r, D) = c * r[2] - s * r[1] /\ Times(T[5], r, D) = c * r[5] - s * r[4]
        /\ Times(T[3], r, D) = r[3] /\ Times(T[6], r, D) = r[6]
    <3> HIDE DEF D
    <3>1. QED
      BY <2>1, <2>4
  <2>6. /\ c * r[1] + s * r[2] \in Int /\ c * r[4] + s * r[5] \in Int
        /\ c * r[2] - s * r[1] \in Int /\ c * r[5] - s * r[4] \in Int
    BY <2>1
  <2> HIDE DEF D
  <2>7. u \in Vectors(D) /\ \A i \in D : Same(P, u[i], Times(T[i], r, D))
    BY <2>3, MatrixVectorMultiplySame, Zenon DEF D
  <2> HIDE DEF u
  <2>8. \A i \in D : u[i] \in Int
    BY <2>7, Zenon DEF Vectors
  <2>9. /\ Zero(u[1] - (c * r[1] + s * r[2])) /\ Zero(u[4] - (c * r[4] + s * r[5]))
        /\ Zero(u[2] - (c * r[2] - s * r[1])) /\ Zero(u[5] - (c * r[5] - s * r[4]))
        /\ Zero(u[3] - r[3]) /\ Zero(u[6] - r[6])
    <3>1. \A x, y \in Int : Same(P, x, y) => Zero(x - y)
      BY ZeroRules, Zenon
    <3>2. \A i \in D : \A y \in Int : Times(T[i], r, D) = y => Zero(u[i] - y)
      BY <2>7, <2>8, <3>1, Zenon
    <3>3. QED
      BY <2>1, <2>2, <2>5, <2>6, <3>2, Zenon
  <2>10. QED
    BY <2>7, <2>9 DEF u, T, D
<1>4. QED
  BY <1>2, <1>3

\* What is 0 adds up to 0.
LEMMA ZeroSum ==
    ASSUME NEW S, IsFiniteSet(S), NEW f, \A x \in S : f[x] \in Int /\ Zero(f[x])
    PROVE  Zero(SumOver(f, S)) /\ SumOver(f, S) \in Int
<1> DEFINE g == [x \in S |-> 0]
<1>0. P \in Nat \ {0} /\ 0 \in Int
  BY PrimeType
<1>1. \A x \in S : g[x] = 0
  OBVIOUS
<1> HIDE DEF g
<1>2. \A x \in S : f[x] \in Int /\ g[x] \in Int /\ Same(P, f[x], g[x])
  BY <1>0, <1>1, Zenon DEF Zero
<1>3. Same(P, SumOver(f, S), SumOver(g, S))
  BY <1>0, <1>2, SumReduces, Zenon
<1>4. SumOver(g, S) = 0
  <2>1. {} \in SUBSET S /\ (\A x \in {} : g[x] \in Int) /\ \A x \in S \ {} : g[x] = 0
    BY <1>1
  <2>2. SumOver(g, S) = SumOver(g, {})
    BY <2>1, SumOfSome, Zenon
  <2>3. QED
    BY <2>2, SumOverNothing, Zenon
<1>5. SumOver(f, S) \in Int
  BY <1>2, SumOverType
<1>6. QED
  BY <1>3, <1>4, <1>5, Zenon DEF Zero

\* So does what is 0 with whatever weights.
LEMMA ZeroTimes ==
    ASSUME NEW D, IsFiniteSet(D), NEW a \in Vectors(D), NEW v \in Vectors(D), \A k \in D : Zero(v[k])
    PROVE  Zero(Times(a, v, D)) /\ Times(a, v, D) \in Int
<1> DEFINE f == [k \in D |-> a[k] * v[k]]
<1>1. \A k \in D : a[k] \in Int /\ v[k] \in Int
  BY DEF Vectors
<1>2. \A k \in D : f[k] = a[k] * v[k]
  OBVIOUS
<1> HIDE DEF f
<1>3. \A k \in D : f[k] \in Int /\ Zero(f[k])
  <2>1. \A x, y \in Int : x * y \in Int
    OBVIOUS
  <2>2. QED
    BY <1>1, <1>2, <2>1, ZeroRules
<1>4. Zero(SumOver(f, D)) /\ SumOver(f, D) \in Int
  BY <1>3, ZeroSum, Zenon
<1>5. QED
  BY <1>4 DEF Times, f

\* What the places of element e are displaced by when the structure moves as a whole.
Swung(j, e) == [k \in Places(e) |-> Swing(j, PlaceOf(e)[k])]

\* The ends of an element are then displaced as those of a rigid bar: by t, with
\* which they turn, times the distance between them.
LEMMA RigidBar ==
    ASSUME LegalInput, Connected, NEW e \in Elements, NEW j \in 0 .. 2
    PROVE  LET t == IF j = 2 THEN 1 ELSE 0
               r == Swung(j, e)
           IN  /\ r \in Vectors(Places(e))
               /\ IsTruss(e) => /\ r[3] = r[1] - t * Delta(e, 2) /\ r[4] = r[2] + t * Delta(e, 1)
               /\ ~ IsTruss(e) => /\ r[4] = r[1] - t * Delta(e, 2) /\ r[5] = r[2] + t * Delta(e, 1)
                                  /\ r[3] = t /\ r[6] = t
<1> DEFINE t == IF j = 2 THEN 1 ELSE 0
           r == Swung(j, e)
<1>1. PICK p \in Node(structure), q \in Node(structure) : structure.elem[e].node = <<p, q>>
  BY DEF LegalInput, Legal, Elements
<1>2. PICK px \in Int, py \in Int, qx \in Int, qy \in Int :
          /\ px = structure.pos[p][1] /\ py = structure.pos[p][2]
          /\ qx = structure.pos[q][1] /\ qy = structure.pos[q][2]
  <2>1. \A n \in Node(structure) : \A axis \in 1 .. 2 : structure.pos[n][axis] \in Int
    BY DEF LegalInput, Measured
  <2>2. 1 \in 1 .. 2 /\ 2 \in 1 .. 2
    OBVIOUS
  <2>3. QED
    BY <2>1, <2>2, Zenon
<1>3. Delta(e, 1) = qx - px /\ Delta(e, 2) = qy - py
  BY <1>1, <1>2 DEF Delta
<1>4. r \in Vectors(Places(e))
  <2>1. \A k \in Places(e) : Swing(j, PlaceOf(e)[k]) \in Int
    BY PlaceDOFs, SwingType
  <2>2. QED
    BY <2>1 DEF Swung, Vectors
<1> DEFINE sx == IF j = 0 THEN 1 ELSE 0
           sy == IF j = 1 THEN 1 ELSE 0
<1>5. /\ Swing(j, <<p, 0>>) = sx - t * py /\ Swing(j, <<p, 1>>) = sy + t * px /\ Swing(j, <<p, 2>>) = t
      /\ Swing(j, <<q, 0>>) = sx - t * qy /\ Swing(j, <<q, 1>>) = sy + t * qx /\ Swing(j, <<q, 2>>) = t
  BY <1>2 DEF Swing
<1>6. t \in Int /\ sx \in Int /\ sy \in Int
  OBVIOUS
<1> HIDE DEF t, sx, sy
<1>7. /\ (sx - t * py) - t * (qy - py) = sx - t * qy
      /\ (sy + t * px) + t * (qx - px) = sy + t * qx
  BY <1>6
<1>8. ASSUME IsTruss(e) PROVE r[3] = r[1] - t * Delta(e, 2) /\ r[4] = r[2] + t * Delta(e, 1)
  <2>1. PlaceOf(e) = << <<p, 0>>, <<p, 1>>, <<q, 0>>, <<q, 1>> >> /\ Places(e) = 1 .. 4
    BY <1>1, <1>8 DEF PlaceOf, Places
  <2>2. /\ r[1] = Swing(j, <<p, 0>>) /\ r[2] = Swing(j, <<p, 1>>)
        /\ r[3] = Swing(j, <<q, 0>>) /\ r[4] = Swing(j, <<q, 1>>)
    BY <2>1 DEF Swung
  <2>3. QED
    BY <1>3, <1>5, <1>7, <2>2, Zenon
<1>9. ASSUME ~ IsTruss(e) PROVE /\ r[4] = r[1] - t * Delta(e, 2) /\ r[5] = r[2] + t * Delta(e, 1)
                                /\ r[3] = t /\ r[6] = t
  <2>1. /\ PlaceOf(e) = << <<p, 0>>, <<p, 1>>, <<p, 2>>, <<q, 0>>, <<q, 1>>, <<q, 2>> >>
        /\ Places(e) = 1 .. 6
    BY <1>1, <1>9 DEF PlaceOf, Places
  <2>2. /\ r[1] = Swing(j, <<p, 0>>) /\ r[2] = Swing(j, <<p, 1>>) /\ r[3] = Swing(j, <<p, 2>>)
        /\ r[4] = Swing(j, <<q, 0>>) /\ r[5] = Swing(j, <<q, 1>>) /\ r[6] = Swing(j, <<q, 2>>)
    BY <2>1 DEF Swung
  <2>3. QED
    BY <1>3, <1>5, <1>7, <2>2, Zenon
<1>10. QED
  BY <1>4, <1>8, <1>9 DEF t

\* A rigid bar answers nothing.
LEMMA RigidBarIsUnstrained ==
    ASSUME LegalInput, Connected, NEW e \in Elements, NEW j \in 0 .. 2
    PROVE  LET u == MatrixVectorMultiply(Rotation(e), Swung(j, e))
           IN  u \in Vectors(Places(e)) /\ \A k \in Places(e) : Zero(Times(LocalStiff(e)[k], u, Places(e)))
<1> DEFINE t == IF j = 2 THEN 1 ELSE 0
           r == Swung(j, e)
           u == MatrixVectorMultiply(Rotation(e), r)
           l == Length(e)
           EI == structure.elem[e].EI
           a == Div(structure.elem[e].EA, l)
           b == Div(12 * EI, l * l * l)
           g == Div(6 * EI, l * l)
           d == Div(4 * EI, l)
           h == Div(d, 2)
           c == Cos(e)
           s == Sin(e)
           x == Delta(e, 1)
           y == Delta(e, 2)
<1>1. /\ c \in Int /\ s \in Int /\ x \in Int /\ y \in Int /\ l \in Int /\ Unit(l)
      /\ Zero(s * x - c * y) /\ Zero(c * x + s * y - l)
  BY Directions, Zenon
<1>2. EI \in Int /\ structure.elem[e].EA \in Int
  BY ElementGeometry
<1>3. a \in Int
  BY <1>1, <1>2, DivSolves, Zenon
<1>4. b \in Int /\ g \in Int /\ d \in Int /\ h \in Int /\ Zero(2 * g - b * l) /\ Zero(d + h - g * l)
  <2> HIDE DEF l, EI
  <2>1. QED
    BY <1>1, <1>2, BendingStiffnesses
<1>5. /\ r \in Vectors(Places(e))
      /\ IsTruss(e) => /\ r[3] = r[1] - t * y /\ r[4] = r[2] + t * x
      /\ ~ IsTruss(e) => /\ r[4] = r[1] - t * y /\ r[5] = r[2] + t * x
                         /\ r[3] = t /\ r[6] = t
  BY RigidBar, Zenon
<1>6. t \in Int /\ -1 \in Int /\ 1 \in Int
  OBVIOUS
<1>7. CASE IsTruss(e)
  <2>1. Places(e) = 1 .. 4
    BY <1>7 DEF Places
  <2>2. Rotation(e) = TrussTurn(c, s) /\ LocalStiff(e) = TrussStiff(a)
    BY <1>7, Zenon DEF Rotation, LocalStiff, TrussTurn, TrussStiff
  <2> HIDE DEF t, r, a, c, s, x, y, l
  <2>3. /\ u \in Vectors(1 .. 4)
        /\ Zero(u[1] - (c * r[1] + s * r[2])) /\ Zero(u[3] - (c * r[3] + s * r[4]))
    BY <1>1, <1>5, <2>1, <2>2, TurnedEnds, Zenon
  <2>4. r[1] \in Int /\ r[2] \in Int /\ r[3] \in Int /\ r[4] \in Int
    BY <1>5, <2>1 DEF Vectors
  <2> HIDE DEF u
  <2>5. u[1] \in Int /\ u[3] \in Int
    BY <2>3 DEF Vectors
  <2>6. Zero(u[3] - u[1])
    <3> DEFINE z1 == u[1] - (c * r[1] + s * r[2])
               z3 == u[3] - (c * r[3] + s * r[4])
               z == s * x - c * y
    <3>1. z1 \in Int /\ z3 \in Int /\ z \in Int
      BY <1>1, <2>4, <2>5
    <3>2. u[3] - u[1] = 1 * z3 + (-1) * z1 + t * z
      <4>1. u[3] - u[1] = (z3 - z1) + (c * (r[3] - r[1]) + s * (r[4] - r[2]))
        BY <1>1, <2>4, <2>5
      <4>2. r[3] - r[1] = -(t * y) /\ r[4] - r[2] = t * x
        BY <1>1, <1>5, <1>6, <1>7, <2>4
      <4>3. c * (-(t * y)) + s * (t * x) = t * z
        BY <1>1, <1>6
      <4> HIDE DEF z1, z3, z
      <4>4. QED
        BY <1>6, <3>1, <4>1, <4>2, <4>3
    <3>3. Zero(1 * z3 + (-1) * z1 + t * z)
      <4>1. Zero(z1) /\ Zero(z3) /\ Zero(z)
        BY <1>1, <2>3, Zenon
      <4> HIDE DEF z1, z3, z
      <4>2. QED
        BY <1>6, <3>1, <4>1, ZeroCombines, Zenon
    <3> HIDE DEF z1, z3, z
    <3>4. QED
      BY <3>2, <3>3, Zenon
  <2>7. \A k \in 1 .. 4 : Zero(Times(TrussStiff(a)[k], u, 1 .. 4))
    BY <1>3, <2>3, <2>6, TrussUnstrained
  <2>8. QED
    BY <2>1, <2>2, <2>3, <2>7, Zenon DEF u, r
<1>8. CASE ~ IsTruss(e)
  <2>1. Places(e) = 1 .. 6
    BY <1>8 DEF Places
  <2>2. Rotation(e) = FrameTurn(c, s) /\ LocalStiff(e) = FrameStiff(a, b, g, d, h)
    BY <1>8, Zenon DEF Rotation, LocalStiff, FrameTurn, FrameStiff
  <2> HIDE DEF t, r, a, b, g, d, h, c, s, x, y, l
  <2>3. /\ u \in Vectors(1 .. 6)
        /\ Zero(u[1] - (c * r[1] + s * r[2])) /\ Zero(u[4] - (c * r[4] + s * r[5]))
        /\ Zero(u[2] - (c * r[2] - s * r[1])) /\ Zero(u[5] - (c * r[5] - s * r[4]))
        /\ Zero(u[3] - r[3]) /\ Zero(u[6] - r[6])
    BY <1>1, <1>5, <2>1, <2>2, TurnedEnds, Zenon
  <2>4. r[1] \in Int /\ r[2] \in Int /\ r[4] \in Int /\ r[5] \in Int
    BY <1>5, <2>1 DEF Vectors
  <2> HIDE DEF u
  <2>5. u[1] \in Int /\ u[2] \in Int /\ u[4] \in Int /\ u[5] \in Int
    BY <2>3 DEF Vectors
  <2>6. r[4] - r[1] = -(t * y) /\ r[5] - r[2] = t * x
    BY <1>1, <1>5, <1>6, <1>8, <2>4
  <2>7. Zero(u[4] - u[1])
    <3> DEFINE z1 == u[1] - (c * r[1] + s * r[2])
               z4 == u[4] - (c * r[4] + s * r[5])
               z == s * x - c * y
    <3>1. z1 \in Int /\ z4 \in Int /\ z \in Int
      BY <1>1, <2>4, <2>5
    <3>2. u[4] - u[1] = 1 * z4 + (-1) * z1 + t * z
      <4>1. u[4] - u[1] = (z4 - z1) + (c * (r[4] - r[1]) + s * (r[5] - r[2]))
        BY <1>1, <2>4, <2>5
      <4>2. c * (-(t * y)) + s * (t * x) = t * z
        BY <1>1, <1>6
      <4> HIDE DEF z1, z4, z
      <4>3. QED
        BY <1>6, <2>6, <3>1, <4>1, <4>2
    <3>3. Zero(1 * z4 + (-1) * z1 + t * z)
      <4>1. Zero(z1) /\ Zero(z4) /\ Zero(z)
        BY <1>1, <2>3, Zenon
      <4> HIDE DEF z1, z4, z
      <4>2. QED
        BY <1>6, <3>1, <4>1, ZeroCombines, Zenon
    <3> HIDE DEF z1, z4, z
    <3>4. QED
      BY <3>2, <3>3, Zenon
  <2>8. Zero(u[5] - u[2] - t * l)
    <3> DEFINE z2 == u[2] - (c * r[2] - s * r[1])
               z5 == u[5] - (c * r[5] - s * r[4])
               z == c * x + s * y - l
    <3>1. z2 \in Int /\ z5 \in Int /\ z \in Int
      BY <1>1, <2>4, <2>5
    <3>2. u[5] - u[2] - t * l = 1 * z5 + (-1) * z2 + t * z
      <4>1. u[5] - u[2] = (z5 - z2) + (c * (r[5] - r[2]) - s * (r[4] - r[1]))
        BY <1>1, <2>4, <2>5
      <4>2. (c * (t * x) - s * (-(t * y))) - t * l = t * z
        BY <1>1, <1>6
      <4>3. c * (t * x) - s * (-(t * y)) \in Int /\ t * l \in Int /\ u[5] - u[2] \in Int /\ t * z \in Int
        BY <1>1, <1>6, <2>5
      <4> HIDE DEF z2, z5, z
      <4>4. QED
        BY <1>6, <2>6, <3>1, <4>1, <4>2, <4>3
    <3>3. Zero(1 * z5 + (-1) * z2 + t * z)
      <4>1. Zero(z2) /\ Zero(z5) /\ Zero(z)
        BY <1>1, <2>3, Zenon
      <4> HIDE DEF z2, z5, z
      <4>2. QED
        BY <1>6, <3>1, <4>1, ZeroCombines, Zenon
    <3> HIDE DEF z2, z5, z
    <3>4. QED
      BY <3>2, <3>3, Zenon
  <2>9. Zero(u[3] - t) /\ Zero(u[6] - t)
    BY <1>5, <1>8, <2>3, Zenon
  <2>10. \A k \in 1 .. 6 : Zero(Times(FrameStiff(a, b, g, d, h)[k], u, 1 .. 6))
    BY <1>1, <1>3, <1>4, <1>6, <2>3, <2>7, <2>8, <2>9, FrameUnstrained
  <2>11. QED
    BY <2>1, <2>2, <2>3, <2>10, Zenon DEF u, r
<1>9. QED
  BY <1>7, <1>8

\* So an element answers nothing to a motion of the structure as a whole.
LEMMA RigidMotionIsFree ==
    ASSUME LegalInput, Connected, NEW e \in Elements, NEW j \in 0 .. 2
    PROVE  \A k \in Places(e) : Zero(Times(GlobalStiff(e)[k], Swung(j, e), Places(e)))
<1> DEFINE D == Places(e)
           T == Rotation(e)
           K == LocalStiff(e)
           G == GlobalStiff(e)
           x == Swung(j, e)
           u == MatrixVectorMultiply(T, x)
           f == MatrixVectorMultiply(K, u)
           Tt == MatrixTrans(T)
<1>0. P \in Nat \ {0} /\ IsFiniteSet(D) /\ 1 \in D
  BY PrimeType, PlacesType
<1>1. T \in Matrices(D) /\ K \in Matrices(D) /\ G \in Matrices(D) /\ Turned(G, K, T, D)
  BY ElementStiffness DEF Turned
<1>2. x \in Vectors(D)
  BY RigidBar
<1>3. u \in Vectors(D) /\ \A k \in D : Zero(Times(K[k], u, D))
  BY RigidBarIsUnstrained
<1>4. Tt \in Matrices(D)
  BY <1>0, <1>1, MatrixTransType
<1> HIDE DEF D, T, K, G, x, Tt
<1>5. \A k \in D : Same(P, Times(Tt[k], f, D), Times(G[k], x, D))
  BY <1>0, <1>1, <1>2, Response DEF Tt
<1> HIDE DEF u
<1>6. f \in Vectors(D) /\ \A k \in D : Same(P, f[k], Times(K[k], u, D))
  BY <1>0, <1>1, <1>3, MatrixVectorMultiplySame
<1>7. \A k \in D : Zero(f[k])
  <2> HIDE DEF f
  <2> TAKE k \in D
  <2>1. K[k] \in Vectors(D) /\ f[k] \in Int
    BY <1>1, <1>6 DEF Matrices, Vectors
  <2>2. Times(K[k], u, D) \in Int /\ 0 \in Int
    BY <1>0, <1>3, <2>1, TimesType
  <2>3. QED
    BY <1>3, <1>6, <2>1, <2>2, SameChains, Zenon DEF Zero
<1> HIDE DEF f
<1>8. ASSUME NEW k \in D PROVE Zero(Times(G[k], x, D))
  <2>1. Tt[k] \in Vectors(D) /\ G[k] \in Vectors(D)
    BY <1>1, <1>4 DEF Matrices, Vectors
  <2>2. Zero(Times(Tt[k], f, D)) /\ Times(Tt[k], f, D) \in Int
    BY <1>0, <1>6, <1>7, <2>1, ZeroTimes
  <2>3. Times(G[k], x, D) \in Int /\ 0 \in Int
    BY <1>0, <1>2, <2>1, TimesType
  <2>4. Same(P, Times(G[k], x, D), Times(Tt[k], f, D))
    BY <1>0, <1>5, <2>2, <2>3, SameIsEquivalence, Zenon
  <2>5. QED
    BY <2>2, <2>3, <2>4, SameChains, Zenon DEF Zero
<1>9. QED
  BY <1>8 DEF D, G, x

\* And what it answers to any displacements does no work in such a motion: its
\* matrix is symmetric.
LEMMA ElementIsBalanced ==
    ASSUME LegalInput, Connected, NEW e \in Elements, NEW j \in 0 .. 2, NEW y \in Vectors(Places(e))
    PROVE  LET answer == Image(GlobalStiff(e), y, Places(e))
           IN  /\ answer \in Vectors(Places(e))
               /\ Zero(Times(Swung(j, e), answer, Places(e))) /\ Times(Swung(j, e), answer, Places(e)) \in Int
<1> DEFINE D == Places(e)
           K == LocalStiff(e)
           Tt == MatrixTrans(Rotation(e))
           G == GlobalStiff(e)
           H == [k \in D |-> [q \in D |-> G[k][q] % P]]
           x == Swung(j, e)
<1>0. P \in Nat \ {0} /\ IsFiniteSet(D) /\ 1 \in D
  BY PrimeType, PlacesType
<1>1. /\ G \in Matrices(D) /\ K \in Matrices(D) /\ Rotation(e) \in Matrices(D) /\ Symmetric(K, D)
      /\ \A k, q \in D : Same(P, G[k][q], Form(K, Tt[k], Tt[q], D))
  BY ElementStiffness
<1>2. Tt \in Matrices(D)
  BY <1>0, <1>1, MatrixTransType
<1>3. x \in Vectors(D)
  BY RigidBar
<1>4. \A k \in D : Zero(Times(G[k], x, D))
  BY RigidMotionIsFree
<1>5. \A k, q \in D : H[k][q] = G[k][q] % P
  OBVIOUS
<1>6. H \in [D -> [D -> {G[k][q] % P : k, q \in D}]]
  OBVIOUS
<1> HIDE DEF D, K, Tt, G, H, x
<1>7. \A k, q \in D : G[k][q] \in Int
  BY <1>1 DEF Matrices
<1>8. H \in Matrices(D)
  <2>1. \A k, q \in D : G[k][q] % P \in Int
    BY <1>0, <1>7, SameIsEquivalence, Zenon
  <2>2. QED
    BY <1>6, <2>1 DEF Matrices
<1>9. Symmetric(H, D)
  <2>1. \A k, q \in D : Form(K, Tt[k], Tt[q], D) = Form(K, Tt[q], Tt[k], D)
    <3>1. \A k \in D : Tt[k] \in Vectors(D)
      BY <1>2 DEF Matrices, Vectors
    <3>2. QED
      BY <1>0, <1>1, <3>1, FormIsSymmetric
  <2>2. ASSUME NEW k \in D, NEW q \in D PROVE H[k][q] = H[q][k]
    <3>1. Same(P, G[k][q], Form(K, Tt[k], Tt[q], D)) /\ Same(P, G[q][k], Form(K, Tt[q], Tt[k], D))
      BY <1>1
    <3>2. Form(K, Tt[k], Tt[q], D) = Form(K, Tt[q], Tt[k], D)
      BY <2>1
    <3>3. H[k][q] = G[k][q] % P /\ H[q][k] = G[q][k] % P
      BY <1>5
    <3>4. G[k][q] % P = G[q][k] % P
      BY <3>1, <3>2, Zenon DEF Same
    <3>5. QED
      BY <3>3, <3>4, Zenon
  <2>3. QED
    BY <2>2 DEF Symmetric
<1>10. \A z \in Vectors(D) : /\ Image(G, z, D) \in Vectors(D) /\ Image(H, z, D) \in Vectors(D)
                             /\ \A k \in D : Same(P, Image(G, z, D)[k], Image(H, z, D)[k])
  <2> TAKE z \in Vectors(D)
  <2>1. Image(G, z, D) \in Vectors(D) /\ Image(H, z, D) \in Vectors(D)
    BY <1>0, <1>1, <1>8, TimesType
  <2>2. ASSUME NEW k \in D PROVE Same(P, Times(G[k], z, D), Times(H[k], z, D))
    <3>1. G[k] \in Vectors(D) /\ H[k] \in Vectors(D)
      BY <1>1, <1>8 DEF Matrices, Vectors
    <3>2. \A q \in D : Same(P, G[k][q], H[k][q])
      <4>1. \A q \in D : Same(P, G[k][q] % P, G[k][q]) /\ G[k][q] % P \in Int
        BY <1>0, <1>7, SameIsEquivalence, Zenon
      <4>2. QED
        BY <1>0, <1>5, <1>7, <4>1, SameIsEquivalence, Zenon
    <3>3. QED
      BY <1>0, <3>1, <3>2, TimesSame
  <2>3. QED
    BY <2>1, <2>2 DEF Image
<1>11. \A k \in D : Zero(Image(H, x, D)[k])
  <2> TAKE k \in D
  <2>1. Image(G, x, D)[k] = Times(G[k], x, D)
    BY DEF Image
  <2>2. Image(H, x, D)[k] \in Int /\ Image(G, x, D)[k] \in Int /\ 0 \in Int
    BY <1>3, <1>10 DEF Vectors
  <2>3. Same(P, Image(H, x, D)[k], Image(G, x, D)[k])
    BY <1>0, <1>3, <1>10, <2>2, SameIsEquivalence, Zenon
  <2>4. QED
    BY <1>4, <2>1, <2>2, <2>3, SameChains, Zenon DEF Zero
<1>12. y \in Vectors(D)
  BY DEF D
<1>13. Same(P, Times(x, Image(G, y, D), D), Times(x, Image(H, y, D), D))
  BY <1>0, <1>3, <1>10, <1>12, TimesSame
<1>14. Times(x, Image(H, y, D), D) = Times(y, Image(H, x, D), D)
  BY <1>0, <1>3, <1>8, <1>9, <1>12, FormIsSymmetric, Zenon DEF Form
<1>15. Zero(Times(y, Image(H, x, D), D)) /\ Times(y, Image(H, x, D), D) \in Int
  BY <1>0, <1>3, <1>10, <1>11, <1>12, ZeroTimes
<1>16. Times(x, Image(G, y, D), D) \in Int /\ 0 \in Int
  BY <1>0, <1>3, <1>10, <1>12, TimesType
<1>17. Zero(Times(x, Image(G, y, D), D))
  BY <1>13, <1>14, <1>15, <1>16, SameChains, Zenon DEF Zero
<1>18. QED
  BY <1>10, <1>12, <1>16, <1>17 DEF D, G, x

\* The work of forces at an element's places, number by number or place by place.
LEMMA ElementWork ==
    ASSUME LegalInput, Connected, Profiled, Counted, CoupledTogether,
           NEW e \in Elements, NEW j \in 0 .. 2, NEW a \in Vectors(Places(e))
    PROVE  LET N == 0 .. nTotalDOF - 1
               w == [i \in N |-> SwingOf(j)[i] * SumOver([k \in PlacesOf(e, i) |-> a[k]], PlacesOf(e, i))]
           IN  /\ \A i \in N : w[i] \in Int
               /\ SumOver(w, N) = Times(Swung(j, e), a, Places(e))
<1> DEFINE D == Places(e)
           N == 0 .. nTotalDOF - 1
           c == SwingOf(j)
           x == Swung(j, e)
           m == [q \in D |-> pElemDOF[e][q]]
           those(i) == {q \in D : m[q] = i}
           w == [i \in N |-> c[i] * SumOver([k \in PlacesOf(e, i) |-> a[k]], PlacesOf(e, i))]
           v == [q \in D |-> c[m[q]] * a[q]]
<1>1. IsFiniteSet(D) /\ IsFiniteSet(N)
  <2>1. nTotalDOF - 1 \in Int
    BY DEF Profiled
  <2>2. QED
    BY <2>1, PlacesType, FS_Interval
<1>2. m \in [D -> N]
  BY PlaceNumbers
<1>3. c \in Vectors(N)
  BY SwingOfNumber DEF Vectors
<1>4. \A i \in N : PlacesOf(e, i) = those(i)
  <2>1. 1 .. Len(pElemDOF[e]) = D
    BY ElementPlaces
  <2>2. QED
    BY <2>1 DEF PlacesOf
<1>5. \A q \in D : c[m[q]] = x[q]
  <2> TAKE q \in D
  <2>1. PlaceOf(e)[q] \in DOFs(structure) /\ m[q] = iaDOFIndex[PlaceOf(e)[q]]
    BY PlaceDOFs
  <2>2. c[iaDOFIndex[PlaceOf(e)[q]]] = Swing(j, PlaceOf(e)[q])
    BY <2>1, SwingOfNumber
  <2>3. x[q] = Swing(j, PlaceOf(e)[q])
    BY DEF Swung
  <2>4. QED
    BY <2>1, <2>2, <2>3, Zenon
<1>6. a \in Vectors(D)
  OBVIOUS
<1>7. IsFiniteSet(D) /\ \A i \in N : IsFiniteSet(those(i)) /\ those(i) \in SUBSET D
  BY <1>1, FS_Subset
<1>8. \A q \in D : a[q] \in Int /\ v[q] = c[m[q]] * a[q] /\ v[q] \in Int
  <2>1. \A q \in D : a[q] \in Int /\ c[m[q]] \in Int /\ v[q] = c[m[q]] * a[q]
    BY <1>2, <1>3, <1>6 DEF Vectors
  <2>2. \A y, z \in Int : y * z \in Int
    OBVIOUS
  <2> HIDE DEF D, N, c, m, v
  <2>3. QED
    BY <2>1, <2>2
<1> DEFINE u == [i \in N |-> SumOver(v, {q \in D : m[q] = i})]
<1>12. ASSUME NEW i \in N PROVE w[i] \in Int /\ u[i] = w[i]
  <2> DEFINE S == those(i)
             r == [k \in PlacesOf(e, i) |-> a[k]]
  <2>1. c[i] \in Int
    BY <1>3 DEF Vectors
  <2>2. IsFiniteSet(S) /\ \A q \in S : a[q] \in Int /\ v[q] = c[i] * a[q]
    BY <1>7, <1>8
  <2>3. PlacesOf(e, i) = S /\ \A q \in S : r[q] = a[q]
    BY <1>4
  <2>4. w[i] = c[i] * SumOver(r, S) /\ u[i] = SumOver(v, S)
    <3>1. w[i] = c[i] * SumOver(r, PlacesOf(e, i))
      OBVIOUS
    <3>2. QED
      BY <2>3, <3>1, Zenon
  <2> HIDE DEF S, r, c, v, w, u
  <2>5. SumOver(r, S) = SumOver(a, S)
    BY <2>2, <2>3, SumOverSame
  <2>6. SumOver(a, S) \in Int
    BY <2>2, SumOverType
  <2>7. SumOver(v, S) = c[i] * SumOver(a, S)
    BY <2>1, <2>2, SumScales
  <2>8. QED
    BY <2>1, <2>4, <2>5, <2>6, <2>7
<1> HIDE DEF D, N, c, x, m, v
<1>13. SumOver(v, D) = SumOver(u, N)
  BY <1>1, <1>2, <1>8, SumByImage
<1>14. SumOver(u, N) = SumOver(w, N)
  <2> HIDE DEF u, w
  <2>1. QED
    BY <1>1, <1>12, SumOverSame
<1>9. v = [q \in D |-> x[q] * a[q]]
  BY <1>5 DEF v
<1> HIDE DEF w
<1>10. SumOver(v, D) = Times(x, a, D)
  BY <1>9, Zenon DEF Times
<1>11. QED
  BY <1>10, <1>12, <1>13, <1>14, Zenon DEF w, D, N, c, x

\* What the stiffness makes of the displacements in row i.
RowAnswer(i) == SumOver([q \in 0 .. nTotalDOF - 1 |-> Stiffness(i, q) * pDisp[q]], 0 .. nTotalDOF - 1)

\* All rows together are balanced, whatever the displacements.
LEMMA RowsAreBalanced ==
    ASSUME LegalInput, Connected, Profiled, Counted, CoupledTogether,
           pDisp \in Displacements, NEW j \in 0 .. 2
    PROVE  LET N == 0 .. nTotalDOF - 1
               work == [i \in N |-> SwingOf(j)[i] * RowAnswer(i)]
           IN  /\ \A i \in N : RowAnswer(i) \in Int /\ work[i] \in Int
               /\ Zero(SumOver(work, N)) /\ SumOver(work, N) \in Int
<1> DEFINE N == 0 .. nTotalDOF - 1
           E == Elements
           c == SwingOf(j)
           answer(e) == Image(GlobalStiff(e), Moved(e), Places(e))
           part(e, i) == SumOver([k \in PlacesOf(e, i) |-> answer(e)[k]], PlacesOf(e, i))
           parts(i) == [e \in E |-> part(e, i)]
           table == [ie \in N \X E |-> c[ie[1]] * part(ie[2], ie[1])]
           work == [i \in N |-> c[i] * RowAnswer(i)]
           rows == [i \in N |-> RowSum(table, i, E)]
           columns == [e \in E |-> ColumnSum(table, e, N)]
<1>0. P \in Nat \ {0}
  BY PrimeType
<1>1. IsFiniteSet(E) /\ IsFiniteSet(N)
  <2>1. nTotalDOF - 1 \in Int
    BY DEF Profiled
  <2>2. QED
    BY <2>1, ElementsFinite, FS_Interval
<1>2. \A i \in N : c[i] \in Int
  BY SwingOfNumber
<1>3. \A x, y \in Int : x * y \in Int
  OBVIOUS
<1>4. ASSUME NEW e \in E
      PROVE  /\ \A i \in N : part(e, i) \in Int
             /\ LET w == [i \in N |-> c[i] * part(e, i)]
                IN  (\A i \in N : w[i] \in Int) /\ Zero(SumOver(w, N)) /\ SumOver(w, N) \in Int
  <2> DEFINE a == answer(e)
             w == [i \in N |-> c[i] * part(e, i)]
  <2>1. /\ a \in Vectors(Places(e))
        /\ Zero(Times(Swung(j, e), a, Places(e))) /\ Times(Swung(j, e), a, Places(e)) \in Int
    BY MovedType, ElementIsBalanced
  <2>2. \A k \in Places(e) : a[k] \in Int
    BY <2>1 DEF Vectors
  <2> HIDE DEF answer
  <2>3. ASSUME NEW i \in N PROVE part(e, i) \in Int
    <3> DEFINE S == PlacesOf(e, i)
               f == [k \in S |-> a[k]]
    <3>1. IsFiniteSet(S) /\ S \in SUBSET Places(e)
      BY PlacesOfType
    <3>2. \A k \in S : f[k] \in Int
      BY <2>2, <3>1
    <3> HIDE DEF S, f
    <3>3. SumOver(f, S) \in Int
      BY <3>1, <3>2, SumOverType
    <3>4. QED
      BY <3>3 DEF S, f
  <2>4. (\A i \in N : w[i] \in Int) /\ SumOver(w, N) = Times(Swung(j, e), a, Places(e))
    BY <2>1, ElementWork
  <2> HIDE DEF w, a
  <2>5. Zero(SumOver(w, N)) /\ SumOver(w, N) \in Int
    BY <2>1, <2>4, Zenon
  <2>6. QED
    BY <2>3, <2>4, <2>5 DEF w
<1> HIDE DEF part
<1>5. \A i \in N : \A e \in E : table[<<i, e>>] = c[i] * part(e, i) /\ table[<<i, e>>] \in Int
  <2>1. \A i \in N : \A e \in E : table[<<i, e>>] = c[i] * part(e, i)
    OBVIOUS
  <2> HIDE DEF table, c, N, E
  <2>2. QED
    BY <1>2, <1>3, <1>4, <2>1
<1> HIDE DEF table
<1>6. SumOver(rows, N) = SumOver(columns, E)
  <2> HIDE DEF N, E
  <2>1. \A i \in N : \A e \in E : table[<<i, e>>] \in Int
    BY <1>5, Zenon
  <2>2. QED
    BY <1>1, <2>1, SumSwaps
<1>7. \A e \in E : columns[e] \in Int /\ Zero(columns[e])
  <2> TAKE e \in E
  <2>1. [i \in N |-> table[<<i, e>>]] = [i \in N |-> c[i] * part(e, i)]
    BY <1>5
  <2>2. columns[e] = SumOver([i \in N |-> c[i] * part(e, i)], N)
    <3>1. columns[e] = SumOver([i \in N |-> table[<<i, e>>]], N)
      BY DEF ColumnSum
    <3>2. QED
      BY <2>1, <3>1, Zenon
  <2> HIDE DEF columns, N, c
  <2>3. QED
    BY <1>4, <2>2
<1>8. \A i \in N : /\ RowAnswer(i) \in Int /\ work[i] \in Int /\ rows[i] \in Int
                   /\ Same(P, rows[i], work[i])
  <2> TAKE i \in N
  <2> DEFINE p == parts(i)
             s == [q \in N |-> Stiffness(i, q) * pDisp[q]]
             r == [e \in E |-> table[<<i, e>>]]
  <2>1. /\ (\A e \in E : p[e] \in Int) /\ (\A q \in N : s[q] \in Int)
        /\ Same(P, SumOver(p, E), SumOver(s, N))
    <3>1. p = [e \in E |-> SumOver([k \in PlacesOf(e, i) |-> Times(GlobalStiff(e)[k], Moved(e), Places(e))],
                                   PlacesOf(e, i))]
      <4>1. ASSUME NEW e \in E
            PROVE  [k \in PlacesOf(e, i) |-> answer(e)[k]]
                       = [k \in PlacesOf(e, i) |-> Times(GlobalStiff(e)[k], Moved(e), Places(e))]
        <5>1. PlacesOf(e, i) \in SUBSET Places(e)
          BY PlacesOfType
        <5>2. QED
          BY <5>1 DEF Image
      <4>2. QED
        BY <4>1, Zenon DEF part
    <3> HIDE DEF p
    <3>2. QED
      BY <3>1, ElementsMakeStiffness
  <2>2. \A e \in E : r[e] = c[i] * p[e]
    BY <1>5
  <2>3. rows[i] = SumOver(r, E) /\ work[i] = c[i] * RowAnswer(i) /\ RowAnswer(i) = SumOver(s, N) /\ c[i] \in Int
    BY <1>2 DEF RowSum, RowAnswer
  <2> HIDE DEF p, s, r, rows, work, E, N, c
  <2>4. SumOver(r, E) = c[i] * SumOver(p, E) /\ SumOver(p, E) \in Int /\ SumOver(s, N) \in Int
    BY <1>1, <2>1, <2>2, <2>3, SumScales, SumOverType
  <2>5. Same(P, c[i] * SumOver(p, E), c[i] * SumOver(s, N))
    BY <2>1, <2>3, <2>4, SameScales, Zenon
  <2>6. c[i] * SumOver(p, E) \in Int /\ c[i] * SumOver(s, N) \in Int
    BY <1>3, <2>3, <2>4, Zenon
  <2>7. QED
    BY <2>3, <2>4, <2>5, <2>6, Zenon
<1> HIDE DEF rows, columns, work
<1>9. Zero(SumOver(columns, E)) /\ SumOver(columns, E) \in Int
  BY <1>1, <1>7, ZeroSum
<1>10. Same(P, SumOver(rows, N), SumOver(work, N)) /\ SumOver(work, N) \in Int /\ SumOver(rows, N) \in Int
  BY <1>0, <1>1, <1>8, SumReduces, SumOverType
<1>11. Zero(SumOver(work, N))
  <2>1. Same(P, SumOver(work, N), SumOver(rows, N))
    BY <1>0, <1>10, SameIsEquivalence, Zenon
  <2>2. 0 \in Int
    OBVIOUS
  <2>3. QED
    BY <1>6, <1>9, <1>10, <2>1, <2>2, SameChains, Zenon DEF Zero
<1>12. QED
  BY <1>8, <1>10, <1>11 DEF work, N, c

\* A force and a moment on a node, by what its degrees of freedom are displaced by.
LEMMA ActionIsWork ==
    ASSUME LegalInput, NEW j \in 0 .. 2, NEW n \in Node(structure)
    PROVE  /\ \A m \in 0 .. 2 : Swing(j, <<n, m>>) \in Int
           /\ \A X, Y, M \in Int :
                  /\ Action(j, n, X, Y, M) \in Int
                  /\ Action(j, n, X, Y, M) = Swing(j, <<n, 0>>) * X + Swing(j, <<n, 1>>) * Y + Swing(j, <<n, 2>>) * M
<1> SUFFICES ASSUME NEW X \in Int, NEW Y \in Int, NEW M \in Int
             PROVE  /\ \A m \in 0 .. 2 : Swing(j, <<n, m>>) \in Int
                    /\ Action(j, n, X, Y, M) \in Int
                    /\ Action(j, n, X, Y, M)
                           = Swing(j, <<n, 0>>) * X + Swing(j, <<n, 1>>) * Y + Swing(j, <<n, 2>>) * M
  <2>1. 0 \in Int
    OBVIOUS
  <2>2. QED
    BY <2>1, Zenon
<1>1. PICK px \in Int, py \in Int : px = structure.pos[n][1] /\ py = structure.pos[n][2]
  <2>1. \A axis \in 1 .. 2 : structure.pos[n][axis] \in Int
    BY DEF LegalInput, Measured
  <2>2. 1 \in 1 .. 2 /\ 2 \in 1 .. 2
    OBVIOUS
  <2>3. QED
    BY <2>1, <2>2, Zenon
<1>2. /\ Swing(j, <<n, 0>>) = IF j = 2 THEN -py ELSE IF j = 0 THEN 1 ELSE 0
      /\ Swing(j, <<n, 1>>) = IF j = 2 THEN px ELSE IF j = 1 THEN 1 ELSE 0
      /\ Swing(j, <<n, 2>>) = IF j = 2 THEN 1 ELSE 0
  BY <1>1 DEF Swing
<1>3. Action(j, n, X, Y, M) = IF j = 2 THEN M + px * Y - py * X ELSE IF j = 0 THEN X ELSE Y
  BY <1>1 DEF Action
<1>4. /\ \A m \in 0 .. 2 : Swing(j, <<n, m>>) \in Int
      /\ Action(j, n, X, Y, M) \in Int
  BY <1>1, <1>2, <1>3
<1>5. CASE j = 2
  <2>1. /\ Swing(j, <<n, 0>>) = -py /\ Swing(j, <<n, 1>>) = px /\ Swing(j, <<n, 2>>) = 1
        /\ Action(j, n, X, Y, M) = M + px * Y - py * X
    BY <1>2, <1>3, <1>5
  <2>2. M + px * Y - py * X = (-py) * X + px * Y + 1 * M
    BY <1>1
  <2>3. QED
    BY <1>4, <2>1, <2>2, Zenon
<1>6. CASE j = 0
  <2>1. 1 * X + 0 * Y + 0 * M = X
    OBVIOUS
  <2>2. QED
    BY <1>2, <1>3, <1>4, <1>6, <2>1
<1>7. CASE j = 1
  <2>1. 0 * X + 1 * Y + 0 * M = Y
    OBVIOUS
  <2>2. QED
    BY <1>2, <1>3, <1>4, <1>7, <2>1
<1>8. QED
  BY <1>5, <1>6, <1>7

\* What the program has one load do to the structure as a whole in direction j,
\* and all loads together.
Push(j, load) ==
    LET on(m) == IF load.type = "FORCE_ON_NODE" /\ load.at[2] = m THEN load.value ELSE 0
    IN  IF load.type \in MemberLoads
        THEN LET f == ClampForces(load)
                 n == structure.elem[load.elem].node
             IN  Action(j, n[1], f[1], f[2], f[3]) + Action(j, n[2], f[4], f[5], f[6])
        ELSE Action(j, load.at[1], on(0), on(1), on(2))
Pushed(j) == Total([k \in DOMAIN loads |-> Push(j, loads[k])])

\* A load on an element does it at the element's places.
LEMMA MemberPush ==
    ASSUME LegalInput, Connected, NEW k \in DOMAIN loads, loads[k].type \in MemberLoads, NEW j \in 0 .. 2
    PROVE  /\ Push(j, loads[k]) \in Int
           /\ Push(j, loads[k]) = Times(Swung(j, loads[k].elem), ClampForces(loads[k]), 1 .. 6)
<1> DEFINE e == loads[k].elem
           f == ClampForces(loads[k])
           r == Swung(j, e)
<1>1. e \in Elements /\ Places(e) = 1 .. 6 /\ f \in Vectors(1 .. 6)
  BY ClampType
<1>2. PICK p \in Node(structure), q \in Node(structure) : structure.elem[e].node = <<p, q>>
  BY <1>1 DEF LegalInput, Legal, Elements
<1>3. ~ IsTruss(e)
  <2>1. 5 \in Places(e)
    BY <1>1
  <2>2. QED
    BY <2>1 DEF Places
<1>4. PlaceOf(e) = << <<p, 0>>, <<p, 1>>, <<p, 2>>, <<q, 0>>, <<q, 1>>, <<q, 2>> >>
  BY <1>2, <1>3 DEF PlaceOf
<1>5. /\ r[1] = Swing(j, <<p, 0>>) /\ r[2] = Swing(j, <<p, 1>>) /\ r[3] = Swing(j, <<p, 2>>)
      /\ r[4] = Swing(j, <<q, 0>>) /\ r[5] = Swing(j, <<q, 1>>) /\ r[6] = Swing(j, <<q, 2>>)
  BY <1>1, <1>4 DEF Swung
<1>6. r \in Vectors(1 .. 6)
  BY <1>1, RigidBar
<1>7. Push(j, loads[k]) = Action(j, p, f[1], f[2], f[3]) + Action(j, q, f[4], f[5], f[6])
  BY <1>2 DEF Push
<1> HIDE DEF e, f, r
<1>8. \A m \in 1 .. 6 : r[m] \in Int /\ f[m] \in Int
  BY <1>1, <1>6 DEF Vectors
<1>9. f[1] \in Int /\ f[2] \in Int /\ f[3] \in Int /\ f[4] \in Int /\ f[5] \in Int /\ f[6] \in Int
  BY <1>8
<1>10. /\ Action(j, p, f[1], f[2], f[3]) = r[1] * f[1] + r[2] * f[2] + r[3] * f[3]
       /\ Action(j, p, f[1], f[2], f[3]) \in Int
  <2>1. /\ Action(j, p, f[1], f[2], f[3])
               = Swing(j, <<p, 0>>) * f[1] + Swing(j, <<p, 1>>) * f[2] + Swing(j, <<p, 2>>) * f[3]
        /\ Action(j, p, f[1], f[2], f[3]) \in Int
    <3>1. \A X, Y, M \in Int :
              /\ Action(j, p, X, Y, M) \in Int
              /\ Action(j, p, X, Y, M) = Swing(j, <<p, 0>>) * X + Swing(j, <<p, 1>>) * Y + Swing(j, <<p, 2>>) * M
      BY ActionIsWork
    <3>2. QED
      BY <1>9, <3>1, Zenon
  <2>2. QED
    BY <1>5, <2>1, Zenon
<1>11. /\ Action(j, q, f[4], f[5], f[6]) = r[4] * f[4] + r[5] * f[5] + r[6] * f[6]
       /\ Action(j, q, f[4], f[5], f[6]) \in Int
  <2>1. /\ Action(j, q, f[4], f[5], f[6])
               = Swing(j, <<q, 0>>) * f[4] + Swing(j, <<q, 1>>) * f[5] + Swing(j, <<q, 2>>) * f[6]
        /\ Action(j, q, f[4], f[5], f[6]) \in Int
    <3>1. \A X, Y, M \in Int :
              /\ Action(j, q, X, Y, M) \in Int
              /\ Action(j, q, X, Y, M) = Swing(j, <<q, 0>>) * X + Swing(j, <<q, 1>>) * Y + Swing(j, <<q, 2>>) * M
      BY ActionIsWork
    <3>2. QED
      BY <1>9, <3>1, Zenon
  <2>2. QED
    BY <1>5, <2>1, Zenon
<1>12. Times(r, f, 1 .. 6)
           = r[1] * f[1] + r[2] * f[2] + r[3] * f[3] + r[4] * f[4] + r[5] * f[5] + r[6] * f[6]
  BY <1>1, <1>6, RowOfSixTimes
<1>14. \A m \in 1 .. 6 : r[m] * f[m] \in Int
  <2>1. \A y, z \in Int : y * z \in Int
    OBVIOUS
  <2>2. QED
    BY <1>8, <2>1, Zenon
<1>15. /\ r[1] * f[1] \in Int /\ r[2] * f[2] \in Int /\ r[3] * f[3] \in Int
       /\ r[4] * f[4] \in Int /\ r[5] * f[5] \in Int /\ r[6] * f[6] \in Int
  <2>1. 1 \in 1 .. 6 /\ 2 \in 1 .. 6 /\ 3 \in 1 .. 6 /\ 4 \in 1 .. 6 /\ 5 \in 1 .. 6 /\ 6 \in 1 .. 6
    OBVIOUS
  <2>2. QED
    BY <1>14, <2>1, Zenon
<1>16. (r[1] * f[1] + r[2] * f[2] + r[3] * f[3]) + (r[4] * f[4] + r[5] * f[5] + r[6] * f[6])
           = r[1] * f[1] + r[2] * f[2] + r[3] * f[3] + r[4] * f[4] + r[5] * f[5] + r[6] * f[6]
  BY <1>15
<1>17. Push(j, loads[k]) = Times(r, f, 1 .. 6)
  BY <1>7, <1>10, <1>11, <1>12, <1>16, Zenon
<1>18. Push(j, loads[k]) \in Int
  BY <1>7, <1>10, <1>11
<1>19. QED
  BY <1>17, <1>18 DEF e, f, r

\* What a load adds to the rows does the same, summed over the rows.
LEMMA LoadWork ==
    ASSUME LegalInput, Connected, Profiled, Counted, CoupledTogether,
           NEW j \in 0 .. 2, NEW k \in DOMAIN loads
    PROVE  LET N == 0 .. nTotalDOF - 1
               w == [i \in N |-> SwingOf(j)[i] * Given(i)[k]]
           IN  /\ \A i \in N : w[i] \in Int
               /\ SumOver(w, N) \in Int /\ Push(j, loads[k]) \in Int
               /\ Same(P, SumOver(w, N), Push(j, loads[k]))
<1> DEFINE N == 0 .. nTotalDOF - 1
           c == SwingOf(j)
           w == [i \in N |-> c[i] * Given(i)[k]]
           push == Push(j, loads[k])
<1>0. P \in Nat \ {0} /\ IsFiniteSet(N)
  <2>1. nTotalDOF - 1 \in Int
    BY DEF Profiled
  <2>2. QED
    BY <2>1, PrimeType, FS_Interval
<1>1. \A i \in N : c[i] \in Int
  BY SwingOfNumber
<1>2. \A x, y \in Int : x * y \in Int
  OBVIOUS
<1>3. \A i \in N : w[i] \in Int
  <2>1. \A i \in N : Given(i)[k] \in Int
    BY GivenType
  <2>2. QED
    BY <1>1, <1>2, <2>1
<1>4. /\ loads[k].value \in Int
      /\ \/ loads[k].type = "FORCE_ON_NODE" /\ loads[k].at \in DOFs(structure)
         \/ loads[k].type = "SUPPORT_MOVE" /\ loads[k].at \in Known(structure)
         \/ loads[k].type \in MemberLoads
  BY DEF LegalInput, LegalLoads
<1>5. SumOver(w, N) \in Int
  <2> HIDE DEF w, N
  <2>1. QED
    BY <1>0, <1>3, SumOverType
<1>6. CASE loads[k].type = "FORCE_ON_NODE" /\ loads[k].at \in DOFs(structure)
  <2> DEFINE d == loads[k].at
             v == loads[k].value
             n0 == iaDOFIndex[d]
  <2>1. n0 \in N /\ c[n0] = Swing(j, d)
    BY <1>6, SwingOfNumber
  <2>2. \A i \in N : Given(i)[k] = IF n0 = i THEN v ELSE 0
    <3>1. "FORCE_ON_NODE" \notin MemberLoads
      BY DEF MemberLoads
    <3>2. QED
      BY <1>6, <3>1 DEF Given
  <2>3. PICK n \in Node(structure), m \in 0 .. 2 : d = <<n, m>>
    BY <1>6 DEF DOFs
  <2>4. push = Action(j, n, IF m = 0 THEN v ELSE 0, IF m = 1 THEN v ELSE 0, IF m = 2 THEN v ELSE 0)
    <3>1. "FORCE_ON_NODE" \notin MemberLoads
      BY DEF MemberLoads
    <3>2. loads[k].at[1] = n /\ loads[k].at[2] = m
      BY <2>3
    <3>3. QED
      BY <1>6, <3>1, <3>2 DEF Push
  <2>5. v \in Int /\ 0 \in Int
    BY <1>4
  <2> HIDE DEF d, v, n0, push, w, N, c
  <2>6. push \in Int /\ push = Swing(j, d) * v
    <3>1. \A X, Y, M \in Int :
              /\ Action(j, n, X, Y, M) \in Int
              /\ Action(j, n, X, Y, M) = Swing(j, <<n, 0>>) * X + Swing(j, <<n, 1>>) * Y + Swing(j, <<n, 2>>) * M
      BY ActionIsWork
    <3>2. PICK s0 \in Int, s1 \in Int, s2 \in Int :
              s0 = Swing(j, <<n, 0>>) /\ s1 = Swing(j, <<n, 1>>) /\ s2 = Swing(j, <<n, 2>>)
      <4>1. \A i \in 0 .. 2 : Swing(j, <<n, i>>) \in Int
        BY ActionIsWork
      <4>2. QED
        BY <4>1
    <3>3. \A X, Y, M \in Int :
              /\ Action(j, n, X, Y, M) \in Int
              /\ Action(j, n, X, Y, M) = s0 * X + s1 * Y + s2 * M
      <4> TAKE X \in Int
      <4> TAKE Y \in Int
      <4> TAKE M \in Int
      <4>1. /\ Action(j, n, X, Y, M) \in Int
            /\ Action(j, n, X, Y, M) = Swing(j, <<n, 0>>) * X + Swing(j, <<n, 1>>) * Y + Swing(j, <<n, 2>>) * M
        BY <3>1, Zenon
      <4>2. QED
        BY <3>2, <4>1
    <3>4. CASE m = 0
      <4>1. push = Action(j, n, v, 0, 0)
        BY <2>4, <3>4
      <4>2. push \in Int /\ push = s0 * v + s1 * 0 + s2 * 0
        BY <2>5, <3>3, <4>1, Zenon
      <4>3. s0 * v + s1 * 0 + s2 * 0 = s0 * v
        BY <2>5
      <4>4. QED
        BY <2>3, <3>2, <3>4, <4>2, <4>3, Zenon
    <3>5. CASE m = 1
      <4>1. push = Action(j, n, 0, v, 0)
        BY <2>4, <3>5
      <4>2. push \in Int /\ push = s0 * 0 + s1 * v + s2 * 0
        BY <2>5, <3>3, <4>1, Zenon
      <4>3. s0 * 0 + s1 * v + s2 * 0 = s1 * v
        BY <2>5
      <4>4. QED
        BY <2>3, <3>2, <3>5, <4>2, <4>3, Zenon
    <3>6. CASE m = 2
      <4>1. push = Action(j, n, 0, 0, v)
        BY <2>4, <3>6
      <4>2. push \in Int /\ push = s0 * 0 + s1 * 0 + s2 * v
        BY <2>5, <3>3, <4>1, Zenon
      <4>3. s0 * 0 + s1 * 0 + s2 * v = s2 * v
        BY <2>5
      <4>4. QED
        BY <2>3, <3>2, <3>6, <4>2, <4>3, Zenon
    <3>7. QED
      BY <3>4, <3>5, <3>6
  <2>7. SumOver(w, N) = push
    <3>1. w[n0] = Swing(j, d) * v /\ \A i \in N \ {n0} : w[i] = 0
      <4>1. \A i \in N : c[i] \in Int /\ w[i] = c[i] * (IF n0 = i THEN v ELSE 0)
        BY <1>1, <2>2 DEF w
      <4>2. \A x \in Int : x * 0 = 0
        OBVIOUS
      <4>3. w[n0] = c[n0] * v
        BY <2>1, <4>1
      <4>4. \A i \in N \ {n0} : w[i] = c[i] * 0
        BY <4>1
      <4>5. \A i \in N \ {n0} : w[i] = 0
        BY <4>1, <4>2, <4>4
      <4>6. QED
        BY <2>1, <4>3, <4>5, Zenon
    <3>2. SumOver(w, N) = w[n0]
      <4>1. {n0} \in SUBSET N /\ (\A i \in {n0} : w[i] \in Int) /\ IsFiniteSet({n0}) /\ n0 \in {n0}
        BY <1>3, <2>1, FS_Singleton
      <4>2. SumOver(w, N) = SumOver(w, {n0})
        BY <1>0, <3>1, <4>1, SumOfSome
      <4>3. SumOver(w, {n0}) = w[n0] + SumOver(w, {n0} \ {n0})
        BY <4>1, SumOverMember
      <4>4. {n0} \ {n0} = {}
        OBVIOUS
      <4>5. SumOver(w, {n0} \ {n0}) = 0
        BY <4>4, SumOverNothing, Zenon
      <4>6. w[n0] \in Int
        BY <4>1
      <4>7. QED
        BY <4>2, <4>3, <4>5, <4>6
    <3>3. QED
      BY <2>6, <3>1, <3>2, Zenon
  <2>8. Same(P, SumOver(w, N), push)
    BY <1>0, <1>5, <2>7, SameIsEquivalence, Zenon
  <2>9. QED
    BY <1>3, <1>5, <2>6, <2>8 DEF w, N, c, push
<1>7. CASE loads[k].type = "SUPPORT_MOVE" /\ loads[k].at \in Known(structure)
  <2>1. \A i \in N : Given(i)[k] = 0
    BY <1>7 DEF Given, MemberLoads
  <2>2. loads[k].at[1] \in Node(structure)
    BY <1>7 DEF Known, DOFs
  <2>3. push = Action(j, loads[k].at[1], 0, 0, 0)
    BY <1>7 DEF Push, MemberLoads
  <2>4. push = 0
    <3>1. \A axis \in 1 .. 2 : structure.pos[loads[k].at[1]][axis] \in Int
      BY <2>2 DEF LegalInput, Measured
    <3>2. structure.pos[loads[k].at[1]][1] \in Int /\ structure.pos[loads[k].at[1]][2] \in Int
      BY <3>1
    <3>3. QED
      BY <2>3, <3>2 DEF Action
  <2>5. \A i \in N : w[i] = 0
    BY <1>1, <2>1
  <2> HIDE DEF w, N, c, push
  <2>6. SumOver(w, N) = 0
    <3>1. {} \in SUBSET N /\ (\A i \in {} : w[i] \in Int) /\ \A i \in N \ {} : w[i] = 0
      BY <2>5
    <3>2. SumOver(w, N) = SumOver(w, {})
      BY <1>0, <3>1, SumOfSome, Zenon
    <3>3. QED
      BY <3>2, SumOverNothing, Zenon
  <2>7. push \in Int /\ Same(P, SumOver(w, N), push)
    <3>1. 0 \in Int
      OBVIOUS
    <3>2. QED
      BY <1>0, <2>4, <2>6, <3>1, SameIsEquivalence, Zenon
  <2>8. QED
    BY <1>3, <1>5, <2>7 DEF w, N, c, push
<1>8. CASE loads[k].type \in MemberLoads
  <2> DEFINE e == loads[k].elem
             f == ClampForces(loads[k])
             part(i) == SumOver([q \in PlacesOf(e, i) |-> f[q]], PlacesOf(e, i))
             u == [i \in N |-> c[i] * part(i)]
  <2>1. e \in Elements /\ Places(e) = 1 .. 6 /\ f \in Vectors(1 .. 6)
    BY <1>8, ClampType
  <2>2. push \in Int /\ push = Times(Swung(j, e), f, 1 .. 6)
    BY <1>8, MemberPush
  <2>3. (\A i \in N : u[i] \in Int) /\ SumOver(u, N) = Times(Swung(j, e), f, 1 .. 6)
    <3> HIDE DEF e, f
    <3>1. f \in Vectors(Places(e))
      BY <2>1
    <3>2. (\A i \in N : u[i] \in Int) /\ SumOver(u, N) = Times(Swung(j, e), f, Places(e))
      BY <2>1, <3>1, ElementWork
    <3>3. QED
      BY <2>1, <3>2, Zenon
  <2>4. ASSUME NEW i \in N PROVE Same(P, w[i], u[i])
    <3> DEFINE S == PlacesOf(e, i)
               g == [q \in S |-> f[q]]
    <3>1. Given(i)[k] = OnMember(k, i)
      BY <1>8 DEF Given, MemberLoads
    <3>2. S = {q \in 1 .. 6 : pElemDOF[e][q] = i}
      <4>1. 1 .. Len(pElemDOF[e]) = 1 .. 6
        BY <2>1, ElementPlaces
      <4>2. QED
        BY <4>1, Zenon DEF PlacesOf
    <3>3. OnMember(k, i) = Total(g)
      BY <3>2, Zenon DEF OnMember
    <3>4. IsFiniteSet(S) /\ S \in SUBSET (1 .. 6)
      BY <2>1, PlacesOfType
    <3>5. DOMAIN g = S /\ \A q \in S : g[q] \in Int
      BY <2>1, <3>4 DEF Vectors
    <3>6. part(i) = SumOver(g, S) /\ w[i] = c[i] * Given(i)[k] /\ u[i] = c[i] * part(i)
      OBVIOUS
    <3> HIDE DEF S, g, w, u, part, c
    <3>7. Total(g) \in Int /\ SumOver(g, S) \in Int /\ Same(P, Total(g), SumOver(g, S))
      BY <3>4, <3>5, TotalType
    <3>8. Same(P, c[i] * Total(g), c[i] * SumOver(g, S))
      <4>1. c[i] \in Int
        BY <1>1
      <4>2. QED
        BY <3>7, <4>1, SameScales, Zenon
    <3>9. QED
      BY <3>1, <3>3, <3>6, <3>8, Zenon
  <2> HIDE DEF w, u, N, c, push, e, f
  <2>5. Same(P, SumOver(w, N), SumOver(u, N))
    <3>1. \A i \in N : w[i] \in Int /\ u[i] \in Int /\ Same(P, w[i], u[i])
      BY <1>3, <2>3, <2>4
    <3>2. QED
      BY <1>0, <3>1, SumReduces
  <2>6. Same(P, SumOver(w, N), push)
    BY <2>2, <2>3, <2>5, Zenon
  <2>7. QED
    BY <1>3, <1>5, <2>2, <2>6 DEF w, N, c, push
<1>9. QED
  BY <1>4, <1>6, <1>7, <1>8

\* So the loads of all rows together are what is done to the structure.
LEMMA PushedIsWork ==
    ASSUME LegalInput, Connected, Profiled, Counted, CoupledTogether, NEW j \in 0 .. 2
    PROVE  LET N == 0 .. nTotalDOF - 1
               work == [i \in N |-> SwingOf(j)[i] * SumOver(Given(i), DOMAIN loads)]
           IN  /\ \A i \in N : SumOver(Given(i), DOMAIN loads) \in Int /\ work[i] \in Int
               /\ SumOver(work, N) \in Int /\ Pushed(j) \in Int
               /\ Same(P, Pushed(j), SumOver(work, N))
<1> DEFINE N == 0 .. nTotalDOF - 1
           L == DOMAIN loads
           c == SwingOf(j)
           table == [ik \in N \X L |-> c[ik[1]] * Given(ik[1])[ik[2]]]
           work == [i \in N |-> c[i] * SumOver(Given(i), L)]
           rows == [i \in N |-> RowSum(table, i, L)]
           columns == [k \in L |-> ColumnSum(table, k, N)]
           push == [k \in L |-> Push(j, loads[k])]
<1>0. P \in Nat \ {0} /\ IsFiniteSet(N) /\ IsFiniteSet(L)
  <2>1. nTotalDOF - 1 \in Int
    BY DEF Profiled
  <2>2. L = 1 .. Len(loads) /\ Len(loads) \in Nat
    BY LoadsType DEF LegalInput
  <2>3. QED
    BY <2>1, <2>2, PrimeType, FS_Interval
<1>1. \A i \in N : c[i] \in Int /\ \A k \in L : Given(i)[k] \in Int
  BY SwingOfNumber, GivenType
<1>2. \A x, y \in Int : x * y \in Int
  OBVIOUS
<1>3. \A i \in N : \A k \in L : table[<<i, k>>] = c[i] * Given(i)[k] /\ table[<<i, k>>] \in Int
  <2>1. \A i \in N : \A k \in L : table[<<i, k>>] = c[i] * Given(i)[k]
    OBVIOUS
  <2> HIDE DEF table, N, L, c
  <2>2. QED
    BY <1>1, <1>2, <2>1
<1> HIDE DEF table
<1>4. SumOver(rows, N) = SumOver(columns, L)
  <2> HIDE DEF N, L
  <2>1. \A i \in N : \A k \in L : table[<<i, k>>] \in Int
    BY <1>3
  <2>2. QED
    BY <1>0, <2>1, SumSwaps
<1>5. \A k \in L : columns[k] \in Int /\ push[k] \in Int /\ Same(P, push[k], columns[k])
  <2> TAKE k \in L
  <2> DEFINE w == [i \in N |-> c[i] * Given(i)[k]]
  <2>1. [i \in N |-> table[<<i, k>>]] = w
    BY <1>3
  <2>2. columns[k] = SumOver(w, N)
    <3>1. columns[k] = SumOver([i \in N |-> table[<<i, k>>]], N)
      BY DEF ColumnSum
    <3>2. QED
      BY <2>1, <3>1, Zenon
  <2>3. SumOver(w, N) \in Int /\ Push(j, loads[k]) \in Int /\ Same(P, SumOver(w, N), Push(j, loads[k]))
    BY LoadWork
  <2>4. push[k] = Push(j, loads[k])
    OBVIOUS
  <2> HIDE DEF w, columns, push
  <2>5. QED
    BY <1>0, <2>2, <2>3, <2>4, SameIsEquivalence, Zenon
<1>6. \A i \in N : rows[i] = work[i] /\ SumOver(Given(i), L) \in Int /\ work[i] \in Int
  <2> TAKE i \in N
  <2> DEFINE g == Given(i)
             r == [k \in L |-> table[<<i, k>>]]
  <2>1. \A k \in L : g[k] \in Int /\ r[k] = c[i] * g[k]
    BY <1>1, <1>3
  <2>2. c[i] \in Int
    BY <1>1
  <2>3. rows[i] = SumOver(r, L) /\ work[i] = c[i] * SumOver(g, L)
    BY DEF RowSum
  <2> HIDE DEF g, r, rows, work, L, c
  <2>4. SumOver(r, L) = c[i] * SumOver(g, L) /\ SumOver(g, L) \in Int
    BY <1>0, <2>1, <2>2, SumScales, SumOverType
  <2>5. QED
    BY <1>2, <2>2, <2>3, <2>4 DEF g
<1>7. Pushed(j) = Total(push) /\ DOMAIN push = L
  BY DEF Pushed
<1> HIDE DEF rows, columns, work, push, N, L
<1>8. SumOver(rows, N) = SumOver(work, N) /\ SumOver(work, N) \in Int
  BY <1>0, <1>6, SumOverSame, SumOverType
<1>9. /\ Total(push) \in Int /\ SumOver(push, L) \in Int /\ SumOver(columns, L) \in Int
      /\ Same(P, Total(push), SumOver(push, L)) /\ Same(P, SumOver(push, L), SumOver(columns, L))
  BY <1>0, <1>5, <1>7, TotalType, SumReduces, SumOverType
<1>10. Same(P, Pushed(j), SumOver(work, N)) /\ Pushed(j) \in Int
  BY <1>4, <1>7, <1>8, <1>9, SameChains, Zenon
<1>11. QED
  BY <1>6, <1>8, <1>10 DEF work, N, L, c

-----------------------------------------------------------------------------
(* What the program has a load do is what the load does, if its fixed end    *)
(* forces hold it.                                                           *)

\* The forces on the nodes of a clamped element, in global directions.
LEMMA ClampParts ==
    ASSUME LegalInput, NEW k \in DOMAIN loads, loads[k].type \in MemberLoads,
           NEW c, c = Cos(loads[k].elem), NEW s, s = Sin(loads[k].elem)
    PROVE  LET K == KeptForces(loads[k])
               f == ClampForces(loads[k])
           IN  /\ \A m \in 1 .. 6 : K[m] \in Int /\ f[m] \in Int
               /\ Zero(f[1] - s * K[2]) /\ Zero(f[2] + c * K[2]) /\ Zero(f[3] + K[3])
               /\ Zero(f[4] - s * K[5]) /\ Zero(f[5] + c * K[5]) /\ Zero(f[6] + K[6])
<1> DEFINE K == KeptForces(loads[k])
           f == ClampForces(loads[k])
           v == [m \in 1 .. 6 |-> -K[m]]
           e == loads[k].elem
           T == FrameTurn(c, -s)
<1>1. e \in Elements /\ Places(e) = 1 .. 6 /\ f \in Vectors(1 .. 6)
  BY ClampType
<1>2. c \in Int /\ s \in Int /\ -s \in Int
  BY <1>1, ElementGeometry
<1>3. K \in [1 .. 6 -> Num] /\ K[1] = 0 /\ K[4] = 0
  BY KeptType DEF KeptForces
<1>4. \A m \in 1 .. 6 : K[m] \in Int /\ v[m] = -K[m] /\ v[m] \in Int
  <2>1. \A x \in Num : x \in Int /\ -x \in Int
    BY PrimeType DEF Num
  <2>2. QED
    BY <1>3, <2>1
<1>5. v \in Vectors(1 .. 6)
  BY <1>4 DEF Vectors
<1>6. MatrixTrans(Rotation(e)) = T
  <2>1. ~ IsTruss(e)
    <3>1. 5 \in Places(e)
      BY <1>1
    <3>2. QED
      BY <3>1 DEF Places
  <2>2. Rotation(e) = FrameTurn(c, s)
    BY <2>1 DEF Rotation, FrameTurn
  <2>3. -(-s) = s
    BY <1>2
  <2>4. QED
    BY <2>2, <2>3 DEF MatrixTrans, FrameTurn
<1>7. f = MatrixVectorMultiply(T, v)
  BY <1>6 DEF ClampForces
<1> HIDE DEF K, f, v, T
<1>8. /\ Zero(f[1] - (c * v[1] + (-s) * v[2])) /\ Zero(f[4] - (c * v[4] + (-s) * v[5]))
      /\ Zero(f[2] - (c * v[2] - (-s) * v[1])) /\ Zero(f[5] - (c * v[5] - (-s) * v[4]))
      /\ Zero(f[3] - v[3]) /\ Zero(f[6] - v[6])
  BY <1>2, <1>5, <1>7, TurnedEnds, Zenon DEF T
<1>9. /\ v[1] = 0 /\ v[2] = -K[2] /\ v[3] = -K[3] /\ v[4] = 0 /\ v[5] = -K[5] /\ v[6] = -K[6]
      /\ K[2] \in Int /\ K[3] \in Int /\ K[5] \in Int /\ K[6] \in Int
  BY <1>3, <1>4
<1>10. \A m \in 1 .. 6 : f[m] \in Int
  BY <1>1 DEF Vectors
<1>11. /\ f[1] \in Int /\ f[2] \in Int /\ f[3] \in Int /\ f[4] \in Int /\ f[5] \in Int /\ f[6] \in Int
  BY <1>10
<1>12. /\ f[1] - (c * v[1] + (-s) * v[2]) = f[1] - s * K[2]
       /\ f[2] - (c * v[2] - (-s) * v[1]) = f[2] + c * K[2]
       /\ f[3] - v[3] = f[3] + K[3]
       /\ f[4] - (c * v[4] + (-s) * v[5]) = f[4] - s * K[5]
       /\ f[5] - (c * v[5] - (-s) * v[4]) = f[5] + c * K[5]
       /\ f[6] - v[6] = f[6] + K[6]
  BY <1>2, <1>9, <1>11
<1>13. QED
  BY <1>4, <1>8, <1>10, <1>12, Zenon DEF K, f

\* The action of a force across an element.
LEMMA TurnedAction ==
    ASSUME LegalInput, NEW j \in 0 .. 2, NEW p \in Node(structure)
    PROVE  \A c, s, Y, M \in Int :
               Action(j, p, c * 0 - s * Y, s * 0 + c * Y, M)
                   = Swing(j, <<p, 0>>) * (-(s * Y)) + Swing(j, <<p, 1>>) * (c * Y) + Swing(j, <<p, 2>>) * M
<1>1. \A X, U, V \in Int :
          /\ Action(j, p, X, U, V) \in Int
          /\ Action(j, p, X, U, V) = Swing(j, <<p, 0>>) * X + Swing(j, <<p, 1>>) * U + Swing(j, <<p, 2>>) * V
  BY ActionIsWork
<1> TAKE c, s, Y, M \in Int
<1>2. c * 0 - s * Y = -(s * Y) /\ s * 0 + c * Y = c * Y /\ -(s * Y) \in Int /\ c * Y \in Int
  OBVIOUS
<1>3. Action(j, p, -(s * Y), c * Y, M)
          = Swing(j, <<p, 0>>) * (-(s * Y)) + Swing(j, <<p, 1>>) * (c * Y) + Swing(j, <<p, 2>>) * M
  BY <1>1, <1>2, Zenon
<1>4. QED
  BY <1>2, <1>3, Zenon

\* A member load that its fixed end forces hold does to the structure what the
\* load itself does on its element.
LEMMA HeldLoadPushes ==
    ASSUME LegalInput, Connected, NEW k \in DOMAIN loads, loads[k].type \in MemberLoads, NEW j \in 0 .. 2,
           NEW Y \in Int, NEW M \in Int, Holds(KeptForces(loads[k]), loads[k].elem, 0, Y, M),
           NEW c, c = Cos(loads[k].elem), NEW s, s = Sin(loads[k].elem)
    PROVE  LET action == Action(j, structure.elem[loads[k].elem].node[1], c * 0 - s * Y, s * 0 + c * Y, M)
           IN  action \in Int /\ Same(P, Push(j, loads[k]), action)
<1> DEFINE e == loads[k].elem
           K == KeptForces(loads[k])
           f == ClampForces(loads[k])
           r == Swung(j, e)
           t == IF j = 2 THEN 1 ELSE 0
<1>0. P \in Nat \ {0}
  BY PrimeType
<1>1. e \in Elements /\ Places(e) = 1 .. 6 /\ f \in Vectors(1 .. 6)
  BY ClampType
<1>2. ~ IsTruss(e)
  <2>1. 5 \in Places(e)
    BY <1>1
  <2>2. QED
    BY <2>1 DEF Places
<1>3. c \in Int /\ s \in Int
  BY <1>1, ElementGeometry
<1>4. PICK p \in Node(structure), q \in Node(structure) : structure.elem[e].node = <<p, q>>
  BY <1>1 DEF LegalInput, Legal, Elements
<1>5. Action(j, structure.elem[e].node[1], c * 0 - s * Y, s * 0 + c * Y, M)
          = Swing(j, <<p, 0>>) * (-(s * Y)) + Swing(j, <<p, 1>>) * (c * Y) + Swing(j, <<p, 2>>) * M
  <2>1. structure.elem[e].node[1] = p
    BY <1>4
  <2>2. \A a, b, U, V \in Int :
            Action(j, p, a * 0 - b * U, b * 0 + a * U, V)
                = Swing(j, <<p, 0>>) * (-(b * U)) + Swing(j, <<p, 1>>) * (a * U) + Swing(j, <<p, 2>>) * V
    BY TurnedAction
  <2>3. Y \in Int /\ M \in Int
    OBVIOUS
  <2>4. Action(j, p, c * 0 - s * Y, s * 0 + c * Y, M)
            = Swing(j, <<p, 0>>) * (-(s * Y)) + Swing(j, <<p, 1>>) * (c * Y) + Swing(j, <<p, 2>>) * M
    <3>1. \A U, V \in Int :
              Action(j, p, c * 0 - s * U, s * 0 + c * U, V)
                  = Swing(j, <<p, 0>>) * (-(s * U)) + Swing(j, <<p, 1>>) * (c * U) + Swing(j, <<p, 2>>) * V
      BY <1>3, <2>2, Zenon
    <3>2. QED
      BY <2>3, <3>1, Zenon
  <2>5. QED
    BY <2>1, <2>4, Zenon
<1>6. PICK x \in Int, y \in Int, l \in Int :
          /\ x = Delta(e, 1) /\ y = Delta(e, 2) /\ l = Length(e)
          /\ c \in Int /\ s \in Int /\ Zero(c * x + s * y - l)
  BY <1>1, Directions, Zenon
<1>7. /\ r \in Vectors(1 .. 6)
      /\ r[4] = r[1] - t * y /\ r[5] = r[2] + t * x /\ r[3] = t /\ r[6] = t
  BY <1>1, <1>6, <1>2, RigidBar, Zenon
<1>8. r[1] = Swing(j, <<p, 0>>) /\ r[2] = Swing(j, <<p, 1>>) /\ r[3] = Swing(j, <<p, 2>>)
  <2>1. PlaceOf(e) = << <<p, 0>>, <<p, 1>>, <<p, 2>>, <<q, 0>>, <<q, 1>>, <<q, 2>> >>
    BY <1>2, <1>4 DEF PlaceOf
  <2>2. QED
    BY <1>1, <2>1 DEF Swung
<1>9. /\ \A m \in 1 .. 6 : K[m] \in Int /\ f[m] \in Int
      /\ Zero(f[1] - s * K[2]) /\ Zero(f[2] + c * K[2]) /\ Zero(f[3] + K[3])
      /\ Zero(f[4] - s * K[5]) /\ Zero(f[5] + c * K[5]) /\ Zero(f[6] + K[6])
  BY ClampParts
<1>10. t \in Int
  OBVIOUS
<1>11. K[1] = 0 /\ K[4] = 0
  BY DEF KeptForces
<1>12. /\ (K[2] + K[5] + Y) % P = 0 /\ (K[3] + K[6] + K[5] * l + M) % P = 0
  BY <1>6 DEF Holds
<1>13. Push(j, loads[k]) = Times(r, f, 1 .. 6)
  BY MemberPush
<1> HIDE DEF r, f, K, t, e
<1>14. Push(j, loads[k]) = r[1] * f[1] + r[2] * f[2] + r[3] * f[3] + r[4] * f[4] + r[5] * f[5] + r[6] * f[6]
  BY <1>1, <1>7, <1>13, RowOfSixTimes, Zenon
<1>15. PICK k2 \in Int, k3 \in Int, k5 \in Int, k6 \in Int :
           k2 = K[2] /\ k3 = K[3] /\ k5 = K[5] /\ k6 = K[6]
  <2>1. K[2] \in Int /\ K[3] \in Int /\ K[5] \in Int /\ K[6] \in Int
    BY <1>9
  <2>2. QED
    BY <2>1, Zenon
<1>16. PICK f1 \in Int, f2 \in Int, f3 \in Int, f4 \in Int, f5 \in Int, f6 \in Int :
           f1 = f[1] /\ f2 = f[2] /\ f3 = f[3] /\ f4 = f[4] /\ f5 = f[5] /\ f6 = f[6]
  <2>1. f[1] \in Int /\ f[2] \in Int /\ f[3] \in Int /\ f[4] \in Int /\ f[5] \in Int /\ f[6] \in Int
    BY <1>9
  <2>2. QED
    BY <2>1, Zenon
<1>17. PICK r1 \in Int, r2 \in Int : r1 = r[1] /\ r2 = r[2]
  <2>1. \A m \in 1 .. 6 : r[m] \in Int
    BY <1>7 DEF Vectors
  <2>2. r[1] \in Int /\ r[2] \in Int
    BY <2>1
  <2>3. QED
    BY <2>2, Zenon
<1>18. Zero(k2 + k5 + Y) /\ Zero(k3 + k6 + k5 * l + M)
  <2>1. 0 % P = 0
    BY <1>0, SmallRemainders
  <2>2. (k2 + k5 + Y) % P = 0 /\ (k3 + k6 + k5 * l + M) % P = 0
    BY <1>12, <1>15, Zenon
  <2>3. QED
    BY <2>1, <2>2, Zenon DEF Zero, Same
<1>19. /\ Zero(f1 - s * k2) /\ Zero(f2 + c * k2) /\ Zero(f3 + k3)
       /\ Zero(f4 - s * k5) /\ Zero(f5 + c * k5) /\ Zero(f6 + k6)
  BY <1>9, <1>15, <1>16, Zenon
<1> DEFINE work == r1 * f1 + r2 * f2 + t * f3 + (r1 - t * y) * f4 + (r2 + t * x) * f5 + t * f6
           load == r1 * (-(s * Y)) + r2 * (c * Y) + t * M
           start == r1 * (f1 - s * k2) + r2 * (f2 + c * k2) + t * (f3 + k3)
           end == (r1 - t * y) * (f4 - s * k5) + (r2 + t * x) * (f5 + c * k5) + t * (f6 + k6)
           whole == (s * r1 - c * r2) * (k2 + k5 + Y) + (-t) * (k3 + k6 + k5 * l + M)
                        + (-(t * k5)) * (c * x + s * y - l)
           action == Action(j, structure.elem[e].node[1], c * 0 - s * Y, s * 0 + c * Y, M)
<1>20. /\ work \in Int /\ load \in Int /\ start \in Int /\ end \in Int /\ whole \in Int
       /\ work - load \in Int /\ start + end \in Int
  BY <1>10, <1>3
<1>21. work - load = (start + end) + whole
  BY <1>10, <1>3
<1>22. Zero(start)
  <2>1. f1 - s * k2 \in Int /\ f2 + c * k2 \in Int /\ f3 + k3 \in Int
    BY <1>3
  <2>2. QED
    BY <1>10, <1>19, <2>1, ZeroCombines, Zenon
<1>23. Zero(end)
  <2>1. f4 - s * k5 \in Int /\ f5 + c * k5 \in Int /\ f6 + k6 \in Int /\ r1 - t * y \in Int /\ r2 + t * x \in Int
    BY <1>10, <1>3
  <2>2. QED
    BY <1>10, <1>19, <2>1, ZeroCombines, Zenon
<1>24. Zero(whole)
  <2>1. /\ k2 + k5 + Y \in Int /\ k3 + k6 + k5 * l + M \in Int /\ c * x + s * y - l \in Int
        /\ s * r1 - c * r2 \in Int /\ -t \in Int /\ -(t * k5) \in Int
    BY <1>10, <1>3
  <2>2. QED
    BY <1>6, <1>18, <2>1, ZeroCombines, Zenon
<1>25. Push(j, loads[k]) = work
  BY <1>7, <1>14, <1>16, <1>17, Zenon
<1>26. action = load
  BY <1>7, <1>8, <1>5, <1>17, Zenon
<1> HIDE DEF work, load, start, end, whole, action
<1>27. Same(P, work, load)
  <2>1. Zero(work - load)
    BY <1>20, <1>21, <1>22, <1>23, <1>24, ZeroRules, Zenon
  <2>2. QED
    BY <1>20, <2>1, ZeroIsSame, Zenon
<1>28. QED
  BY <1>20, <1>25, <1>26, <1>27, Zenon DEF action, e

\* A change of temperature does nothing to an element as a whole.
LEMMA TemperatureHeld ==
    ASSUME LegalInput, NEW k \in DOMAIN loads, loads[k].type = "TEMPERATURE"
    PROVE  Holds(KeptForces(loads[k]), loads[k].elem, 0, 0, 0)
<1>1. loads[k].type \in MemberLoads
  BY DEF MemberLoads
<1>2. loads[k].type # "FORCE_ON_NODE" /\ loads[k].type # "SUPPORT_MOVE"
  OBVIOUS
<1>3. /\ loads[k].t0 \in Int /\ loads[k].t1 \in Int /\ loads[k].elem \in DOMAIN structure.elem
      /\ structure.elem[loads[k].elem].alpha \in Int
      /\ structure.elem[loads[k].elem].H \in Int /\ structure.elem[loads[k].elem].H % P # 0
  BY <1>2 DEF LegalInput, LegalLoads
<1>4. structure.elem[loads[k].elem].EI \in Int
  BY <1>3, ElementGeometry DEF Elements
<1>5. PICK al \in Int, t0 \in Int, t1 \in Int, ei \in Int, h \in Int :
          /\ al = structure.elem[loads[k].elem].alpha /\ t0 = loads[k].t0 /\ t1 = loads[k].t1
          /\ ei = structure.elem[loads[k].elem].EI
          /\ h = structure.elem[loads[k].elem].H /\ h % P # 0
  BY <1>3, <1>4, Zenon
<1>6. Unit(h) /\ al * (t1 - t0) * ei \in Int
  BY <1>5, RemainderIsUnit
<1>7. PICK b \in Int : b = Div(al * (t1 - t0) * ei, h)
  BY <1>6, DivSolves, Zenon
<1>8. PICK f1, f4 : FixedEndForces(loads[k]) = << f1, 0, b, f4, 0, -b >>
  BY <1>5, <1>7, Zenon DEF FixedEndForces
<1>9. PICK l \in Int : l = Length(loads[k].elem)
  BY <1>1, MemberLoadType
<1>10. Zero(0)
  BY DEF Zero, Same
<1>11. 0 \in Int /\ -b \in Int /\ 0 + 0 + 0 = 0 /\ b + (-b) + 0 * l + 0 = 0
  OBVIOUS
<1>12. /\ FixedEndForces(loads[k])[2] = 0 /\ FixedEndForces(loads[k])[3] = b
       /\ FixedEndForces(loads[k])[5] = 0 /\ FixedEndForces(loads[k])[6] = -b
  BY <1>8
<1>13. Zero(0 + 0 + 0) /\ Zero(b + (-b) + 0 * Length(loads[k].elem) + 0)
  BY <1>9, <1>10, <1>11, Zenon
<1>14. Length(loads[k].elem) \in Int
  BY <1>9
<1>15. QED
  BY <1>11, <1>12, <1>13, <1>14, KeptIsHeld, Zenon

\* So what the program has a load of these types do is what the load does.
LEMMA PushIsAction ==
    ASSUME LegalInput, Connected, OnlyHeldTypes, NEW k \in DOMAIN loads, NEW j \in 0 .. 2,
           Push(j, loads[k]) \in Int
    PROVE  /\ ActionOfLoad(j, loads[k]) \in Int
           /\ Same(P, Push(j, loads[k]), ActionOfLoad(j, loads[k]))
<1> DEFINE load == loads[k]
           e == load.elem
           r == Resultant(load)
           c == Cos(e)
           s == Sin(e)
<1>1. CASE load.type \notin MemberLoads
  <2>1. ActionOfLoad(j, load) = Push(j, load)
    BY <1>1 DEF ActionOfLoad, Push
  <2>2. QED
    BY <2>1, Zenon DEF Same
<1>2. CASE load.type \in MemberLoads
  <2>1. load.value \in Int /\ load.position \in Int
    BY <1>2, MemberLoadType
  <2>2. PICK Y \in Int, M \in Int :
            r.X = 0 /\ r.Y = Y /\ r.M = M /\ Holds(KeptForces(load), e, 0, Y, M)
    <3>1. load.type \in HeldTypes
      BY <1>2 DEF OnlyHeldTypes
    <3>2. CASE load.type = "LATERAL_FORCE"
      <4>1. r.X = 0 /\ r.Y = load.value /\ r.M = load.value * load.position
        BY <3>2 DEF Resultant
      <4>2. load.value * load.position \in Int
        BY <2>1
      <4>3. Holds(KeptForces(load), e, 0, load.value, load.value * load.position)
        BY <3>2, LateralForceHeld
      <4>4. QED
        BY <2>1, <4>1, <4>2, <4>3, Zenon
    <3>3. CASE load.type = "LATERAL_UNIFORM_PRESSURE"
      <4>1. /\ r.X = 0 /\ r.Y = load.value * load.position
            /\ r.M = Div(load.value * load.position * load.position, 2)
        BY <3>3 DEF Resultant
      <4>2. load.value * load.position \in Int /\ load.value * load.position * load.position \in Int /\ 2 \in Int
        BY <2>1
      <4>3. Div(load.value * load.position * load.position, 2) \in Int
        BY <4>2, SmallUnits, DivSolves, Zenon
      <4>4. Holds(KeptForces(load), e, 0, load.value * load.position,
                  Div(load.value * load.position * load.position, 2))
        BY <3>3, UniformPressureHeld
      <4>5. QED
        BY <4>1, <4>2, <4>3, <4>4, Zenon
    <3>4. CASE load.type = "TEMPERATURE"
      <4>1. r.X = 0 /\ r.Y = 0 /\ r.M = 0
        BY <3>4 DEF Resultant
      <4>2. Holds(KeptForces(load), e, 0, 0, 0) /\ 0 \in Int
        BY <3>4, TemperatureHeld
      <4>3. QED
        BY <4>1, <4>2, Zenon
    <3>5. QED
      BY <3>1, <3>2, <3>3, <3>4 DEF HeldTypes
  <2>3. ActionOfLoad(j, load) = Action(j, structure.elem[e].node[1], c * 0 - s * Y, s * 0 + c * Y, M)
    <3>1. ActionOfLoad(j, load)
              = Action(j, structure.elem[e].node[1], c * r.X - s * r.Y, s * r.X + c * r.Y, r.M)
      BY <1>2, Zenon DEF ActionOfLoad
    <3>2. QED
      BY <2>2, <3>1, Zenon
  <2>4. LET action == Action(j, structure.elem[e].node[1], c * 0 - s * Y, s * 0 + c * Y, M)
        IN  action \in Int /\ Same(P, Push(j, load), action)
    BY <1>2, <2>2, HeldLoadPushes
  <2>5. QED
    BY <2>3, <2>4, Zenon
<1>3. QED
  BY <1>1, <1>2

\* All loads together do what is done to the structure.
LEMMA AppliedIsPushed ==
    ASSUME LegalInput, Connected, Profiled, Counted, CoupledTogether, OnlyHeldTypes, NEW j \in 0 .. 2
    PROVE  Applied(j) \in Int /\ Same(P, Applied(j), Pushed(j))
<1> DEFINE L == DOMAIN loads
           push == [k \in L |-> Push(j, loads[k])]
           act == [k \in L |-> ActionOfLoad(j, loads[k])]
<1>0. P \in Nat \ {0} /\ IsFiniteSet(L)
  <2>1. L = 1 .. Len(loads) /\ Len(loads) \in Nat
    BY LoadsType DEF LegalInput
  <2>2. QED
    BY <2>1, PrimeType, FS_Interval
<1>1. \A k \in L : push[k] \in Int /\ act[k] \in Int /\ Same(P, push[k], act[k])
  <2> TAKE k \in L
  <2>1. Push(j, loads[k]) \in Int
    BY LoadWork
  <2>2. ActionOfLoad(j, loads[k]) \in Int /\ Same(P, Push(j, loads[k]), ActionOfLoad(j, loads[k]))
    BY <2>1, PushIsAction
  <2>3. push[k] = Push(j, loads[k]) /\ act[k] = ActionOfLoad(j, loads[k])
    OBVIOUS
  <2> HIDE DEF push, act
  <2>4. QED
    BY <2>1, <2>2, <2>3, Zenon
<1>2. Pushed(j) = Total(push) /\ Applied(j) = Total(act) /\ DOMAIN push = L /\ DOMAIN act = L
  BY DEF Pushed, Applied
<1> HIDE DEF push, act, L
<1>3. /\ Total(push) \in Int /\ SumOver(push, L) \in Int /\ Same(P, Total(push), SumOver(push, L))
      /\ Total(act) \in Int /\ SumOver(act, L) \in Int /\ Same(P, Total(act), SumOver(act, L))
  BY <1>0, <1>1, <1>2, TotalType
<1>4. Same(P, SumOver(push, L), SumOver(act, L))
  BY <1>0, <1>1, SumReduces
<1>5. Same(P, SumOver(act, L), SumOver(push, L)) /\ Same(P, SumOver(push, L), Total(push))
  BY <1>0, <1>3, <1>4, SameIsEquivalence, Zenon
<1>6. Same(P, Total(act), Total(push))
  BY <1>3, <1>5, SameChains, Zenon
<1>7. QED
  BY <1>2, <1>3, <1>6, Zenon

-----------------------------------------------------------------------------
(* The table of reactions: which rows it has, and what is in their cells.    *)

\* The i-th row of the constrained nodes, and whether it holds its node.
ConsRow(file, i) == pConsNode(file)[i - 1]
Holding(file, i) == -1 \in Range(ConsRow(file, i).iaConstrainedDOF)

\* The equation of the recursive function in Supports.
Gathered(file, f, n) ==
    f = [i \in 0 .. n |->
            IF i = 0 THEN <<>>
            ELSE IF Holding(file, i) THEN Append(f[i - 1], ConsRow(file, i)) ELSE f[i - 1]]

\* s has the rows among the first i that hold their nodes, each of them once.
Gathers(file, s, i) ==
    /\ s \in Seq({ConsRow(file, k) : k \in Nat})
    /\ \E o \in [1 .. Len(s) -> 1 .. i] :
           /\ \A k \in 1 .. Len(s) : s[k] = ConsRow(file, o[k]) /\ Holding(file, o[k])
           /\ \A k, m \in 1 .. Len(s) : o[k] = o[m] => k = m
           /\ \A r \in 1 .. i : Holding(file, r) => \E k \in 1 .. Len(s) : o[k] = r

\* One row more is gathered, or passed over.
LEMMA GathersNext ==
    ASSUME NEW file, NEW n \in Nat, NEW s, Gathers(file, s, n)
    PROVE  Gathers(file, IF Holding(file, n + 1) THEN Append(s, ConsRow(file, n + 1)) ELSE s, n + 1)
<1> DEFINE R == {ConsRow(file, k) : k \in Nat}
           row == ConsRow(file, n + 1)
           l == Len(s)
<1>1. PICK o \in [1 .. l -> 1 .. n] :
          /\ \A k \in 1 .. l : s[k] = ConsRow(file, o[k]) /\ Holding(file, o[k])
          /\ \A k, m \in 1 .. l : o[k] = o[m] => k = m
          /\ \A r \in 1 .. n : Holding(file, r) => \E k \in 1 .. l : o[k] = r
  BY DEF Gathers
<1>2. s \in Seq(R) /\ l \in Nat /\ row \in R /\ n + 1 \in Nat
  <2>1. s \in Seq(R)
    BY DEF Gathers
  <2>2. n + 1 \in Nat
    OBVIOUS
  <2>3. l \in Nat
    <3> HIDE DEF R
    <3>1. QED
      BY <2>1
  <2>4. QED
    BY <2>1, <2>2, <2>3
<1>3. 1 .. n \in SUBSET (1 .. n + 1) /\ 1 .. n + 1 = (1 .. n) \cup {n + 1} /\ n + 1 \notin 1 .. n
  OBVIOUS
<1>4. ASSUME ~ Holding(file, n + 1) PROVE Gathers(file, s, n + 1)
  <2>1. o \in [1 .. l -> 1 .. n + 1]
    BY <1>3
  <2>2. \A r \in 1 .. n + 1 : Holding(file, r) => \E k \in 1 .. l : o[k] = r
    BY <1>1, <1>3, <1>4
  <2>3. QED
    BY <1>1, <1>2, <2>1, <2>2 DEF Gathers
<1>5. ASSUME Holding(file, n + 1) PROVE Gathers(file, Append(s, row), n + 1)
  <2> DEFINE t == Append(s, row)
             p == [k \in 1 .. l + 1 |-> IF k = l + 1 THEN n + 1 ELSE o[k]]
  <2> HIDE DEF R, row, l
  <2>1. /\ t \in Seq(R) /\ Len(t) = l + 1 /\ t[l + 1] = row
        /\ \A k \in 1 .. l : t[k] = s[k]
    BY <1>2 DEF l
  <2>2. 1 .. l + 1 = (1 .. l) \cup {l + 1} /\ l + 1 \notin 1 .. l
    BY <1>2
  <2>3. p[l + 1] = n + 1 /\ \A k \in 1 .. l : p[k] = o[k] /\ o[k] \in 1 .. n
    BY <1>2, <2>2
  <2>4. p \in [1 .. l + 1 -> 1 .. n + 1]
    BY <1>3, <2>2
  <2> HIDE DEF t, p
  <2>5. \A k \in 1 .. l + 1 : t[k] = ConsRow(file, p[k]) /\ Holding(file, p[k])
    BY <1>1, <1>5, <2>1, <2>2, <2>3 DEF row
  <2>6. \A k, m \in 1 .. l + 1 : p[k] = p[m] => k = m
    BY <1>1, <1>3, <2>2, <2>3
  <2>7. \A r \in 1 .. n + 1 : Holding(file, r) => \E k \in 1 .. l + 1 : p[k] = r
    BY <1>1, <1>3, <2>2, <2>3
  <2>8. /\ p \in [1 .. Len(t) -> 1 .. n + 1]
        /\ \A k \in 1 .. Len(t) : t[k] = ConsRow(file, p[k]) /\ Holding(file, p[k])
        /\ \A k, m \in 1 .. Len(t) : p[k] = p[m] => k = m
        /\ \A r \in 1 .. n + 1 : Holding(file, r) => \E k \in 1 .. Len(t) : p[k] = r
    BY <2>1, <2>4, <2>5, <2>6, <2>7
  <2>9. t \in Seq({ConsRow(file, k) : k \in Nat})
    BY <2>1 DEF R
  <2>10. Gathers(file, t, n + 1)
    BY <2>8, <2>9, Zenon DEF Gathers
  <2>11. QED
    BY <2>10 DEF t
<1>6. QED
  BY <1>4, <1>5

\* The function exists, and its last value has all the rows.
LEMMA GatheredExists ==
    ASSUME NEW file, NEW n \in Nat
    PROVE  \E f : Gathered(file, f, n)
<1> DEFINE Step(i, s) == IF Holding(file, i) THEN Append(s, ConsRow(file, i)) ELSE s
           Rec(f, m) == f = [i \in 0 .. m |-> IF i = 0 THEN <<>> ELSE Step(i, f[i - 1])]
           B == {m \in Nat : ~ \E f : Rec(f, m)}
<1>1. ASSUME B # {} PROVE FALSE
  <2>1. PICK m \in B : \A j \in B : ~ (<<j, m>> \in OpToRel(<, Nat))
    <3>1. B \subseteq Nat
      OBVIOUS
    <3> HIDE DEF B
    <3>2. QED
      BY <1>1, <3>1, SmallestNumber
  <2> HIDE DEF Step
  <2>2. m # 0
    <3> DEFINE f == [i \in 0 .. 0 |-> <<>>]
    <3>1. \A i \in 0 .. 0 : f[i] = IF i = 0 THEN <<>> ELSE Step(i, f[i - 1])
      OBVIOUS
    <3>2. f = [i \in 0 .. 0 |-> f[i]]
      OBVIOUS
    <3> HIDE DEF f
    <3>3. Rec(f, 0)
      BY <3>1, <3>2, Zenon
    <3>4. QED
      BY <3>3
  <2>3. m \in Nat /\ m - 1 \in Nat /\ m - 1 < m
    BY <2>2
  <2>4. m - 1 \notin B
    BY <2>1, <2>3, Zenon DEF OpToRel
  <2>5. PICK f : Rec(f, m - 1)
    BY <2>3, <2>4
  <2>6. \A i \in 0 .. m - 1 : f[i] = IF i = 0 THEN <<>> ELSE Step(i, f[i - 1])
    BY <2>5
  <2> DEFINE g == [i \in 0 .. m |-> IF i = m THEN Step(m, f[m - 1]) ELSE f[i]]
  <2>7. ASSUME NEW i \in 0 .. m
        PROVE  g[i] = IF i = 0 THEN <<>> ELSE Step(i, g[i - 1])
    <3>1. CASE i = 0
      <4>1. 0 \in 0 .. m - 1 /\ 0 # m /\ 0 \in 0 .. m
        BY <2>3
      <4>2. QED
        BY <2>6, <3>1, <4>1
    <3>2. CASE i # 0
      <4>1. i - 1 \in 0 .. m /\ i - 1 # m /\ i \in Nat
        BY <2>3, <3>2
      <4>2. g[i - 1] = f[i - 1]
        BY <4>1
      <4>3. CASE i = m
        BY <3>2, <4>2, <4>3
      <4>4. CASE i # m
        <5>1. i \in 0 .. m - 1
          BY <2>3, <4>4
        <5>2. g[i] = f[i]
          BY <4>4
        <5>3. QED
          BY <2>6, <3>2, <4>2, <5>1, <5>2
      <4>5. QED
        BY <4>3, <4>4
    <3>3. QED
      BY <3>1, <3>2
  <2>8. g = [i \in 0 .. m |-> g[i]]
    OBVIOUS
  <2> HIDE DEF g
  <2>9. Rec(g, m)
    BY <2>7, <2>8, Zenon
  <2>10. QED
    BY <2>1, <2>9
<1>2. \E f : Rec(f, n)
  BY <1>1
<1>3. QED
  BY <1>2 DEF Gathered

\* Supports has gathered all the rows that hold their nodes.
LEMMA SupportsAreGathered ==
    ASSUME NEW file, file[2] \in Nat
    PROVE  Gathers(file, Supports(file), file[2])
<1> DEFINE n == file[2]
           f == CHOOSE g : Gathered(file, g, n)
<1>1. Gathered(file, f, n)
  BY GatheredExists
<1>2. Supports(file) = f[n]
  BY Zenon DEF Supports, Gathered, Holding, ConsRow
<1> HIDE DEF f
<1> DEFINE B == {i \in 0 .. n : ~ Gathers(file, f[i], i)}
<1>3. ASSUME B # {} PROVE FALSE
  <2>1. PICK m \in B : \A j \in B : ~ (<<j, m>> \in OpToRel(<, Nat))
    <3>1. B \subseteq Nat
      OBVIOUS
    <3> HIDE DEF B
    <3>2. QED
      BY <1>3, <3>1, SmallestNumber
  <2>2. m # 0
    <3>1. f[0] = <<>>
      BY <1>1 DEF Gathered
    <3> DEFINE o == [k \in {} |-> 0]
    <3>2. 1 .. Len(<<>>) = {} /\ 1 .. 0 = {} /\ o \in [{} -> {}] /\ <<>> \in Seq({ConsRow(file, k) : k \in Nat})
      OBVIOUS
    <3> HIDE DEF o
    <3>3. Gathers(file, <<>>, 0)
      BY <3>2 DEF Gathers
    <3>4. QED
      BY <3>1, <3>3
  <2>3. m - 1 \in Nat /\ m \in Nat /\ m - 1 < m /\ (m - 1) + 1 = m /\ m \in 0 .. n /\ m - 1 \in 0 .. n
    BY <2>2
  <2>4. Gathers(file, f[m - 1], m - 1)
    <3>1. m - 1 \notin B
      BY <2>1, <2>3, Zenon DEF OpToRel
    <3>2. QED
      BY <2>3, <3>1
  <2>5. f[m] = IF Holding(file, m) THEN Append(f[m - 1], ConsRow(file, m)) ELSE f[m - 1]
    BY <1>1, <2>2, <2>3, Zenon DEF Gathered
  <2>6. Gathers(file, f[m], m)
    BY <2>3, <2>4, <2>5, GathersNext
  <2>7. QED
    BY <2>1, <2>6
<1>4. Gathers(file, f[n], n)
  BY <1>3
<1>5. QED
  BY <1>2, <1>4

\* Every support is in one row of the table, and nodes of the structure only.
LEMMA SupportNodes ==
    ASSUME NEW file, Readable(file),
           \A i \in DOMAIN pConsNode(file) : pConsNode(file)[i].iNode \in Node(StructureOf(file)),
           \A i, k \in DOMAIN pConsNode(file) :
               pConsNode(file)[i].iNode = pConsNode(file)[k].iNode => i = k
    PROVE  LET S == Supports(file)
           IN  /\ Len(S) \in Nat /\ DOMAIN S = 1 .. Len(S)
               /\ \A k \in DOMAIN S : S[k].iNode \in Node(StructureOf(file))
               /\ \A k, m \in DOMAIN S : S[k].iNode = S[m].iNode => k = m
               /\ \A d \in Known(StructureOf(file)) : \E k \in DOMAIN S : S[k].iNode = d[1]
<1> DEFINE S == Supports(file)
           n == file[2]
           C == pConsNode(file)
           s == StructureOf(file)
<1>1. n \in Nat /\ DOMAIN C = 0 .. n - 1 /\ DOMAIN pNode(file) = 0 .. file[1] - 1
  <2>1. 2 \in 1 .. 6
    OBVIOUS
  <2>2. QED
    BY <2>1, ArraysHoldRows DEF Readable
<1>2. Gathers(file, S, n)
  BY <1>1, SupportsAreGathered
<1>3. Len(S) \in Nat /\ DOMAIN S = 1 .. Len(S)
  <2> DEFINE R == {ConsRow(file, k) : k \in Nat}
  <2>1. S \in Seq(R)
    BY <1>2 DEF Gathers
  <2> HIDE DEF S, R
  <2>2. QED
    BY <2>1
<1>4. PICK o \in [1 .. Len(S) -> 1 .. n] :
          /\ \A k \in 1 .. Len(S) : S[k] = ConsRow(file, o[k]) /\ Holding(file, o[k])
          /\ \A k, m \in 1 .. Len(S) : o[k] = o[m] => k = m
          /\ \A r \in 1 .. n : Holding(file, r) => \E k \in 1 .. Len(S) : o[k] = r
  BY <1>2 DEF Gathers
<1> HIDE DEF S, n, C
<1>5. \A k \in 1 .. Len(S) : o[k] - 1 \in DOMAIN C /\ S[k] = C[o[k] - 1] /\ o[k] \in Int
  <2>1. \A k \in 1 .. Len(S) : o[k] \in Int /\ 1 <= o[k] /\ o[k] <= n
    BY <1>1, <1>4
  <2>2. \A k \in 1 .. Len(S) : S[k] = C[o[k] - 1]
    BY <1>4 DEF ConsRow, C
  <2>3. QED
    BY <1>1, <2>1, <2>2
<1>6. \A k \in 1 .. Len(S) : S[k].iNode \in Node(s)
  <2>1. \A i \in DOMAIN C : C[i].iNode \in Node(s)
    BY DEF C
  <2>2. QED
    BY <1>5, <2>1, Zenon
<1>7. ASSUME NEW k \in 1 .. Len(S), NEW m \in 1 .. Len(S), S[k].iNode = S[m].iNode PROVE k = m
  <2>1. \A i, j \in DOMAIN C : C[i].iNode = C[j].iNode => i = j
    BY DEF C
  <2>2. o[k] - 1 = o[m] - 1
    <3>1. PICK i \in DOMAIN C, j \in DOMAIN C : i = o[k] - 1 /\ j = o[m] - 1
      BY <1>5
    <3>2. S[k] = C[i] /\ S[m] = C[j]
      BY <1>5, <3>1
    <3>3. C[i].iNode = C[j].iNode
      BY <1>7, <3>2
    <3>4. i = j
      BY <2>1, <3>3
    <3>5. QED
      BY <3>1, <3>4
  <2>3. o[k] = o[m]
    BY <1>5, <2>2
  <2>4. QED
    BY <1>4, <2>3
<1>8. ASSUME NEW d \in Known(s) PROVE \E k \in 1 .. Len(S) : S[k].iNode = d[1]
  <2>1. PICK node \in Node(s), j \in 0 .. 2 : d = <<node, j>>
    BY <1>8 DEF Known, DOFs
  <2>2. node \in DOMAIN pNode(file)
    BY <1>1 DEF s, Node, StructureOf
  <2> DEFINE rows == {i \in DOMAIN C : C[i].iNode = node}
             i == Max(rows)
  <2>3. Code(s, d) = IF rows = {} THEN 0 ELSE C[i].iaConstrainedDOF[j + 1]
    BY <2>1, <2>2 DEF Code, s, StructureOf, CodeOf, C
  <2>4. Code(s, d) = -1
    BY <1>8 DEF Known
  <2>5. rows # {} /\ C[i].iaConstrainedDOF[j + 1] = -1
    BY <2>3, <2>4
  <2>6. i \in rows
    <3>1. rows \in SUBSET Int /\ n \in Int /\ \A x \in rows : x <= n
      BY <1>1
    <3> HIDE DEF rows
    <3>2. QED
      BY <2>5, <3>1, MaxIsMember
  <2> HIDE DEF i
  <2>7. i + 1 \in 1 .. n /\ (i + 1) - 1 = i /\ C[i].iNode = node /\ i \in Int
    BY <1>1, <2>6
  <2>8. j + 1 \in DOMAIN C[i].iaConstrainedDOF
    <3>1. C[(i + 1) - 1] = ConsAt(RowAt(file, 2, i + 1))
      BY <2>7, ArraysHoldRows DEF n, C
    <3>2. DOMAIN C[i].iaConstrainedDOF = 1 .. 3
      BY <2>7, <3>1 DEF ConsAt
    <3>3. QED
      BY <3>2
  <2>9. ConsRow(file, i + 1) = C[i]
    BY <2>7 DEF ConsRow, C
  <2>10. Holding(file, i + 1)
    BY <2>5, <2>8, <2>9 DEF Holding, Range
  <2>11. PICK k \in 1 .. Len(S) : o[k] = i + 1
    BY <1>4, <2>7, <2>10
  <2>12. S[k] = C[i]
    BY <1>5, <2>7, <2>11
  <2>13. QED
    BY <2>1, <2>7, <2>12
<1>9. QED
  BY <1>3, <1>6, <1>7, <1>8 DEF S, s

\* The cells of a row: the node, and what the array holds for its degrees of freedom.
LEMMA RowHasCells ==
    ASSUME NEW n \in Node(structure), structure.type[n] \in {"truss", "frame"}, NEW array
    PROVE  /\ NodeRow(n, array)[1] = n
           /\ \A j \in 0 .. 2 :
                  /\ j + 2 \in DOMAIN NodeRow(n, array) <=> <<n, j>> \in DOFs(structure)
                  /\ <<n, j>> \in DOFs(structure) => NodeRow(n, array)[j + 2] = array[iaDOFIndex[<<n, j>>]]
<1> DEFINE k == IF structure.type[n] = "truss" THEN 2 ELSE 3
           cells == [i \in 1 .. k |-> array[iaDOFIndex[<<n, i - 1>>]]]
           R == {array[iaDOFIndex[<<n, i - 1>>]] : i \in 1 .. k}
<1>1. NodeRow(n, array) = <<n>> \o cells
  BY DEF NodeRow
<1>2. k \in Nat /\ k \in 2 .. 3
  OBVIOUS
<1>3. \A j \in 0 .. 2 : <<n, j>> \in DOFs(structure) <=> (structure.type[n] = "frame" \/ j # 2)
  BY DEF DOFs
<1>4. \A j \in 0 .. 2 : <<n, j>> \in DOFs(structure) <=> j + 1 \in 1 .. k
  BY <1>3
<1>5. \A j \in 0 .. 2 : j + 1 \in 1 .. k => cells[j + 1] = array[iaDOFIndex[<<n, j>>]]
  <2> TAKE j \in 0 .. 2
  <2>1. (j + 1) - 1 = j
    OBVIOUS
  <2> HIDE DEF k
  <2>2. QED
    BY <2>1
<1> HIDE DEF k
<1>6. cells \in Seq(R) /\ Len(cells) = k
  <2>1. cells \in [1 .. k -> R] /\ DOMAIN cells = 1 .. k
    BY Zenon
  <2> HIDE DEF cells, R
  <2>2. QED
    BY <1>2, <2>1
<1> HIDE DEF cells, R
<1>7. /\ (<<n>> \o cells)[1] = n /\ DOMAIN (<<n>> \o cells) = 1 .. k + 1
      /\ \A j \in 1 .. k : (<<n>> \o cells)[j + 1] = cells[j]
  BY <1>2, <1>6
<1>8. ASSUME NEW j \in 0 .. 2
      PROVE  /\ j + 2 \in DOMAIN (<<n>> \o cells) <=> <<n, j>> \in DOFs(structure)
             /\ <<n, j>> \in DOFs(structure) => (<<n>> \o cells)[j + 2] = array[iaDOFIndex[<<n, j>>]]
  <2>1. j + 2 \in 1 .. k + 1 <=> j + 1 \in 1 .. k
    BY <1>2
  <2>2. j + 2 \in DOMAIN (<<n>> \o cells) <=> <<n, j>> \in DOFs(structure)
    BY <1>4, <1>7, <2>1
  <2>3. (j + 1) + 1 = j + 2
    OBVIOUS
  <2>4. j + 1 \in 1 .. k => (<<n>> \o cells)[j + 2] = cells[j + 1]
    BY <1>7, <2>3
  <2>5. QED
    BY <1>4, <1>5, <2>2, <2>4
<1>9. QED
  BY <1>1, <1>7, <1>8

\* One member can be taken out of a sum, whether it is in it or not.
LEMMA SumWithout ==
    ASSUME NEW f, NEW S, IsFiniteSet(S), \A x \in S : f[x] \in Int
    PROVE  \A x : SumOver(f, S) = (IF x \in S THEN f[x] ELSE 0) + SumOver(f, S \ {x})
<1> TAKE x
<1>1. CASE x \in S
  BY <1>1, SumOverMember
<1>2. CASE x \notin S
  <2>1. S \ {x} = S
    BY <1>2
  <2>2. SumOver(f, S) \in Int
    BY SumOverType
  <2>3. QED
    BY <1>2, <2>1, <2>2
<1>3. QED
  BY <1>1, <1>2

\* A sum over degrees of freedom of one node.
LEMMA SumAtNode ==
    ASSUME NEW n, NEW K \in SUBSET {<<n, 0>>, <<n, 1>>, <<n, 2>>}, NEW g, \A d \in K : g[d] \in Int
    PROVE  SumOver(g, K) = (IF <<n, 0>> \in K THEN g[<<n, 0>>] ELSE 0)
                               + (IF <<n, 1>> \in K THEN g[<<n, 1>>] ELSE 0)
                               + (IF <<n, 2>> \in K THEN g[<<n, 2>>] ELSE 0)
<1> DEFINE x == <<n, 0>>
           y == <<n, 1>>
           z == <<n, 2>>
           K1 == K \ {x}
           K2 == K1 \ {y}
           term(d) == IF d \in K THEN g[d] ELSE 0
<1>1. x # y /\ x # z /\ y # z
  OBVIOUS
<1>2. IsFiniteSet(K) /\ IsFiniteSet(K1) /\ IsFiniteSet(K2)
  <2>1. IsFiniteSet({x, y, z})
    <3>2. {x, y, z} = ({x} \cup {y}) \cup {z}
      OBVIOUS
    <3> HIDE DEF x, y, z
    <3>3. IsFiniteSet({x}) /\ IsFiniteSet({y}) /\ IsFiniteSet({z})
      BY FS_Singleton
    <3>4. IsFiniteSet({x} \cup {y})
      BY <3>3, FS_Union, Zenon
    <3>5. IsFiniteSet(({x} \cup {y}) \cup {z})
      BY <3>3, <3>4, FS_Union, Zenon
    <3>6. QED
      BY <3>2, <3>5, Zenon
  <2>2. K \in SUBSET {x, y, z} /\ K1 \in SUBSET {x, y, z} /\ K2 \in SUBSET {x, y, z}
    OBVIOUS
  <2> HIDE DEF K1, K2, x, y, z
  <2>3. QED
    BY <2>1, <2>2, FS_Subset
<1>3. K2 \ {z} = {}
  OBVIOUS
<1>4. y \in K1 <=> y \in K
  BY <1>1
<1>5. z \in K2 <=> z \in K
  BY <1>1
<1>6. (\A d \in K1 : g[d] \in Int) /\ (\A d \in K2 : g[d] \in Int)
  OBVIOUS
<1>7. term(x) \in Int /\ term(y) \in Int /\ term(z) \in Int
  OBVIOUS
<1> HIDE DEF x, y, z
<1>8. SumOver(g, K) = term(x) + SumOver(g, K1)
  <2>1. \A d : SumOver(g, K) = (IF d \in K THEN g[d] ELSE 0) + SumOver(g, K \ {d})
    BY <1>2, SumWithout
  <2>2. SumOver(g, K) = (IF x \in K THEN g[x] ELSE 0) + SumOver(g, K1)
    BY <2>1, Zenon DEF K1
  <2>3. QED
    BY <2>2, Zenon DEF term
<1> HIDE DEF K1
<1>9. SumOver(g, K1) = term(y) + SumOver(g, K2)
  <2>1. \A d : SumOver(g, K1) = (IF d \in K1 THEN g[d] ELSE 0) + SumOver(g, K1 \ {d})
    BY <1>2, <1>6, SumWithout
  <2>2. SumOver(g, K1) = (IF y \in K1 THEN g[y] ELSE 0) + SumOver(g, K2)
    BY <2>1, Zenon DEF K2
  <2>3. QED
    BY <1>4, <2>2
<1> HIDE DEF K2
<1>10. SumOver(g, K2) = term(z) + SumOver(g, {})
  <2>1. SumOver(g, K2) = (IF z \in K2 THEN g[z] ELSE 0) + SumOver(g, K2 \ {z})
    BY <1>2, <1>6, SumWithout
  <2>2. QED
    BY <1>3, <1>5, <2>1
<1>11. SumOver(g, {}) = 0
  BY SumOverNothing, Zenon
<1> HIDE DEF term
<1>12. SumOver(g, K) = term(x) + term(y) + term(z)
  BY <1>7, <1>8, <1>9, <1>10, <1>11
<1>13. QED
  BY <1>12, Zenon DEF term, x, y, z

\* What the reaction in direction d of a support does to the structure.
Pull(j) == [d \in Known(structure) |-> Swing(j, d) * pLoadVect[iaDOFIndex[d]]]

\* A row of the table does what the reactions of its node do together.
LEMMA RowIsWork ==
    ASSUME LegalInput, NEW n \in Node(structure), structure.type[n] \in {"truss", "frame"}, NEW j \in 0 .. 2,
           \A d \in Known(structure) : pLoadVect[iaDOFIndex[d]] \in Int
    PROVE  LET row == NodeRow(n, pLoadVect)
               cell(m) == IF m + 2 \in DOMAIN row /\ Code(structure, <<row[1], m>>) = -1
                          THEN row[m + 2] ELSE 0
           IN  /\ Action(j, row[1], cell(0), cell(1), cell(2)) \in Int
               /\ Action(j, row[1], cell(0), cell(1), cell(2))
                      = SumOver(Pull(j), {d \in Known(structure) : d[1] = n})
<1> DEFINE row == NodeRow(n, pLoadVect)
           cell(m) == IF m + 2 \in DOMAIN row /\ Code(structure, <<row[1], m>>) = -1
                      THEN row[m + 2] ELSE 0
           K == {d \in Known(structure) : d[1] = n}
           g == Pull(j)
           term(d) == IF d \in K THEN g[d] ELSE 0
<1>1. row[1] = n
  BY RowHasCells
<1>2. \A m \in 0 .. 2 : <<n, m>> \in K <=> (<<n, m>> \in DOFs(structure) /\ Code(structure, <<n, m>>) = -1)
  BY DEF Known
<1>3. \A m \in 0 .. 2 : cell(m) = IF <<n, m>> \in K THEN pLoadVect[iaDOFIndex[<<n, m>>]] ELSE 0
  <2> TAKE m \in 0 .. 2
  <2>1. /\ m + 2 \in DOMAIN row <=> <<n, m>> \in DOFs(structure)
        /\ <<n, m>> \in DOFs(structure) => row[m + 2] = pLoadVect[iaDOFIndex[<<n, m>>]]
    BY RowHasCells
  <2> HIDE DEF row, K
  <2>2. QED
    BY <1>1, <1>2, <2>1
<1>4. \A m \in 0 .. 2 : Swing(j, <<n, m>>) \in Int
  BY ActionIsWork
<1>5. \A d \in K : d \in Known(structure) /\ g[d] = Swing(j, d) * pLoadVect[iaDOFIndex[d]]
  BY DEF Pull
<1>6. \A m \in 0 .. 2 : cell(m) \in Int /\ Swing(j, <<n, m>>) * cell(m) = term(<<n, m>>)
  <2> TAKE m \in 0 .. 2
  <2> HIDE DEF cell, g
  <2>1. CASE <<n, m>> \in K
    <3>1. cell(m) = pLoadVect[iaDOFIndex[<<n, m>>]] /\ cell(m) \in Int
      BY <1>3, <1>5, <2>1
    <3>2. term(<<n, m>>) = Swing(j, <<n, m>>) * pLoadVect[iaDOFIndex[<<n, m>>]]
      <4> HIDE DEF K
      <4>1. QED
        BY <1>5, <2>1
    <3>3. QED
      BY <3>1, <3>2
  <2>2. CASE <<n, m>> \notin K
    <3>1. cell(m) = 0 /\ term(<<n, m>>) = 0
      BY <1>3, <2>2
    <3>2. \A x \in Int : x * 0 = 0
      OBVIOUS
    <3>3. QED
      BY <1>4, <3>1, <3>2
  <2>3. QED
    BY <2>1, <2>2
<1>7. K \in SUBSET {<<n, 0>>, <<n, 1>>, <<n, 2>>}
  BY DEF Known, DOFs
<1>8. \A d \in K : g[d] \in Int
  <2>1. \A d \in K : g[d] = Swing(j, d) * pLoadVect[iaDOFIndex[d]] /\ pLoadVect[iaDOFIndex[d]] \in Int /\ Swing(j, d) \in Int
    <3>1. \A d \in Known(structure) : d \in DOFs(structure)
      BY DEF Known
    <3>2. QED
      BY <1>5, <3>1, SwingType
  <2> HIDE DEF g, K
  <2>2. \A x, y \in Int : x * y \in Int
    OBVIOUS
  <2>3. QED
    BY <2>1, <2>2
<1> HIDE DEF cell, K, g
<1>9. SumOver(g, K) = term(<<n, 0>>) + term(<<n, 1>>) + term(<<n, 2>>)
  BY <1>7, <1>8, SumAtNode
<1> HIDE DEF term
<1>10. PICK X \in Int, Y \in Int, M \in Int : X = cell(0) /\ Y = cell(1) /\ M = cell(2)
  BY <1>6
<1>11. /\ Action(j, n, X, Y, M) \in Int
       /\ Action(j, n, X, Y, M) = Swing(j, <<n, 0>>) * X + Swing(j, <<n, 1>>) * Y + Swing(j, <<n, 2>>) * M
  <2>1. \A A, B, C \in Int :
            /\ Action(j, n, A, B, C) \in Int
            /\ Action(j, n, A, B, C) = Swing(j, <<n, 0>>) * A + Swing(j, <<n, 1>>) * B + Swing(j, <<n, 2>>) * C
    BY ActionIsWork
  <2>2. QED
    BY <2>1, Zenon
<1>12. /\ Swing(j, <<n, 0>>) * cell(0) = term(<<n, 0>>) /\ Swing(j, <<n, 1>>) * cell(1) = term(<<n, 1>>)
       /\ Swing(j, <<n, 2>>) * cell(2) = term(<<n, 2>>)
  <2>1. 0 \in 0 .. 2 /\ 1 \in 0 .. 2 /\ 2 \in 0 .. 2
    OBVIOUS
  <2>2. QED
    BY <1>6, <2>1, Zenon
<1>13. /\ Action(j, row[1], cell(0), cell(1), cell(2)) \in Int
       /\ Action(j, row[1], cell(0), cell(1), cell(2)) = SumOver(g, K)
  BY <1>1, <1>9, <1>10, <1>11, <1>12, Zenon
<1>14. QED
  BY <1>13, Zenon DEF cell, K, g

\* So the table does what the reactions of all supports do together.
LEMMA TableIsWork ==
    ASSUME LegalInput, Readable(fin0), structure = StructureOf(fin0), printed[4] = ReactionTable,
           \A i \in DOMAIN pConsNode(fin0) : pConsNode(fin0)[i].iNode \in Node(structure),
           OneRowPerNode, NEW j \in 0 .. 2,
           \A d \in Known(structure) : pLoadVect[iaDOFIndex[d]] \in Int
    PROVE  /\ \A d \in Known(structure) : Pull(j)[d] \in Int
           /\ SumOver(Pull(j), Known(structure)) \in Int /\ Held(j) \in Int
           /\ Same(P, Held(j), SumOver(Pull(j), Known(structure)))
<1> DEFINE K == Known(structure)
           g == Pull(j)
           S == Supports(fin0)
           D == DOMAIN S
           n(k) == S[k].iNode
           m == [d \in K |-> CHOOSE k \in D : n(k) = d[1]]
           h == [i \in DOMAIN printed[4] |->
                    LET row  == printed[4][i]
                        cell(q) == IF q + 2 \in DOMAIN row /\ Code(structure, <<row[1], q>>) = -1
                                   THEN row[q + 2] ELSE 0
                    IN  Action(j, row[1], cell(0), cell(1), cell(2))]
<1>1. /\ Len(S) \in Nat /\ D = 1 .. Len(S)
      /\ \A k \in D : n(k) \in Node(structure)
      /\ \A k, l \in D : n(k) = n(l) => k = l
      /\ \A d \in K : \E k \in D : n(k) = d[1]
  <2>1. /\ \A i \in DOMAIN pConsNode(fin0) : pConsNode(fin0)[i].iNode \in Node(StructureOf(fin0))
        /\ \A i, k \in DOMAIN pConsNode(fin0) :
               pConsNode(fin0)[i].iNode = pConsNode(fin0)[k].iNode => i = k
    BY Zenon DEF OneRowPerNode
  <2>2. QED
    BY <2>1, SupportNodes
<1>2. \A q \in Node(structure) : structure.type[q] \in {"truss", "frame"}
  <2>1. DOMAIN pNode(fin0) = Node(structure)
    BY ArraysHoldRows DEF StructureOf, Node
  <2>2. QED
    BY <2>1 DEF StructureOf, Kind
<1>3. DOMAIN printed[4] = D /\ \A k \in D : printed[4][k] = NodeRow(n(k), pLoadVect)
  BY DEF ReactionTable
<1>4. \A k \in D : h[k] \in Int /\ h[k] = SumOver(g, {d \in K : d[1] = n(k)})
  <2> TAKE k \in D
  <2> DEFINE row == NodeRow(n(k), pLoadVect)
             cell(q) == IF q + 2 \in DOMAIN row /\ Code(structure, <<row[1], q>>) = -1
                        THEN row[q + 2] ELSE 0
  <2>1. h[k] = Action(j, row[1], cell(0), cell(1), cell(2))
    BY <1>3
  <2>2. /\ Action(j, row[1], cell(0), cell(1), cell(2)) \in Int
        /\ Action(j, row[1], cell(0), cell(1), cell(2)) = SumOver(g, {d \in K : d[1] = n(k)})
    <3>1. n(k) \in Node(structure) /\ structure.type[n(k)] \in {"truss", "frame"}
      BY <1>1, <1>2
    <3> HIDE DEF S
    <3>2. QED
      BY <3>1, RowIsWork
  <2> HIDE DEF h, row
  <2>3. QED
    BY <2>1, <2>2, Zenon
<1>5. Held(j) = Total(h) /\ DOMAIN h = D
  BY <1>3 DEF Held
<1>6. IsFiniteSet(K) /\ IsFiniteSet(D) /\ P \in Nat \ {0}
  <2>1. IsFiniteSet(K)
    <3>1. Legal(structure)
      BY DEF LegalInput
    <3>2. IsFiniteSet(DOFs(structure)) /\ K \subseteq DOFs(structure)
      BY <3>1, LegalStructure
    <3>3. QED
      BY <3>2, FS_Subset
  <2>2. IsFiniteSet(D)
    <3> HIDE DEF S, D
    <3>1. QED
      BY <1>1, FS_Interval
  <2>3. QED
    BY <2>1, <2>2, PrimeType
<1>7. \A d \in K : g[d] \in Int
  <2>1. \A d \in K : g[d] = Swing(j, d) * pLoadVect[iaDOFIndex[d]] /\ pLoadVect[iaDOFIndex[d]] \in Int /\ Swing(j, d) \in Int
    <3>1. \A d \in K : d \in DOFs(structure)
      BY DEF Known
    <3>2. QED
      BY <3>1, SwingType DEF Pull
  <2> HIDE DEF g, K
  <2>2. \A x, y \in Int : x * y \in Int
    OBVIOUS
  <2>3. QED
    BY <2>1, <2>2
<1>8. m \in [K -> D] /\ \A k \in D : \A d \in K : m[d] = k <=> d[1] = n(k)
  <2>1. \A d \in K : m[d] \in D /\ n(m[d]) = d[1]
    <3> HIDE DEF K, D, n
    <3>1. \A d \in K : \E k \in D : n(k) = d[1]
      BY <1>1 DEF n, D
    <3>2. QED
      BY <3>1
  <2>2. m \in [K -> D]
    <3>1. m = [d \in K |-> m[d]]
      OBVIOUS
    <3> HIDE DEF m, K, D
    <3>2. QED
      BY <2>1, <3>1
  <2>3. \A k, l \in D : n(k) = n(l) => k = l
    BY <1>1
  <2> HIDE DEF m, K, D, n
  <2>4. ASSUME NEW k \in D, NEW d \in K PROVE m[d] = k <=> d[1] = n(k)
    BY <2>1, <2>3
  <2>5. QED
    BY <2>2, <2>4
<1> DEFINE u == [k \in D |-> SumOver(g, {d \in K : m[d] = k})]
<1>9. \A k \in D : h[k] = u[k]
  <2> TAKE k \in D
  <2>1. {d \in K : m[d] = k} = {d \in K : d[1] = n(k)}
    <3> HIDE DEF m, K, D, n
    <3>1. QED
      BY <1>8
  <2>2. u[k] = SumOver(g, {d \in K : m[d] = k})
    OBVIOUS
  <2> HIDE DEF u, h, m, K, g, n, D
  <2>3. QED
    BY <1>4, <2>1, <2>2, Zenon
<1> HIDE DEF D, K, g, h, m, S, n
<1>10. SumOver(g, K) = SumOver(u, D)
  BY <1>6, <1>7, <1>8, SumByImage
<1> HIDE DEF u
<1>11. SumOver(h, D) = SumOver(u, D)
  BY <1>6, <1>9, SumOverSame
<1>12. Total(h) \in Int /\ SumOver(h, D) \in Int /\ Same(P, Total(h), SumOver(h, D))
  <2>1. \A k \in D : h[k] \in Int
    BY <1>4
  <2>2. QED
    BY <1>5, <1>6, <2>1, TotalType
<1>13. Held(j) \in Int /\ SumOver(g, K) \in Int /\ Same(P, Held(j), SumOver(g, K))
  BY <1>5, <1>10, <1>11, <1>12, Zenon
<1>14. QED
  BY <1>7, <1>13 DEF g, K

\* The reaction at the number i, if it is that of a support.
Reaction(i) == IF i < nFreeDOF THEN 0 ELSE pLoadVect[i]

\* The same, number by number.
LEMMA ReactionWork ==
    ASSUME LegalInput, Counted, CoupledTogether, NEW j \in 0 .. 2,
           \A i \in nFreeDOF .. nTotalDOF - 1 : pLoadVect[i] \in Int,
           nFreeDOF \in Nat, nTotalDOF \in Nat
    PROVE  LET N == 0 .. nTotalDOF - 1
               work == [i \in N |-> SwingOf(j)[i] * Reaction(i)]
           IN  /\ \A d \in Known(structure) : pLoadVect[iaDOFIndex[d]] \in Int /\ Pull(j)[d] \in Int
               /\ \A i \in N : Reaction(i) \in Int /\ work[i] \in Int
               /\ SumOver(Pull(j), Known(structure)) = SumOver(work, N)
<1> DEFINE N == 0 .. nTotalDOF - 1
           K == Known(structure)
           I == Independent(structure)
           g == Pull(j)
           c == SwingOf(j)
           m == [d \in K |-> iaDOFIndex[d]]
           work == [i \in N |-> c[i] * Reaction(i)]
           u == [i \in N |-> SumOver(g, {d \in K : m[d] = i})]
<1>1. /\ Legal(structure) /\ nTotalDOF = nTotalDOFs(structure) /\ nFreeDOF = nFreeDOFs(structure)
      /\ \A d : iaDOFIndex[d] = DOFIndexes(structure)[d]
  BY DEF LegalInput, Counted
<1>2. \A d \in I : iaDOFIndex[d] = IndependentNumber(structure, d)
  BY <1>1, DOFNumbers
<1>3. /\ \A d \in I : iaDOFIndex[d] \in N /\ (iaDOFIndex[d] < nFreeDOF <=> d \in Free(structure))
      /\ \A d, e \in I : iaDOFIndex[d] = iaDOFIndex[e] => d = e
      /\ \A i \in N : \E d \in I : iaDOFIndex[d] = i
  BY <1>1, <1>2, IndependentNumbers
<1>4. /\ IsFiniteSet(K) /\ IsFiniteSet(N) /\ K \subseteq DOFs(structure) /\ Free(structure) \cap K = {}
      /\ I = Free(structure) \cup K
  <2>1. IsFiniteSet(DOFs(structure)) /\ K \subseteq DOFs(structure) /\ Free(structure) \cap K = {}
    BY <1>1, LegalStructure
  <2>2. IsFiniteSet(K)
    BY <2>1, FS_Subset
  <2>3. nTotalDOF - 1 \in Int
    OBVIOUS
  <2>4. IsFiniteSet(N)
    BY <2>3, FS_Interval
  <2>5. QED
    BY <2>1, <2>2, <2>4 DEF Independent
<1>5. \A d \in K : iaDOFIndex[d] \in N /\ ~ (iaDOFIndex[d] < nFreeDOF)
  BY <1>3, <1>4
<1>6. \A i \in N : ~ (i < nFreeDOF) => pLoadVect[i] \in Int
  OBVIOUS
<1>7. \A d \in K : pLoadVect[iaDOFIndex[d]] \in Int
  BY <1>5, <1>6
<1>8. \A d \in K : Swing(j, d) \in Int /\ g[d] = Swing(j, d) * pLoadVect[iaDOFIndex[d]] /\ c[iaDOFIndex[d]] = Swing(j, d)
  <2>1. \A d \in K : d \in DOFs(structure)
    BY <1>4
  <2>2. QED
    BY <2>1, SwingType, SwingOfNumber DEF Pull
<1>9. \A x, y \in Int : x * y \in Int /\ x * 0 = 0
  OBVIOUS
<1>10. \A d \in K : g[d] \in Int
  <2> HIDE DEF g, K, c
  <2>1. QED
    BY <1>7, <1>8, <1>9
<1>11. \A i \in N : c[i] \in Int /\ Reaction(i) \in Int /\ work[i] = c[i] * Reaction(i)
  <2>1. \A i \in N : c[i] \in Int
    BY SwingOfNumber
  <2>2. QED
    BY <1>6, <2>1 DEF Reaction
<1>12. \A i \in N : work[i] \in Int
  <2> HIDE DEF work, c, N
  <2>1. QED
    BY <1>9, <1>11
<1>13. m \in [K -> N] /\ \A d \in K : m[d] = iaDOFIndex[d]
  BY <1>5
<1>14. ASSUME NEW i \in N PROVE u[i] = work[i]
  <2> DEFINE F == {d \in K : m[d] = i}
  <2>1. u[i] = SumOver(g, F)
    OBVIOUS
  <2> HIDE DEF u, g, m, K, c, work, N
  <2>2. CASE i < nFreeDOF
    <3>1. F = {}
      BY <1>5, <1>13, <2>2
    <3>2. u[i] = 0
      BY <2>1, <3>1, SumOverNothing, Zenon
    <3>3. work[i] = 0
      BY <1>9, <1>11, <2>2 DEF Reaction
    <3>4. QED
      BY <3>2, <3>3
  <2>3. CASE ~ (i < nFreeDOF)
    <3>1. PICK d \in I : iaDOFIndex[d] = i
      BY <1>3
    <3>2. d \in K
      BY <1>3, <1>4, <2>3, <3>1
    <3>3. F = {d}
      <4>1. \A e \in K : e \in I
        BY <1>4
      <4>2. QED
        BY <1>3, <1>13, <3>1, <3>2, <4>1
    <3>4. SumOver(g, {d}) = g[d]
      <4>1. IsFiniteSet({d}) /\ (\A x \in {d} : g[x] \in Int) /\ d \in {d} /\ {d} \ {d} = {}
        BY <1>10, <3>2, FS_Singleton
      <4>2. SumOver(g, {d}) = g[d] + SumOver(g, {d} \ {d})
        BY <4>1, SumOverMember
      <4>3. SumOver(g, {d} \ {d}) = 0
        BY <4>1, SumOverNothing, Zenon
      <4>4. QED
        BY <4>1, <4>2, <4>3
    <3>5. g[d] = c[i] * pLoadVect[i]
      BY <1>8, <3>1, <3>2
    <3>6. work[i] = c[i] * pLoadVect[i]
      BY <1>11, <2>3 DEF Reaction
    <3>7. QED
      BY <2>1, <3>3, <3>4, <3>5, <3>6
  <2>4. QED
    BY <2>2, <2>3
<1> HIDE DEF N, K, g, c, m, work
<1>15. SumOver(g, K) = SumOver(u, N)
  BY <1>4, <1>10, <1>13, SumByImage
<1> HIDE DEF u
<1>16. SumOver(u, N) = SumOver(work, N)
  BY <1>4, <1>14, SumOverSame
<1>17. SumOver(g, K) = SumOver(work, N)
  BY <1>15, <1>16
<1>18. QED
  BY <1>7, <1>10, <1>11, <1>12, <1>17 DEF g, K, N, c, work

\* In every row the reaction and the loads are what the stiffness makes of the
\* displacements.
LEMMA RowsAreAnswered ==
    ASSUME IInv, pc = "Output", solved, Equilibrium, SupportRows
    PROVE  \A i \in 0 .. nTotalDOF - 1 :
               /\ Reaction(i) \in Int /\ SumOver(Given(i), DOMAIN loads) \in Int /\ RowAnswer(i) \in Int
               /\ Same(P, Reaction(i) + SumOver(Given(i), DOMAIN loads), RowAnswer(i))
<1> DEFINE N == 0 .. nTotalDOF - 1
<1>0. P \in Nat \ {0}
  BY PrimeType
<1>1. /\ LegalInput /\ Connected /\ Profiled /\ Solvable
      /\ nFreeDOF \in Nat \ {0} /\ nTotalDOF \in Nat /\ nFreeDOF <= nTotalDOF
  BY LayoutKnown
<1>2. /\ pDisp \in [N -> Num]
      /\ \A i \in nFreeDOF .. nTotalDOF - 1 :
             pLoadVect[i] = (Total([j \in N |-> Stiffness(i, j) * pDisp[j]])
                                 - ((NodalForce(i) + MemberForce(i)) % P)) % P
  BY DEF SupportRows
<1>3. \A i \in 0 .. nFreeDOF - 1 :
          Total([j \in N |-> Stiffness(i, j) * pDisp[j]]) = (NodalForce(i) + MemberForce(i)) % P
  <2>1. Reached("InternalForceCalcu")
    BY ReachedNames
  <2>2. \A i \in N : ~ (i >= nFreeDOF) =>
            Total([j \in N |-> Stiffness(i, j) * pDisp[j]]) = (NodalForce(i) + MemberForce(i)) % P
    BY <2>1, Zenon DEF Equilibrium
  <2>3. \A i \in 0 .. nFreeDOF - 1 : i \in N /\ ~ (i >= nFreeDOF)
    BY <1>1
  <2> HIDE DEF N
  <2>4. QED
    BY <2>2, <2>3, Zenon
<1> SUFFICES ASSUME NEW i \in N
             PROVE  /\ Reaction(i) \in Int /\ SumOver(Given(i), DOMAIN loads) \in Int /\ RowAnswer(i) \in Int
                    /\ Same(P, Reaction(i) + SumOver(Given(i), DOMAIN loads), RowAnswer(i))
  OBVIOUS
<1> DEFINE s == [j \in N |-> Stiffness(i, j) * pDisp[j]]
           forces == NodalForce(i) + MemberForce(i)
           sum == SumOver(Given(i), DOMAIN loads)
<1>4. IsFiniteSet(N)
  <2>1. nTotalDOF - 1 \in Int
    BY <1>1
  <2>2. QED
    BY <2>1, FS_Interval
<1>5. \A j \in N : s[j] \in Int
  <2>1. pDisp \in Displacements
    BY <1>2 DEF Displacements
  <2>2. QED
    BY <1>1, <2>1, ElementsMakeStiffness
<1>6. DOMAIN s = N /\ RowAnswer(i) = SumOver(s, N)
  BY DEF RowAnswer
<1>7. Total(s) \in Int /\ SumOver(s, N) \in Int /\ Same(P, Total(s), SumOver(s, N))
  <2> HIDE DEF s, N
  <2>1. QED
    BY <1>4, <1>5, <1>6, TotalType
<1>8. forces \in Int /\ sum \in Int /\ Same(P, sum, forces)
  <2>1. NodalForce(i) \in Int /\ MemberForce(i) \in Int /\ Same(P, sum, forces) /\ sum \in Int
    BY <1>1, GivenIsForces
  <2>2. QED
    BY <2>1
<1>9. IF i < nFreeDOF THEN Total(s) = forces % P /\ Reaction(i) = 0
      ELSE Reaction(i) = (Total(s) - (forces % P)) % P
  <2>1. CASE i < nFreeDOF
    <3>1. i \in 0 .. nFreeDOF - 1
      BY <1>1, <2>1
    <3>2. Total(s) = forces % P
      BY <1>3, <3>1
    <3>3. QED
      BY <2>1, <3>2 DEF Reaction
  <2>2. CASE ~ (i < nFreeDOF)
    <3>1. i \in nFreeDOF .. nTotalDOF - 1
      BY <1>1, <2>2
    <3>2. pLoadVect[i] = (Total(s) - (forces % P)) % P
      BY <1>2, <3>1
    <3>3. QED
      BY <2>2, <3>2 DEF Reaction
  <2>3. QED
    BY <2>1, <2>2
<1> HIDE DEF s, N, forces, sum
<1>10. forces % P \in Int /\ Same(P, forces % P, forces) /\ Same(P, sum, forces % P)
  <2>1. forces % P \in Int /\ Same(P, forces % P, forces)
    BY <1>0, <1>8, SameIsEquivalence, Zenon
  <2>2. Same(P, forces, forces % P)
    BY <1>0, <1>8, <2>1, SameIsEquivalence, Zenon
  <2>3. QED
    BY <1>0, <1>8, <2>1, <2>2, SameIsEquivalence, Zenon
<1>11. Reaction(i) \in Int /\ Same(P, Reaction(i) + sum, Total(s))
  <2>1. PICK t \in Int, f \in Int : t = Total(s) /\ f = forces % P
    BY <1>7, <1>10
  <2>2. CASE i < nFreeDOF
    <3>1. Reaction(i) \in Int /\ Reaction(i) + sum = sum /\ Total(s) = forces % P
      BY <1>8, <1>9, <2>2
    <3>2. QED
      BY <1>10, <3>1, Zenon
  <2>3. CASE ~ (i < nFreeDOF)
    <3>1. Reaction(i) = (t - f) % P
      BY <1>9, <2>1, <2>3
    <3>2. t - f \in Int /\ (t - f) + f = t
      BY <2>1
    <3>3. (t - f) % P \in Int /\ Same(P, (t - f) % P, t - f)
      BY <1>0, <3>2, SameIsEquivalence, Zenon
    <3>4. Reaction(i) \in Int /\ Same(P, Reaction(i), t - f) /\ Same(P, sum, f)
      BY <1>10, <2>1, <3>1, <3>3, Zenon
    <3>5. Same(P, Reaction(i) + sum, (t - f) + f)
      BY <1>0, <1>8, <2>1, <3>2, <3>4, SameAdds, Zenon
    <3>6. QED
      BY <2>1, <3>2, <3>4, <3>5, Zenon
  <2>4. QED
    BY <2>2, <2>3
<1>12. Reaction(i) + sum \in Int
  BY <1>8, <1>11
<1>13. Same(P, Reaction(i) + sum, RowAnswer(i)) /\ RowAnswer(i) \in Int
  BY <1>6, <1>7, <1>11, <1>12, SameChains, Zenon
<1>14. QED
  BY <1>8, <1>11, <1>13 DEF sum

\* So the reactions hold the loads, if the fixed end forces hold the member loads,
\* the nodes that move together are in one place and every node has its reactions
\* in one row.
LEMMA ReactionsHoldLoads ==
    ASSUME FrameIInv, Equilibrium, SupportRows, CoupledTogether, OneRowPerNode, at = "done", solved,
           OnlyHeldTypes, NEW j \in 0 .. 2
    PROVE  (Held(j) + Applied(j)) % P = 0
<1> DEFINE N == 0 .. nTotalDOF - 1
           c == SwingOf(j)
           r == [i \in N |-> c[i] * Reaction(i)]
           a == [i \in N |-> c[i] * SumOver(Given(i), DOMAIN loads)]
           w == [i \in N |-> c[i] * RowAnswer(i)]
           h == [i \in N |-> r[i] + a[i]]
<1>0. P \in Nat \ {0}
  BY PrimeType
<1>1. /\ pc = "Output" /\ IInv /\ structure = StructureOf(fin0) /\ fin0 \in Files
      /\ printed = <<EchoRows(fin0), DisplacementTable, EndForceTable, ReactionTable>>
  BY DEF FrameIInv
<1>2. printed[4] = ReactionTable
  BY <1>1
<1>3. /\ Readable(fin0)
      /\ \A i \in DOMAIN pConsNode(fin0) : pConsNode(fin0)[i].iNode \in Node(structure)
  BY <1>1, FileAssumption DEF Readable
<1>4. /\ LegalInput /\ Connected /\ Profiled /\ Counted
      /\ nFreeDOF \in Nat \ {0} /\ nTotalDOF \in Nat /\ nFreeDOF <= nTotalDOF
  BY <1>1, LayoutKnown DEF Counted
<1>5. pDisp \in Displacements
  BY <1>1 DEF SupportRows, Displacements
<1>6. IsFiniteSet(N)
  <2>1. nTotalDOF - 1 \in Int
    BY <1>4
  <2>2. QED
    BY <2>1, FS_Interval
<1>7. \A i \in N : /\ Reaction(i) \in Int /\ SumOver(Given(i), DOMAIN loads) \in Int /\ RowAnswer(i) \in Int
                   /\ Same(P, Reaction(i) + SumOver(Given(i), DOMAIN loads), RowAnswer(i))
  BY <1>1, RowsAreAnswered
<1>8. /\ Held(j) \in Int /\ SumOver(r, N) \in Int /\ Same(P, Held(j), SumOver(r, N))
      /\ \A i \in N : r[i] \in Int
  <2>1. \A i \in nFreeDOF .. nTotalDOF - 1 : pLoadVect[i] \in Int
    <3>1. \A i \in nFreeDOF .. nTotalDOF - 1 : i \in N /\ ~ (i < nFreeDOF)
      BY <1>4
    <3>2. \A i \in nFreeDOF .. nTotalDOF - 1 : Reaction(i) = pLoadVect[i]
      BY <3>1 DEF Reaction
    <3>3. QED
      BY <1>7, <3>1, <3>2
  <2>2. /\ \A d \in Known(structure) : pLoadVect[iaDOFIndex[d]] \in Int
        /\ \A i \in N : r[i] \in Int
        /\ SumOver(Pull(j), Known(structure)) = SumOver(r, N)
    BY <1>4, <2>1, ReactionWork
  <2>3. /\ SumOver(Pull(j), Known(structure)) \in Int /\ Held(j) \in Int
        /\ Same(P, Held(j), SumOver(Pull(j), Known(structure)))
    BY <1>1, <1>2, <1>3, <1>4, <2>2, TableIsWork
  <2> HIDE DEF r, N
  <2>4. QED
    BY <2>2, <2>3, Zenon
<1>9. /\ \A i \in N : a[i] \in Int
      /\ SumOver(a, N) \in Int /\ Applied(j) \in Int /\ Same(P, Applied(j), SumOver(a, N))
  <2>1. /\ \A i \in N : a[i] \in Int
        /\ SumOver(a, N) \in Int /\ Pushed(j) \in Int /\ Same(P, Pushed(j), SumOver(a, N))
    BY <1>4, PushedIsWork
  <2>2. Applied(j) \in Int /\ Same(P, Applied(j), Pushed(j))
    BY <1>4, AppliedIsPushed
  <2> HIDE DEF a, N
  <2>3. QED
    BY <2>1, <2>2, SameChains, Zenon
<1>10. (\A i \in N : w[i] \in Int) /\ Zero(SumOver(w, N)) /\ SumOver(w, N) \in Int
  BY <1>4, <1>5, RowsAreBalanced
<1>11. \A i \in N : h[i] = r[i] + a[i] /\ h[i] \in Int /\ Same(P, h[i], w[i])
  <2> TAKE i \in N
  <2>1. PICK x \in Int, y \in Int, z \in Int, k \in Int :
            x = Reaction(i) /\ y = SumOver(Given(i), DOMAIN loads) /\ z = RowAnswer(i) /\ k = c[i]
    <3>1. c[i] \in Int
      BY <1>4, SwingOfNumber
    <3>2. QED
      BY <1>7, <3>1
  <2>2. r[i] = k * x /\ a[i] = k * y /\ w[i] = k * z /\ h[i] = r[i] + a[i]
    BY <2>1
  <2>3. Same(P, x + y, z)
    BY <1>7, <2>1, Zenon
  <2>4. x + y \in Int /\ k * (x + y) = k * x + k * y /\ k * x + k * y \in Int
    OBVIOUS
  <2>5. Same(P, k * (x + y), k * z)
    BY <2>3, <2>4, SameScales, Zenon
  <2> HIDE DEF h, r, a, w
  <2>6. QED
    BY <2>2, <2>4, <2>5, Zenon
<1> HIDE DEF h, r, a, w, N, c
<1>12. SumOver(h, N) = SumOver(r, N) + SumOver(a, N)
  BY <1>6, <1>8, <1>9, <1>11, SumAdds
<1>13. SumOver(h, N) \in Int /\ Same(P, SumOver(h, N), SumOver(w, N))
  <2>1. \A i \in N : h[i] \in Int /\ w[i] \in Int /\ Same(P, h[i], w[i])
    BY <1>10, <1>11
  <2>2. QED
    BY <1>0, <1>6, <2>1, SumReduces, SumOverType
<1>14. Zero(SumOver(h, N))
  BY <1>10, <1>13, ZeroIsSame, Zenon
<1>15. Same(P, Held(j) + Applied(j), SumOver(h, N))
  <2>1. Same(P, Held(j) + Applied(j), SumOver(r, N) + SumOver(a, N))
    BY <1>0, <1>8, <1>9, SameAdds, Zenon
  <2>2. QED
    BY <1>12, <2>1, Zenon
<1>16. Held(j) + Applied(j) \in Int
  BY <1>8, <1>9
<1>17. Zero(Held(j) + Applied(j))
  BY <1>13, <1>14, <1>15, <1>16, ZeroIsSame, Zenon
<1>18. QED
  BY <1>16, <1>17, ZeroRules, Zenon

-----------------------------------------------------------------------------
(* The theorems. *)

\* Once the stiffness matrix has been assembled, what GetElementInGK finds in the
\* stored triangle is the stiffness of the structure: the sum over all elements
\* of the force that each answers to a displacement of 1, in every row and
\* column (BandAndDiagCalcu, GKAssembly, GetElementInGK).
THEOREM StiffnessIsAssembled == FrameSpec => []StiffnessAssembled
<1>1. FrameIInv => StiffnessAssembled
  <2>1. SUFFICES ASSUME FrameIInv PROVE StiffnessAssembled
    OBVIOUS
  <2>2. CASE pc = "DOFIndexCalcu"
    BY <2>2 DEF StiffnessAssembled
  <2>3. CASE pc # "DOFIndexCalcu"
    <3>1. IInv
      BY <2>1, <2>3 DEF FrameIInv
    <3>2. QED
      BY <3>1, StiffnessFollows
  <2>4. QED
    BY <2>2, <2>3
<1>2. QED
  BY <1>1, FrameInvariant, PTL

\* If the loads move one support at most, the displacements that LDLTSolve
\* reports as a solution are one (LoadVectorAssembly, LDLTSolve).
THEOREM DisplacementsAreASolution == FrameSpec => [](OneMove => Equilibrium)
<1>1. FrameInit => Loaded /\ (OneMove => Equilibrium)
  <2>1. SUFFICES ASSUME FrameInit PROVE pc = "DOFIndexCalcu"
    BY ReachedNames DEF Loaded, Equilibrium
  <2>2. QED
    BY <2>1 DEF FrameInit
<1>2. /\ FrameIInv /\ Loaded /\ (OneMove => Equilibrium) /\ [FrameNext]_frameVars
      => Loaded' /\ (OneMove => Equilibrium)'
  BY SolvedStep
<1>3. QED
  BY <1>1, <1>2, FrameInvariant, PTL DEF FrameSpec

\* If the loads move one support at most, and no element has two of them, the
\* forces that are printed balance at every node (LoadVectorAssembly, LDLTSolve,
\* InternalForceCalcu, SupportReactionCalcu).
THEOREM NodesAreBalanced == FrameSpec => [](OneMove /\ OneLoadPerElement => NodesBalance)
<1> DEFINE Balanced == /\ Loaded
                       /\ OneMove => Equilibrium
                       /\ OneMove => SupportRows
                       /\ (OneMove /\ OneLoadPerElement) => Carried /\ NodesBalance
<1>1. FrameInit => Balanced
  BY StartIsBalanced
<1>2. FrameIInv /\ Balanced /\ [FrameNext]_frameVars => Balanced'
  BY SolvedStep, BalancedStep
<1>3. Balanced => (OneMove /\ OneLoadPerElement => NodesBalance)
  OBVIOUS
<1> HIDE DEF Balanced
<1>4. QED
  BY <1>1, <1>2, <1>3, FrameInvariant, PTL DEF FrameSpec

\* If the loads move one support at most, coupled nodes are in one place and no
\* node has two rows of constraints, the reactions that are printed hold the
\* structure as a whole under the loads of the input, in both directions and about
\* the origin, if these are forces on nodes, lateral forces, uniform pressures,
\* temperatures and movements of supports (FixedEndForceCalcu, LoadVectorAssembly,
\* SupportReactionCalcu, SupportReactionOutput).
THEOREM ReactionsAreBalanced ==
    FrameSpec => [](OneMove /\ CoupledTogether /\ OneRowPerNode => ReactionsBalanceLoads)
<1> DEFINE Balanced == /\ Loaded
                       /\ OneMove => Equilibrium
                       /\ OneMove => SupportRows
                       /\ (OneMove /\ OneLoadPerElement) => Carried /\ NodesBalance
<1>1. FrameInit => Balanced
  BY StartIsBalanced
<1>2. FrameIInv /\ Balanced /\ [FrameNext]_frameVars => Balanced'
  BY SolvedStep, BalancedStep
<1>3. FrameIInv /\ Balanced => (OneMove /\ CoupledTogether /\ OneRowPerNode => ReactionsBalanceLoads)
  BY ReactionsHoldLoads DEF ReactionsBalanceLoads
<1> HIDE DEF Balanced
<1>4. QED
  BY <1>1, <1>2, <1>3, FrameInvariant, PTL DEF FrameSpec
=============================================================================
