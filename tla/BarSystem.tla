------------------------------ MODULE BarSystem ------------------------------
(***************************************************************************)
(* TestMITC of filamentNotes/CommandType.cpp: the displacements, member    *)
(* end forces and support reactions of a plane structure of truss and      *)
(* frame elements.  One action per function that TestMITC calls between    *)
(* reading the input and printing the results.                             *)
(*                                                                         *)
(* The doubles of the program are exact here: they are taken from the      *)
(* field of integers modulo a prime P, in which + - * / obey the same laws *)
(* as for rational numbers and every value has one representation.  What   *)
(* holds here holds of the program up to rounding.                         *)
(***************************************************************************)
EXTENDS DofNumbering

CONSTANTS P,        \* the prime
          Inputs    \* what the input file may contain: see InputAssumption

MemberLoads == {"LATERAL_FORCE", "LATERAL_UNIFORM_PRESSURE", "MOMENT_ON_A_POINT",
                "LATERAL_LINEARLY_PRESSURE", "AXIAL_PRESSURE", "AXIAL_FORCE",
                "MOMENT_ON_BEAM", "TEMPERATURE"}

\* Loads on nodes act on a degree of freedom, supports move where they hold,
\* and only frame elements are loaded between their ends; one that is heated has
\* a height that is not 0.
LegalLoads(s, ls) ==
    /\ ls \in Seq(Range(ls))
    /\ \A k \in DOMAIN ls :
         /\ ls[k].value \in Int
         /\ \/ ls[k].type = "FORCE_ON_NODE" /\ ls[k].at \in DOFs(s)
            \/ ls[k].type = "SUPPORT_MOVE" /\ ls[k].at \in Known(s)
            \/ /\ ls[k].type \in MemberLoads /\ ls[k].position \in Int
               /\ ls[k].elem \in DOMAIN s.elem /\ s.elem[ls[k].elem].type = "frame"
               /\ ls[k].type = "TEMPERATURE" =>
                      LET elem == s.elem[ls[k].elem]
                      IN  /\ ls[k].t0 \in Int /\ ls[k].t1 \in Int
                          /\ elem.alpha \in Int /\ elem.H \in Int /\ elem.H % P # 0

\* Nodes have positions, and elements have stiffnesses and a length that is not 0.
Measured(s) ==
    /\ \A n \in Node(s) : \A axis \in 1 .. 2 : s.pos[n][axis] \in Int
    /\ \A e \in DOMAIN s.elem :
         /\ s.elem[e].EA \in Int /\ s.elem[e].EI \in Int
         /\ LET delta(axis) == s.pos[s.elem[e].node[2]][axis] - s.pos[s.elem[e].node[1]][axis]
            IN  \E l \in 1 .. P - 1 : l * l = delta(1) * delta(1) + delta(2) * delta(2)

\* An input is a structure with a position per node, stiffnesses EA and EI per
\* element (E, A and Iz of its material and section) and a sequence of loads.
ASSUME InputAssumption ==
    /\ P \in Nat /\ P > 5 /\ \A k \in 2 .. P - 1 : P % k # 0
    /\ \A in \in Inputs :
         Legal(in.structure) /\ Measured(in.structure) /\ LegalLoads(in.structure, in.loads)

VARIABLES
    pc,          \* the function that TestMITC calls next
    structure, loads,
    iaDOFIndex, nFreeDOF, nTotalDOF, pElemDOF, pDiag,
    pGK,         \* the stored part of the stiffness matrix, row after row
    elemStiff,   \* the file ElemStiff.dat: local stiffness matrices
    pLoadVect, pDisp,
    daEndInterForce,   \* per element: axial, shear, moment at start, then at end
    solved             \* what LDLTSolve returned; TestMITC does not look at it

input  == <<structure, loads>>
layout == <<iaDOFIndex, nFreeDOF, nTotalDOF, pElemDOF, pDiag>>
vars   == <<pc, input, layout, pGK, elemStiff, pLoadVect, pDisp, daEndInterForce, solved>>

-----------------------------------------------------------------------------
(* Arithmetic of doubles. *)

Num == 0 .. P - 1

Reciprocal == [a \in 1 .. P - 1 |-> CHOOSE b \in 1 .. P - 1 : (a * b) % P = 1]

Div(a, b) == ((a % P) * Reciprocal[b % P]) % P

Total(f) == SumFunction(f) % P

MatrixVectorMultiply(A, v) ==
    [i \in DOMAIN A |-> Total([k \in DOMAIN v |-> A[i][k] * v[k]])]

MatrixMultiply(A, B) ==
    [i \in DOMAIN A |-> [j \in DOMAIN B[1] |-> Total([k \in DOMAIN B |-> A[i][k] * B[k][j]])]]

MatrixTrans(A) == [j \in DOMAIN A[1] |-> [i \in DOMAIN A |-> A[i][j]]]

-----------------------------------------------------------------------------
(* Elements. *)

Elements == DOMAIN structure.elem

IsTruss(e) == structure.elem[e].type = "truss"

\* LengthSinCosCalcu.
Delta(e, axis) ==
    LET n == structure.elem[e].node IN structure.pos[n[2]][axis] - structure.pos[n[1]][axis]
Length(e) ==
    CHOOSE l \in 1 .. P - 1 : l * l = Delta(e, 1) * Delta(e, 1) + Delta(e, 2) * Delta(e, 2)
Cos(e) == Div(Delta(e, 1), Length(e))
Sin(e) == Div(Delta(e, 2), Length(e))

\* The rotation pT from global to local directions.
Rotation(e) ==
    LET c == Cos(e)
        s == Sin(e)
    IN  IF IsTruss(e)
        THEN << <<c, s, 0, 0>>, <<-s, c, 0, 0>>, <<0, 0, c, s>>, <<0, 0, -s, c>> >>
        ELSE << <<c, s, 0, 0, 0, 0>>, <<-s, c, 0, 0, 0, 0>>, <<0, 0, 1, 0, 0, 0>>,
                <<0, 0, 0, c, s, 0>>, <<0, 0, 0, -s, c, 0>>, <<0, 0, 0, 0, 0, 1>> >>

\* The stiffness matrix in local directions, as TrussElemStiffCalcu and
\* FrameElemStiffCalcu write it to the file.
LocalStiff(e) ==
    LET l  == Length(e)
        EI == structure.elem[e].EI
        a  == Div(structure.elem[e].EA, l)
        b  == Div(12 * EI, l * l * l)
        c  == Div(6 * EI, l * l)
        d  == Div(4 * EI, l)
        h  == Div(d, 2)
    IN  IF IsTruss(e)
        THEN << <<a, 0, -a, 0>>, <<0, 0, 0, 0>>, <<-a, 0, a, 0>>, <<0, 0, 0, 0>> >>
        ELSE << <<a, 0, 0, -a, 0, 0>>, <<0, b, c, 0, -b, c>>, <<0, c, d, 0, -c, h>>,
                <<-a, 0, 0, a, 0, 0>>, <<0, -b, -c, 0, b, -c>>, <<0, c, h, 0, -c, d>> >>

\* The stiffness matrix in global directions that GKAssembly adds up.
GlobalStiff(e) ==
    IF IsTruss(e)
    THEN LET a  == Div(structure.elem[e].EA, Length(e))
             cc == (Cos(e) * Cos(e) * a) % P
             ss == (Sin(e) * Sin(e) * a) % P
             cs == (Cos(e) * Sin(e) * a) % P
         IN  << <<cc, cs, -cc, -cs>>, <<cs, ss, -cs, -ss>>,
                <<-cc, -cs, cc, cs>>, <<-cs, -ss, cs, ss>> >>
    ELSE MatrixMultiply(MatrixMultiply(MatrixTrans(Rotation(e)), LocalStiff(e)), Rotation(e))

-----------------------------------------------------------------------------
(* The stored matrix. *)

HalfBandOf(i) == IF i = 0 THEN 1 ELSE pDiag[i] - pDiag[i - 1]

FirstColumn(i) == i - HalfBandOf(i) + 1

\* Where the element of row i and column j <= i is stored, if it is.
Address(i, j) == pDiag[i] - i + j

GetElementInGK(i, j) ==
    LET row == Max({i, j})
        col == Min({i, j})
    IN  IF col < FirstColumn(row) THEN 0 ELSE pGK[Address(row, col)]

-----------------------------------------------------------------------------
(* Before the equations are solved. *)

Init ==
    /\ \E in \in Inputs : structure = in.structure /\ loads = in.loads
    /\ pc = "DOFIndexCalcu"
    /\ iaDOFIndex = <<>> /\ nFreeDOF = 0 /\ nTotalDOF = 0 /\ pElemDOF = <<>> /\ pDiag = <<>>
    /\ pGK = <<>> /\ elemStiff = <<>> /\ pLoadVect = <<>> /\ pDisp = <<>>
    /\ daEndInterForce = <<>> /\ solved = FALSE

DOFIndexCalcu ==
    /\ pc = "DOFIndexCalcu"
    /\ iaDOFIndex' = DOFIndexes(structure)
    /\ nFreeDOF' = nFreeDOFs(structure)
    /\ nTotalDOF' = nTotalDOFs(structure)
    /\ pc' = "ElementDOFCalcu"
    /\ UNCHANGED <<input, pElemDOF, pDiag, pGK, elemStiff, pLoadVect, pDisp,
                   daEndInterForce, solved>>

ElementDOFCalcu ==
    /\ pc = "ElementDOFCalcu"
    /\ pElemDOF' = [e \in Elements |-> ElementDOFs(structure.elem[e], iaDOFIndex)]
    /\ pc' = "BandAndDiagCalcu"
    /\ UNCHANGED <<input, iaDOFIndex, nFreeDOF, nTotalDOF, pDiag, pGK, elemStiff,
                   pLoadVect, pDisp, daEndInterForce, solved>>

VectorZeroize(S) == [i \in S |-> 0]

ElementEndForceInit == [e \in Elements |-> VectorZeroize(1 .. 6)]

\* With the profile known, the arrays are allocated and set to zero.
BandAndDiagCalcu ==
    LET diag == DiagonalAddresses(pElemDOF, nTotalDOF)
    IN  /\ pc = "BandAndDiagCalcu"
        /\ pDiag' = diag
        /\ pGK' = VectorZeroize(0 .. diag[nTotalDOF - 1])
        /\ pLoadVect' = VectorZeroize(0 .. nTotalDOF - 1)
        /\ pDisp' = VectorZeroize(0 .. nTotalDOF - 1)
        /\ daEndInterForce' = ElementEndForceInit
        /\ pc' = "GKAssembly"
        /\ UNCHANGED <<input, iaDOFIndex, nFreeDOF, nTotalDOF, pElemDOF, elemStiff, solved>>


\* The entries of element e's matrix that are added to the stored triangle.
StoredEntries(e) ==
    LET dof == pElemDOF[e] IN
    {ab \in (1 .. Len(dof)) \X (1 .. Len(dof)) : dof[ab[1]] >= dof[ab[2]]}

\* What the entries that are stored at address k add up to.
AssembledAt(k) ==
    Total([e \in Elements |->
        Total([ab \in {ab \in StoredEntries(e) :
                           Address(pElemDOF[e][ab[1]], pElemDOF[e][ab[2]]) = k} |->
            GlobalStiff(e)[ab[1]][ab[2]]])])

GKAssembly ==
    /\ pc = "GKAssembly"
    /\ pGK' = [k \in DOMAIN pGK |-> AssembledAt(k)]
    /\ elemStiff' = [e \in Elements |-> LocalStiff(e)]
    /\ pc' = "LoadVectorAssembly"
    /\ UNCHANGED <<input, layout, pLoadVect, pDisp, daEndInterForce, solved>>

\* Mutant of FixedEndForces: the switch over the types finds no case.
UnhandledForces(load) == << 0, 0, 0, 0, 0, 0 >>

\* The forces <<X, Y, M>> at the start and at the end of a clamped element that
\* FixedEndForceCalcu finds for a load between the ends.
FixedEndForces(load) ==
    LET elem == structure.elem[load.elem]
        l  == Length(load.elem)
        q  == load.value
        a  == load.position
        c  == Div(a, l)
        g  == (c * c) % P
        s  == Div(l - a, l)
        uniform == Div(q * a, 2)
        linear  == Div(q * a, 4)
        axial   == Div(elem.alpha * (load.t0 + load.t1) * elem.EA, 2)
        bending == Div(elem.alpha * (load.t1 - load.t0) * elem.EI, elem.H)
    IN  CASE load.type = "LATERAL_FORCE" ->
               << 0, -q * s * s * (1 + 2 * c), -q * s * s * a,
                  0, -q * g * (1 + 2 * s), q * (l - a) * g >>
          [] load.type = "LATERAL_UNIFORM_PRESSURE" ->
               << 0, -uniform * (2 - 2 * g + c * g), -Div(uniform * a, 6) * (6 - 8 * c + 3 * g),
                  0, -uniform * g * (2 - c), Div(uniform * a, 6) * c * (4 - 3 * c) >>
          [] load.type = "MOMENT_ON_A_POINT" ->
               << 0, -Div(6 * q * c * s, l), q * s * (2 - 3 * s),
                  0, Div(6 * q * c * s, l), q * c * (2 - 3 * c) >>
          [] load.type = "LATERAL_LINEARLY_PRESSURE" ->
               << 0, -linear * (2 - 3 * g + Div(8, 5) * ((g * c) % P)),
                  linear * a * Div(2 - 3 * c + Div(6, 5) * g, Div(3, 2)),
                  0, -linear * g * (3 - ((Div(8, 5) * c) % P)), -linear * a * ((c * (1 - Div(c, 2))) % P) >>
          [] load.type = "AXIAL_PRESSURE" ->
               << -q * a * (1 - Div(c, 2)), 0, 0, -Div(q * c * a, 2), 0, 0 >>
          [] load.type = "AXIAL_FORCE" -> << 0, 0, 0, -q * c, 0, 0 >>
          [] load.type = "MOMENT_ON_BEAM" ->
               << 0, -q * g * (3 * s + c), -q * ((s * s) % P) * a,
                  0, q * g * (3 * s + c), q * g * (l - a) >>
          [] load.type = "TEMPERATURE" -> << axial, 0, bending, -axial, 0, -bending >>

\* Mutant of KeptForces: the lateral force at the start is stored for both ends.
CopiedForces(load) ==
    LET f == FixedEndForces(load) IN
    [k \in 1 .. 6 |-> IF k \in {1, 4} THEN 0 ELSE f[IF k = 5 THEN 2 ELSE k] % P]

\* FixedEndForceCalcu keeps the lateral forces and the moments only.
KeptForces(load) ==
    LET f == FixedEndForces(load) IN [k \in 1 .. 6 |-> IF k \in {1, 4} THEN 0 ELSE f[k] % P]

\* Mutant of ClampForces: the forces on the nodes are left in local directions.
UnrotatedForces(load) == [k \in 1 .. 6 |-> (-KeptForces(load)[k]) % P]

\* pFixedEndF: what the clamped element does to its nodes, in global directions.
ClampForces(load) ==
    MatrixVectorMultiply(MatrixTrans(Rotation(load.elem)), [k \in 1 .. 6 |-> -KeptForces(load)[k]])

\* LoadVectorModify: every support that has moved, by whatever load, adds what
\* its displacement does to the unknown degrees of freedom.
LoadVectorModify(vect, disp) ==
    [j \in DOMAIN vect |->
        IF j >= nFreeDOF THEN vect[j]
        ELSE (vect[j] - Total([i \in nFreeDOF .. nTotalDOF - 1 |-> GetElementInGK(i, j) * disp[i]])) % P]

\* One pass of the loop over the loads: w holds vect, disp and force.
AddLoad(load, w) ==
    IF load.type = "SUPPORT_MOVE"
    THEN LET disp == [w.disp EXCEPT ![iaDOFIndex[load.at]] = (@ + load.value) % P]
         IN  [w EXCEPT !.disp = disp, !.vect = LoadVectorModify(w.vect, disp)]
    ELSE IF load.type = "FORCE_ON_NODE"
    THEN [w EXCEPT !.vect[iaDOFIndex[load.at]] = (@ + load.value) % P]
    ELSE LET dof   == pElemDOF[load.elem]
             clamp == ClampForces(load)
         IN  [w EXCEPT !.vect = [i \in DOMAIN w.vect |->
                           (w.vect[i] + Total([k \in {k \in 1 .. 6 : dof[k] = i} |-> clamp[k]])) % P],
                       !.force[load.elem] =
                           [k \in 1 .. 6 |-> IF k \in {1, 4} THEN @[k] ELSE KeptForces(load)[k]]]

LoadVectorAssembly ==
    LET after[k \in 0 .. Len(loads)] ==
            IF k = 0 THEN [vect |-> pLoadVect, disp |-> pDisp, force |-> daEndInterForce]
            ELSE AddLoad(loads[k], after[k - 1])
        w == after[Len(loads)]
    IN  /\ pc = "LoadVectorAssembly"
        /\ pLoadVect' = w.vect
        /\ pDisp' = [i \in DOMAIN pDisp |-> IF i < nFreeDOF THEN w.vect[i] ELSE w.disp[i]]
        /\ daEndInterForce' = w.force
        /\ pc' = "LDLTSolve"
        /\ UNCHANGED <<input, layout, pGK, elemStiff, solved>>

-----------------------------------------------------------------------------
(* LDLTSolve: the stored triangle becomes L D (rows of L times the pivots)   *)
(* in place, then pDisp becomes the solution in place.  A zero pivot ends it *)
(* at once, with what has been overwritten so far.                           *)

\* Mutant of Reduce: row j is taken to reach as far to the left as row i.
ReduceFullRow(w, i, j) ==
    LET ks == FirstColumn(i) .. j - 1
    IN  IF \E k \in ks : w.gk[pDiag[k]] = 0 THEN [w EXCEPT !.ok = FALSE]
        ELSE [w EXCEPT !.gk[Address(i, j)] =
                 (@ - Total([k \in ks |-> Div(w.gk[Address(i, k)] * w.gk[Max({0, Address(j, k)})],
                                             w.gk[pDiag[k]])])) % P]

\* The element at address a of row i and column j is reduced, those before it
\* being reduced already.
Reduce(w, i, j) ==
    LET ks == Max({FirstColumn(i), FirstColumn(j)}) .. j - 1
    IN  IF \E k \in ks : w.gk[pDiag[k]] = 0 THEN [w EXCEPT !.ok = FALSE]
        ELSE [w EXCEPT !.gk[Address(i, j)] =
                 (@ - Total([k \in ks |-> Div(w.gk[Address(i, k)] * w.gk[Address(j, k)],
                                             w.gk[pDiag[k]])])) % P]

\* pB[i] in the forward substitution, the entries before it being final.
Substitute(w, i) ==
    LET b     == (w.b[i] - Total([j \in FirstColumn(i) .. i - 1 |-> w.b[j] * w.gk[Address(i, j)]])) % P
        pivot == w.gk[pDiag[i]]
    IN  IF pivot = 0 THEN [w EXCEPT !.b[i] = b, !.ok = FALSE]
        ELSE [w EXCEPT !.b[i] = Div(b, pivot)]

\* pB[i] in the back substitution.  lastRow is the code's iRow: rows after it
\* do not reach column i, nor any column before it.
BackSubstitute(w, i) ==
    LET rows == {r \in i + 1 .. w.lastRow : FirstColumn(r) <= i}
    IN  [w EXCEPT !.b[i] = (@ - Total([r \in rows |-> Div(w.gk[Address(r, i)] * w.b[r], w.gk[pDiag[i]])])) % P,
                  !.lastRow = Max({i} \cup rows)]

LDLTSolve ==
    LET n == nFreeDOF
        row(a) == CHOOSE i \in 0 .. n - 1 : Address(i, FirstColumn(i)) <= a /\ a <= pDiag[i]
        factor[a \in 0 .. pDiag[n - 1]] ==
            IF a = 0 THEN [gk |-> pGK, b |-> pDisp, ok |-> TRUE, lastRow |-> n - 1]
            ELSE LET w == factor[a - 1]
                 IN  IF w.ok THEN Reduce(w, row(a), row(a) - (pDiag[row(a)] - a)) ELSE w
        forward[i \in 0 .. n] ==
            IF i = 0 THEN factor[pDiag[n - 1]]
            ELSE LET w == forward[i - 1] IN IF w.ok THEN Substitute(w, i - 1) ELSE w
        backward[i \in 0 .. n - 1] ==
            IF i = n - 1 THEN forward[n]
            ELSE LET w == backward[i + 1] IN IF w.ok THEN BackSubstitute(w, i) ELSE w
    IN  /\ pc = "LDLTSolve"
        /\ pGK' = backward[0].gk
        /\ pDisp' = backward[0].b
        /\ solved' = backward[0].ok
        /\ pc' = "InternalForceCalcu"
        /\ UNCHANGED <<input, layout, elemStiff, pLoadVect, daEndInterForce>>

-----------------------------------------------------------------------------
(* After the equations are solved, or not. *)

\* The displacements of an element's ends in local directions times its matrix,
\* where the six entries of daEndInterForce expect them.  GKAssembly writes the
\* matrices to ElemStiff.dat, and InternalForceCalcu reads them back, both in the
\* order of the elements; elemStiff[e] is the e-th of the file.
EndForces(e) ==
    LET dof == pElemDOF[e]
        f   == MatrixVectorMultiply(elemStiff[e],
                   MatrixVectorMultiply(Rotation(e), [k \in 1 .. Len(dof) |-> pDisp[dof[k]]]))
    IN  IF IsTruss(e) THEN <<f[1], f[2], 0, f[3], f[4], 0>> ELSE f

InternalForceCalcu ==
    /\ pc = "InternalForceCalcu"
    /\ daEndInterForce' = [e \in Elements |->
           [k \in 1 .. 6 |-> (daEndInterForce[e][k] + EndForces(e)[k]) % P]]
    /\ pc' = "SupportReactionCalcu"
    /\ UNCHANGED <<input, layout, pGK, elemStiff, pLoadVect, pDisp, solved>>

\* Mutant of SupportReactionCalcu: the load on the support keeps its sign.
SupportReactionCalcuAdds ==
    /\ pc = "SupportReactionCalcu"
    /\ pLoadVect' = [i \in DOMAIN pLoadVect |->
           IF i < nFreeDOF THEN pLoadVect[i]
           ELSE (Total([j \in DOMAIN pDisp |-> GetElementInGK(i, j) * pDisp[j]]) + pLoadVect[i]) % P]
    /\ pc' = "Output"
    /\ UNCHANGED <<input, layout, pGK, elemStiff, pDisp, daEndInterForce, solved>>

SupportReactionCalcu ==
    /\ pc = "SupportReactionCalcu"
    /\ pLoadVect' = [i \in DOMAIN pLoadVect |->
           IF i < nFreeDOF THEN pLoadVect[i]
           ELSE (Total([j \in DOMAIN pDisp |-> GetElementInGK(i, j) * pDisp[j]]) - pLoadVect[i]) % P]
    /\ pc' = "Output"
    /\ UNCHANGED <<input, layout, pGK, elemStiff, pDisp, daEndInterForce, solved>>

Next ==
    \/ DOFIndexCalcu \/ ElementDOFCalcu \/ BandAndDiagCalcu
    \/ GKAssembly \/ LoadVectorAssembly \/ LDLTSolve
    \/ InternalForceCalcu \/ SupportReactionCalcu

Spec == Init /\ [][Next]_vars

-----------------------------------------------------------------------------
(* Properties. *)

Steps == <<"DOFIndexCalcu", "ElementDOFCalcu", "BandAndDiagCalcu", "GKAssembly",
           "LoadVectorAssembly", "LDLTSolve", "InternalForceCalcu", "SupportReactionCalcu",
           "Output">>

\* TestMITC has come to step p, or further.
Reached(p) == pc \in {Steps[k] : k \in {m \in DOMAIN Steps : \E n \in 1 .. m : Steps[n] = p}}

\* What acts on the degree of freedom numbered i, and how far its support moves.
OnNumber(type, i) == {k \in DOMAIN loads : loads[k].type = type /\ iaDOFIndex[loads[k].at] = i}

NodalForce(i) == Total([k \in OnNumber("FORCE_ON_NODE", i) |-> loads[k].value])
Movement(i)   == Total([k \in OnNumber("SUPPORT_MOVE", i) |-> loads[k].value])
MemberForce(i) ==
    Total([k \in {k \in DOMAIN loads : loads[k].type \in MemberLoads} |->
        Total([m \in {m \in 1 .. 6 : pElemDOF[loads[k].elem][m] = i} |-> ClampForces(loads[k])[m]])])

\* The stiffness that the elements between them give to row i and column j.
Stiffness(i, j) ==
    Total([e \in Elements |->
        LET dof == pElemDOF[e]
            T   == Rotation(e)
            K   == LocalStiff(e)
            unit == [k \in 1 .. Len(dof) |-> IF dof[k] = j THEN 1 ELSE 0]
            f   == MatrixVectorMultiply(K, MatrixVectorMultiply(T, unit))
        IN  Total([k \in {k \in 1 .. Len(dof) : dof[k] = i} |->
                       MatrixVectorMultiply(MatrixTrans(T), f)[k]])])

-----------------------------------------------------------------------------
(* What the steps hand on to each other: the inductive invariant of          *)
(* NumberedOnce, of where the supports stand, and of what clamped elements   *)
(* hold.                                                                     *)

LegalInput == Legal(structure) /\ Measured(structure) /\ LegalLoads(structure, loads)

Numbered ==
    pc # "DOFIndexCalcu" =>
        /\ iaDOFIndex = DOFIndexes(structure)
        /\ nFreeDOF = nFreeDOFs(structure)
        /\ nTotalDOF = nTotalDOFs(structure)

LaidOut ==
    /\ pc \notin {"DOFIndexCalcu", "ElementDOFCalcu"} =>
           pElemDOF = [e \in Elements |-> ElementDOFs(structure.elem[e], iaDOFIndex)]
    /\ pc \notin {"DOFIndexCalcu", "ElementDOFCalcu", "BandAndDiagCalcu"} =>
           /\ pDiag = DiagonalAddresses(pElemDOF, nTotalDOF)
           /\ pDisp = [i \in 0 .. nTotalDOF - 1 |-> pDisp[i]]

Displaced ==
    /\ pc \in {"GKAssembly", "LoadVectorAssembly"} => pDisp = VectorZeroize(0 .. nTotalDOF - 1)
    /\ pc \in {"LDLTSolve", "InternalForceCalcu", "SupportReactionCalcu", "Output"} =>
           \A i \in nFreeDOF .. nTotalDOF - 1 : pDisp[i] = Movement(i)

Stored ==
    /\ pc = "GKAssembly" => pGK = VectorZeroize(0 .. pDiag[nTotalDOF - 1])
    /\ pc = "LoadVectorAssembly" => pGK = [k \in 0 .. pDiag[nTotalDOF - 1] |-> AssembledAt(k)]

\* The only load on the element of the k-th load, with its end forces just set.
OnlyLoad(k) ==
    /\ pc = "LDLTSolve"
    /\ loads[k].type \in MemberLoads
    /\ \A m \in DOMAIN loads \ {k} : loads[m].type \in MemberLoads => loads[m].elem # loads[k].elem

Clamped ==
    /\ pc \in {"GKAssembly", "LoadVectorAssembly"} => daEndInterForce = ElementEndForceInit
    /\ \A k \in DOMAIN loads :
           OnlyLoad(k) => daEndInterForce[loads[k].elem] = KeptForces(loads[k])

IInv ==
    /\ pc \in {Steps[k] : k \in DOMAIN Steps}
    /\ LegalInput /\ Numbered /\ LaidOut /\ Displaced /\ Stored /\ Clamped

-----------------------------------------------------------------------------
\* The independent degrees of freedom share out the numbers below nTotalDOF,
\* the unknown ones those below nFreeDOF, and a coupled one has the number of
\* the one it is coupled to (DOFIndexCalcu: the rest of the program takes
\* number < nFreeDOF for "unknown").
NumberedOnce ==
    Reached("ElementDOFCalcu") =>
        /\ \A i \in 0 .. nTotalDOF - 1 :
               \E d \in Free(structure) \cup Known(structure) :
                   /\ iaDOFIndex[d] = i
                   /\ \A e \in DOFs(structure) : iaDOFIndex[e] = i =>
                          e = d \/ (e \in Coupled(structure) /\ Master(structure, e) = d)
                   /\ i < nFreeDOF <=> d \in Free(structure)
        /\ \A d \in DOFs(structure) : iaDOFIndex[d] \in 0 .. nTotalDOF - 1

\* The stored triangle holds the whole stiffness matrix of the structure: no
\* entry of an element falls outside of the profile or on another's address
\* (BandAndDiagCalcu, GKAssembly, GetElementInGK).
StiffnessAssembled ==
    pc = "LoadVectorAssembly" =>
        \A i, j \in 0 .. nTotalDOF - 1 : GetElementInGK(i, j) = Stiffness(i, j)

\* The displacements that LDLTSolve reports as a solution are one: with the
\* supports where the loads move them, stiffness times displacement is the load
\* on every unknown degree of freedom (CommandType.cpp:678, "solve the
\* equilibrium equations for the displacements").
Equilibrium ==
    (Reached("InternalForceCalcu") /\ solved) =>
        \A i \in 0 .. nTotalDOF - 1 :
            IF i >= nFreeDOF THEN pDisp[i] = Movement(i)
            ELSE Total([j \in 0 .. nTotalDOF - 1 |-> Stiffness(i, j) * pDisp[j]])
                     = (NodalForce(i) + MemberForce(i)) % P

\* No two loads move supports: LoadVectorModify would take what the first has
\* moved off the load vector once more.
OneMove == \A k, m \in DOMAIN loads :
    loads[k].type = "SUPPORT_MOVE" /\ loads[m].type = "SUPPORT_MOVE" => k = m

\* What the supports, where they stand, take of the load in row i; what is left
\* of the load for the unknown displacements.
HeldForce(i) == Total([s \in nFreeDOF .. nTotalDOF - 1 |-> Stiffness(i, s) * Movement(s)])
RightHandSide(i) == ((NodalForce(i) + MemberForce(i)) - HeldForce(i)) % P

\* What Equilibrium needs to be inductive.
Loaded ==
    /\ pc \in {"GKAssembly", "LoadVectorAssembly"} => pLoadVect = VectorZeroize(0 .. nTotalDOF - 1)
    /\ pc = "LDLTSolve" => pGK = [k \in 0 .. pDiag[nTotalDOF - 1] |-> AssembledAt(k)]
    /\ (pc = "LDLTSolve" /\ OneMove) =>
           \A i \in 0 .. nFreeDOF - 1 : pDisp[i] = RightHandSide(i)

SolvedIInv == IInv /\ Loaded /\ (OneMove => Equilibrium)

\* The end forces of the elements, turned to global directions, at the degree of
\* freedom numbered i.
EndsAt(i) ==
    Total([e \in Elements |->
        LET f == daEndInterForce[e]
            g == MatrixVectorMultiply(MatrixTrans(Rotation(e)),
                     IF IsTruss(e) THEN <<f[1], f[2], f[4], f[5]>> ELSE f)
        IN  Total([k \in {k \in DOMAIN g : pElemDOF[e][k] = i} |-> g[k]])])

\* The results that are printed fit together: at every degree of freedom the
\* end forces of the elements are the force on the node plus, at a support, its
\* reaction.
NodesBalance ==
    (pc = "Output" /\ solved) =>
        \A i \in 0 .. nTotalDOF - 1 :
            EndsAt(i) = (NodalForce(i) + (IF i < nFreeDOF THEN 0 ELSE pLoadVect[i])) % P

\* No two loads act on the same element: the second would replace the end forces
\* of the first.
OneLoadPerElement == \A k, m \in DOMAIN loads :
    (/\ loads[k].type \in MemberLoads /\ loads[m].type \in MemberLoads
     /\ loads[k].elem = loads[m].elem) => k = m

\* The loads on element e; the end forces that they leave, if there is one or none.
LoadsOn(e) == {k \in DOMAIN loads : loads[k].type \in MemberLoads /\ loads[k].elem = e}
HeldEnds(e) == IF LoadsOn(e) = {} THEN VectorZeroize(1 .. 6)
               ELSE KeptForces(loads[CHOOSE k \in LoadsOn(e) : TRUE])

\* What the rows of the supports hold: what the loads do to the supports, what
\* the equations take of the displacements, and in the end the reactions.
SupportRows ==
    /\ pc \in {"LDLTSolve", "InternalForceCalcu", "SupportReactionCalcu"} =>
           /\ pLoadVect \in [0 .. nTotalDOF - 1 -> Num]
           /\ \A i \in nFreeDOF .. nTotalDOF - 1 : pLoadVect[i] = (NodalForce(i) + MemberForce(i)) % P
    /\ (pc \in {"InternalForceCalcu", "SupportReactionCalcu"} /\ solved) =>
           /\ pDisp \in [0 .. nTotalDOF - 1 -> Num]
           /\ \A i \in nFreeDOF .. nTotalDOF - 1 : \A j \in 0 .. nTotalDOF - 1 :
                  GetElementInGK(i, j) = Stiffness(i, j)
    /\ (pc = "Output" /\ solved) =>
           /\ pDisp \in [0 .. nTotalDOF - 1 -> Num]
           /\ \A i \in nFreeDOF .. nTotalDOF - 1 :
                  pLoadVect[i] = (Total([j \in 0 .. nTotalDOF - 1 |-> Stiffness(i, j) * pDisp[j]])
                                      - ((NodalForce(i) + MemberForce(i)) % P)) % P

\* What NodesBalance needs besides to be inductive.
Carried ==
    /\ pc \in {"LoadVectorAssembly", "LDLTSolve", "InternalForceCalcu"} =>
           elemStiff = [e \in Elements |-> LocalStiff(e)]
    /\ pc \in {"LDLTSolve", "InternalForceCalcu"} => \A e \in Elements : daEndInterForce[e] = HeldEnds(e)
    /\ (pc = "SupportReactionCalcu" /\ solved) =>
           \A i \in 0 .. nTotalDOF - 1 :
               EndsAt(i) = (Total([j \in 0 .. nTotalDOF - 1 |-> Stiffness(i, j) * pDisp[j]])
                                - MemberForce(i)) % P

BalancedIInv ==
    /\ SolvedIInv
    /\ OneMove => SupportRows
    /\ (OneMove /\ OneLoadPerElement) => Carried /\ NodesBalance

\* A clamped element under the force X, Y and the moment M about its start is
\* held in equilibrium by the end forces f.
Holds(f, e, X, Y, M) ==
    /\ (f[1] + f[4] + X) % P = 0
    /\ (f[2] + f[5] + Y) % P = 0
    /\ (f[3] + f[6] + f[5] * Length(e) + M) % P = 0

\* What a load does to the element that it lies on, whatever the program makes of
\* it: the force along and across the element, and the moment about its start.
\* A pressure and a distributed moment reach from the start to the position of
\* the load; LATERAL_LINEARLY_PRESSURE grows from 0 at the start.
Resultant(load) ==
    LET q == load.value
        a == load.position
        does(X, Y, M) == [X |-> X, Y |-> Y, M |-> M]
    IN  CASE load.type = "LATERAL_FORCE"             -> does(0, q, q * a)
          [] load.type = "LATERAL_UNIFORM_PRESSURE"  -> does(0, q * a, Div(q * a * a, 2))
          [] load.type = "MOMENT_ON_A_POINT"         -> does(0, 0, q)
          [] load.type = "LATERAL_LINEARLY_PRESSURE" -> does(0, Div(q * a, 2), Div(q * a * a, 3))
          [] load.type = "AXIAL_PRESSURE"            -> does(q * a, 0, 0)
          [] load.type = "AXIAL_FORCE"               -> does(q, 0, 0)
          [] load.type = "MOMENT_ON_BEAM"            -> does(0, 0, q * a)
          [] load.type = "TEMPERATURE"               -> does(0, 0, 0)

\* The end forces of an element with one load, of this type, hold it.
ForcesHold(type) ==
    \A k \in DOMAIN loads :
        LET r == Resultant(loads[k])
        IN  OnlyLoad(k) /\ loads[k].type = type =>
                Holds(daEndInterForce[loads[k].elem], loads[k].elem, r.X, r.Y, r.M)

\* Fixed end forces hold an element under a lateral force, or a lateral
\* pressure from its start to the given position, in equilibrium
\* (FixedEndForceCalcu, LATERAL_FORCE and LATERAL_UNIFORM_PRESSURE).
LateralForcesHold == ForcesHold("LATERAL_FORCE") /\ ForcesHold("LATERAL_UNIFORM_PRESSURE")

\* Fixed end forces hold an element under one load in equilibrium, whichever of
\* the eight types the load has that LoadVectorAssembly says it handles
\* (CommandType.cpp:1278-1285).
MemberLoadsHeld == \A type \in MemberLoads : ForcesHold(type)
=============================================================================
