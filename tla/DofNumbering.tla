---------------------------- MODULE DofNumbering ----------------------------
(***************************************************************************)
(* How the frame program (filamentNotes/CommandType.cpp) numbers the       *)
(* degrees of freedom of a structure and lays out its stiffness matrix:    *)
(* DOFIndexCalcu, ElementDOFCalcu and BandAndDiagCalcu.                    *)
(*                                                                         *)
(* A structure s has the nodes 0 .. s.nTotalNode - 1 with a type and, per  *)
(* direction, a code (0 unknown, -1 known, COUPLED + N the same as node    *)
(* N's), and a sequence of elements between two nodes.  A degree of        *)
(* freedom is a pair <<node, direction>>; a truss node has no rotation.    *)
(***************************************************************************)
EXTENDS Integers, Sequences, FiniteSets, FiniteSetsExt, Functions

CONSTANT COUPLED    \* 10000 in the code

ASSUME CoupledAssumption == COUPLED \in Nat \ {0}

Node(s) == 0 .. s.nTotalNode - 1

DOFs(s) == {d \in Node(s) \X (0 .. 2) : s.type[d[1]] = "frame" \/ d[2] # 2}

Code(s, d) == s.code[d[1]][d[2]]

Free(s)    == {d \in DOFs(s) : Code(s, d) = 0}
Known(s)   == {d \in DOFs(s) : Code(s, d) = -1}
Coupled(s) == {d \in DOFs(s) : Code(s, d) >= COUPLED}

\* The degree of freedom that a coupled one follows.
Master(s, d) == <<Code(s, d) - COUPLED, d[2]>>

\* What an input file has to obey; the program does not check it.  With more
\* degrees of freedom than COUPLED a number could not be told from a code, and
\* a chain of couplings is resolved only where it leads to earlier nodes.
Legal(s) ==
    /\ s.nTotalNode \in Nat
    /\ DOFs(s) = Free(s) \cup Known(s) \cup Coupled(s)
    /\ \A d \in Coupled(s) : Master(s, d) \in Free(s) \cup Known(s)
    /\ Cardinality(DOFs(s)) <= COUPLED
    /\ Free(s) # {}
    /\ s.elem \in Seq(Range(s.elem))
    /\ \A e \in DOMAIN s.elem :
         /\ s.elem[e].type \in {"truss", "frame"}
         /\ s.elem[e].node \in Node(s) \X Node(s) /\ s.elem[e].node[1] # s.elem[e].node[2]
         /\ s.elem[e].type = "frame" => \A k \in 1 .. 2 : s.type[s.elem[e].node[k]] = "frame"

-----------------------------------------------------------------------------
(* DOFIndexCalcu *)

\* The order in which the loops over nodes and directions visit them.
Before(d, e) == d[1] < e[1] \/ (d[1] = e[1] /\ d[2] < e[2])

\* iBuf when the loop reaches d, counting the members of S from 0.
Rank(S, d) == Cardinality({e \in S : Before(e, d)})

nFreeDOFs(s)  == Cardinality(Free(s))
nTotalDOFs(s) == nFreeDOFs(s) + Cardinality(Known(s))

\* Mutant of IndependentNumber: the second pass starts to count at 0 again.
RestartedNumber(s, d) == IF d \in Free(s) THEN Rank(Free(s), d) ELSE Rank(Known(s), d)

\* First the unknown degrees of freedom are numbered, then the known ones.
IndependentNumber(s, d) ==
    IF d \in Free(s) THEN Rank(Free(s), d) ELSE nFreeDOFs(s) + Rank(Known(s), d)

\* Mutant of DOFIndexes: a coupled degree of freedom takes its master's first number.
DOFIndexesOfFirst(s) ==
    [d \in Node(s) \X (0 .. 2) |->
        IF d \notin DOFs(s) THEN Code(s, d)
        ELSE IndependentNumber(s, IF d \in Coupled(s) THEN <<Master(s, d)[1], 0>> ELSE d)]

\* iaDOFIndex of every node: a coupled degree of freedom gets its master's
\* number, and the rotation of a truss node keeps its code.
DOFIndexes(s) ==
    [d \in Node(s) \X (0 .. 2) |->
        IF d \notin DOFs(s) THEN Code(s, d)
        ELSE IndependentNumber(s, IF d \in Coupled(s) THEN Master(s, d) ELSE d)]

-----------------------------------------------------------------------------
(* ElementDOFCalcu *)

\* The numbers of an element's degrees of freedom, start node first.
ElementDOFs(elem, index) ==
    LET at(k, j) == index[<<elem.node[k], j>>] IN
    IF elem.type = "truss" THEN <<at(1, 0), at(1, 1), at(2, 0), at(2, 1)>>
    ELSE <<at(1, 0), at(1, 1), at(1, 2), at(2, 0), at(2, 1), at(2, 2)>>

-----------------------------------------------------------------------------
(* BandAndDiagCalcu: each row of the lower triangle is stored from its first *)
(* column that some element couples with it.                                *)

\* Mutant of HalfBand: the smallest number is sought at the start node only.
HalfBandFromStart(elemDOF, i) ==
    Max({1} \cup {i - Min({elemDOF[e][k] : k \in 1 .. Len(elemDOF[e]) \div 2}) + 1 :
                      e \in {f \in DOMAIN elemDOF : i \in Range(elemDOF[f])}})

\* The number of stored elements of row i, with its diagonal element.
HalfBand(elemDOF, i) ==
    Max({1} \cup {i - Min(Range(elemDOF[e])) + 1 :
                      e \in {f \in DOMAIN elemDOF : i \in Range(elemDOF[f])}})

\* pDiag: where the diagonal elements are stored.
DiagonalAddresses(elemDOF, nTotalDOF) ==
    LET diag[i \in 0 .. nTotalDOF - 1] ==
            IF i = 0 THEN 0 ELSE HalfBand(elemDOF, i) + diag[i - 1]
    IN  diag
=============================================================================
