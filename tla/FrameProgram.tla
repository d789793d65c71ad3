----------------------------- MODULE FrameProgram -----------------------------
(***************************************************************************)
(* TestMITC of filamentNotes/CommandType.cpp from the input file test05.txt *)
(* to the tables of Results.dat: the reading and the echo of the input     *)
(* before the computation of BarSystem, and the three tables of results    *)
(* after it.                                                               *)
(*                                                                         *)
(* A file is the sequence of the numbers in it, whatever separates them.   *)
(* The console and Results.dat are given the same numbers, so one variable *)
(* stands for both; headings, widths and precision are left out.           *)
(***************************************************************************)
EXTENDS BarSystem, SequencesExt, TLC

CONSTANT Files      \* what test05.txt may contain

VARIABLES
    at,         \* where TestMITC is: open, read, echo, compute, print, done, exit
    fin0,       \* the content of the input file
    printed     \* the tables written so far, each a sequence of rows

frameVars == <<vars, at, fin0, printed>>

-----------------------------------------------------------------------------
(* The structs, in the order of their members, and the input in the order in *)
(* which the loops read it.                                                  *)

TRUSS == 0
Kind(iType) == IF iType = TRUSS THEN "truss" ELSE "frame"

LoadType == (0 :> "FORCE_ON_NODE") @@ (1 :> "LATERAL_FORCE") @@ (2 :> "LATERAL_UNIFORM_PRESSURE")
         @@ (3 :> "MOMENT_ON_A_POINT") @@ (4 :> "LATERAL_LINEARLY_PRESSURE") @@ (5 :> "AXIAL_PRESSURE")
         @@ (6 :> "AXIAL_FORCE") @@ (7 :> "MOMENT_ON_BEAM") @@ (8 :> "TEMPERATURE") @@ (9 :> "SUPPORT_MOVE")

\* Mutant of SectAt: the section's height is read before its moment of inertia.
SectAtSwapped(r) == [dA |-> r[1], dIz |-> r[3], dH |-> r[2]]

NodeAt(r)    == [iType |-> r[1], dX |-> r[2], dY |-> r[3]]
ConsAt(r)    == [iNode |-> r[1], iaConstrainedDOF |-> <<r[2], r[3], r[4]>>]
ElementAt(r) == [iType |-> r[1], iaNode |-> <<r[2], r[3]>>, iSection |-> r[4], iMaterial |-> r[5]]
MateAt(r)    == [dE |-> r[1], dMu |-> r[2], dAlpha |-> r[3]]
SectAt(r)    == [dA |-> r[1], dIz |-> r[2], dH |-> r[3]]
LoadAt(r)    == [iType |-> r[1], iDirect |-> r[2], dValue |-> r[3], iLoadedElem |-> r[4],
                 iLoadedNode |-> r[5], dPosition |-> r[6], dT0 |-> r[7], dT1 |-> r[8]]

\* How many numbers a row of each section has: nodes, constrained nodes,
\* elements, materials, sections, loads.
Fields == <<3, 4, 5, 3, 3, 8>>

\* How many numbers of the file are read before section k: the six counts, and
\* the sections before it, as long as the counts say.
ReadBefore(file, k) == 6 + SumFunction([m \in 1 .. k - 1 |-> file[m] * Fields[m]])

Rows(file, k, As(_)) ==
    [i \in 0 .. file[k] - 1 |->
        As(SubSeq(file, ReadBefore(file, k) + i * Fields[k] + 1, ReadBefore(file, k) + (i + 1) * Fields[k]))]

pNode(file)     == Rows(file, 1, NodeAt)
pConsNode(file) == Rows(file, 2, ConsAt)
pElem(file)     == Rows(file, 3, ElementAt)
pMate(file)     == Rows(file, 4, MateAt)
pSect(file)     == Rows(file, 5, SectAt)
pLoad(file)     == Rows(file, 6, LoadAt)

-----------------------------------------------------------------------------
(* What the computation takes from the arrays. *)

\* The start of DOFIndexCalcu: all codes are zero, then every constrained node
\* gets those of its row, the last row if it has several.
CodeOf(file, node) ==
    LET rows == {i \in DOMAIN pConsNode(file) : pConsNode(file)[i].iNode = node}
    IN  [j \in 0 .. 2 |-> IF rows = {} THEN 0 ELSE pConsNode(file)[Max(rows)].iaConstrainedDOF[j + 1]]

ElemOf(file, e) ==
    LET elem == pElem(file)[e]
        mate == pMate(file)[elem.iMaterial]
        sect == pSect(file)[elem.iSection]
    IN  [type |-> Kind(elem.iType), node |-> elem.iaNode, EA |-> mate.dE * sect.dA,
         EI |-> mate.dE * sect.dIz, alpha |-> mate.dAlpha, H |-> sect.dH]

StructureOf(file) ==
    [nTotalNode |-> file[1],
     type |-> [n \in DOMAIN pNode(file) |-> Kind(pNode(file)[n].iType)],
     pos  |-> [n \in DOMAIN pNode(file) |-> <<pNode(file)[n].dX, pNode(file)[n].dY>>],
     code |-> [n \in DOMAIN pNode(file) |-> CodeOf(file, n)],
     elem |-> [e \in 1 .. file[3] |-> ElemOf(file, e - 1)]]

LoadsOf(file) ==
    [k \in 1 .. file[6] |->
        LET load == pLoad(file)[k - 1]
        IN  [type |-> LoadType[load.iType], at |-> <<load.iLoadedNode, load.iDirect>>,
             elem |-> load.iLoadedElem + 1, value |-> load.dValue,
             position |-> load.dPosition, t0 |-> load.dT0, t1 |-> load.dT1]]

\* A file that is shorter than its counts say leaves what follows unread, and a
\* row may constrain a node that is not there; the program does not look.
ASSUME FileAssumption ==
    \A file \in Files :
        /\ file \in Seq(Int) /\ Len(file) = ReadBefore(file, 7)
        /\ \A k \in 1 .. 6 : file[k] \in Nat
        /\ Legal(StructureOf(file)) /\ Measured(StructureOf(file))
        /\ LegalLoads(StructureOf(file), LoadsOf(file))
        /\ \A i \in DOMAIN pConsNode(file) : pConsNode(file)[i].iNode \in Node(StructureOf(file))

-----------------------------------------------------------------------------
(* Before the computation. *)

FrameInit ==
    /\ fin0 \in Files
    /\ at = "open" /\ printed = <<>>
    /\ structure = <<>> /\ loads = <<>>
    /\ pc = "DOFIndexCalcu"
    /\ iaDOFIndex = <<>> /\ nFreeDOF = 0 /\ nTotalDOF = 0 /\ pElemDOF = <<>> /\ pDiag = <<>>
    /\ pGK = <<>> /\ elemStiff = <<>> /\ pLoadVect = <<>> /\ pDisp = <<>>
    /\ daEndInterForce = <<>> /\ solved = FALSE

\* Without test05.txt or Results.dat the program ends at once.
OpenFiles ==
    /\ at = "open"
    /\ at' \in {"read", "exit"}
    /\ UNCHANGED <<vars, fin0, printed>>

ReadInput ==
    /\ at = "read"
    /\ structure' = StructureOf(fin0)
    /\ loads' = LoadsOf(fin0)
    /\ at' = "echo"
    /\ UNCHANGED <<pc, layout, pGK, elemStiff, pLoadVect, pDisp, daEndInterForce, solved, fin0, printed>>

\* The rows of the echo, each member of the arrays printed by its name; which
\* member stands in which cell, not how it is written (setw, six digits).
EchoRows(file) ==
    LET rowsOf(F, Row(_)) == [i \in 1 .. Cardinality(DOMAIN F) |-> Row(F[i - 1])]
    IN  [m \in 1 .. 6 |-> <<file[m]>>]
        \o rowsOf(pNode(file), LAMBDA n : <<n.iType, n.dX, n.dY>>)
        \o rowsOf(pConsNode(file), LAMBDA c : <<c.iNode>> \o c.iaConstrainedDOF)
        \o rowsOf(pElem(file), LAMBDA e : <<e.iType>> \o e.iaNode \o <<e.iSection, e.iMaterial>>)
        \o rowsOf(pMate(file), LAMBDA m : <<m.dE, m.dMu, m.dAlpha>>)
        \o rowsOf(pSect(file), LAMBDA s : <<s.dA, s.dIz, s.dH>>)
        \o rowsOf(pLoad(file), LAMBDA l : <<l.iType, l.iDirect, l.dValue, l.iLoadedElem,
                                            l.iLoadedNode, l.dPosition, l.dT0, l.dT1>>)

EchoInput ==
    /\ at = "echo"
    /\ printed' = <<EchoRows(fin0)>>
    /\ at' = "compute"
    /\ UNCHANGED <<vars, fin0>>

\* The steps of BarSystem, up to the last of them.
Compute ==
    /\ at = "compute"
    /\ Next
    /\ at' = IF pc' = "Output" THEN "print" ELSE "compute"
    /\ UNCHANGED <<fin0, printed>>

-----------------------------------------------------------------------------
(* The tables of results. *)

\* A row of three numbers for a node, of two for a truss node.
NodeRow(node, array) ==
    <<node>> \o [j \in 1 .. (IF structure.type[node] = "truss" THEN 2 ELSE 3) |->
                    array[iaDOFIndex[<<node, j - 1>>]]]

DisplacementTable == [i \in 1 .. structure.nTotalNode |-> NodeRow(i - 1, pDisp)]

\* Of a truss element the axial forces only.
EndForceTable ==
    [e \in Elements |->
        <<e - 1>> \o IF IsTruss(e) THEN <<daEndInterForce[e][1], daEndInterForce[e][4]>>
                                   ELSE daEndInterForce[e]]

\* Every constrained node that is held in some direction has a row, and in it
\* also the directions that are not: what is printed there is the load.
Supports(file) ==
    LET row(i) == pConsNode(file)[i - 1]
        held[i \in 0 .. file[2]] ==
            IF i = 0 THEN <<>>
            ELSE IF -1 \in Range(row(i).iaConstrainedDOF) THEN Append(held[i - 1], row(i))
            ELSE held[i - 1]
    IN  held[file[2]]

ReactionTable ==
    [i \in DOMAIN Supports(fin0) |-> NodeRow(Supports(fin0)[i].iNode, pLoadVect)]

NodeDisplOutput ==
    /\ at = "print" /\ Len(printed) = 1
    /\ printed' = Append(printed, DisplacementTable)
    /\ UNCHANGED <<vars, at, fin0>>

EndInternalForceOutput ==
    /\ at = "print" /\ Len(printed) = 2
    /\ printed' = Append(printed, EndForceTable)
    /\ UNCHANGED <<vars, at, fin0>>

SupportReactionOutput ==
    /\ at = "print" /\ Len(printed) = 3
    /\ printed' = Append(printed, ReactionTable)
    /\ at' = "done"
    /\ UNCHANGED <<vars, fin0>>

FrameNext ==
    \/ OpenFiles \/ ReadInput \/ EchoInput
    \/ Compute
    \/ NodeDisplOutput \/ EndInternalForceOutput \/ SupportReactionOutput

FrameSpec == FrameInit /\ [][FrameNext]_frameVars

-----------------------------------------------------------------------------
(* Properties. *)

\* The tables at the head of Results.dat have a cell for every number of the input
\* file, in the order of the file, and no other (TestMITC, the loops that read and
\* echo the arrays).  What the cells look like is left out: the program prints six
\* digits in 10 or 12 columns, so a value may be rounded there, or run into the
\* next one.
EchoIsInput == printed # <<>> => FlattenSeq(printed[1]) = fin0

\* How far the loads move a support.
Prescribed(d) ==
    Total([k \in {k \in DOMAIN loads : loads[k].type = "SUPPORT_MOVE" /\ loads[k].at = d} |->
               loads[k].value])

\* In the table of displacements, whether the equations could be solved or not,
\* a support stands where the loads have moved it, and a coupled node where the
\* node is that it is coupled to.
PrintedAsPrescribed ==
    Len(printed) >= 2 =>
        \A d \in DOFs(structure) :
            LET cell(n) == printed[2][n + 1][d[2] + 2]
            IN  /\ d \in Known(structure) => cell(d[1]) = Prescribed(d)
                /\ d \in Coupled(structure) => cell(d[1]) = cell(Code(structure, d) - COUPLED)

\* The inductive invariant of the properties above: where TestMITC is, the file
\* it has read, and what it has printed.
FrameIInv ==
    /\ at \in {"open", "read", "echo", "exit"} => pc = "DOFIndexCalcu"
    /\ at \in {"print", "done"} => pc = "Output"
    /\ at \in {"echo", "compute", "print", "done"} =>
           structure = StructureOf(fin0) /\ loads = LoadsOf(fin0) /\ IInv
    /\ at \in {"open", "read", "echo", "exit"} => printed = <<>>
    /\ at = "compute" => printed = <<EchoRows(fin0)>> /\ pc # "Output"
    /\ at = "print" =>
           \/ printed = <<EchoRows(fin0)>>
           \/ printed = <<EchoRows(fin0), DisplacementTable>>
           \/ printed = <<EchoRows(fin0), DisplacementTable, EndForceTable>>
    /\ at = "done" => printed = <<EchoRows(fin0), DisplacementTable, EndForceTable, ReactionTable>>
    /\ at \in {"open", "read", "echo", "compute", "print", "done", "exit"}
    /\ fin0 \in Files

\* Nodes that move together are in the same place, and no node has two rows of
\* constraints: its reactions would be printed twice.
CoupledTogether ==
    \A d \in Coupled(structure) : structure.pos[Master(structure, d)[1]] = structure.pos[d[1]]
OneRowPerNode ==
    \A i, k \in DOMAIN pConsNode(fin0) : pConsNode(fin0)[i].iNode = pConsNode(fin0)[k].iNode => i = k

\* The force in direction j, and with j = 2 the moment about the origin, of a
\* force <<X, Y>> and a moment M on a node.
Action(j, node, X, Y, M) ==
    IF j = 2 THEN M + structure.pos[node][1] * Y - structure.pos[node][2] * X
    ELSE IF j = 0 THEN X ELSE Y

\* What one load does to the structure as a whole in direction j: a load on an
\* element its resultant, turned from the directions of the element.
ActionOfLoad(j, load) ==
    LET r == Resultant(load)
        c == Cos(load.elem)
        s == Sin(load.elem)
        on(m) == IF load.type = "FORCE_ON_NODE" /\ load.at[2] = m THEN load.value ELSE 0
    IN  IF load.type \in MemberLoads
        THEN Action(j, structure.elem[load.elem].node[1], c * r.X - s * r.Y, s * r.X + c * r.Y, r.M)
        ELSE Action(j, load.at[1], on(0), on(1), on(2))

\* What the loads of the input do to it together.
Applied(j) == Total([k \in DOMAIN loads |-> ActionOfLoad(j, loads[k])])

\* The member loads whose fixed end forces hold them.  Of the other five types
\* the program loses a part or has wrong formulas (MemberLoadsHeld fails).
HeldTypes == {"LATERAL_FORCE", "LATERAL_UNIFORM_PRESSURE", "TEMPERATURE"}
OnlyHeldTypes == \A k \in DOMAIN loads : loads[k].type \in MemberLoads => loads[k].type \in HeldTypes

\* What the table of reactions does to it, in the directions that are held.
Held(j) ==
    Total([i \in DOMAIN printed[4] |->
        LET row  == printed[4][i]
            cell(m) == IF m + 2 \in DOMAIN row /\ Code(structure, <<row[1], m>>) = -1
                       THEN row[m + 2] ELSE 0
        IN  Action(j, row[1], cell(0), cell(1), cell(2))])

\* The printed reactions hold the whole structure under the loads of the input,
\* forces on nodes, lateral forces, uniform pressures, temperatures and movements
\* of supports: the forces in both directions and the moments about the origin
\* add up to zero, through the fixed end forces, the numbering, the assembly, the
\* solution and the choice of the rows to print.
ReactionsBalanceLoads ==
    (at = "done" /\ solved /\ OnlyHeldTypes) => \A j \in 0 .. 2 : (Held(j) + Applied(j)) % P = 0
=============================================================================
