--------------------------- MODULE MCFrameProgram ---------------------------
(* The inputs of MCBarSystem as input files. *)
EXTENDS FrameProgram, MCBarSystem

Number(set, x) == Cardinality({y \in set : y < x})

\* One material, and a section for each kind of element.
FileOf(case) ==
    LET s == case.structure
        from1(f) == [i \in 1 .. Cardinality(DOMAIN f) |-> f[i - 1]]
        kind(t) == IF t = "truss" THEN 0 ELSE 1
        rows == SelectSeq([i \in 1 .. s.nTotalNode |-> i - 1], LAMBDA n : s.code[n] # Loose)
        node == [i \in 1 .. s.nTotalNode |-> <<kind(s.type[i - 1])>> \o s.pos[i - 1]]
        cons == [i \in DOMAIN rows |-> <<rows[i]>> \o from1(s.code[rows[i]])]
        elem == [e \in DOMAIN s.elem |-> <<kind(s.elem[e].type)>> \o s.elem[e].node
                                            \o <<1 - kind(s.elem[e].type), 0>>]
        iType(l) == CHOOSE t \in DOMAIN LoadType : LoadType[t] = l.type
        load == [k \in DOMAIN case.loads |->
                    LET l == case.loads[k]
                    IN  IF l.type \in MemberLoads
                        THEN <<iType(l), 1, l.value, l.elem - 1, 0, l.position, l.t0, l.t1>>
                        ELSE <<iType(l), l.at[2], l.value, 0, l.at[1], 0, 0, 0>>]
    IN  <<s.nTotalNode, Len(rows), Len(s.elem), 1, 2, Len(load)>>
        \o FlattenSeq(node) \o FlattenSeq(cons) \o FlattenSeq(elem)
        \o <<1, 0, 2>> \o <<12, 5, 3, 7, 0, 3>> \o FlattenSeq(load)

\* The two sample inputs of the repository, decimal fractions as quotients; the
\* expansion coefficients and Poisson's ratios, which their results do not depend
\* on, are left at 0.
test05 ==
    <<8, 6, 5, 1, 2, 1,
      1, 0, 0,  1, 20, 0,  1, 40, 0,  1, 60, 0,  0, 20, 0,  0, 40, 0,  0, 0, -15,  0, 60, -15,
      0, -1, -1, -1,  3, -1, -1, -1,  6, -1, -1, 0,  7, -1, -1, 0,
      4, 10001, 10001, 0,  5, 10002, 10002, 0,
      1, 0, 1, 0, 0,  1, 1, 2, 0, 0,  1, 2, 3, 0, 0,  0, 4, 6, 1, 0,  0, 5, 7, 1, 0,
      1, 0, 0,
      200000, 100000, 0,  5000, 0, 0,
      2, 1, 10, 1, 0, 20, 0, 0>>

test05_copy ==
    <<4, 2, 3, 1, 2, 1,
      1, 0, 6,  1, 0, 0,  1, 12, 0,  1, 12, 6,
      0, -1, -1, -1,  3, -1, -1, -1,
      1, 1, 0, 0, 0,  1, 1, 2, 1, 0,  1, 2, 3, 0, 0,
      1, 0, 0,
      Div(1, 2), Div(417, 10000), 1,  Div(63, 100), Div(83, 1000), Div(126, 100),
      2, 1, -1, 0, 0, 6, 0, 0>>

FrameFiles == {FileOf(case) : case \in FrameInputs} \cup {test05, test05_copy}
=============================================================================
