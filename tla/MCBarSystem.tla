---------------------------- MODULE MCBarSystem ----------------------------
(* Finite instances of BarSystem for TLC: a frame of one or two beams, with a  *)
(* truss node on the end of the first that follows it (as the sample input     *)
(* test05.txt has them) and a strut or two.  All lengths are whole.            *)
EXTENDS BarSystem, TLC

Frame(m, n) == [type |-> "frame", node |-> <<m, n>>, EA |-> 12, EI |-> 5, alpha |-> 2, H |-> 3]
Truss(m, n) == [type |-> "truss", node |-> <<m, n>>, EA |-> 7, EI |-> 0, alpha |-> 2, H |-> 3]

Triple(x, y, r) == (0 :> x) @@ (1 :> y) @@ (2 :> r)

Fixed  == Triple(-1, -1, -1)
Hinge  == Triple(-1, -1, 0)
Roller == Triple(0, -1, 0)
Slide  == Triple(-1, 0, 0)
Loose  == Triple(0, 0, 0)

Follow(n) == Triple(COUPLED + n, COUPLED + n, 0)

FourNodes(types, positions, codes, elem) ==
    LET from0(t) == [n \in 0 .. 3 |-> t[n + 1]] IN
    [nTotalNode |-> 4, type |-> from0(types), pos |-> from0(positions),
     code |-> from0(codes), elem |-> elem]

\* A beam from node 0 to node 1; the truss node 2 on its end follows it, or is
\* held upright by itself; a strut or two to node 3 above it.
Beam(fix0, code2, fix3, elem) ==
    FourNodes(<<"frame", "frame", "truss", "truss">>, << <<0, 0>>, <<3, 0>>, <<3, 0>>, <<3, 4>> >>,
              <<fix0, Loose, code2, fix3>>, elem)

\* The same with the top of the strut numbered first: the rows of node 1 are
\* shorter than those of node 2 after it.  With only one hinge it turns about
\* that, and there is no solution.
Hanger(fix0, fix1, elem) ==
    FourNodes(<<"truss", "frame", "frame", "truss">>, << <<3, 4>>, <<0, 0>>, <<3, 0>>, <<3, 0>> >>,
              <<fix0, fix1, Loose, Follow(2)>>, elem)

Structures ==
    {Beam(Fixed, code2, fix3, elem) :
        code2 \in {Follow(1), Slide}, fix3 \in {Hinge, Roller},
        elem \in {<<Frame(0, 1), Truss(2, 3), Truss(3, 0)>>,
                  <<Truss(0, 3), Truss(3, 2), Frame(1, 0)>>}}
    \cup {Beam(fix0, Follow(1), Hinge, <<Truss(2, 3), Frame(1, 0)>>) :
              fix0 \in {Hinge, Triple(-1, 0, -1)}}
    \cup {Hanger(fix[1], fix[2], <<Frame(1, 2), Truss(0, 3), Truss(0, 1)>>) :
              fix \in {<<Slide, Hinge>>, <<Hinge, Slide>>, <<Loose, Fixed>>, <<Loose, Hinge>>}}

\* Loads on the elements that are frames in s.
MemberLoad(s, types) ==
    {[type |-> t, elem |-> e, value |-> 4, position |-> x, t0 |-> 1, t1 |-> 3] :
        t \in types, x \in {1, 3}, e \in {f \in DOMAIN s.elem : s.elem[f].type = "frame"}}

NodeLoad(s) ==
    {[type |-> "FORCE_ON_NODE", at |-> d, value |-> 9] :
        d \in DOFs(s) \cap {<<0, 1>>, <<1, 2>>, <<2, 0>>, <<3, 1>>}}

Move(s) == {[type |-> "SUPPORT_MOVE", at |-> d, value |-> v] :
                d \in Known(s) \cap ({0, 1, 3} \X {0, 1, 2}), v \in {2}}

Case(s, ls) == [structure |-> s, loads |-> ls]

\* Two loads, of which one at most moves a support: a load on a beam, and
\* before it a force on a node; or the move of a support before either.
FrameInputs ==
    UNION {LET beam == MemberLoad(s, MemberLoads)
               node == NodeLoad(s)
           IN  {Case(s, <<CHOOSE a \in node : a.at = <<1, 2>>, b>>) : b \in beam}
               \cup {Case(s, <<a, b>>) : a \in node, b \in {c \in beam : c.type = "LATERAL_FORCE" /\ c.position = 1}}
               \cup {Case(s, <<a, b>>) : a \in Move(s),
                         b \in {c \in node : c.at = <<1, 2>>} \cup {c \in beam : c.type = "TEMPERATURE" /\ c.position = 1}}
           : s \in Structures}

\* Two moves of supports.
MoveInputs == UNION {{Case(s, <<a, b>>) : a, b \in Move(s)} : s \in Structures}

\* A chain of eight beams, clamped at its first node, with a load of another type
\* on each of them.
Chain == [nTotalNode |-> 9, type |-> [n \in 0 .. 8 |-> "frame"],
          pos  |-> [n \in 0 .. 8 |-> <<3 * n, 0>>],
          code |-> [n \in 0 .. 8 |-> IF n = 0 THEN Fixed ELSE Loose],
          elem |-> [e \in 1 .. 8 |-> Frame(e - 1, e)]]

LoadTypes == <<"LATERAL_FORCE", "LATERAL_UNIFORM_PRESSURE", "MOMENT_ON_A_POINT",
               "LATERAL_LINEARLY_PRESSURE", "AXIAL_PRESSURE", "AXIAL_FORCE",
               "MOMENT_ON_BEAM", "TEMPERATURE">>

OneOfEachType ==
    [e \in 1 .. 8 |-> CHOOSE l \in MemberLoad(Chain, {LoadTypes[e]}) : l.elem = e /\ l.position = 1]

ChainInputs == {Case(Chain, OneOfEachType)}
=============================================================================
