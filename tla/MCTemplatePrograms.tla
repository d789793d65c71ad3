-------------------------- MODULE MCTemplatePrograms --------------------------
(***************************************************************************)
(* The programs of the TMP project for TLC.  The project has several mains *)
(* and builds one at a time (TMP.vcxproj): the behaviours of this module    *)
(* are those of one of them, the others staying as they were.  The tuple   *)
(* has no main of its own: its client is any code that includes Tuple.h.   *)
(***************************************************************************)
EXTENDS Delegate, FunctionRef, Array, Memory, TupleAccess, TLC

VARIABLE program

Init ==
    /\ program \in {"Delegate", "FunctionRef", "Array", "Memory", "Tuple"}
    /\ DelegateInit /\ FunctionRefInit /\ ArrayInit /\ MemoryInit /\ AccessInit
    /\ program # "Delegate" => value \in [Variables -> {4}]

Next ==
    /\ UNCHANGED program
    /\ \/ program = "Delegate" /\ DelegateNext /\ UNCHANGED <<refVars, arrayVars, memoryVars, accessVars>>
       \/ program = "FunctionRef" /\ FunctionRefNext /\ UNCHANGED <<delegateVars, arrayVars, memoryVars, accessVars>>
       \/ program = "Array" /\ ArrayNext /\ UNCHANGED <<delegateVars, refVars, memoryVars, accessVars>>
       \/ program = "Memory" /\ MemoryNext /\ UNCHANGED <<delegateVars, refVars, arrayVars, accessVars>>
       \/ program = "Tuple" /\ AccessNext /\ UNCHANGED <<delegateVars, refVars, arrayVars, memoryVars>>

Spec == Init /\ [][Next]_<<program, delegateVars, refVars, arrayVars, memoryVars, accessVars>>

Payloads == {<<>>, <<"nParamB">>, <<"nParamB", "nParamB">>}
Params == {<<1>>}
Numbered == {-1, 0, 3, 5, 7}
Value(cv, ref) == [object |-> "value", cv |-> cv, ref |-> ref]
ElementTypes == {<<Value({}, "")>>, <<Value({}, "&")>>, <<Value({}, "&&")>>, <<Value({"const"}, "")>>,
                 <<Value({}, ""), Value({}, "&"), Value({}, "&&")>>}
Symmetry == Permutations(Blocks) \cup Permutations(Delegates)
=============================================================================
