---------------------------- MODULE DelegateValues ----------------------------
(***************************************************************************)
(* What the delegates of TMP/delegate promise: a delegate is a variable    *)
(* that holds a value, the binding: a function, the payload as it was when *)
(* the binding was made, and the state of the function if it is a lambda   *)
(* that has one.  Copies are independent.  Nothing is said of memory, and  *)
(* nothing of the answers that a delegate gives to questions.              *)
(***************************************************************************)
EXTENDS Tuple

CONSTANTS
    Delegates,      \* the delegate objects of the program
    StaticFuncs,    \* the global functions
    Lambdas,        \* the lambdas
    Variables,      \* the variables from which a payload is taken
    Values,         \* their values
    ArgLists,       \* the payloads asked for: sequences of variables
    ParamLists,     \* the arguments of the calls: sequences of values
    MaxCalls,       \* bound on the calls that a lambda counts
    None            \* no binding, no call

VARIABLES
    binding,        \* the value of each delegate
    value,          \* the value of each variable
    called          \* the last call: the function, its arguments, its state

vars == <<binding, value, called>>

NewBinding(f, args) == [func |-> f, payload |-> TTuple(args, value), calls |-> 0]

Init ==
    /\ binding = [d \in Delegates |-> None]
    /\ value \in [Variables -> Values]
    /\ called = None

Bind(d, f, args) ==
    /\ binding' = [binding EXCEPT ![d] = NewBinding(f, args)]
    /\ UNCHANGED <<value, called>>

Copy(d, e) ==
    /\ binding[e] # None
    /\ binding' = [binding EXCEPT ![d] = binding[e]]
    /\ UNCHANGED <<value, called>>

Forget(d) ==
    /\ binding' = [binding EXCEPT ![d] = None]
    /\ UNCHANGED <<value, called>>

(* The call itself: a lambda may change its state, a function has none.    *)
Call(d, params) ==
    LET b == binding[d]
        called_b == [b EXCEPT !.calls = IF b.func \in Lambdas THEN b.calls + 1 ELSE b.calls]
    IN  /\ b # None
        /\ b.func \in Lambdas => b.calls < MaxCalls
        /\ called' = [func |-> b.func, args |-> ApplyAfter(params, b.payload), calls |-> called_b.calls]
        /\ binding' = [binding EXCEPT ![d] = called_b]

Execute(d, params) == Call(d, params) /\ UNCHANGED value

SetVariable(v, x) ==
    /\ value' = [value EXCEPT ![v] = x]
    /\ UNCHANGED <<binding, called>>

Next ==
    \/ \E d \in Delegates :
        \/ \E f \in StaticFuncs \cup Lambdas, args \in ArgLists : Bind(d, f, args)
        \/ \E e \in Delegates : Copy(d, e)
        \/ \E params \in ParamLists : Execute(d, params)
        \/ Forget(d)
    \/ \E v \in Variables, x \in Values : SetVariable(v, x)

Spec == Init /\ [][Next]_vars
=============================================================================
