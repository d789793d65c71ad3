----------------------------- MODULE FunctionRef -----------------------------
(***************************************************************************)
(* TFunctionRef (TMP/function/Function.h) and its clients (UE_Function.cpp). *)
(* A function reference holds the address of the object it was built from  *)
(* and the function that calls an object of that type.  It owns nothing:   *)
(* whether a call reaches the lambda that was meant depends on which       *)
(* objects are still on the stack, and a TFunctionRef that is built from   *)
(* another one refers to that one, not to its lambda, because the template *)
(* constructors are selected before the copy constructor.                  *)
(*                                                                         *)
(* The stack of the program is a sequence of objects, an address is an     *)
(* index of it, and the objects of a function end when it returns.         *)
(***************************************************************************)
EXTENDS Integers, Sequences, SequencesExt

CONSTANTS
    LambdaObjects,       \* the lambdas of the program
    MaxObjects,     \* bound on the objects of the stack
    MaxFrames       \* bound on nested calls

ASSUME FunctionRefAssumption == MaxObjects \in Nat

VARIABLES
    stack,          \* the objects: a lambda, or a reference with its address
    frames,         \* where the objects of each active function begin
    reached         \* what the last call through a reference ran

refVars == <<stack, frames, reached>>

Lost == "Lost"

(* An object: of a reference also the lambda that a call through it ran    *)
(* when it was built (meant), and whether it was bound to a named object   *)
(* whose scope encloses its own (lasting).                                 *)
Lambda(f) == [ptr |-> 0, meant |-> f, lasting |-> TRUE]

(* Bind: the address of the object itself, whichever it is.                *)
Reference(i, meant, lasting) == [ptr |-> i, meant |-> meant, lasting |-> lasting]

GetPtr(i) == stack[i].ptr

IsLambda(i) == GetPtr(i) = 0

(* TFunctionRefCaller::Call on a reference is the reference's own operator(): *)
(* the call goes from one to the next until it finds a lambda, or an       *)
(* address where there is no object any more, or for ever.  Called[n][j]   *)
(* is what n calls from the object at address j on have found.             *)
Called[n \in 0 .. MaxObjects] ==
    [j \in 0 .. MaxObjects + 1 |->
        IF n = 0 \/ j \notin DOMAIN stack THEN Lost
        ELSE IF IsLambda(j) THEN stack[j].meant
        ELSE Called[n - 1][GetPtr(j)]]

Target(i) == Called[MaxObjects][i]

Room(n) == Len(stack) + n <= MaxObjects

Inside == Len(frames) > 1

FunctionRefInit ==
    /\ stack = <<>>
    /\ frames = <<0>>
    /\ reached = Lost

(* auto lambda = [...]                                                     *)
DeclareLambda(f) ==
    /\ Room(1)
    /\ stack' = Append(stack, Lambda(f))
    /\ UNCHANGED <<frames, reached>>

(* Mutant of DeclareRef: the object is passed by value.                    *)
DeclareRefByValue(i) ==
    /\ Room(1)
    /\ stack' = Append(stack, Reference(Len(stack) + 2, stack[i].meant, stack[i].lasting))
    /\ UNCHANGED <<frames, reached>>

(* TFunctionRef Ref(Object): Object is a lambda or a reference in scope.   *)
DeclareRef(i) ==
    /\ Room(1)
    /\ stack' = Append(stack, Reference(i, stack[i].meant, stack[i].lasting))
    /\ UNCHANGED <<frames, reached>>

(* abe abe_b([&](int) {...}): the member is bound to a temporary, whose    *)
(* slot behind it is free again at the end of the statement.               *)
DeclareRefToTemporary(f) ==
    /\ Room(2)
    /\ stack' = Append(stack, Reference(Len(stack) + 2, f, FALSE))
    /\ UNCHANGED <<frames, reached>>

(* A call with a reference as parameter, bound to the argument: a named    *)
(* object, or a temporary, which lives until the call returns.             *)
CallWithObject(i) ==
    /\ Room(1) /\ Len(frames) < MaxFrames
    /\ frames' = Append(frames, Len(stack))
    /\ stack' = Append(stack, Reference(i, stack[i].meant, stack[i].lasting))
    /\ UNCHANGED reached

CallWithTemporary(f) ==
    /\ Room(2) /\ Len(frames) < MaxFrames
    /\ frames' = Append(frames, Len(stack))
    /\ stack' = Append(Append(stack, Lambda(f)), Reference(Len(stack) + 1, f, TRUE))
    /\ UNCHANGED reached

(* The end of a function takes its objects with it.                        *)
Return ==
    /\ Inside
    /\ stack' = SubSeq(stack, 1, Last(frames))
    /\ frames' = Front(frames)
    /\ UNCHANGED reached

(* GetTransform: return TFunctionRef<int(int)>(lambda) builds the result in *)
(* place, in the caller's frame.  Bound to an object of the function it    *)
(* dangles at once, even if that object is a parameter that refers to a    *)
(* lambda of the caller.                                                   *)
ReturnRef(i) ==
    /\ Inside
    /\ stack' = Append(SubSeq(stack, 1, Last(frames)),
                       Reference(i, stack[i].meant, stack[i].lasting /\ i <= Last(frames)))
    /\ frames' = Front(frames)
    /\ UNCHANGED reached

(* operator(): of a call through an object that is gone nothing is known.  *)
Invoke(i) ==
    /\ ~IsLambda(i)
    /\ IF stack[i].lasting THEN reached' = Target(i)
                           ELSE reached' \in LambdaObjects \cup {Lost}
    /\ UNCHANGED <<stack, frames>>

FunctionRefNext ==
    \/ \E f \in LambdaObjects :
        DeclareLambda(f) \/ DeclareRefToTemporary(f) \/ CallWithTemporary(f)
    \/ \E i \in DOMAIN stack :
        DeclareRef(i) \/ CallWithObject(i) \/ ReturnRef(i) \/ Invoke(i)
    \/ Return

FunctionRefSpec == FunctionRefInit /\ [][FunctionRefNext]_refVars
-------------------------------------------------------------------------------
(* A reference that was bound, directly or through other references, to    *)
(* objects whose scopes enclose its own reaches the lambda it was meant to *)
(* reach, whatever was called, returned from and declared in between: the  *)
(* chain of references that Function.h builds where a copy was written     *)
(* ends there, and no slot in it has been given to another object.  The    *)
(* references of abe_b and GetTransform in UE_Function.cpp are not such:   *)
(* of them, and of references returned, it says nothing.                   *)
LastingRefsReach ==
    \A i \in DOMAIN stack : stack[i].lasting => Target(i) = stack[i].meant
=============================================================================
