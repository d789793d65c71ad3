------------------------------- MODULE Delegate -------------------------------
(***************************************************************************)
(* TDelegate, its base FDelegateBase and its instances (TMP/delegate), with *)
(* the memory they are kept in.  A delegate object holds one pointer to a  *)
(* block of the heap in which the delegate instance, function and payload, *)
(* is constructed in place; a copy constructs a copy of the instance in a  *)
(* block of its own, and the destructor deletes the block.                 *)
(*                                                                         *)
(* Three things are left undone in the code, and in this module: no        *)
(* constructor sets the pointer, so that it is whatever was in the memory  *)
(* of the object; Allocate overwrites the pointer, so that the block of an *)
(* earlier binding is lost, never freed; and Unbind is empty.  A client    *)
(* may call, copy or delete a delegate only once it has bound it: the      *)
(* condition Bound of those calls is the client's, never the code's.       *)
(*                                                                         *)
(* The program is sequential: one action is one call.                      *)
(***************************************************************************)
EXTENDS Tuple

CONSTANTS
    Delegates,      \* the delegate objects of the program
    Blocks,         \* the blocks of the heap: bounds the bindings
    NULL,           \* the null pointer
    StaticFuncs,    \* the global functions
    Lambdas,        \* the lambdas; they may be mutable
    Variables,      \* the variables from which a payload is taken
    Values,         \* their values
    ArgLists,       \* the payloads asked for: sequences of variables
    ParamLists,     \* the arguments of the calls: sequences of values
    MaxCalls,       \* bound on the calls that a lambda counts
    None            \* in place of an instance where there is none

ASSUME NullIsNoBlock == NULL \notin Blocks
ASSUME KindsDiffer == StaticFuncs \cap Lambdas = {}
ASSUME ArgListsAreLists == ArgLists \subseteq Seq(Variables)
ASSUME CallsAreCounted == MaxCalls \in Nat

VARIABLES
    life,           \* of a delegate object: dead, raw (constructed), bound
    ptr,            \* what the pointer's memory holds, dead objects included
    heap,           \* the instance in each block, or None if it is free
    value,          \* the value of each variable
    called,         \* the last call: the function, its arguments, its state
    last            \* the last step if it was a question or Unbind, and the answer

delegateVars == <<life, ptr, heap, value, called, last>>

Answers == [call : {"none", "ExecuteIfSafe", "IsBound", "IsBoundToObject", "Unbind"},
            of : Delegates \cup {NULL}, answer : BOOLEAN]

Nothing == [call |-> "none", of |-> NULL, answer |-> FALSE]

(* The step is that call of d and returns that.                            *)
Said(call, d, answer) == last' = [call |-> call, of |-> d, answer |-> answer]

Silent == last' = Nothing

Functors == StaticFuncs \cup Lambdas

(* An instance: the function pointer or the copied functor, whose mutable  *)
(* state is reduced to a count of its calls, and the payload.              *)
Instances == [func : Functors, payload : Seq(Values), calls : 0 .. MaxCalls]

ASSUME NoneIsNoInstance == None \notin Instances

(* The state that both kinds of instances have: the variables, as they are *)
(* now, in a tuple.                                                        *)
Payload(args) == TTuple(args, value)

(* The constructors of the two kinds of instances.                         *)
NewInstance(f, args) == [func |-> f, payload |-> Payload(args), calls |-> 0]

Bound(d) == life[d] = "bound"

GetDelegateInstanceProtected(d) == ptr[d]

(* The possible answers: functors and functions are always safe to         *)
(* execute; of a block with no instance in it, what the memory there says. *)
IsSafeToExecute(instance) == IF instance # None THEN {TRUE} ELSE BOOLEAN

DelegateInit ==
    /\ life = [d \in Delegates |-> "dead"]
    /\ ptr \in [Delegates -> {NULL}]
    /\ heap = [b \in Blocks |-> None]
    /\ value \in [Variables -> Values]
    /\ called = None
    /\ last = Nothing

(* The address of the new block overwrites that of the one before.         *)
Allocate(d, b) == ptr' = [ptr EXCEPT ![d] = b]

(* operator new(size_t, FDelegateBase&), with the instance constructed in  *)
(* the block.                                                              *)
Emplace(d, instance) ==
    \E b \in Blocks :
        /\ heap[b] = None
        /\ heap' = [heap EXCEPT ![b] = instance]
        /\ Allocate(d, b)
        /\ life' = [life EXCEPT ![d] = "bound"]

(* The default and the 'null' constructor: ptr keeps what the memory of    *)
(* the object holds, the pointer of an object that was there before it or  *)
(* anything else.                                                          *)
Construct(d) ==
    /\ life[d] = "dead"
    /\ life' = [life EXCEPT ![d] = "raw"]
    /\ \E p \in Blocks \cup {NULL} : ptr' = [ptr EXCEPT ![d] = p]
    /\ UNCHANGED <<heap, value, called>> /\ Silent

(* A second binding displaces the first.  A payload of two is not          *)
(* accepted: the call of Get in Execute, which is virtual, does not compile. *)
BindLambda(d, f, args) ==
    /\ life[d] # "dead"
    /\ f \in Lambdas /\ GetCompiles(Len(args))
    /\ Emplace(d, NewInstance(f, args))
    /\ UNCHANGED <<value, called>> /\ Silent

(* CreateLambda and CreateStatic bind a local Result and return it.  If the *)
(* compiler does not build Result in the place of d at once, it copies it  *)
(* there and destroys it: d then owns the second block and the first is    *)
(* free again, which leaves the choice of the block open as Emplace does.  *)
CreateLambda(d, f, args) ==
    /\ life[d] = "dead"
    /\ f \in Lambdas /\ GetCompiles(Len(args))
    /\ Emplace(d, NewInstance(f, args))
    /\ UNCHANGED <<value, called>> /\ Silent

CreateStatic(d, f, args) ==
    /\ life[d] = "dead"
    /\ f \in StaticFuncs /\ GetCompiles(Len(args))
    /\ Emplace(d, NewInstance(f, args))
    /\ UNCHANGED <<value, called>> /\ Silent

(* Mutant of CreateCopy: the functor is constructed anew.                  *)
CreateCopyOfFresh(d, instance) == Emplace(d, [instance EXCEPT !.calls = 0])

(* CreateCopy: the copy constructor of the instance, in a block of the     *)
(* delegate d; functor state and payload are copied as they are now.       *)
CreateCopy(d, instance) == Emplace(d, instance)

Assign(d, e) ==
    /\ life[d] # "dead" /\ Bound(e)
    /\ IF d # e /\ GetDelegateInstanceProtected(e) # NULL
       THEN CreateCopy(d, heap[ptr[e]])
       ELSE UNCHANGED <<life, ptr, heap>>
    /\ UNCHANGED <<value, called>> /\ Silent

(* Mutant of CopyConstruct: the copy shares the block.                     *)
CopyConstructShared(d, e) ==
    /\ life[d] = "dead" /\ Bound(e)
    /\ ptr' = [ptr EXCEPT ![d] = ptr[e]]
    /\ life' = [life EXCEPT ![d] = "bound"]
    /\ UNCHANGED <<heap, value, called>> /\ Silent

(* The copy constructor sets no pointer either, and then assigns.          *)
CopyConstruct(d, e) ==
    /\ life[d] = "dead" /\ Bound(e)
    /\ GetDelegateInstanceProtected(e) # NULL
    /\ CreateCopy(d, heap[ptr[e]])
    /\ UNCHANGED <<value, called>> /\ Silent

(* Invoke through ApplyAfter.  The functor is called in place, as a        *)
(* mutable member of the instance, and keeps the state it leaves.          *)
Call(d, params) ==
    LET instance == heap[ptr[d]]
        calls == IF instance.func \in Lambdas THEN instance.calls + 1 ELSE instance.calls
    IN  /\ calls <= MaxCalls
        /\ called' = [func |-> instance.func,
                      args |-> ApplyAfter(params, instance.payload),
                      calls |-> calls]
        /\ heap' = [heap EXCEPT ![ptr[d]].calls = calls]

Execute(d, params) ==
    /\ Bound(d)
    /\ Call(d, params)
    /\ UNCHANGED <<life, ptr, value>> /\ Silent

(* ExecuteIfSafe of a functor: its call is commented out.                  *)
FunctorExecuteIfSafe(d) == UNCHANGED <<heap, called>> /\ Said("ExecuteIfSafe", d, TRUE)

StaticExecuteIfSafe(d, params) == Call(d, params) /\ Said("ExecuteIfSafe", d, TRUE)

ExecuteIfSafe(d, params) ==
    /\ Bound(d)
    /\ IF heap[ptr[d]].func \in StaticFuncs
       THEN StaticExecuteIfSafe(d, params)
       ELSE FunctorExecuteIfSafe(d)
    /\ UNCHANGED <<life, ptr, value>>

(* Asked of a delegate that is not bound, both questions read the pointer  *)
(* that no constructor has set.                                            *)
IsBound(d) ==
    /\ life[d] # "dead"
    /\ \E answer \in IF ptr[d] # NULL THEN IsSafeToExecute(heap[ptr[d]]) ELSE {FALSE} :
          Said("IsBound", d, answer)
    /\ UNCHANGED <<life, ptr, heap, value, called>>

(* HasSameObject is not asked: any object will do.                         *)
IsBoundToObject(d, isNull) ==
    /\ life[d] # "dead"
    /\ Said("IsBoundToObject", d, ~isNull /\ ptr[d] # NULL)
    /\ UNCHANGED <<life, ptr, heap, value, called>>

(* Unbind does nothing: all of its body is commented out.                  *)
Unbind(d) ==
    /\ life[d] # "dead"
    /\ Said("Unbind", d, FALSE)
    /\ UNCHANGED <<life, ptr, heap, value, called>>

(* The destructor deletes the block at the pointer, bound or not; the      *)
(* pointer stays in memory.                                                *)
Destroy(d) ==
    /\ life[d] # "dead"
    /\ life' = [life EXCEPT ![d] = "dead"]
    /\ heap' = [b \in Blocks |-> IF b = ptr[d] THEN None ELSE heap[b]]
    /\ UNCHANGED <<ptr, value, called>> /\ Silent

SetVariable(v, x) ==
    /\ value' = [value EXCEPT ![v] = x]
    /\ UNCHANGED <<life, ptr, heap, called>> /\ Silent

(* The clients of UE_Delegate.cpp bind every delegate before it ends; one  *)
(* that ends without, Destroy(d) unguarded, frees the block of another.    *)
DelegateNext ==
    \/ \E d \in Delegates :
        \/ Construct(d)
        \/ \E f \in Lambdas, args \in ArgLists : BindLambda(d, f, args) \/ CreateLambda(d, f, args)
        \/ \E f \in StaticFuncs, args \in ArgLists : CreateStatic(d, f, args)
        \/ \E e \in Delegates : Assign(d, e) \/ CopyConstruct(d, e)
        \/ \E params \in ParamLists : Execute(d, params) \/ ExecuteIfSafe(d, params)
        \/ IsBound(d)
        \/ \E isNull \in BOOLEAN : IsBoundToObject(d, isNull)
        \/ Unbind(d)
        \/ Bound(d) /\ Destroy(d)
    \/ \E v \in Variables, x \in Values : SetVariable(v, x)

DelegateSpec == DelegateInit /\ [][DelegateNext]_delegateVars
-------------------------------------------------------------------------------
(* Every variable stays in its range.                                      *)
DelegateTypeOK ==
    /\ life \in [Delegates -> {"dead", "raw", "bound"}]
    /\ ptr \in [Delegates -> Blocks \cup {NULL}]
    /\ heap \in [Blocks -> Instances \cup {None}]
    /\ value \in [Variables -> Values]
    /\ last \in Answers

(* A bound delegate points to an allocated block that no other bound       *)
(* delegate points to, however often the blocks of others were freed and   *)
(* allocated again: Execute never runs an instance that is gone, and the   *)
(* destructors of DelegateBase.h free each block once.  It takes clients   *)
(* that bind every delegate before it ends, as those of UE_Delegate.cpp    *)
(* do; of a delegate that was never bound the destructor deletes whatever  *)
(* block its pointer happens to hold, the block of another one perhaps.    *)
OwnedOnce ==
    \A d \in Delegates : Bound(d) =>
        /\ ptr[d] \in Blocks
        /\ heap[ptr[d]] # None
        /\ \A e \in Delegates : Bound(e) /\ ptr[e] = ptr[d] => e = d

Binding == [d \in Delegates |-> IF Bound(d) THEN heap[ptr[d]] ELSE None]

Abstract == INSTANCE DelegateValues WITH binding <- Binding

(* A delegate behaves as a value: it calls the function it was last bound  *)
(* to or copied from, with the payload as the variables were at that time  *)
(* (main of UE_Delegate.cpp changes nParamB in between), after the         *)
(* arguments of the call, and what a lambda changes in its own state is    *)
(* seen by the calls of the same delegate and by no copy made before.      *)
(* Nothing is said here of the answers of ExecuteIfSafe, IsBound and       *)
(* IsBoundToObject, nor of Unbind: the comments on those calls promise     *)
(* something else than the code does (README.md, 6).                       *)
ImplementsValues == Abstract!Spec
=============================================================================
