---------------------------- MODULE ProgramsProofs ----------------------------
(***************************************************************************)
(* Theorems about the programs of the TMP project and about the render     *)
(* program, each for any values of its constants: the delegates, the       *)
(* function references, TArray::Reserve, the functions on memory, the      *)
(* access to tuples and the render program, in this order.                 *)
(***************************************************************************)
EXTENDS Delegate, FunctionRef, Array, Memory, TupleAccess, RenderProgram,
        SequenceTheorems, WellFoundedInduction, TLAPS

-------------------------------------------------------------------------------
(* Theorems about Delegate, for every number of delegates, blocks, values  *)
(* and variables: the invariant DelegateTypeOK /\ OwnedOnce is inductive,  *)
(* and with it every step of the delegates in their memory is a step of    *)
(* the delegates as values, or changes none of them.                       *)

IInv == DelegateTypeOK /\ OwnedOnce

(* A payload is a sequence of values of the variables.                     *)
LEMMA TupleOfValues ==
    ASSUME value \in [Variables -> Values], NEW args \in Seq(Variables)
    PROVE  TTuple(args, value) \in Seq(Values)
<1> DEFINE t == TTuple(args, value)
<1>1. Len(args) \in Nat /\ DOMAIN args = 1 .. Len(args)
  OBVIOUS
<1>2. t \in [1 .. Len(args) -> Values]
  BY <1>1, ElementOfSeq DEF TTuple
<1> HIDE DEF t
<1>3. t \in UNION {[1 .. n -> Values] : n \in Nat}
  BY <1>1, <1>2
<1> QED
  BY <1>3, SeqDef, Zenon DEF t

(* A new instance of either kind is one.                                   *)
LEMMA NewInstanceTyped ==
    ASSUME value \in [Variables -> Values], NEW f \in Functors, NEW args \in ArgLists
    PROVE  NewInstance(f, args) \in Instances
<1>1. TTuple(args, value) \in Seq(Values)
  BY TupleOfValues, ArgListsAreLists
<1>2. 0 \in 0 .. MaxCalls
  BY CallsAreCounted
<1> QED
  BY <1>1, <1>2 DEF NewInstance, Payload, Instances

(* What is said is an answer, also if nothing is.                          *)
LEMMA SaidIsAnswer ==
    /\ Silent => last' \in Answers
    /\ \A call \in {"none", "ExecuteIfSafe", "IsBound", "IsBoundToObject", "Unbind"},
          d \in Delegates, answer \in BOOLEAN : Said(call, d, answer) => last' \in Answers
<1> DEFINE Calls == {"none", "ExecuteIfSafe", "IsBound", "IsBoundToObject", "Unbind"}
<1>1. \A call \in Calls, d \in Delegates \cup {NULL}, answer \in BOOLEAN :
          [call |-> call, of |-> d, answer |-> answer] \in Answers
  <2> HIDE DEF Calls
  <2>1. Answers = [call : Calls, of : Delegates \cup {NULL}, answer : BOOLEAN]
    BY DEF Answers, Calls
  <2> QED
    BY <2>1
<1>2. Nothing \in Answers
  <2>1. "none" \in Calls
    OBVIOUS
  <2> HIDE DEF Calls
  <2> QED
    BY <1>1, <2>1 DEF Nothing
<1> HIDE DEF Calls
<1>3. \A call \in Calls, d \in Delegates, answer \in BOOLEAN :
          Said(call, d, answer) => last' \in Answers
  BY <1>1 DEF Said
<1> QED
  BY <1>2, <1>3 DEF Silent, Calls

(* Emplacing an instance in a delegate keeps the invariant, whatever block *)
(* it gets, and gives that delegate the instance as its value and leaves   *)
(* the others as they are.                                                 *)
LEMMA EmplaceKeeps ==
    ASSUME IInv, NEW d \in Delegates, NEW instance \in Instances, Emplace(d, instance),
           UNCHANGED value, last' \in Answers
    PROVE  IInv'
<1>1. PICK b \in Blocks : heap[b] = None /\ heap' = [heap EXCEPT ![b] = instance]
                          /\ ptr' = [ptr EXCEPT ![d] = b] /\ life' = [life EXCEPT ![d] = "bound"]
  BY DEF Emplace, Allocate
<1>2. DelegateTypeOK'
  BY <1>1 DEF IInv, DelegateTypeOK
<1>3. ASSUME NEW e \in Delegates, Bound(e)'
      PROVE  ptr'[e] \in Blocks /\ heap'[ptr'[e]] # None
  <2>1. CASE e = d
    BY <1>1, <2>1, NoneIsNoInstance DEF IInv, DelegateTypeOK
  <2>2. CASE e # d
    BY <1>1, <1>3, <2>2, NoneIsNoInstance DEF IInv, DelegateTypeOK, OwnedOnce, Bound
  <2> QED
    BY <2>1, <2>2
<1>4. ASSUME NEW e \in Delegates, Bound(e)', NEW g \in Delegates, Bound(g)', ptr'[e] = ptr'[g]
      PROVE  e = g
  BY <1>1, <1>4 DEF IInv, DelegateTypeOK, OwnedOnce, Bound
<1> QED
  BY <1>2, <1>3, <1>4 DEF IInv, OwnedOnce

LEMMA EmplaceBinds ==
    ASSUME IInv, NEW d \in Delegates, NEW instance \in Instances, Emplace(d, instance)
    PROVE  Binding' = [Binding EXCEPT ![d] = instance]
<1>1. PICK b \in Blocks : heap[b] = None /\ heap' = [heap EXCEPT ![b] = instance]
                          /\ ptr' = [ptr EXCEPT ![d] = b] /\ life' = [life EXCEPT ![d] = "bound"]
  BY DEF Emplace, Allocate
<1>2. ASSUME NEW e \in Delegates
      PROVE  Binding'[e] = IF e = d THEN instance ELSE Binding[e]
  BY <1>1 DEF IInv, DelegateTypeOK, OwnedOnce, Bound, Binding
<1> QED
  BY <1>2 DEF Binding

(* The value of a bound delegate is an instance, in the block it points to. *)
LEMMA BoundIsInstance ==
    ASSUME IInv, NEW d \in Delegates, Bound(d)
    PROVE  /\ ptr[d] \in Blocks /\ ptr[d] # NULL
           /\ heap[ptr[d]] \in Instances
           /\ Binding[d] = heap[ptr[d]] /\ Binding[d] # None
BY NullIsNoBlock, NoneIsNoInstance DEF IInv, DelegateTypeOK, OwnedOnce, Binding

(* A call changes the state of the instance called and nothing else.       *)
LEMMA CallKeeps ==
    ASSUME IInv, NEW d \in Delegates, Bound(d), NEW params, Call(d, params),
           UNCHANGED <<life, ptr, value>>, last' \in Answers
    PROVE  IInv'
<1> DEFINE instance == heap[ptr[d]]
           calls == IF instance.func \in Lambdas THEN instance.calls + 1 ELSE instance.calls
           after == [instance EXCEPT !.calls = calls]
<1>1. instance \in Instances /\ ptr[d] \in Blocks
  BY BoundIsInstance
<1>2. calls \in 0 .. MaxCalls
  BY <1>1, CallsAreCounted DEF Call, Instances
<1>3. after \in Instances
  BY <1>1, <1>2 DEF Instances
<1>4. heap' = [heap EXCEPT ![ptr[d]] = after]
  BY DEF Call
<1> HIDE DEF instance, calls, after
<1>5. DelegateTypeOK'
  BY <1>1, <1>3, <1>4 DEF IInv, DelegateTypeOK
<1>6. OwnedOnce'
  BY <1>1, <1>3, <1>4, NoneIsNoInstance DEF IInv, DelegateTypeOK, OwnedOnce, Bound
<1> QED
  BY <1>5, <1>6 DEF IInv

LEMMA CallIsCall ==
    ASSUME IInv, NEW d \in Delegates, Bound(d), NEW params, Call(d, params),
           UNCHANGED <<life, ptr>>
    PROVE  Abstract!Call(d, params)
<1> DEFINE instance == heap[ptr[d]]
           calls == IF instance.func \in Lambdas THEN instance.calls + 1 ELSE instance.calls
           after == [instance EXCEPT !.calls = calls]
<1>1. instance \in Instances /\ ptr[d] \in Blocks /\ Binding[d] = instance /\ Binding[d] # None
  BY BoundIsInstance
<1>2. heap' = [heap EXCEPT ![ptr[d]] = after]
  BY DEF Call
<1>3. ASSUME NEW e \in Delegates
      PROVE  Binding'[e] = IF e = d THEN after ELSE Binding[e]
  <2> HIDE DEF after
  <2> QED
    BY <1>1, <1>2 DEF IInv, DelegateTypeOK, OwnedOnce, Bound, Binding
<1>4. Binding' = [Binding EXCEPT ![d] = after]
  <2> HIDE DEF after
  <2> QED
    BY <1>3 DEF Binding
<1>5. instance.func \in Lambdas => instance.calls < MaxCalls
  BY <1>1, CallsAreCounted DEF Call, Instances
<1>6. after.calls = calls
  BY <1>1 DEF Instances
<1>7. called' = [func |-> instance.func, args |-> ApplyAfter(params, instance.payload),
                 calls |-> after.calls]
  BY <1>6 DEF Call
<1> HIDE DEF instance
<1> QED
  BY <1>1, <1>4, <1>5, <1>7, Zenon DEF Abstract!Call, Abstract!ApplyAfter, Abstract!Get, ApplyAfter, Get

(* The invariant holds at the start and every action keeps it.             *)
LEMMA InvInit == DelegateInit => IInv
BY DEF DelegateInit, IInv, DelegateTypeOK, OwnedOnce, Bound, Nothing, Answers

LEMMA InvNext == IInv /\ [DelegateNext]_delegateVars => IInv'
<1> SUFFICES ASSUME IInv, [DelegateNext]_delegateVars PROVE IInv'
  OBVIOUS
<1> USE DEF IInv
<1>0. CASE UNCHANGED delegateVars
  BY <1>0 DEF delegateVars, DelegateTypeOK, OwnedOnce, Bound
<1>1. ASSUME NEW d \in Delegates, Construct(d) PROVE IInv'
  BY <1>1, SaidIsAnswer DEF Construct, DelegateTypeOK, OwnedOnce, Bound
<1>2. ASSUME NEW d \in Delegates, NEW f \in Functors, NEW args \in ArgLists,
             Emplace(d, NewInstance(f, args)), UNCHANGED <<value, called>>, Silent
      PROVE  IInv'
  BY <1>2, NewInstanceTyped, SaidIsAnswer, EmplaceKeeps DEF DelegateTypeOK
<1>3. ASSUME NEW d \in Delegates, NEW e \in Delegates, Bound(e), CreateCopy(d, heap[ptr[e]]),
             UNCHANGED <<value, called>>, Silent
      PROVE  IInv'
  BY <1>3, BoundIsInstance, SaidIsAnswer, EmplaceKeeps DEF CreateCopy
<1>4. ASSUME NEW d \in Delegates, NEW e \in Delegates, Assign(d, e) PROVE IInv'
  <2>1. CASE d # e /\ GetDelegateInstanceProtected(e) # NULL
    BY <1>3, <1>4, <2>1 DEF Assign
  <2>2. CASE ~(d # e /\ GetDelegateInstanceProtected(e) # NULL)
    BY <1>4, <2>2, SaidIsAnswer DEF Assign, DelegateTypeOK, OwnedOnce, Bound
  <2> QED
    BY <2>1, <2>2
<1>5. ASSUME NEW d \in Delegates, NEW params \in ParamLists, Execute(d, params) PROVE IInv'
  BY <1>5, CallKeeps, SaidIsAnswer DEF Execute
<1>6. ASSUME NEW d \in Delegates, NEW params \in ParamLists, ExecuteIfSafe(d, params) PROVE IInv'
  <2>1. last' \in Answers
    BY <1>6, SaidIsAnswer DEF ExecuteIfSafe, StaticExecuteIfSafe, FunctorExecuteIfSafe
  <2>2. CASE heap[ptr[d]].func \in StaticFuncs
    BY <1>6, <2>1, <2>2, CallKeeps DEF ExecuteIfSafe, StaticExecuteIfSafe
  <2>3. CASE heap[ptr[d]].func \notin StaticFuncs
    BY <1>6, <2>1, <2>3 DEF ExecuteIfSafe, FunctorExecuteIfSafe, DelegateTypeOK, OwnedOnce, Bound
  <2> QED
    BY <2>2, <2>3
<1>7. ASSUME NEW d \in Delegates, IsBound(d) PROVE IInv'
  <2>1. last' \in Answers
    BY <1>7, SaidIsAnswer DEF IsBound, IsSafeToExecute
  <2> QED
    BY <1>7, <2>1 DEF IsBound, DelegateTypeOK, OwnedOnce, Bound
<1>8. ASSUME NEW d \in Delegates, NEW isNull \in BOOLEAN, IsBoundToObject(d, isNull) PROVE IInv'
  <2>1. (~isNull /\ ptr[d] # NULL) \in BOOLEAN
    OBVIOUS
  <2>2. last' \in Answers
    BY <1>8, <2>1, SaidIsAnswer DEF IsBoundToObject
  <2> QED
    BY <1>8, <2>2 DEF IsBoundToObject, DelegateTypeOK, OwnedOnce, Bound
<1>9. ASSUME NEW d \in Delegates, Bound(d), Destroy(d) PROVE IInv'
  <2>1. DelegateTypeOK'
    BY <1>9, SaidIsAnswer DEF Destroy, DelegateTypeOK
  <2>2. OwnedOnce'
    BY <1>9 DEF Destroy, DelegateTypeOK, OwnedOnce, Bound
  <2> QED
    BY <2>1, <2>2
<1>10. ASSUME NEW v \in Variables, NEW x \in Values, SetVariable(v, x) PROVE IInv'
  BY <1>10, SaidIsAnswer DEF SetVariable, DelegateTypeOK, OwnedOnce, Bound
<1>11. ASSUME NEW d \in Delegates, Unbind(d) PROVE IInv'
  BY <1>11, SaidIsAnswer DEF Unbind, DelegateTypeOK, OwnedOnce, Bound
<1> QED
  BY <1>0, <1>1, <1>2, <1>3, <1>4, <1>5, <1>6, <1>7, <1>8, <1>9, <1>10, <1>11
  DEF DelegateNext, BindLambda, CreateLambda, CreateStatic, CopyConstruct, Functors

(* Delegate.tla is type correct.                                           *)
THEOREM DelegateTypeCorrect == DelegateSpec => []DelegateTypeOK
<1>1. IInv => DelegateTypeOK
  BY DEF IInv
<1> QED
  BY InvInit, InvNext, <1>1, PTL DEF DelegateSpec

(* No delegate that is bound points to a block that is free or to one that *)
(* another delegate deletes as well (operator delete, DelegateBase.h).     *)
THEOREM EveryBlockOwnedOnce == DelegateSpec => []OwnedOnce
<1>1. IInv => OwnedOnce
  BY DEF IInv
<1> QED
  BY InvInit, InvNext, <1>1, PTL DEF DelegateSpec
-------------------------------------------------------------------------------
(* Initially every delegate is unbound.                                    *)
LEMMA InitIsInit == DelegateInit => Abstract!Init
BY DEF DelegateInit, Abstract!Init, Binding, Bound

(* To make a binding is to give the delegate a value.                      *)
LEMMA EmplaceIsBind ==
    ASSUME IInv, NEW d \in Delegates, NEW f \in Functors, NEW args \in ArgLists,
           Emplace(d, NewInstance(f, args)), UNCHANGED <<value, called>>, Silent
    PROVE  Abstract!Bind(d, f, args)
<1>1. NewInstance(f, args) \in Instances
  BY NewInstanceTyped DEF IInv, DelegateTypeOK
<1>2. Binding' = [Binding EXCEPT ![d] = NewInstance(f, args)]
  BY <1>1, EmplaceBinds
<1> QED
  BY <1>2 DEF Abstract!Bind, Abstract!NewBinding, Abstract!TTuple, NewInstance, Payload, TTuple

(* To construct a copy of another delegate's instance is to copy its value. *)
LEMMA CreateCopyIsCopy ==
    ASSUME IInv, NEW d \in Delegates, NEW e \in Delegates, Bound(e),
           CreateCopy(d, heap[ptr[e]]), UNCHANGED <<value, called>>, Silent
    PROVE  Abstract!Copy(d, e)
BY BoundIsInstance, EmplaceBinds DEF CreateCopy, Abstract!Copy

(* Every action of the delegates in memory is one of the delegates as      *)
(* values, or leaves the values and what is seen of them unchanged.        *)
LEMMA NextIsNext == IInv /\ [DelegateNext]_delegateVars => [Abstract!Next]_(Abstract!vars)
<1> SUFFICES ASSUME IInv, [DelegateNext]_delegateVars
             PROVE  Abstract!Next \/ UNCHANGED Abstract!vars
  OBVIOUS
<1> USE DEF Abstract!Next
<1>0. CASE UNCHANGED delegateVars
  BY <1>0 DEF delegateVars, Abstract!vars, Binding, Bound
<1>1. ASSUME NEW d \in Delegates, Construct(d) PROVE UNCHANGED Abstract!vars
  BY <1>1 DEF Construct, Abstract!vars, Binding, Bound, IInv, DelegateTypeOK
<1>2. ASSUME NEW d \in Delegates, NEW f \in Functors, NEW args \in ArgLists,
             Emplace(d, NewInstance(f, args)), UNCHANGED <<value, called>>, Silent
      PROVE  Abstract!Next
  BY <1>2, EmplaceIsBind DEF Functors
<1>3. ASSUME NEW d \in Delegates, NEW e \in Delegates, Assign(d, e)
      PROVE  Abstract!Next \/ UNCHANGED Abstract!vars
  <2>1. CASE d # e /\ GetDelegateInstanceProtected(e) # NULL
    BY <1>3, <2>1, CreateCopyIsCopy DEF Assign
  <2>2. CASE ~(d # e /\ GetDelegateInstanceProtected(e) # NULL)
    BY <1>3, <2>2 DEF Assign, Abstract!vars, Binding, Bound
  <2> QED
    BY <2>1, <2>2
<1>4. ASSUME NEW d \in Delegates, NEW e \in Delegates, CopyConstruct(d, e) PROVE Abstract!Next
  BY <1>4, CreateCopyIsCopy DEF CopyConstruct
<1>5. ASSUME NEW d \in Delegates, NEW params \in ParamLists, Execute(d, params)
      PROVE  Abstract!Next
  <2>1. Abstract!Execute(d, params)
    BY <1>5, CallIsCall DEF Execute, Abstract!Execute
  <2> QED
    BY <2>1
<1>6. ASSUME NEW d \in Delegates, NEW params \in ParamLists, ExecuteIfSafe(d, params)
      PROVE  Abstract!Next \/ UNCHANGED Abstract!vars
  <2>1. CASE heap[ptr[d]].func \in StaticFuncs
    <3>1. Abstract!Execute(d, params)
      BY <1>6, <2>1, CallIsCall DEF ExecuteIfSafe, StaticExecuteIfSafe, Abstract!Execute
    <3> QED
      BY <3>1
  <2>2. CASE heap[ptr[d]].func \notin StaticFuncs
    BY <1>6, <2>2 DEF ExecuteIfSafe, FunctorExecuteIfSafe, Abstract!vars, Binding, Bound
  <2> QED
    BY <2>1, <2>2
<1>7. ASSUME NEW d \in Delegates, IsBound(d) PROVE UNCHANGED Abstract!vars
  BY <1>7 DEF IsBound, Abstract!vars, Binding, Bound
<1>8. ASSUME NEW d \in Delegates, NEW isNull \in BOOLEAN, IsBoundToObject(d, isNull)
      PROVE  UNCHANGED Abstract!vars
  BY <1>8 DEF IsBoundToObject, Abstract!vars, Binding, Bound
<1>9. ASSUME NEW d \in Delegates, Bound(d), Destroy(d) PROVE Abstract!Next
  <2>1. ASSUME NEW e \in Delegates
        PROVE  Binding'[e] = IF e = d THEN None ELSE Binding[e]
    BY <1>9 DEF Destroy, Binding, Bound, IInv, DelegateTypeOK, OwnedOnce
  <2>2. Binding' = [Binding EXCEPT ![d] = None]
    BY <2>1 DEF Binding
  <2> QED
    BY <1>9, <2>2 DEF Destroy, Abstract!Forget
<1>10. ASSUME NEW v \in Variables, NEW x \in Values, SetVariable(v, x) PROVE Abstract!Next
  <2>1. Abstract!SetVariable(v, x)
    BY <1>10 DEF SetVariable, Abstract!SetVariable, Binding, Bound
  <2> QED
    BY <2>1
<1>11. ASSUME NEW d \in Delegates, Unbind(d) PROVE UNCHANGED Abstract!vars
  BY <1>11 DEF Unbind, Abstract!vars, Binding, Bound
<1> QED
  BY <1>0, <1>1, <1>2, <1>3, <1>4, <1>5, <1>6, <1>7, <1>8, <1>9, <1>10, <1>11
  DEF DelegateNext, BindLambda, CreateLambda, CreateStatic, Functors

(* The delegates of the code, pointers, blocks and copies in place,        *)
(* implement the delegates as values: every call through one runs the      *)
(* function last bound to it with the payload of that time.                *)
THEOREM DelegatesAreValues == DelegateSpec => ImplementsValues
BY InvInit, InvNext, InitIsInit, NextIsNext, PTL
DEF DelegateSpec, ImplementsValues, Abstract!Spec
-------------------------------------------------------------------------------
(* Proofs about function references, for any lambdas, any depth of calls   *)
(* and any number of objects on the stack: a chain of references whose     *)
(* scopes enclose each other ends at the lambda that was meant.            *)

Objects == [ptr : Nat, meant : LambdaObjects, lasting : BOOLEAN]

FunctionRefTypeOK ==
    /\ stack \in Seq(Objects) /\ Len(stack) <= MaxObjects
    /\ frames \in Seq(Nat) /\ Len(frames) >= 1

(* A lasting reference is bound to an older object that lasts and that was *)
(* meant for the same lambda.                                              *)
BoundToOlder(s) ==
    \A i \in 1 .. Len(s) : s[i].lasting /\ s[i].ptr # 0 =>
        /\ s[i].ptr \in 1 .. i - 1
        /\ s[s[i].ptr].lasting
        /\ s[s[i].ptr].meant = s[i].meant

(* Functions return to where the objects of their caller end; a function   *)
(* that was called has at least the object of its parameter.               *)
FramesNested ==
    /\ \A k \in 1 .. Len(frames) :
          frames[k] <= Len(stack) /\ (k # 1 => frames[k] < Len(stack))
    /\ \A k, l \in 1 .. Len(frames) :
          k < l => frames[k] <= frames[l] /\ (k # 1 => frames[k] < frames[l])

RefInv == FunctionRefTypeOK /\ BoundToOlder(stack) /\ FramesNested

-----------------------------------------------------------------------------
(* Induction over the natural numbers, for sets of them. *)

LEMMA LeastNumber ==
    ASSUME NEW T \in SUBSET Nat, T # {}
    PROVE  \E x \in T : \A y \in T : x <= y
<1> DEFINE R == OpToRel(<, Nat)
<1>1. PICK x \in T : \A y \in T : ~(<<y, x>> \in R)
  BY NatLessThanWellFounded, WFMin
<1>2. \A y \in T : ~(y < x)
  BY <1>1 DEF OpToRel
<1> QED
  BY <1>2

LEMMA InductionOnSets ==
    ASSUME NEW A, 0 \in A, \A n \in Nat : n \in A => n + 1 \in A
    PROVE  Nat \subseteq A
<1>1. SUFFICES ASSUME Nat \ A # {} PROVE FALSE
  OBVIOUS
<1>2. PICK x \in Nat \ A : \A y \in Nat \ A : x <= y
  BY <1>1, LeastNumber
<1>3. x # 0 /\ x - 1 \in Nat /\ x - 1 \in A
  BY <1>2
<1> QED
  BY <1>2, <1>3

-----------------------------------------------------------------------------
(* What a call through a chain of references finds. *)

(* The n-th call, where "found" is what the calls after it find.           *)
CallFinds(n, found) ==
    [j \in 0 .. MaxObjects + 1 |->
        IF n = 0 \/ j \notin DOMAIN stack THEN Lost
        ELSE IF IsLambda(j) THEN stack[j].meant
        ELSE found[GetPtr(j)]]

(* The equation that defines Called, up to m calls.                        *)
Defines(f, m) == f = [n \in 0 .. m |-> CallFinds(n, f[n - 1])]

LEMMA NoCallFindsNothing == \A f, g : CallFinds(0, f) = CallFinds(0, g)
  BY DEF CallFinds

LEMMA SomethingDefines == \A m \in Nat : \E f : Defines(f, m)
<1> DEFINE A == {m \in Nat : \E f : Defines(f, m)}
<1>1. 0 \in A
  <2> DEFINE f == [n \in 0 .. 0 |-> CallFinds(0, 0)]
  <2>1. f = [n \in 0 .. 0 |-> CallFinds(n, f[n - 1])]
    <3>1. \A n \in 0 .. 0 : CallFinds(0, 0) = CallFinds(n, f[n - 1])
      BY NoCallFindsNothing
    <3> QED
      BY <3>1
  <2>2. Defines(f, 0)
    BY <2>1 DEF Defines
  <2> QED
    BY <2>2
<1>2. ASSUME NEW m \in Nat, m \in A PROVE m + 1 \in A
  <2>1. PICK f : Defines(f, m)
    BY <1>2
  <2> DEFINE g == [n \in 0 .. m + 1 |-> IF n = m + 1 THEN CallFinds(n, f[m]) ELSE f[n]]
  <2>2. \A n \in 0 .. m : g[n] = f[n]
    OBVIOUS
  <2>3. ASSUME NEW n \in 0 .. m + 1 PROVE g[n] = CallFinds(n, g[n - 1])
    <3>1. CASE n = m + 1
      BY <2>2, <3>1
    <3>2. CASE n \in 0 .. m
      <4>1. f[n] = CallFinds(n, f[n - 1])
        BY <2>1, <3>2 DEF Defines
      <4>2. CASE n = 0
        BY <2>2, <4>1, <4>2, NoCallFindsNothing
      <4>3. CASE n # 0
        BY <2>2, <3>2, <4>1, <4>3
      <4> QED
        BY <4>2, <4>3
    <3> QED
      BY <3>1, <3>2
  <2>4. Defines(g, m + 1)
    BY <2>3 DEF Defines
  <2> QED
    BY <2>4
<1> QED
  BY <1>1, <1>2, InductionOnSets

LEMMA CalledIsDefined == Defines(Called, MaxObjects)
<1>1. PICK f : Defines(f, MaxObjects)
  BY SomethingDefines, FunctionRefAssumption
<1> QED
  BY <1>1 DEF Called, Defines, CallFinds

(* With as many calls as its address counts, or more, a lasting reference  *)
(* is called through to the lambda that was meant.                         *)
LEMMA LastingFound ==
    ASSUME RefInv
    PROVE  \A n \in 0 .. MaxObjects : \A i \in 1 .. Len(stack) :
               i <= n /\ stack[i].lasting => Called[n][i] = stack[i].meant
<1> DEFINE A == {n \in Nat : n <= MaxObjects => \A i \in 1 .. Len(stack) :
                     i <= n /\ stack[i].lasting => Called[n][i] = stack[i].meant}
<1>1. /\ MaxObjects \in Nat /\ Len(stack) \in Nat /\ Len(stack) <= MaxObjects
      /\ DOMAIN stack = 1 .. Len(stack)
  BY FunctionRefAssumption, LenProperties DEF RefInv, FunctionRefTypeOK
<1>2. 0 \in A
  BY <1>1
<1>3. ASSUME NEW n \in Nat, n \in A, n + 1 <= MaxObjects,
             NEW i \in 1 .. Len(stack), i <= n + 1, stack[i].lasting
      PROVE  Called[n + 1][i] = stack[i].meant
  <2>1. Called[n + 1] = CallFinds(n + 1, Called[n])
    <3>1. n + 1 \in 0 .. MaxObjects /\ (n + 1) - 1 = n
      BY <1>1, <1>3
    <3> QED
      BY <3>1, CalledIsDefined DEF Defines
  <2>2. Called[n + 1][i] = IF IsLambda(i) THEN stack[i].meant ELSE Called[n][GetPtr(i)]
    BY <1>1, <1>3, <2>1 DEF CallFinds
  <2>3. CASE stack[i].ptr = 0
    BY <2>2, <2>3 DEF IsLambda, GetPtr
  <2>4. CASE stack[i].ptr # 0
    <3>1. /\ stack[i].ptr \in 1 .. i - 1 /\ stack[stack[i].ptr].lasting
          /\ stack[stack[i].ptr].meant = stack[i].meant
      BY <1>3, <2>4 DEF RefInv, BoundToOlder
    <3>2. stack[i].ptr \in 1 .. Len(stack) /\ stack[i].ptr <= n
      BY <1>1, <1>3, <3>1
    <3>3. Called[n][stack[i].ptr] = stack[i].meant
      BY <1>1, <1>3, <3>1, <3>2
    <3> QED
      BY <2>2, <2>4, <3>3 DEF IsLambda, GetPtr
  <2> QED
    BY <2>3, <2>4
<1>4. Nat \subseteq A
  <2>1. \A n \in Nat : n \in A => n + 1 \in A
    BY <1>3
  <2> QED
    BY <1>2, <2>1, InductionOnSets
<1> QED
  BY <1>1, <1>4

-----------------------------------------------------------------------------
(* Stacks. *)

LEMMA AppendBound ==
    ASSUME NEW s \in Seq(Objects), BoundToOlder(s), NEW r \in Objects,
           r.lasting /\ r.ptr # 0 =>
               r.ptr \in 1 .. Len(s) /\ s[r.ptr].lasting /\ s[r.ptr].meant = r.meant
    PROVE  /\ Append(s, r) \in Seq(Objects) /\ Len(Append(s, r)) = Len(s) + 1
           /\ Append(s, r)[Len(s) + 1] = r
           /\ BoundToOlder(Append(s, r))
<1>1. /\ Append(s, r) \in Seq(Objects) /\ Len(Append(s, r)) = Len(s) + 1 /\ Len(s) \in Nat
      /\ \A i \in 1 .. Len(s) : Append(s, r)[i] = s[i]
      /\ Append(s, r)[Len(s) + 1] = r
  BY AppendProperties
<1>2. ASSUME NEW i \in 1 .. Len(s) + 1, Append(s, r)[i].lasting, Append(s, r)[i].ptr # 0
      PROVE  /\ Append(s, r)[i].ptr \in 1 .. i - 1
             /\ Append(s, r)[Append(s, r)[i].ptr].lasting
             /\ Append(s, r)[Append(s, r)[i].ptr].meant = Append(s, r)[i].meant
  <2>1. CASE i = Len(s) + 1
    BY <1>1, <1>2, <2>1
  <2>2. CASE i \in 1 .. Len(s)
    <3>1. Append(s, r)[i] = s[i]
      BY <1>1, <2>2
    <3>2. s[i].ptr \in 1 .. i - 1 /\ s[s[i].ptr].lasting /\ s[s[i].ptr].meant = s[i].meant
      BY <1>2, <2>2, <3>1 DEF BoundToOlder
    <3>3. Append(s, r)[s[i].ptr] = s[s[i].ptr]
      BY <1>1, <2>2, <3>2
    <3> QED
      BY <3>1, <3>2, <3>3
  <2> QED
    BY <1>1, <1>2, <2>1, <2>2
<1> QED
  BY <1>1, <1>2 DEF BoundToOlder

LEMMA PrefixBound ==
    ASSUME NEW s \in Seq(Objects), BoundToOlder(s), NEW m \in 0 .. Len(s)
    PROVE  /\ SubSeq(s, 1, m) \in Seq(Objects) /\ Len(SubSeq(s, 1, m)) = m
           /\ \A i \in 1 .. m : SubSeq(s, 1, m)[i] = s[i]
           /\ BoundToOlder(SubSeq(s, 1, m))
<1>1. Len(s) \in Nat /\ m \in Nat /\ \A i \in 1 .. m : s[i] \in Objects
  BY ElementOfSeq, LenProperties
<1>2. /\ SubSeq(s, 1, m) \in Seq(Objects) /\ Len(SubSeq(s, 1, m)) = m
      /\ \A i \in 1 .. m : SubSeq(s, 1, m)[i] = s[i]
  BY <1>1, SubSeqProperties
<1>3. ASSUME NEW i \in 1 .. m, s[i].lasting, s[i].ptr # 0
      PROVE  /\ s[i].ptr \in 1 .. i - 1 /\ s[i].ptr \in 1 .. m
             /\ s[s[i].ptr].lasting /\ s[s[i].ptr].meant = s[i].meant
  BY <1>1, <1>3 DEF BoundToOlder
<1> QED
  BY <1>2, <1>3 DEF BoundToOlder

(* The objects that the actions declare.                                   *)
LEMMA LambdaObject ==
    ASSUME NEW f \in LambdaObjects
    PROVE  Lambda(f) \in Objects /\ Lambda(f).ptr = 0 /\ Lambda(f).meant = f /\ Lambda(f).lasting
  BY DEF Objects, Lambda

LEMMA ReferenceObject ==
    ASSUME NEW f \in LambdaObjects, NEW p \in Nat, NEW b \in BOOLEAN
    PROVE  /\ Reference(p, f, b) \in Objects /\ Reference(p, f, b).ptr = p
           /\ Reference(p, f, b).meant = f /\ Reference(p, f, b).lasting = b
  BY DEF Objects, Reference

LEMMA StackObject ==
    ASSUME FunctionRefTypeOK, NEW i \in DOMAIN stack
    PROVE  /\ i \in 1 .. Len(stack) /\ i \in Nat /\ Len(stack) \in Nat
           /\ stack[i].meant \in LambdaObjects /\ stack[i].lasting \in BOOLEAN
<1>1. i \in 1 .. Len(stack) /\ Len(stack) \in Nat /\ stack[i] \in Objects
  BY ElementOfSeq, LenProperties DEF FunctionRefTypeOK
<1> QED
  BY <1>1 DEF Objects

-----------------------------------------------------------------------------
(* Steps. *)

(* An object is declared in the function that runs.                        *)
LEMMA DeclareStep ==
    ASSUME RefInv, Room(1), NEW r \in Objects,
           r.lasting /\ r.ptr # 0 =>
               r.ptr \in 1 .. Len(stack) /\ stack[r.ptr].lasting /\ stack[r.ptr].meant = r.meant,
           stack' = Append(stack, r), UNCHANGED frames
    PROVE  RefInv'
<1>1. stack \in Seq(Objects) /\ Len(stack) \in Nat /\ BoundToOlder(stack)
  BY LenProperties DEF RefInv, FunctionRefTypeOK
<1>2. stack' \in Seq(Objects) /\ Len(stack') = Len(stack) + 1 /\ BoundToOlder(stack')
  BY <1>1, AppendBound
<1>3. FunctionRefTypeOK'
  BY <1>2, FunctionRefAssumption DEF RefInv, FunctionRefTypeOK, Room
<1>4. Len(frames) \in Nat /\ \A k \in 1 .. Len(frames) : frames[k] \in Nat
  BY ElementOfSeq, LenProperties DEF RefInv, FunctionRefTypeOK
<1>5. FramesNested'
  BY <1>1, <1>2, <1>4 DEF RefInv, FramesNested
<1>6. BoundToOlder(stack)'
  BY <1>2 DEF BoundToOlder
<1> QED
  BY <1>3, <1>5, <1>6 DEF RefInv

(* A function is called: its frame begins where the stack ended.           *)
LEMMA CallFrame ==
    ASSUME RefInv, frames' = Append(frames, Len(stack)), Len(stack') \in Nat,
           Len(stack') > Len(stack)
    PROVE  frames' \in Seq(Nat) /\ Len(frames') >= 1 /\ FramesNested'
<1>1. /\ frames \in Seq(Nat) /\ Len(stack) \in Nat /\ Len(frames) \in Nat /\ Len(frames) >= 1
      /\ \A k \in 1 .. Len(frames) : frames[k] \in Nat
  BY ElementOfSeq, LenProperties DEF RefInv, FunctionRefTypeOK
<1>2. /\ frames' \in Seq(Nat) /\ Len(frames') = Len(frames) + 1
      /\ \A k \in 1 .. Len(frames) : frames'[k] = frames[k]
      /\ frames'[Len(frames) + 1] = Len(stack)
  BY <1>1, AppendProperties
<1>3. ASSUME NEW k \in 1 .. Len(frames')
      PROVE  frames'[k] <= Len(stack') /\ (k # 1 => frames'[k] < Len(stack'))
  BY <1>1, <1>2 DEF RefInv, FramesNested
<1>4. ASSUME NEW k \in 1 .. Len(frames'), NEW l \in 1 .. Len(frames'), k < l
      PROVE  frames'[k] <= frames'[l] /\ (k # 1 => frames'[k] < frames'[l])
  <2>1. k \in 1 .. Len(frames) /\ (l \in 1 .. Len(frames) \/ l = Len(frames) + 1)
    BY <1>1, <1>2, <1>4
  <2> QED
    BY <1>1, <1>2, <1>4, <2>1 DEF RefInv, FramesNested
<1> QED
  BY <1>1, <1>2, <1>3, <1>4 DEF FramesNested

(* A function returns: the stack is cut where its objects begin.           *)
LEMMA ReturnFrame ==
    ASSUME RefInv, Inside, frames' = Front(frames)
    PROVE  /\ Last(frames) \in 0 .. Len(stack) /\ Last(frames) < Len(stack)
           /\ frames' \in Seq(Nat) /\ Len(frames') >= 1
           /\ \A new : Len(new) \in Nat /\ Len(new) >= Last(frames) /\ stack' = new => FramesNested'
<1> DEFINE n == Len(frames)
<1>1. /\ frames \in Seq(Nat) /\ n \in Nat /\ n > 1 /\ Len(stack) \in Nat
      /\ \A k \in 1 .. n : frames[k] \in Nat
  BY ElementOfSeq, LenProperties DEF RefInv, FunctionRefTypeOK, Inside
<1>2. Last(frames) = frames[n]
  BY DEF Last
<1>3. /\ frames' \in Seq(Nat) /\ Len(frames') = n - 1
      /\ \A k \in 1 .. n - 1 : frames'[k] = frames[k]
  BY <1>1, SubSeqProperties DEF Front
<1>4. frames[n] < Len(stack)
  BY <1>1 DEF RefInv, FramesNested
<1>5. ASSUME NEW new, Len(new) \in Nat, Len(new) >= Last(frames), stack' = new PROVE FramesNested'
  <2>1. ASSUME NEW k \in 1 .. n - 1
        PROVE  frames[k] <= Len(new) /\ (k # 1 => frames[k] < Len(new))
    <3>1. k \in 1 .. n /\ n \in 1 .. n /\ k < n
      BY <1>1
    <3>2. frames[k] <= frames[n] /\ (k # 1 => frames[k] < frames[n])
      BY <3>1 DEF RefInv, FramesNested
    <3> QED
      BY <1>1, <1>2, <1>5, <3>1, <3>2
  <2>2. ASSUME NEW k \in 1 .. n - 1, NEW l \in 1 .. n - 1, k < l
        PROVE  frames[k] <= frames[l] /\ (k # 1 => frames[k] < frames[l])
    <3>1. k \in 1 .. n /\ l \in 1 .. n
      BY <1>1
    <3> QED
      BY <2>2, <3>1 DEF RefInv, FramesNested
  <2> QED
    BY <1>3, <1>5, <2>1, <2>2 DEF FramesNested
<1> QED
  BY <1>1, <1>2, <1>3, <1>4, <1>5

LEMMA CallWithObjectStep ==
    ASSUME RefInv, NEW i \in DOMAIN stack, CallWithObject(i)
    PROVE  RefInv'
<1> DEFINE r == Reference(i, stack[i].meant, stack[i].lasting)
<1>1. /\ i \in 1 .. Len(stack) /\ i \in Nat /\ Len(stack) \in Nat
      /\ stack[i].meant \in LambdaObjects /\ stack[i].lasting \in BOOLEAN
  BY StackObject DEF RefInv
<1>2. r \in Objects /\ r.ptr = i /\ r.meant = stack[i].meant /\ r.lasting = stack[i].lasting
  BY <1>1, ReferenceObject
<1>3. /\ stack' = Append(stack, r) /\ frames' = Append(frames, Len(stack))
      /\ Len(stack) + 1 <= MaxObjects
  BY DEF CallWithObject, Room
<1> HIDE DEF r
<1>4. stack' \in Seq(Objects) /\ Len(stack') = Len(stack) + 1 /\ BoundToOlder(stack')
  BY <1>1, <1>2, <1>3, AppendBound DEF RefInv, FunctionRefTypeOK
<1>5. frames' \in Seq(Nat) /\ Len(frames') >= 1 /\ FramesNested'
  BY <1>1, <1>3, <1>4, CallFrame
<1>6. FunctionRefTypeOK'
  BY <1>3, <1>4, <1>5 DEF FunctionRefTypeOK
<1>7. BoundToOlder(stack)'
  BY <1>4 DEF BoundToOlder
<1> QED
  BY <1>5, <1>6, <1>7 DEF RefInv

LEMMA CallWithTemporaryStep ==
    ASSUME RefInv, NEW f \in LambdaObjects, CallWithTemporary(f)
    PROVE  RefInv'
<1> DEFINE s == Append(stack, Lambda(f))
           r == Reference(Len(stack) + 1, f, TRUE)
<1>1. stack \in Seq(Objects) /\ Len(stack) \in Nat /\ BoundToOlder(stack)
  BY LenProperties DEF RefInv, FunctionRefTypeOK
<1>2. Lambda(f) \in Objects /\ Lambda(f).ptr = 0 /\ Lambda(f).meant = f /\ Lambda(f).lasting
  BY LambdaObject
<1>3. r \in Objects /\ r.ptr = Len(stack) + 1 /\ r.meant = f /\ r.lasting
  BY <1>1 DEF Objects, Reference
<1>4. /\ s \in Seq(Objects) /\ Len(s) = Len(stack) + 1 /\ s[Len(stack) + 1] = Lambda(f)
      /\ BoundToOlder(s)
  BY <1>1, <1>2, AppendBound
<1>6. /\ stack' = Append(s, r) /\ frames' = Append(frames, Len(stack))
      /\ Len(stack) + 2 <= MaxObjects
  BY DEF CallWithTemporary, Room
<1> HIDE DEF s, r
<1>7. stack' \in Seq(Objects) /\ Len(stack') = Len(stack) + 2 /\ BoundToOlder(stack')
  <2>1. Append(s, r) \in Seq(Objects) /\ Len(Append(s, r)) = Len(s) + 1 /\ BoundToOlder(Append(s, r))
    BY <1>1, <1>2, <1>3, <1>4, AppendBound
  <2> QED
    BY <1>1, <1>4, <1>6, <2>1
<1>8. frames' \in Seq(Nat) /\ Len(frames') >= 1 /\ FramesNested'
  BY <1>1, <1>6, <1>7, CallFrame
<1>9. FunctionRefTypeOK'
  BY <1>6, <1>7, <1>8 DEF FunctionRefTypeOK
<1>10. BoundToOlder(stack)'
  BY <1>7 DEF BoundToOlder
<1> QED
  BY <1>8, <1>9, <1>10 DEF RefInv

LEMMA ReturnStep ==
    ASSUME RefInv, Return
    PROVE  RefInv'
<1>1. Inside /\ stack' = SubSeq(stack, 1, Last(frames)) /\ frames' = Front(frames)
  BY DEF Return
<1>2. /\ Last(frames) \in 0 .. Len(stack) /\ frames' \in Seq(Nat) /\ Len(frames') >= 1
      /\ \A new : Len(new) \in Nat /\ Len(new) >= Last(frames) /\ stack' = new => FramesNested'
  BY <1>1, ReturnFrame
<1>3. stack \in Seq(Objects) /\ Len(stack) \in Nat /\ Len(stack) <= MaxObjects /\ BoundToOlder(stack)
  BY LenProperties DEF RefInv, FunctionRefTypeOK
<1>4. stack' \in Seq(Objects) /\ Len(stack') = Last(frames) /\ BoundToOlder(stack')
  BY <1>1, <1>2, <1>3, PrefixBound
<1>5. FramesNested'
  BY <1>2, <1>3, <1>4
<1>6. FunctionRefTypeOK'
  BY <1>2, <1>3, <1>4, FunctionRefAssumption DEF FunctionRefTypeOK
<1>7. BoundToOlder(stack)'
  BY <1>4 DEF BoundToOlder
<1> QED
  BY <1>5, <1>6, <1>7 DEF RefInv

(* The result is lasting only if it refers to an object of the caller.     *)
LEMMA ReturnRefStep ==
    ASSUME RefInv, NEW i \in DOMAIN stack, ReturnRef(i)
    PROVE  RefInv'
<1> DEFINE m == Last(frames)
           s == SubSeq(stack, 1, m)
           b == stack[i].lasting /\ i <= m
           r == Reference(i, stack[i].meant, b)
<1>1. Inside /\ stack' = Append(s, r) /\ frames' = Front(frames)
  BY DEF ReturnRef
<1>2. /\ m \in 0 .. Len(stack) /\ m < Len(stack) /\ frames' \in Seq(Nat) /\ Len(frames') >= 1
      /\ \A new : Len(new) \in Nat /\ Len(new) >= m /\ stack' = new => FramesNested'
  BY <1>1, ReturnFrame
<1>3. stack \in Seq(Objects) /\ Len(stack) \in Nat /\ Len(stack) <= MaxObjects /\ BoundToOlder(stack)
  BY LenProperties DEF RefInv, FunctionRefTypeOK
<1>4. /\ i \in 1 .. Len(stack) /\ i \in Nat
      /\ stack[i].meant \in LambdaObjects /\ stack[i].lasting \in BOOLEAN
  BY StackObject DEF RefInv
<1>5. /\ s \in Seq(Objects) /\ Len(s) = m /\ BoundToOlder(s)
      /\ \A k \in 1 .. m : s[k] = stack[k]
  BY <1>2, <1>3, PrefixBound
<1>6. b \in BOOLEAN
  OBVIOUS
<1>7. r \in Objects /\ r.ptr = i /\ r.meant = stack[i].meant
  BY <1>4, <1>6 DEF Objects, Reference
<1>8. r.lasting => i \in 1 .. m /\ s[i] = stack[i] /\ s[i].lasting
  <2>1. r.lasting => stack[i].lasting /\ i <= m
    BY DEF Reference
  <2>2. i <= m => i \in 1 .. m /\ s[i] = stack[i]
    BY <1>2, <1>4, <1>5
  <2> QED
    BY <2>1, <2>2
<1> HIDE DEF m, s, b, r
<1>9. stack' \in Seq(Objects) /\ Len(stack') = m + 1 /\ BoundToOlder(stack')
  BY <1>1, <1>4, <1>5, <1>7, <1>8, AppendBound
<1>10. FramesNested'
  BY <1>2, <1>3, <1>9
<1>11. FunctionRefTypeOK'
  BY <1>2, <1>3, <1>9, FunctionRefAssumption DEF FunctionRefTypeOK
<1>12. BoundToOlder(stack)'
  BY <1>9 DEF BoundToOlder
<1> QED
  BY <1>10, <1>11, <1>12 DEF RefInv

LEMMA FunctionRefInitInv == FunctionRefInit => RefInv
<1>1. SUFFICES ASSUME FunctionRefInit PROVE RefInv
  OBVIOUS
<1>2. stack = <<>> /\ Len(stack) = 0 /\ stack \in Seq(Objects)
  BY <1>1 DEF FunctionRefInit
<1>3. frames = <<0>> /\ Len(frames) = 1 /\ frames \in Seq(Nat) /\ frames[1] = 0
  BY <1>1 DEF FunctionRefInit
<1>4. FunctionRefTypeOK
  BY <1>2, <1>3, FunctionRefAssumption DEF FunctionRefTypeOK
<1> QED
  BY <1>2, <1>3, <1>4 DEF RefInv, BoundToOlder, FramesNested

LEMMA FunctionRefNextInv == RefInv /\ [FunctionRefNext]_refVars => RefInv'
<1>1. SUFFICES ASSUME RefInv, [FunctionRefNext]_refVars PROVE RefInv'
  OBVIOUS
<1>2. ASSUME NEW f \in LambdaObjects, DeclareLambda(f) PROVE RefInv'
  BY <1>1, <1>2, LambdaObject, DeclareStep DEF DeclareLambda
<1>3. ASSUME NEW f \in LambdaObjects, DeclareRefToTemporary(f) PROVE RefInv'
  <2>1. Len(stack) \in Nat
    BY <1>1, LenProperties DEF RefInv, FunctionRefTypeOK
  <2>2. /\ Reference(Len(stack) + 2, f, FALSE) \in Objects
        /\ ~Reference(Len(stack) + 2, f, FALSE).lasting
    BY <2>1 DEF Objects, Reference
  <2>3. Room(1)
    BY <1>3, <2>1, FunctionRefAssumption DEF DeclareRefToTemporary, Room
  <2> QED
    BY <1>1, <1>3, <2>2, <2>3, DeclareStep DEF DeclareRefToTemporary
<1>4. ASSUME NEW i \in DOMAIN stack, DeclareRef(i) PROVE RefInv'
  <2> DEFINE r == Reference(i, stack[i].meant, stack[i].lasting)
  <2>1. /\ i \in 1 .. Len(stack) /\ i \in Nat
        /\ stack[i].meant \in LambdaObjects /\ stack[i].lasting \in BOOLEAN
    BY <1>1, <1>4, StackObject DEF RefInv
  <2>2. r \in Objects /\ r.ptr = i /\ r.meant = stack[i].meant /\ r.lasting = stack[i].lasting
    BY <2>1, ReferenceObject
  <2>3. Room(1) /\ stack' = Append(stack, r) /\ UNCHANGED frames
    BY <1>4 DEF DeclareRef
  <2> HIDE DEF r
  <2> QED
    BY <1>1, <2>1, <2>2, <2>3, DeclareStep
<1>5. CASE UNCHANGED <<stack, frames>>
  BY <1>1, <1>5 DEF RefInv, FunctionRefTypeOK, BoundToOlder, FramesNested
<1> QED
  BY <1>1, <1>2, <1>3, <1>4, <1>5, CallWithObjectStep, CallWithTemporaryStep, ReturnStep, ReturnRefStep
     DEF FunctionRefNext, Invoke, refVars

-----------------------------------------------------------------------------
(* Theorems. *)

(* The stack keeps its shape, and lasting references refer to older ones.  *)
THEOREM ReferencesInvariant == FunctionRefSpec => []RefInv
  BY FunctionRefInitInv, FunctionRefNextInv, PTL DEF FunctionRefSpec

(* A call through a lasting reference reaches the lambda that was meant,   *)
(* however many references and scopes are in between.                      *)
THEOREM CallsReachTheirLambda == FunctionRefSpec => []LastingRefsReach
<1>1. ASSUME RefInv, NEW i \in DOMAIN stack, stack[i].lasting PROVE Target(i) = stack[i].meant
  <2>1. i \in 1 .. Len(stack) /\ i <= MaxObjects /\ MaxObjects \in 0 .. MaxObjects
    BY <1>1, StackObject, FunctionRefAssumption DEF RefInv, FunctionRefTypeOK
  <2> QED
    BY <1>1, <2>1, LastingFound DEF Target
<1>2. RefInv => LastingRefsReach
  BY <1>1 DEF LastingRefsReach
<1> QED
  BY <1>2, ReferencesInvariant, PTL
-------------------------------------------------------------------------------
(* Proofs about TArray::Reserve, for every width of SizeType and of SIZE_T, *)
(* every element size and any numbers asked for: the invariant             *)
(* ReservedIsCounted is inductive together with the type invariant.        *)

(* Conversions to SizeType stay in its range.                              *)
LEMMA ToSizeInRange ==
    ASSUME NEW x \in Nat
    PROVE  ToSize(x) \in SizeType
<1> DEFINE M == 2 * SizeMax + 2
<1>1. SizeMax \in Nat /\ SizeMin = -SizeMax - 1 /\ UnsignedLimits(SizeBits).Max + 1 = M
  BY SizesAreSigned
<1>2. x % M \in 0 .. M - 1
  BY <1>1
<1>3. ToUnsigned(x, SizeBits) = x % M
  BY <1>1 DEF ToUnsigned
<1>4. ToSize(x) = IF x % M <= SizeMax THEN x % M ELSE (x % M) - M
  BY <1>1, <1>3 DEF ToSize, ToSigned, SizeMax
<1> HIDE DEF M
<1>5. M = 2 * SizeMax + 2
  BY DEF M
<1> QED
  BY <1>1, <1>2, <1>4, <1>5 DEF SizeType

(* A size in bytes, wrapped around or not.                                 *)
LEMMA NumBytesInNat ==
    ASSUME NEW n \in Nat
    PROVE  NumBytes(n) \in Nat
<1>1. n * ElementSize \in Nat
  BY ElementsHaveSize
<1>2. UnsignedLimits(SizeTBits).Max + 1 \in Nat \ {0}
  BY SizeTIsUnsigned
<1>3. \A x \in Nat, m \in Nat \ {0} : x % m \in Nat
  OBVIOUS
<1> QED
  BY <1>1, <1>2, <1>3 DEF NumBytes, ToUnsigned

(* The slack is at least what was asked for, and a size.                   *)
LEMMA SlackCovers ==
    ASSUME NEW n \in SizeType, n >= 0, GMalloc \in BOOLEAN
    PROVE  CalculateSlackReserve(n) \in SizeType /\ CalculateSlackReserve(n) >= n
<1> DEFINE Retval == ToSize(QuantizeSize(NumBytes(n)) \div ElementSize)
<1>1. n \in Nat /\ n <= SizeMax /\ SizeMax \in SizeType
  BY SizesAreSigned DEF SizeType
<1>2. NumBytes(n) \in Nat
  BY <1>1, NumBytesInNat
<1>3. QuantizeSize(NumBytes(n)) \in Nat
  BY <1>2 DEF QuantizeSize
<1>4. QuantizeSize(NumBytes(n)) \div ElementSize \in Nat
  BY <1>3, ElementsHaveSize
<1>5. Retval \in SizeType
  BY <1>4, ToSizeInRange
<1>6. CalculateSlackReserve(n) = IF n > Retval THEN SizeMax ELSE Retval
  BY DEF CalculateSlackReserve
<1> HIDE DEF Retval
<1> QED
  BY <1>1, <1>5, <1>6, SizesAreSigned DEF SizeType

ArrayInv == ArrayTypeOK /\ ReservedIsCounted

LEMMA ArrayInitInv == ArrayInit => ArrayInv
<1> SUFFICES ASSUME ArrayInit PROVE ArrayInv
  OBVIOUS
<1>1. 0 \in SizeType /\ SizeMin \in SizeType
  BY SizesAreSigned DEF SizeType
<1>2. ArrayTypeOK
  BY <1>1 DEF ArrayInit, ArrayTypeOK
<1>3. ReservedIsCounted
  BY DEF ArrayInit, ReservedIsCounted
<1> QED
  BY <1>2, <1>3 DEF ArrayInv

(* What ResizeTo leaves, for an array that a positive number exceeds.      *)
LEMMA ResizeToCovers ==
    ASSUME ArrayInv, NEW arr \in Arrays, NEW n \in SizeType,
           n >= 0, n > ArrayMax[arr], ResizeTo(arr, n)
    PROVE  /\ GMalloc' \in BOOLEAN
           /\ \E s \in SizeType, d \in Nat :
                 /\ s >= n
                 /\ ArrayMax' = [ArrayMax EXCEPT ![arr] = s]
                 /\ Data' = [Data EXCEPT ![arr] = d]
<1> DEFINE Slack == IF n # 0 THEN CalculateSlackReserve(n) ELSE 0
<1>1. ArrayMax \in [Arrays -> SizeType] /\ Data \in [Arrays -> Nat] /\ GMalloc \in BOOLEAN
  BY DEF ArrayInv, ArrayTypeOK
<1>2. n \in Nat /\ 0 \in SizeType
  BY SizesAreSigned DEF SizeType
<1>3. Slack \in SizeType /\ Slack >= n
  BY <1>1, <1>2, SlackCovers
<1>4. Slack # ArrayMax[arr]
  BY <1>1, <1>3, SizesAreSigned DEF SizeType
<1>5. ArrayMax' = [ArrayMax EXCEPT ![arr] = Slack] /\ ResizeAllocation(arr, Slack)
  BY <1>4 DEF ResizeTo
<1> HIDE DEF Slack
<1>6. Slack \in Nat
  BY <1>2, <1>3, SizesAreSigned DEF SizeType
<1>7. NumBytes(Slack) \in Nat
  BY <1>6, NumBytesInNat
<1>8. CASE Data[arr] # 0 \/ Slack # 0
  <2>1. Realloc(arr, NumBytes(Slack))
    BY <1>5, <1>8 DEF ResizeAllocation
  <2>2. PICK d \in {0, NumBytes(Slack)} : Data' = [Data EXCEPT ![arr] = d]
    BY <1>1, <2>1 DEF Realloc, ReallocExternal
  <2>3. d \in Nat
    BY <1>7, <2>2
  <2>4. GMalloc' = TRUE
    BY <1>1, <2>1 DEF Realloc, ReallocExternal, GCreateMalloc
  <2> QED
    BY <1>3, <1>5, <2>2, <2>3, <2>4
<1>9. CASE ~(Data[arr] # 0 \/ Slack # 0)
  <2>1. Data' = Data /\ GMalloc' = GMalloc
    BY <1>5, <1>9 DEF ResizeAllocation
  <2>2. Data' = [Data EXCEPT ![arr] = 0]
    BY <1>1, <1>9, <2>1
  <2> QED
    BY <1>1, <1>3, <1>5, <2>1, <2>2
<1> QED
  BY <1>8, <1>9

LEMMA ReserveKeepsInv ==
    ASSUME ArrayInv, NEW arr \in Arrays, NEW n \in Numbers, Reserve(arr, n)
    PROVE  ArrayInv'
<1>1. /\ ArrayMax \in [Arrays -> SizeType] /\ Data \in [Arrays -> Nat]
      /\ reserved \in [Arrays -> SizeType] /\ GMalloc \in BOOLEAN /\ alive \subseteq Arrays
  BY DEF ArrayInv, ArrayTypeOK
<1>2. n \in SizeType
  BY NumbersAreSizes
<1>3. /\ alive' = alive
      /\ reserved' = [reserved EXCEPT ![arr] = IF n > @ THEN n ELSE @]
      /\ reserved' \in [Arrays -> SizeType]
  BY <1>1, <1>2 DEF Reserve
<1>4. CASE n >= 0 /\ n > ArrayMax[arr]
  <2>1. ResizeTo(arr, n)
    BY <1>4 DEF Reserve
  <2>2. GMalloc' \in BOOLEAN
    BY <1>2, <1>4, <2>1, ResizeToCovers
  <2>3. PICK s \in SizeType, d \in Nat :
           /\ s >= n
           /\ ArrayMax' = [ArrayMax EXCEPT ![arr] = s]
           /\ Data' = [Data EXCEPT ![arr] = d]
    BY <1>2, <1>4, <2>1, ResizeToCovers
  <2>4. ArrayTypeOK'
    BY <1>1, <1>3, <2>2, <2>3 DEF ArrayTypeOK
  <2>5. ASSUME NEW b \in alive'
        PROVE  reserved'[b] >= 0 => ArrayMax'[b] >= reserved'[b]
    <3>1. CASE b = arr
      <4>1. ArrayMax'[arr] = s
        BY <1>1, <2>3
      <4>2. reserved[arr] >= 0 => ArrayMax[arr] >= reserved[arr]
        BY <1>3, <2>5, <3>1 DEF ArrayInv, ReservedIsCounted
      <4>3. s >= ArrayMax[arr]
        BY <1>1, <1>2, <1>4, <2>3, SizesAreSigned DEF SizeType
      <4>4. reserved'[arr] = IF n > reserved[arr] THEN n ELSE reserved[arr]
        BY <1>1, <1>3
      <4>5. reserved[arr] \in Int /\ ArrayMax[arr] \in Int /\ s \in Int /\ n \in Int
        BY <1>1, <1>2, SizesAreSigned DEF SizeType
      <4>6. reserved'[arr] >= 0 => s >= reserved'[arr]
        BY <2>3, <4>2, <4>3, <4>4, <4>5
      <4> QED
        BY <3>1, <4>1, <4>6
    <3>2. CASE b # arr
      <4>1. ArrayMax'[b] = ArrayMax[b] /\ reserved'[b] = reserved[b]
        BY <1>1, <1>3, <2>3, <2>5, <3>2
      <4> QED
        BY <1>3, <2>5, <4>1 DEF ArrayInv, ReservedIsCounted
    <3> QED
      BY <3>1, <3>2
  <2> QED
    BY <2>4, <2>5 DEF ArrayInv, ReservedIsCounted
<1>5. CASE ~(n >= 0 /\ n > ArrayMax[arr])
  <2>1. UNCHANGED <<GMalloc, ArrayMax, Data>>
    BY <1>5 DEF Reserve
  <2>2. ArrayTypeOK'
    BY <1>1, <1>3, <2>1 DEF ArrayTypeOK
  <2>3. ASSUME NEW b \in alive'
        PROVE  reserved'[b] >= 0 => ArrayMax'[b] >= reserved'[b]
    <3>1. reserved[b] >= 0 => ArrayMax[b] >= reserved[b]
      BY <1>3, <2>3 DEF ArrayInv, ReservedIsCounted
    <3>2. reserved'[b] = IF b = arr /\ n > reserved[b] THEN n ELSE reserved[b]
      BY <1>1, <1>3, <2>3
    <3>3. reserved[b] \in Int /\ ArrayMax[b] \in Int /\ n \in Int
      BY <1>1, <1>2, <1>3, <2>3, SizesAreSigned DEF SizeType
    <3> QED
      BY <1>5, <2>1, <3>1, <3>2, <3>3
  <2> QED
    BY <2>2, <2>3 DEF ArrayInv, ReservedIsCounted
<1> QED
  BY <1>4, <1>5

LEMMA ArrayStep == ArrayInv /\ [ArrayNext]_arrayVars => ArrayInv'
<1> SUFFICES ASSUME ArrayInv, [ArrayNext]_arrayVars PROVE ArrayInv'
  OBVIOUS
<1> USE DEF ArrayInv
<1>1. ASSUME NEW arr \in Arrays, ConstructArray(arr) PROVE ArrayInv'
  <2>1. PICK garbage \in SizeType : ArrayMax' = [ArrayMax EXCEPT ![arr] = garbage]
    BY <1>1 DEF ConstructArray
  <2>2. SizeMin \in SizeType /\ SizeMin < 0
    BY SizesAreSigned DEF SizeType
  <2>3. ArrayTypeOK'
    BY <1>1, <2>1, <2>2 DEF ConstructArray, ArrayTypeOK
  <2>4. ReservedIsCounted'
    BY <1>1, <2>1, <2>2, SizesAreSigned DEF ConstructArray, ArrayTypeOK, ReservedIsCounted, SizeType
  <2> QED
    BY <2>3, <2>4
<1>2. ASSUME NEW arr \in Arrays, NEW n \in Numbers, Reserve(arr, n) PROVE ArrayInv'
  BY <1>2, ReserveKeepsInv
<1>3. ASSUME NEW arr \in Arrays, DestroyArray(arr) PROVE ArrayInv'
  BY <1>3 DEF DestroyArray, ArrayTypeOK, ReservedIsCounted
<1>4. CASE SetupTLSCachesOnCurrentThread
  BY <1>4 DEF SetupTLSCachesOnCurrentThread, GCreateMalloc, ArrayTypeOK, ReservedIsCounted
<1>5. CASE UNCHANGED arrayVars
  BY <1>5 DEF arrayVars, ArrayTypeOK, ReservedIsCounted
<1> QED
  BY <1>1, <1>2, <1>3, <1>4, <1>5 DEF ArrayNext

(* The members of an array stay sizes and its block a size in bytes,       *)
(* however often Reserve and the constructor run (TMP/Array.h).            *)
THEOREM ArrayTypeCorrect == ArraySpec => []ArrayTypeOK
<1>1. ArrayInv => ArrayTypeOK
  BY DEF ArrayInv
<1> QED
  BY <1>1, ArrayInitInv, ArrayStep, PTL DEF ArraySpec

(* An array says it can hold every number it was asked to reserve, for     *)
(* every width of SizeType and of SIZE_T, products that wrap included, and *)
(* whatever ArrayMax was when it was constructed (TArray::Reserve and      *)
(* DefaultCalculateSlackReserve).  The memory is not spoken of.            *)
THEOREM ReserveCovers == ArraySpec => []ReservedIsCounted
<1>1. ArrayInv => ReservedIsCounted
  BY DEF ArrayInv
<1> QED
  BY <1>1, ArrayInitInv, ArrayStep, PTL DEF ArraySpec
-------------------------------------------------------------------------------
(* A theorem about Memswap, for any memory, addresses and sizes.  The words *)
(* of a size add up to it, and each swap continues where the one before it  *)
(* ended, so that the bytes exchanged grow from the start of the blocks.    *)

(* The first n bytes of two blocks exchanged, and no other byte changed.   *)
Exchanged(before, after, p, q, n) ==
    /\ \A k \in 0 .. n - 1 : after[p + k] = before[q + k] /\ after[q + k] = before[p + k]
    /\ \A j \in Bytes \ (Span(p, n) \cup Span(q, n)) : after[j] = before[j]

(* One word that is exchanged.                                             *)
LEMMA ValswapExchanges ==
    ASSUME NEW memory, NEW p \in Nat, NEW q \in Nat, NEW w \in Nat,
           Disjoint(p, q, w), Inside2(p, q, w)
    PROVE  Exchanged(memory, Valswap(memory, p, q, w), p, q, w)
<1> DEFINE A == [i \in Bytes |-> IF i \in Span(p, w) THEN memory[q + i - p] ELSE memory[i]]
           T == [i \in Span(p, w) |-> memory[i]]
           V == Valswap(memory, p, q, w)
<1>1. V = [i \in Bytes |-> IF i \in Span(q, w) THEN T[p + i - q] ELSE A[i]]
  BY DEF Valswap
<1>2. \A k \in 0 .. w - 1 : p + k \in Bytes /\ q + k \in Bytes
                             /\ p + k \in Span(p, w) /\ q + k \in Span(q, w)
                             /\ p + k \notin Span(q, w) /\ q + (p + k) - p = q + k
                             /\ p + (q + k) - q = p + k
  <2>1. \A k \in 0 .. w - 1 : p + k \in Span(p, w) /\ q + k \in Span(q, w)
    BY DEF Span
  <2>2. QED
    BY <2>1 DEF Disjoint, Inside2
<1>3. \A k \in 0 .. w - 1 : V[p + k] = memory[q + k] /\ V[q + k] = memory[p + k]
  <2>1. TAKE k \in 0 .. w - 1
  <2>2. V[p + k] = A[p + k] /\ A[p + k] = memory[q + k]
    BY <1>1, <1>2
  <2>3. V[q + k] = T[p + k] /\ T[p + k] = memory[p + k]
    BY <1>1, <1>2
  <2>4. QED
    BY <2>2, <2>3
<1>4. \A j \in Bytes \ (Span(p, w) \cup Span(q, w)) : V[j] = memory[j]
  BY <1>1
<1>5. QED
  BY <1>3, <1>4 DEF Exchanged

(* A further part of the blocks exchanged behind the first.                *)
LEMMA ExchangedMore ==
    ASSUME NEW before, NEW between, NEW after,
           NEW p \in Nat, NEW q \in Nat, NEW n \in Nat, NEW w \in Nat,
           Disjoint(p, q, n + w), Inside2(p, q, n + w),
           Exchanged(before, between, p, q, n),
           Exchanged(between, after, p + n, q + n, w)
    PROVE  Exchanged(before, after, p, q, n + w)
<1>1. \A k \in 0 .. n + w - 1 :
          /\ p + k \in Span(p, n + w) /\ q + k \in Span(q, n + w)
          /\ p + k \in Bytes /\ q + k \in Bytes
          /\ p + k \notin Span(q, n + w) /\ q + k \notin Span(p, n + w)
  <2>1. \A k \in 0 .. n + w - 1 : p + k \in Span(p, n + w) /\ q + k \in Span(q, n + w)
    BY DEF Span
  <2>2. QED
    BY <2>1 DEF Disjoint, Inside2
<1>2. /\ Span(p, n + w) = Span(p, n) \cup Span(p + n, w)
      /\ Span(q, n + w) = Span(q, n) \cup Span(q + n, w)
  BY DEF Span
<1>3. \A k \in 0 .. n - 1 : after[p + k] = before[q + k] /\ after[q + k] = before[p + k]
  <2>1. TAKE k \in 0 .. n - 1
  <2>2. k \in 0 .. n + w - 1 /\ p + k \notin Span(p + n, w) /\ q + k \notin Span(q + n, w)
    BY DEF Span
  <2>3. p + k \in Bytes \ (Span(p + n, w) \cup Span(q + n, w))
    BY <1>1, <1>2, <2>2
  <2>4. q + k \in Bytes \ (Span(p + n, w) \cup Span(q + n, w))
    BY <1>1, <1>2, <2>2
  <2>5. QED
    BY <2>1, <2>3, <2>4 DEF Exchanged
<1>4. \A k \in n .. n + w - 1 : after[p + k] = before[q + k] /\ after[q + k] = before[p + k]
  <2>1. TAKE k \in n .. n + w - 1
  <2>2. PICK l \in 0 .. w - 1 : l = k - n
    OBVIOUS
  <2>3. after[p + n + l] = between[q + n + l] /\ after[q + n + l] = between[p + n + l]
    BY DEF Exchanged
  <2>4. p + n + l = p + k /\ q + n + l = q + k
    BY <2>2
  <2>5. k \in 0 .. n + w - 1 /\ p + k \notin Span(p, n) /\ q + k \notin Span(q, n)
    BY DEF Span
  <2>6. /\ p + k \in Bytes \ (Span(p, n) \cup Span(q, n))
        /\ q + k \in Bytes \ (Span(p, n) \cup Span(q, n))
    BY <1>1, <1>2, <2>5
  <2>7. between[q + k] = before[q + k] /\ between[p + k] = before[p + k]
    BY <2>6 DEF Exchanged
  <2>8. QED
    BY <2>3, <2>4, <2>7
<1>5. \A j \in Bytes \ (Span(p, n + w) \cup Span(q, n + w)) : after[j] = before[j]
  BY <1>2 DEF Exchanged
<1>6. QED
  <2>1. \A k \in 0 .. n + w - 1 : k \in 0 .. n - 1 \/ k \in n .. n + w - 1
    OBVIOUS
  <2>2. QED
    BY <1>3, <1>4, <1>5, <2>1 DEF Exchanged

(* No byte of two empty blocks.                                            *)
LEMMA NothingExchanged ==
    ASSUME NEW memory, NEW p \in Nat, NEW q \in Nat
    PROVE  Exchanged(memory, memory, p, q, 0)
  BY DEF Exchanged

(* A part of two disjoint blocks are two disjoint blocks.                  *)
LEMMA PartOfBlocks ==
    ASSUME NEW p \in Nat, NEW q \in Nat, NEW n \in Nat, NEW w \in Nat, NEW size \in Nat,
           n + w <= size, Disjoint(p, q, size), Inside2(p, q, size)
    PROVE  /\ Disjoint(p, q, n + w) /\ Inside2(p, q, n + w)
           /\ Disjoint(p + n, q + n, w) /\ Inside2(p + n, q + n, w)
<1>1. /\ Span(p, n + w) \subseteq Span(p, size) /\ Span(q, n + w) \subseteq Span(q, size)
      /\ Span(p + n, w) \subseteq Span(p, size) /\ Span(q + n, w) \subseteq Span(q, size)
  BY DEF Span
<1>2. QED
  BY <1>1 DEF Disjoint, Inside2

(* What the swaps have done when n bytes are behind the pointers.          *)
SwappedUpTo(at, before, p, q, n) ==
    /\ at.Ptr1 = p + n /\ at.Ptr2 = q + n
    /\ Exchanged(before, at.memory, p, q, n)

(* The next swap exchanges the next word.                                  *)
LEMMA SwapWordContinues ==
    ASSUME NEW at, NEW before, NEW p \in Nat, NEW q \in Nat, NEW n \in Nat, NEW w \in Nat,
           NEW size \in Nat, n + w <= size, Disjoint(p, q, size), Inside2(p, q, size),
           SwappedUpTo(at, before, p, q, n)
    PROVE  SwappedUpTo(SwapWord(at, w), before, p, q, n + w)
<1> DEFINE V == Valswap(at.memory, p + n, q + n, w)
<1>1. p + n \in Nat /\ q + n \in Nat
  OBVIOUS
<1>2. Exchanged(at.memory, V, p + n, q + n, w)
  BY <1>1, PartOfBlocks, ValswapExchanges
<1>3. Exchanged(before, at.memory, p, q, n)
  BY DEF SwappedUpTo
<1>4. Exchanged(before, V, p, q, n + w)
  BY <1>2, <1>3, PartOfBlocks, ExchangedMore
<1>5. SwapWord(at, w) = [memory |-> V, Ptr1 |-> p + n + w, Ptr2 |-> q + n + w]
  BY DEF SwapWord, SwappedUpTo
<1> HIDE DEF V
<1>6. QED
  BY <1>4, <1>5 DEF SwappedUpTo

(* The recursion over at most three words has a value: the function that   *)
(* holds the state before the swaps and after each.                        *)
LEMMA SwapWordsIs ==
    ASSUME NEW memory, NEW p, NEW q, NEW words, Len(words) \in 0 .. 3
    PROVE  LET f == SwapWords(memory, p, q, words)
           IN  /\ f[0] = [memory |-> memory, Ptr1 |-> p, Ptr2 |-> q]
               /\ \A n \in 1 .. Len(words) : f[n] = SwapWord(f[n - 1], words[n])
<1> DEFINE m == Len(words)
           start == [memory |-> memory, Ptr1 |-> p, Ptr2 |-> q]
           one == SwapWord(start, words[1])
           two == SwapWord(one, words[2])
           three == SwapWord(two, words[3])
           Is(f) == f = [n \in 0 .. m |-> IF n = 0 THEN start ELSE SwapWord(f[n - 1], words[n])]
           g == [n \in 0 .. m |-> IF n = 0 THEN start ELSE
                                  IF n = 1 THEN one ELSE
                                  IF n = 2 THEN two ELSE three]
<1> HIDE DEF start
<1>1. \A n \in 0 .. m : g[n] = IF n = 0 THEN start ELSE SwapWord(g[n - 1], words[n])
  <2>1. TAKE n \in 0 .. m
  <2>2. CASE n = 0
    BY <2>2
  <2>3. CASE n = 1
    BY <2>3
  <2>4. CASE n = 2
    BY <2>4
  <2>5. CASE n = 3
    BY <2>5
  <2>6. QED
    BY <2>2, <2>3, <2>4, <2>5
<1>2. Is(g)
  <2> DEFINE h == [n \in 0 .. m |-> IF n = 0 THEN start ELSE SwapWord(g[n - 1], words[n])]
  <2>1. \A n \in 0 .. m : h[n] = g[n]
    BY <1>1
  <2>2. g = [n \in 0 .. m |-> g[n]] /\ h = [n \in 0 .. m |-> h[n]]
    OBVIOUS
  <2> HIDE DEF g
  <2>3. g = h
    BY <2>1, <2>2
  <2>4. QED
    BY <2>3
<1>3. SwapWords(memory, p, q, words) = CHOOSE f : Is(f)
  BY DEF SwapWords, start
<1> HIDE DEF g
<1>4. PICK f : f = SwapWords(memory, p, q, words) /\ Is(f)
  <2> HIDE DEF Is
  <2>1. QED
    BY <1>2, <1>3
<1>5. \A n \in 0 .. m : f[n] = IF n = 0 THEN start ELSE SwapWord(f[n - 1], words[n])
  BY <1>4
<1>6. QED
  BY <1>4, <1>5 DEF start

(* The exchange of a whole size by its words.                              *)
LEMMA WordsExchange ==
    ASSUME NEW memory, NEW p \in Nat, NEW q \in Nat, NEW Size \in SwappedSizes,
           Disjoint(p, q, Size), Inside2(p, q, Size)
    PROVE  Exchanged(memory, Memswap(memory, p, q, Size), p, q, Size)
<1> DEFINE words == Words(Size)
           f == SwapWords(memory, p, q, words)
           At(n, sum) == SwappedUpTo(f[n], memory, p, q, sum)
<1>1. /\ Size \in Nat /\ words \in Seq(Nat) /\ Len(words) \in 0 .. 3
      /\ Len(words) = 0 => Size = 0
      /\ Len(words) = 1 => words[1] = Size
      /\ Len(words) = 2 => words[1] + words[2] = Size
      /\ Len(words) = 3 => words[1] + words[2] + words[3] = Size
  <2>1. Size \in 0 .. 8 \/ Size = 16
    BY DEF SwappedSizes
  <2>2. CASE Size = 0
    BY <2>2 DEF Words
  <2>3. CASE Size \in {1, 2, 4, 8}
    <3>1. words = <<Size>>
      BY <2>3 DEF Words
    <3> HIDE DEF words
    <3>2. QED
      BY <2>3, <3>1
  <2>4. CASE Size \in {3, 5, 6, 16}
    <3>1. \E arr, b \in Nat : words = <<arr, b>> /\ arr + b = Size
      <4>1. Size = 3 => words = <<2, 1>>
        BY DEF Words
      <4>2. Size = 5 => words = <<4, 1>>
        BY DEF Words
      <4>3. Size = 6 => words = <<4, 2>>
        BY DEF Words
      <4>4. Size = 16 => words = <<8, 8>>
        BY DEF Words
      <4> HIDE DEF words
      <4>5. QED
        BY <2>4, <4>1, <4>2, <4>3, <4>4
    <3> HIDE DEF words
    <3>2. QED
      BY <2>4, <3>1
  <2>5. CASE Size = 7
    BY <2>5 DEF Words
  <2>6. QED
    BY <2>1, <2>2, <2>3, <2>4, <2>5
<1>2. /\ f[0] = [memory |-> memory, Ptr1 |-> p, Ptr2 |-> q]
      /\ \A n \in 1 .. Len(words) : f[n] = SwapWord(f[n - 1], words[n])
  BY <1>1, SwapWordsIs
<1>3. \A n \in 1 .. Len(words) : words[n] \in Nat
  BY <1>1
<1>4. Memswap(memory, p, q, Size) = f[Len(words)].memory
  BY DEF Memswap
<1> HIDE DEF words, f
<1>5. At(0, 0)
  BY <1>2, NothingExchanged DEF SwappedUpTo
<1>6. ASSUME NEW n \in 1 .. Len(words), NEW sum \in Nat, At(n - 1, sum), sum + words[n] <= Size
      PROVE  At(n, sum + words[n])
  <2>1. PICK w, at : w \in Nat /\ w = words[n] /\ at = f[n - 1] /\ f[n] = SwapWord(at, w)
    BY <1>2, <1>3
  <2>2. SwappedUpTo(at, memory, p, q, sum) /\ sum + w <= Size
    BY <1>6, <2>1
  <2>3. SwappedUpTo(SwapWord(at, w), memory, p, q, sum + w)
    BY <1>1, <2>1, <2>2, SwapWordContinues
  <2>4. QED
    BY <2>1, <2>3
<1> HIDE DEF At
<1>7. At(Len(words), Size)
  <2>1. CASE Len(words) = 0
    BY <1>1, <1>5, <2>1
  <2>2. CASE Len(words) = 1
    <3>1. At(1, 0 + words[1])
      BY <1>1, <1>3, <1>5, <1>6, <2>2
    <3>2. QED
      BY <1>1, <1>3, <2>2, <3>1
  <2>3. CASE Len(words) = 2
    <3>1. PICK arr \in Nat, b \in Nat : arr = words[1] /\ b = words[2] /\ arr + b = Size
      BY <1>1, <1>3, <2>3
    <3>2. At(1, arr)
      BY <1>1, <1>5, <1>6, <2>3, <3>1
    <3>3. At(2, arr + b)
      BY <1>1, <1>6, <2>3, <3>1, <3>2
    <3>4. QED
      BY <2>3, <3>1, <3>3
  <2>4. CASE Len(words) = 3
    <3>1. words[1] \in Nat /\ words[2] \in Nat /\ words[3] \in Nat
      BY <1>3, <2>4
    <3>2. PICK arr \in Nat, b \in Nat, c \in Nat : arr = words[1] /\ b = words[2] /\ c = words[3]
      BY <3>1
    <3>3. arr + b + c = Size
      BY <1>1, <2>4, <3>2
    <3>4. At(1, arr)
      <4>1. 1 \in 1 .. Len(words) /\ 0 \in Nat /\ At(1 - 1, 0) /\ 0 + words[1] <= Size
        BY <1>1, <1>5, <2>4, <3>2, <3>3
      <4>2. At(1, 0 + words[1])
        BY <1>6, <4>1
      <4>3. QED
        BY <3>2, <4>2
    <3>5. At(2, arr + b)
      <4>1. 2 \in 1 .. Len(words) /\ At(2 - 1, arr) /\ arr + words[2] <= Size
        <5>1. 2 \in 1 .. Len(words) /\ 2 - 1 = 1
          BY <2>4
        <5>2. arr + b <= arr + b + c
          OBVIOUS
        <5>3. arr + words[2] <= Size
          BY <3>2, <3>3, <5>2, Zenon
        <5>4. QED
          BY <3>4, <5>1, <5>3, Zenon
      <4>2. At(2, arr + words[2])
        BY <1>6, <4>1
      <4>3. QED
        BY <3>2, <4>2
    <3>6. At(3, arr + b + c)
      <4>1. 3 \in 1 .. Len(words) /\ 3 - 1 = 2
        BY <2>4
      <4>2. arr + b \in Nat
        OBVIOUS
      <4>3. arr + b + words[3] <= Size
        <5>1. arr + b + c <= arr + b + c
          OBVIOUS
        <5>2. QED
          BY <3>2, <3>3, <5>1, Zenon
      <4>4. At(3 - 1, arr + b)
        BY <3>5, <4>1, Zenon
      <4>5. At(3, arr + b + words[3])
        BY <1>6, <4>1, <4>2, <4>3, <4>4, Zenon
      <4>6. QED
        BY <3>2, <4>5, Zenon
    <3>7. QED
      BY <2>4, <3>3, <3>6
  <2>5. QED
    BY <1>1, <2>1, <2>2, <2>3, <2>4
<1>8. QED
  BY <1>4, <1>7 DEF At, SwappedUpTo

(* Of a size it has no case for, no byte.                                  *)
LEMMA OtherSizesUnchanged ==
    ASSUME NEW memory, NEW p, NEW q, NEW Size \in Nat \ SwappedSizes
    PROVE  Memswap(memory, p, q, Size) = memory
<1>1. Words(Size) = <<>>
  <2>1. Size \notin {1, 2, 3, 4, 5, 6, 7, 8, 16}
    BY DEF SwappedSizes
  <2> QED
    BY <2>1 DEF Words
<1>2. Len(<<>>) = 0
  OBVIOUS
<1>3. SwapWords(memory, p, q, <<>>)[0] = [memory |-> memory, Ptr1 |-> p, Ptr2 |-> q]
  BY <1>2, SwapWordsIs
<1> QED
  BY <1>1, <1>2, <1>3 DEF Memswap

(* Memswap exchanges two blocks that do not overlap byte for byte if their *)
(* size is one of 0 to 8 or 16, and changes no other byte; it changes none *)
(* if their size is another (UnrealMemory.h).                              *)
THEOREM MemswapExchangesBytes == MemorySpec => []MemswapExchanges
<1>1. MemoryInit => MemswapExchanges
  <2>1. MemoryInit => DOMAIN swap = {}
    BY DEF MemoryInit
  <2> QED
    BY <2>1 DEF MemswapExchanges
<1>2. MemswapExchanges /\ [MemoryNext]_memoryVars => MemswapExchanges'
  <2>1. SUFFICES ASSUME MemswapExchanges, [MemoryNext]_memoryVars PROVE MemswapExchanges'
    OBVIOUS
  <2>2. CASE UNCHANGED memoryVars
    BY <2>1, <2>2 DEF memoryVars, MemswapExchanges
  <2>3. CASE swap' = <<>>
    <3>1. DOMAIN swap' = {}
      BY <2>3
    <3> QED
      BY <3>1 DEF MemswapExchanges
  <2>4. ASSUME NEW p \in Pointers, NEW q \in Pointers, NEW Size \in Sizes,
               CallMemswap(p, q, Size)
        PROVE  MemswapExchanges'
    <3>1. /\ p \in Nat /\ q \in Nat /\ Size \in Nat /\ Disjoint(p, q, Size) /\ Inside2(p, q, Size)
          /\ bytes' = Memswap(bytes, p, q, Size)
          /\ swap' = <<[Ptr1 |-> p, Ptr2 |-> q, Size |-> Size, before |-> bytes]>>
      BY <2>4, MemoryAssumption DEF CallMemswap
    <3>2. Size \in SwappedSizes => Exchanged(bytes, bytes', p, q, Size)
      BY <3>1, WordsExchange
    <3>3. Size \notin SwappedSizes => bytes' = bytes
      BY <3>1, OtherSizesUnchanged
    <3>4. /\ DOMAIN swap' = {1} /\ swap'[1].Ptr1 = p /\ swap'[1].Ptr2 = q
          /\ swap'[1].Size = Size /\ swap'[1].before = bytes
      BY <3>1
    <3>5. QED
      BY <3>2, <3>3, <3>4 DEF MemswapExchanges, Exchanged
  <2>5. QED
    BY <2>1, <2>2, <2>3, <2>4
       DEF MemoryNext, Memmove, Memcpy, Memset, Memzero, CallMemIsZero
<1>3. QED
  BY <1>1, <1>2, PTL DEF MemorySpec

-------------------------------------------------------------------------------
(* A proof about the access to tuples, for any tuples and any element      *)
(* types: the overloads of Get return what std::get would.                 *)

AccessTypeOK == types \in [Tuples -> Seq(Types)]

(* A type by its three parts, and what the traits make of each part.       *)
TypeOf(object, cv, ref) == [object |-> object, cv |-> cv, ref |-> ref]

(* No reference, or one of the two kinds of it.                            *)
Kinds == {"", "&", "&&"}

LEMMA PartsOfType ==
    ASSUME NEW object, NEW cv, NEW ref
    PROVE  /\ TypeOf(object, cv, ref).object = object
           /\ TypeOf(object, cv, ref).cv = cv
           /\ TypeOf(object, cv, ref).ref = ref
  BY DEF TypeOf

LEMMA OtherReference ==
    ASSUME NEW object, NEW cv, NEW ref, NEW new
    PROVE  ReferenceOfKind(new, TypeOf(object, cv, ref)) = TypeOf(object, cv, new)
  BY DEF TypeOf, ReferenceOfKind

LEMMA EveryTypeHasParts ==
    ASSUME NEW T \in Types
    PROVE  T = TypeOf(T.object, T.cv, T.ref) /\ T.ref \in Kinds
  BY DEF Types, TypeOf, Kinds

LEMMA TraitsByParts ==
    ASSUME NEW object, NEW cv, NEW ref
    PROVE  /\ LValueReference(TypeOf(object, cv, ref)) = TypeOf(object, cv, "&")
           /\ ref = "&" => RValueReference(TypeOf(object, cv, ref)) = TypeOf(object, cv, "&")
           /\ ref # "&" => RValueReference(TypeOf(object, cv, ref)) = TypeOf(object, cv, "&&")
           /\ TRemoveReference(TypeOf(object, cv, ref)) = TypeOf(object, cv, "")
           /\ TIsReferenceType(TypeOf(object, cv, ref)) <=> ref # ""
           /\ TIsLValueReferenceType(TypeOf(object, cv, ref)) <=> ref = "&"
           /\ TIsRValueReferenceType(TypeOf(object, cv, ref)) <=> ref = "&&"
<1> DEFINE T == TypeOf(object, cv, ref)
<1>1. T.object = object /\ T.cv = cv /\ T.ref = ref
  BY PartsOfType
<1>2. LValueReference(T) = TypeOf(object, cv, "&") /\ TRemoveReference(T) = TypeOf(object, cv, "")
  BY OtherReference, Zenon DEF LValueReference, TRemoveReference
<1>3. ref = "&" => RValueReference(T) = TypeOf(object, cv, "&")
  BY <1>1 DEF RValueReference
<1>4. ref # "&" => RValueReference(T) = TypeOf(object, cv, "&&")
  <2>1. ReferenceOfKind("&&", T) = TypeOf(object, cv, "&&")
    BY OtherReference, Zenon
  <2> QED
    BY <1>1, <2>1, Zenon DEF RValueReference
<1>5. (TIsReferenceType(T) <=> ref # "") /\ (TIsLValueReferenceType(T) <=> ref = "&")
      /\ (TIsRValueReferenceType(T) <=> ref = "&&")
  BY <1>1 DEF TIsReferenceType, TIsLValueReferenceType, TIsRValueReferenceType
<1> HIDE DEF T
<1> QED
  BY <1>2, <1>3, <1>4, <1>5, Zenon DEF T

LEMMA QualifiedByParts ==
    ASSUME NEW object, NEW cv, NEW ref, NEW more
    PROVE  /\ ref = "" => Qualified(TypeOf(object, cv, ref), more) = TypeOf(object, cv \cup more, ref)
           /\ ref # "" => Qualified(TypeOf(object, cv, ref), more) = TypeOf(object, cv, ref)
<1> DEFINE T == TypeOf(object, cv, ref)
<1>1. T.cv = cv /\ T.ref = ref
  BY PartsOfType
<1> DEFINE new == cv \cup more
<1>2. [T EXCEPT !.cv = T.cv \cup more] = TypeOf(object, new, ref)
  <2>1. T.cv \cup more = new
    BY <1>1
  <2> HIDE DEF new
  <2>2. [T EXCEPT !.cv = new] = TypeOf(object, new, ref)
    BY DEF TypeOf
  <2> QED
    BY <2>1, <2>2, Zenon
<1> QED
  BY <1>1, <1>2, Zenon DEF Qualified

(* A tuple of either category, as its base class, is as const and volatile *)
(* as it was and of the same category.                                     *)
LEMMA TupleAsBase ==
    ASSUME NEW cv, NEW ref \in {"&", "&&"}
    PROVE  /\ ForwardAsBase(Deduced(Object(cv, ref)), Object({}, "")) = TypeOf("tuple", cv, ref)
           /\ TIsReferenceType(Deduced(Object(cv, ref))) <=> ref = "&"
<1> DEFINE T == TypeOf("tuple", cv, ref)
           V == TypeOf("tuple", cv, "")
           B == TypeOf("tuple", {}, "")
<1>1. Object(cv, ref) = T /\ Object({}, "") = B
  BY DEF Object, TypeOf
<1>2. /\ TRemoveReference(T) = V /\ TRemoveReference(V) = V /\ TRemoveReference(B) = B
      /\ LValueReference(V) = TypeOf("tuple", cv, "&")
  BY TraitsByParts, Zenon
<1>3. RValueReference(V) = TypeOf("tuple", cv, "&&")
  BY TraitsByParts, "" # "&", Zenon
<1>4. /\ V.cv = cv /\ ~TIsReferenceType(V)
      /\ ~TIsLValueReferenceType(B) /\ ~TIsRValueReferenceType(B)
  BY DEF TypeOf, TIsReferenceType, TIsLValueReferenceType, TIsRValueReferenceType
<1>5. TCopyQualifiersFromTo(V, B) = V
  <2>1. Qualified(B, cv) = TypeOf("tuple", {} \cup cv, "")
    BY QualifiedByParts, Zenon
  <2>2. {} \cup cv = cv
    OBVIOUS
  <2> QED
    BY <1>4, <2>1, <2>2, Zenon DEF TCopyQualifiersFromTo
<1>6. CASE ref = "&"
  <2>1. TIsLValueReferenceType(T) /\ TIsReferenceType(T) /\ RValueReference(T) = T
    BY <1>6 DEF TypeOf, TIsReferenceType, TIsLValueReferenceType, RValueReference
  <2>2. Deduced(T) = T /\ Forward(T) = T
    BY <2>1, Zenon DEF Deduced, Forward
  <2>3. TOr(TIsLValueReferenceType(T), TIsLValueReferenceType(B))
    BY <2>1 DEF TOr
  <2>4. TCopyQualifiersAndRefsFromTo(T, B) = T
    BY <1>2, <1>5, <1>6, <2>3, Zenon DEF TCopyQualifiersAndRefsFromTo
  <2> QED
    BY <1>1, <1>6, <2>1, <2>2, <2>4, Zenon DEF ForwardAsBase
<1>7. CASE ref = "&&"
  <2>1. ~TIsLValueReferenceType(T) /\ TIsRValueReferenceType(T)
    BY <1>7 DEF TypeOf, TIsLValueReferenceType, TIsRValueReferenceType
  <2>2. Deduced(T) = V /\ Forward(V) = T
    BY <1>2, <1>3, <1>7, <2>1, Zenon DEF Deduced, Forward
  <2>3. /\ ~TOr(TIsLValueReferenceType(T), TIsLValueReferenceType(B))
        /\ TOr(TIsRValueReferenceType(T), TIsRValueReferenceType(B))
    BY <1>4, <2>1 DEF TOr
  <2>4. TCopyQualifiersAndRefsFromTo(T, B) = T
    BY <1>2, <1>3, <1>5, <1>7, <2>3, Zenon DEF TCopyQualifiersAndRefsFromTo
  <2>5. ForwardAsBase(V, B) = T
    BY <2>2, <2>4, Zenon DEF ForwardAsBase
  <2>6. ref # "&"
    BY <1>7
  <2> QED
    BY <1>1, <1>4, <2>2, <2>5, <2>6, Zenon
<1> QED
  BY <1>6, <1>7

(* One case for each kind of element: a value, an lvalue reference, an     *)
(* rvalue reference, which is the one that an rvalue tuple casts.          *)
LEMMA GetImplByParts ==
    ASSUME NEW cv, NEW ref \in {"&", "&&"}, NEW object, NEW own, NEW r \in Kinds,
           NEW T, T = TypeOf(object, own, r)
    PROVE  GetImpl(Object(cv, ref), T) = StdGet(cv, ref, T)
<1> DEFINE D == Deduced(Object(cv, ref))
           E == TypeOf("tuple", cv, ref)
           Result == Select(E, T)
<1>1. T = TypeOf(object, own, r)
  OBVIOUS
<1>2. /\ TIsReferenceType(T) <=> r # ""
      /\ TIsRValueReferenceType(T) <=> r = "&&"
      /\ LValueReference(T) = TypeOf(object, own, "&")
  BY <1>1, TraitsByParts
<1>3. E.cv = cv /\ E.ref = ref
  BY DEF TypeOf
<1>4. GetImpl(Object(cv, ref), T) = IF ref # "&" /\ r = "&&" THEN T ELSE Result
  <2>1. ForwardAsBase(D, Object({}, "")) = E /\ (TIsReferenceType(D) <=> ref = "&")
    BY TupleAsBase
  <2>2. TAnd(TNot(TIsReferenceType(D)), TIsRValueReferenceType(T)) <=> ref # "&" /\ r = "&&"
    BY <1>2, <2>1 DEF TAnd, TNot
  <2>3. GetImpl(Object(cv, ref), T) =
          IF TAnd(TNot(TIsReferenceType(D)), TIsRValueReferenceType(T)) THEN T ELSE Result
    BY <2>1, Zenon DEF GetImpl
  <2> QED
    BY <2>2, <2>3, Zenon
<1>5. r # "" => Result = TypeOf(object, own, "&")
  BY <1>2, Zenon DEF Select
<1>6. r # "" => Qualified(T, cv) = T
  BY <1>1, QualifiedByParts
<1>7. StdGet(cv, ref, T) =
        IF ref = "&" THEN LValueReference(Qualified(T, cv)) ELSE RValueReference(Qualified(T, cv))
  BY Zenon DEF StdGet
<1>8. CASE r = ""
  <2>1. Qualified(T, cv) = TypeOf(object, own \cup cv, "")
    BY <1>1, <1>8, QualifiedByParts, Zenon
  <2>2. Result = TypeOf(object, own \cup cv, ref)
    <3>1. ~TIsReferenceType(T)
      BY <1>2, <1>8
    <3>2. ReferenceOfKind(ref, TypeOf(object, own \cup cv, "")) = TypeOf(object, own \cup cv, ref)
      BY OtherReference, Zenon
    <3> QED
      BY <1>3, <2>1, <3>1, <3>2, Zenon DEF Select
  <2>3. /\ LValueReference(Qualified(T, cv)) = TypeOf(object, own \cup cv, "&")
        /\ RValueReference(Qualified(T, cv)) = TypeOf(object, own \cup cv, "&&")
    <3> DEFINE both == own \cup cv
    <3>1. RValueReference(TypeOf(object, both, "")) = TypeOf(object, both, "&&")
      <4>1. "" # "&"
        OBVIOUS
      <4> HIDE DEF both
      <4> QED
        BY <4>1, TraitsByParts, Zenon
    <3>2. LValueReference(TypeOf(object, both, "")) = TypeOf(object, both, "&")
      BY TraitsByParts, Zenon
    <3> QED
      BY <2>1, <3>1, <3>2, Zenon
  <2>4. ~(r = "&&")
    BY <1>8
  <2> HIDE DEF Result
  <2>5. ref # "&" => ref = "&&"
    OBVIOUS
  <2> QED
    BY <1>4, <1>7, <2>2, <2>3, <2>4, <2>5, Zenon
<1>9. CASE r = "&"
  <2>1. RValueReference(T) = TypeOf(object, own, "&") /\ ~(r = "&&") /\ r # ""
    BY <1>1, <1>9, TraitsByParts
  <2> HIDE DEF Result
  <2> QED
    BY <1>2, <1>4, <1>5, <1>6, <1>7, <2>1, Zenon
<1>10. CASE r = "&&"
  <2>1. RValueReference(T) = T /\ r # ""
    BY <1>1, <1>10, TraitsByParts
  <2> HIDE DEF Result
  <2> QED
    BY <1>2, <1>4, <1>5, <1>6, <1>7, <1>10, <2>1, Zenon
<1> QED
  BY <1>8, <1>9, <1>10 DEF Kinds

LEMMA GetImplOfTuple ==
    ASSUME NEW cv, NEW ref \in {"&", "&&"}, NEW T \in Types
    PROVE  GetImpl(Object(cv, ref), T) = StdGet(cv, ref, T)
<1>1. PICK object, own, r : r \in Kinds /\ T = TypeOf(object, own, r)
  BY EveryTypeHasParts, Zenon
<1> QED
  BY <1>1, GetImplByParts, Zenon

(* Only a constructor gives a tuple its element types.                     *)
THEOREM AccessTypeCorrect == AccessSpec => []AccessTypeOK
<1>1. AccessInit => AccessTypeOK
  BY DEF AccessInit, AccessTypeOK
<1>2. AccessTypeOK /\ [AccessNext]_accessVars => AccessTypeOK'
  <2>1. SUFFICES ASSUME AccessTypeOK, [AccessNext]_accessVars PROVE AccessTypeOK'
    OBVIOUS
  <2>2. ASSUME NEW t \in Tuples, NEW shape \in Shapes, NEW args, ConstructFrom(t, shape, args)
        PROVE  AccessTypeOK'
    BY <2>1, <2>2, AccessAssumption DEF ConstructFrom, AccessTypeOK
  <2>3. CASE UNCHANGED types
    BY <2>1, <2>3 DEF AccessTypeOK
  <2>4. ASSUME NEW t \in Tuples, Client(t) PROVE AccessTypeOK'
    <3>1. CASE \E shape \in Shapes : \E args \in [DOMAIN shape -> Arguments] :
                  ForwardingConstructor(t, shape, args)
      BY <2>2, <3>1 DEF ForwardingConstructor
    <3>2. CASE \E shape \in Shapes, Other \in Tuples :
                  CopyConstructor(t, shape, Other) \/ MoveConstructor(t, shape, Other)
      BY <2>2, <3>2 DEF CopyConstructor, MoveConstructor
    <3>3. CASE \E Other \in Tuples : CopyAssign(t, Other) \/ MoveAssign(t, Other)
      BY <2>3, <3>3 DEF CopyAssign, MoveAssign, AssignElements
    <3>4. CASE \E c \in Categories, v \in Locals, Index \in 0 .. Len(types[t]) - 1 :
                  GetByIndex(t, c.cv, c.ref, Index, v)
      BY <2>3, <3>4 DEF GetByIndex
    <3>5. CASE \E c \in Categories, v \in Locals, T \in ToSet(types[t]) :
                  GetByType(t, c.cv, c.ref, T, v)
      BY <2>3, <3>5 DEF GetByType, GetByIndex
    <3>6. CASE \E c \in Categories : ApplyAfterByValue(t, c.cv, c.ref)
      BY <2>3, <3>6 DEF ApplyAfterByValue
    <3> QED
      BY <2>4, <3>1, <3>2, <3>3, <3>4, <3>5, <3>6, Zenon DEF Client
  <2> QED
    BY <2>1, <2>3, <2>4 DEF AccessNext, accessVars
<1> QED
  BY <1>1, <1>2, PTL DEF AccessSpec

(* Get returns what std::get would, for every element type, qualifier and  *)
(* category: no overload turns a move into a copy or a copy into a move.   *)
THEOREM GetReturnsWhatStdDoes == AccessSpec => []GetsLikeStd
<1>1. ASSUME AccessTypeOK, NEW t \in Tuples, NEW c \in Categories, NEW i \in DOMAIN types[t]
      PROVE  Element(t, c.cv, c.ref, i - 1).type = StdGet(c.cv, c.ref, types[t][i])
  <2>1. types[t] \in Seq(Types) /\ i \in 1 .. Len(types[t]) /\ types[t][i] \in Types
    BY <1>1, ElementOfSeq, LenProperties DEF AccessTypeOK
  <2>2. Get(i - 1, types[t]) = types[t][i]
    BY <2>1 DEF Get
  <2>3. c.cv \in SUBSET {"const", "volatile"} /\ c.ref \in {"&", "&&"}
    BY DEF Categories
  <2>4. Element(t, c.cv, c.ref, i - 1).type = GetImpl(Object(c.cv, c.ref), types[t][i])
    BY <2>2 DEF Element
  <2> QED
    BY <2>1, <2>3, <2>4, GetImplOfTuple
<1>2. AccessTypeOK => GetsLikeStd
  BY <1>1 DEF GetsLikeStd
<1> QED
  BY <1>2, AccessTypeCorrect, PTL

-------------------------------------------------------------------------------
(* Values that move: a proof for any tuples, element types and variables.  *)

(* The fold of TransferAll as a table: g holds, for each set of elements,  *)
(* the places whose value is there when they have been transferred.        *)
Indexes(args) == [i \in DOMAIN args |-> i]

TransferOne(store, i, args, to) ==
    IF to[i] = args[i].at THEN store ELSE Transfer(store, args[i], to[i])

Stores(g, S, args, to) ==
    g = [s \in SUBSET S |->
            IF s = {} THEN held
            ELSE TransferOne(g[s \ {Max(s)}], Indexes(args)[Max(s)], args, to)]

LEMMA TransferIsLookedUp ==
    ASSUME NEW args, NEW to
    PROVE  TransferAll(args, to)
            = (CHOOSE g : Stores(g, DOMAIN Indexes(args), args, to))[DOMAIN Indexes(args)]
  BY DEF TransferAll, FoldLeft, MapThenFoldSet, Stores, TransferOne, Indexes

(* The last element of a set of elements.                                  *)
LEMMA MaxIsLast ==
    ASSUME NEW n \in Nat, NEW s \in SUBSET (1 .. n), s # {}
    PROVE  Max(s) \in s /\ \A y \in s : Max(s) >= y
<1> DEFINE T == {n - y : y \in s}
<1>1. T \in SUBSET Nat /\ T # {}
  <2>1. \A y \in s : y \in 1 .. n
    OBVIOUS
  <2>2. \A y \in 1 .. n : n - y \in Nat
    OBVIOUS
  <2> QED
    BY <2>1, <2>2
<1>2. PICK z \in T : \A y \in T : z <= y
  BY <1>1, LeastNumber
<1>3. PICK x \in s : z = n - x
  OBVIOUS
<1>4. \A y \in s : x >= y
  <2>1. TAKE y \in s
  <2>2. n - y \in T /\ y \in 1 .. n /\ x \in 1 .. n
    OBVIOUS
  <2>3. z <= n - y
    BY <1>2, <2>2
  <2> QED
    BY <1>3, <2>2, <2>3
<1>5. \E v \in s : \A y \in s : v >= y
  BY <1>4
<1> HIDE DEF T
<1> QED
  BY <1>5, Zenon DEF Max

(* What is transferred before the last element does not see it.            *)
LEMMA StoresExist ==
    ASSUME NEW args, NEW to
    PROVE  \A n \in Nat : \E g : Stores(g, 1 .. n, args, to)
<1> DEFINE Row(g, s) == IF s = {} THEN held
                        ELSE TransferOne(g[s \ {Max(s)}], Indexes(args)[Max(s)], args, to)
           A == {n \in Nat : \E g : g = [s \in SUBSET (1 .. n) |-> Row(g, s)]}
<1>1. 0 \in A
  <2> DEFINE g == [s \in SUBSET (1 .. 0) |-> held]
  <2>1. \A s \in SUBSET (1 .. 0) : s = {}
    OBVIOUS
  <2>2. \A s \in SUBSET (1 .. 0) : Row(g, s) = held
    BY <2>1
  <2>3. g = [s \in SUBSET (1 .. 0) |-> Row(g, s)]
    <3> HIDE DEF Row
    <3> QED
      BY <2>2
  <2> QED
    BY <2>3
<1>2. ASSUME NEW n \in Nat, n \in A PROVE n + 1 \in A
  <2>1. PICK g : g = [s \in SUBSET (1 .. n) |-> Row(g, s)]
    BY <1>2
  <2> DEFINE h == [s \in SUBSET (1 .. n + 1) |-> IF n + 1 \in s THEN Row(g, s) ELSE g[s]]
  <2>2. \A s \in SUBSET (1 .. n) : h[s] = g[s]
    <3>1. TAKE s \in SUBSET (1 .. n)
    <3>2. s \in SUBSET (1 .. n + 1) /\ n + 1 \notin s
      BY <1>2
    <3> QED
      BY <3>2
  <2>3. ASSUME NEW s \in SUBSET (1 .. n + 1), s # {}
        PROVE  s \ {Max(s)} \in SUBSET (1 .. n)
    <3>1. n + 1 \in Nat
      BY <1>2
    <3>2. Max(s) \in s /\ \A y \in s : Max(s) >= y
      BY <2>3, <3>1, MaxIsLast
    <3>3. ASSUME NEW y \in s \ {Max(s)} PROVE y \in 1 .. n
      <4>1. Max(s) \in 1 .. n + 1 /\ y \in 1 .. n + 1 /\ Max(s) >= y /\ y # Max(s)
        BY <3>2, <3>3, Zenon
      <4>2. \A arr, b \in 1 .. n + 1 : arr >= b /\ b # arr => b \in 1 .. n
        OBVIOUS
      <4> QED
        BY <4>1, <4>2, Zenon
    <3> QED
      BY <3>3
  <2>4. ASSUME NEW s \in SUBSET (1 .. n + 1) PROVE Row(g, s) = Row(h, s)
    <3>1. CASE s = {}
      BY <3>1
    <3>2. CASE s # {}
      <4>1. h[s \ {Max(s)}] = g[s \ {Max(s)}]
        BY <2>2, <2>3, <3>2, Zenon
      <4> QED
        BY <3>2, <4>1, Zenon
    <3> QED
      BY <3>1, <3>2
  <2>5. ASSUME NEW s \in SUBSET (1 .. n + 1) PROVE h[s] = Row(h, s)
    <3>1. CASE n + 1 \in s
      <4>1. h[s] = Row(g, s)
        BY <3>1, Zenon
      <4> QED
        BY <2>4, <4>1, Zenon
    <3>2. CASE n + 1 \notin s
      <4>1. s \in SUBSET (1 .. n)
        <5>1. \A y \in s : y \in 1 .. n
          BY <1>2, <3>2
        <5> QED
          BY <5>1
      <4>2. h[s] = g[s]
        BY <2>2, <4>1, Zenon
      <4>3. g[s] = Row(g, s)
        <5> HIDE DEF Row
        <5> QED
          BY <2>1, <4>1
      <4> QED
        BY <2>4, <4>2, <4>3, Zenon
    <3> QED
      BY <3>1, <3>2
  <2>6. h = [s \in SUBSET (1 .. n + 1) |-> h[s]]
    OBVIOUS
  <2> HIDE DEF h, Row
  <2>7. h = [s \in SUBSET (1 .. n + 1) |-> Row(h, s)]
    BY <2>5, <2>6
  <2> QED
    BY <1>2, <2>7
<1>3. Nat \subseteq A
  <2> HIDE DEF A
  <2> QED
    BY <1>1, <1>2, InductionOnSets
<1> QED
  BY <1>3, Zenon DEF Stores

(* An argument from which a value is moved.                                *)
GivesUp(from) == from.type.ref = "&&" /\ "const" \notin from.type.cv

(* Of what was there only that is gone which an argument gave up, and what *)
(* is there in addition is where an element was made.                      *)
LEMMA TransferGivesAndFills ==
    ASSUME NEW n \in Nat, NEW args, DOMAIN args = 1 .. n, NEW to
    PROVE  /\ \A p \in held \ TransferAll(args, to) :
                  \E j \in 1 .. n : args[j].at = p /\ GivesUp(args[j])
           /\ \A p \in TransferAll(args, to) \ held : \E j \in 1 .. n : p = to[j]
<1> DEFINE S == 1 .. n
           Good(store) == /\ \A p \in held \ store : \E j \in S : args[j].at = p /\ GivesUp(args[j])
                          /\ \A p \in store \ held : \E j \in S : p = to[j]
           g == CHOOSE g : Stores(g, S, args, to)
<1>1. DOMAIN Indexes(args) = S /\ \A i \in S : Indexes(args)[i] = i
  BY DEF Indexes
<1>2. TransferAll(args, to) = g[S]
  BY <1>1, TransferIsLookedUp, Zenon
<1>3. Stores(g, S, args, to)
  BY StoresExist, Zenon
<1> HIDE DEF g
<1>4. ASSUME NEW store, Good(store), NEW i \in S PROVE Good(TransferOne(store, i, args, to))
  <2>1. CASE to[i] = args[i].at
    BY <1>4, <2>1, Zenon DEF TransferOne
  <2>2. CASE to[i] # args[i].at
    <3>1. TransferOne(store, i, args, to)
            = {to[i]} \cup (IF GivesUp(args[i]) THEN store \ {args[i].at} ELSE store)
      BY <2>2, Zenon DEF TransferOne, Transfer, GivesUp
    <3> QED
      BY <1>4, <3>1
  <2> QED
    BY <2>1, <2>2
<1> DEFINE A == {m \in Nat : \A s \in SUBSET S : s \subseteq 1 .. m => Good(g[s])}
<1>5. g[{}] = held
  BY <1>3 DEF Stores
<1>6. Good(held)
  OBVIOUS
<1> HIDE DEF Good
<1>7. 0 \in A
  <2>1. \A s \in SUBSET S : s \subseteq 1 .. 0 => s = {}
    OBVIOUS
  <2>2. \A s \in SUBSET S : s \subseteq 1 .. 0 => Good(g[s])
    BY <1>5, <1>6, <2>1, Zenon
  <2> QED
    BY <2>2
<1>8. ASSUME NEW m \in Nat, m \in A PROVE m + 1 \in A
  <2>1. SUFFICES ASSUME NEW s \in SUBSET S, s \subseteq 1 .. m + 1 PROVE Good(g[s])
    BY <1>8
  <2>2. CASE s = {}
    BY <1>5, <1>6, <2>2
  <2>3. CASE s # {}
    <3>1. Max(s) \in s /\ \A y \in s : Max(s) >= y
      BY <2>3, MaxIsLast
    <3>2. ASSUME NEW y \in s \ {Max(s)} PROVE y \in 1 .. m
      <4>1. Max(s) \in 1 .. m + 1 /\ y \in 1 .. m + 1 /\ Max(s) >= y /\ y # Max(s)
        BY <2>1, <3>1, <3>2, Zenon
      <4>2. \A arr, b \in 1 .. m + 1 : arr >= b /\ b # arr => b \in 1 .. m
        BY <1>8
      <4> QED
        BY <4>1, <4>2, Zenon
    <3>3. s \ {Max(s)} \subseteq 1 .. m /\ s \ {Max(s)} \in SUBSET S
      BY <3>2
    <3>4. Good(g[s \ {Max(s)}])
      BY <1>8, <3>3
    <3>5. g[s] = TransferOne(g[s \ {Max(s)}], Indexes(args)[Max(s)], args, to)
      BY <1>3, <2>3 DEF Stores
    <3>6. Indexes(args)[Max(s)] = Max(s) /\ Max(s) \in S
      BY <1>1, <3>1
    <3> QED
      BY <1>4, <3>4, <3>5, <3>6, Zenon
  <2> QED
    BY <2>2, <2>3
<1>9. Nat \subseteq A
  <2> HIDE DEF A
  <2> QED
    BY <1>7, <1>8, InductionOnSets
<1>10. Good(g[S])
  BY <1>9
<1> QED
  BY <1>2, <1>10, Zenon DEF Good

(* No value is kept in a parameter of a function that has returned, and a  *)
(* tuple has a place for each of its elements.                             *)
AccessInv ==
    /\ AccessTypeOK
    /\ \A t \in Tuples : DOMAIN places[t] = DOMAIN types[t]
    /\ \A t \in Tuples : \A i \in DOMAIN places[t] : places[t][i] \notin ParameterPlaces
    /\ \A p \in held : p \notin ParameterPlaces
    /\ DOMAIN places = Tuples

(* What a step may take away.                                              *)
GivenUp(p) ==
    \/ p \in rvalues'
    \/ \E t \in rvalues' \cap Tuples : \E i \in DOMAIN places[t] :
          places[t][i] = p /\ ~TIsLValueReferenceType(types[t][i])

LEMMA MemberIsNoParameter ==
    ASSUME NEW t \in Tuples, NEW i PROVE MemberOf(t, i) \notin ParameterPlaces
  BY ParametersAssumption DEF MemberOf, ParameterPlaces

LEMMA LengthOfFunction ==
    ASSUME NEW n \in Nat, NEW f, f = [i \in 1 .. n |-> f[i]]
    PROVE  Len(f) = n
<1>1. f \in [1 .. n -> {f[i] : i \in 1 .. n}]
  OBVIOUS
<1>2. f \in Seq({f[i] : i \in 1 .. n})
  BY <1>1
<1>3. DOMAIN f = 1 .. Len(f) /\ Len(f) \in Nat /\ DOMAIN f = 1 .. n
  BY <1>1, <1>2, LenProperties
<1> QED
  BY <1>3

(* A reference to an element gives its value up only if the tuple is an    *)
(* rvalue and the element no lvalue reference.                             *)
LEMMA StdGetGivesUp ==
    ASSUME NEW cv, NEW ref \in {"&", "&&"}, NEW T \in Types, StdGet(cv, ref, T).ref = "&&"
    PROVE  ref = "&&" /\ ~TIsLValueReferenceType(T)
<1>0. T = TypeOf(T.object, T.cv, T.ref) /\ T.ref \in Kinds
  BY EveryTypeHasParts
<1>1. PICK object, own, r : r \in Kinds /\ T = TypeOf(object, own, r)
  BY <1>0, Zenon
<1>2. PICK all : Qualified(T, cv) = TypeOf(object, all, r)
  <2>1. CASE r = ""
    <3>1. Qualified(TypeOf(object, own, r), cv) = TypeOf(object, own \cup cv, r)
      BY <2>1, QualifiedByParts, Zenon
    <3> QED
      BY <1>1, <3>1, Zenon
  <2>2. CASE r # ""
    <3>1. Qualified(TypeOf(object, own, r), cv) = TypeOf(object, own, r)
      BY <2>2, QualifiedByParts, Zenon
    <3> QED
      BY <1>1, <3>1, Zenon
  <2> QED
    BY <2>1, <2>2
<1>3. CASE ref = "&"
  <2>1. StdGet(cv, ref, T) = TypeOf(object, all, "&")
    BY <1>2, <1>3, TraitsByParts, Zenon DEF StdGet
  <2> QED
    BY <2>1, PartsOfType
<1>4. CASE ref = "&&" /\ r = "&"
  <2>0. ref # "&"
    BY <1>4
  <2>1. StdGet(cv, ref, T) = TypeOf(object, all, "&")
    BY <1>2, <1>4, <2>0, TraitsByParts, Zenon DEF StdGet
  <2> QED
    BY <2>1, PartsOfType
<1>5. CASE ref = "&&" /\ r # "&"
  BY <1>1, <1>5, TraitsByParts, Zenon
<1> QED
  BY <1>3, <1>4, <1>5

(* The arguments that the elements of a tuple are.                         *)
LEMMA ElementsOfTuple ==
    ASSUME AccessInv, NEW t \in Tuples, NEW cv, NEW ref \in {"&", "&&"}
    PROVE  /\ DOMAIN Elements(t, cv, ref) = 1 .. Len(types[t]) /\ Len(types[t]) \in Nat
           /\ Len(Elements(t, cv, ref)) = Len(types[t])
           /\ DOMAIN types[t] = 1 .. Len(types[t])
           /\ \A i \in DOMAIN types[t] :
                 /\ Elements(t, cv, ref)[i] = Element(t, cv, ref, i - 1)
                 /\ Element(t, cv, ref, i - 1).at = places[t][i]
                 /\ i \in DOMAIN places[t]
                 /\ GivesUp(Element(t, cv, ref, i - 1)) =>
                       ref = "&&" /\ ~TIsLValueReferenceType(types[t][i])
<1>1. types[t] \in Seq(Types) /\ Len(types[t]) \in Nat /\ DOMAIN types[t] = 1 .. Len(types[t])
  BY LenProperties DEF AccessInv, AccessTypeOK
<1>2. ASSUME NEW i \in DOMAIN types[t]
      PROVE  /\ Element(t, cv, ref, i - 1).at = places[t][i]
             /\ Element(t, cv, ref, i - 1).type = GetImpl(Object(cv, ref), types[t][i])
             /\ types[t][i] \in Types /\ i \in DOMAIN places[t]
  <2>1. i \in 1 .. Len(types[t]) /\ types[t][i] \in Types
    BY <1>1, ElementOfSeq
  <2>2. (i - 1) + 1 = i
    BY <2>1
  <2>3. Get(i - 1, types[t]) = types[t][i] /\ Get(i - 1, places[t]) = places[t][i]
    BY <2>2 DEF Get
  <2> QED
    BY <2>1, <2>3 DEF Element, AccessInv
<1>3. ASSUME NEW i \in DOMAIN types[t], GivesUp(Element(t, cv, ref, i - 1))
      PROVE  ref = "&&" /\ ~TIsLValueReferenceType(types[t][i])
  <2>1. Element(t, cv, ref, i - 1).type = StdGet(cv, ref, types[t][i])
    BY <1>2, GetImplOfTuple, Zenon
  <2>2. Element(t, cv, ref, i - 1).type.ref = "&&"
    BY <1>3, Zenon DEF GivesUp
  <2>3. StdGet(cv, ref, types[t][i]).ref = "&&" /\ types[t][i] \in Types
    BY <1>2, <2>1, <2>2, Zenon
  <2> QED
    BY <2>3, StdGetGivesUp, Zenon
<1>4. Elements(t, cv, ref) = [i \in DOMAIN types[t] |-> Element(t, cv, ref, i - 1)]
  BY DEF Elements
<1>5. Len(Elements(t, cv, ref)) = Len(types[t])
  <2> DEFINE f == Elements(t, cv, ref)
  <2>1. f = [i \in 1 .. Len(types[t]) |-> f[i]]
    BY <1>1, <1>4
  <2> HIDE DEF f
  <2>2. Len(f) = Len(types[t])
    BY <1>1, <2>1, LengthOfFunction
  <2> QED
    BY <2>2 DEF f
<1> QED
  BY <1>1, <1>2, <1>3, <1>4, <1>5

(* What a constructor makes of its arguments.                              *)
LEMMA ConstructKeeps ==
    ASSUME AccessInv, NEW t \in Tuples, NEW shape \in Shapes, NEW args, ConstructFrom(t, shape, args),
           DOMAIN args = 1 .. Len(args)
    PROVE  /\ AccessInv'
           /\ \A p \in held \ held' : \E j \in DOMAIN args : args[j].at = p /\ GivesUp(args[j])
<1> DEFINE to == PlacesOf(t, shape, args)
           n == Len(args)
<1>1. shape \in Seq(Types) /\ n = Len(shape) /\ n \in Nat /\ DOMAIN shape = DOMAIN args
  BY AccessAssumption, LenProperties DEF ConstructFrom, ConstructibleConceptCheck
<1>2. \A i \in DOMAIN args : args[i].at \in held
  BY DEF ConstructFrom, Whole
<1>3. DOMAIN to = DOMAIN args /\ \A i \in DOMAIN args : to[i] = args[i].at \/ to[i] = MemberOf(t, i)
  BY DEF PlacesOf
<1>4. \A i \in DOMAIN args : to[i] \notin ParameterPlaces
  BY <1>2, <1>3, MemberIsNoParameter DEF AccessInv
<1>5. held' = TransferAll(args, to)
  BY DEF ConstructFrom
<1>6. types' = [types EXCEPT ![t] = shape] /\ places' = [places EXCEPT ![t] = to]
  BY DEF ConstructFrom
<1> HIDE DEF to, n
<1>7. /\ \A p \in held \ held' : \E j \in 1 .. n : args[j].at = p /\ GivesUp(args[j])
      /\ \A p \in held' \ held : \E j \in 1 .. n : p = to[j]
  <2>1. DOMAIN args = 1 .. n
    BY DEF n
  <2>2. n \in Nat
    BY <1>1
  <2>3. /\ \A p \in held \ TransferAll(args, to) :
              \E j \in 1 .. n : args[j].at = p /\ GivesUp(args[j])
        /\ \A p \in TransferAll(args, to) \ held : \E j \in 1 .. n : p = to[j]
    BY <2>1, <2>2, TransferGivesAndFills
  <2> QED
    BY <1>5, <2>3
<1>8. \A p \in held' : p \notin ParameterPlaces
  BY <1>4, <1>7 DEF AccessInv, n
<1>9. AccessTypeOK'
  BY <1>1, <1>6 DEF AccessInv, AccessTypeOK
<1>10. DOMAIN types = Tuples /\ DOMAIN places = Tuples
  BY DEF AccessInv, AccessTypeOK
<1>11. \A u \in Tuples : /\ u = t => types'[u] = shape /\ places'[u] = to
                         /\ u # t => types'[u] = types[u] /\ places'[u] = places[u]
  BY <1>6, <1>10
<1>12. DOMAIN places' = Tuples
  BY <1>6, <1>10
<1>13. \A u \in Tuples : DOMAIN places'[u] = DOMAIN types'[u]
  BY <1>1, <1>3, <1>11 DEF AccessInv
<1>14. \A u \in Tuples : \A i \in DOMAIN places'[u] : places'[u][i] \notin ParameterPlaces
  <2> TAKE u \in Tuples
  <2> TAKE i \in DOMAIN places'[u]
  <2>1. CASE u = t
    BY <1>3, <1>4, <1>11, <2>1
  <2>2. CASE u # t
    BY <1>11, <2>2 DEF AccessInv
  <2> QED
    BY <2>1, <2>2
<1> QED
  BY <1>7, <1>8, <1>9, <1>12, <1>13, <1>14, Zenon DEF AccessInv, n

(* What is transferred when the tuples keep their types and places.        *)
LEMMA TransferKeeps ==
    ASSUME AccessInv, UNCHANGED <<types, places>>, \A p \in held' \ held : p \notin ParameterPlaces
    PROVE  AccessInv'
  BY DEF AccessInv, AccessTypeOK

LEMMA ElementsGiveUp ==
    ASSUME AccessInv, NEW t \in Tuples, NEW cv, NEW ref \in {"&", "&&"},
           ref = "&&" => t \in rvalues',
           NEW p, \E j \in DOMAIN types[t] : /\ Elements(t, cv, ref)[j].at = p
                                             /\ GivesUp(Elements(t, cv, ref)[j])
    PROVE  GivenUp(p)
<1>1. PICK j \in DOMAIN types[t] : Elements(t, cv, ref)[j].at = p /\ GivesUp(Elements(t, cv, ref)[j])
  OBVIOUS
<1>2. /\ Elements(t, cv, ref)[j] = Element(t, cv, ref, j - 1)
      /\ Element(t, cv, ref, j - 1).at = places[t][j] /\ j \in DOMAIN places[t]
      /\ GivesUp(Element(t, cv, ref, j - 1)) => ref = "&&" /\ ~TIsLValueReferenceType(types[t][j])
  BY <1>1, ElementsOfTuple
<1>3. ref = "&&" /\ ~TIsLValueReferenceType(types[t][j]) /\ places[t][j] = p
  BY <1>1, <1>2, Zenon
<1> QED
  BY <1>2, <1>3 DEF GivenUp

LEMMA MovedIsRValue == MoveTemp(Object({}, "&")).ref = "&&"
  BY DEF MoveTemp, Object, RValueReference, TRemoveReference, ReferenceOfKind

(* The steps of the client.                                                *)
LEMMA ConstructorStep ==
    ASSUME AccessInv, NEW t \in Tuples, NEW shape \in Shapes
    PROVE  /\ \A args \in [DOMAIN shape -> Arguments] : ForwardingConstructor(t, shape, args) =>
                 AccessInv' /\ \A p \in held \ held' : GivenUp(p)
           /\ \A Other \in Tuples :
                 CopyConstructor(t, shape, Other) \/ MoveConstructor(t, shape, Other) =>
                    AccessInv' /\ \A p \in held \ held' : GivenUp(p)
<1>1. ASSUME NEW args \in [DOMAIN shape -> Arguments], ForwardingConstructor(t, shape, args)
      PROVE  AccessInv' /\ \A p \in held \ held' : GivenUp(p)
  <2>1. ConstructFrom(t, shape, args)
    BY <1>1 DEF ForwardingConstructor
  <2>2. shape \in Seq(Types) /\ Len(shape) \in Nat /\ DOMAIN shape = 1 .. Len(shape)
    BY AccessAssumption, LenProperties
  <2>3. DOMAIN args = 1 .. Len(args)
    <3>1. Len(args) = Len(shape)
      BY <2>1 DEF ConstructFrom, ConstructibleConceptCheck
    <3> QED
      BY <2>2, <3>1
  <2>4. AccessInv' /\ \A p \in held \ held' : \E j \in DOMAIN args : args[j].at = p /\ GivesUp(args[j])
    BY <2>1, <2>3, ConstructKeeps, Zenon
  <2>5. rvalues' = {args[i].at : i \in {j \in DOMAIN args : args[j].type.ref = "&&"}}
    BY <1>1 DEF ForwardingConstructor
  <2> QED
    BY <2>4, <2>5 DEF GivenUp, GivesUp
<1>2. ASSUME NEW Other \in Tuples, CopyConstructor(t, shape, Other) \/ MoveConstructor(t, shape, Other)
      PROVE  AccessInv' /\ \A p \in held \ held' : GivenUp(p)
  <2>1. PICK cv, ref : /\ ref \in {"&", "&&"} /\ (ref = "&&" => Other \in rvalues')
                       /\ ConstructFrom(t, shape, Elements(Other, cv, ref))
    BY <1>2, MovedIsRValue DEF CopyConstructor, MoveConstructor
  <2> DEFINE args == Elements(Other, cv, ref)
  <2>2. DOMAIN args = 1 .. Len(args) /\ DOMAIN args = DOMAIN types[Other]
    BY <2>1, ElementsOfTuple
  <2>3. AccessInv' /\ \A p \in held \ held' : \E j \in DOMAIN args : args[j].at = p /\ GivesUp(args[j])
    <3> HIDE DEF args
    <3>1. ConstructFrom(t, shape, args)
      BY <2>1 DEF args
    <3> QED
      BY <2>2, <3>1, ConstructKeeps, Zenon
  <2> QED
    BY <2>1, <2>2, <2>3, ElementsGiveUp
<1> QED
  BY <1>1, <1>2, Zenon

LEMMA AssignStep ==
    ASSUME AccessInv, NEW t \in Tuples, NEW Other \in Tuples,
           CopyAssign(t, Other) \/ MoveAssign(t, Other)
    PROVE  AccessInv' /\ \A p \in held \ held' : GivenUp(p)
<1>1. PICK cv, ref : /\ ref \in {"&", "&&"} /\ (ref = "&&" => Other \in rvalues')
                     /\ AssignElements(t, Elements(Other, cv, ref))
  BY MovedIsRValue DEF CopyAssign, MoveAssign
<1> DEFINE args == Elements(Other, cv, ref)
           n == Len(args)
<1>2. DOMAIN args = 1 .. n /\ DOMAIN args = DOMAIN types[Other] /\ n \in Nat
  BY <1>1, ElementsOfTuple
<1>3. DOMAIN args = DOMAIN places[t]
  <2>1. n = Len(types[t])
    BY <1>1 DEF AssignElements, AssignableConceptCheck
  <2>2. DOMAIN types[t] = 1 .. Len(types[t])
    BY <1>1, ElementsOfTuple
  <2> QED
    BY <1>2, <2>1, <2>2 DEF AccessInv
<1>4. held' = TransferAll(args, places[t]) /\ UNCHANGED <<types, places>>
  BY <1>1 DEF AssignElements
<1> HIDE DEF args, n
<1>5. /\ \A p \in held \ TransferAll(args, places[t]) :
            \E j \in 1 .. n : args[j].at = p /\ GivesUp(args[j])
      /\ \A p \in TransferAll(args, places[t]) \ held : \E j \in 1 .. n : p = places[t][j]
  BY <1>2, TransferGivesAndFills
<1>6. \A p \in held' \ held : p \notin ParameterPlaces
  BY <1>2, <1>3, <1>4, <1>5 DEF AccessInv
<1>7. AccessInv'
  BY <1>4, <1>6, TransferKeeps
<1>8. \A p \in held \ held' : \E j \in DOMAIN types[Other] : args[j].at = p /\ GivesUp(args[j])
  BY <1>2, <1>4, <1>5
<1>9. \A p \in held \ held' : GivenUp(p)
  BY <1>1, <1>8, ElementsGiveUp DEF args
<1> QED
  BY <1>7, <1>9

LEMMA GetStep ==
    ASSUME AccessInv, NEW t \in Tuples, NEW c \in Categories, NEW v \in Locals,
           NEW Index \in 0 .. Len(types[t]) - 1, GetByIndex(t, c.cv, c.ref, Index, v)
    PROVE  AccessInv' /\ \A p \in held \ held' : GivenUp(p)
<1> DEFINE from == Element(t, c.cv, c.ref, Index)
           i == Index + 1
<1>1. c.ref \in {"&", "&&"}
  BY DEF Categories
<1>2. i \in DOMAIN types[t] /\ i - 1 = Index
  <2>1. DOMAIN types[t] = 1 .. Len(types[t]) /\ Len(types[t]) \in Nat
    BY <1>1, ElementsOfTuple
  <2> QED
    BY <2>1
<1>3. held' = Transfer(held, from, v) /\ UNCHANGED <<types, places>>
      /\ (c.ref = "&&" => t \in rvalues')
  BY DEF GetByIndex
<1> HIDE DEF i
<1>4. /\ from.at = places[t][i] /\ i \in DOMAIN places[t]
      /\ GivesUp(from) => c.ref = "&&" /\ ~TIsLValueReferenceType(types[t][i])
  BY <1>1, <1>2, ElementsOfTuple, Zenon
<1> HIDE DEF from
<1>5. held' = {v} \cup (IF GivesUp(from) THEN held \ {from.at} ELSE held)
  BY <1>3, Zenon DEF Transfer, GivesUp
<1>6. AccessInv'
  <2>1. \A p \in held' \ held : p = v
    BY <1>5
  <2> QED
    BY <1>3, <2>1, TransferKeeps, ParametersAssumption
<1>7. \A p \in held \ held' : GivenUp(p)
  BY <1>3, <1>4, <1>5 DEF GivenUp
<1> QED
  BY <1>6, <1>7

LEMMA ApplyStep ==
    ASSUME AccessInv, NEW t \in Tuples, NEW c \in Categories, ApplyAfterByValue(t, c.cv, c.ref)
    PROVE  AccessInv' /\ \A p \in held \ held' : GivenUp(p)
<1> DEFINE args == Elements(t, c.cv, c.ref)
           n == Len(args)
           Parameters == [i \in DOMAIN args |-> <<"parameter", i>>]
<1>1. c.ref \in {"&", "&&"}
  BY DEF Categories
<1>2. DOMAIN args = 1 .. n /\ DOMAIN args = DOMAIN types[t] /\ n \in Nat
  BY <1>1, ElementsOfTuple
<1>3. /\ held' = TransferAll(args, Parameters) \ ToSet(Parameters) /\ UNCHANGED <<types, places>>
      /\ (c.ref = "&&" => t \in rvalues')
  BY DEF ApplyAfterByValue
<1>4. \A i \in 1 .. n : Parameters[i] \in ParameterPlaces /\ Parameters[i] \in ToSet(Parameters)
  BY <1>2 DEF ParameterPlaces, ToSet
<1>5. \A p \in ToSet(Parameters) : p \in ParameterPlaces
  BY <1>2 DEF ParameterPlaces, ToSet
<1> HIDE DEF args, n, Parameters
<1>6. /\ \A p \in held \ TransferAll(args, Parameters) :
            \E j \in 1 .. n : args[j].at = p /\ GivesUp(args[j])
      /\ \A p \in TransferAll(args, Parameters) \ held : \E j \in 1 .. n : p = Parameters[j]
  BY <1>2, TransferGivesAndFills
<1>7. \A p \in held' \ held : p \notin ParameterPlaces
  BY <1>3, <1>4, <1>6
<1>8. AccessInv'
  BY <1>3, <1>7, TransferKeeps
<1>9. \A p \in held \ held' : \E j \in DOMAIN types[t] : args[j].at = p /\ GivesUp(args[j])
  BY <1>2, <1>3, <1>5, <1>6 DEF AccessInv
<1>10. \A p \in held \ held' : GivenUp(p)
  BY <1>1, <1>3, <1>9, ElementsGiveUp, Zenon DEF args
<1> QED
  BY <1>8, <1>10

(* A value is gone from its place only if the client gave it up: no fold   *)
(* over the elements, in whatever order they alias each other, takes from  *)
(* another place than that of an argument that is an rvalue.               *)
THEOREM ValuesAreGivenUp == AccessSpec => OnlyRvaluesGiveUp
<1>1. AccessInit => AccessInv
  BY ParametersAssumption DEF AccessInit, AccessInv, AccessTypeOK
<1>2. AccessInv /\ [AccessNext]_accessVars =>
          AccessInv' /\ [\A p \in held \ held' : GivenUp(p)]_accessVars
  <2>1. CASE UNCHANGED accessVars
    BY <2>1 DEF accessVars, AccessInv, AccessTypeOK
  <2>2. ASSUME AccessInv, NEW t \in Tuples, Client(t)
        PROVE  AccessInv' /\ \A p \in held \ held' : GivenUp(p)
    <3>1. CASE \E shape \in Shapes : \E args \in [DOMAIN shape -> Arguments] :
                  ForwardingConstructor(t, shape, args)
      BY <2>2, <3>1, ConstructorStep
    <3>2. CASE \E shape \in Shapes, Other \in Tuples :
                  CopyConstructor(t, shape, Other) \/ MoveConstructor(t, shape, Other)
      BY <2>2, <3>2, ConstructorStep
    <3>3. CASE \E Other \in Tuples : CopyAssign(t, Other) \/ MoveAssign(t, Other)
      BY <2>2, <3>3, AssignStep
    <3>4. CASE \E c \in Categories, v \in Locals, Index \in 0 .. Len(types[t]) - 1 :
                  GetByIndex(t, c.cv, c.ref, Index, v)
      BY <2>2, <3>4, GetStep
    <3>5. CASE \E c \in Categories, v \in Locals, T \in ToSet(types[t]) :
                  GetByType(t, c.cv, c.ref, T, v)
      BY <2>2, <3>5, GetStep DEF GetByType
    <3>6. CASE \E c \in Categories : ApplyAfterByValue(t, c.cv, c.ref)
      BY <2>2, <3>6, ApplyStep
    <3> QED
      BY <2>2, <3>1, <3>2, <3>3, <3>4, <3>5, <3>6, Zenon DEF Client
  <2> QED
    BY <2>1, <2>2 DEF AccessNext
<1> QED
  BY <1>1, <1>2, PTL DEF AccessSpec, OnlyRvaluesGiveUp, GivenUp

-------------------------------------------------------------------------------
(* Theorems about the render program, for any number of named threads and  *)
(* of commands: what main has set up when the rendering thread runs, and   *)
(* the order and the numbers in which the commands print.                  *)

(* A worker that is made and set up.                                       *)
Ready(t) ==
    /\ WorkerThreads[t].TaskGraphWorker
    /\ WorkerThreads[t].ThreadId = t
    /\ WorkerThreads[t].StallRestartEvent

WorkersInv ==
    /\ mainAt = "construct" =>
          \E k \in ThreadIndexes :
             \A s \in ThreadIndexes :
                IF s < k THEN Ready(s) ELSE ~WorkerThreads[s].TaskGraphWorker
    /\ mainAt = "setup" =>
          \E k \in ThreadIndexes :
             /\ WorkerThreads[k].TaskGraphWorker /\ WorkerThreads[k].StallRestartEvent
             /\ \A s \in ThreadIndexes :
                   /\ s < k => Ready(s)
                   /\ s > k => ~WorkerThreads[s].TaskGraphWorker
    /\ mainAt \notin {"construct", "setup"} => \A s \in ThreadIndexes : Ready(s)
    /\ mainAt # "construct" => linkCache

(* What main has done by the point where it is, and the rendering thread   *)
(* by the point where that one is.                                         *)
StartInv ==
    /\ mainAt \notin {"construct", "setup", "publish"} => singleton
    /\ mainAt \in {"createThread", "storeHandle", "resume", "count", "enqueue"} => thread.exists
    /\ mainAt \in {"storeHandle", "resume", "count", "enqueue"} => thread.Runnable
    /\ mainAt \in {"resume", "count", "enqueue"} => thread.Thread
    /\ osThread = "runnable" => mainAt \in {"count", "enqueue"}
    /\ renderAt # "entry" => osThread = "runnable"
    /\ badUse = {}

(* The commands that are counted are those printed, those queued, in this  *)
(* order, and the one about to be enqueued.                                *)
OrderInv ==
    /\ Len(printed) + Len(commands) = IF mainAt = "enqueue" THEN a - 1 ELSE a
    /\ \A i \in 1 .. Len(commands) : commands[i] = Len(printed) + i
    /\ \A i \in 1 .. Len(printed) : printed[i].value <= a
    /\ PrintsInOrder

Inv == TypeOK /\ WorkersInv /\ StartInv /\ OrderInv

-----------------------------------------------------------------------------

LEMMA Constants == NumThreads \in Nat /\ 0 \in ThreadIndexes /\ ActualRenderingThread \in ThreadIndexes
  BY ProgramAssumption DEF ThreadIndexes

(* Facts about sequences over any set.                                     *)
LEMMA SeqFacts ==
    ASSUME NEW S, NEW s \in Seq(S)
    PROVE  Len(s) \in Nat /\ \A i \in 1 .. Len(s) : s[i] \in S
  OBVIOUS

LEMMA AppendFacts ==
    ASSUME NEW S, NEW s \in Seq(S), NEW e \in S
    PROVE  /\ Append(s, e) \in Seq(S) /\ Len(Append(s, e)) = Len(s) + 1
           /\ Append(s, e)[Len(s) + 1] = e
           /\ \A i \in 1 .. Len(s) : Append(s, e)[i] = s[i]
  OBVIOUS

LEMMA TailFacts ==
    ASSUME NEW S, NEW s \in Seq(S), s # <<>>
    PROVE  /\ Tail(s) \in Seq(S) /\ Len(Tail(s)) = Len(s) - 1 /\ Len(s) \in Nat \ {0}
           /\ \A i \in 1 .. Len(Tail(s)) : Tail(s)[i] = s[i + 1]
           /\ Head(s) = s[1] /\ Head(s) \in S
<1>1. Len(s) \in Nat \ {0}
  OBVIOUS
<1> QED
  BY <1>1

Printings == [command : 1 .. MaxCommands, value : 1 .. MaxCommands]

(* What TypeOK says of the counts and the sequences.                       *)
LEMMA Typing ==
    ASSUME TypeOK
    PROVE  /\ a \in 0 .. MaxCommands
           /\ commands \in Seq(1 .. MaxCommands) /\ printed \in Seq(Printings)
           /\ Len(commands) \in Nat /\ Len(printed) \in Nat
           /\ \A i \in 1 .. Len(commands) : commands[i] \in 1 .. MaxCommands
           /\ \A i \in 1 .. Len(printed) :
                 printed[i].command \in Nat /\ printed[i].value \in Nat
<1>1. /\ a \in 0 .. MaxCommands
      /\ commands \in Seq(1 .. MaxCommands) /\ printed \in Seq(Printings)
  BY DEF TypeOK, Printings
<1>2. \A e \in Printings : e.command \in Nat /\ e.value \in Nat
  BY ProgramAssumption DEF Printings
<1> QED
  BY <1>1, <1>2, SeqFacts

LEMMA InitInv == Init => Inv
<1> SUFFICES ASSUME Init PROVE Inv
  OBVIOUS
<1>1. NoWorker \in Workers
  BY ProgramAssumption DEF NoWorker, Workers
<1>2. TypeOK
  <2>1. WorkerThreads \in [ThreadIndexes -> Workers] /\ thread = NoThread
    BY <1>1 DEF Init
  <2>2. NoThread \in [exists : BOOLEAN, Runnable : BOOLEAN, Thread : BOOLEAN]
    BY DEF NoThread
  <2>3. /\ a \in 0 .. MaxCommands
        /\ commands \in Seq(1 .. MaxCommands)
        /\ printed \in Seq([command : 1 .. MaxCommands, value : 1 .. MaxCommands])
    BY ProgramAssumption DEF Init
  <2> QED
    BY <2>1, <2>2, <2>3 DEF Init, TypeOK
<1>3. WorkersInv
  <2>1. \A s \in ThreadIndexes : ~(s < 0) /\ ~WorkerThreads[s].TaskGraphWorker
    BY Constants DEF Init, NoWorker, ThreadIndexes
  <2>2. \A s \in ThreadIndexes :
           IF s < 0 THEN Ready(s) ELSE ~WorkerThreads[s].TaskGraphWorker
    BY <2>1
  <2> QED
    BY <2>2, Constants DEF Init, WorkersInv
<1>4. StartInv
  BY DEF Init, StartInv
<1>5. OrderInv
  BY DEF Init, OrderInv, PrintsInOrder
<1> QED
  BY <1>2, <1>3, <1>4, <1>5 DEF Inv

(* Nothing but Count, Enqueue and ExecuteCommand touches what OrderInv     *)
(* speaks of.                                                              *)
LEMMA OrderFrame ==
    ASSUME OrderInv, UNCHANGED <<a, commands, printed>>,
           mainAt # "enqueue", mainAt' # "enqueue"
    PROVE  OrderInv'
  BY DEF OrderInv, PrintsInOrder

LEMMA ConstructWorkerStep == Inv /\ ConstructWorker => Inv'
<1> SUFFICES ASSUME Inv, ConstructWorker PROVE Inv'
  OBVIOUS
<1> USE DEF Inv
<1>1. PICK t \in ThreadIndexes, id \in -1 .. NumThreads :
         /\ ~WorkerThreads[t].TaskGraphWorker
         /\ \A s \in 0 .. t - 1 : WorkerThreads[s].TaskGraphWorker
         /\ WorkerThreads' = [WorkerThreads EXCEPT ![t] = NewWorker(id)]
  BY DEF ConstructWorker, GetLockFreeAllocator
<1>2. NewWorker(id) \in Workers
  BY DEF NewWorker, Workers
<1>3. TypeOK'
  BY <1>1, <1>2 DEF ConstructWorker, GetLockFreeAllocator, TypeOK
<1>4. PICK k \in ThreadIndexes :
         \A s \in ThreadIndexes :
            IF s < k THEN Ready(s) ELSE ~WorkerThreads[s].TaskGraphWorker
  BY DEF ConstructWorker, GetLockFreeAllocator, WorkersInv
<1>5. t = k
  BY <1>1, <1>4, Constants DEF ThreadIndexes, Ready
<1>6. \A s \in ThreadIndexes : s # t => WorkerThreads'[s] = WorkerThreads[s]
  BY <1>1 DEF TypeOK
<1>7. WorkerThreads'[t] = NewWorker(id)
  BY <1>1 DEF TypeOK
<1>8. /\ WorkerThreads'[t].TaskGraphWorker /\ WorkerThreads'[t].StallRestartEvent
      /\ \A s \in ThreadIndexes :
            /\ s < t => Ready(s)'
            /\ s > t => ~WorkerThreads'[s].TaskGraphWorker
  BY <1>4, <1>5, <1>6, <1>7, Constants DEF ThreadIndexes, Ready, NewWorker
<1>9. WorkersInv'
  BY <1>8 DEF WorkersInv, ConstructWorker, GetLockFreeAllocator
<1>10. StartInv'
  BY DEF StartInv, ConstructWorker, GetLockFreeAllocator
<1>11. OrderInv'
  BY OrderFrame DEF ConstructWorker, GetLockFreeAllocator
<1> QED
  BY <1>3, <1>9, <1>10, <1>11

LEMMA SetupWorkerStep == Inv /\ SetupWorker => Inv'
<1> SUFFICES ASSUME Inv, SetupWorker PROVE Inv'
  OBVIOUS
<1> USE DEF Inv
<1>1. PICK t \in ThreadIndexes :
         /\ WorkerThreads[t].TaskGraphWorker
         /\ \A s \in t + 1 .. NumThreads - 1 : ~WorkerThreads[s].TaskGraphWorker
         /\ WorkerThreads' = [WorkerThreads EXCEPT ![t].ThreadId = t]
         /\ mainAt' = IF t + 1 < NumThreads THEN "construct" ELSE "publish"
  BY DEF SetupWorker
<1>2. PICK k \in ThreadIndexes :
         /\ WorkerThreads[k].TaskGraphWorker /\ WorkerThreads[k].StallRestartEvent
         /\ \A s \in ThreadIndexes :
               /\ s < k => Ready(s)
               /\ s > k => ~WorkerThreads[s].TaskGraphWorker
  BY DEF SetupWorker, WorkersInv
<1>3. t = k
  BY <1>1, <1>2, Constants DEF ThreadIndexes
<1>4. \A s \in ThreadIndexes : WorkerThreads[s] \in Workers
  BY DEF TypeOK
<1>5. WorkerThreads'[t] = [WorkerThreads[t] EXCEPT !.ThreadId = t]
  BY <1>1 DEF TypeOK
<1>6. \A s \in ThreadIndexes : s # t => WorkerThreads'[s] = WorkerThreads[s]
  BY <1>1 DEF TypeOK
<1>7. t \in -1 .. NumThreads
  BY Constants DEF ThreadIndexes
<1>8. WorkerThreads'[t] \in Workers
  BY <1>4, <1>5, <1>7 DEF Workers
<1>9. TypeOK'
  BY <1>1, <1>8 DEF SetupWorker, TypeOK
<1>10. Ready(t)'
  BY <1>2, <1>3, <1>4, <1>5 DEF Ready, Workers
<1>11. \A s \in ThreadIndexes :
          /\ s < t => Ready(s)'
          /\ s > t => ~WorkerThreads'[s].TaskGraphWorker
  BY <1>2, <1>3, <1>6, Constants DEF ThreadIndexes, Ready
<1>12. CASE t + 1 < NumThreads
  <2>1. t + 1 \in ThreadIndexes /\ mainAt' = "construct"
    BY <1>1, <1>12, Constants DEF ThreadIndexes
  <2>2. \A s \in ThreadIndexes :
           IF s < t + 1 THEN Ready(s)' ELSE ~WorkerThreads'[s].TaskGraphWorker
    BY <1>10, <1>11, Constants DEF ThreadIndexes
  <2>3. WorkersInv'
    BY <2>1, <2>2 DEF WorkersInv
  <2> QED
    BY <1>9, <2>1, <2>3, OrderFrame DEF SetupWorker, StartInv
<1>13. CASE ~(t + 1 < NumThreads)
  <2>1. mainAt' = "publish"
    BY <1>1, <1>13
  <2>2. \A s \in ThreadIndexes : Ready(s)'
    BY <1>10, <1>11, <1>13, Constants DEF ThreadIndexes
  <2>3. WorkersInv'
    BY <2>1, <2>2 DEF WorkersInv, SetupWorker
  <2> QED
    BY <1>9, <2>1, <2>3, OrderFrame DEF SetupWorker, StartInv
<1> QED
  BY <1>12, <1>13

LEMMA StartStep ==
    Inv /\ (PublishSingleton \/ CreateRunnableThread \/ CreateThread \/ StoreHandle \/ ResumeThread)
      => Inv'
<1> SUFFICES ASSUME Inv,
                    PublishSingleton \/ CreateRunnableThread \/ CreateThread \/ StoreHandle
                      \/ ResumeThread
             PROVE  Inv'
  OBVIOUS
<1> USE DEF Inv
<1>1. TypeOK'
  BY DEF PublishSingleton, CreateRunnableThread, CreateThread, StoreHandle, ResumeThread,
         TypeOK, NewThread, NoThread
<1>2. WorkersInv'
  BY DEF PublishSingleton, CreateRunnableThread, CreateThread, StoreHandle, ResumeThread,
         WorkersInv, Ready
<1>3. StartInv'
  BY DEF PublishSingleton, CreateRunnableThread, CreateThread, StoreHandle, ResumeThread,
         StartInv, TypeOK, NewThread, NoThread
<1>4. OrderInv'
  BY OrderFrame DEF PublishSingleton, CreateRunnableThread, CreateThread, StoreHandle, ResumeThread
<1> QED
  BY <1>1, <1>2, <1>3, <1>4

LEMMA CountStep == Inv /\ Count => Inv'
<1> SUFFICES ASSUME Inv, Count PROVE Inv'
  OBVIOUS
<1> USE DEF Inv
<1>1. a \in Nat /\ a + 1 \in 0 .. MaxCommands /\ a' = a + 1
  BY ProgramAssumption, Typing DEF Count
<1>2. TypeOK'
  BY <1>1 DEF Count, TypeOK
<1>3. WorkersInv' /\ StartInv'
  BY DEF Count, WorkersInv, StartInv, Ready
<1>4. \A i \in 1 .. Len(printed) : printed[i].value \in Nat
  BY Typing
<1>5. OrderInv'
  <2>1. /\ mainAt = "count" /\ mainAt' = "enqueue" /\ UNCHANGED <<commands, printed>>
    BY DEF Count
  <2>2. Len(printed') + Len(commands') = a' - 1
    BY <1>1, <2>1 DEF OrderInv
  <2>3. \A i \in 1 .. Len(printed') : printed'[i].value <= a'
    BY <1>1, <1>4, <2>1 DEF OrderInv
  <2> QED
    BY <2>1, <2>2, <2>3 DEF OrderInv, PrintsInOrder
<1> QED
  BY <1>2, <1>3, <1>5

LEMMA EnqueueStep == Inv /\ Enqueue => Inv'
<1> SUFFICES ASSUME Inv, Enqueue PROVE Inv'
  OBVIOUS
<1> USE DEF Inv
<1>1. /\ a \in 0 .. MaxCommands /\ commands \in Seq(1 .. MaxCommands)
      /\ Len(printed) \in Nat /\ Len(commands) \in Nat
  BY Typing
<1>2. Len(printed) + Len(commands) = a - 1
  BY DEF Enqueue, OrderInv
<1>3. a \in 1 .. MaxCommands
  BY <1>1, <1>2, ProgramAssumption
<1>4. TypeOK'
  <2>1. commands' \in Seq(1 .. MaxCommands)
    BY <1>1, <1>3, AppendFacts DEF Enqueue
  <2> QED
    BY <2>1 DEF Enqueue, TypeOK
<1>5. WorkersInv' /\ StartInv'
  BY DEF Enqueue, WorkersInv, StartInv, Ready
<1>6. /\ Len(commands') = Len(commands) + 1
      /\ \A i \in 1 .. Len(commands') :
            commands'[i] = IF i <= Len(commands) THEN commands[i] ELSE a
  <2>1. commands' = Append(commands, a)
    BY DEF Enqueue
  <2>2. /\ Len(commands') = Len(commands) + 1 /\ commands'[Len(commands) + 1] = a
        /\ \A i \in 1 .. Len(commands) : commands'[i] = commands[i]
    BY <1>1, <1>3, <2>1, AppendFacts
  <2> QED
    BY <1>1, <2>2
<1>7. \A i \in 1 .. Len(commands') : commands'[i] = Len(printed) + i
  <2>1. \A i \in 1 .. Len(commands) : commands[i] = Len(printed) + i
    BY DEF OrderInv
  <2> QED
    BY <1>1, <1>2, <1>6, <2>1
<1>8. OrderInv'
  <2>1. mainAt' = "count" /\ a' = a /\ printed' = printed
    BY DEF Enqueue
  <2>2. Len(printed') + Len(commands') = a'
    BY <1>1, <1>2, <1>6, <2>1
  <2> QED
    BY <1>7, <2>1, <2>2 DEF OrderInv, PrintsInOrder
<1> QED
  BY <1>4, <1>5, <1>8

LEMMA ArriveStep ==
    Inv /\ (DescribeThread \/ RunRunnable \/ FindTaskGraph \/ EnterLoop) => Inv'
<1> SUFFICES ASSUME Inv, DescribeThread \/ RunRunnable \/ FindTaskGraph \/ EnterLoop
             PROVE  Inv'
  OBVIOUS
<1> USE DEF Inv
<1>1. /\ osThread = "runnable" /\ mainAt \in {"count", "enqueue"}
      /\ Ready(ActualRenderingThread)
  BY Constants DEF DescribeThread, RunRunnable, FindTaskGraph, EnterLoop, StartInv, WorkersInv
<1>2. ASSUME DescribeThread \/ RunRunnable \/ FindTaskGraph
      PROVE  Inv'
  <2>1. badUse' = badUse
    BY <1>1, <1>2 DEF DescribeThread, RunRunnable, FindTaskGraph, StartInv, Needs, Ready
  <2>2. UNCHANGED <<mainAt, WorkerThreads, linkCache, singleton, thread, osThread, a, commands, printed>>
    BY <1>2 DEF DescribeThread, RunRunnable, FindTaskGraph, main
  <2>3. renderAt' \in {"run", "attach", "enter"}
    BY <1>2 DEF DescribeThread, RunRunnable, FindTaskGraph
  <2> QED
    BY <1>1, <2>1, <2>2, <2>3 DEF TypeOK, WorkersInv, StartInv, OrderInv, PrintsInOrder, Ready
<1>3. CASE EnterLoop
  <2>1. \A s \in ThreadIndexes : WorkerThreads[s] \in Workers
    BY DEF TypeOK
  <2>2. \A s \in ThreadIndexes :
           /\ WorkerThreads'[s] \in Workers
           /\ WorkerThreads'[s].TaskGraphWorker = WorkerThreads[s].TaskGraphWorker
           /\ WorkerThreads'[s].ThreadId = WorkerThreads[s].ThreadId
           /\ WorkerThreads'[s].StallRestartEvent = WorkerThreads[s].StallRestartEvent
    BY <1>3, <2>1, Constants DEF EnterLoop, TypeOK, Workers
  <2>3. WorkerThreads' \in [ThreadIndexes -> Workers]
    BY <1>3, <2>2 DEF EnterLoop, TypeOK
  <2>4. TypeOK'
    BY <1>3, <2>3 DEF EnterLoop, TypeOK
  <2>5. WorkersInv'
    BY <1>1, <1>3, <2>2 DEF EnterLoop, WorkersInv, Ready
  <2> QED
    BY <1>1, <1>3, <2>4, <2>5 DEF EnterLoop, StartInv, OrderInv, PrintsInOrder
<1> QED
  BY <1>2, <1>3

LEMMA ExecuteStep == Inv /\ ExecuteCommand => Inv'
<1> SUFFICES ASSUME Inv, ExecuteCommand PROVE Inv'
  OBVIOUS
<1> USE DEF Inv
<1> DEFINE n == Len(printed)
           command == [command |-> Head(commands), value |-> a]
<1>1. /\ a \in 0 .. MaxCommands /\ commands \in Seq(1 .. MaxCommands) /\ commands # <<>>
      /\ printed \in Seq(Printings) /\ n \in Nat /\ Len(commands) \in Nat \ {0}
  <2>1. commands # <<>>
    BY DEF ExecuteCommand, Processing
  <2> QED
    BY <2>1, Typing, TailFacts
<1>2. /\ osThread = "runnable" /\ mainAt \in {"count", "enqueue"}
      /\ Ready(ActualRenderingThread) /\ linkCache
  BY Constants DEF ExecuteCommand, Processing, StartInv, WorkersInv
<1>3. badUse' = badUse
  BY <1>2 DEF ExecuteCommand, Needs, Ready
<1>4. /\ UNCHANGED <<mainAt, WorkerThreads, linkCache, singleton, thread, osThread, renderAt, a>>
      /\ commands' = Tail(commands) /\ printed' = Append(printed, command)
  BY DEF ExecuteCommand, main
<1>5. /\ Len(commands') = Len(commands) - 1 /\ commands' \in Seq(1 .. MaxCommands)
      /\ \A i \in 1 .. Len(commands') : commands'[i] = commands[i + 1]
      /\ Head(commands) = commands[1] /\ Head(commands) \in 1 .. MaxCommands
  BY <1>1, <1>4, TailFacts
<1>6. Head(commands) = n + 1
  BY <1>1, <1>5 DEF OrderInv
<1>7. n + 1 <= a /\ a \in 1 .. MaxCommands
  BY <1>1, <1>2, <1>6, ProgramAssumption DEF OrderInv
<1>8. command \in Printings
  BY <1>5, <1>7 DEF Printings
<1>9. /\ printed' \in Seq(Printings)
      /\ Len(printed') = n + 1 /\ printed'[n + 1] = command
      /\ \A i \in 1 .. n : printed'[i] = printed[i]
  BY <1>1, <1>4, <1>8, AppendFacts
<1>10. command.command = n + 1 /\ command.value = a
  BY <1>6
<1> HIDE DEF n, command
<1>11. TypeOK'
  <2>1. printed' \in Seq([command : 1 .. MaxCommands, value : 1 .. MaxCommands])
    BY <1>9 DEF Printings
  <2>2. a \in 0 .. MaxCommands
    BY <1>1
  <2>3. TypeOK
    OBVIOUS
  <2> HIDE DEF Inv
  <2> QED
    BY <1>3, <1>4, <1>5, <2>1, <2>2, <2>3 DEF TypeOK
<1>12. WorkersInv' /\ StartInv'
  BY <1>3, <1>4 DEF WorkersInv, StartInv, Ready
<1>13. \A i \in 1 .. n : /\ printed[i].command = i /\ printed[i].value >= i /\ printed[i].value <= a
                         /\ i > 1 => printed[i].value >= printed[i - 1].value
  BY DEF OrderInv, PrintsInOrder, n
<1>14. \A i \in 1 .. n : printed[i].value \in Nat
  BY Typing DEF n
<1>15. PrintsInOrder'
  <2> SUFFICES ASSUME NEW i \in 1 .. n + 1
               PROVE  /\ printed'[i].command = i
                      /\ printed'[i].value >= i
                      /\ i > 1 => printed'[i].value >= printed'[i - 1].value
    BY <1>9 DEF PrintsInOrder
  <2>1. CASE i \in 1 .. n
    <3>1. i > 1 => i - 1 \in 1 .. n
      BY <1>1, <2>1
    <3> QED
      BY <1>9, <1>13, <2>1, <3>1
  <2>2. CASE i = n + 1
    <3>1. i > 1 => n \in 1 .. n /\ i - 1 = n
      BY <1>1, <2>2
    <3>2. printed'[i].command = i /\ printed'[i].value = a /\ a >= i
      BY <1>1, <1>7, <1>9, <1>10, <2>2
    <3> QED
      BY <1>9, <1>13, <1>14, <2>2, <3>1, <3>2
  <2> QED
    BY <1>1, <2>1, <2>2
<1>16. \A i \in 1 .. Len(printed') : printed'[i].value <= a'
  <2> SUFFICES ASSUME NEW i \in 1 .. n + 1
               PROVE  printed'[i].value <= a
    BY <1>4, <1>9
  <2>1. i \in 1 .. n \/ i = n + 1
    BY <1>1
  <2> QED
    BY <1>1, <1>9, <1>10, <1>13, <2>1
<1>17. \A i \in 1 .. Len(commands') : commands'[i] = Len(printed') + i
  <2> SUFFICES ASSUME NEW i \in 1 .. Len(commands')
               PROVE  commands'[i] = n + 1 + i
    BY <1>9
  <2>1. i + 1 \in 1 .. Len(commands)
    BY <1>1, <1>5
  <2>2. commands[i + 1] = n + (i + 1)
    BY <2>1 DEF OrderInv, n
  <2> QED
    BY <1>1, <1>5, <2>2
<1>18. Len(printed') + Len(commands') = IF mainAt' = "enqueue" THEN a' - 1 ELSE a'
  <2>1. n + Len(commands) = IF mainAt = "enqueue" THEN a - 1 ELSE a
    BY DEF OrderInv, n
  <2>2. Len(printed') + Len(commands') = n + Len(commands)
    BY <1>1, <1>5, <1>9
  <2> QED
    BY <1>4, <2>1, <2>2
<1>19. OrderInv'
  BY <1>15, <1>16, <1>17, <1>18 DEF OrderInv
<1> QED
  BY <1>11, <1>12, <1>19

LEMMA NextStep == Inv /\ [Next]_vars => Inv'
<1>1. Inv /\ UNCHANGED vars => Inv'
  BY DEF vars, main, Inv, TypeOK, WorkersInv, StartInv, OrderInv, PrintsInOrder, Ready
<1> QED
  BY <1>1, ConstructWorkerStep, SetupWorkerStep, StartStep, CountStep, EnqueueStep, ArriveStep,
     ExecuteStep DEF Next, MainStep, RenderStep

THEOREM Invariance == Spec => []Inv
  BY InitInv, NextStep, PTL DEF Spec

(* Type correctness of the render program.                                 *)
THEOREM ProgramTypeCorrect == Spec => []TypeOK
<1>1. Inv => TypeOK
  BY DEF Inv
<1> QED
  BY <1>1, Invariance, PTL

(* The rendering thread uses nothing that main has not set up, for any     *)
(* number of named threads (CreateInternal, WindowsRunnableThread.h).      *)
THEOREM NothingUsedTooEarly == Spec => []StartedInOrder
<1>1. Inv => StartedInOrder
  BY DEF Inv, StartInv, StartedInOrder
<1> QED
  BY <1>1, Invariance, PTL

(* Commands print once each, in order, and never a number lower than their *)
(* own or than one printed before, for any number of commands (main of     *)
(* TaskGraph.cpp).                                                         *)
THEOREM CommandsPrintInOrder == Spec => []PrintsInOrder
<1>1. Inv => PrintsInOrder
  BY DEF Inv, OrderInv
<1> QED
  BY <1>1, Invariance, PTL

===============================================================================
