----------------------------- MODULE TupleAccess -----------------------------
(***************************************************************************)
(* The overloads of Get and ApplyAfter of TTuple, and the constructors and  *)
(* assignments from another tuple (TMP/Tuple.h): which element a client    *)
(* gets, as which type, and therefore whether a value is copied or moved   *)
(* away from where it was.                                                 *)
(*                                                                         *)
(* An element is a place: a member of the tuple, or, for an element of     *)
(* reference type, a variable of the client.                               *)
(***************************************************************************)
EXTENDS Tuple, TypeTraits, Integers, SequencesExt

CONSTANTS
    Tuples,         \* the tuples of the client
    Shapes,         \* their element types: sequences of Types, not of two
    Locals          \* the variables of the client, all of one object type

ASSUME AccessAssumption == Shapes \subseteq Seq(Types)

(* The parameters of a function, named after their number, are objects of  *)
(* their own: neither members of a tuple nor variables of its caller.      *)
ParameterPlaces == {"parameter"} \X Nat

ASSUME ParametersAssumption ==
    "parameter" \notin Tuples /\ \A v \in Locals : v \notin ParameterPlaces

VARIABLES
    types,          \* the element types of each tuple; none before construction
    places,         \* where its elements are; empty before construction
    held,           \* the places whose value is there, not moved away
    rvalues         \* the tuples and variables given up by the last call

accessVars == <<types, places, held, rvalues>>

MemberOf(t, i) == <<t, i>>

Categories == [cv : SUBSET {"const", "volatile"}, ref : {"&", "&&"}]

Object(cv, ref) == [object |-> "tuple", cv |-> cv, ref |-> ref]

(* What the parameter TupleType&& deduces: no reference for an rvalue.     *)
Deduced(T) == IF TIsLValueReferenceType(T) THEN T ELSE TRemoveReference(T)

(* The language's E.Value in brackets: a member of reference type is an    *)
(* lvalue whatever E is, another one has E's category and qualifiers.      *)
Select(E, member) ==
    IF TIsReferenceType(member) THEN LValueReference(member)
    ELSE ReferenceOfKind(E.ref, Qualified(member, E.cv))

(* Mutant of GetImpl: the category of the tuple is not asked for.          *)
GetImplOfAny(TupleType, DeducedType) ==
    LET Result == Select(ForwardAsBase(Deduced(TupleType), Object({}, "")), DeducedType)
    IN  IF TIsRValueReferenceType(DeducedType) THEN DeducedType ELSE Result

(* Mutant of GetImpl: the member access as it is.                          *)
GetImplOfMember(TupleType, DeducedType) ==
    Select(ForwardAsBase(Deduced(TupleType), Object({}, "")), DeducedType)

(* The type that Get returns for an element of DeducedType.                *)
GetImpl(TupleType, DeducedType) ==
    LET Tuple == Deduced(TupleType)
        Result == Select(ForwardAsBase(Tuple, Object({}, "")), DeducedType)
    IN  IF TAnd(TNot(TIsReferenceType(Tuple)), TIsRValueReferenceType(DeducedType))
        THEN DeducedType
        ELSE Result

(* What is known of the argument that an element is made from.             *)
Element(t, cv, ref, Index) ==
    [type |-> GetImpl(Object(cv, ref), Get(Index, types[t])), at |-> Get(Index, places[t])]

Elements(t, cv, ref) ==
    [i \in DOMAIN types[t] |-> Element(t, cv, ref, i - 1)]

(* Whether T can be made from the argument: a reference binds to nothing   *)
(* less qualified, and an rvalue only to && and to a const &; an object of *)
(* class type is not made from a volatile one.                             *)
IsConstructible(T, from) ==
    CASE T.ref = ""   -> "volatile" \notin from.cv
      [] T.ref = "&"  -> from.cv \subseteq T.cv /\ (from.ref = "&" \/ T.cv = {"const"})
      [] T.ref = "&&" -> from.cv \subseteq T.cv /\ from.ref = "&&"

IsAssignable(T, from) == "const" \notin T.cv /\ "volatile" \notin T.cv \cup from.cv

(* The value goes from one place to the other, and is gone from the first  *)
(* if the argument is an rvalue that can be modified.                      *)
Transfer(store, from, to) ==
    {to} \cup (IF from.type.ref = "&&" /\ "const" \notin from.type.cv
              THEN store \ {from.at} ELSE store)

(* The client passes values that are still there, each of them once.       *)
Whole(args) ==
    \A i \in DOMAIN args :
        /\ args[i].at \in held
        /\ \A j \in DOMAIN args : args[j].at = args[i].at => j = i

(* An element of reference type takes the place of its argument.           *)
PlacesOf(t, shape, args) ==
    [i \in DOMAIN args |-> IF TIsReferenceType(shape[i]) THEN args[i].at ELSE MemberOf(t, i)]

(* The elements are constructed, or assigned to, from the first to the last. *)
TransferAll(args, to) ==
    FoldLeft(LAMBDA store, i : IF to[i] = args[i].at THEN store
                               ELSE Transfer(store, args[i], to[i]),
             held, [i \in DOMAIN args |-> i])

ConstructibleConceptCheck(shape, args) ==
    /\ Len(args) = Len(shape)
    /\ \A i \in DOMAIN args : IsConstructible(shape[i], args[i].type)

AssignableConceptCheck(t, args) ==
    /\ Len(args) = Len(types[t])
    /\ \A i \in DOMAIN args : IsAssignable(GetImpl(Object({}, "&"), types[t][i]), args[i].type)

Constructed(t) == places[t] # <<>>

AccessInit ==
    /\ types = [t \in Tuples |-> <<>>]
    /\ places = [t \in Tuples |-> <<>>]
    /\ held = Locals
    /\ rvalues = {}

ConstructFrom(t, shape, args) ==
    /\ Whole(args) /\ ConstructibleConceptCheck(shape, args)
    /\ types' = [types EXCEPT ![t] = shape]
    /\ places' = [places EXCEPT ![t] = PlacesOf(t, shape, args)]
    /\ held' = TransferAll(args, PlacesOf(t, shape, args))

(* TTuple(ArgTypes&&...): each argument a variable, as it is or through    *)
(* MoveTemp.                                                               *)
ForwardingConstructor(t, shape, args) ==
    /\ ConstructFrom(t, shape, args)
    /\ rvalues' = {args[i].at : i \in {j \in DOMAIN args : args[j].type.ref = "&&"}}

(* TTuple(const TTuple<OtherTypes...>&) and TTuple(TTuple<OtherTypes...>&&). *)
CopyConstructor(t, shape, Other) ==
    /\ Constructed(Other)
    /\ ConstructFrom(t, shape, Elements(Other, {"const"}, "&"))
    /\ rvalues' = {}

MoveConstructor(t, shape, Other) ==
    /\ Constructed(Other)
    /\ ConstructFrom(t, shape, Elements(Other, {}, MoveTemp(Object({}, "&")).ref))
    /\ rvalues' = {Other}

AssignElements(Lhs, Rhs) ==
    /\ Whole(Rhs) /\ AssignableConceptCheck(Lhs, Rhs)
    /\ held' = TransferAll(Rhs, places[Lhs])
    /\ UNCHANGED <<types, places>>

(* The two operators =.  Between tuples of the same type the defaulted     *)
(* copy assignment is preferred, which is deleted if there is a reference  *)
(* among the elements; the defaulted move assignment would be passed over. *)
CopyAssign(t, Other) ==
    /\ Constructed(Other)
    /\ types[t] = types[Other] => \A i \in DOMAIN types[t] : ~TIsReferenceType(types[t][i])
    /\ AssignElements(t, Elements(Other, {"const"}, "&"))
    /\ rvalues' = {}

MoveAssign(t, Other) ==
    /\ Constructed(Other)
    /\ AssignElements(t, Elements(Other, {}, MoveTemp(Object({}, "&")).ref))
    /\ rvalues' = {Other}

(* Get<Index>() in its eight forms, to set a variable.                     *)
GetByIndex(t, cv, ref, Index, v) ==
    LET from == Element(t, cv, ref, Index)
    IN  /\ Whole(<<from>>) /\ v # from.at
        /\ IsAssignable(Forward([object |-> "value", cv |-> {}, ref |-> "&"]), from.type)
        /\ held' = Transfer(held, from, v)
        /\ rvalues' = IF ref = "&&" THEN {t} ELSE {}
        /\ UNCHANGED <<types, places>>

TTypeCountInParameterPack(T, pack) == Len(SelectSeq(pack, LAMBDA U : U = T))

(* Get<T>() in its eight forms: compiles for a type that occurs once.      *)
GetByType(t, cv, ref, T, v) ==
    /\ TTypeCountInParameterPack(T, types[t]) = 1
    /\ \E Index \in 0 .. Len(types[t]) - 1 :
        Get(Index, types[t]) = T /\ GetByIndex(t, cv, ref, Index, v)

(* ApplyAfter in its forms, to a function that takes its parameters by     *)
(* value: they are made from the elements, and are gone when it returns.   *)
ApplyAfterByValue(t, cv, ref) ==
    LET args == Elements(t, cv, ref)
        Parameters == [i \in DOMAIN args |-> <<"parameter", i>>]
    IN  /\ Whole(args)
        /\ \A i \in DOMAIN args : IsConstructible(TRemoveReference(types[t][i]), args[i].type)
        /\ held' = TransferAll(args, Parameters) \ ToSet(Parameters)
        /\ rvalues' = IF ref = "&&" THEN {t} ELSE {}
        /\ UNCHANGED <<types, places>>

Arguments ==
    [type : {[object |-> "value", cv |-> {}, ref |-> ref] : ref \in {"&", "&&"}}, at : Locals]

Client(t) ==
    \/ ~Constructed(t) /\ \E shape \in Shapes :
        \/ \E args \in [DOMAIN shape -> Arguments] : ForwardingConstructor(t, shape, args)
        \/ \E Other \in Tuples \ {t} :
            CopyConstructor(t, shape, Other) \/ MoveConstructor(t, shape, Other)
    \/ Constructed(t) /\
        \/ \E Other \in Tuples \ {t} : CopyAssign(t, Other) \/ MoveAssign(t, Other)
        \/ \E c \in Categories :
            \/ \E v \in Locals :
                \/ \E Index \in 0 .. Len(types[t]) - 1 : GetByIndex(t, c.cv, c.ref, Index, v)
                \/ \E T \in ToSet(types[t]) : GetByType(t, c.cv, c.ref, T, v)
            \/ ApplyAfterByValue(t, c.cv, c.ref)

AccessNext == \E t \in Tuples : Client(t)

AccessSpec == AccessInit /\ [][AccessNext]_accessVars
-------------------------------------------------------------------------------
(* The rule of std::get: the element's type as a member of the tuple's     *)
(* qualifiers, then a reference of the tuple's category to it, collapsed.  *)
StdGet(cv, ref, T) ==
    LET member == Qualified(T, cv)
    IN  IF ref = "&" THEN LValueReference(member) ELSE RValueReference(member)

(* Get returns what std::get would (Tuple.h:98 says so), whatever the      *)
(* element type, the qualifiers and the category of the tuple: one case of *)
(* the sixteen overloads that took the plain member access would turn a    *)
(* move into a copy, or a copy into a move.                                *)
GetsLikeStd ==
    \A t \in Tuples, c \in Categories : Constructed(t) =>
        \A i \in DOMAIN types[t] :
            Element(t, c.cv, c.ref, i - 1).type = StdGet(c.cv, c.ref, types[t][i])

(* A value is gone from its place only if the client gave it up: it passed *)
(* the variable through MoveTemp, or an rvalue tuple that holds the value  *)
(* itself or an rvalue reference to it.  Moving a tuple leaves what its    *)
(* lvalue references refer to, and copying or applying one leaves all.     *)
OnlyRvaluesGiveUp ==
    [][\A p \in held \ held' :
          \/ p \in rvalues'
          \/ \E t \in rvalues' \cap Tuples : \E i \in DOMAIN places[t] :
                places[t][i] = p /\ ~TIsLValueReferenceType(types[t][i])
      ]_accessVars
=============================================================================
