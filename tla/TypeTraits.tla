------------------------------ MODULE TypeTraits ------------------------------
(***************************************************************************)
(* The operators on types of TMP/Invoke.h.  A type is an object type with  *)
(* its qualifiers, and a reference to it or none: that is all the          *)
(* templates look at, and all that decides whether a value is copied or    *)
(* moved.  A qualifier cannot be put on a reference, and a reference to a  *)
(* reference collapses: those are the language's rules, not the code's.    *)
(***************************************************************************)
Types == [object : STRING, cv : SUBSET {"const", "volatile"}, ref : {"", "&", "&&"}]

ReferenceOfKind(ref, T) == [T EXCEPT !.ref = ref]

LValueReference(T) == ReferenceOfKind("&", T)
RValueReference(T) == IF T.ref = "&" THEN T ELSE ReferenceOfKind("&&", T)
Qualified(T, cv) == IF T.ref = "" THEN [T EXCEPT !.cv = @ \cup cv] ELSE T

TIsReferenceType(T) == T.ref # ""
TIsLValueReferenceType(T) == T.ref = "&"
TIsRValueReferenceType(T) == T.ref = "&&"

TRemoveReference(T) == ReferenceOfKind("", T)

(* What a cast with MoveTemp and with Forward<T> makes of an object.       *)
MoveTemp(T) == RValueReference(TRemoveReference(T))
Forward(T) == RValueReference(T)

TNot(Value) == ~Value

(* The first operand and the value of the rest of the pack, which is left  *)
(* unread once the answer is known; that is no matter where it exists.     *)
TAnd(LHS, RHS) == LHS /\ RHS
TOr(LHS, RHS) == LHS \/ RHS

(* A reference has no qualifiers of its own, so that From gives none then. *)
TCopyQualifiersFromTo(From, To) ==
    Qualified(To, IF TIsReferenceType(From) THEN {} ELSE From.cv)

(* The nine cases of the references of From and To.                        *)
TCopyQualifiersAndRefsFromTo(From, To) ==
    LET Type == TCopyQualifiersFromTo(TRemoveReference(From), TRemoveReference(To))
    IN  IF TOr(TIsLValueReferenceType(From), TIsLValueReferenceType(To))
        THEN LValueReference(Type)
        ELSE IF TOr(TIsRValueReferenceType(From), TIsRValueReferenceType(To))
             THEN RValueReference(Type)
             ELSE Type

(* An object of type T&&, as one of its base class.                        *)
ForwardAsBase(T, Base) == TCopyQualifiersAndRefsFromTo(Forward(T), Base)
=============================================================================
