-------------------------------- MODULE Tuple --------------------------------
(***************************************************************************)
(* TTuple (TMP/Tuple.h): the payload of a delegate.  A tuple is a sequence *)
(* of values; the index of a member starts at 0, as the template argument  *)
(* of Get does.  The overloads of Get and ApplyAfter differ in the cv and  *)
(* reference category they pass on, never in the element they designate.   *)
(***************************************************************************)
EXTENDS Naturals, Sequences

(* The forwarding constructor: one element for each argument, converted to *)
(* the decayed type of the argument, that is, copied out of the variable   *)
(* that it names.                                                          *)
TTuple(Args, value) == [i \in DOMAIN Args |-> value[Args[i]]]

(* The base class of the element at Index holds it in its member Value,    *)
(* except for the first one of a pair, where the member is called Key.     *)
Member(Index, Size) == IF Index = 0 /\ Size = 2 THEN "Key" ELSE "Value"

(* TTupleElementGetterByIndex names Value, whatever the tuple: Get, and    *)
(* what uses it, compiles for every tuple but a pair.                      *)
GetCompiles(Size) == \A Index \in 0 .. Size - 1 : Member(Index, Size) = "Value"

Get(Index, tuple) == tuple[Index + 1]

(* Calls a function with the arguments first and the tuple's elements      *)
(* after them.                                                             *)
ApplyAfter(Args, tuple) ==
    Args \o [i \in 1 .. Len(tuple) |-> Get(i - 1, tuple)]
=============================================================================
