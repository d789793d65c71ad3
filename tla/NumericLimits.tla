---------------------------- MODULE NumericLimits ----------------------------
(***************************************************************************)
(* TNumericLimits (TMP/NumericLimits.h) of the integer types, by the width *)
(* of the type in bits; the limits of float and double are not modelled.   *)
(* The program has the widths 8, 16, 32 and 64; the definitions are those  *)
(* of any width, so that TLC can use a small one.                          *)
(***************************************************************************)
EXTENDS Integers

(* The constants MIN_ and MAX_ of the unsigned and of the signed types.    *)
UnsignedLimits(bits) == [Min |-> 0, Max |-> 2 ^ bits - 1, Lowest |-> 0]

SignedLimits(bits) ==
    [Min |-> -(2 ^ (bits - 1)), Max |-> 2 ^ (bits - 1) - 1, Lowest |-> -(2 ^ (bits - 1))]

(* The value that an integer becomes in a type of that width.              *)
ToUnsigned(x, bits) == x % (UnsignedLimits(bits).Max + 1)

ToSigned(x, bits) ==
    LET u == ToUnsigned(x, bits)
    IN  IF u <= SignedLimits(bits).Max THEN u ELSE u - (UnsignedLimits(bits).Max + 1)
=============================================================================
