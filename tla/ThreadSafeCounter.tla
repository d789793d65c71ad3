-------------------------- MODULE ThreadSafeCounter --------------------------
(***************************************************************************)
(* FThreadSafeCounter (UE/ThreadSafeCounter.h), as far as the program uses *)
(* it: Increment and Add in the link allocator, Decrement in the graph     *)
(* tasks.  Each is one interlocked instruction, given by the value it      *)
(* leaves in a counter that holds c and the value it returns: Increment    *)
(* and Decrement return the new value, Add the old one.  No counter of the *)
(* program comes near the ends of an int32.  Subtract, Set, Reset and      *)
(* GetValue have no caller and are left out.                               *)
(***************************************************************************)
EXTENDS Integers

Op(new, returned) == [Counter |-> new, returned |-> returned]

\* The default constructor, and the one that is given a value.
Zero == 0
Init(Value) == Value

Add(c, Amount) == Op(c + Amount, c)

Increment(c) == Op(c + 1, c + 1)
Decrement(c) == Op(c - 1, c - 1)
=============================================================================
