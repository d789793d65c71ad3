--------------------------- MODULE IndexedPointer ---------------------------
(***************************************************************************)
(* FIndexedPointer of UE/LockFreeList.h: a 64-bit word that packs an index *)
(* (26 bits) and a counter (38 bits) that every compare-and-swap advances. *)
(* The two fields are kept apart here; equality of the records is equality *)
(* of the words, which is what InterlockedCompareExchange compares.        *)
(***************************************************************************)
EXTENDS Naturals

CONSTANT MAX_TagBitsValue   \* number of values of the counter: 2^38 in the code

\* The counter field holds at least two values.
ASSUME TagBitsAssumption == MAX_TagBitsValue \in Nat \ {0, 1}

Counter == 0 .. MAX_TagBitsValue - 1

\* The words whose index (or, for a master state, bit set) is drawn from Ptrs.
IndexedPointers(Ptrs) == [ptr : Ptrs, counter : Counter]

\* SetAll: the word with this index and this counter.
SetAll(ptr, counter) == [ptr |-> ptr, counter |-> counter]

\* SetPtr: a new index, the counter stays.
SetPtr(word, to) == [word EXCEPT !.ptr = to]

\* Mutant of AdvanceCounter: the counter stays as it was.
KeepCounter(word) == word.counter

\* AdvanceCounterAndState with TABAInc = 1, the only increment the program
\* uses: the next counter, which wraps.  The hook called on a wrap is empty.
AdvanceCounter(word) ==
    IF word.counter = MAX_TagBitsValue - 1 THEN 0 ELSE word.counter + 1

\* The counter's value n changes before it was c.
CounterBefore(c, n) == IF n <= c THEN c - n ELSE c + MAX_TagBitsValue - n
=============================================================================
