-------------------------------- MODULE Memory --------------------------------
(***************************************************************************)
(* The functions of TMP/UnrealMemory.h on the bytes of memory: Memswap by  *)
(* machine words, Memzero, Memmove and MemIsZero.  A byte is any value,    *)
(* 0 among them; a word is the bytes from its address on.  Memswap is the  *)
(* free function: the member FMemory::Memswap finds its own name before    *)
(* that one and calls itself without end, so no call of it returns.        *)
(***************************************************************************)
EXTENDS Integers, Sequences

CONSTANTS
    MemorySize,     \* the bytes of memory, 0 .. MemorySize - 1
    Pointers,       \* the addresses that the client passes
    Sizes,          \* the sizes that it passes
    MaxOps          \* bound on the client's calls

ASSUME MemoryAssumption ==
    MemorySize \in Nat /\ Pointers \subseteq Nat /\ Sizes \subseteq Nat

VARIABLES
    bytes,          \* the memory
    isZero,         \* the last answer of MemIsZero
    swap,           \* the last exchange, with the memory before it, or none
    ops             \* the number of calls made

memoryVars == <<bytes, isZero, swap, ops>>

Bytes == 0 .. MemorySize - 1

Span(Ptr, Size) == Ptr .. Ptr + Size - 1

Disjoint(Ptr1, Ptr2, Size) == Span(Ptr1, Size) \cap Span(Ptr2, Size) = {}

(* Valswap exchanges two words of the given width.                         *)
Valswap(memory, A, B, width) ==
    LET Tmp == [i \in Span(A, width) |-> memory[i]]
        A_is_B == [i \in Bytes |-> IF i \in Span(A, width) THEN memory[B + i - A] ELSE memory[i]]
    IN  [i \in Bytes |-> IF i \in Span(B, width) THEN Tmp[A + i - B] ELSE A_is_B[i]]

(* Mutant of Words: case 7 without the last byte.                          *)
WordsShort(Size) ==
    CASE Size \in {1, 2, 4, 8} -> <<Size>>
      [] Size \in {3, 5, 6} -> IF Size = 3 THEN <<2, 1>> ELSE <<4, Size - 4>>
      [] Size = 7  -> <<4, 2>>
      [] Size = 16 -> <<8, 8>>
      [] OTHER     -> <<>>

(* The words that Memswap exchanges one after the other, each behind the   *)
(* one before; of any other size it exchanges none.                        *)
Words(Size) ==
    CASE Size = 1  -> <<1>>
      [] Size = 2  -> <<2>>
      [] Size = 3  -> <<2, 1>>
      [] Size = 4  -> <<4>>
      [] Size = 5  -> <<4, 1>>
      [] Size = 6  -> <<4, 2>>
      [] Size = 7  -> <<4, 2, 1>>
      [] Size = 8  -> <<8>>
      [] Size = 16 -> <<8, 8>>
      [] OTHER     -> <<>>

(* One swap, which leaves both pointers behind the word.                   *)
SwapWord(at, width) ==
    [memory |-> Valswap(at.memory, at.Ptr1, at.Ptr2, width),
     Ptr1 |-> at.Ptr1 + width, Ptr2 |-> at.Ptr2 + width]

(* The memory and the pointers before the swaps and after each of them.    *)
SwapWords(memory, Ptr1, Ptr2, words) ==
    LET after[n \in 0 .. Len(words)] ==
            IF n = 0 THEN [memory |-> memory, Ptr1 |-> Ptr1, Ptr2 |-> Ptr2]
                     ELSE SwapWord(after[n - 1], words[n])
    IN  after

Memswap(memory, Ptr1, Ptr2, Size) ==
    LET words == Words(Size)
    IN  SwapWords(memory, Ptr1, Ptr2, words)[Len(words)].memory

(* The first byte that is not zero ends the loop.                          *)
MemIsZero(memory, Ptr, Count) == \A i \in Span(Ptr, Count) : memory[i] = 0

MemoryInit ==
    /\ bytes = [i \in Bytes |-> i]
    /\ isZero = FALSE
    /\ swap = <<>>
    /\ ops = 0

Inside2(Ptr1, Ptr2, Size) == Span(Ptr1, Size) \cup Span(Ptr2, Size) \subseteq Bytes

CallMemswap(Ptr1, Ptr2, Size) ==
    /\ Disjoint(Ptr1, Ptr2, Size) /\ Inside2(Ptr1, Ptr2, Size)
    /\ bytes' = Memswap(bytes, Ptr1, Ptr2, Size)
    /\ swap' = <<[Ptr1 |-> Ptr1, Ptr2 |-> Ptr2, Size |-> Size, before |-> bytes]>>
    /\ UNCHANGED isZero

Memset(Dest, Char, Count) ==
    /\ Span(Dest, Count) \subseteq Bytes
    /\ bytes' = [i \in Bytes |-> IF i \in Span(Dest, Count) THEN Char ELSE bytes[i]]
    /\ UNCHANGED isZero
    /\ swap' = <<>>

Memzero(Dest, Count) == Memset(Dest, 0, Count)

(* The source and the destination may overlap.                             *)
Memmove(Dest, Src, Count) ==
    /\ Inside2(Dest, Src, Count)
    /\ bytes' = [i \in Bytes |-> IF i \in Span(Dest, Count) THEN bytes[Src + i - Dest] ELSE bytes[i]]
    /\ UNCHANGED isZero
    /\ swap' = <<>>

(* Memcpy, and BigBlockMemcpy, StreamingMemcpy and ParallelMemcpy, which   *)
(* are the same: of blocks that do not overlap.                            *)
Memcpy(Dest, Src, Count) == Disjoint(Dest, Src, Count) /\ Memmove(Dest, Src, Count)

CallMemIsZero(Ptr, Count) ==
    /\ Span(Ptr, Count) \subseteq Bytes
    /\ isZero' = MemIsZero(bytes, Ptr, Count)
    /\ swap' = <<>>
    /\ UNCHANGED bytes

MemoryNext ==
    /\ ops < MaxOps /\ ops' = ops + 1
    /\ \E p \in Pointers, Size \in Sizes :
        \/ \E q \in Pointers : CallMemswap(p, q, Size) \/ Memmove(p, q, Size) \/ Memcpy(p, q, Size)
        \/ Memset(p, MemorySize, Size)
        \/ Memzero(p, Size)
        \/ CallMemIsZero(p, Size)

MemorySpec == MemoryInit /\ [][MemoryNext]_memoryVars
-------------------------------------------------------------------------------
(* The sizes that Memswap has a case for; it ignores the others, 9 to 15   *)
(* and those above 16, the call of MemswapGreaterThan8 being commented out. *)
SwappedSizes == (0 .. 8) \cup {16}

(* The free Memswap of UnrealMemory.h exchanges two blocks of a size from  *)
(* 0 to 8 or of size 16 byte for byte, also those that take two or three   *)
(* words and blocks that lie side by side, and leaves the rest of memory;  *)
(* blocks of any other size it leaves as they are.                         *)
MemswapExchanges ==
    \A i \in DOMAIN swap :
        LET s == swap[i]
        IN  IF s.Size \in SwappedSizes
            THEN /\ \A k \in 0 .. s.Size - 1 :
                       bytes[s.Ptr1 + k] = s.before[s.Ptr2 + k] /\ bytes[s.Ptr2 + k] = s.before[s.Ptr1 + k]
                 /\ \A j \in Bytes \ (Span(s.Ptr1, s.Size) \cup Span(s.Ptr2, s.Size)) :
                       bytes[j] = s.before[j]
            ELSE bytes = s.before
=============================================================================
