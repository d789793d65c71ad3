-------------------------------- MODULE Array --------------------------------
(***************************************************************************)
(* TArray::Reserve (TMP/Array.h) down to the allocation policy             *)
(* (ContainerAllocationPolicies.h) and FMemory (FMemory.inl,               *)
(* UnrealMemory.cpp).  The allocator behind GMalloc is not in the          *)
(* repository: MemoryBase.h declares its interface only, and GCreateMalloc  *)
(* stands for the creation of one.                                         *)
(*                                                                         *)
(* TArray has no constructor: ArrayNum and ArrayMax start with what the    *)
(* memory holds.  FMemory asks the allocator only on the call that creates *)
(* it; from then on QuantizeSize returns 0 and Realloc a null pointer,     *)
(* their calls of GMalloc being commented out.                             *)
(*                                                                         *)
(* The block of an array is modelled by its size, 0 for a null pointer.    *)
(* Sizes in bytes are of type SIZE_T, which the Win32 builds of the        *)
(* project make as narrow as SizeType, so that a product may wrap around.  *)
(***************************************************************************)
EXTENDS NumericLimits

CONSTANTS
    Arrays,         \* the arrays of the program
    SizeBits,       \* IndexSize, the width of SizeType: 32 in the program
    SizeTBits,      \* the width of SIZE_T: 32 or 64, as the build has it
    ElementSize,    \* sizeof(ElementType)
    Numbers         \* the arguments of Reserve

SizeMax == SignedLimits(SizeBits).Max
SizeMin == SignedLimits(SizeBits).Min

SizeType == SizeMin .. SizeMax

(* What the exponents come to: TBitsToSizeType names signed types.         *)
ASSUME SizesAreSigned ==
    /\ SizeMax \in Nat /\ SizeMin = -SizeMax - 1
    /\ UnsignedLimits(SizeBits).Max = 2 * SizeMax + 1
ASSUME SizeTIsUnsigned == UnsignedLimits(SizeTBits).Max \in Nat
ASSUME ElementsHaveSize == ElementSize \in Nat \ {0}
ASSUME NumbersAreSizes == Numbers \subseteq SizeType

VARIABLES
    GMalloc,        \* whether the allocator was created
    alive,          \* the arrays that exist
    ArrayMax,       \* their members
    Data,
    reserved        \* the largest number that Reserve was asked for

arrayVars == <<GMalloc, alive, ArrayMax, Data, reserved>>

(* A conversion of a SIZE_T to the signed SizeType.                        *)
ToSize(x) == ToSigned(x, SizeBits)

(* SIZE_T(NumElements) * SIZE_T(BytesPerElement).                          *)
NumBytes(NumElements) == ToUnsigned(NumElements * ElementSize, SizeTBits)

QuantizeSize(Count) == IF GMalloc THEN 0 ELSE Count

(* Mutant of CalculateSlackReserve: no saturation.                         *)
CalculateSlackUnsaturated(NumElements) ==
    ToSize(QuantizeSize(NumBytes(NumElements)) \div ElementSize)

CalculateSlackReserve(NumElements) ==
    LET Retval == ToSize(QuantizeSize(NumBytes(NumElements)) \div ElementSize)
    IN  IF NumElements > Retval THEN SizeMax ELSE Retval

GCreateMalloc == GMalloc' = TRUE

(* The allocator that was just created may answer null.                    *)
ReallocExternal(a, Count) ==
    /\ GCreateMalloc
    /\ \E block \in {0, Count} : Data' = [Data EXCEPT ![a] = block]

Realloc(a, Count) ==
    IF GMalloc
    THEN Data' = [Data EXCEPT ![a] = 0] /\ UNCHANGED GMalloc
    ELSE ReallocExternal(a, Count)

ResizeAllocation(a, NumElements) ==
    IF Data[a] # 0 \/ NumElements # 0
    THEN Realloc(a, NumBytes(NumElements))
    ELSE UNCHANGED <<GMalloc, Data>>

ResizeTo(a, NewMax) ==
    LET Slack == IF NewMax # 0 THEN CalculateSlackReserve(NewMax) ELSE 0
    IN  IF Slack # ArrayMax[a]
        THEN /\ ArrayMax' = [ArrayMax EXCEPT ![a] = Slack]
             /\ ResizeAllocation(a, Slack)
        ELSE UNCHANGED <<GMalloc, ArrayMax, Data>>

ArrayInit ==
    /\ GMalloc = FALSE
    /\ alive = {}
    /\ ArrayMax = [a \in Arrays |-> 0]
    /\ Data = [a \in Arrays |-> 0]
    /\ reserved = [a \in Arrays |-> SizeMin]

(* The allocator's constructor sets Data; nothing sets the other members.  *)
ConstructArray(a) ==
    /\ a \notin alive
    /\ alive' = alive \cup {a}
    /\ \E garbage \in SizeType : ArrayMax' = [ArrayMax EXCEPT ![a] = garbage]
    /\ Data' = [Data EXCEPT ![a] = 0]
    /\ reserved' = [reserved EXCEPT ![a] = SizeMin]
    /\ UNCHANGED GMalloc

(* A negative Number is handed to OnInvalidNum, which does nothing.        *)
Reserve(a, Number) ==
    /\ a \in alive
    /\ reserved' = [reserved EXCEPT ![a] = IF Number > @ THEN Number ELSE @]
    /\ IF Number >= 0 /\ Number > ArrayMax[a]
       THEN ResizeTo(a, Number)
       ELSE UNCHANGED <<GMalloc, ArrayMax, Data>>
    /\ UNCHANGED alive

(* SetupTLSCachesOnCurrentThread creates the allocator too.                *)
SetupTLSCachesOnCurrentThread ==
    /\ IF GMalloc THEN UNCHANGED GMalloc ELSE GCreateMalloc
    /\ UNCHANGED <<alive, ArrayMax, Data, reserved>>

(* The destructor keeps the block: its call of Free is commented out.      *)
DestroyArray(a) ==
    /\ a \in alive
    /\ alive' = alive \ {a}
    /\ UNCHANGED <<GMalloc, ArrayMax, Data, reserved>>

ArrayNext ==
    \/ \E a \in Arrays :
        \/ ConstructArray(a)
        \/ \E Number \in Numbers : Reserve(a, Number)
        \/ DestroyArray(a)
    \/ SetupTLSCachesOnCurrentThread

ArraySpec == ArrayInit /\ [][ArrayNext]_arrayVars
-------------------------------------------------------------------------------
ArrayTypeOK ==
    /\ GMalloc \in BOOLEAN
    /\ alive \subseteq Arrays
    /\ ArrayMax \in [Arrays -> SizeType]
    /\ Data \in [Arrays -> Nat]
    /\ reserved \in [Arrays -> SizeType]

(* What an array says it can hold (ArrayMax) covers every number that it   *)
(* was asked to reserve, whatever ArrayMax was before and however the      *)
(* slack is computed: DefaultCalculateSlackReserve saturates where the     *)
(* quantized size falls short, be it that QuantizeSize answers 0 or that   *)
(* the product wrapped around.  It says nothing of the memory behind it,   *)
(* which is what ReserveReserves is about.                                 *)
ReservedIsCounted ==
    \A a \in alive : reserved[a] >= 0 => ArrayMax[a] >= reserved[a]

(* What Array.h says of Reserve, of an array that the allocator gave a     *)
(* block: it keeps one that holds the numbers it is asked for.             *)
ReserveReserves ==
    [][\A a \in alive \cap alive' :
          Data[a] # 0 /\ reserved'[a] >= 0 => Data'[a] >= reserved'[a] * ElementSize]_arrayVars
=============================================================================
