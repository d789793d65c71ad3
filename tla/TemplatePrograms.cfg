SPECIFICATION Spec
CONSTANTS
    Delegates = {d1, d2}
    Blocks = {b1, b2, b3}
    NULL = NULL
    None = None
    StaticFuncs = {TestStaticRowFunc}
    Lambdas = {AddToTol}
    Variables = {"nParamB"}
    Values = {4, 5}
    ArgLists <- Payloads
    ParamLists <- Params
    MaxCalls = 1
    LambdaObjects = {l1, l2}
    MaxObjects = 4
    MaxFrames = 3
    Arrays = {a1, a2}
    SizeBits = 4
    SizeTBits = 4
    ElementSize = 3
    Numbers <- Numbered
    MemorySize = 33
    Pointers = {0, 16}
    Sizes = {0, 1, 2, 3, 4, 5, 6, 7, 8, 9, 16}
    MaxOps = 2
    Tuples = {t1, t2}
    Shapes <- ElementTypes
    Locals = {x, y, z}
SYMMETRY Symmetry
INVARIANTS OwnedOnce LastingRefsReach ReservedIsCounted MemswapExchanges GetsLikeStd
PROPERTIES ImplementsValues OnlyRvaluesGiveUp
CHECK_DEADLOCK FALSE
