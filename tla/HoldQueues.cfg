SPECIFICATION Spec
CONSTANTS
    NamedThreads = {RHIThread, GameThread, RenderingThread}
    ActualRenderingThread = RenderingThread
    Tasks = {t1, t2, t3}
    Held = {t3}
INVARIANTS HoldDefersDispatch
SYMMETRY TaskSymmetry
CHECK_DEADLOCK FALSE
