\* Two tasks are dispatched while a third is held and unlocked.
SPECIFICATION FairSpec
CONSTANTS
    NamedThreads = {RHIThread, GameThread, RenderingThread}
    ActualRenderingThread = RenderingThread
    Tasks = {t1, t2, t3}
    Held = {t3}
INVARIANTS DispatchedInOrder ExecutesBuiltTask NoUseAfterDelete
PROPERTIES DispatchedIsDeleted
CHECK_DEADLOCK FALSE
