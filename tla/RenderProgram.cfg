\* The start-up and the first six commands; the queue with two callers.
SPECIFICATION PartsSpec
CONSTANTS
    NumThreads = 3
    ActualRenderingThread <- RenderingThreadOrdinal
    MaxCommands = 6
    MAX_TagBitsValue = 64
    Pushers = {p1, p2}
    MaxPushes = 2
INVARIANTS StartedInOrder PrintsInOrder
PROPERTIES EveryCommandPrints EveryTaskExecuted ImplementsTaskQueue
CHECK_DEADLOCK FALSE
