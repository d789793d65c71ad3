\* The class in general: two servicing threads, both priorities, and a counter
\* with three values, so that it wraps and the bound on starvation is reached.
SPECIFICATION Spec
CONSTANTS
    MAX_TagBitsValue = 3
    Pushers = {p1, p2}
    Threads = {0, 1}
    NumPriorities = 2
    UsedPriorities = {0, 1}
    MaxPushes = 1
INVARIANTS NoLostWakeup OneWakePerStall InductiveInv
SYMMETRY PusherSymmetry
CHECK_DEADLOCK FALSE
