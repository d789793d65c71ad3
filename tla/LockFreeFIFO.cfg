\* Two pushers, two poppers and three links, each of which may be recycled; one
\* pusher may be suspended for ever in the middle of Push.
SPECIFICATION FairSpec
CONSTANTS
    MAX_TagBitsValue = 32
    Links <- ThreeLinks
    Stub = 1
    Pushers = {p1, p2}
    Poppers = {c1, c2}
    Suspended = {p1}
    MaxPushes = 1
INVARIANTS TailOnChain LinksConserved NoNullDereference NullMeansEmpty
PROPERTIES ImplementsFIFO CallsReturn
CHECK_DEADLOCK FALSE
