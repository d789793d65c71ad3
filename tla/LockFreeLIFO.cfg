\* Two threads, three links, three calls each, in any order; one thread may be
\* suspended for ever in the middle of a call.  The counter wraps, but not within
\* the calls that one thread can make while the other is inside one.
SPECIFICATION FairSpec
CONSTANTS
    MAX_TagBitsValue = 4
    Links <- ThreeLinks
    Procs = {x1, x2}
    Suspended = {x1}
    MaxCalls = 3
INVARIANTS LinksConserved
PROPERTIES ImplementsLIFO CallsReturn
CHECK_DEADLOCK FALSE
