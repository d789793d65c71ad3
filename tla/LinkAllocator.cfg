\* Two threads, bundles of two links, pages of three: the third bundle straddles
\* two pages, as the 256th of the code does.
SPECIFICATION MCSpec
CONSTANTS
    Procs = {x1, x2}
    NUM_PER_BUNDLE = 2
    ItemsPerPage = 3
    MaxTotalItems = 9
INVARIANTS BundlesAreFull LinksConserved ConstructedInPlace HandedOutClean
CHECK_DEADLOCK FALSE
