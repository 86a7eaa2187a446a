\* Two bins for up to three elements, equal ones included: evictions cycle and
\* the stash is used.  Every choice of the three hash functions is an initial state.
CONSTANTS
    Values = {v1, v2, v3}
    NumBins = 2
    NumFunctions = 3
    RecursionLimiter = 2
    MaxElements = 3
    Empty = Empty
SPECIFICATION Spec
INVARIANTS TypeOK EachElementOnce PlacedWhereHashed WorkBound
PROPERTIES OccupiedStays EventuallyMapped PlacementPromise
CHECK_DEADLOCK FALSE
