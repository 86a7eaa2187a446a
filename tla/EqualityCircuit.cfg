\* Words of 14 bits in digits of 3, two blocks, two comparisons handled at a time, and
\* streams that hold nothing: a send returns when all is received.
CONSTANTS
    NumBins = 2
    ByteSize = 2
    L = 14
    Beta = 3
    Room = 0
    Inputs <- MCInputs
    LeafMasks <- MCLeafMasks
    TripleShares <- MCTripleShares
    Pending = Pending
SPECIFICATION Spec
INVARIANTS SharesOfDigits TripleMasksOnce
PROPERTIES BothReturn SharedEqualityKept
CHECK_DEADLOCK FALSE
