\* Dwords of two bits: 256 blocks, lanes of 16 values, and enough payloads for the count
\* to fill more than one lane.
CONSTANTS
    Radix = 4
    RandomValues = {1, 15, 16, 100, 255}
    MaxCount = 20
SPECIFICATION Spec
INVARIANTS DifferenceIsCount ComparesLanes
CHECK_DEADLOCK FALSE
