\* Two words and a random one for two bins and two functions, so that words collide and
\* the stash is used; every pair of sets, every choice of hash functions, every sharing.
CONSTANTS
    Words = {w1, w2}
    Pads = {p1}
    Capacity = 2
    Align = 2
    NumFunctions = 2
    Modulus = 4
    RandomBlocks = {0, 3}
    Empty = Empty
    Junk = Junk
SPECIFICATION Spec
INVARIANTS SharesMarkCommon EachBinCountsItsMatch ReadsMatch
PROPERTIES BothFinish CountIsIdeal
CHECK_DEADLOCK FALSE
