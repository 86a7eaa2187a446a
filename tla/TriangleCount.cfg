\* Every graph on four vertices and every order of the neighbor files; with MAX_DEGREE 3
\* no process dies, with 2 those of the neighbors whose list is longer.
CONSTANTS
    NumVertex = 4
    MaxDegrees = {2, 3}
    WordSize = 16
    X = 0
    MaxStash = 2
    None = None
SPECIFICATION Spec
INVARIANTS NoWordTwice TwoWordsPerTriangle PrintedIsTriangles OnlyFromWholeLists
PROPERTIES EventuallyPrinted
CHECK_DEADLOCK FALSE
