\* A node without neighbors.
CONSTANTS
    n1 = n1  n2 = n2  n3 = n3  n4 = n4
    Neighbors <- NoNeighbor
    BatchSize = 2
    Backlog = 1
    Size = 2
    X = x
    None = None
    MaxFaults = 0
SPECIFICATION Spec
PROPERTIES Completes
CHECK_DEADLOCK FALSE
