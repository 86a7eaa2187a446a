\* Nobody dies; two batches, and a kernel queue of two connections.
CONSTANTS
    n1 = n1  n2 = n2  n3 = n3  n4 = n4
    Neighbors <- FourNeighbors
    BatchSize = 3
    Backlog = 1
    Size = 2
    X = x
    None = None
    MaxFaults = 0
SPECIFICATION Spec
PROPERTIES Completes PromiseKept
CHECK_DEADLOCK FALSE
