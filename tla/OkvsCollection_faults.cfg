\* Up to two processes die, each at any of its steps; two batches and a queue of one connection.
CONSTANTS
    n1 = n1  n2 = n2  n3 = n3  n4 = n4
    Neighbors <- FourNeighbors
    BatchSize = 2
    Backlog = 0
    Size = 2
    X = x
    None = None
    MaxFaults = 2
SPECIFICATION Spec
INVARIANTS TypeOK EntriesWhole CollectedIsComplete
PROPERTIES NoEntryReplaced Role0Starts
CHECK_DEADLOCK FALSE
