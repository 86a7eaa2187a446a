\* Two failed attempts at sock, lines of one or two characters, at most one byte to a
\* connection.
CONSTANTS
    SockTries = 2
    MaxLine = 2
    MaxBytes = 1
    Garbage = {0}
    None = None
SPECIFICATION SetupSpec
INVARIANTS EndsMatch SciTotalsAgree
PROPERTIES Settles
CHECK_DEADLOCK FALSE
