\* Two failed attempts at sock, lines of one or two characters, at most one byte to a
\* connection, and an uninitialised integer that is 0 or 1.
CONSTANTS
    SockTries = 2
    MaxLine = 2
    MaxBytes = 1
    Garbage = {0, 1}
    None = None
SPECIFICATION SetupSpec
INVARIANTS TotalIsWhatWasSent
CHECK_DEADLOCK FALSE
