SPECIFICATION BusySpec
CONSTANTS
    Workers = {w1, w2}
    w1 = w1
    w2 = w2
    L = 3
    RETRIES = 1
    ErrorSize = 1
    MaxActive = 1
    MaxData = 4
    Worlds <- Sequential
CHECK_DEADLOCK FALSE
INVARIANTS TypeOK Integrity
PROPERTIES ResumesPartialFile RequestsEnd EventuallySettled ImplementsStore
