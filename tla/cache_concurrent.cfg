SPECIFICATION FairSpec
CONSTANTS
    Workers = {w1, w2}
    w1 = w1
    w2 = w2
    L = 2
    RETRIES = 1
    ErrorSize = 1
    MaxActive = 2
    MaxData = 3
    Worlds <- Concurrent
CHECK_DEADLOCK FALSE
PROPERTIES RequestsEnd StaysSettled
