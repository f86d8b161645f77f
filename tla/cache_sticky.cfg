SPECIFICATION Spec
CONSTANTS
    Workers = {w1, w2}
    w1 = w1
    w2 = w2
    L = 3
    RETRIES = 1
    ErrorSize = 1
    MaxActive = 1
    MaxData = 3
    Worlds <- Sticky
PROPERTIES ResumesPartialFile
