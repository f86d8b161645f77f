SPECIFICATION Spec
CONSTANTS
    Conversations <- MCConversations
    MAXRECV = 12
    MAXHTTPHEADERLENGTH = 28
    MAXCHUNKHEADER = 13
    MAXCHUNK = 2
    WORD = 64
INVARIANTS TypeOK OnlyFrames OnlyBadCutsFail HeaderBounded
PROPERTIES ReadingEnds StepsRunOut
\* A conversation ends.
CHECK_DEADLOCK FALSE
