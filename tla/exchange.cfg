SPECIFICATION Spec
CONSTANTS
    Worlds <- MCWorlds
    Parent <- MCParent
    NORESUME <- MCNORESUME
    HeaderSize = 2
    Static <- MCStatic
    PortNumbers <- MCPortNumbers
    MAXNAME = 15
    MAXHOST = 20
    MAXURL = 80
INVARIANTS TypeOK FramingAgrees ToldIsDone HeaderIsOurs AnswerIsRequested RedirectsEnd
 
PROPERTIES AskedWhereItBelongs TriedAgainOnce
\* The worker ends at an address that it cannot stand.
CHECK_DEADLOCK FALSE
