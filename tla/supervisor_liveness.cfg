SPECIFICATION FairSpec
CONSTANTS
  p1 = p1
  p2 = p2
  p3 = p3
  p4 = p4
  Procs <- FourSlots
  SERVERNUMBER = 1
  MAXSERVERS = 2
  USESYSLOG = FALSE
  ClosedFdOutcomes <- AnyBuild
  MaxConns = 3
  MaxHups = 0
  MaxCrashes = 1
  MaxForkErrors = 0
  MaxOpenErrors = 0
  MaxTerms = 1
  Leader = TRUE
CHECK_DEADLOCK FALSE
PROPERTY PoolReplenished
PROPERTY BacklogServed
PROPERTY ShutdownComplete
PROPERTY ImplementsPool
