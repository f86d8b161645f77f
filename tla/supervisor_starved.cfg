SPECIFICATION EndingSpec
CONSTANTS
  p1 = p1
  p2 = p2
  p3 = p3
  p4 = p4
  Procs <- ThreeSlots
  SERVERNUMBER = 1
  MAXSERVERS = 2
  USESYSLOG = FALSE
  ClosedFdOutcomes <- AnyBuild
  MaxConns = 4
  MaxHups = 0
  MaxCrashes = 0
  MaxForkErrors = 0
  MaxOpenErrors = 0
  MaxTerms = 0
  Leader = TRUE
PROPERTY EveryClientAccepted
