SPECIFICATION FairSpec
CONSTANTS
  p1 = p1
  p2 = p2
  p3 = p3
  p4 = p4
  Procs <- TwoSlots
  SERVERNUMBER = 1
  MAXSERVERS = 1
  USESYSLOG = FALSE
  ClosedFdOutcomes <- AnyBuild
  MaxConns = 0
  MaxHups = 1
  MaxCrashes = 0
  MaxForkErrors = 0
  MaxOpenErrors = 0
  MaxTerms = 0
  Leader = TRUE
PROPERTY WorkerLogsCurrent
