SPECIFICATION Spec
CONSTANTS
  p1 = p1
  p2 = p2
  p3 = p3
  p4 = p4
  Procs <- ThreeSlots
  SERVERNUMBER = 1
  MAXSERVERS = 2
  USESYSLOG = FALSE
  ClosedFdOutcomes <- AnyBuild
  MaxConns = 2
  MaxHups = 2
  MaxCrashes = 1
  MaxForkErrors = 1
  MaxOpenErrors = 1
  MaxTerms = 0
  Leader = TRUE
SYMMETRY SlotSymmetry
CHECK_DEADLOCK FALSE
INVARIANT TypeOK
INVARIANT InstancesCount
INVARIANT PoolBound
INVARIANT SlotForFork
INVARIANT MasterLogsCurrent
