CONSTANTS
  N = 3
  Sessions = {"s"}
  NoSession = "none"
  Plans <- MCPlans
  EventCap = 2
  MaxProgress = 0
SPECIFICATION Spec
INVARIANTS
  TypeOK
  Bookkeeping
  ParallelLimit
  DependencyOrder
  SessionExclusive
  SkipsExactlyDependents
  ErrorsExplained
  EventsTellTheRun
PROPERTIES
  EndsOnce
  FailFastStops
  KeepsPromises
