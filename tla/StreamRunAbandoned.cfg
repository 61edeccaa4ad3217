CONSTANTS
  Buffer = 1
  RootTurns = 2
  ChildTurns = 1
  MaxDeltas = 1
SPECIFICATION FairSpec
PROPERTIES
  AbandonedRunEnds
CHECK_DEADLOCK FALSE
