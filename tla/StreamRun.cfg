CONSTANTS
  Buffer = 2
  RootTurns = 2
  ChildTurns = 1
  MaxDeltas = 1
SPECIFICATION FairSpec
INVARIANTS
  TypeOK
  EndsWithOutcome
  ChildWithinCall
  DelegationTold
PROPERTIES
  ReadRunEnds
\* The system stops when the run is over; that it stops at no other time is
\* ReadRunEnds.
CHECK_DEADLOCK FALSE
