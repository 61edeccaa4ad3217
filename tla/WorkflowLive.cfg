CONSTANTS
  N = 3
  Sessions = {"s"}
  NoSession = "none"
  Plans <- LivePlans
  EventCap = 1
  MaxProgress = 1
SPECIFICATION FairSpec
INVARIANTS
  EventsTellTheRun
PROPERTIES
  ReadRunEnds
  AbandonedRunEnds
