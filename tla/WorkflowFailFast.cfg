CONSTANTS
  N = 3
  Sessions = {"s"}
  NoSession = "none"
  Plans <- MCPlans
  EventCap = 2
  MaxProgress = 0
SPECIFICATION Spec
PROPERTIES
  FailFastSkipsUnstarted
