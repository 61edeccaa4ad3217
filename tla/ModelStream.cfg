CONSTANTS
  Indexes = {1, 2}
  MaxText = 2
  MaxArgs = 2
SPECIFICATION FairSpec
INVARIANTS
  TurnTellsTheMessage
  ForwardedAsSent
PROPERTIES
  TurnEnds
\* One turn, which ends; that it does is TurnEnds.
CHECK_DEADLOCK FALSE
