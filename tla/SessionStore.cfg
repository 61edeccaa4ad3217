CONSTANTS
  Clients = {c1, c2}
  NoClient = NoClient
  Sizes = {0, 2}
  MaxCalls = 3
  MaxCrashes = 1
SPECIFICATION FairSpec
INVARIANTS
  TypeOK
  TempFilesAccountedFor
PROPERTIES
  KeepsPromises
  CallsReturn
\* Clients stop after MaxCalls calls; that none of them stops inside a call
\* is CallsReturn.
CHECK_DEADLOCK FALSE
