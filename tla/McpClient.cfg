CONSTANTS
  Goroutines = {g1, g2}
  NoOne = NoOne
  ToolNames = {"read", "write"}
  Policies <- MCPolicies
  MaxCalls = 4
  MaxPages = 2
  MaxTokens = 2
SPECIFICATION Spec
INVARIANTS
  ServersAccountedFor
  PolicyGates
  CredentialsGuarded
\* The goroutines stop after MaxCalls calls.
CHECK_DEADLOCK FALSE
