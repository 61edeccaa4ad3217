CONSTANTS
  Callers = {a, b}
  Burst = 1
  Period = 2
  Policies <- MCPolicies
  Statuses = {401}
  Causes = {"deadline", "undecodable"}
  MaxCalls = 3
SYMMETRY CallerSymmetry
SPECIFICATION Spec
INVARIANTS
  BurstRespected
  NoOversleeping
  ChainFollowsRules
