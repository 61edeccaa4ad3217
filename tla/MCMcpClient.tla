----------------------------- MODULE MCMcpClient ------------------------------
(* Values for model-checking McpClient.                                    *)
EXTENDS McpClient

MCPolicies ==
  {NoPolicy, Allowlist({"read"}), Denylist({"write"}), RequireApproval(TRUE, {}),
   RequireApproval(FALSE, {"write"}),
   PerTool(NoPolicy, [t \in {"write"} |-> RequireApproval(TRUE, {"write"})])}
=============================================================================
