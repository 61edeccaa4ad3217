----------------------------- MODULE ToolPolicy -------------------------------
(***************************************************************************)
(* The authorization policies of package tool: what a policy says of a     *)
(* call of a tool, before anybody is asked.                                *)
(***************************************************************************)
EXTENDS FiniteSets

NoPolicy == [type |-> "none"]
AllowAll == [type |-> "all"]
Allowlist(names) == [type |-> "allowlist", names |-> names]
Denylist(names) == [type |-> "denylist", names |-> names]
RequireApproval(approver, names) ==
  [type |-> "approval", approver |-> approver, names |-> names]
PerTool(default, overrides) ==
  [type |-> "per_tool", default |-> default, overrides |-> overrides]

(* The policy that decides: an override replaces the default.              *)
Deciding(policy, tool) ==
  IF policy.type # "per_tool" THEN policy
  ELSE IF tool \in DOMAIN policy.overrides THEN policy.overrides[tool]
  ELSE policy.default

(* "allow", "deny", or "ask" the approver; without one nothing is allowed. *)
Verdict(policy, tool) ==
  LET p == Deciding(policy, tool)
  IN  CASE p.type \in {"none", "all"} -> "allow"
        [] p.type = "allowlist" -> IF tool \in p.names THEN "allow" ELSE "deny"
        [] p.type = "denylist" -> IF tool \in p.names THEN "deny" ELSE "allow"
        [] p.type = "approval" ->
             IF p.names # {} /\ tool \notin p.names THEN "allow"
             ELSE IF p.approver THEN "ask" ELSE "deny"
=============================================================================
