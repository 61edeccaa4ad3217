----------------------------- MODULE MCAgentRun -----------------------------
(***************************************************************************)
(* Values for checking AgentRun: a triage agent that can hand over to a    *)
(* support agent and to one that cannot be set up; support hands back.     *)
(***************************************************************************)
EXTENDS AgentRun

MCHandoffTo ==
  [a \in Agents |-> CASE a = "triage"  -> {"support", "broken"}
                      [] a = "support" -> {"triage"}
                      [] OTHER -> {}]
MCStartAgent   == [r \in Runs |-> IF r = "r1" THEN "triage" ELSE "support"]
MCInputGuards  == [a \in Agents |-> IF a = "triage" THEN 2 ELSE 0]
MCOutputGuards == [a \in Agents |-> IF a = "support" THEN 1 ELSE 0]

(* A final answer, a tool call, handoffs beside other calls, two handoffs. *)
MCAnswers ==
  { <<>>, <<Tool>>, <<"support", Tool>>, <<"triage">>,
    <<"broken", "support">>, <<"broken">> }
=============================================================================
