---------------------------- MODULE MCResilience ----------------------------
(***************************************************************************)
(* Values for checking Resilience: the chain of the tutorial, a primary    *)
(* and a backup that both retry.                                           *)
(***************************************************************************)
EXTENDS Resilience

MCPolicies == <<2, 2>>
=============================================================================
