--------------------------- MODULE MCV2Experiment ---------------------------
(* A small credit cell: three accounts, two rounds. *)
EXTENDS V2Experiment

MCAgents == 1..3
MCCash == <<2, 3, 0>>
MCShares == <<0, 1, 2>>
MCCredit == <<3, 2, 1>>
MCBasis == <<0, 2, 4>>
MCFacility == Sum(MCCredit)   \* sum_preregistered_agent_credit_limits
=============================================================================
