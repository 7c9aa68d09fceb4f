------------------------- MODULE MCGatewayPipeline -------------------------
(* Two concurrent handlers, one replay identity, three calls in the month, *)
(* and a deployment for each action on an exceeded budget.                  *)
EXTENDS GatewayPipeline

MCConfigs ==
    {[failClosed |-> TRUE,  starter |-> TRUE, overageColumn |-> FALSE, onExceed |-> "block"],
     [failClosed |-> FALSE, starter |-> FALSE, overageColumn |-> TRUE,
      onExceed |-> "require_hitl"],
     [failClosed |-> TRUE,  starter |-> FALSE, overageColumn |-> FALSE,
      onExceed |-> "throttle"],
     [failClosed |-> TRUE,  starter |-> FALSE, overageColumn |-> TRUE,
      onExceed |-> "throttle"]}
=============================================================================
