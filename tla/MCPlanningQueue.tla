-------------------------- MODULE MCPlanningQueue --------------------------
(* One conversation with two messages. *)
EXTENDS PlanningQueue
=============================================================================
