------------------------------ MODULE MCPlans ------------------------------
(***************************************************************************)
(* The confirmation of plans and the decisions on a confirmed one.  The    *)
(* two share no variable: their interleavings say nothing that each does   *)
(* not, so a behaviour here is one of the first or one of the second.      *)
(***************************************************************************)
EXTENDS PlanConfirmation, Remediation, TLC

TabSymmetry == Permutations(Tabs)

\* A plan without a conversation is created before anything else, if at all;
\* its approval is interleaved with everything.
Confirming ==
    /\ DecisionInit /\ Next
    /\ CreatePlan => count.edits = 0 /\ count.turns = 0 /\ plans[1] = NoPlan
    /\ UNCHANGED decisionVars
Deciding == Init /\ DecisionNext /\ UNCHANGED vars

PlansInit == Init /\ DecisionInit

PlansSpec ==
    /\ PlansInit
    /\ [][Confirming \/ Deciding]_<<vars, decisionVars>>
=============================================================================
