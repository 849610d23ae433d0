---------------------------- MODULE MCJobRunner -----------------------------
(***************************************************************************)
(* Small instances of JobRunner for TLC.  Jobs are numbers because the     *)
(* claim loop walks them in order of creation, so they cannot be           *)
(* symmetric; plans and providers are model values.                        *)
(***************************************************************************)
EXTENDS JobRunner

CONSTANTS plan, otherPlan, provider    \* model values

NoDeps == [j \in Jobs |-> {}]
Chain == [j \in Jobs |-> {k \in Jobs : k = j - 1}]    \* each job uses the one before

OnePlan == [j \in Jobs |-> plan]
OneProvider == [j \in Jobs |-> provider]

\* Three jobs of one provider: 1 and 3 share a plan, and if 1 and 2 are of an
\* older policy, they share the limit of the provider.
TwoPlans == [j \in Jobs |-> IF j = 2 THEN otherPlan ELSE plan]

Limit1 == [p \in Plans |-> 1]
Limit2 == [p \in Plans |-> 2]
=============================================================================
