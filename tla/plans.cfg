SPECIFICATION PlansSpec
CONSTANTS
    Tabs = {u1, u2}
    NewTasks = {n}
    OldTasks = {e}
    NoTab = NoTab
    Media = m
    MaxTurns = 1
    MaxEdits = 2
    MaxDrafts = 1
    MaxPlans = 2
    MaxFaults = 1
    Callers = {c1, c2}
    Jobs = {j1, j2}
    NoJob = NoJob
    InitialBudget = 1
    Budgets = {0, 1, 2}
    MaxRounds = 1
    MaxRequests = 3
SYMMETRY TabSymmetry
INVARIANTS TypeOK OneJobPerTask CatalogAgrees RetriesFindTheirBatch RoundsWithinLimit BudgetKept
PROPERTIES ConfirmedOnCurrentFacts AgentKeepsEdits OneDecisionAtATime
CHECK_DEADLOCK FALSE
