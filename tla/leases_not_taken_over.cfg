SPECIFICATION Spec
CONSTANTS
    MaxTurns = 2
    AttemptLimit = 2
    MaxQuestions = 1
    MaxTroubles = 2
INVARIANT TakesOverLeases
CHECK_DEADLOCK FALSE
