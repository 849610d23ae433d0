SPECIFICATION FairSpec
CONSTANTS
    MaxTurns = 2
    AttemptLimit = 2
    MaxQuestions = 1
    MaxTroubles = 2
INVARIANTS TypeOK AutomaticRecoveriesBounded
PROPERTIES AddedAttemptIsAlone SettledNotRestarted 
CHECK_DEADLOCK FALSE
