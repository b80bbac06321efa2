SPECIFICATION FairSpec
CONSTANTS
    MaxIterations = 2
    Budget <- SmallBudget
    MaxRecovery = 1
    AutoCompaction = TRUE
    BreakerThreshold = 2
    Answers <- OrderlyAnswers
    MaxTokens = 1
    ResumeRaces = TRUE
    MaxDrops = 1
    MaxResumes = 1
CHECK_DEADLOCK FALSE
PROPERTIES RunStops
INVARIANTS RecoveryDataComplete LimitsHold ContextIsComplete OutcomesAgree
