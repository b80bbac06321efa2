SPECIFICATION FairSpec
CONSTANTS
    MaxIterations = 1
    Budget <- NoBudget
    MaxRecovery = 1
    AutoCompaction = TRUE
    BreakerThreshold = 2
    Answers <- OrderlyAnswers
    MaxTokens = 1
    ResumeRaces = FALSE
    MaxDrops = 1
    MaxResumes = 1
CHECK_DEADLOCK FALSE
PROPERTY EveryRunStops
