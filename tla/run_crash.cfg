SPECIFICATION Spec
CONSTANTS
    MaxIterations = 2
    Budget <- NoBudget
    MaxRecovery = 1
    AutoCompaction = TRUE
    BreakerThreshold = 2
    Answers <- UnmeteredAnswers
    MaxTokens = 1
    ResumeRaces = FALSE
    MaxDrops = 2
    MaxResumes = 2
CHECK_DEADLOCK FALSE
INVARIANTS RecoveryBounded ToolResultsAnswerLatest DroppedRunIsResumable
